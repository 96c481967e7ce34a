--------------------------- MODULE MCFlowExecution ---------------------------
(* A dependency graph for FlowExecution.                                    *)
EXTENDS FlowInvariant, TLC

CONSTANTS a, b, c, d

(* a depends on b and c, which share the dependee d.                        *)
DiamondJobs      == {a, b, c, d}
DiamondDependees == a :> <<b, c>> @@ b :> <<d>> @@ c :> <<d>> @@ d :> <<>>

(* Of the jobs, b and d may be disabled.                                    *)
SomeInit == Init /\ \A j \in {a, c} : status[Leaf(j)] # "IGNORED"

SomeSpec == SomeInit /\ [][Next]_vars
=============================================================================
