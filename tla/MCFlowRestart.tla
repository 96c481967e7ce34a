---------------------------- MODULE MCFlowRestart ----------------------------
(* Dependency graphs for FlowRestart.                                       *)
EXTENDS FlowRestart, TLC

CONSTANTS a, b, c

(* a depends on b and c, and b depends on c as well.                        *)
ShortcutJobs      == {a, b, c}
ShortcutDependees == a :> <<b, c>> @@ b :> <<c>> @@ c :> <<>>

(* a depends on the leaf b.                                                 *)
ChainJobs      == {a, b}
ChainDependees == a :> <<b>> @@ b :> <<>>

BothPages == {"execution", "history"}

(* Executions that may be cancelled, or are over and restarted, not both;   *)
(* the second time from the history page, with no job disabled before.      *)
Apart ==
  /\ asked' = 0 \/ ~cancelling'
  /\ asked = 1 /\ asked' = 2 => disabled = {} /\ ByHistory

ApartSpec ==
  /\ RestartInit /\ [][RestartNext /\ Apart]_allVars
  /\ \A t \in Threads : WF_allVars(Move(t) /\ UNCHANGED restartVars)
  /\ WF_allVars(WebStep)
=============================================================================
