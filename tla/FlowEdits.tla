------------------------------ MODULE FlowEdits ------------------------------
(***************************************************************************)
(* What the menu of the flow page promises: a set of disabled jobs, edited *)
(* one job at a time, with all that a job depends on, or as a whole.       *)
(* FlowPage implements it with flags, classes and marks on SVG nodes.      *)
(***************************************************************************)
CONSTANTS
  Jobs,       \* the jobs of the flow
  Dependees   \* Dependees[j]: the jobs j depends on

VARIABLES
  off,    \* the disabled jobs
  edit    \* what the user did last, and to which jobs

vars == <<off, edit>>

(* The smallest set with j that is closed under dependency.                 *)
WithDependencies(j) ==
  LET Closed(S) == \A k \in S : Dependees[k] \subseteq S
  IN  {k \in Jobs : \A S \in SUBSET Jobs : j \in S /\ Closed(S) => k \in S}

Init ==
  /\ off \in SUBSET Jobs
  /\ edit = <<"load", Jobs>>

Load                   == edit' = <<"load", Jobs>> /\ off' \in SUBSET Jobs
Disable(j)             == edit' = <<"disable", {j}>> /\ off' = off \cup {j}
Enable(j)              == edit' = <<"enable", {j}>> /\ off' = off \ {j}
EnableAll              == edit' = <<"enableAll", Jobs>> /\ off' = {}
DisableDependencies(j) ==
  /\ edit' = <<"disableAncestor", {j}>>
  /\ off' = off \cup WithDependencies(j)

Next == Load \/ EnableAll \/ \E j \in Jobs : Disable(j) \/ Enable(j) \/ DisableDependencies(j)

Spec == Init /\ [][Next]_vars
=============================================================================
