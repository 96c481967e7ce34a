------------------------------ MODULE FlowOrder ------------------------------
(***************************************************************************)
(* What executing a flow promises, without objects, callbacks or threads:  *)
(* a job runs once and after its dependees, a failure keeps the dependers  *)
(* from running, and the flow's verdict is its root's.  FlowExecution      *)
(* implements it.                                                          *)
(***************************************************************************)
EXTENDS Naturals, Sequences

CONSTANTS
  Jobs,       \* the names of the jobs
  Root,       \* the job the flow is executed for
  Dependees   \* Dependees[j]: the jobs j depends on

VARIABLES
  phase,      \* "waiting", "running", "ok" or "failed", for every job
  verdict     \* "none", or what the caller of execute() was told

vars == <<phase, verdict>>

DependeesOf(j) == {Dependees[j][i] : i \in DOMAIN Dependees[j]}

(* Jobs the caller asked to skip are ok from the start.                     *)
Init ==
  /\ phase \in [Jobs -> {"waiting", "ok"}]
  /\ verdict = "none"

Ready(j) == phase[j] = "waiting" /\ \A d \in DependeesOf(j) : phase[d] = "ok"

Begin(j) ==
  /\ Ready(j)
  /\ phase' = [phase EXCEPT ![j] = "running"]
  /\ UNCHANGED verdict

Disabled(j) ==        \* a disabled job counts as done when its turn comes
  /\ Ready(j)
  /\ phase' = [phase EXCEPT ![j] = "ok"]
  /\ UNCHANGED verdict

End(j) ==
  /\ phase[j] = "running"
  /\ phase' \in {[phase EXCEPT ![j] = "ok"], [phase EXCEPT ![j] = "failed"]}
  /\ UNCHANGED verdict

NeverRun(j) ==
  /\ phase[j] = "waiting"
  /\ \E d \in DependeesOf(j) : phase[d] = "failed"
  /\ phase' = [phase EXCEPT ![j] = "failed"]
  /\ UNCHANGED verdict

Announce ==
  /\ verdict = "none"
  /\ \/ phase[Root] = "ok" /\ verdict' = "SUCCEEDED"
     \/ phase[Root] = "failed" /\ verdict' = "FAILED"
  /\ UNCHANGED phase

Next == (\E j \in Jobs : Begin(j) \/ Disabled(j) \/ End(j) \/ NeverRun(j)) \/ Announce

Spec == Init /\ [][Next]_vars
=============================================================================
