----------------------------- MODULE MCFlowFile -----------------------------
(* A dependency graph for FlowFile.                                         *)
EXTENDS FlowFile, TLC

CONSTANTS a, b, c, d

(* a depends on c, b and d, and b depends on c as well: once c has failed   *)
(* the group of a does not come to b any more.                              *)
MCJobs      == {a, b, c, d}
MCDependees == a :> <<c, b, d>> @@ b :> <<c>> @@ c :> <<>> @@ d :> <<>>

(* Of b and c one may be disabled, and d.  Cancels only where d is, saves   *)
(* that read leaf after leaf only where one of the others is as well.       *)
Without(j) == status[Leaf(j)] \in {"IGNORED", "COMPLETED"}

ApartSpec ==
  /\ FileInit /\ ~Without(a) /\ ~(Without(b) /\ Without(c))
  /\ whole \/ (Without(d) /\ (Without(b) \/ Without(c)))
  /\ [][FileNext /\ (cancelling' /\ ~cancelling => whole /\ Without(d))]_savedVars
=============================================================================
