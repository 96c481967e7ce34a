----------------------------- MODULE MCJobLocks -----------------------------
(* Three jobs over three resources and two permits.                         *)
EXTENDS JobLocks, TLC

CONSTANTS j1, j2, j3

MCResources == {1, 2, 3}
MCKnown     == {1, 2}

(* Ordered use: a reader of 1 that writes 2 and, as the first one to name   *)
(* it, 3; a writer of 1 and 2; a reader of 2 that needs all permits.        *)
OrderedJobs    == {j1, j2, j3}
OrderedReads   == j1 :> <<1>> @@ j2 :> <<>> @@ j3 :> <<2>>
OrderedWrites  == j1 :> <<2, 3>> @@ j2 :> <<1, 2>> @@ j3 :> <<>>
OrderedPermits == j1 :> 1 @@ j2 :> 0 @@ j3 :> 2
=============================================================================
