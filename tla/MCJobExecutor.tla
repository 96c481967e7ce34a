---------------------------- MODULE MCJobExecutor ----------------------------
(* The executor and, beside it, the executions in memory and on disk.  The  *)
(* two share no state: a behaviour is one of the executor or of the cache,  *)
(* and leaves the other alone.                                              *)
EXTENDS JobExecutor, FlowCache

CONSTANTS f1, f2, r1, r2, r3, topic1

(* Requests for two flows: two of the scheduler and one of a web page.      *)
MCNames    == {f1, f2}
MCRequests == {r1, r2, r3}
MCName     == r1 :> f1 @@ r2 :> f2 @@ r3 :> f1
MCKind     == r1 :> "scheduler" @@ r2 :> "scheduler" @@ r3 :> "flow"
MCTopic    == r1 :> topic1 @@ r2 :> None @@ r3 :> None

VARIABLE part                             \* what this behaviour is about

(* Ids are interchangeable, and so are pages.                               *)
Interchangeable == Permutations(Ids) \cup Permutations(Pages)

PartInit ==
  /\ part \in {"executor", "cache"}
  /\ Init /\ CacheInit
  /\ part = "cache" \/ cacheSize = Cardinality(Ids)

(* An executor that reloads or is restarted, not both.                      *)
ExecutorStep == Next /\ (restarts' = 0 \/ delegate' = 0)

(* No crash where the cache is too small for all executions, and only of a  *)
(* server with one execution.                                               *)
Apart ==
  crashes' > 0 => /\ cacheSize >= Cardinality(Ids)
                  /\ Cardinality({i \in Ids : last'[i] # "none"}) <= 1

PartNext ==
  \/ part = "executor" /\ ExecutorStep /\ UNCHANGED <<cacheVars, part>>
  \/ part = "cache" /\ CacheNext /\ Apart /\ UNCHANGED <<vars, part>>

PartSpec == PartInit /\ [][PartNext]_<<vars, cacheVars, part>>
=============================================================================
