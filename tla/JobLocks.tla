------------------------------ MODULE JobLocks ------------------------------
(***************************************************************************)
(* Resource locking of jobs: JobWrappingFactory gives a job that names     *)
(* permits or locks a ResourceThrottledJob around it, which acquires the   *)
(* permits, then the read locks, then the write locks, runs the job, and   *)
(* releases them in the same order.                                        *)
(*                                                                         *)
(* Permits come from one fair Semaphore, locks are fair                    *)
(* ReentrantReadWriteLocks: both serve their waiters in the order of       *)
(* arrival, modelled as joining a queue and being granted at its head.     *)
(* The lock object of a resource is made by the first job that asks        *)
(* ReadWriteLockManager for it, in two steps, a look and a put.            *)
(*                                                                         *)
(* Abstracted: the times AbstractJobLock keeps; interrupts, which nothing  *)
(* in the program sends to a job thread; a resource named twice in a list. *)
(***************************************************************************)
EXTENDS Naturals, Sequences, FiniteSets

CONSTANTS
  Jobs,         \* jobs, each with one thread at a time
  Resources,    \* resource names, in their sorting order: a set of numbers
  ReadLocks,    \* ReadLocks[j]: job j's read.lock list, sorted by JobDescriptor
  WriteLocks,   \* WriteLocks[j]: job j's write.lock list, sorted by JobDescriptor
  Permits,      \* Permits[j]: job.permits of j
  TotalPermits, \* total.job.permits
  Known,        \* resources that earlier jobs have asked for
  NoJob, NoLock

Sorted(s) == \A i, k \in DOMAIN s : i < k => s[i] < s[k]

ASSUME LockConstants ==
  /\ Resources \subseteq Nat
  /\ ReadLocks \in [Jobs -> Seq(Resources)]
  /\ WriteLocks \in [Jobs -> Seq(Resources)]
  /\ \A j \in Jobs : Sorted(ReadLocks[j]) /\ Sorted(WriteLocks[j])
  /\ Permits \in [Jobs -> Nat]
  /\ TotalPermits \in Nat
  /\ Known \subseteq Resources
  /\ NoJob \notin Jobs

(* A lock object: the resource and the job that made it.                    *)
Locks == Resources \X (Jobs \cup {NoJob})

ASSUME NoLockIsNone == NoLock \notin Locks

(* The group lock of job j, in the order JobWrappingFactory builds it.      *)
PermitRequest   == [kind |-> "permits", on |-> NoLock]
ReadRequest(r)  == [kind |-> "read", on |-> r]
WriteRequest(r) == [kind |-> "write", on |-> r]

GroupLockWritesFirst(j) ==              \* mutant
  (IF Permits[j] > 0 THEN <<PermitRequest>> ELSE <<>>)
    \o [i \in DOMAIN WriteLocks[j] |-> WriteRequest(WriteLocks[j][i])]
    \o [i \in DOMAIN ReadLocks[j] |-> ReadRequest(ReadLocks[j][i])]

GroupLock(j) ==
  (IF Permits[j] > 0 THEN <<PermitRequest>> ELSE <<>>)
    \o [i \in DOMAIN ReadLocks[j] |-> ReadRequest(ReadLocks[j][i])]
    \o [i \in DOMAIN WriteLocks[j] |-> WriteRequest(WriteLocks[j][i])]

VARIABLES
  phase,     \* what the thread of each job does
  at,        \* index into the job's group lock
  canceled,  \* ResourceThrottledJob.canceled
  table,     \* ReadWriteLockManager: the lock object of a resource, or NoLock
  mine,      \* the lock object each job's ReadWriteResourceLock got
  writer,    \* the holder of each lock object's write lock
  readers,   \* the holders of each lock object's read lock
  available, \* free permits
  queue      \* the jobs waiting at each lock object and at the semaphore

vars == <<phase, at, canceled, table, mine, writer, readers, available, queue>>

lockVars == <<writer, readers, available>>

Phases == {"idle", "building", "making", "acquiring", "queued", "running", "releasing"}

Init ==
  /\ phase = [j \in Jobs |-> "idle"]
  /\ at = [j \in Jobs |-> 1]
  /\ canceled = [j \in Jobs |-> FALSE]
  /\ table = [r \in Resources |-> IF r \in Known THEN <<r, NoJob>> ELSE NoLock]
  /\ mine = [j \in Jobs |-> [r \in Resources |-> NoLock]]
  /\ writer = [l \in Locks |-> NoJob]
  /\ readers = [l \in Locks |-> {}]
  /\ available = TotalPermits
  /\ queue = [l \in Locks \cup {NoLock} |-> <<>>]

Request(j) == GroupLock(j)[at[j]]

AtEnd(j) == at[j] > Len(GroupLock(j))

Goto(j, p, i) == phase' = [phase EXCEPT ![j] = p] /\ at' = [at EXCEPT ![j] = i]

(* Where job j waits for its request: a lock object, or NoLock for permits. *)
Place(j) == IF Request(j).kind = "permits" THEN NoLock ELSE mine[j][Request(j).on]

-----------------------------------------------------------------------------
(* JobWrappingFactory.apply(): a job that asks for more permits than there  *)
(* are becomes an InitErrorJob, which fails without locking anything.       *)

Load(j) ==
  /\ phase[j] = "idle"
  /\ Permits[j] <= TotalPermits
  /\ Goto(j, "building", 1)
  /\ UNCHANGED <<canceled, table, mine, lockVars, queue>>

(* getReadLock / getWriteLock: look the resource up.                        *)
GetLock(j) ==
  /\ phase[j] = "building"
  /\ ~AtEnd(j)
  /\ IF Request(j).kind = "permits"
       THEN Goto(j, "building", at[j] + 1) /\ UNCHANGED mine
       ELSE IF table[Request(j).on] = NoLock
       THEN Goto(j, "making", at[j]) /\ UNCHANGED mine
       ELSE /\ mine' = [mine EXCEPT ![j][Request(j).on] = table[Request(j).on]]
            /\ Goto(j, "building", at[j] + 1)
  /\ UNCHANGED <<canceled, table, lockVars, queue>>

(* ... and put a new lock object if it was not there.                       *)
PutLock(j) ==
  LET r == Request(j).on IN
  /\ phase[j] = "making"
  /\ table' = [table EXCEPT ![r] = <<r, j>>]
  /\ mine' = [mine EXCEPT ![j][r] = <<r, j>>]
  /\ Goto(j, "building", at[j] + 1)
  /\ UNCHANGED <<canceled, lockVars, queue>>

-----------------------------------------------------------------------------
(* ResourceThrottledJob.run().                                              *)

StartRun(j) ==
  /\ phase[j] = "building"
  /\ AtEnd(j)
  /\ Goto(j, "acquiring", 1)
  /\ UNCHANGED <<canceled, table, mine, lockVars, queue>>

EnqueueInFront(j) ==                    \* mutant: the lock is not fair
  /\ phase[j] = "acquiring"
  /\ ~AtEnd(j)
  /\ queue' = [queue EXCEPT ![Place(j)] = <<j>> \o @]
  /\ Goto(j, "queued", at[j])
  /\ UNCHANGED <<canceled, table, mine, lockVars>>

(* acquireLock() of the next member of the group: wait in line ...          *)
Enqueue(j) ==
  /\ phase[j] = "acquiring"
  /\ ~AtEnd(j)
  /\ queue' = [queue EXCEPT ![Place(j)] = Append(@, j)]
  /\ Goto(j, "queued", at[j])
  /\ UNCHANGED <<canceled, table, mine, lockVars>>

First(j) == queue[Place(j)] # <<>> /\ Head(queue[Place(j)]) = j

LeaveQueue(j) ==
  /\ queue' = [queue EXCEPT ![Place(j)] = Tail(@)]
  /\ Goto(j, "acquiring", at[j] + 1)

(* ... and get it when it is free: a write lock when nobody else writes and *)
(* nobody reads, the job itself included; a read lock when nobody else      *)
(* writes.                                                                  *)

GrantPermits(j) ==
  /\ phase[j] = "queued" /\ Request(j).kind = "permits" /\ First(j)
  /\ available >= Permits[j]
  /\ available' = available - Permits[j]
  /\ LeaveQueue(j)
  /\ UNCHANGED <<canceled, table, mine, writer, readers>>

GrantRead(j) ==
  /\ phase[j] = "queued" /\ Request(j).kind = "read" /\ First(j)
  /\ writer[Place(j)] \in {NoJob, j}
  /\ readers' = [readers EXCEPT ![Place(j)] = @ \cup {j}]
  /\ LeaveQueue(j)
  /\ UNCHANGED <<canceled, table, mine, writer, available>>

GrantWriteIgnoringReaders(j) ==         \* mutant
  /\ phase[j] = "queued" /\ Request(j).kind = "write" /\ First(j)
  /\ writer[Place(j)] \in {NoJob, j}
  /\ writer' = [writer EXCEPT ![Place(j)] = j]
  /\ LeaveQueue(j)
  /\ UNCHANGED <<canceled, table, mine, readers, available>>

GrantWrite(j) ==
  /\ phase[j] = "queued" /\ Request(j).kind = "write" /\ First(j)
  /\ writer[Place(j)] \in {NoJob, j} /\ readers[Place(j)] = {}
  /\ writer' = [writer EXCEPT ![Place(j)] = j]
  /\ LeaveQueue(j)
  /\ UNCHANGED <<canceled, table, mine, readers, available>>

RunInner(j) ==
  /\ phase[j] = "acquiring" /\ AtEnd(j)
  /\ ~canceled[j]
  /\ Goto(j, "running", at[j])
  /\ UNCHANGED <<canceled, table, mine, lockVars, queue>>

SkipCanceledKeeping(j) ==               \* mutant: return before the finally
  /\ phase[j] = "acquiring" /\ AtEnd(j)
  /\ canceled[j]
  /\ Goto(j, "releasing", at[j])
  /\ UNCHANGED <<canceled, table, mine, lockVars, queue>>

SkipCanceled(j) ==      \* "Job was canceled while waiting for lock."
  /\ phase[j] = "acquiring" /\ AtEnd(j)
  /\ canceled[j]
  /\ Goto(j, "releasing", 1)
  /\ UNCHANGED <<canceled, table, mine, lockVars, queue>>

InnerEnds(j) ==         \* returns or throws: finally
  /\ phase[j] = "running"
  /\ Goto(j, "releasing", 1)
  /\ UNCHANGED <<canceled, table, mine, lockVars, queue>>

Release(j) ==
  /\ phase[j] = "releasing"
  /\ ~AtEnd(j)
  /\ available' = IF Request(j).kind = "permits" THEN available + Permits[j] ELSE available
  /\ readers' = IF Request(j).kind = "read"
                  THEN [readers EXCEPT ![Place(j)] = @ \ {j}] ELSE readers
  /\ writer' = IF Request(j).kind = "write"
                 THEN [writer EXCEPT ![Place(j)] = NoJob] ELSE writer
  /\ Goto(j, "releasing", at[j] + 1)
  /\ UNCHANGED <<canceled, table, mine, queue>>

(* The job object is dropped; the next run of the job makes a new one.      *)
EndRun(j) ==
  /\ phase[j] = "releasing"
  /\ AtEnd(j)
  /\ Goto(j, "idle", 1)
  /\ canceled' = [canceled EXCEPT ![j] = FALSE]
  /\ mine' = [mine EXCEPT ![j] = [r \in Resources |-> NoLock]]
  /\ UNCHANGED <<table, lockVars, queue>>

(* cancel() of the ResourceThrottledJob: it interrupts nobody, so a job     *)
(* that waits in a queue goes on waiting.                                   *)
Cancel(j) ==
  /\ phase[j] \in {"acquiring", "queued", "running"}
  /\ ~canceled[j]
  /\ canceled' = [canceled EXCEPT ![j] = TRUE]
  /\ UNCHANGED <<phase, at, table, mine, lockVars, queue>>

-----------------------------------------------------------------------------
Grant(j) == GrantPermits(j) \/ GrantRead(j) \/ GrantWrite(j)

ThreadStep(j) ==
  \/ GetLock(j) \/ PutLock(j) \/ StartRun(j) \/ Enqueue(j) \/ Grant(j)
  \/ RunInner(j) \/ SkipCanceled(j) \/ InnerEnds(j) \/ Release(j) \/ EndRun(j)

Next == \E j \in Jobs : Load(j) \/ ThreadStep(j) \/ Cancel(j)

Spec == Init /\ [][Next]_vars

(* Threads are scheduled and inner jobs end; nobody has to start or cancel. *)
FairSpec == Spec /\ \A j \in Jobs : WF_vars(ThreadStep(j))

-----------------------------------------------------------------------------
(* Type invariant: phases, indices and holders of locks and permits keep to *)
(* the values the lock classes can have.                                    *)
TypeOK ==
  /\ phase \in [Jobs -> Phases]
  /\ at \in [Jobs -> Nat \ {0}]
  /\ canceled \in [Jobs -> BOOLEAN]
  /\ table \in [Resources -> Locks \cup {NoLock}]
  /\ mine \in [Jobs -> [Resources -> Locks \cup {NoLock}]]
  /\ writer \in [Locks -> Jobs \cup {NoJob}]
  /\ readers \in [Locks -> SUBSET Jobs]
  /\ available \in Nat
  /\ queue \in [Locks \cup {NoLock} -> Seq(Jobs)]

RangeOf(s) == {s[i] : i \in DOMAIN s}
Reads(j)   == RangeOf(ReadLocks[j])
Writes(j)  == RangeOf(WriteLocks[j])

(* While a job runs, no other running job reads or writes what it writes.   *)
ExclusiveWriters ==
  \A j, k \in Jobs :
    phase[j] = "running" /\ phase[k] = "running" /\ j # k
      => Writes(j) \cap (Reads(k) \cup Writes(k)) = {}

(* The inductive invariant behind ExclusiveWriters.  A job has the requests *)
(* of its group lock from their grant to their release, one after another   *)
(* in the same order both times; all the jobs that got a lock object for a  *)
(* resource got the one in the table; and a lock object with a writer has   *)
(* no other reader.                                                         *)
Held(j) ==
  {i \in DOMAIN GroupLock(j) :
     \/ phase[j] \in {"acquiring", "queued"} /\ i < at[j]
     \/ phase[j] = "running"
     \/ phase[j] = "releasing" /\ i >= at[j]}

Got(j) ==
  {i \in DOMAIN GroupLock(j) :
     \/ phase[j] \in {"building", "making"} /\ i < at[j]
     \/ phase[j] \in {"acquiring", "queued", "running", "releasing"}}

AtRequest ==
  \A j \in Jobs : phase[j] \in {"making", "queued"} => ~AtEnd(j)

OneTable ==
  /\ \A r \in Resources : table[r] # NoLock => table[r][1] = r
  /\ \A r \in Known : table[r] # NoLock
  /\ \A j \in Jobs : \A r \in Resources : mine[j][r] \in {NoLock, table[r]}
  /\ \A j \in Jobs : phase[j] = "making" =>
       Request(j).kind # "permits" /\ table[Request(j).on] = NoLock

LocksGot ==
  \A j \in Jobs : \A i \in Got(j) :
    GroupLock(j)[i].kind # "permits" => mine[j][GroupLock(j)[i].on] # NoLock

LocksHeld ==
  \A j \in Jobs : \A i \in Held(j) :
    /\ GroupLock(j)[i].kind = "read" => j \in readers[mine[j][GroupLock(j)[i].on]]
    /\ GroupLock(j)[i].kind = "write" => writer[mine[j][GroupLock(j)[i].on]] = j

OneWriter ==
  \A l \in Locks : writer[l] # NoJob => readers[l] \subseteq {writer[l]}

LockInv ==
  /\ TypeOK /\ AtRequest /\ OneTable /\ LocksGot /\ LocksHeld /\ OneWriter

(* No two jobs are the first ones to name a resource.                       *)
Settled ==
  \A r \in Resources \ Known : \A j, k \in Jobs :
    r \in (Reads(j) \cup Writes(j)) \cap (Reads(k) \cup Writes(k)) => j = k

(* No job reads a resource that sorts after one it writes: the group lock,  *)
(* all reads before all writes, is then in order as a whole.                *)
ReadsFirst ==
  \A j \in Jobs : \A r \in Reads(j), w \in Writes(j) : r < w

(* A job has its permits from their grant to their release.                 *)
HoldsPermits(j) ==
  /\ Permits[j] > 0
  /\ \/ phase[j] \in {"acquiring", "queued"} /\ at[j] > 1
     \/ phase[j] = "running"
     \/ phase[j] = "releasing" /\ at[j] = 1

PermitsTaken == UNION {{j} \X (1 .. Permits[j]) : j \in {k \in Jobs : HoldsPermits(k)}}

(* Permits are neither lost nor made: the free ones and those of the jobs   *)
(* between grant and release are all there are, through cancels, failures   *)
(* and any order of releases.                                               *)
PermitsConserved == available + Cardinality(PermitsTaken) = TotalPermits

(* j waits for something k has, or for its turn behind k.                   *)
WaitsFor(j, k) ==
  /\ phase[j] = "queued"
  /\ Request(j).kind # "permits"
  /\ LET l == Place(j) IN
     \/ writer[l] = k /\ k # j
     \/ Request(j).kind = "write" /\ k \in readers[l]
     \/ \E m, n \in DOMAIN queue[l] : m < n /\ queue[l][m] = k /\ queue[l][n] = j

(* The inductive invariant behind NoDeadlock, with LockInv: who has a lock  *)
(* object has been granted a request for it and has not released it; and in *)
(* a queue each job stands once, and waits for just this one.               *)
HoldersHold ==
  \A j \in Jobs : \A l \in Locks :
    /\ j \in readers[l] => \E i \in Held(j) :
         GroupLock(j)[i].kind = "read" /\ mine[j][GroupLock(j)[i].on] = l
    /\ writer[l] = j => \E i \in Held(j) :
         GroupLock(j)[i].kind = "write" /\ mine[j][GroupLock(j)[i].on] = l

QueuesOfWaiters ==
  \A l \in Locks \cup {NoLock} :
    /\ \A m \in DOMAIN queue[l] :
         phase[queue[l][m]] = "queued" /\ Place(queue[l][m]) = l
    /\ \A m, n \in DOMAIN queue[l] : queue[l][m] = queue[l][n] => m = n

(* "Ordered resource locking should help prevent simple deadlocking         *)
(* situations": no set of jobs in which everyone waits for another one.     *)
NoDeadlock ==
  \A S \in (SUBSET Jobs) \ {{}} : \E j \in S : \A k \in S : ~WaitsFor(j, k)

(* A job that began to wait for its locks gets through: fair queues starve  *)
(* nobody, and a canceled job passes the resources on.                      *)
GetsThrough == \A j \in Jobs : phase[j] = "acquiring" ~> phase[j] = "idle"
=============================================================================
