--------------------------- MODULE JobLocksProofs ---------------------------
(***************************************************************************)
(* Proofs about JobLocks: its type invariant, and that running jobs never  *)
(* conflict over a lock, whatever the jobs, the resources and their lists, *)
(* as long as no two jobs race for the lock object of a new resource; and  *)
(* that no circle of jobs waits for each other's locks, if each reads only *)
(* what sorts before all that it writes.                                   *)
(***************************************************************************)
EXTENDS JobLocks, FiniteSetTheorems, SequenceTheorems, WellFoundedInduction, TLAPS

Requests == [kind : {"permits"}, on : {NoLock}]
            \cup [kind : {"read", "write"}, on : Resources]

(* The group lock of a job asks for the resources of its two lists, and for *)
(* each of them once in each kind.                                          *)
LEMMA GroupLockFacts ==
  ASSUME NEW j \in Jobs
  PROVE  /\ GroupLock(j) \in Seq(Requests)
         /\ \A r \in Reads(j) : \E i \in DOMAIN GroupLock(j) : GroupLock(j)[i] = ReadRequest(r)
         /\ \A r \in Writes(j) : \E i \in DOMAIN GroupLock(j) : GroupLock(j)[i] = WriteRequest(r)
         /\ \A i \in DOMAIN GroupLock(j) :
              /\ GroupLock(j)[i].kind = "read" => GroupLock(j)[i].on \in Reads(j)
              /\ GroupLock(j)[i].kind = "write" => GroupLock(j)[i].on \in Writes(j)
         /\ \A i, k \in DOMAIN GroupLock(j) : GroupLock(j)[i] = GroupLock(j)[k] => i = k
         /\ \A i, k \in DOMAIN GroupLock(j) :
              /\ i < k /\ "permits" \notin {GroupLock(j)[i].kind, GroupLock(j)[k].kind}
              => \/ GroupLock(j)[i].kind = "read" /\ GroupLock(j)[k].kind = "write"
                 \/ GroupLock(j)[i].on < GroupLock(j)[k].on
         /\ Permits[j] > 0 => 1 \in DOMAIN GroupLock(j) /\ GroupLock(j)[1].kind = "permits"
         /\ \A i \in DOMAIN GroupLock(j) :
              GroupLock(j)[i].kind = "permits" => i = 1 /\ Permits[j] > 0
<1> DEFINE P == IF Permits[j] > 0 THEN <<PermitRequest>> ELSE <<>>
           R == [i \in DOMAIN ReadLocks[j] |-> ReadRequest(ReadLocks[j][i])]
           W == [i \in DOMAIN WriteLocks[j] |-> WriteRequest(WriteLocks[j][i])]
<1>1. /\ P \in Seq(Requests) /\ Len(P) = IF Permits[j] > 0 THEN 1 ELSE 0
      /\ \A i \in 1..Len(P) : P[i] = PermitRequest
  <2>1. PermitRequest \in Requests
    BY DEF PermitRequest, Requests
  <2> QED
    BY <2>1, LockConstants
<1>2. /\ R \in Seq(Requests) /\ Len(R) = Len(ReadLocks[j])
      /\ \A i \in 1..Len(R) : R[i] = ReadRequest(ReadLocks[j][i]) /\ ReadLocks[j][i] \in Resources
  <2>1. ReadLocks[j] \in Seq(Resources)
    BY LockConstants
  <2>2. \A i \in 1..Len(ReadLocks[j]) : ReadRequest(ReadLocks[j][i]) \in Requests
    BY <2>1 DEF ReadRequest, Requests
  <2> QED
    BY <2>1, <2>2
<1>3. /\ W \in Seq(Requests) /\ Len(W) = Len(WriteLocks[j])
      /\ \A i \in 1..Len(W) : W[i] = WriteRequest(WriteLocks[j][i]) /\ WriteLocks[j][i] \in Resources
  <2>1. WriteLocks[j] \in Seq(Resources)
    BY LockConstants
  <2>2. \A i \in 1..Len(WriteLocks[j]) : WriteRequest(WriteLocks[j][i]) \in Requests
    BY <2>1 DEF WriteRequest, Requests
  <2> QED
    BY <2>1, <2>2
<1>4. GroupLock(j) = (P \o R) \o W
  BY DEF GroupLock
<1> HIDE DEF P, R, W
<1>5. /\ GroupLock(j) \in Seq(Requests)
      /\ Len(GroupLock(j)) = Len(P) + Len(R) + Len(W)
      /\ \A i \in 1..Len(P) : GroupLock(j)[i] = PermitRequest
      /\ \A i \in 1..Len(R) : GroupLock(j)[Len(P) + i] = R[i]
      /\ \A i \in 1..Len(W) : GroupLock(j)[Len(P) + Len(R) + i] = W[i]
  <2>1. /\ P \o R \in Seq(Requests) /\ Len(P \o R) = Len(P) + Len(R)
        /\ \A i \in 1..(Len(P) + Len(R)) :
             (P \o R)[i] = IF i <= Len(P) THEN P[i] ELSE R[i - Len(P)]
    BY <1>1, <1>2, ConcatProperties
  <2>2. /\ GroupLock(j) \in Seq(Requests) /\ Len(GroupLock(j)) = Len(P) + Len(R) + Len(W)
        /\ \A i \in 1..(Len(P) + Len(R) + Len(W)) :
             GroupLock(j)[i] = IF i <= Len(P) + Len(R) THEN (P \o R)[i]
                               ELSE W[i - (Len(P) + Len(R))]
    <3>1. ASSUME NEW s \in Seq(Requests), NEW t \in Seq(Requests)
          PROVE  /\ s \o t \in Seq(Requests) /\ Len(s \o t) = Len(s) + Len(t)
                 /\ \A i \in 1..(Len(s) + Len(t)) :
                      (s \o t)[i] = IF i <= Len(s) THEN s[i] ELSE t[i - Len(s)]
      BY ConcatProperties
    <3> DEFINE PR == P \o R
    <3>2. PR \in Seq(Requests) /\ Len(PR) = Len(P) + Len(R) /\ GroupLock(j) = PR \o W
      BY <2>1, <1>4
    <3> HIDE DEF PR
    <3>3. /\ PR \o W \in Seq(Requests) /\ Len(PR \o W) = Len(PR) + Len(W)
          /\ \A i \in 1..(Len(PR) + Len(W)) :
               (PR \o W)[i] = IF i <= Len(PR) THEN PR[i] ELSE W[i - Len(PR)]
      BY <3>1, <3>2, <1>3
    <3> QED
      BY <3>2, <3>3 DEF PR
  <2>3. Len(P) \in Nat /\ Len(R) \in Nat /\ Len(W) \in Nat
    BY <1>1, <1>2, <1>3
  <2>4. \A i \in 1..Len(P) : GroupLock(j)[i] = PermitRequest
    BY <2>1, <2>2, <2>3, <1>1
  <2>5. \A i \in 1..Len(R) : GroupLock(j)[Len(P) + i] = R[i]
    BY <2>1, <2>2, <2>3
  <2>6. \A i \in 1..Len(W) : GroupLock(j)[Len(P) + Len(R) + i] = W[i]
    BY <2>2, <2>3
  <2> QED
    BY <2>2, <2>4, <2>5, <2>6
<1>6. /\ DOMAIN GroupLock(j) = 1..(Len(P) + Len(R) + Len(W))
      /\ DOMAIN ReadLocks[j] = 1..Len(R)
      /\ DOMAIN WriteLocks[j] = 1..Len(W)
      /\ Len(P) \in Nat /\ Len(R) \in Nat /\ Len(W) \in Nat
  BY <1>1, <1>2, <1>3, <1>5, LockConstants
<1>7. \A i \in DOMAIN GroupLock(j) :
        \/ i \in 1..Len(P) /\ GroupLock(j)[i] = PermitRequest
        \/ \E k \in 1..Len(R) : i = Len(P) + k /\ GroupLock(j)[i] = ReadRequest(ReadLocks[j][k])
        \/ \E k \in 1..Len(W) : /\ i = Len(P) + Len(R) + k
                                /\ GroupLock(j)[i] = WriteRequest(WriteLocks[j][k])
  <2> SUFFICES ASSUME NEW i \in DOMAIN GroupLock(j)
               PROVE  \/ i \in 1..Len(P) /\ GroupLock(j)[i] = PermitRequest
                      \/ \E k \in 1..Len(R) : /\ i = Len(P) + k
                                              /\ GroupLock(j)[i] = ReadRequest(ReadLocks[j][k])
                      \/ \E k \in 1..Len(W) : /\ i = Len(P) + Len(R) + k
                                              /\ GroupLock(j)[i] = WriteRequest(WriteLocks[j][k])
    OBVIOUS
  <2>1. CASE i <= Len(P)
    BY <2>1, <1>5, <1>6
  <2>2. CASE i > Len(P) /\ i <= Len(P) + Len(R)
    <3>1. i - Len(P) \in 1..Len(R) /\ i = Len(P) + (i - Len(P))
      BY <2>2, <1>6
    <3> QED
      BY <3>1, <1>5, <1>2
  <2>3. CASE i > Len(P) + Len(R)
    <3>1. i - (Len(P) + Len(R)) \in 1..Len(W) /\ i = Len(P) + Len(R) + (i - (Len(P) + Len(R)))
      BY <2>3, <1>6
    <3> QED
      BY <3>1, <1>5, <1>3
  <2> QED
    BY <2>1, <2>2, <2>3, <1>6
<1>8. \A r \in Reads(j) : \E i \in DOMAIN GroupLock(j) : GroupLock(j)[i] = ReadRequest(r)
  <2> SUFFICES ASSUME NEW k \in 1..Len(R)
               PROVE  \E i \in DOMAIN GroupLock(j) : GroupLock(j)[i] = ReadRequest(ReadLocks[j][k])
    BY <1>6 DEF Reads, RangeOf
  <2>1. Len(P) + k \in DOMAIN GroupLock(j)
    BY <1>6
  <2> QED
    BY <2>1, <1>5, <1>2
<1>9. \A r \in Writes(j) : \E i \in DOMAIN GroupLock(j) : GroupLock(j)[i] = WriteRequest(r)
  <2> SUFFICES ASSUME NEW k \in 1..Len(W)
               PROVE  \E i \in DOMAIN GroupLock(j) : GroupLock(j)[i] = WriteRequest(WriteLocks[j][k])
    BY <1>6 DEF Writes, RangeOf
  <2>1. Len(P) + Len(R) + k \in DOMAIN GroupLock(j)
    BY <1>6
  <2> QED
    BY <2>1, <1>5, <1>3
<1>10. \A i \in DOMAIN GroupLock(j) :
         /\ GroupLock(j)[i].kind = "read" => GroupLock(j)[i].on \in Reads(j)
         /\ GroupLock(j)[i].kind = "write" => GroupLock(j)[i].on \in Writes(j)
  BY <1>6, <1>7 DEF PermitRequest, ReadRequest, WriteRequest, Reads, Writes, RangeOf
<1>11. /\ \A i, k \in 1..Len(R) : ReadLocks[j][i] = ReadLocks[j][k] => i = k
       /\ \A i, k \in 1..Len(W) : WriteLocks[j][i] = WriteLocks[j][k] => i = k
       /\ \A i, k \in 1..Len(R) : i < k => ReadLocks[j][i] < ReadLocks[j][k]
       /\ \A i, k \in 1..Len(W) : i < k => WriteLocks[j][i] < WriteLocks[j][k]
  <2>1. /\ \A i, k \in 1..Len(R) : i < k => ReadLocks[j][i] < ReadLocks[j][k]
        /\ \A i, k \in 1..Len(W) : i < k => WriteLocks[j][i] < WriteLocks[j][k]
    BY <1>6, LockConstants DEF Sorted
  <2>2. /\ \A i \in 1..Len(R) : ReadLocks[j][i] \in Nat
        /\ \A i \in 1..Len(W) : WriteLocks[j][i] \in Nat
    BY <1>2, <1>3, LockConstants
  <2>3. ASSUME NEW i \in 1..Len(R), NEW k \in 1..Len(R), ReadLocks[j][i] = ReadLocks[j][k]
        PROVE  i = k
    <3>1. ~(i < k) /\ ~(k < i)
      BY <2>1, <2>2, <2>3
    <3> QED
      BY <3>1, <1>6
  <2>4. ASSUME NEW i \in 1..Len(W), NEW k \in 1..Len(W), WriteLocks[j][i] = WriteLocks[j][k]
        PROVE  i = k
    <3>1. ~(i < k) /\ ~(k < i)
      BY <2>1, <2>2, <2>4
    <3> QED
      BY <3>1, <1>6
  <2> QED
    BY <2>1, <2>3, <2>4
<1>12. \A i, k \in DOMAIN GroupLock(j) : GroupLock(j)[i] = GroupLock(j)[k] => i = k
  <2> SUFFICES ASSUME NEW i \in DOMAIN GroupLock(j), NEW k \in DOMAIN GroupLock(j),
                      GroupLock(j)[i] = GroupLock(j)[k]
               PROVE  i = k
    OBVIOUS
  <2>1. CASE GroupLock(j)[i].kind = "permits"
    <3>1. i \in 1..Len(P) /\ k \in 1..Len(P)
      BY <2>1, <1>7 DEF ReadRequest, WriteRequest
    <3> QED
      BY <3>1, <1>1
  <2>2. CASE GroupLock(j)[i].kind = "read"
    <3>1. PICK m \in 1..Len(R) : i = Len(P) + m /\ GroupLock(j)[i] = ReadRequest(ReadLocks[j][m])
      BY <2>2, <1>7 DEF PermitRequest, WriteRequest
    <3>2. PICK n \in 1..Len(R) : k = Len(P) + n /\ GroupLock(j)[k] = ReadRequest(ReadLocks[j][n])
      BY <2>2, <1>7 DEF PermitRequest, WriteRequest
    <3>3. ReadLocks[j][m] = ReadLocks[j][n]
      BY <3>1, <3>2 DEF ReadRequest
    <3> QED
      BY <3>1, <3>2, <3>3, <1>11
  <2>3. CASE GroupLock(j)[i].kind = "write"
    <3>1. PICK m \in 1..Len(W) : /\ i = Len(P) + Len(R) + m
                                 /\ GroupLock(j)[i] = WriteRequest(WriteLocks[j][m])
      BY <2>3, <1>7 DEF PermitRequest, ReadRequest
    <3>2. PICK n \in 1..Len(W) : /\ k = Len(P) + Len(R) + n
                                 /\ GroupLock(j)[k] = WriteRequest(WriteLocks[j][n])
      BY <2>3, <1>7 DEF PermitRequest, ReadRequest
    <3>3. WriteLocks[j][m] = WriteLocks[j][n]
      BY <3>1, <3>2 DEF WriteRequest
    <3> QED
      BY <3>1, <3>2, <3>3, <1>11
  <2>4. GroupLock(j)[i].kind \in {"permits", "read", "write"}
    BY <1>7 DEF PermitRequest, ReadRequest, WriteRequest
  <2> QED
    BY <2>1, <2>2, <2>3, <2>4
<1>13. ASSUME NEW i \in DOMAIN GroupLock(j), NEW k \in DOMAIN GroupLock(j), i < k,
              "permits" \notin {GroupLock(j)[i].kind, GroupLock(j)[k].kind}
       PROVE  \/ GroupLock(j)[i].kind = "read" /\ GroupLock(j)[k].kind = "write"
              \/ GroupLock(j)[i].on < GroupLock(j)[k].on
  <2>1. /\ PermitRequest.kind = "permits"
        /\ \A r : ReadRequest(r).kind = "read" /\ ReadRequest(r).on = r
        /\ \A r : WriteRequest(r).kind = "write" /\ WriteRequest(r).on = r
    BY DEF PermitRequest, ReadRequest, WriteRequest
  <2>2. CASE \E m \in 1..Len(W) : i = Len(P) + Len(R) + m /\ GroupLock(j)[i] = WriteRequest(WriteLocks[j][m])
    <3>1. PICK m \in 1..Len(W) : /\ i = Len(P) + Len(R) + m
                                 /\ GroupLock(j)[i] = WriteRequest(WriteLocks[j][m])
      BY <2>2
    <3>2. PICK n \in 1..Len(W) : /\ k = Len(P) + Len(R) + n
                                 /\ GroupLock(j)[k] = WriteRequest(WriteLocks[j][n])
      BY <1>6, <1>7, <1>13, <2>1, <3>1
    <3> QED
      BY <1>6, <1>11, <1>13, <2>1, <3>1, <3>2
  <2>3. CASE \E m \in 1..Len(R) : i = Len(P) + m /\ GroupLock(j)[i] = ReadRequest(ReadLocks[j][m])
    <3>1. PICK m \in 1..Len(R) : i = Len(P) + m /\ GroupLock(j)[i] = ReadRequest(ReadLocks[j][m])
      BY <2>3
    <3>2. CASE \E n \in 1..Len(W) : GroupLock(j)[k] = WriteRequest(WriteLocks[j][n])
      BY <2>1, <3>1, <3>2
    <3>3. CASE \E n \in 1..Len(R) : k = Len(P) + n /\ GroupLock(j)[k] = ReadRequest(ReadLocks[j][n])
      BY <1>6, <1>11, <1>13, <2>1, <3>1, <3>3
    <3> QED
      BY <1>7, <1>13, <2>1, <3>2, <3>3
  <2> QED
    BY <1>7, <1>13, <2>1, <2>2, <2>3
<1>14. \A i \in DOMAIN GroupLock(j) : GroupLock(j)[i].kind = "permits" => i = 1 /\ Permits[j] > 0
  BY <1>1, <1>7 DEF ReadRequest, WriteRequest
<1>15. Permits[j] > 0 => 1 \in DOMAIN GroupLock(j) /\ GroupLock(j)[1].kind = "permits"
  BY <1>1, <1>5, <1>6 DEF PermitRequest
<1> QED
  BY <1>5, <1>8, <1>9, <1>10, <1>12, <1>13, <1>14, <1>15

-----------------------------------------------------------------------------
(* Type correctness.                                                        *)

LEMMA TypeInit == Init => TypeOK
  BY LockConstants DEF Init, TypeOK, Phases, Locks

LEMMA ExceptType ==
  ASSUME NEW D, NEW T, NEW f \in [D -> T], NEW x, NEW y, x \in D => y \in T
  PROVE  [f EXCEPT ![x] = y] \in [D -> T]
OBVIOUS

LEMMA TypeStep == TypeOK /\ [Next]_vars => TypeOK'
<1> SUFFICES ASSUME TypeOK, [Next]_vars PROVE TypeOK'
  OBVIOUS
<1> USE DEF TypeOK, Phases
<1>1. CASE UNCHANGED vars
  BY <1>1 DEF vars, lockVars
<1>2. ASSUME NEW j \in Jobs, Load(j) PROVE TypeOK'
  BY <1>2 DEF Load, Goto, lockVars
<1>3. ASSUME NEW j \in Jobs, GetLock(j) PROVE TypeOK'
  <2>1. mine' \in [Jobs -> [Resources -> Locks \cup {NoLock}]]
    <3>1. CASE UNCHANGED mine
      BY <3>1
    <3>2. CASE mine' = [mine EXCEPT ![j][Request(j).on] = table[Request(j).on]]
      <4>1. ASSUME NEW f \in [Resources -> Locks \cup {NoLock}],
                   NEW g \in [Resources -> Locks \cup {NoLock}], NEW on
            PROVE  [f EXCEPT ![on] = g[on]] \in [Resources -> Locks \cup {NoLock}]
        OBVIOUS
      <4>2. mine' = [mine EXCEPT ![j] = [mine[j] EXCEPT ![Request(j).on] = table[Request(j).on]]]
        BY <3>2
      <4> QED
        BY <4>1, <4>2
    <3> QED
      BY <3>1, <3>2, <1>3 DEF GetLock
  <2>2. phase' \in [Jobs -> Phases] /\ at' \in [Jobs -> Nat \ {0}]
    <3>1. PICK p \in Phases, i \in Nat \ {0} : Goto(j, p, i)
      BY <1>3 DEF GetLock
    <3> QED
      BY <3>1 DEF Goto
  <2> QED
    BY <2>1, <2>2, <1>3 DEF GetLock, lockVars
<1>4. ASSUME NEW j \in Jobs, PutLock(j) PROVE TypeOK'
  <2>1. \A r \in Resources : <<r, j>> \in Locks
    BY DEF Locks
  <2>2. table' \in [Resources -> Locks \cup {NoLock}]
    BY <1>4, <2>1 DEF PutLock
  <2>3. mine' \in [Jobs -> [Resources -> Locks \cup {NoLock}]]
    BY <1>4, <2>1 DEF PutLock
  <2> QED
    BY <2>2, <2>3, <1>4 DEF PutLock, Goto, lockVars
<1>5. ASSUME NEW j \in Jobs, StartRun(j) PROVE TypeOK'
  BY <1>5 DEF StartRun, Goto, lockVars
<1>6. ASSUME NEW j \in Jobs, Enqueue(j) PROVE TypeOK'
  <2>1. Place(j) \in Locks \cup {NoLock} => Append(queue[Place(j)], j) \in Seq(Jobs)
    OBVIOUS
  <2>2. queue' = [queue EXCEPT ![Place(j)] = Append(queue[Place(j)], j)]
    BY <1>6 DEF Enqueue
  <2>3. queue' \in [Locks \cup {NoLock} -> Seq(Jobs)]
    BY <2>1, <2>2, ExceptType
  <2> QED
    BY <2>3, <1>6 DEF Enqueue, Goto, lockVars
<1>7. ASSUME NEW j \in Jobs, First(j), LeaveQueue(j)
      PROVE  /\ queue' \in [Locks \cup {NoLock} -> Seq(Jobs)]
             /\ phase' \in [Jobs -> Phases] /\ at' \in [Jobs -> Nat \ {0}]
  <2>1. Place(j) \in Locks \cup {NoLock} => Tail(queue[Place(j)]) \in Seq(Jobs)
    BY <1>7 DEF First
  <2>2. queue' = [queue EXCEPT ![Place(j)] = Tail(queue[Place(j)])]
    BY <1>7 DEF LeaveQueue
  <2>3. queue' \in [Locks \cup {NoLock} -> Seq(Jobs)]
    BY <2>1, <2>2, ExceptType
  <2> QED
    BY <2>3, <1>7 DEF LeaveQueue, Goto
<1>8. ASSUME NEW j \in Jobs, GrantPermits(j) PROVE TypeOK'
  <2>1. available' \in Nat
    BY <1>8, LockConstants DEF GrantPermits
  <2> QED
    BY <2>1, <1>7, <1>8 DEF GrantPermits
<1>9. ASSUME NEW j \in Jobs, GrantRead(j) PROVE TypeOK'
  <2>1. readers' \in [Locks -> SUBSET Jobs]
    BY <1>9 DEF GrantRead
  <2>2. First(j) /\ LeaveQueue(j)
    BY <1>9 DEF GrantRead
  <2>3. /\ queue' \in [Locks \cup {NoLock} -> Seq(Jobs)]
        /\ phase' \in [Jobs -> Phases] /\ at' \in [Jobs -> Nat \ {0}]
    BY <2>2, <1>7
  <2> QED
    BY <2>1, <2>3, <1>9 DEF GrantRead
<1>10. ASSUME NEW j \in Jobs, GrantWrite(j) PROVE TypeOK'
  <2>1. writer' \in [Locks -> Jobs \cup {NoJob}]
    BY <1>10 DEF GrantWrite
  <2>2. First(j) /\ LeaveQueue(j)
    BY <1>10 DEF GrantWrite
  <2>3. /\ queue' \in [Locks \cup {NoLock} -> Seq(Jobs)]
        /\ phase' \in [Jobs -> Phases] /\ at' \in [Jobs -> Nat \ {0}]
    BY <2>2, <1>7
  <2> QED
    BY <2>1, <2>3, <1>10 DEF GrantWrite
<1>11. ASSUME NEW j \in Jobs, RunInner(j) PROVE TypeOK'
  BY <1>11 DEF RunInner, Goto, lockVars
<1>12. ASSUME NEW j \in Jobs, SkipCanceled(j) PROVE TypeOK'
  BY <1>12 DEF SkipCanceled, Goto, lockVars
<1>13. ASSUME NEW j \in Jobs, InnerEnds(j) PROVE TypeOK'
  BY <1>13 DEF InnerEnds, Goto, lockVars
<1>14. ASSUME NEW j \in Jobs, Release(j) PROVE TypeOK'
  <2>1. available' \in Nat
    BY <1>14, LockConstants DEF Release
  <2>2. readers' \in [Locks -> SUBSET Jobs] /\ writer' \in [Locks -> Jobs \cup {NoJob}]
    BY <1>14 DEF Release
  <2> QED
    BY <2>1, <2>2, <1>14 DEF Release, Goto
<1>15. ASSUME NEW j \in Jobs, EndRun(j) PROVE TypeOK'
  BY <1>15 DEF EndRun, Goto, lockVars
<1>16. ASSUME NEW j \in Jobs, Cancel(j) PROVE TypeOK'
  BY <1>16 DEF Cancel, lockVars
<1> QED
  BY <1>1, <1>2, <1>3, <1>4, <1>5, <1>6, <1>8, <1>9, <1>10, <1>11, <1>12, <1>13,
     <1>14, <1>15, <1>16 DEF Next, ThreadStep, Grant

(* Every variable keeps to its type; in particular the free permits never   *)
(* go below zero, for any jobs, lists and numbers of permits.               *)
THEOREM TypeCorrect == Spec => []TypeOK
<1>1. Init => TypeOK
  BY TypeInit
<1>2. TypeOK /\ [Next]_vars => TypeOK'
  BY TypeStep
<1> QED
  BY <1>1, <1>2, PTL DEF Spec
-----------------------------------------------------------------------------
(* Running jobs do not conflict.                                            *)

LEMMA LockInit == Init => LockInv
<1> SUFFICES ASSUME Init PROVE LockInv
  OBVIOUS
<1>1. TypeOK
  BY TypeInit
<1>2. \A j \in Jobs : phase[j] = "idle"
  BY DEF Init
<1>3. AtRequest
  BY <1>2 DEF AtRequest
<1>4. OneTable
  <2>1. \A r \in Known : <<r, NoJob>> # NoLock
    BY LockConstants, NoLockIsNone DEF Locks
  <2> QED
    BY <1>2, <2>1, LockConstants DEF OneTable, Init
<1>5. LocksGot
  BY <1>2 DEF LocksGot, Got
<1>6. LocksHeld
  BY <1>2 DEF LocksHeld, Held
<1>7. OneWriter
  BY DEF OneWriter, Init
<1> QED
  BY <1>1, <1>3, <1>4, <1>5, <1>6, <1>7 DEF LockInv

(* What the type invariant and GroupLockFacts say of the current request.   *)
LEMMA RequestType ==
  ASSUME TypeOK, NEW j \in Jobs, ~AtEnd(j)
  PROVE  /\ at[j] \in DOMAIN GroupLock(j)
         /\ Request(j) \in Requests
         /\ Request(j).kind \in {"permits", "read", "write"}
         /\ Request(j).kind # "permits" => Request(j).on \in Resources
<1>1. at[j] \in DOMAIN GroupLock(j)
  <2>1. GroupLock(j) \in Seq(Requests)
    BY GroupLockFacts
  <2>2. at[j] \in Nat \ {0} /\ at[j] <= Len(GroupLock(j))
    BY <2>1 DEF TypeOK, AtEnd
  <2> QED
    BY <2>1, <2>2
<1>2. Request(j) \in Requests
  BY <1>1, GroupLockFacts DEF Request
<1> QED
  BY <1>1, <1>2 DEF Requests

(* Every member of a group lock names a resource, or is for permits.        *)
LEMMA MemberType ==
  ASSUME NEW j \in Jobs, NEW i \in DOMAIN GroupLock(j)
  PROVE  /\ GroupLock(j)[i].kind \in {"permits", "read", "write"}
         /\ GroupLock(j)[i].kind # "permits" => GroupLock(j)[i].on \in Resources
<1>1. GroupLock(j)[i] \in Requests
  BY GroupLockFacts
<1> QED
  BY <1>1 DEF Requests

LEMMA AtRequestStep == TypeOK /\ AtRequest /\ [Next]_vars => AtRequest'
<1> SUFFICES ASSUME TypeOK, AtRequest, [Next]_vars PROVE AtRequest'
  OBVIOUS
<1> USE DEF AtRequest, AtEnd, TypeOK
<1>1. CASE UNCHANGED vars
  BY <1>1 DEF vars
<1>2. ASSUME NEW j \in Jobs, NEW p, NEW i, Goto(j, p, i),
             p \in {"making", "queued"} => ~AtEnd(j) /\ i = at[j]
      PROVE  AtRequest'
  BY <1>2 DEF Goto
<1>3. ASSUME NEW j \in Jobs, Load(j) \/ ThreadStep(j) \/ Cancel(j) PROVE AtRequest'
  <2>1. CASE Load(j)
    BY <2>1, <1>2 DEF Load
  <2>2. CASE GetLock(j)
    BY <2>2, <1>2 DEF GetLock
  <2>3. CASE PutLock(j)
    BY <2>3, <1>2 DEF PutLock
  <2>4. CASE StartRun(j)
    BY <2>4, <1>2 DEF StartRun
  <2>5. CASE Enqueue(j)
    BY <2>5, <1>2 DEF Enqueue
  <2>6. CASE Grant(j)
    BY <2>6, <1>2 DEF Grant, GrantPermits, GrantRead, GrantWrite, LeaveQueue
  <2>7. CASE RunInner(j) \/ SkipCanceled(j) \/ InnerEnds(j)
    BY <2>7, <1>2 DEF RunInner, SkipCanceled, InnerEnds
  <2>8. CASE Release(j) \/ EndRun(j)
    BY <2>8, <1>2 DEF Release, EndRun
  <2>9. CASE Cancel(j)
    BY <2>9 DEF Cancel
  <2> QED
    BY <1>3, <2>1, <2>2, <2>3, <2>4, <2>5, <2>6, <2>7, <2>8, <2>9 DEF ThreadStep
<1> QED
  BY <1>1, <1>3 DEF Next
(* The resource of a request for a lock is one the job uses.                *)
LEMMA RequestUsed ==
  ASSUME TypeOK, NEW j \in Jobs, ~AtEnd(j), Request(j).kind # "permits"
  PROVE  Request(j).on \in Reads(j) \cup Writes(j)
BY RequestType, GroupLockFacts DEF Request

LEMMA OneTableStep == Settled /\ LockInv /\ [Next]_vars => OneTable'
<1> SUFFICES ASSUME Settled, LockInv, [Next]_vars PROVE OneTable'
  OBVIOUS
<1> USE DEF OneTable
<1>0. TypeOK /\ AtRequest /\ OneTable
  BY DEF LockInv
<1>1. CASE UNCHANGED vars
  BY <1>0, <1>1 DEF vars, Request
<1>2. ASSUME NEW j \in Jobs, NEW p, NEW i, Goto(j, p, i), p # "making",
             UNCHANGED <<table, mine>>
      PROVE  OneTable'
  <2>1. \A k \in Jobs : phase'[k] = "making" => phase[k] = "making" /\ at'[k] = at[k]
    BY <1>0, <1>2 DEF Goto, TypeOK
  <2> QED
    BY <1>0, <1>2, <2>1 DEF Request
<1>3. ASSUME NEW j \in Jobs, GetLock(j) PROVE OneTable'
  <2>1. CASE Request(j).kind = "permits"
    BY <1>2, <1>3, <2>1 DEF GetLock
  <2>2. CASE Request(j).kind # "permits" /\ table[Request(j).on] = NoLock
    <3>1. Goto(j, "making", at[j]) /\ UNCHANGED <<mine, table>>
      BY <1>3, <2>2 DEF GetLock
    <3>2. \A k \in Jobs : /\ phase'[k] = "making" => k = j \/ phase[k] = "making"
                          /\ at'[k] = at[k]
      BY <1>0, <3>1 DEF Goto, TypeOK
    <3> QED
      BY <1>0, <2>2, <3>1, <3>2 DEF Request
  <2>3. CASE Request(j).kind # "permits" /\ table[Request(j).on] # NoLock
    <3>1. /\ mine' = [mine EXCEPT ![j][Request(j).on] = table[Request(j).on]]
          /\ Goto(j, "building", at[j] + 1) /\ table' = table
      BY <1>3, <2>3 DEF GetLock
    <3>2. \A k \in Jobs : phase'[k] = "making" => phase[k] = "making" /\ at'[k] = at[k]
      BY <1>0, <3>1 DEF Goto, TypeOK
    <3>3. \A k \in Jobs : \A r \in Resources : mine'[k][r] \in {NoLock, table'[r]}
      BY <1>0, <3>1 DEF TypeOK
    <3> QED
      BY <1>0, <3>1, <3>2, <3>3 DEF Request
  <2> QED
    BY <2>1, <2>2, <2>3
<1>4. ASSUME NEW j \in Jobs, PutLock(j) PROVE OneTable'
  <2> DEFINE r == Request(j).on
  <2>1. /\ phase[j] = "making" /\ ~AtEnd(j) /\ r \in Resources /\ table[r] = NoLock
        /\ Request(j).kind # "permits"
    BY <1>0, <1>4, RequestType DEF PutLock, AtRequest
  <2>2. /\ table' = [table EXCEPT ![r] = <<r, j>>]
        /\ mine' = [mine EXCEPT ![j][r] = <<r, j>>]
        /\ Goto(j, "building", at[j] + 1)
    BY <1>4 DEF PutLock
  <2>3. /\ \A q \in Resources : table'[q] # NoLock => table'[q][1] = q
        /\ \A q \in Known : table'[q] # NoLock
    BY <1>0, <2>1, <2>2, LockConstants DEF TypeOK
  <2>4. \A k \in Jobs : \A q \in Resources : mine'[k][q] \in {NoLock, table'[q]}
    BY <1>0, <2>1, <2>2 DEF TypeOK
  <2>5. \A k \in Jobs : phase'[k] = "making" =>
          k # j /\ phase[k] = "making" /\ at'[k] = at[k]
    BY <1>0, <2>2 DEF Goto, TypeOK
  <2>6. ASSUME NEW k \in Jobs, phase'[k] = "making"
        PROVE  Request(k)'.kind # "permits" /\ table'[Request(k)'.on] = NoLock
    <3>1. /\ k # j /\ Request(k)' = Request(k) /\ ~AtEnd(k) /\ Request(k).kind # "permits"
          /\ table[Request(k).on] = NoLock
      BY <1>0, <2>5, <2>6 DEF AtRequest, Request
    <3>2. Request(k).on \in Resources /\ r \in Resources \ Known
      BY <1>0, <2>1, <3>1, RequestType
    <3>3. Request(k).on # r
      <4>1. Request(k).on \in Reads(k) \cup Writes(k) /\ r \in Reads(j) \cup Writes(j)
        BY <1>0, <2>1, <3>1, RequestUsed
      <4> QED
        BY <4>1, <3>1, <3>2 DEF Settled
    <3> QED
      BY <1>0, <2>2, <3>1, <3>2, <3>3 DEF TypeOK
  <2> QED
    BY <2>3, <2>4, <2>6
<1>5. ASSUME NEW j \in Jobs, EndRun(j) PROVE OneTable'
  <2>1. \A k \in Jobs : phase'[k] = "making" => phase[k] = "making" /\ at'[k] = at[k]
    BY <1>0, <1>5 DEF EndRun, Goto, TypeOK
  <2>2. \A k \in Jobs : \A r \in Resources : mine'[k][r] \in {NoLock, table'[r]}
    BY <1>0, <1>5 DEF EndRun, TypeOK
  <2> QED
    BY <1>0, <1>5, <2>1, <2>2 DEF EndRun, Request
<1>6. ASSUME NEW j \in Jobs, Cancel(j) PROVE OneTable'
  BY <1>0, <1>6 DEF Cancel, Request
<1>7. ASSUME NEW j \in Jobs, Load(j) \/ StartRun(j) \/ Enqueue(j) PROVE OneTable'
  BY <1>2, <1>7 DEF Load, StartRun, Enqueue
<1>8. ASSUME NEW j \in Jobs, Grant(j) PROVE OneTable'
  BY <1>2, <1>8 DEF Grant, GrantPermits, GrantRead, GrantWrite, LeaveQueue
<1>9. ASSUME NEW j \in Jobs, RunInner(j) \/ SkipCanceled(j) \/ InnerEnds(j) \/ Release(j)
      PROVE  OneTable'
  BY <1>2, <1>9 DEF RunInner, SkipCanceled, InnerEnds, Release
<1> QED
  BY <1>1, <1>3, <1>4, <1>5, <1>6, <1>7, <1>8, <1>9 DEF Next, ThreadStep
(* The lock object a job waits for or releases is one.                      *)
LEMMA PlaceIsLock ==
  ASSUME TypeOK, LocksGot, NEW j \in Jobs, NEW i \in Got(j), GroupLock(j)[i].kind # "permits"
  PROVE  mine[j][GroupLock(j)[i].on] \in Locks
<1>1. i \in DOMAIN GroupLock(j)
  BY DEF Got
<1>2. GroupLock(j)[i].on \in Resources
  BY <1>1, MemberType
<1> QED
  BY <1>2 DEF TypeOK, LocksGot

LEMMA LocksGotStep == LockInv /\ [Next]_vars => LocksGot'
<1> SUFFICES ASSUME LockInv, [Next]_vars PROVE LocksGot'
  OBVIOUS
<1>0. TypeOK /\ AtRequest /\ OneTable /\ LocksGot
  BY DEF LockInv
<1>1. CASE UNCHANGED vars
  BY <1>0, <1>1 DEF vars, LocksGot, Got
<1>2. ASSUME NEW j \in Jobs, NEW p, NEW n, Goto(j, p, n), UNCHANGED mine,
             p \in {"idle", "acquiring", "queued", "running", "releasing"}
               \/ (p = "building" /\ n = 1)
               \/ (p = "making" /\ n = at[j]),
             phase[j] \in {"acquiring", "queued", "running", "releasing"}
               \/ (phase[j] = "building" /\ (AtEnd(j) \/ p = "making"))
               \/ (phase[j] = "idle" /\ p = "building")
      PROVE  LocksGot'
  <2>1. \A k \in Jobs : Got(k)' \subseteq Got(k)
    <3> SUFFICES ASSUME NEW k \in Jobs, NEW i \in Got(k)' PROVE i \in Got(k)
      OBVIOUS
    <3>1. i \in DOMAIN GroupLock(k) /\ i \in Nat \ {0} /\ i <= Len(GroupLock(k))
      <4>1. GroupLock(k) \in Seq(Requests)
        BY GroupLockFacts
      <4> QED
        BY <4>1 DEF Got
    <3>2. CASE k = j
      BY <1>0, <1>2, <3>1, <3>2 DEF Got, Goto, TypeOK, AtEnd
    <3>3. CASE k # j
      BY <1>0, <1>2, <3>3 DEF Got, Goto, TypeOK
    <3> QED
      BY <3>2, <3>3
  <2> QED
    BY <1>0, <1>2, <2>1 DEF LocksGot
<1>3. ASSUME NEW j \in Jobs, phase[j] \in {"building", "making"}, NEW m \in [Resources -> Locks \cup {NoLock}],
             Goto(j, "building", at[j] + 1), mine' = [mine EXCEPT ![j] = m],
             \A r \in Resources : mine[j][r] # NoLock => m[r] # NoLock,
             Request(j).kind # "permits" => m[Request(j).on] # NoLock
      PROVE  LocksGot'
  <2> SUFFICES ASSUME NEW k \in Jobs, NEW i \in Got(k)', GroupLock(k)[i].kind # "permits"
               PROVE  mine'[k][GroupLock(k)[i].on] # NoLock
    BY DEF LocksGot
  <2>1. i \in DOMAIN GroupLock(k) /\ GroupLock(k)[i].on \in Resources
    BY MemberType DEF Got
  <2>2. i \in Nat
    <3>1. GroupLock(k) \in Seq(Requests)
      BY GroupLockFacts
    <3> QED
      BY <2>1, <3>1
  <2>3. CASE k # j
    BY <1>0, <1>3, <2>1, <2>3 DEF Got, Goto, LocksGot, TypeOK
  <2>4. CASE k = j /\ i = at[j]
    BY <1>0, <1>3, <2>1, <2>4 DEF Request, TypeOK
  <2>5. CASE k = j /\ i # at[j]
    <3>1. i < at[j]
      BY <1>0, <1>3, <2>2, <2>5 DEF Got, Goto, TypeOK
    <3>2. i \in Got(j)
      BY <1>3, <2>1, <2>5, <3>1 DEF Got
    <3> QED
      BY <1>0, <1>3, <2>1, <2>5, <3>2 DEF LocksGot, TypeOK
  <2> QED
    BY <2>3, <2>4, <2>5
<1>4. ASSUME NEW j \in Jobs, GetLock(j) PROVE LocksGot'
  <2>0. ~AtEnd(j) /\ phase[j] = "building"
    BY <1>4 DEF GetLock
  <2>1. CASE Request(j).kind = "permits"
    <3>1. mine' = [mine EXCEPT ![j] = mine[j]] /\ mine[j] \in [Resources -> Locks \cup {NoLock}]
      BY <1>0, <1>4, <2>1 DEF GetLock, TypeOK
    <3>2. Goto(j, "building", at[j] + 1)
      BY <1>4, <2>1 DEF GetLock
    <3> QED
      BY <1>3, <2>0, <2>1, <3>1, <3>2
  <2>2. CASE Request(j).kind # "permits" /\ table[Request(j).on] = NoLock
    <3>1. Goto(j, "making", at[j]) /\ UNCHANGED mine
      BY <1>4, <2>2 DEF GetLock
    <3> QED
      BY <1>2, <2>0, <3>1
  <2>3. CASE Request(j).kind # "permits" /\ table[Request(j).on] # NoLock
    <3> DEFINE r == Request(j).on
               m == [mine[j] EXCEPT ![r] = table[r]]
    <3>1. r \in Resources
      BY <1>0, <2>0, <2>3, RequestType
    <3>2. m \in [Resources -> Locks \cup {NoLock}] /\ m[r] # NoLock
      BY <1>0, <2>3, <3>1 DEF TypeOK
    <3>3. \A q \in Resources : mine[j][q] # NoLock => m[q] # NoLock
      BY <1>0, <2>3, <3>1 DEF TypeOK
    <3>4. mine' = [mine EXCEPT ![j] = m] /\ Goto(j, "building", at[j] + 1)
      BY <1>0, <1>4, <2>3 DEF GetLock, TypeOK
    <3> HIDE DEF m
    <3> QED
      BY <1>3, <2>0, <3>2, <3>3, <3>4
  <2> QED
    BY <2>1, <2>2, <2>3
<1>5. ASSUME NEW j \in Jobs, PutLock(j) PROVE LocksGot'
  <2> DEFINE r == Request(j).on
             m == [mine[j] EXCEPT ![r] = <<r, j>>]
  <2>1. phase[j] = "making" /\ r \in Resources /\ <<r, j>> \in Locks
    BY <1>0, <1>5, RequestType DEF PutLock, AtRequest, OneTable, Locks
  <2>2. /\ m \in [Resources -> Locks \cup {NoLock}] /\ m[r] # NoLock
        /\ \A q \in Resources : mine[j][q] # NoLock => m[q] # NoLock
    BY <1>0, <2>1, NoLockIsNone DEF TypeOK
  <2>3. mine' = [mine EXCEPT ![j] = m] /\ Goto(j, "building", at[j] + 1)
    BY <1>0, <1>5 DEF PutLock, TypeOK
  <2> HIDE DEF m
  <2> QED
    BY <1>3, <2>1, <2>2, <2>3
<1>6. ASSUME NEW j \in Jobs, EndRun(j) PROVE LocksGot'
  <2> SUFFICES ASSUME NEW k \in Jobs, NEW i \in Got(k)', GroupLock(k)[i].kind # "permits"
               PROVE  mine'[k][GroupLock(k)[i].on] # NoLock
    BY DEF LocksGot
  <2>1. k # j
    BY <1>0, <1>6 DEF EndRun, Goto, Got, TypeOK
  <2>2. i \in Got(k) /\ mine'[k] = mine[k]
    BY <1>0, <1>6, <2>1 DEF EndRun, Goto, Got, TypeOK
  <2> QED
    BY <1>0, <2>2 DEF LocksGot
<1>7. ASSUME NEW j \in Jobs, Load(j) \/ StartRun(j) \/ Enqueue(j) \/ Cancel(j)
      PROVE  LocksGot'
  <2>1. CASE Load(j)
    BY <1>2, <2>1 DEF Load
  <2>2. CASE StartRun(j)
    BY <1>2, <2>2 DEF StartRun
  <2>3. CASE Enqueue(j)
    BY <1>2, <2>3 DEF Enqueue
  <2>4. CASE Cancel(j)
    BY <1>0, <2>4 DEF Cancel, LocksGot, Got
  <2> QED
    BY <1>7, <2>1, <2>2, <2>3, <2>4
<1>8. ASSUME NEW j \in Jobs, Grant(j) PROVE LocksGot'
  BY <1>2, <1>8 DEF Grant, GrantPermits, GrantRead, GrantWrite, LeaveQueue
<1>9. ASSUME NEW j \in Jobs, RunInner(j) \/ SkipCanceled(j) \/ InnerEnds(j) \/ Release(j)
      PROVE  LocksGot'
  BY <1>2, <1>9 DEF RunInner, SkipCanceled, InnerEnds, Release
<1> QED
  BY <1>1, <1>4, <1>5, <1>6, <1>7, <1>8, <1>9 DEF Next, ThreadStep
(* What a job holds is what it got, so it has a lock object.                *)
LEMMA HeldIsGot == ASSUME NEW j \in Jobs PROVE Held(j) \subseteq Got(j)
BY DEF Held, Got

(* Two requests of a job for the same lock object are the same request, if  *)
(* they are of one kind.                                                    *)
LEMMA OnePlace ==
  ASSUME TypeOK, OneTable, LocksGot, NEW j \in Jobs, NEW i \in Got(j), NEW k \in Got(j),
         GroupLock(j)[i].kind = GroupLock(j)[k].kind, GroupLock(j)[i].kind # "permits",
         mine[j][GroupLock(j)[i].on] = mine[j][GroupLock(j)[k].on]
  PROVE  i = k
<1>1. /\ i \in DOMAIN GroupLock(j) /\ k \in DOMAIN GroupLock(j)
      /\ GroupLock(j)[i] \in Requests /\ GroupLock(j)[k] \in Requests
  BY GroupLockFacts DEF Got
<1>2. GroupLock(j)[i].on \in Resources /\ GroupLock(j)[k].on \in Resources
  BY <1>1, MemberType
<1>3. /\ mine[j][GroupLock(j)[i].on] # NoLock
      /\ mine[j][GroupLock(j)[k].on] # NoLock
  BY DEF LocksGot
<1>4. GroupLock(j)[i].on = GroupLock(j)[k].on
  BY <1>2, <1>3 DEF OneTable
<1>5. GroupLock(j)[i] = GroupLock(j)[k]
  BY <1>1, <1>4 DEF Requests
<1> QED
  BY <1>1, <1>5, GroupLockFacts

LEMMA LocksHeldStep == LockInv /\ [Next]_vars => LocksHeld'
<1> SUFFICES ASSUME LockInv, [Next]_vars PROVE LocksHeld'
  OBVIOUS
<1>0. TypeOK /\ AtRequest /\ OneTable /\ LocksGot /\ LocksHeld /\ OneWriter
  BY DEF LockInv
<1>1. CASE UNCHANGED vars
  BY <1>0, <1>1 DEF vars, LocksHeld, Held
(* A step of j that touches no lock and adds nothing to what j holds.       *)
<1>2. ASSUME NEW j \in Jobs, NEW p, NEW n, Goto(j, p, n), UNCHANGED <<readers, writer>>,
             Held(j)' \subseteq Held(j),
             Held(j)' # {} => mine'[j] = mine[j],
             \A k \in Jobs : k # j => mine'[k] = mine[k]
      PROVE  LocksHeld'
  <2>1. \A k \in Jobs : k # j => Held(k)' = Held(k)
    BY <1>0, <1>2 DEF Held, Goto, TypeOK
  <2>2. \A k \in Jobs : Held(k)' \subseteq Held(k) /\ (Held(k)' # {} => mine'[k] = mine[k])
    BY <1>2, <2>1
  <2> QED
    BY <1>0, <1>2, <2>2 DEF LocksHeld
<1>3. \A j \in Jobs : \A i \in DOMAIN GroupLock(j) :
        i \in Nat \ {0} /\ i <= Len(GroupLock(j)) /\ Len(GroupLock(j)) \in Nat
  <2> SUFFICES ASSUME NEW j \in Jobs
               PROVE  \A i \in DOMAIN GroupLock(j) :
                 i \in Nat \ {0} /\ i <= Len(GroupLock(j)) /\ Len(GroupLock(j)) \in Nat
    OBVIOUS
  <2>1. GroupLock(j) \in Seq(Requests)
    BY GroupLockFacts
  <2> QED
    BY <2>1
<1>4. ASSUME NEW j \in Jobs, Load(j) \/ GetLock(j) \/ PutLock(j) \/ StartRun(j) \/ EndRun(j)
      PROVE  LocksHeld'
  <2>1. PICK p \in Phases, n \in Nat : /\ Goto(j, p, n)
                                      /\ \/ p \in {"building", "making", "idle"}
                                         \/ p = "acquiring" /\ n = 1
    BY <1>0, <1>4 DEF Load, GetLock, PutLock, StartRun, EndRun, TypeOK, Phases
  <2>2. Held(j)' = {}
    <3>1. phase'[j] = p /\ at'[j] = n
      BY <1>0, <2>1 DEF Goto, TypeOK
    <3> QED
      BY <1>3, <2>1, <3>1 DEF Held
  <2>3. \A k \in Jobs : k # j => mine'[k] = mine[k]
    BY <1>0, <1>4 DEF Load, GetLock, PutLock, StartRun, EndRun, TypeOK
  <2>4. UNCHANGED <<readers, writer>>
    BY <1>4 DEF Load, GetLock, PutLock, StartRun, EndRun, lockVars
  <2> QED
    BY <1>2, <2>1, <2>2, <2>3, <2>4
<1>5. ASSUME NEW j \in Jobs, Enqueue(j) \/ RunInner(j) \/ SkipCanceled(j) \/ InnerEnds(j)
      PROVE  LocksHeld'
  <2>1. PICK p \in Phases, n \in Nat \ {0} :
          /\ Goto(j, p, n)
          /\ \/ phase[j] = "acquiring" /\ p = "queued" /\ n = at[j]
             \/ phase[j] = "acquiring" /\ AtEnd(j) /\ p = "running" /\ n = at[j]
             \/ phase[j] = "acquiring" /\ AtEnd(j) /\ p = "releasing" /\ n = 1
             \/ phase[j] = "running" /\ p = "releasing" /\ n = 1
    BY <1>0, <1>5 DEF Enqueue, RunInner, SkipCanceled, InnerEnds, TypeOK, Phases
  <2>2. phase'[j] = p /\ at'[j] = n
    BY <1>0, <2>1 DEF Goto, TypeOK
  <2>3. Held(j)' \subseteq Held(j)
    BY <1>0, <1>3, <2>1, <2>2 DEF Held, AtEnd, TypeOK
  <2>4. UNCHANGED <<readers, writer, mine>>
    BY <1>5 DEF Enqueue, RunInner, SkipCanceled, InnerEnds, lockVars
  <2> QED
    BY <1>2, <2>1, <2>3, <2>4
<1>6. ASSUME NEW j \in Jobs, Cancel(j) PROVE LocksHeld'
  BY <1>0, <1>6 DEF Cancel, lockVars, LocksHeld, Held
(* A grant adds the request at hand, and takes nothing from anybody.        *)
<1>7. ASSUME NEW j \in Jobs, Grant(j) PROVE LocksHeld'
  <2>1. /\ phase[j] = "queued" /\ ~AtEnd(j) /\ mine' = mine
        /\ Goto(j, "acquiring", at[j] + 1)
    BY <1>0, <1>7 DEF Grant, GrantPermits, GrantRead, GrantWrite, LeaveQueue, AtRequest
  <2>2. \A k \in Jobs : k # j => Held(k)' = Held(k)
    BY <1>0, <2>1 DEF Held, Goto, TypeOK
  <2>3. Held(j)' = Held(j) \cup {at[j]}
    <3>1. at[j] \in DOMAIN GroupLock(j)
      BY <1>0, <2>1, RequestType
    <3>2. phase'[j] = "acquiring" /\ at'[j] = at[j] + 1
      BY <1>0, <2>1 DEF Goto, TypeOK
    <3> QED
      BY <1>0, <1>3, <2>1, <3>1, <3>2 DEF Held, TypeOK
  <2>4. at[j] \in Got(j)
    BY <1>0, <2>1, RequestType DEF Got
  <2>5. CASE GrantPermits(j)
    <3>1. Request(j).kind = "permits" /\ UNCHANGED <<readers, writer>>
      BY <2>5 DEF GrantPermits
    <3> QED
      BY <1>0, <2>1, <2>2, <2>3, <3>1 DEF LocksHeld, Request
  <2>6. CASE GrantRead(j)
    <3>1. /\ Request(j).kind = "read" /\ writer' = writer
          /\ readers' = [readers EXCEPT ![Place(j)] = @ \cup {j}]
      BY <2>6 DEF GrantRead
    <3>2. Place(j) = mine[j][Request(j).on] /\ Place(j) \in Locks
      BY <1>0, <2>4, <3>1, PlaceIsLock DEF Place, Request
    <3>3. \A l \in Locks : readers[l] \subseteq readers'[l]
      BY <1>0, <3>1 DEF TypeOK
    <3>4. j \in readers'[mine[j][Request(j).on]]
      BY <1>0, <3>1, <3>2 DEF TypeOK
    <3>5. ASSUME NEW k \in Jobs, NEW i \in Held(k), GroupLock(k)[i].kind = "read"
          PROVE  k \in readers'[mine[k][GroupLock(k)[i].on]]
      BY <1>0, <3>3, <3>5, HeldIsGot, PlaceIsLock DEF LocksHeld
    <3>6. ASSUME NEW k \in Jobs, NEW i \in Held(k), GroupLock(k)[i].kind = "write"
          PROVE  writer'[mine[k][GroupLock(k)[i].on]] = k
      BY <1>0, <3>1, <3>6 DEF LocksHeld
    <3> QED
      BY <2>1, <2>2, <2>3, <3>1, <3>4, <3>5, <3>6 DEF LocksHeld, Request
  <2>7. CASE GrantWrite(j)
    <3>1. /\ Request(j).kind = "write" /\ readers' = readers
          /\ writer[Place(j)] \in {NoJob, j}
          /\ writer' = [writer EXCEPT ![Place(j)] = j]
      BY <2>7 DEF GrantWrite
    <3>2. Place(j) = mine[j][Request(j).on] /\ Place(j) \in Locks
      BY <1>0, <2>4, <3>1, PlaceIsLock DEF Place, Request
    <3>3. writer'[mine[j][Request(j).on]] = j
      BY <1>0, <3>1, <3>2 DEF TypeOK
    <3>4. ASSUME NEW k \in Jobs, NEW i \in Held(k), GroupLock(k)[i].kind = "write"
          PROVE  writer'[mine[k][GroupLock(k)[i].on]] = k
      <4>1. mine[k][GroupLock(k)[i].on] \in Locks /\ writer[mine[k][GroupLock(k)[i].on]] = k
        BY <1>0, <3>4, HeldIsGot, PlaceIsLock DEF LocksHeld
      <4> QED
        BY <1>0, <3>1, <4>1, LockConstants DEF TypeOK
    <3>5. ASSUME NEW k \in Jobs, NEW i \in Held(k), GroupLock(k)[i].kind = "read"
          PROVE  k \in readers'[mine[k][GroupLock(k)[i].on]]
      BY <1>0, <3>1, <3>5 DEF LocksHeld
    <3> QED
      BY <2>1, <2>2, <2>3, <3>1, <3>3, <3>4, <3>5 DEF LocksHeld, Request
  <2> QED
    BY <1>7, <2>5, <2>6, <2>7 DEF Grant
(* A release takes the lock of the request at hand, and only from j.        *)
<1>8. ASSUME NEW j \in Jobs, Release(j) PROVE LocksHeld'
  <2>1. /\ phase[j] = "releasing" /\ ~AtEnd(j) /\ mine' = mine
        /\ Goto(j, "releasing", at[j] + 1)
    BY <1>8 DEF Release
  <2>2. \A k \in Jobs : k # j => Held(k)' = Held(k)
    BY <1>0, <2>1 DEF Held, Goto, TypeOK
  <2>3. Held(j)' \subseteq Held(j) /\ at[j] \notin Held(j)' /\ at[j] \in Held(j)
    <3>1. at[j] \in DOMAIN GroupLock(j)
      BY <1>0, <2>1, RequestType
    <3>2. phase'[j] = "releasing" /\ at'[j] = at[j] + 1
      BY <1>0, <2>1 DEF Goto, TypeOK
    <3> QED
      BY <1>0, <1>3, <2>1, <3>1, <3>2 DEF Held, TypeOK
  <2>4. ASSUME NEW k \in Jobs, NEW i \in Held(k)', GroupLock(k)[i].kind = "read"
        PROVE  k \in readers'[mine'[k][GroupLock(k)[i].on]]
    <3>1. /\ i \in Held(k) /\ k \in readers[mine[k][GroupLock(k)[i].on]]
          /\ mine[k][GroupLock(k)[i].on] \in Locks
      BY <1>0, <2>2, <2>3, <2>4, HeldIsGot, PlaceIsLock DEF LocksHeld
    <3>2. CASE Request(j).kind # "read"
      BY <1>8, <2>1, <3>1, <3>2 DEF Release
    <3>3. CASE Request(j).kind = "read"
      <4>1. readers' = [readers EXCEPT ![Place(j)] = @ \ {j}] /\ Place(j) = mine[j][Request(j).on]
        BY <1>8, <3>3 DEF Release, Place
      <4>2. CASE k # j
        BY <1>0, <2>1, <3>1, <4>1, <4>2 DEF TypeOK
      <4>3. CASE k = j
        <5>1. mine[j][GroupLock(j)[i].on] # Place(j)
          BY <1>0, <2>3, <2>4, <3>1, <3>3, <4>1, <4>3, HeldIsGot, OnePlace DEF Request
        <5> QED
          BY <1>0, <2>1, <3>1, <4>1, <4>3, <5>1 DEF TypeOK
      <4> QED
        BY <4>2, <4>3
    <3> QED
      BY <3>2, <3>3
  <2>5. ASSUME NEW k \in Jobs, NEW i \in Held(k)', GroupLock(k)[i].kind = "write"
        PROVE  writer'[mine'[k][GroupLock(k)[i].on]] = k
    <3>1. /\ i \in Held(k) /\ writer[mine[k][GroupLock(k)[i].on]] = k
          /\ mine[k][GroupLock(k)[i].on] \in Locks
      BY <1>0, <2>2, <2>3, <2>5, HeldIsGot, PlaceIsLock DEF LocksHeld
    <3>2. CASE Request(j).kind # "write"
      BY <1>8, <2>1, <3>1, <3>2 DEF Release
    <3>3. CASE Request(j).kind = "write"
      <4>1. /\ writer' = [writer EXCEPT ![Place(j)] = NoJob]
            /\ Place(j) = mine[j][Request(j).on] /\ writer[Place(j)] = j
        BY <1>0, <1>8, <2>3, <3>3 DEF Release, Place, LocksHeld, Request
      <4>2. mine[k][GroupLock(k)[i].on] # Place(j)
        <5>1. CASE k # j
          BY <3>1, <4>1, <5>1
        <5>2. CASE k = j
          BY <1>0, <2>3, <2>5, <3>1, <3>3, <4>1, <5>2, HeldIsGot, OnePlace DEF Request
        <5> QED
          BY <5>1, <5>2
      <4> QED
        BY <1>0, <2>1, <3>1, <4>1, <4>2 DEF TypeOK
    <3> QED
      BY <3>2, <3>3
  <2> QED
    BY <2>4, <2>5 DEF LocksHeld
<1> QED
  BY <1>1, <1>4, <1>5, <1>6, <1>7, <1>8 DEF Next, ThreadStep

LEMMA OneWriterStep == LockInv /\ [Next]_vars => OneWriter'
<1> SUFFICES ASSUME LockInv, [Next]_vars, NEW l \in Locks, writer'[l] # NoJob
             PROVE  readers'[l] \subseteq {writer'[l]}
  BY DEF OneWriter
<1>0. TypeOK /\ OneWriter
  BY DEF LockInv
<1>1. CASE UNCHANGED <<readers, writer>>
  BY <1>0, <1>1 DEF OneWriter
<1>2. ASSUME NEW j \in Jobs, GrantRead(j) PROVE readers'[l] \subseteq {writer'[l]}
  BY <1>0, <1>2 DEF GrantRead, OneWriter, TypeOK
<1>3. ASSUME NEW j \in Jobs, GrantWrite(j) PROVE readers'[l] \subseteq {writer'[l]}
  BY <1>0, <1>3 DEF GrantWrite, OneWriter, TypeOK
<1>4. ASSUME NEW j \in Jobs, Release(j) PROVE readers'[l] \subseteq {writer'[l]}
  <2>1. readers'[l] \subseteq readers[l]
    BY <1>0, <1>4 DEF Release, TypeOK
  <2>2. writer'[l] = writer[l]
    BY <1>0, <1>4 DEF Release, TypeOK
  <2> QED
    BY <1>0, <2>1, <2>2 DEF OneWriter
<1>5. \/ UNCHANGED <<readers, writer>>
      \/ \E j \in Jobs : GrantRead(j) \/ GrantWrite(j) \/ Release(j)
  BY DEF Next, ThreadStep, Grant, vars, lockVars, Load, GetLock, PutLock, StartRun, Enqueue,
         GrantPermits, RunInner, SkipCanceled, InnerEnds, EndRun, Cancel
<1> QED
  BY <1>1, <1>2, <1>3, <1>4, <1>5

LEMMA LockInvExcludes == LockInv => ExclusiveWriters
<1> SUFFICES ASSUME LockInv, NEW j \in Jobs, NEW k \in Jobs, j # k,
                    phase[j] = "running", phase[k] = "running",
                    NEW r \in Writes(j), r \in Reads(k) \cup Writes(k)
             PROVE  FALSE
  BY DEF ExclusiveWriters
<1>0. TypeOK /\ OneTable /\ LocksGot /\ LocksHeld /\ OneWriter
  BY DEF LockInv
<1>1. PICK i \in DOMAIN GroupLock(j) : GroupLock(j)[i] = WriteRequest(r)
  BY GroupLockFacts
<1>2. i \in Held(j) /\ i \in Got(j) /\ GroupLock(j)[i].kind = "write" /\ GroupLock(j)[i].on = r
  BY <1>1 DEF Held, Got, WriteRequest
<1>3. r \in Resources /\ mine[j][r] = table[r] /\ table[r] \in Locks /\ writer[table[r]] = j
  BY <1>0, <1>1, <1>2, MemberType, PlaceIsLock DEF OneTable, LocksGot, LocksHeld
<1>4. CASE r \in Writes(k)
  <2>1. PICK n \in DOMAIN GroupLock(k) : GroupLock(k)[n] = WriteRequest(r)
    BY <1>4, GroupLockFacts
  <2>2. n \in Held(k) /\ n \in Got(k) /\ GroupLock(k)[n].kind = "write" /\ GroupLock(k)[n].on = r
    BY <2>1 DEF Held, Got, WriteRequest
  <2> QED
    BY <1>0, <1>3, <2>2 DEF OneTable, LocksGot, LocksHeld
<1>5. CASE r \in Reads(k)
  <2>1. PICK n \in DOMAIN GroupLock(k) : GroupLock(k)[n] = ReadRequest(r)
    BY <1>5, GroupLockFacts
  <2>2. n \in Held(k) /\ n \in Got(k) /\ GroupLock(k)[n].kind = "read" /\ GroupLock(k)[n].on = r
    BY <2>1 DEF Held, Got, ReadRequest
  <2>3. k \in readers[table[r]]
    BY <1>0, <1>3, <2>2 DEF OneTable, LocksGot, LocksHeld
  <2> QED
    BY <1>0, <1>3, <2>3, LockConstants DEF OneWriter
<1> QED
  BY <1>4, <1>5

(* While a job runs no other running job reads or writes what it writes,    *)
(* for any number of jobs, resources and permits and any lists: provided no *)
(* two jobs race for the lock object of a resource named for the first time.*)
THEOREM NoConflicts == ASSUME Settled PROVE Spec => []ExclusiveWriters
<1>1. Init => LockInv
  BY LockInit
<1>2. LockInv /\ [Next]_vars => LockInv'
  BY TypeStep, AtRequestStep, OneTableStep, LocksGotStep, LocksHeldStep, OneWriterStep DEF LockInv
<1>3. LockInv => ExclusiveWriters
  BY LockInvExcludes
<1> QED
  BY <1>1, <1>2, <1>3, PTL DEF Spec

-----------------------------------------------------------------------------
(* Jobs do not wait for each other in a circle.                             *)

(* The steps of j that take no part in a queue.                             *)
LEMMA QueuesKept ==
  ASSUME TypeOK, QueuesOfWaiters, queue' = queue, NEW j \in Jobs, NEW p, NEW n,
         Goto(j, p, n), phase[j] # "queued",
         \A k \in Jobs : k # j => mine'[k] = mine[k]
  PROVE  QueuesOfWaiters'
<1> SUFFICES ASSUME NEW l \in Locks \cup {NoLock}, NEW m \in DOMAIN queue[l]
             PROVE  phase'[queue[l][m]] = "queued" /\ Place(queue[l][m])' = l
  BY DEF QueuesOfWaiters
<1> DEFINE k == queue[l][m]
<1>1. phase[k] = "queued" /\ Place(k) = l /\ k \in Jobs
  BY DEF QueuesOfWaiters, TypeOK
<1>2. phase'[k] = phase[k] /\ at'[k] = at[k] /\ mine'[k] = mine[k]
  BY <1>1 DEF Goto, TypeOK
<1> QED
  BY <1>1, <1>2 DEF Place, Request

LEMMA PlaceType ==
  ASSUME LockInv, NEW j \in Jobs, phase[j] \in {"acquiring", "queued", "releasing"}, ~AtEnd(j)
  PROVE  /\ Place(j) \in Locks \cup {NoLock}
         /\ Request(j).kind # "permits" =>
              Place(j) = mine[j][Request(j).on] /\ Place(j) \in Locks /\ Place(j) = table[Request(j).on]
<1>0. TypeOK /\ OneTable /\ LocksGot
  BY DEF LockInv
<1>1. at[j] \in Got(j)
  BY <1>0, RequestType DEF Got
<1>2. CASE Request(j).kind = "permits"
  BY <1>2 DEF Place
<1>3. CASE Request(j).kind # "permits"
  <2>1. Request(j).on \in Resources /\ mine[j][Request(j).on] \in Locks
    BY <1>0, <1>1, <1>3, RequestType, PlaceIsLock DEF Request
  <2>2. mine[j][Request(j).on] \in {NoLock, table[Request(j).on]}
    BY <1>0, <2>1 DEF OneTable
  <2> QED
    BY <1>3, <2>1, <2>2, NoLockIsNone DEF Place
<1> QED
  BY <1>2, <1>3

LEMMA QueuesStep == LockInv /\ QueuesOfWaiters /\ [Next]_vars => QueuesOfWaiters'
<1> SUFFICES ASSUME LockInv, QueuesOfWaiters, [Next]_vars PROVE QueuesOfWaiters'
  OBVIOUS
<1>0. TypeOK /\ AtRequest
  BY DEF LockInv
<1>1. ASSUME NEW j \in Jobs, Load(j) \/ GetLock(j) \/ PutLock(j) \/ StartRun(j) \/ EndRun(j)
      PROVE  QueuesOfWaiters'
  <2>1. PICK p, n : Goto(j, p, n)
    BY <1>1 DEF Load, GetLock, PutLock, StartRun, EndRun
  <2>2. queue' = queue /\ phase[j] # "queued" /\ \A k \in Jobs : k # j => mine'[k] = mine[k]
    BY <1>0, <1>1 DEF Load, GetLock, PutLock, StartRun, EndRun, TypeOK
  <2> QED
    BY <1>0, <2>1, <2>2, QueuesKept
<1>2. ASSUME NEW j \in Jobs, RunInner(j) \/ SkipCanceled(j) \/ InnerEnds(j) \/ Release(j)
      PROVE  QueuesOfWaiters'
  <2>1. PICK p, n : Goto(j, p, n)
    BY <1>2 DEF RunInner, SkipCanceled, InnerEnds, Release
  <2>2. queue' = queue /\ phase[j] # "queued" /\ mine' = mine
    BY <1>2 DEF RunInner, SkipCanceled, InnerEnds, Release
  <2> QED
    BY <1>0, <2>1, <2>2, QueuesKept
<1>3. CASE UNCHANGED <<phase, at, mine, queue>>
  BY <1>3 DEF QueuesOfWaiters, Place, Request
<1>4. ASSUME NEW j \in Jobs, Cancel(j) PROVE QueuesOfWaiters'
  BY <1>3, <1>4 DEF Cancel
<1>5. ASSUME NEW j \in Jobs, Enqueue(j) PROVE QueuesOfWaiters'
  <2> DEFINE l0 == Place(j)
  <2>1. /\ phase[j] = "acquiring" /\ l0 \in Locks \cup {NoLock}
        /\ queue' = [queue EXCEPT ![l0] = Append(@, j)]
        /\ phase'[j] = "queued" /\ at' = at /\ mine' = mine
        /\ \A k \in Jobs : k # j => phase'[k] = phase[k]
    BY <1>0, <1>5, PlaceType DEF Enqueue, Goto, TypeOK
  <2>2. \A k \in Jobs : Place(k)' = Place(k)
    BY <2>1 DEF Place, Request
  <2> HIDE DEF l0
  <2> SUFFICES ASSUME NEW l \in Locks \cup {NoLock}
               PROVE  /\ \A m \in DOMAIN queue'[l] : \E k \in Jobs :
                           k = queue'[l][m] /\ phase'[k] = "queued" /\ Place(k)' = l
                      /\ \A m, n \in DOMAIN queue'[l] : queue'[l][m] = queue'[l][n] => m = n
    BY DEF QueuesOfWaiters, Place, Request
  <2>3. /\ queue[l] \in Seq(Jobs)
        /\ \A m \in DOMAIN queue[l] : /\ queue[l][m] \in Jobs /\ queue[l][m] # j
                                     /\ phase[queue[l][m]] = "queued" /\ Place(queue[l][m]) = l
        /\ \A m, n \in DOMAIN queue[l] : queue[l][m] = queue[l][n] => m = n
    BY <1>0, <2>1 DEF QueuesOfWaiters, TypeOK
  <2>4. CASE l # l0
    <3>1. queue'[l] = queue[l]
      BY <1>0, <2>1, <2>4 DEF TypeOK
    <3>2. ASSUME NEW m \in DOMAIN queue[l]
          PROVE  \E k \in Jobs : k = queue[l][m] /\ phase'[k] = "queued" /\ Place(k)' = l
      <4>1. PICK k \in Jobs : k = queue[l][m] /\ k # j /\ phase[k] = "queued" /\ Place(k) = l
        BY <2>3
      <4> QED
        BY <2>1, <2>2, <4>1
    <3> QED
      BY <2>3, <3>1, <3>2
  <2>5. CASE l = l0
    <3>1. /\ queue'[l] = Append(queue[l], j) /\ Place(j) = l
          /\ DOMAIN queue[l] = 1..Len(queue[l]) /\ Len(queue[l]) \in Nat
      BY <1>0, <2>1, <2>3, <2>5 DEF TypeOK, l0
    <3>2. /\ DOMAIN queue'[l] = 1..(Len(queue[l]) + 1)
          /\ \A m \in 1..Len(queue[l]) : queue'[l][m] = queue[l][m]
          /\ queue'[l][Len(queue[l]) + 1] = j
      BY <2>3, <3>1
    <3>3. \A m \in DOMAIN queue'[l] : m \in DOMAIN queue[l] \/ m = Len(queue[l]) + 1
      BY <3>1, <3>2
    <3> QED
      BY <2>1, <2>2, <2>3, <3>1, <3>2, <3>3
  <2> QED
    BY <2>4, <2>5
<1>6. ASSUME NEW j \in Jobs, Grant(j) PROVE QueuesOfWaiters'
  <2> DEFINE l0 == Place(j)
  <2>1. /\ phase[j] = "queued" /\ First(j) /\ LeaveQueue(j) /\ mine' = mine
    BY <1>6 DEF Grant, GrantPermits, GrantRead, GrantWrite
  <2>2. /\ l0 \in Locks \cup {NoLock}
        /\ queue' = [queue EXCEPT ![l0] = Tail(@)] /\ queue[l0] # <<>> /\ queue[l0][1] = j
        /\ \A k \in Jobs : k # j => phase'[k] = phase[k] /\ at'[k] = at[k]
    BY <1>0, <2>1, PlaceType DEF LeaveQueue, First, Goto, TypeOK, AtRequest
  <2>3. \A k \in Jobs : k # j => Place(k)' = Place(k)
    BY <2>1, <2>2 DEF Place, Request
  <2> SUFFICES ASSUME NEW l \in Locks \cup {NoLock}
               PROVE  /\ \A m \in DOMAIN queue'[l] : \E k \in Jobs :
                           k = queue'[l][m] /\ phase'[k] = "queued" /\ Place(k)' = l
                      /\ \A m, n \in DOMAIN queue'[l] : queue'[l][m] = queue'[l][n] => m = n
    BY DEF QueuesOfWaiters, Place, Request
  <2>4. /\ queue[l] \in Seq(Jobs)
        /\ \A m \in DOMAIN queue[l] : /\ queue[l][m] \in Jobs
                                     /\ phase[queue[l][m]] = "queued" /\ Place(queue[l][m]) = l
        /\ \A m, n \in DOMAIN queue[l] : queue[l][m] = queue[l][n] => m = n
    BY <1>0 DEF QueuesOfWaiters, TypeOK
  <2>5. CASE l # l0
    <3>1. queue'[l] = queue[l] /\ \A m \in DOMAIN queue[l] : queue[l][m] # j
      BY <1>0, <2>2, <2>4, <2>5 DEF TypeOK
    <3> QED
      BY <2>2, <2>3, <2>4, <3>1
  <2>6. CASE l = l0
    <3>1. queue'[l] = Tail(queue[l]) /\ queue[l] # <<>> /\ queue[l][1] = j
      BY <1>0, <2>2, <2>6 DEF TypeOK
    <3>2. /\ DOMAIN queue[l] = 1..Len(queue[l]) /\ Len(queue[l]) \in Nat \ {0}
          /\ DOMAIN queue'[l] = 1..(Len(queue[l]) - 1)
          /\ \A m \in 1..(Len(queue[l]) - 1) : queue'[l][m] = queue[l][m + 1]
      BY <2>4, <3>1
    <3>3. \A m \in DOMAIN queue'[l] : m + 1 \in DOMAIN queue[l] /\ 1 \in DOMAIN queue[l] /\ m + 1 # 1
      BY <3>2
    <3>4. \A m \in DOMAIN queue'[l] : queue'[l][m] # j /\ queue'[l][m] \in Jobs
      BY <2>4, <3>1, <3>2, <3>3
    <3>5. \A m \in DOMAIN queue'[l] : phase[queue'[l][m]] = "queued" /\ Place(queue'[l][m]) = l
      BY <2>4, <3>2, <3>3
    <3>6. \A m, n \in DOMAIN queue'[l] : queue'[l][m] = queue'[l][n] => m = n
      BY <2>4, <3>2, <3>3
    <3> QED
      BY <2>2, <2>3, <3>4, <3>5, <3>6
  <2> QED
    BY <2>5, <2>6
<1> QED
  BY <1>1, <1>2, <1>3, <1>4, <1>5, <1>6 DEF Next, ThreadStep, vars

LEMMA HoldersStep == LockInv /\ HoldersHold /\ [Next]_vars => HoldersHold'
<1> SUFFICES ASSUME LockInv, HoldersHold, [Next]_vars PROVE HoldersHold'
  OBVIOUS
<1>0. TypeOK /\ AtRequest
  BY DEF LockInv
(* A step of j that leaves the locks alone, and gives up nothing j holds.   *)
<1>1. ASSUME NEW j \in Jobs, NEW p, NEW n, Goto(j, p, n), UNCHANGED <<readers, writer>>,
             Held(j) \subseteq Held(j)', Held(j) # {} => mine'[j] = mine[j],
             \A k \in Jobs : k # j => mine'[k] = mine[k]
      PROVE  HoldersHold'
  <2>1. \A k \in Jobs : k # j => Held(k)' = Held(k)
    BY <1>0, <1>1 DEF Held, Goto, TypeOK
  <2>2. \A k \in Jobs : Held(k) \subseteq Held(k)' /\ (Held(k) # {} => mine'[k] = mine[k])
    BY <1>1, <2>1
  <2>3. ASSUME NEW k \in Jobs, NEW l \in Locks, k \in readers[l]
        PROVE  \E i \in Held(k)' : GroupLock(k)[i].kind = "read" /\ mine'[k][GroupLock(k)[i].on] = l
    BY <2>2, <2>3 DEF HoldersHold
  <2>4. ASSUME NEW k \in Jobs, NEW l \in Locks, writer[l] = k
        PROVE  \E i \in Held(k)' : GroupLock(k)[i].kind = "write" /\ mine'[k][GroupLock(k)[i].on] = l
    BY <2>2, <2>4 DEF HoldersHold
  <2> QED
    BY <1>1, <2>3, <2>4 DEF HoldersHold
<1>2. \A j \in Jobs : \A i \in DOMAIN GroupLock(j) :
        i \in Nat \ {0} /\ i <= Len(GroupLock(j)) /\ Len(GroupLock(j)) \in Nat
  <2> SUFFICES ASSUME NEW j \in Jobs
               PROVE  \A i \in DOMAIN GroupLock(j) :
                 i \in Nat \ {0} /\ i <= Len(GroupLock(j)) /\ Len(GroupLock(j)) \in Nat
    OBVIOUS
  <2>1. GroupLock(j) \in Seq(Requests)
    BY GroupLockFacts
  <2> QED
    BY <2>1
<1>3. ASSUME NEW j \in Jobs, Load(j) \/ GetLock(j) \/ PutLock(j) \/ StartRun(j) \/ EndRun(j)
      PROVE  HoldersHold'
  <2>1. PICK p, n : Goto(j, p, n)
    BY <1>3 DEF Load, GetLock, PutLock, StartRun, EndRun
  <2>2. Held(j) = {}
    BY <1>0, <1>2, <1>3 DEF Load, GetLock, PutLock, StartRun, EndRun, Held, AtEnd, TypeOK
  <2>3. UNCHANGED <<readers, writer>> /\ \A k \in Jobs : k # j => mine'[k] = mine[k]
    BY <1>0, <1>3 DEF Load, GetLock, PutLock, StartRun, EndRun, TypeOK, lockVars
  <2> QED
    BY <1>1, <2>1, <2>2, <2>3
<1>4. ASSUME NEW j \in Jobs, Enqueue(j) \/ RunInner(j) \/ SkipCanceled(j) \/ InnerEnds(j)
      PROVE  HoldersHold'
  <2>1. PICK p \in Phases, n \in Nat \ {0} :
          /\ Goto(j, p, n)
          /\ \/ phase[j] = "acquiring" /\ p = "queued" /\ n = at[j]
             \/ p = "running"
             \/ p = "releasing" /\ n = 1
    BY <1>0, <1>4 DEF Enqueue, RunInner, SkipCanceled, InnerEnds, TypeOK, Phases
  <2>2. phase'[j] = p /\ at'[j] = n
    BY <1>0, <2>1 DEF Goto, TypeOK
  <2>3. Held(j) \subseteq Held(j)'
    BY <1>2, <2>1, <2>2 DEF Held
  <2>4. UNCHANGED <<readers, writer, mine>>
    BY <1>4 DEF Enqueue, RunInner, SkipCanceled, InnerEnds, lockVars
  <2> QED
    BY <1>1, <2>1, <2>3, <2>4
<1>5. CASE UNCHANGED <<phase, at, mine, readers, writer>>
  BY <1>5 DEF HoldersHold, Held
<1>6. ASSUME NEW j \in Jobs, Cancel(j) PROVE HoldersHold'
  BY <1>5, <1>6 DEF Cancel, lockVars
(* A grant adds the request at hand.                                        *)
<1>7. ASSUME NEW j \in Jobs, Grant(j) PROVE HoldersHold'
  <2>1. phase[j] = "queued" /\ ~AtEnd(j) /\ mine' = mine /\ Goto(j, "acquiring", at[j] + 1)
    BY <1>0, <1>7 DEF Grant, GrantPermits, GrantRead, GrantWrite, LeaveQueue, AtRequest
  <2>2. \A k \in Jobs : k # j => Held(k)' = Held(k)
    BY <1>0, <2>1 DEF Held, Goto, TypeOK
  <2>3. Held(j) \subseteq Held(j)' /\ at[j] \in Held(j)'
    <3>1. at[j] \in DOMAIN GroupLock(j)
      BY <1>0, <2>1, RequestType
    <3>2. phase'[j] = "acquiring" /\ at'[j] = at[j] + 1
      BY <1>0, <2>1 DEF Goto, TypeOK
    <3> QED
      BY <1>0, <1>2, <2>1, <3>1, <3>2 DEF Held, TypeOK
  <2>4. \A k \in Jobs : Held(k) \subseteq Held(k)'
    BY <2>2, <2>3
  <2>5. ASSUME NEW k \in Jobs, NEW l \in Locks, k \in readers'[l]
        PROVE  \E i \in Held(k)' : GroupLock(k)[i].kind = "read" /\ mine'[k][GroupLock(k)[i].on] = l
    <3>1. CASE k \in readers[l]
      BY <2>1, <2>4, <3>1 DEF HoldersHold
    <3>2. CASE k \notin readers[l]
      <4>1. k = j /\ l = Place(j) /\ Request(j).kind = "read"
        BY <1>0, <1>7, <2>5, <3>2 DEF Grant, GrantPermits, GrantRead, GrantWrite, TypeOK
      <4>2. l = mine[j][Request(j).on]
        BY <4>1 DEF Place
      <4> QED
        BY <2>1, <2>3, <4>1, <4>2 DEF Request
    <3> QED
      BY <3>1, <3>2
  <2>6. ASSUME NEW k \in Jobs, NEW l \in Locks, writer'[l] = k
        PROVE  \E i \in Held(k)' : GroupLock(k)[i].kind = "write" /\ mine'[k][GroupLock(k)[i].on] = l
    <3>1. CASE writer[l] = k
      BY <2>1, <2>4, <3>1 DEF HoldersHold
    <3>2. CASE writer[l] # k
      <4>1. k = j /\ l = Place(j) /\ Request(j).kind = "write"
        BY <1>0, <1>7, <2>6, <3>2 DEF Grant, GrantPermits, GrantRead, GrantWrite, TypeOK
      <4>2. l = mine[j][Request(j).on]
        BY <4>1 DEF Place
      <4> QED
        BY <2>1, <2>3, <4>1, <4>2 DEF Request
    <3> QED
      BY <3>1, <3>2
  <2> QED
    BY <2>5, <2>6 DEF HoldersHold
(* A release takes j off the lock object of the request it gives up.        *)
<1>8. ASSUME NEW j \in Jobs, Release(j) PROVE HoldersHold'
  <2>1. phase[j] = "releasing" /\ ~AtEnd(j) /\ mine' = mine /\ Goto(j, "releasing", at[j] + 1)
    BY <1>8 DEF Release
  <2>2. \A k \in Jobs : k # j => Held(k)' = Held(k)
    BY <1>0, <2>1 DEF Held, Goto, TypeOK
  <2>3. Held(j) \ {at[j]} \subseteq Held(j)'
    <3>1. phase'[j] = "releasing" /\ at'[j] = at[j] + 1
      BY <1>0, <2>1 DEF Goto, TypeOK
    <3>2. at[j] \in Nat
      BY <1>0 DEF TypeOK
    <3> QED
      BY <1>2, <2>1, <3>1, <3>2 DEF Held
  <2>4. ASSUME NEW k \in Jobs, NEW l \in Locks, k \in readers'[l]
        PROVE  \E i \in Held(k)' : GroupLock(k)[i].kind = "read" /\ mine'[k][GroupLock(k)[i].on] = l
    <3>1. k \in readers[l]
      BY <1>0, <1>8, <2>4 DEF Release, TypeOK
    <3>2. PICK i \in Held(k) : GroupLock(k)[i].kind = "read" /\ mine[k][GroupLock(k)[i].on] = l
      BY <3>1 DEF HoldersHold
    <3>3. CASE k = j /\ i = at[j]
      <4>1. Request(j).kind = "read" /\ Place(j) = l
        BY <3>2, <3>3 DEF Request, Place
      <4>2. readers' = [readers EXCEPT ![l] = @ \ {j}]
        BY <1>8, <4>1 DEF Release
      <4> QED
        BY <1>0, <2>4, <3>3, <4>2 DEF TypeOK
    <3> QED
      BY <2>1, <2>2, <2>3, <3>2, <3>3
  <2>5. ASSUME NEW k \in Jobs, NEW l \in Locks, writer'[l] = k
        PROVE  \E i \in Held(k)' : GroupLock(k)[i].kind = "write" /\ mine'[k][GroupLock(k)[i].on] = l
    <3>1. writer[l] = k
      BY <1>0, <1>8, <2>5, LockConstants DEF Release, TypeOK
    <3>2. PICK i \in Held(k) : GroupLock(k)[i].kind = "write" /\ mine[k][GroupLock(k)[i].on] = l
      BY <3>1 DEF HoldersHold
    <3>3. CASE k = j /\ i = at[j]
      <4>1. Request(j).kind = "write" /\ Place(j) = l
        BY <3>2, <3>3 DEF Request, Place
      <4>2. writer' = [writer EXCEPT ![l] = NoJob]
        BY <1>8, <4>1 DEF Release
      <4> QED
        BY <1>0, <2>5, <3>3, <4>2, LockConstants DEF TypeOK
    <3> QED
      BY <2>1, <2>2, <2>3, <3>2, <3>3
  <2> QED
    BY <2>4, <2>5 DEF HoldersHold
<1> QED
  BY <1>3, <1>4, <1>5, <1>6, <1>7, <1>8 DEF Next, ThreadStep, vars

(* In one group lock the resources come in their order, if no read is of a  *)
(* resource after one that is written.                                      *)
LEMMA InOrder ==
  ASSUME ReadsFirst, NEW j \in Jobs, NEW i \in DOMAIN GroupLock(j), NEW k \in DOMAIN GroupLock(j),
         i < k, GroupLock(j)[i].kind # "permits", GroupLock(j)[k].kind # "permits"
  PROVE  GroupLock(j)[i].on < GroupLock(j)[k].on
BY GroupLockFacts DEF ReadsFirst

LEMMA LeastNumber ==
  ASSUME NEW B, B \subseteq Nat, B # {}
  PROVE  \E m \in B : \A i \in B : m <= i
<1> DEFINE Less == {p \in Nat \X Nat : p[1] < p[2]}
<1>1. IsWellFoundedOn(Less, Nat)
  BY NatLessThanWellFounded DEF OpToRel
<1>2. PICK m \in B : \A i \in B : ~ (<<i, m>> \in Less)
  <2> HIDE DEF Less
  <2> QED
    BY <1>1, WFMin
<1>3. ASSUME NEW i \in B PROVE m <= i
  <2>1. i \in Nat /\ m \in Nat
    OBVIOUS
  <2>2. i < m => <<i, m>> \in Less
    BY <2>1
  <2> HIDE DEF Less
  <2> QED
    BY <1>2, <2>1, <2>2
<1> QED
  BY <1>3

LEMMA GreatestNumber ==
  ASSUME NEW B, B \subseteq Nat, B # {}, NEW b \in Nat, \A i \in B : i <= b
  PROVE  \E m \in B : \A i \in B : i <= m
<1> DEFINE C == {b - i : i \in B}
<1>1. C \subseteq Nat /\ C # {}
  <2>1. \A i \in B : b - i \in Nat
    OBVIOUS
  <2> QED
    BY <2>1
<1>2. PICK c \in C : \A d \in C : c <= d
  <2> HIDE DEF C
  <2> QED
    BY <1>1, LeastNumber
<1>3. PICK m \in B : c = b - m
  OBVIOUS
<1>4. ASSUME NEW i \in B PROVE i <= m
  <2>1. b - i \in C /\ i \in Nat /\ m \in Nat
    OBVIOUS
  <2>2. b - m <= b - i
    BY <1>2, <1>3, <2>1
  <2> QED
    BY <2>1, <2>2
<1> QED
  BY <1>4

(* Among the jobs of a circle take those that wait for the greatest         *)
(* resource.  Nobody in the circle holds it: he waits for a greater one.    *)
(* So they wait for each other in its queue, and one of them is the first.  *)
LEMMA OrderExcludesCircles ==
  ASSUME ReadsFirst, NEW b \in Nat, \A r \in Resources : r <= b,
         LockInv, HoldersHold, QueuesOfWaiters
  PROVE  NoDeadlock
<1> SUFFICES ASSUME NEW S \in SUBSET Jobs, S # {}, \A j \in S : \E k \in S : WaitsFor(j, k)
             PROVE  FALSE
  BY DEF NoDeadlock
<1>0. TypeOK /\ AtRequest /\ OneTable
  BY DEF LockInv
<1>1. ASSUME NEW j \in S
      PROVE  /\ phase[j] = "queued" /\ ~AtEnd(j) /\ Request(j).kind # "permits"
             /\ Request(j).on \in Resources /\ Request(j).on \in Nat
             /\ Place(j) = table[Request(j).on] /\ Place(j) \in Locks
  <2>1. phase[j] = "queued" /\ ~AtEnd(j) /\ Request(j).kind # "permits"
    BY <1>0 DEF WaitsFor, AtRequest
  <2> QED
    BY <1>0, <2>1, RequestType, PlaceType, LockConstants
<1> DEFINE Wanted == {Request(j).on : j \in S}
<1>2. PICK r \in Wanted : \A i \in Wanted : i <= r
  <2>1. Wanted \subseteq Nat /\ Wanted # {} /\ \A i \in Wanted : i <= b
    BY <1>1
  <2> HIDE DEF Wanted
  <2> QED
    BY <2>1, GreatestNumber
<1> DEFINE T == {j \in S : Request(j).on = r}
           l == table[r]
<1>3. r \in Nat /\ r \in Resources /\ l \in Locks /\ l # NoLock /\ T # {}
      /\ \A j \in S : Request(j).on <= r
  BY <1>1, <1>2, NoLockIsNone
<1>4. \A x \in Resources : table[x] = l => x = r
  BY <1>0, <1>3 DEF OneTable
<1>5. ASSUME NEW k \in S, NEW i \in Held(k), GroupLock(k)[i].kind # "permits",
             mine[k][GroupLock(k)[i].on] = l
      PROVE  FALSE
  <2>1. i \in DOMAIN GroupLock(k) /\ i < at[k] /\ at[k] \in DOMAIN GroupLock(k)
    BY <1>0, <1>1, RequestType DEF Held
  <2>2. GroupLock(k)[i].on < Request(k).on
    BY <1>1, <1>5, <2>1, InOrder DEF Request
  <2>3. GroupLock(k)[i].on \in Resources
    BY <1>5, <2>1, MemberType
  <2>4. mine[k][GroupLock(k)[i].on] = table[GroupLock(k)[i].on]
    BY <1>0, <1>3, <1>5, <2>3 DEF OneTable
  <2>5. GroupLock(k)[i].on = r
    BY <1>4, <1>5, <2>3, <2>4
  <2> QED
    BY <1>1, <1>3, <2>2, <2>5
<1>6. ASSUME NEW j \in T
      PROVE  \E m, n \in DOMAIN queue[l] : m < n /\ queue[l][m] \in T /\ queue[l][n] = j
  <2>1. PICK k \in S : WaitsFor(j, k)
    OBVIOUS
  <2>2. Place(j) = l
    BY <1>1
  <2>3. writer[l] # k /\ k \notin readers[l]
    <3>1. ASSUME writer[l] = k PROVE FALSE
      <4>1. PICK i \in Held(k) : GroupLock(k)[i].kind = "write" /\ mine[k][GroupLock(k)[i].on] = l
        BY <1>3, <3>1 DEF HoldersHold
      <4> QED
        BY <1>5, <4>1
    <3>2. ASSUME k \in readers[l] PROVE FALSE
      <4>1. PICK i \in Held(k) : GroupLock(k)[i].kind = "read" /\ mine[k][GroupLock(k)[i].on] = l
        BY <1>3, <3>2 DEF HoldersHold
      <4> QED
        BY <1>5, <4>1
    <3> QED
      BY <3>1, <3>2
  <2>4. PICK m, n \in DOMAIN queue[l] : m < n /\ queue[l][m] = k /\ queue[l][n] = j
    BY <2>1, <2>2, <2>3 DEF WaitsFor
  <2>5. Place(k) = l
    BY <1>3, <2>4 DEF QueuesOfWaiters
  <2>6. k \in T
    BY <1>1, <1>4, <2>5
  <2> QED
    BY <2>4, <2>6
<1> DEFINE Spots == {n \in DOMAIN queue[l] : queue[l][n] \in T}
<1> HIDE DEF T, l
<1>7. PICK n \in Spots : \A i \in Spots : n <= i
  <2>1. queue[l] \in Seq(Jobs)
    BY <1>0, <1>3 DEF TypeOK
  <2>2. DOMAIN queue[l] \subseteq Nat
    BY <2>1
  <2>3. PICK j \in T : TRUE
    BY <1>3
  <2>4. PICK m \in DOMAIN queue[l] : queue[l][m] \in T
    BY <1>6, <2>3
  <2>5. Spots \subseteq Nat /\ Spots # {}
    BY <2>2, <2>4
  <2> HIDE DEF Spots
  <2> QED
    BY <2>5, LeastNumber
<1>8. PICK m, i \in DOMAIN queue[l] : m < i /\ queue[l][m] \in T /\ queue[l][i] = queue[l][n]
  BY <1>6, <1>7
<1>9. i = n /\ m \in Nat /\ n \in Nat
  <2>1. queue[l] \in Seq(Jobs)
    BY <1>0, <1>3 DEF TypeOK
  <2> QED
    BY <1>3, <1>7, <1>8, <2>1 DEF QueuesOfWaiters
<1> QED
  BY <1>7, <1>8, <1>9

(* "Ordered resource locking should help prevent simple deadlocking         *)
(* situations" (JobDescriptor): for any number of jobs there is no circle   *)
(* of jobs waiting for each other's locks, if the resources are finitely    *)
(* many, no job reads one that sorts after one it writes, and no two jobs   *)
(* race for the lock object of a new one.                                   *)
THEOREM NoCircle ==
  ASSUME Settled, ReadsFirst, NEW b \in Nat, \A r \in Resources : r <= b
  PROVE  Spec => []NoDeadlock
<1>1. Init => LockInv /\ HoldersHold /\ QueuesOfWaiters
  <2>1. Init => HoldersHold
    BY LockConstants DEF Init, HoldersHold
  <2>2. Init => QueuesOfWaiters
    BY DEF Init, QueuesOfWaiters
  <2> QED
    BY <2>1, <2>2, LockInit
<1>2. LockInv /\ HoldersHold /\ QueuesOfWaiters /\ [Next]_vars
        => (LockInv /\ HoldersHold /\ QueuesOfWaiters)'
  BY TypeStep, AtRequestStep, OneTableStep, LocksGotStep, LocksHeldStep, OneWriterStep,
     HoldersStep, QueuesStep DEF LockInv
<1>3. LockInv /\ HoldersHold /\ QueuesOfWaiters => NoDeadlock
  BY OrderExcludesCircles
<1> QED
  BY <1>1, <1>2, <1>3, PTL DEF Spec

-----------------------------------------------------------------------------
(* Permits are conserved.                                                   *)

(* A job has permits for its grant, no more and no less.                    *)
LEMMA PermitsOfOne ==
  ASSUME NEW j \in Jobs
  PROVE  /\ IsFiniteSet({j} \X (1 .. Permits[j]))
         /\ Cardinality({j} \X (1 .. Permits[j])) = Permits[j]
<1>1. Permits[j] \in Nat
  BY LockConstants
<1>2. IsFiniteSet({j}) /\ Cardinality({j}) = 1
  BY FS_Singleton
<1>3. IsFiniteSet(1 .. Permits[j]) /\ Cardinality(1 .. Permits[j]) = Permits[j]
  BY <1>1, FS_Interval
<1>4. /\ IsFiniteSet({j} \X (1 .. Permits[j]))
      /\ Cardinality({j} \X (1 .. Permits[j])) = Cardinality({j}) * Cardinality(1 .. Permits[j])
  BY <1>2, <1>3, FS_Product
<1> QED
  BY <1>1, <1>2, <1>3, <1>4

(* The inductive invariant: of finitely many permits that jobs hold, too.   *)
PermitsInv ==
  TypeOK /\ AtRequest /\ PermitsConserved /\ IsFiniteSet(PermitsTaken)

(* A step in which nobody gets or gives back permits.                       *)
LEMMA PermitsStay ==
  ASSUME PermitsInv, available' = available, \A k \in Jobs : HoldsPermits(k)' = HoldsPermits(k)
  PROVE  PermitsConserved' /\ IsFiniteSet(PermitsTaken)'
<1>1. PermitsTaken' = PermitsTaken
  BY DEF PermitsTaken
<1> QED
  BY <1>1 DEF PermitsInv, PermitsConserved

(* What the jobs other than j hold, and what j holds.                       *)
LEMMA PermitsSplit ==
  ASSUME NEW j \in Jobs, NEW S, NEW T, IsFiniteSet(S) \/ IsFiniteSet(T),
         T = S \cup ({j} \X (1 .. Permits[j])), \A u \in S : u[1] # j
  PROVE  /\ IsFiniteSet(S) /\ IsFiniteSet(T)
         /\ Cardinality(S) \in Nat /\ Cardinality(T) = Cardinality(S) + Permits[j]
<1> DEFINE P == {j} \X (1 .. Permits[j])
<1>1. IsFiniteSet(P) /\ Cardinality(P) = Permits[j]
  BY PermitsOfOne
<1>2. S \cap P = {}
  OBVIOUS
<1>3. IsFiniteSet(S)
  BY <1>1, FS_Subset
<1>4. IsFiniteSet(S \cup P) /\ Cardinality(S \cup P) = Cardinality(S) + Cardinality(P)
  <2>1. /\ IsFiniteSet(S \cup P)
        /\ Cardinality(S \cup P) = Cardinality(S) + Cardinality(P) - Cardinality(S \cap P)
    BY <1>1, <1>3, FS_Union
  <2>2. Cardinality(S \cap P) = 0
    BY <1>2, FS_EmptySet
  <2>3. Cardinality(S) \in Nat /\ Cardinality(P) \in Nat
    BY <1>1, <1>3, FS_CardinalityType
  <2> QED
    BY <2>1, <2>2, <2>3
<1>5. Cardinality(S) \in Nat
  BY <1>3, FS_CardinalityType
<1> QED
  BY <1>1, <1>3, <1>4, <1>5

(* A grant takes as many permits from the free ones as the job now holds.   *)
LEMMA PermitsGranted ==
  ASSUME PermitsInv, NEW j \in Jobs, ~HoldsPermits(j), HoldsPermits(j)',
         \A k \in Jobs \ {j} : HoldsPermits(k)' = HoldsPermits(k),
         available' = available - Permits[j]
  PROVE  PermitsConserved' /\ IsFiniteSet(PermitsTaken)'
<1>1. PermitsTaken' = PermitsTaken \cup ({j} \X (1 .. Permits[j]))
  BY DEF PermitsTaken
<1>2. \A u \in PermitsTaken : u[1] # j
  BY DEF PermitsTaken
<1>3. /\ IsFiniteSet(PermitsTaken) /\ IsFiniteSet(PermitsTaken') /\ Cardinality(PermitsTaken) \in Nat
      /\ Cardinality(PermitsTaken') = Cardinality(PermitsTaken) + Permits[j]
  BY <1>1, <1>2, PermitsSplit DEF PermitsInv
<1>4. available \in Nat /\ Permits[j] \in Nat
  BY LockConstants DEF PermitsInv, TypeOK
<1> QED
  BY <1>3, <1>4 DEF PermitsInv, PermitsConserved

(* A release gives back as many as the job held.                            *)
LEMMA PermitsReleased ==
  ASSUME PermitsInv, NEW j \in Jobs, HoldsPermits(j), ~HoldsPermits(j)',
         \A k \in Jobs \ {j} : HoldsPermits(k)' = HoldsPermits(k),
         available' = available + Permits[j]
  PROVE  PermitsConserved' /\ IsFiniteSet(PermitsTaken)'
<1>1. PermitsTaken = PermitsTaken' \cup ({j} \X (1 .. Permits[j]))
  BY DEF PermitsTaken
<1>2. \A u \in PermitsTaken' : u[1] # j
  BY DEF PermitsTaken
<1>3. /\ IsFiniteSet(PermitsTaken') /\ Cardinality(PermitsTaken') \in Nat
      /\ Cardinality(PermitsTaken) = Cardinality(PermitsTaken') + Permits[j]
  BY <1>1, <1>2, PermitsSplit DEF PermitsInv
<1>4. available \in Nat /\ Permits[j] \in Nat
  BY LockConstants DEF PermitsInv, TypeOK
<1> QED
  BY <1>3, <1>4 DEF PermitsInv, PermitsConserved

(* A job's place in its group lock says whether it has permits: the request *)
(* for them comes first.                                                    *)
LEMMA PermitsStep ==
  ASSUME PermitsInv, NEW j \in Jobs, Load(j) \/ ThreadStep(j) \/ Cancel(j)
  PROVE  PermitsConserved' /\ IsFiniteSet(PermitsTaken)'
<1>1. TypeOK /\ AtRequest /\ at[j] \in Nat \ {0} /\ at \in [Jobs -> Nat \ {0}] /\ phase \in [Jobs -> Phases]
  BY DEF PermitsInv, TypeOK
<1>2. Len(GroupLock(j)) \in Nat /\ DOMAIN GroupLock(j) = 1 .. Len(GroupLock(j))
  BY GroupLockFacts
<1>3. /\ Permits[j] > 0 => 1 <= Len(GroupLock(j)) /\ GroupLock(j)[1].kind = "permits"
      /\ \A i \in 1 .. Len(GroupLock(j)) :
           GroupLock(j)[i].kind = "permits" => i = 1 /\ Permits[j] > 0
  BY <1>2, GroupLockFacts
<1>4. ~AtEnd(j) => at[j] \in 1 .. Len(GroupLock(j))
  BY <1>1, <1>2 DEF AtEnd
<1>5. AtEnd(j) /\ Permits[j] > 0 => at[j] > 1
  BY <1>1, <1>2, <1>3 DEF AtEnd
<1>6. ~AtEnd(j) => (Request(j).kind = "permits" <=> at[j] = 1 /\ Permits[j] > 0)
  BY <1>2, <1>3, <1>4 DEF Request
<1>7. phase[j] = "queued" => ~AtEnd(j)
  BY <1>1 DEF AtRequest
<1>8. ASSUME NEW p, NEW i, Goto(j, p, i)
      PROVE  /\ phase'[j] = p /\ at'[j] = i
             /\ \A k \in Jobs \ {j} : HoldsPermits(k)' = HoldsPermits(k)
  BY <1>1, <1>8 DEF Goto, HoldsPermits
<1>9. ASSUME NEW p, NEW i, Goto(j, p, i), available' = available, HoldsPermits(j)' <=> HoldsPermits(j)
      PROVE  PermitsConserved' /\ IsFiniteSet(PermitsTaken)'
  <2>1. \A k \in Jobs : HoldsPermits(k)' = HoldsPermits(k)
    <3>1. HoldsPermits(j)' \in BOOLEAN /\ HoldsPermits(j) \in BOOLEAN
      BY DEF HoldsPermits
    <3> QED
      BY <1>8, <1>9, <3>1
  <2> QED
    BY <1>9, <2>1, PermitsStay
<1>10. CASE Load(j)
  BY <1>8, <1>9, <1>10 DEF Load, HoldsPermits, lockVars
<1>11. CASE GetLock(j)
  <2>1. PICK p, i : p \in {"building", "making"} /\ Goto(j, p, i)
    BY <1>11 DEF GetLock
  <2> QED
    BY <1>8, <1>9, <1>11, <2>1 DEF GetLock, HoldsPermits, lockVars
<1>12. CASE PutLock(j)
  BY <1>8, <1>9, <1>12 DEF PutLock, HoldsPermits, lockVars
<1>13. CASE StartRun(j)
  BY <1>8, <1>9, <1>13 DEF StartRun, HoldsPermits, lockVars
<1>14. CASE Enqueue(j)
  BY <1>8, <1>9, <1>14 DEF Enqueue, HoldsPermits, lockVars
<1>15. CASE GrantPermits(j)
  <2>1. at[j] = 1 /\ Permits[j] > 0 /\ Goto(j, "acquiring", at[j] + 1) /\ phase[j] = "queued"
    BY <1>6, <1>7, <1>15 DEF GrantPermits, LeaveQueue
  <2>2. ~HoldsPermits(j) /\ HoldsPermits(j)'
    BY <1>8, <2>1 DEF HoldsPermits
  <2> QED
    BY <1>8, <1>15, <2>1, <2>2, PermitsGranted DEF GrantPermits
<1>16. CASE GrantRead(j) \/ GrantWrite(j)
  <2>1. Goto(j, "acquiring", at[j] + 1) /\ phase[j] = "queued" /\ available' = available
    BY <1>16 DEF GrantRead, GrantWrite, LeaveQueue
  <2>2. Permits[j] > 0 => at[j] > 1
    BY <1>1, <1>6, <1>7, <1>16 DEF GrantRead, GrantWrite
  <2>3. HoldsPermits(j)' <=> HoldsPermits(j)
    BY <1>1, <1>8, <2>1, <2>2 DEF HoldsPermits
  <2> QED
    BY <1>9, <2>1, <2>3
<1>17. CASE RunInner(j)
  <2>1. Goto(j, "running", at[j]) /\ phase[j] = "acquiring" /\ available' = available /\ AtEnd(j)
    BY <1>17 DEF RunInner, lockVars
  <2>2. HoldsPermits(j)' <=> HoldsPermits(j)
    BY <1>5, <1>8, <2>1 DEF HoldsPermits
  <2> QED
    BY <1>9, <2>1, <2>2
<1>18. CASE SkipCanceled(j)
  <2>1. Goto(j, "releasing", 1) /\ phase[j] = "acquiring" /\ available' = available /\ AtEnd(j)
    BY <1>18 DEF SkipCanceled, lockVars
  <2>2. HoldsPermits(j)' <=> HoldsPermits(j)
    BY <1>5, <1>8, <2>1 DEF HoldsPermits
  <2> QED
    BY <1>9, <2>1, <2>2
<1>19. CASE InnerEnds(j)
  <2>1. Goto(j, "releasing", 1) /\ phase[j] = "running" /\ available' = available
    BY <1>19 DEF InnerEnds, lockVars
  <2>2. HoldsPermits(j)' <=> HoldsPermits(j)
    BY <1>8, <2>1 DEF HoldsPermits
  <2> QED
    BY <1>9, <2>1, <2>2
<1>20. CASE Release(j)
  <2>1. Goto(j, "releasing", at[j] + 1) /\ phase[j] = "releasing" /\ ~AtEnd(j)
    BY <1>20 DEF Release
  <2>2. ~HoldsPermits(j)'
    BY <1>1, <1>8, <2>1 DEF HoldsPermits
  <2>3. CASE Request(j).kind = "permits"
    <3>1. HoldsPermits(j)
      BY <1>6, <2>1, <2>3 DEF HoldsPermits
    <3> QED
      BY <1>8, <1>20, <2>1, <2>2, <2>3, <3>1, PermitsReleased DEF Release
  <2>4. CASE Request(j).kind # "permits"
    <3>1. ~HoldsPermits(j)
      BY <1>6, <2>1, <2>4 DEF HoldsPermits
    <3> QED
      BY <1>9, <1>20, <2>1, <2>2, <2>4, <3>1 DEF Release
  <2> QED
    BY <2>3, <2>4
<1>21. CASE EndRun(j)
  <2>1. Goto(j, "idle", 1) /\ phase[j] = "releasing" /\ AtEnd(j) /\ available' = available
    BY <1>21 DEF EndRun, lockVars
  <2>2. ~HoldsPermits(j)' /\ ~HoldsPermits(j)
    BY <1>1, <1>5, <1>8, <2>1 DEF HoldsPermits
  <2> QED
    BY <1>9, <2>1, <2>2
<1>22. CASE Cancel(j)
  <2>1. available' = available /\ \A k \in Jobs : HoldsPermits(k)' = HoldsPermits(k)
    BY <1>22 DEF Cancel, HoldsPermits, lockVars
  <2> QED
    BY <2>1, PermitsStay
<1> QED
  BY <1>10, <1>11, <1>12, <1>13, <1>14, <1>15, <1>16, <1>17, <1>18, <1>19, <1>20, <1>21, <1>22
     DEF ThreadStep, Grant

(* The free permits and those of the jobs between grant and release are all *)
(* there are, for any jobs, lock lists and numbers of permits: no cancel(), *)
(* failure or order of releases loses one or makes one.                     *)
THEOREM NoPermitLost == Spec => []PermitsConserved
<1>1. Init => PermitsInv
  <2> SUFFICES ASSUME Init PROVE PermitsInv
    OBVIOUS
  <2>1. TypeOK /\ AtRequest
    BY LockInit DEF LockInv
  <2>2. PermitsTaken = {}
    BY DEF PermitsTaken, HoldsPermits, Init
  <2>3. IsFiniteSet(PermitsTaken) /\ Cardinality(PermitsTaken) = 0
    BY <2>2, FS_EmptySet
  <2> QED
    BY <2>1, <2>3, LockConstants DEF PermitsInv, PermitsConserved, Init
<1>2. PermitsInv /\ [Next]_vars => PermitsInv'
  <2> SUFFICES ASSUME PermitsInv, [Next]_vars PROVE PermitsInv'
    OBVIOUS
  <2>1. TypeOK' /\ AtRequest'
    BY TypeStep, AtRequestStep DEF PermitsInv
  <2>2. PermitsConserved' /\ IsFiniteSet(PermitsTaken)'
    <3>1. CASE UNCHANGED vars
      BY <3>1, PermitsStay DEF vars, HoldsPermits
    <3> QED
      BY <3>1, PermitsStep DEF Next
  <2> QED
    BY <2>1, <2>2 DEF PermitsInv
<1>3. PermitsInv => PermitsConserved
  BY DEF PermitsInv
<1> QED
  BY <1>1, <1>2, <1>3, PTL DEF Spec
=============================================================================
