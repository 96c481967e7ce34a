-------------------------- MODULE JobProcessProofs --------------------------
(***************************************************************************)
(* Proofs about what a process job runs: JobProcess, for any number of     *)
(* commands and retries, with or without a cancel(): its type invariant,   *)
(* that no process is left behind, and that run() tells the truth; and     *)
(* LogBuffer, for every size of the buffer and any number of lines: that   *)
(* the circular buffer keeps the last lines in their order.                *)
(***************************************************************************)
EXTENDS JobProcess, LogBuffer, FiniteSetTheorems, SequenceTheorems, TLAPS

(* There are processes enough for all attempts.                             *)
LEMMA RoomForAttempts ==
  ASSUME NEW t \in Nat, NEW m \in Nat, t <= m
  PROVE  /\ t * Commands + Commands <= (m + 1) * Commands
         /\ (t + 1) * Commands = t * Commands + Commands
         /\ t * Commands \in Nat /\ (m + 1) * Commands \in Nat
<1>1. Commands \in Nat
  BY ProcessConstants
<1>2. PICK d \in Nat : m = t + d
  <2>1. m - t \in Nat /\ m = t + (m - t)
    OBVIOUS
  <2> QED
    BY <2>1
<1>3. d * Commands \in Nat /\ t * Commands \in Nat
  BY <1>1
<1>4. (t + d + 1) * Commands = t * Commands + d * Commands + Commands
  BY <1>1
<1>5. (t + 1) * Commands = t * Commands + Commands
  BY <1>1
<1> QED
  BY <1>1, <1>2, <1>3, <1>4, <1>5

LEMMA Numbers ==
  ASSUME ProcessTypeOK
  PROVE  /\ Commands \in Nat /\ Commands # 0 /\ MaxRetries \in Nat
         /\ tries \in Nat /\ retries \in Nat /\ retries <= MaxRetries
         /\ command \in Nat /\ made \in Nat /\ Processes \subseteq Nat \ {0}
         /\ NoProcess = 0 /\ NoProcess \notin Processes
         /\ tries * Commands \in Nat /\ (tries + 1) * Commands = tries * Commands + Commands
<1>1. Processes \subseteq Nat \ {0}
  BY RoomForAttempts, ProcessConstants DEF Processes
<1>2. /\ Commands \in Nat /\ Commands # 0 /\ MaxRetries \in Nat
      /\ retries \in Nat /\ retries <= MaxRetries /\ tries \in Nat
      /\ command \in Nat /\ made \in Nat
  BY <1>1, ProcessConstants DEF ProcessTypeOK
<1>3. tries * Commands \in Nat /\ (tries + 1) * Commands = tries * Commands + Commands
  BY <1>2, RoomForAttempts
<1> QED
  BY <1>1, <1>2, <1>3 DEF NoProcess

LEMMA RoomForOne ==
  ASSUME ProcessTypeOK, Counted, run = "attempt"
  PROVE  made + 1 \in Processes
<1>1. tries <= retries /\ tries <= MaxRetries
      /\ made <= tries * Commands + command - 1 /\ command <= Commands
  BY Numbers DEF Counted
<1>2. tries * Commands + Commands <= (MaxRetries + 1) * Commands
      /\ (MaxRetries + 1) * Commands \in Nat
  BY <1>1, Numbers, RoomForAttempts
<1> QED
  BY <1>1, <1>2, Numbers DEF Processes

LEMMA HasProcess ==
  ASSUME ProcessTypeOK, Counted, run # "attempt"
  PROVE  made \in Processes
BY DEF ProcessTypeOK, Counted

(* What a cancel() leaves alone.                                            *)
LEMMA CancelFrame ==
  ASSUME CancelBegins \/ KillStep
  PROVE  UNCHANGED <<settings, jobVars, os, process, latches>>
BY DEF CancelBegins, KillStep, SoftKill, KillCommand, AwaitKilled, HardKill, CancelTo,
       settings, jobVars, osVars, latches

(* Every step keeps the types; a new process has a number left.             *)
LEMMA TypeStep ==
  ASSUME ProcessTypeOK, Counted, OnlyTheLatest, KillsTheOne, [ProcessNext]_processVars
  PROVE  ProcessTypeOK'
<1> USE Numbers DEF ProcessTypeOK, JobSteps, CancelSteps
<1>1. CASE BuildProcess
  BY <1>1, RoomForOne DEF BuildProcess, Go, settings, jobVars, osVars, latches, killVars
<1>2. CASE StartProcess
  BY <1>2 DEF StartProcess, Go, settings, jobVars, osVars, latches, killVars
<1>3. CASE StartupLatch
  BY <1>3, HasProcess DEF StartupLatch, Go, settings, jobVars, osVars, latches, killVars
<1>4. CASE SetProcessId
  BY <1>4, HasProcess DEF SetProcessId, Go, settings, jobVars, osVars, latches, killVars
<1>5. CASE WaitFor
  BY <1>5, HasProcess DEF WaitFor, Go, settings, jobVars, osVars, latches, killVars
<1>6. CASE ClearProcess
  BY <1>6 DEF ClearProcess, Go, settings, jobVars, osVars, latches, killVars
<1>7. CASE StartCommand
  BY <1>7, RoomForOne DEF StartCommand, Go, settings, jobVars, osVars, latches, killVars
<1>8. CASE AssignProcess
  BY <1>8 DEF AssignProcess, Go, settings, jobVars, osVars, latches, killVars
<1>9. CASE WaitForCommand
  <2>1. command' \in 1 .. Commands + 1
    BY <1>9 DEF WaitForCommand, Go, Counted
  <2> QED
    BY <1>9, <2>1 DEF WaitForCommand, Go, settings, jobVars, osVars, latches, killVars
<1>10. CASE Retry
  <2>1. tries' \in 0 .. retries + 1
    BY <1>10 DEF Retry, Counted
  <2> QED
    BY <1>10, <2>1 DEF Retry, settings, jobVars, osVars, latches, killVars
<1>11. CASE CancelBegins
  BY <1>11 DEF CancelBegins, CancelTo, settings, jobVars, osVars, latches, killVars
<1>12. CASE SoftKill
  BY <1>12 DEF SoftKill, CancelTo, settings, jobVars, osVars, latches, killVars
<1>13. CASE KillCommand
  BY <1>13 DEF KillCommand, KillsTheOne, settings, jobVars, osVars, latches, killVars
<1>14. CASE AwaitKilled
  BY <1>14 DEF AwaitKilled, CancelTo, settings, jobVars, osVars, latches, killVars
<1>15. CASE HardKill
  <2>1. process \in Processes \/ UNCHANGED destroyed
    BY <1>15, ProcessConstants DEF HardKill, KillsTheOne
  <2>2. destroyed' \subseteq Processes
    BY <1>15, <2>1 DEF HardKill, CancelTo
  <2> QED
    BY <1>15, <2>2 DEF HardKill, CancelTo, settings, jobVars, osVars, latches, killVars
<1>16. ASSUME NEW x \in Processes, Exit(x) PROVE ProcessTypeOK'
  BY <1>16 DEF Exit, settings, jobVars, osVars, latches, killVars
<1>17. CASE UNCHANGED processVars
  BY <1>17 DEF processVars, settings, jobVars, osVars, latches, killVars
<1> QED
  BY <1>1, <1>2, <1>3, <1>4, <1>5, <1>6, <1>7, <1>8, <1>9, <1>10, <1>11, <1>12,
     <1>13, <1>14, <1>15, <1>16, <1>17
     DEF ProcessNext, JobStep, KillStep

LEMMA CountedStep ==
  ASSUME ProcessTypeOK, Counted, OnlyTheLatest, [ProcessNext]_processVars
  PROVE  Counted'
<1> USE Numbers DEF Counted, InAttempt
<1>1. CASE BuildProcess
  BY <1>1 DEF BuildProcess, Go, settings, jobVars, osVars, latches, killVars
<1>2. CASE StartProcess
  BY <1>2 DEF StartProcess, Go, settings, jobVars, osVars, latches, killVars
<1>3. CASE StartupLatch
  BY <1>3 DEF StartupLatch, Go, settings, jobVars, osVars, latches, killVars
<1>4. CASE SetProcessId
  BY <1>4 DEF SetProcessId, Go, settings, jobVars, osVars, latches, killVars
<1>5. CASE WaitFor
  BY <1>5 DEF WaitFor, Go, settings, jobVars, osVars, latches, killVars
<1>6. CASE ClearProcess
  BY <1>6 DEF ClearProcess, Go, settings, jobVars, osVars, latches, killVars
<1>7. CASE StartCommand
  BY <1>7 DEF StartCommand, Go, settings, jobVars, osVars, latches, killVars
<1>8. CASE AssignProcess
  BY <1>8 DEF AssignProcess, Go, settings, jobVars, osVars, latches, killVars
<1>9. CASE WaitForCommand
  BY <1>9 DEF WaitForCommand, Go, settings, jobVars, osVars, latches, killVars
<1>10. CASE Retry
  BY <1>10 DEF Retry, settings, jobVars, osVars, latches, killVars
<1>11. CASE CancelBegins \/ KillStep
  BY <1>11, CancelFrame DEF settings, jobVars
<1>12. ASSUME NEW x \in Processes, Exit(x) PROVE Counted'
  BY <1>12 DEF Exit, settings, jobVars, osVars, latches, killVars
<1>13. CASE UNCHANGED processVars
  BY <1>13 DEF processVars, settings, jobVars, osVars, latches, killVars
<1> QED
  BY <1>1, <1>2, <1>3, <1>4, <1>5, <1>6, <1>7, <1>8, <1>9, <1>10, <1>11, <1>12, <1>13
     DEF ProcessNext, JobStep, KillStep

LEMMA LatestStep ==
  ASSUME ProcessTypeOK, Counted, OnlyTheLatest, [ProcessNext]_processVars
  PROVE  OnlyTheLatest'
<1> USE Numbers DEF ProcessTypeOK, Counted, OnlyTheLatest, IsDone, InAttempt
<1>1. CASE BuildProcess
  <2>1. /\ run = "attempt" /\ run' = "start" /\ made' = made + 1 /\ UNCHANGED <<class, os>>
        /\ class = "LongArgJob"
    BY <1>1 DEF BuildProcess, Go, settings, osVars
  <2>2. made + 1 \in Processes /\ made + 1 > made
    BY <2>1, RoomForOne
  <2>3. os[made + 1] = "none" /\ \A k \in Processes : k > made + 1 => k > made
    BY <2>2
  <2> QED
    BY <2>1, <2>2, <2>3
<1>2. CASE StartProcess
  BY <1>2 DEF StartProcess, Go, settings, jobVars, osVars, latches, killVars
<1>3. CASE StartupLatch
  BY <1>3 DEF StartupLatch, Go, settings, jobVars, osVars, latches, killVars
<1>4. CASE SetProcessId
  BY <1>4 DEF SetProcessId, Go, settings, jobVars, osVars, latches, killVars
<1>5. CASE WaitFor
  BY <1>5 DEF WaitFor, Go, settings, jobVars, osVars, latches, killVars
<1>6. CASE ClearProcess
  BY <1>6 DEF ClearProcess, Go, settings, jobVars, osVars, latches, killVars
<1>7. CASE StartCommand
  BY <1>7, RoomForOne DEF StartCommand, Go, settings, jobVars, osVars, latches, killVars
<1>8. CASE AssignProcess
  BY <1>8 DEF AssignProcess, Go, settings, jobVars, osVars, latches, killVars
<1>9. CASE WaitForCommand
  BY <1>9 DEF WaitForCommand, Go, settings, jobVars, osVars, latches, killVars
<1>10. CASE Retry
  BY <1>10 DEF Retry, settings, jobVars, osVars, latches, killVars
<1>11. CASE CancelBegins \/ KillStep
  BY <1>11, CancelFrame DEF settings, jobVars
<1>12. ASSUME NEW x \in Processes, Exit(x) PROVE OnlyTheLatest'
  BY <1>12 DEF Exit, settings, jobVars, osVars, latches, killVars
<1>13. CASE UNCHANGED processVars
  BY <1>13 DEF processVars, settings, jobVars, osVars, latches, killVars
<1> QED
  BY <1>1, <1>2, <1>3, <1>4, <1>5, <1>6, <1>7, <1>8, <1>9, <1>10, <1>11, <1>12, <1>13
     DEF ProcessNext, JobStep, KillStep

LEMMA KillsStep ==
  ASSUME ProcessTypeOK, Counted, OnlyTheLatest, KillsTheOne, [ProcessNext]_processVars
  PROVE  KillsTheOne'
<1> USE Numbers DEF ProcessTypeOK, KillsTheOne, OnlyTheLatest, InAttempt
<1>1. CASE BuildProcess
  BY <1>1 DEF BuildProcess, Go, settings, jobVars, osVars, latches, killVars
<1>2. CASE StartProcess
  BY <1>2 DEF StartProcess, Go, settings, jobVars, osVars, latches, killVars
<1>3. CASE StartupLatch
  BY <1>3, HasProcess DEF StartupLatch, Go, settings, jobVars, osVars, latches, killVars
<1>4. CASE SetProcessId
  BY <1>4 DEF SetProcessId, Go, settings, jobVars, osVars, latches, killVars
<1>5. CASE WaitFor
  BY <1>5 DEF WaitFor, Go, settings, jobVars, osVars, latches, killVars
<1>6. CASE ClearProcess
  BY <1>6 DEF ClearProcess, Go, settings, jobVars, osVars, latches, killVars
<1>7. CASE StartCommand
  BY <1>7 DEF StartCommand, Go, settings, jobVars, osVars, latches, killVars
<1>8. CASE AssignProcess
  BY <1>8, HasProcess DEF AssignProcess, Go, settings, jobVars, osVars, latches, killVars
<1>9. CASE WaitForCommand
  BY <1>9 DEF WaitForCommand, Go, settings, jobVars, osVars, latches, killVars
<1>10. CASE Retry
  BY <1>10 DEF Retry, settings, jobVars, osVars, latches, killVars
<1>11. CASE CancelBegins
  BY <1>11 DEF CancelBegins, CancelTo, settings, jobVars, osVars, latches, killVars
<1>12. CASE SoftKill
  BY <1>12 DEF SoftKill, CancelTo, settings, jobVars, osVars, latches, killVars
<1>13. CASE KillCommand
  BY <1>13 DEF KillCommand, CancelTo, settings, jobVars, osVars, latches, killVars
<1>14. CASE AwaitKilled
  BY <1>14 DEF AwaitKilled, CancelTo, settings, jobVars, osVars, latches, killVars
<1>15. CASE HardKill
  BY <1>15 DEF HardKill, CancelTo, settings, jobVars, osVars, latches, killVars
<1>16. ASSUME NEW x \in Processes, Exit(x) PROVE KillsTheOne'
  BY <1>16 DEF Exit, settings, jobVars, osVars, latches, killVars
<1>17. CASE UNCHANGED processVars
  BY <1>17 DEF processVars, settings, jobVars, osVars, latches, killVars
<1> QED
  BY <1>1, <1>2, <1>3, <1>4, <1>5, <1>6, <1>7, <1>8, <1>9, <1>10, <1>11, <1>12,
     <1>13, <1>14, <1>15, <1>16, <1>17
     DEF ProcessNext, JobStep, KillStep

LEMMA HoldsStep ==
  ASSUME ProcessTypeOK, OnlyTheLatest, KillsTheOne, CancelHolds, [ProcessNext]_processVars
  PROVE  CancelHolds'
<1> USE Numbers DEF ProcessTypeOK, KillsTheOne, OnlyTheLatest, CancelHolds, InAttempt
<1>1. CASE BuildProcess
  BY <1>1 DEF BuildProcess, Go, settings, jobVars, osVars, latches, killVars
<1>2. CASE StartProcess
  BY <1>2 DEF StartProcess, Go, settings, jobVars, osVars, latches, killVars
<1>3. CASE StartupLatch
  BY <1>3 DEF StartupLatch, Go, settings, jobVars, osVars, latches, killVars
<1>4. CASE SetProcessId
  BY <1>4 DEF SetProcessId, Go, settings, jobVars, osVars, latches, killVars
<1>5. CASE WaitFor
  BY <1>5 DEF WaitFor, Go, settings, jobVars, osVars, latches, killVars
<1>6. CASE ClearProcess
  BY <1>6 DEF ClearProcess, Go, settings, jobVars, osVars, latches, killVars
<1>7. CASE StartCommand
  BY <1>7 DEF StartCommand, Go, settings, jobVars, osVars, latches, killVars
<1>8. CASE AssignProcess
  BY <1>8 DEF AssignProcess, Go, settings, jobVars, osVars, latches, killVars
<1>9. CASE WaitForCommand
  BY <1>9 DEF WaitForCommand, Go, settings, jobVars, osVars, latches, killVars
<1>10. CASE Retry
  BY <1>10 DEF Retry, settings, jobVars, osVars, latches, killVars
<1>11. CASE CancelBegins
  BY <1>11 DEF CancelBegins, CancelTo, settings, jobVars, osVars, latches, killVars
<1>12. CASE SoftKill
  BY <1>12 DEF SoftKill, CancelTo, settings, jobVars, osVars, latches, killVars
<1>13. CASE KillCommand
  BY <1>13 DEF KillCommand, CancelTo, settings, jobVars, osVars, latches, killVars
<1>14. CASE AwaitKilled
  BY <1>14 DEF AwaitKilled, CancelTo, settings, jobVars, osVars, latches, killVars
<1>15. CASE HardKill
  BY <1>15 DEF HardKill, CancelTo, settings, jobVars, osVars, latches, killVars
<1>16. ASSUME NEW x \in Processes, Exit(x) PROVE CancelHolds'
  BY <1>16 DEF Exit, settings, jobVars, osVars, latches, killVars
<1>17. CASE UNCHANGED processVars
  BY <1>17 DEF processVars, settings, jobVars, osVars, latches, killVars
<1> QED
  BY <1>1, <1>2, <1>3, <1>4, <1>5, <1>6, <1>7, <1>8, <1>9, <1>10, <1>11, <1>12,
     <1>13, <1>14, <1>15, <1>16, <1>17
     DEF ProcessNext, JobStep, KillStep

LEMMA InvAlways == ProcessSpec => []ProcessInv
<1>1. ProcessInit => ProcessInv
  <2> SUFFICES ASSUME ProcessInit PROVE ProcessInv
    OBVIOUS
  <2>1. ProcessTypeOK
    BY ProcessConstants DEF ProcessInit, ProcessTypeOK, JobSteps, CancelSteps, NoProcess
  <2>2. Counted
    BY <2>1, Numbers DEF ProcessInit, Counted, InAttempt
  <2>3. OnlyTheLatest /\ KillsTheOne /\ CancelHolds
    BY <2>1, Numbers DEF ProcessInit, OnlyTheLatest, IsDone, KillsTheOne, CancelHolds, InAttempt
  <2> QED
    BY <2>1, <2>2, <2>3 DEF ProcessInv
<1>2. ProcessInv /\ [ProcessNext]_processVars => ProcessInv'
  BY TypeStep, CountedStep, LatestStep, KillsStep, HoldsStep DEF ProcessInv
<1> QED
  BY <1>1, <1>2, PTL DEF ProcessSpec

(* Fields, steps and latches keep their types, and there is a process for   *)
(* every attempt and command, however often the job is retried.             *)
THEOREM TypeCorrect == ProcessSpec => []ProcessTypeOK
<1>1. ProcessInv => ProcessTypeOK
  BY DEF ProcessInv
<1> QED
  BY <1>1, InvAlways, PTL

(* No process of a job goes on when its run() is over or starts the next    *)
(* one, nor, if it is a LongArgJob that is not retried, when cancel() has   *)
(* returned: AzkabanProcess waits for its process, and kills it.            *)
THEOREM NothingGoesOn == ProcessSpec => []NoneLeftBehind
<1>1. ProcessInv => NoneLeftBehind
  <2> SUFFICES ASSUME ProcessInv PROVE NoneLeftBehind
    OBVIOUS
  <2> DEFINE Alive == {k \in Processes : os[k] = "alive"}
  <2>1. Alive \subseteq {made}
    BY DEF ProcessInv, OnlyTheLatest
  <2>2. Cardinality(Alive) <= 1
    <3>1. IsFiniteSet({made}) /\ Cardinality({made}) = 1
      BY FS_Singleton
    <3> HIDE DEF Alive
    <3> QED
      BY <2>1, <3>1, FS_Subset
  <2> QED
    BY <2>2 DEF ProcessInv, OnlyTheLatest, NoneLeftBehind
<1> QED
  BY <1>1, InvAlways, PTL

(* run() of a job succeeds only if all commands of its last attempt did and *)
(* throws only after all attempts, the last one of which failed.            *)
THEOREM TellsTheTruth == ProcessSpec => []RunIsHonest
<1>1. ProcessInv => RunIsHonest
  <2> SUFFICES ASSUME ProcessInv PROVE RunIsHonest
    OBVIOUS
  <2>1. ProcessTypeOK /\ Counted /\ OnlyTheLatest
    BY DEF ProcessInv
  <2>2. ASSUME run = "succeeded", class = "ProcessJob", NEW k \in made - Commands + 1 .. made
        PROVE  os[k] = "ok"
    <3>1. k \in Processes
      <4>1. made \in Processes /\ Commands <= made
        BY <2>1, <2>2, HasProcess DEF OnlyTheLatest
      <4>2. \A m \in Processes, n \in Nat : n # 0 /\ n <= m => n \in Processes
        BY RoomForAttempts, ProcessConstants DEF Processes
      <4> QED
        BY <2>1, <2>2, <4>1, <4>2, Numbers
    <3> QED
      BY <2>1, <2>2, <3>1, Numbers DEF OnlyTheLatest, IsDone
  <2> QED
    BY <2>1, <2>2 DEF RunIsHonest, Counted, OnlyTheLatest
<1> QED
  BY <1>1, InvAlways, PTL

-----------------------------------------------------------------------------
(* LogBuffer.  Inductive is what an index holds: counted from where the     *)
(* next iteration starts, the i-th line of the list; while append() has set *)
(* a line and not moved start yet that place is the next.                   *)

(* Where start is, or will be when the append() under way is through.       *)
First == IF ~set THEN start ELSE IF start + 1 = Size THEN 0 ELSE start + 1

Line(i) == IF i > First THEN appended - Len(lines) + i - First ELSE appended + i - First

Ring ==
  /\ Len(lines) = Kept
  /\ set => Len(lines) = Size
  /\ Len(lines) < Size => start = 0
  /\ \A i \in 1 .. Len(lines) : lines[i] = Line(i)

(* An iterator starts at a line that is there, or in an empty list.         *)
FromIsThere == from < Len(lines) \/ from = 0

IInv == BufferTypeOK /\ Ring /\ FromIsThere

-----------------------------------------------------------------------------
LEMMA InitIInv == BufferInit => IInv
<1> SUFFICES ASSUME BufferInit PROVE IInv  OBVIOUS
<1>1. lines = <<>> /\ Len(lines) = 0  BY DEF BufferInit
<1>2. BufferTypeOK
  <2>1. lines \in Seq(1 .. MaxLines) /\ snippet \in Seq(1 .. MaxLines)
    BY EmptySeq DEF BufferInit
  <2>2. Len(lines) <= Size /\ 0 \in 0 .. Size - 1  BY <1>1, BufferConstants
  <2>3. start = 0 /\ from = 0 /\ appended \in 0 .. written /\ written \in 0 .. MaxLines
    BY BufferConstants DEF BufferInit
  <2>4. /\ set \in BOOLEAN /\ grew \in BOOLEAN
        /\ thread \in {"waitFor", "joined", "iterating", "threwOther", "threwFailure"}
    BY DEF BufferInit
  <2> QED  BY <2>1, <2>2, <2>3, <2>4 DEF BufferTypeOK
<1>3. Ring  BY <1>1, BufferConstants DEF BufferInit, Ring, Kept
<1>4. FromIsThere  BY DEF BufferInit, FromIsThere
<1> QED  BY <1>2, <1>3, <1>4 DEF IInv

(* What an iterator returns next is a line of the list.                     *)
LEMMA AtInRange ==
  ASSUME BufferTypeOK, NEW s \in Nat, NEW k \in 1 .. Len(lines), s < Len(lines) \/ s = 0
  PROVE  At(s, k) \in 1 .. MaxLines
<1>1. Len(lines) \in Nat  BY DEF BufferTypeOK
<1>2. (IF s + k <= Len(lines) THEN s + k ELSE s + k - Len(lines)) \in 1 .. Len(lines)
  BY <1>1
<1>3. \A i \in 1 .. Len(lines) : lines[i] \in 1 .. MaxLines  BY ElementOfSeq DEF BufferTypeOK
<1> QED  BY <1>2, <1>3 DEF At

LEMMA AppendNewIInv == IInv /\ AppendNew => IInv'
<1> SUFFICES ASSUME IInv, AppendNew PROVE IInv'  OBVIOUS
<1>1. /\ lines \in Seq(1 .. MaxLines) /\ Len(lines) \in Nat
      /\ appended \in Nat /\ written \in Nat /\ MaxLines \in Nat /\ Size \in Nat
      /\ start = 0 /\ set = FALSE /\ appended < written /\ written <= MaxLines
      /\ Len(lines) < Size /\ Len(lines) = appended
  BY BufferConstants DEF IInv, BufferTypeOK, Ring, AppendNew, Kept
<1>2. lines' = Append(lines, appended + 1) /\ appended' = appended + 1 /\ grew' = TRUE
      /\ UNCHANGED <<start, set, written, thread, from, snippet>>
  BY DEF AppendNew
<1>3. appended + 1 \in 1 .. MaxLines  BY <1>1
<1>4. lines' \in Seq(1 .. MaxLines) /\ Len(lines') = Len(lines) + 1
  BY <1>1, <1>2, <1>3, AppendProperties
<1>5. BufferTypeOK'  BY <1>1, <1>2, <1>4 DEF IInv, BufferTypeOK
<1>6. ASSUME NEW i \in 1 .. Len(lines') PROVE lines'[i] = Line(i)'
  <2>1. CASE i = Len(lines')  BY <1>1, <1>2, <1>4, <2>1 DEF Line, First
  <2>2. CASE i # Len(lines')
    <3>1. i \in 1 .. Len(lines) /\ lines'[i] = lines[i]  BY <1>1, <1>2, <1>4, <2>2
    <3>2. lines[i] = Line(i)  BY <3>1 DEF IInv, Ring
    <3> QED  BY <1>1, <1>2, <1>4, <3>1, <3>2 DEF Line, First
  <2> QED  BY <2>1, <2>2
<1>7. Ring'  BY <1>1, <1>2, <1>4, <1>6 DEF Ring, Kept
<1>8. FromIsThere'  BY <1>1, <1>2, <1>4 DEF IInv, FromIsThere, BufferTypeOK
<1> QED  BY <1>5, <1>7, <1>8 DEF IInv

LEMMA AppendSetIInv == IInv /\ AppendSet => IInv'
<1> SUFFICES ASSUME IInv, AppendSet PROVE IInv'  OBVIOUS
<1>1. /\ lines \in Seq(1 .. MaxLines) /\ Len(lines) = Size
      /\ appended \in Nat /\ written \in Nat /\ MaxLines \in Nat /\ Size \in Nat \ {0}
      /\ start \in 0 .. Size - 1 /\ set = FALSE /\ appended < written /\ written <= MaxLines
      /\ appended >= Size
  BY BufferConstants DEF IInv, BufferTypeOK, Ring, AppendSet, Kept
<1>2. /\ lines' = [lines EXCEPT ![start + 1] = appended + 1]
      /\ appended' = appended + 1 /\ set' = TRUE
      /\ UNCHANGED <<start, written, thread, from, grew, snippet>>
  BY DEF AppendSet, reader
<1>3. appended + 1 \in 1 .. MaxLines /\ start + 1 \in 1 .. Len(lines)  BY <1>1
<1>4. lines' \in Seq(1 .. MaxLines) /\ Len(lines') = Len(lines)
  BY <1>1, <1>2, <1>3, ExceptSeq
<1>5. BufferTypeOK'  BY <1>1, <1>2, <1>4 DEF IInv, BufferTypeOK
<1>6. ASSUME NEW i \in 1 .. Len(lines') PROVE lines'[i] = Line(i)'
  <2>1. i \in 1 .. Size  BY <1>1, <1>4
  <2>2. lines'[i] = IF i = start + 1 THEN appended + 1 ELSE lines[i]
    BY <1>1, <1>2, <1>4
  <2>3. lines[i] = Line(i)  BY <1>4 DEF IInv, Ring
  <2>4. lines[i] = IF i > start THEN appended - Size + i - start ELSE appended + i - start
    BY <1>1, <2>3 DEF Line, First
  <2> DEFINE next == First'
  <2>5. Line(i)' = IF i > next THEN appended' - Len(lines') + i - next ELSE appended' + i - next
    BY DEF Line
  <2>6. appended' = appended + 1 /\ Len(lines') = Size  BY <1>1, <1>2, <1>4
  <2>7. CASE start + 1 = Size
    <3>1. First' = 0  BY <1>2, <2>7 DEF First
    <3>2. Line(i)' = appended + 1 - Size + i  BY <1>1, <2>1, <2>5, <2>6, <3>1
    <3> QED  BY <1>1, <2>1, <2>2, <2>4, <2>7, <3>2
  <2>8. CASE start + 1 # Size
    <3>1. First' = start + 1  BY <1>2, <2>8 DEF First
    <3>2. Line(i)' = IF i > start + 1 THEN appended - Size + i - start ELSE appended + i - start
      BY <1>1, <2>1, <2>5, <2>6, <3>1
    <3> QED  BY <1>1, <2>1, <2>2, <2>4, <2>8, <3>2
  <2> QED  BY <2>7, <2>8
<1>7. Ring'  BY <1>1, <1>2, <1>4, <1>6 DEF Ring, Kept
<1>8. FromIsThere'  BY <1>1, <1>2, <1>4 DEF IInv, FromIsThere
<1> QED  BY <1>5, <1>7, <1>8 DEF IInv

LEMMA MoveStartIInv == IInv /\ MoveStart => IInv'
<1> SUFFICES ASSUME IInv, MoveStart PROVE IInv'  OBVIOUS
<1>1. /\ set = TRUE /\ set' = FALSE
      /\ start' = IF start + 1 = Size THEN 0 ELSE start + 1
      /\ UNCHANGED <<lines, appended, written, thread, from, grew, snippet>>
      /\ start \in 0 .. Size - 1 /\ Size \in Nat \ {0} /\ Len(lines) = Size
  BY BufferConstants DEF IInv, BufferTypeOK, Ring, MoveStart, reader
<1>2. start' \in 0 .. Size - 1  BY <1>1
<1>3. BufferTypeOK'  BY <1>1, <1>2 DEF IInv, BufferTypeOK
<1>4. First' = First  BY <1>1 DEF First
<1>5. \A i \in 1 .. Len(lines) : Line(i)' = Line(i)  BY <1>1, <1>4 DEF Line
<1>6. Ring'  BY <1>1, <1>5 DEF IInv, Ring, Kept
<1>7. FromIsThere'  BY <1>1 DEF IInv, FromIsThere
<1> QED  BY <1>3, <1>6, <1>7 DEF IInv

(* The job's thread changes nothing of the buffer.                          *)
LEMMA ReaderStep ==
  ASSUME IInv, UNCHANGED buffer, BufferTypeOK', FromIsThere'
  PROVE  IInv'
<1>1. UNCHANGED <<lines, start, set, appended>>  BY DEF buffer
<1>2. Ring'  BY <1>1 DEF IInv, Ring, Line, First, Kept
<1> QED  BY <1>2 DEF IInv

LEMMA StepIInv == IInv /\ [BufferNext]_bufferVars => IInv'
<1> SUFFICES ASSUME IInv, [BufferNext]_bufferVars PROVE IInv'  OBVIOUS
<1>1. CASE Write
  <2>1. BufferTypeOK'  BY <1>1, BufferConstants DEF Write, IInv, BufferTypeOK, buffer, reader
  <2>2. FromIsThere'  BY <1>1 DEF Write, IInv, FromIsThere, buffer, reader
  <2> QED  BY <1>1, <2>1, <2>2, ReaderStep DEF Write
<1>2. CASE AppendNew  BY <1>2, AppendNewIInv
<1>3. CASE AppendSet  BY <1>3, AppendSetIInv
<1>4. CASE MoveStart  BY <1>4, MoveStartIInv
<1>5. CASE Succeeds
  <2>1. BufferTypeOK'  BY <1>5 DEF Succeeds, IInv, BufferTypeOK, buffer
  <2>2. FromIsThere'  BY <1>5 DEF Succeeds, IInv, FromIsThere, buffer
  <2> QED  BY <1>5, <2>1, <2>2, ReaderStep DEF Succeeds
<1>6. CASE MakeIterator
  <2>1. snippet' = <<>> /\ snippet' \in Seq(1 .. MaxLines)  BY <1>6 DEF MakeIterator
  <2>2. BufferTypeOK'  BY <1>6, <2>1 DEF MakeIterator, IInv, BufferTypeOK, buffer
  <2>3. FromIsThere'
    BY <1>6, BufferConstants DEF MakeIterator, IInv, FromIsThere, Ring, BufferTypeOK, buffer
  <2> QED  BY <1>6, <2>2, <2>3, ReaderStep DEF MakeIterator
<1>7. CASE Iterate
  <2>1. Len(snippet) + 1 \in 1 .. Len(lines) /\ from \in Nat
    BY <1>7 DEF Iterate, IInv, BufferTypeOK
  <2>2. At(from, Len(snippet) + 1) \in 1 .. MaxLines
    BY <2>1, AtInRange DEF IInv, FromIsThere
  <2>3. snippet' \in Seq(1 .. MaxLines)
    BY <1>7, <2>2, AppendProperties DEF Iterate, IInv, BufferTypeOK
  <2>4. BufferTypeOK'  BY <1>7, <2>3 DEF Iterate, IInv, BufferTypeOK, buffer
  <2>5. FromIsThere'  BY <1>7 DEF Iterate, IInv, FromIsThere, buffer
  <2> QED  BY <1>7, <2>4, <2>5, ReaderStep DEF Iterate
<1>8. CASE IterateThrows
  <2>1. BufferTypeOK'  BY <1>8 DEF IterateThrows, IInv, BufferTypeOK, buffer
  <2>2. FromIsThere'  BY <1>8 DEF IterateThrows, IInv, FromIsThere, buffer
  <2> QED  BY <1>8, <2>1, <2>2, ReaderStep DEF IterateThrows
<1>9. CASE IterateEnds
  <2>1. BufferTypeOK'  BY <1>9 DEF IterateEnds, IInv, BufferTypeOK, buffer
  <2>2. FromIsThere'  BY <1>9 DEF IterateEnds, IInv, FromIsThere, buffer
  <2> QED  BY <1>9, <2>1, <2>2, ReaderStep DEF IterateEnds
<1>10. CASE UNCHANGED bufferVars
  <2>1. UNCHANGED <<buffer, written, thread, from, grew, snippet>>  BY <1>10 DEF bufferVars, reader
  <2>2. BufferTypeOK'  BY <2>1 DEF IInv, BufferTypeOK, buffer
  <2>3. FromIsThere'  BY <2>1 DEF IInv, FromIsThere, buffer
  <2> QED  BY <2>1, <2>2, <2>3, ReaderStep
<1> QED
  BY <1>1, <1>2, <1>3, <1>4, <1>5, <1>6, <1>7, <1>8, <1>9, <1>10 DEF BufferNext

-----------------------------------------------------------------------------
(* Reading the list by index, from start on, gives the lines in order.      *)
LEMMA RingHolds == IInv => HoldsTheLast
<1> SUFFICES ASSUME IInv, ~set
             PROVE  /\ Len(lines) = Kept
                    /\ \A k \in 1 .. Kept : At(start, k) = appended - Kept + k
  BY DEF HoldsTheLast
<1>1. /\ Len(lines) = Kept /\ Len(lines) \in Nat /\ appended \in Nat
      /\ start \in Nat /\ (start < Len(lines) \/ start = 0)
  BY BufferConstants DEF IInv, BufferTypeOK, Ring
<1>2. ASSUME NEW k \in 1 .. Kept PROVE At(start, k) = appended - Kept + k
  <2> DEFINE i == IF start + k <= Len(lines) THEN start + k ELSE start + k - Len(lines)
  <2>1. i \in 1 .. Len(lines)  BY <1>1
  <2>2. lines[i] = Line(i)  BY <2>1 DEF IInv, Ring
  <2>3. Line(i) = IF i > start THEN appended - Len(lines) + i - start ELSE appended + i - start
    BY DEF Line, First
  <2>4. Line(i) = appended - Len(lines) + k  BY <1>1, <2>1, <2>3
  <2> QED  BY <1>1, <2>2, <2>4 DEF At
<1> QED  BY <1>1, <1>2

(* Indices stay inside the list and lines are lines that were written.      *)
THEOREM BufferTyped == BufferSpec => []BufferTypeOK
<1>1. IInv => BufferTypeOK  BY DEF IInv
<1> QED  BY InitIInv, StepIInv, <1>1, PTL DEF BufferSpec

(* Between two calls of append(), iterating gives the last lines the        *)
(* process wrote, in their order, for every size of the buffer.             *)
THEOREM LastLinesHeld == BufferSpec => []HoldsTheLast
<1> QED  BY InitIInv, StepIInv, RingHolds, PTL DEF BufferSpec
=============================================================================
