----------------------------- MODULE JobProcess -----------------------------
(***************************************************************************)
(* A job that starts processes, and a thread that cancels it.              *)
(*                                                                         *)
(* The job is a LongArgJob, one AzkabanProcess an attempt, or a ProcessJob,*)
(* one java.lang.Process for each of its commands; RetryingJob around it   *)
(* runs it again after a failure.  Processes are numbered as they start;   *)
(* for a LongArgJob that is the number of the AzkabanProcess object, too.  *)
(* The processes themselves are external: they end when they like, may     *)
(* ignore TERM, and end when they are destroyed.                           *)
(***************************************************************************)
EXTENDS Naturals, FiniteSets

CONSTANTS
  Classes,    \* which of "LongArgJob" and "ProcessJob" the job may be
  Commands,   \* how many commands a ProcessJob has
  MaxRetries, \* bound on _retries of RetryingJob
  MayCancel   \* does somebody cancel the job?

ASSUME ProcessConstants ==
  /\ Classes \subseteq {"LongArgJob", "ProcessJob"}
  /\ Commands \in Nat \ {0}
  /\ MaxRetries \in Nat
  /\ MayCancel \in BOOLEAN

Processes == 1 .. (MaxRetries + 1) * Commands
NoProcess == 0

VARIABLES
  class,
  retries,    \* _retries of RetryingJob
  tries,      \* of RetryingJob.run()
  command,    \* the command of this attempt
  made,       \* processes made so far
  run,        \* the step of the job's thread
  os,         \* the processes: "none", "alive", "ok" or "bad"
  termed,     \* those sent TERM
  destroyed,  \* those destroy() was called for
  process,    \* the field of both classes: a process or NoProcess
  started,    \* LongArgJob: those whose startupLatch is down
  pidKnown,   \* LongArgJob: those whose processId is set
  complete,   \* completeLatch, or _isComplete (then all of them)
  cancel,     \* the step of the cancelling thread
  target      \* the process it kills

settings   == <<class, retries>>
jobVars    == <<tries, command, made, run>>
osVars     == <<os, termed, destroyed>>
latches    == <<started, pidKnown, complete>>
killVars   == <<cancel, target>>
processVars ==
  <<settings, jobVars, osVars, process, latches, killVars>>

ProcessInit ==
  /\ class \in Classes /\ retries \in 0 .. MaxRetries
  /\ tries = 0 /\ command = 1 /\ made = 0
  /\ run = "attempt"
  /\ os = [k \in Processes |-> "none"] /\ termed = {} /\ destroyed = {}
  /\ process = NoProcess
  /\ started = {} /\ pidKnown = {} /\ complete = {}
  /\ cancel = "no" /\ target = NoProcess

Go(from, to) == run = from /\ run' = to

-----------------------------------------------------------------------------
(* LongArgJob.run() and AzkabanProcess.run().                               *)

BuildProcess ==
  /\ class = "LongArgJob"
  /\ Go("attempt", "start")
  /\ made' = made + 1
  /\ process' = made'
  /\ UNCHANGED <<settings, tries, command, osVars, latches, killVars>>

StartProcess ==
  /\ class = "LongArgJob"
  /\ \/ Go("start", "latch") /\ os' = [os EXCEPT ![made] = "alive"]
     \/ Go("start", "clearFailed") /\ UNCHANGED os          \* IOException
  /\ UNCHANGED <<settings, tries, command, made, termed, destroyed, process,
                 latches, killVars>>

StartupLatch ==
  /\ Go("latch", "pid")
  /\ started' = started \cup {made}
  /\ UNCHANGED <<settings, tries, command, made, osVars, process, pidKnown,
                 complete, killVars>>

SetProcessId ==
  /\ Go("pid", "wait")
  /\ pidKnown' = pidKnown \cup {made}
  /\ UNCHANGED <<settings, tries, command, made, osVars, process, started,
                 complete, killVars>>

WaitForSkipped ==                         \* mutant: does not wait for the process
  /\ class = "LongArgJob"
  /\ Go("wait", IF os[made] = "ok" THEN "clear" ELSE "clearFailed")
  /\ complete' = complete \cup {made}
  /\ UNCHANGED <<settings, tries, command, made, osVars, process, started,
                 pidKnown, killVars>>

WaitFor ==
  /\ class = "LongArgJob"
  /\ run = "wait" /\ os[made] \in {"ok", "bad"}
  /\ Go("wait", IF os[made] = "ok" THEN "clear" ELSE "clearFailed")
  /\ complete' = complete \cup {made}
  /\ UNCHANGED <<settings, tries, command, made, osVars, process, started,
                 pidKnown, killVars>>

ClearProcess ==
  /\ \/ Go("clear", "succeeded")
     \/ Go("clearFailed", "failedAttempt")
  /\ process' = NoProcess
  /\ UNCHANGED <<settings, tries, command, made, osVars, latches, killVars>>

-----------------------------------------------------------------------------
(* ProcessJob.run(), for each command.                                      *)

StartCommand ==
  /\ class = "ProcessJob"
  /\ made' = made + 1
  /\ \/ Go("attempt", "assign") /\ os' = [os EXCEPT ![made'] = "alive"]
     \/ Go("attempt", "failedAttempt") /\ UNCHANGED os      \* IOException
  /\ UNCHANGED <<settings, tries, command, termed, destroyed, process, latches, killVars>>

AssignProcess ==
  /\ Go("assign", "wait")
  /\ process' = made
  /\ UNCHANGED <<settings, tries, command, made, osVars, latches, killVars>>

WaitForCommandOnly ==                     \* mutant: the exit code is not looked at
  /\ class = "ProcessJob"
  /\ run = "wait" /\ os[made] \in {"ok", "bad"}
  /\ Go("wait", IF command = Commands THEN "succeeded" ELSE "attempt")
  /\ command' = command + 1
  /\ complete' = Processes
  /\ UNCHANGED <<settings, tries, made, osVars, process, started, pidKnown, killVars>>

(* _isComplete is set at the end of every command, and never reset.         *)
WaitForCommand ==
  /\ class = "ProcessJob"
  /\ run = "wait" /\ os[made] \in {"ok", "bad"}
  /\ Go("wait", IF os[made] = "bad" THEN "failedAttempt"
                ELSE IF command = Commands THEN "succeeded" ELSE "attempt")
  /\ command' = command + 1
  /\ complete' = Processes
  /\ UNCHANGED <<settings, tries, made, osVars, process, started, pidKnown, killVars>>

-----------------------------------------------------------------------------

(* The loop of RetryingJob.run(); it does not hear of a cancel().           *)
Retry ==
  /\ run = "failedAttempt"
  /\ tries' = tries + 1 /\ command' = 1
  /\ run' = IF tries < retries THEN "attempt" ELSE "failed"
  /\ UNCHANGED <<settings, made, osVars, process, latches, killVars>>

-----------------------------------------------------------------------------
(* cancel() of both classes.  The field process is read at every use.       *)

CancelTo(step) == cancel' = step /\ UNCHANGED target

CancelBegins ==
  /\ MayCancel /\ cancel = "no"
  /\ CancelTo(IF process # NoProcess THEN "kill"
              ELSE IF class = "LongArgJob" THEN "threw" ELSE "returned")
  /\ UNCHANGED <<settings, jobVars, osVars, process, latches>>

(* softKill(); a process whose processId is not set yet gets no signal.     *)
SoftKill ==
  /\ class = "LongArgJob" /\ cancel = "kill"
  /\ IF process \in started
       THEN /\ cancel' = "await" /\ target' = process
            /\ termed' = termed \cup ({process} \cap pidKnown)
       ELSE CancelTo("threw") /\ UNCHANGED termed   \* null, or not started
  /\ UNCHANGED <<settings, jobVars, os, destroyed, process, latches>>

KillCommand ==
  /\ class = "ProcessJob" /\ cancel = "kill"
  /\ cancel' = "await" /\ target' = process
  /\ termed' = termed \cup {process}
  /\ UNCHANGED <<settings, jobVars, os, destroyed, process, latches>>

(* completeLatch.await(time); ProcessJob waits its second in any case.      *)
AwaitKilled ==
  /\ cancel = "await"
  /\ \/ target \in complete /\ CancelTo("returned")
     \/ target \notin complete /\ CancelTo("force")  \* timed out
  /\ UNCHANGED <<settings, jobVars, osVars, process, latches>>

HardKillNot ==                            \* mutant: TERM has to do
  /\ cancel = "force"
  /\ CancelTo("returned")
  /\ UNCHANGED <<settings, jobVars, osVars, process, latches>>

(* hardKill(), and "Force kill the process".                                *)
HardKill ==
  /\ cancel = "force"
  /\ IF class = "LongArgJob" /\ process \notin started
       THEN CancelTo("threw") /\ UNCHANGED destroyed
       ELSE /\ CancelTo("returned")
            /\ destroyed' = destroyed \cup ({process} \ complete)
  /\ UNCHANGED <<settings, jobVars, os, termed, process, latches>>

-----------------------------------------------------------------------------
Exit(k) ==
  /\ os[k] = "alive"
  /\ \E code \in {"ok", "bad"} : os' = [os EXCEPT ![k] = code]
  /\ UNCHANGED <<settings, jobVars, termed, destroyed, process, latches, killVars>>

JobStep ==
  \/ BuildProcess \/ StartProcess \/ StartupLatch \/ SetProcessId \/ WaitFor \/ ClearProcess
  \/ StartCommand \/ AssignProcess \/ WaitForCommand
  \/ Retry

KillStep == SoftKill \/ KillCommand \/ AwaitKilled \/ HardKill

Over == run \in {"succeeded", "failed"} /\ cancel \in {"no", "returned", "threw"}

ProcessNext ==
  \/ JobStep \/ CancelBegins \/ KillStep
  \/ \E k \in Processes : Exit(k)
  \/ Over /\ UNCHANGED processVars

ProcessSpec == ProcessInit /\ [][ProcessNext]_processVars

(* Both threads are scheduled; a process that is destroyed ends, others may *)
(* run for ever.                                                            *)
FairProcessSpec ==
  /\ ProcessSpec
  /\ WF_processVars(JobStep) /\ WF_processVars(KillStep)
  /\ \A k \in Processes : WF_processVars(k \in destroyed /\ Exit(k))

-----------------------------------------------------------------------------
(* Type invariant: fields and steps hold the values they can have, and no   *)
(* more processes are made than attempts and commands allow.                *)
JobSteps    == {"attempt", "start", "latch", "pid", "wait", "clear", "clearFailed",
                "assign", "failedAttempt", "succeeded", "failed"}
CancelSteps == {"no", "kill", "await", "force", "returned", "threw"}

ProcessTypeOK ==
  /\ class \in Classes /\ retries \in 0 .. MaxRetries
  /\ tries \in 0 .. retries + 1
  /\ command \in 1 .. Commands + 1
  /\ made \in Processes \cup {0}
  /\ run \in JobSteps /\ cancel \in CancelSteps
  /\ os \in [Processes -> {"none", "alive", "ok", "bad"}]
  /\ termed \subseteq Processes /\ destroyed \subseteq Processes
  /\ process \in Processes \cup {NoProcess} /\ target \in Processes \cup {NoProcess}
  /\ started \subseteq Processes /\ pidKnown \subseteq Processes
  /\ complete \subseteq Processes

(* "Best effort attempt to cancel the job", "@throws Exception If cancel    *)
(* fails" (Job.cancel): when cancel() has returned, a LongArgJob that is    *)
(* not retried has no process that goes on and starts none.                 *)
CancelHolds ==
  class = "LongArgJob" /\ retries = 0 /\ cancel = "returned" =>
    /\ \A k \in Processes : os[k] = "alive" => k \in destroyed
    /\ run \notin {"attempt", "start"}

(* A job leaves no process behind: when run() is over, and while the next   *)
(* attempt or command is started, the processes before it have ended; nor   *)
(* does cancel() leave one to go on.                                        *)
NoneLeftBehind ==
  /\ CancelHolds
  /\ run \in {"attempt", "failedAttempt", "succeeded", "failed"} =>
       \A k \in Processes : os[k] # "alive"
  /\ Cardinality({k \in Processes : os[k] = "alive"}) <= 1

(* "Must either succeed or throw an exception" (Job.run): the job succeeds  *)
(* exactly if all commands of its last attempt did, and fails only after    *)
(* all attempts.                                                            *)
RunIsHonest ==
  /\ ProcessTypeOK
  /\ run = "succeeded" =>
       /\ os[made] = "ok"
       /\ class = "ProcessJob" =>
            \A k \in made - Commands + 1 .. made : os[k] = "ok"
  /\ run = "failed" => os[made] # "ok" /\ tries = retries + 1

(* cancel() comes back, and with it the servlet that called it; and one     *)
(* that got as far as killing brings a LongArgJob to its end, even if the   *)
(* process ignores TERM and could run for ever.                             *)
CancelEnds ==
  /\ (cancel # "no") ~> (cancel \in {"returned", "threw"})
  /\ (class = "LongArgJob" /\ retries = 0 /\ cancel = "await")
       ~> (run \in {"succeeded", "failed"})

(* ProcessTest: "Soft kill should interrupt sleep": a process that has      *)
(* started is sent TERM before softKill() waits for its end.                *)
SoftKillSignals ==
  class = "LongArgJob" /\ cancel = "await" => target \in termed \cup complete

(* ProcessJob: "After 1000 ms, the job hasn't terminated. Will force        *)
(* terminate the job": a process that does not end on TERM is destroyed.    *)
ForcedInTheEnd ==
  cancel = "returned" /\ target # NoProcess /\ os[target] = "alive" => target \in destroyed

(* The inductive invariant behind NoneLeftBehind and RunIsHonest.  How many *)
(* processes an attempt may have made, and all attempts together.           *)
InAttempt == {"start", "latch", "pid", "wait", "clear", "clearFailed", "assign"}

Counted ==
  /\ run \notin {"failedAttempt", "succeeded", "failed"} => command <= Commands
  /\ IF run = "failed" THEN tries = retries + 1 ELSE tries <= retries
  /\ run = "attempt" => command - 1 <= made /\ made <= tries * Commands + command - 1
  /\ run \in InAttempt => command <= made /\ made <= tries * Commands + command
  /\ run = "failedAttempt" => made <= tries * Commands + Commands
  /\ run # "attempt" => made # 0
  /\ class = "LongArgJob" =>
       command = 1 /\ made = IF run \in {"attempt", "failed"} THEN tries ELSE tries + 1

(* The commands of this attempt before the latest, all of them in the end.  *)
IsDone(k) ==
  \/ run = "attempt" /\ made - command + 1 < k /\ k <= made
  \/ run \in {"assign", "wait"} /\ made - command < k /\ k < made
  \/ run = "succeeded" /\ made - Commands < k /\ k <= made

(* Only the latest process may be alive, between its start and waitFor();   *)
(* the commands of this attempt before it have succeeded.                   *)
OnlyTheLatest ==
  /\ run \in InAttempt \ {"wait", "assign"} => class = "LongArgJob"
  /\ run = "assign" => class = "ProcessJob"
  /\ \A k \in Processes :
       /\ k > made => os[k] = "none"
       /\ os[k] = "alive" => k = made /\ run \in {"latch", "pid", "wait", "assign"}
  /\ run = "start" => os[made] = "none"
  /\ run \in {"clear", "succeeded"} => os[made] = "ok"
  /\ run \in {"clearFailed", "failedAttempt", "failed"} => os[made] # "ok"
  /\ class = "ProcessJob" => \A k \in Processes : IsDone(k) => os[k] = "ok"
  /\ class = "ProcessJob" /\ run = "succeeded" => Commands <= made

(* What a cancel() finds in the fields that it reads: a ProcessJob keeps    *)
(* its process; that of a LongArgJob which is not retried is the only one.  *)
KillsTheOne ==
  /\ class = "ProcessJob" /\ cancel \in {"kill", "await", "force"} => process # NoProcess
  /\ class = "LongArgJob" =>
       /\ process = IF run \in InAttempt THEN made ELSE NoProcess
       /\ \A k \in started : k <= made /\ (k = made => run \notin {"start", "latch"})
       /\ \A k \in complete : os[k] \in {"ok", "bad"}
       /\ retries = 0 /\ cancel \in {"await", "force", "returned"} =>
            target = made /\ run \notin {"attempt", "start", "latch"}

ProcessInv ==
  ProcessTypeOK /\ Counted /\ OnlyTheLatest /\ KillsTheOne /\ CancelHolds
=============================================================================
