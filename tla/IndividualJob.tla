---------------------------- MODULE IndividualJob ----------------------------
(***************************************************************************)
(* The leaf of a flow: azkaban.flow.IndividualJobExecutableFlow, an object *)
(* that runs one job in a thread of its own and tells the callbacks of all *)
(* callers of execute() how it ended.                                      *)
(*                                                                         *)
(* The monitor "sync" guards jobState, callbacksToCall, parentProps and    *)
(* returnProps; what the code does outside of it (loading the job, the     *)
(* volatile reads of job and jobState, the callback thread) are steps of   *)
(* their own.  A member of Calls is one execute() call: it names the       *)
(* caller, its callback and, for the call that finds the flow READY, the   *)
(* job instance, the job thread and the callback thread it starts.  A      *)
(* member of Cancels is one cancel() call.                                 *)
(*                                                                         *)
(* Abstracted: time stamps, the exceptions map, mail and message texts.    *)
(* The three reads of the field "job" between lines 161 and 327 are one    *)
(* step.                                                                   *)
(***************************************************************************)
EXTENDS Naturals, Sequences, FiniteSets

CONSTANTS
  Calls,        \* execute() calls, each made at most once
  Cancels,      \* cancel() calls, each made at most once
  ParentProps,  \* the values a caller may pass as parent properties
  EmptyProps,   \* new Props()
  Null,         \* null, for job and for parentProps
  MaxResets,    \* bound on the number of reset() calls
  ResetEarly,   \* may reset() come while a job thread of a cancelled execution runs?
  ReportFails   \* may the mail, Kafka or descriptor code of a job thread throw?

ASSUME JobConstants ==
  /\ EmptyProps \in ParentProps
  /\ Null \notin ParentProps \cup Calls
  /\ MaxResets \in Nat
  /\ ResetEarly \in BOOLEAN
  /\ ReportFails \in BOOLEAN

Status == {"READY", "RUNNING", "SUCCEEDED", "FAILED", "COMPLETED", "IGNORED"}

VARIABLES
  jobState,         \* Status
  parentProps,      \* a member of ParentProps, or Null
  returnProps,      \* "null", "empty" or "generated" (getJobGeneratedProperties)
  callbacksToCall,  \* the calls whose callback is registered
  job,              \* the job instance last loaded, or Null
  pc,               \* progress of each call and of the threads it starts
  callbackList,     \* the list each job thread took under the monitor
  notice,           \* the status each callback thread passes on
  told,             \* history: the statuses each callback was called with
  cancelPc,         \* progress of each cancel() call
  cancelList,       \* the list each cancel() took under the monitor
  resets            \* number of resets so far

vars == <<jobState, parentProps, returnProps, callbacksToCall, job, pc,
          callbackList, notice, told, cancelPc, cancelList, resets>>

flowVars   == <<jobState, parentProps, returnProps, callbacksToCall>>
cancelVars == <<cancelPc, cancelList>>

(* Working: the phases of a job thread before its final synchronized block. *)
(* Reporting: the phases after it in which it still holds a callback list.  *)
Working   == {"loading", "loaded", "started", "running"}
Reporting == {"logging", "notifying", "calling"}
PcValues  == {"idle", "rejected", "answered", "registered", "dead", "done"}
             \cup Working \cup Reporting

Finished == {"COMPLETED", "SUCCEEDED", "FAILED"}

Init ==
  /\ jobState = "READY"
  /\ parentProps = Null
  /\ returnProps = "null"
  /\ callbacksToCall = {}
  /\ job = Null
  /\ pc = [k \in Calls |-> "idle"]
  /\ callbackList = [k \in Calls |-> {}]
  /\ notice = [k \in Calls |-> "READY"]
  /\ told = [k \in Calls |-> <<>>]
  /\ cancelPc = [c \in Cancels |-> "idle"]
  /\ cancelList = [c \in Cancels |-> {}]
  /\ resets = 0

Tell(k, status) == told' = [told EXCEPT ![k] = Append(@, status)]

Goto(k, phase) == pc' = [pc EXCEPT ![k] = phase]

-----------------------------------------------------------------------------
(* execute(parentProps, callback), the synchronized part.                   *)

PropsDiffer(p) ==
  parentProps # Null /\ jobState # "COMPLETED" /\ parentProps # p

AcceptProps(p) ==
  /\ ~PropsDiffer(p)
  /\ parentProps' = IF parentProps = Null THEN p ELSE parentProps

ExecuteRejected(k, p) ==        \* IllegalArgumentException
  /\ pc[k] = "idle"
  /\ PropsDiffer(p)
  /\ Goto(k, "rejected")
  /\ UNCHANGED <<flowVars, job, callbackList, notice, told, cancelVars, resets>>

ExecuteReady(k, p) ==
  /\ pc[k] = "idle"
  /\ AcceptProps(p)
  /\ jobState = "READY"
  /\ jobState' = "RUNNING"
  /\ callbacksToCall' = callbacksToCall \cup {k}
  /\ Goto(k, "loading")
  /\ UNCHANGED <<returnProps, job, callbackList, notice, told, cancelVars, resets>>

ExecuteRunningUnheard(k, p) ==            \* mutant: the callback is not registered
  /\ pc[k] = "idle"
  /\ AcceptProps(p)
  /\ jobState = "RUNNING"
  /\ Goto(k, "registered")
  /\ UNCHANGED <<jobState, callbacksToCall, returnProps, job, callbackList,
                 notice, told, cancelVars, resets>>

ExecuteRunning(k, p) ==
  /\ pc[k] = "idle"
  /\ AcceptProps(p)
  /\ jobState = "RUNNING"
  /\ callbacksToCall' = callbacksToCall \cup {k}
  /\ Goto(k, "registered")
  /\ UNCHANGED <<jobState, returnProps, job, callbackList, notice, told, cancelVars, resets>>

ExecuteFinishedWell(k, p) ==              \* mutant: FAILED answers SUCCEEDED
  /\ pc[k] = "idle"
  /\ AcceptProps(p)
  /\ jobState \in Finished \cup {"IGNORED"}
  /\ jobState' = IF jobState = "IGNORED" THEN "COMPLETED" ELSE jobState
  /\ Tell(k, "SUCCEEDED")
  /\ Goto(k, "answered")
  /\ UNCHANGED <<returnProps, callbacksToCall, job, callbackList, notice, cancelVars, resets>>

ExecuteFinished(k, p) ==
  /\ pc[k] = "idle"
  /\ AcceptProps(p)
  /\ jobState \in Finished \cup {"IGNORED"}
  /\ jobState' = IF jobState = "IGNORED" THEN "COMPLETED" ELSE jobState
  /\ Tell(k, IF jobState = "FAILED" THEN "FAILED" ELSE "SUCCEEDED")
  /\ Goto(k, "answered")
  /\ UNCHANGED <<returnProps, callbacksToCall, job, callbackList, notice, cancelVars, resets>>

-----------------------------------------------------------------------------
(* The rest of execute(): load the job and start its thread.                *)

LoadJob(k) ==                   \* loadJob() may fail: job = null
  /\ pc[k] = "loading"
  /\ job' \in {k, Null}
  /\ Goto(k, "loaded")
  /\ UNCHANGED <<flowVars, callbackList, notice, told, cancelVars, resets>>

TakeList(k) == callbackList' = [callbackList EXCEPT ![k] = callbacksToCall]

JobMissingStillRunning(k) ==              \* mutant: jobState stays as it is
  /\ pc[k] = "loaded"
  /\ job = Null
  /\ TakeList(k)
  /\ Goto(k, "notifying")
  /\ UNCHANGED <<flowVars, job, notice, told, cancelVars, resets>>

JobMissing(k) ==
  /\ pc[k] = "loaded"
  /\ job = Null
  /\ jobState' = "FAILED"
  /\ TakeList(k)
  /\ Goto(k, "notifying")
  /\ UNCHANGED <<parentProps, returnProps, callbacksToCall, job, notice, told, cancelVars, resets>>

StartThread(k) ==
  /\ pc[k] = "loaded"
  /\ job # Null
  /\ Goto(k, "started")
  /\ UNCHANGED <<flowVars, job, callbackList, notice, told, cancelVars, resets>>

(* run() of the job thread: "job" is read again, and may be null by now.    *)
RunJob(k) ==
  /\ pc[k] = "started"
  /\ job # Null
  /\ Goto(k, "running")
  /\ UNCHANGED <<flowVars, job, callbackList, notice, told, cancelVars, resets>>

(* The catch block: it reads the job's id and descriptor, the log and sends *)
(* mail, all inside the monitor; if one of these throws, the thread ends    *)
(* without calling anyone.                                                  *)
JobThrows(k) ==
  /\ \/ pc[k] = "running"
     \/ pc[k] = "started" /\ job = Null
  /\ jobState' = "FAILED"
  /\ returnProps' = "empty"
  /\ TakeList(k)
  /\ \/ job # Null /\ Goto(k, "notifying")
     \/ (job = Null \/ ReportFails) /\ Goto(k, "dead")
  /\ UNCHANGED <<parentProps, callbacksToCall, job, notice, told, cancelVars, resets>>

(* The synchronized block after job.run() returned: the status is set first *)
(* and unconditionally; publishing and mailing follow in the same block.    *)
JobReturns(k) ==
  /\ pc[k] = "running"
  /\ jobState' = "SUCCEEDED"
  /\ IF job = Null
       THEN Goto(k, "dead") /\ UNCHANGED <<returnProps, callbackList>>
       ELSE /\ returnProps' = "generated"
            /\ TakeList(k)
            /\ \/ Goto(k, "logging")
               \/ ReportFails /\ Goto(k, "dead")
  /\ UNCHANGED <<parentProps, callbacksToCall, job, notice, told, cancelVars, resets>>

LogReturnProps(k) ==            \* returnProps may have been reset to null
  /\ pc[k] = "logging"
  /\ Goto(k, IF returnProps = "null" THEN "dead" ELSE "notifying")
  /\ UNCHANGED <<flowVars, job, callbackList, notice, told, cancelVars, resets>>

(* callCallbacks(callbackList, jobState): jobState is read outside of the   *)
(* monitor and handed to the new callback thread.                           *)
CallCallbacks(k) ==
  /\ pc[k] = "notifying"
  /\ notice' = [notice EXCEPT ![k] = jobState]
  /\ Goto(k, "calling")
  /\ UNCHANGED <<flowVars, job, callbackList, told, cancelVars, resets>>

(* One callback of the list; an exception it throws is swallowed.           *)
CallCallback(k, cb) ==
  /\ pc[k] = "calling"
  /\ cb \in callbackList[k]
  /\ Tell(cb, notice[k])
  /\ callbackList' = [callbackList EXCEPT ![k] = @ \ {cb}]
  /\ UNCHANGED <<flowVars, job, pc, notice, cancelVars, resets>>

CallbacksCalled(k) ==
  /\ pc[k] = "calling"
  /\ callbackList[k] = {}
  /\ Goto(k, "done")
  /\ UNCHANGED <<flowVars, job, callbackList, notice, told, cancelVars, resets>>

-----------------------------------------------------------------------------
(* cancel(): the synchronized part, the callbacks, job.cancel().            *)

CancelFinished(c) ==
  /\ cancelPc[c] = "idle"
  /\ jobState \in Finished \cup {"IGNORED"}
  /\ cancelPc' = [cancelPc EXCEPT ![c] = "done"]
  /\ UNCHANGED <<flowVars, job, pc, callbackList, notice, told, cancelList, resets>>

CancelRunningForgets(c) ==                \* mutant: replaces the list, keeps no reference
  /\ cancelPc[c] = "idle"
  /\ jobState \in {"READY", "RUNNING"}
  /\ jobState' = "FAILED"
  /\ callbacksToCall' = {}
  /\ returnProps' = "empty"
  /\ cancelPc' = [cancelPc EXCEPT ![c] = "telling"]
  /\ UNCHANGED <<parentProps, job, pc, callbackList, notice, told, cancelList, resets>>

CancelRunningKeeps(c) ==                  \* mutant: the list is not replaced
  /\ cancelPc[c] = "idle"
  /\ jobState \in {"READY", "RUNNING"}
  /\ jobState' = "FAILED"
  /\ cancelList' = [cancelList EXCEPT ![c] = callbacksToCall]
  /\ returnProps' = "empty"
  /\ cancelPc' = [cancelPc EXCEPT ![c] = "telling"]
  /\ UNCHANGED <<parentProps, callbacksToCall, job, pc, callbackList, notice, told, resets>>

CancelRunning(c) ==
  /\ cancelPc[c] = "idle"
  /\ jobState \in {"READY", "RUNNING"}
  /\ jobState' = "FAILED"
  /\ cancelList' = [cancelList EXCEPT ![c] = callbacksToCall]
  /\ callbacksToCall' = {}
  /\ returnProps' = "empty"
  /\ cancelPc' = [cancelPc EXCEPT ![c] = "telling"]
  /\ UNCHANGED <<parentProps, job, pc, callbackList, notice, told, resets>>

CancelTell(c, cb) ==
  /\ cancelPc[c] = "telling"
  /\ cb \in cancelList[c]
  /\ Tell(cb, "FAILED")
  /\ cancelList' = [cancelList EXCEPT ![c] = @ \ {cb}]
  /\ UNCHANGED <<flowVars, job, pc, callbackList, notice, cancelPc, resets>>

(* job.cancel(), when a job has been loaded; a job may ignore it, and what  *)
(* it does otherwise shows as JobThrows or JobReturns.                      *)
CancelJob(c) ==
  /\ cancelPc[c] = "telling"
  /\ cancelList[c] = {}
  /\ cancelPc' = [cancelPc EXCEPT ![c] = "cancelled"]
  /\ UNCHANGED <<flowVars, job, pc, callbackList, notice, told, cancelList, resets>>

-----------------------------------------------------------------------------
(* reset(), markCompleted() and setStatus(IGNORED); each returns false or   *)
(* throws, and changes nothing, in the states its guard leaves out.  With   *)
(* ResetEarly = FALSE the callers keep to the comment above loadJob: the    *)
(* job finishes, "at which point it could be reset".  The code itself only  *)
(* asks that jobState is not RUNNING.                                       *)

Reset ==
  /\ resets < MaxResets
  /\ ResetEarly \/ \A k \in Calls : pc[k] \notin Working
  /\ jobState # "RUNNING"
  /\ jobState' = "READY"
  /\ callbacksToCall' = {}
  /\ parentProps' = Null
  /\ returnProps' = "null"
  /\ resets' = resets + 1
  /\ UNCHANGED <<job, pc, callbackList, notice, told, cancelVars>>

(* The callers apply these two to a flow no execute() of this run has       *)
(* reached: JobExecutorManager.execute(id, true) to the children of a flow  *)
(* just created, FlowExecutionServlet to a flow just reset.                 *)
Untouched == jobState = "READY" /\ parentProps = Null

MarkCompleted ==
  /\ Untouched
  /\ jobState' = "COMPLETED"
  /\ parentProps' = EmptyProps
  /\ returnProps' = "empty"
  /\ UNCHANGED <<callbacksToCall, job, pc, callbackList, notice, told, cancelVars, resets>>

SetIgnored ==
  /\ Untouched
  /\ jobState' = "IGNORED"
  /\ UNCHANGED <<parentProps, returnProps, callbacksToCall, job, pc,
                 callbackList, notice, told, cancelVars, resets>>

-----------------------------------------------------------------------------
Execute(k) == \E p \in ParentProps :
  ExecuteRejected(k, p) \/ ExecuteReady(k, p) \/ ExecuteRunning(k, p) \/ ExecuteFinished(k, p)

(* What the threads of call k do once execute() has been entered.           *)
ThreadStep(k) ==
  \/ LoadJob(k) \/ JobMissing(k) \/ StartThread(k) \/ RunJob(k)
  \/ JobThrows(k) \/ JobReturns(k) \/ LogReturnProps(k) \/ CallCallbacks(k)
  \/ (\E cb \in Calls : CallCallback(k, cb)) \/ CallbacksCalled(k)

Cancel(c) == CancelFinished(c) \/ CancelRunning(c)

CancelStep(c) == (\E cb \in Calls : CancelTell(c, cb)) \/ CancelJob(c)

Next ==
  \/ \E k \in Calls : Execute(k) \/ ThreadStep(k)
  \/ \E c \in Cancels : Cancel(c) \/ CancelStep(c)
  \/ Reset \/ MarkCompleted \/ SetIgnored

Spec == Init /\ [][Next]_vars

(* A thread that has been started runs on, and a job that has been started  *)
(* ends: the environment's calls (execute, cancel, reset) are not fair.     *)
FairSpec ==
  /\ Spec
  /\ \A k \in Calls : WF_vars(ThreadStep(k))
  /\ \A c \in Cancels : WF_vars(CancelStep(c))

-----------------------------------------------------------------------------
(* Type invariant: jobState, the lists and the phases of every thread keep  *)
(* to the values the fields and the threads of the class can have.          *)
TypeOK ==
  /\ jobState \in Status
  /\ parentProps \in ParentProps \cup {Null}
  /\ returnProps \in {"null", "empty", "generated"}
  /\ callbacksToCall \in SUBSET Calls
  /\ job \in Calls \cup {Null}
  /\ pc \in [Calls -> PcValues]
  /\ callbackList \in [Calls -> SUBSET Calls]
  /\ notice \in [Calls -> Status]
  /\ told \in [Calls -> Seq(Status)]
  /\ cancelPc \in [Cancels -> {"idle", "telling", "cancelled", "done"}]
  /\ cancelList \in [Cancels -> SUBSET Calls]
  /\ resets \in Nat

(* A flow that says RUNNING has a thread that will end that state: whatever *)
(* the interleaving of execute, cancel, reset and of job threads left over  *)
(* from an earlier execution, no flow stays RUNNING with nobody at work.    *)
RunningHasWorker ==
  jobState = "RUNNING" => \E k \in Calls : pc[k] \in Working

(* A flow not yet executed since it was made or reset has no job thread,    *)
(* and a job thread past loadJob() finds the field "job" set.               *)
NoWorkBeforeExecute ==
  jobState \in {"READY", "IGNORED"} => \A k \in Calls : pc[k] \notin Working

JobLoaded ==
  \A k \in Calls : pc[k] \in {"started", "running"} => job # Null

(* Who holds the callback of call k, so that it will be called or, if the   *)
(* holder died between taking the list and calling it, never will.          *)
HeldBy(k) ==
  \/ jobState = "RUNNING" /\ k \in callbacksToCall
  \/ \E t \in Calls : pc[t] \in Reporting \cup {"dead"} /\ k \in callbackList[t]
  \/ \E c \in Cancels : cancelPc[c] = "telling" /\ k \in cancelList[c]

Accepted(k) == pc[k] \notin {"idle", "rejected"}

(* No accepted callback is dropped: until it has been called, it is         *)
(* registered with a RUNNING flow or in a list some thread took over;       *)
(* replacing callbacksToCall in cancel() and reset() loses none.            *)
NoCallbackDropped ==
  \A k \in Calls : Accepted(k) /\ told[k] = <<>> => HeldBy(k)

(* Between resets a callback is called at most once, although both cancel() *)
(* and the job thread hand the registered callbacks on.                     *)
ToldAtMostOnce == \A k \in Calls : Len(told[k]) <= 1

(* Callers are told SUCCEEDED or FAILED and nothing else, although the      *)
(* status is read again after the monitor was left.  ComposedExecutableFlow *)
(* throws away the completion of a dependee that says anything else.        *)
ToldOnlyVerdicts ==
  \A k \in Calls : \A i \in DOMAIN told[k] : told[k][i] \in {"SUCCEEDED", "FAILED"}

(* The callers that joined one execution hear the same verdict, and hear a  *)
(* verdict at all; only a cancel(), which reports FAILED while the job may  *)
(* still return, can make them differ.                                      *)
SameVerdict ==
  /\ ToldOnlyVerdicts
  /\ \A j, k \in Calls :
       /\ told[j] # <<>> /\ told[k] # <<>> /\ told[j] # told[k]
       => \E c \in Cancels : cancelPc[c] \in {"telling", "cancelled"}

(* Every caller of execute() that was not refused is called back.           *)
(* (ExecutableFlow.execute: "upon completion, should call all callbacks     *)
(* that were passed into an execute() call".)                               *)
EveryCallAnswered ==
  \A k \in Calls : Accepted(k) ~> (told[k] # <<>>)

(* "Only one thread should ever be able to get to this point because of     *)
(* management of jobState" (the comment above loadJob): at most one thread  *)
(* is between loading the job and its final synchronized block.             *)
OneJobThread ==
  \A j, k \in Calls : pc[j] \in Working /\ pc[k] \in Working => j = k

(* The inductive invariant behind NoCallbackDropped and OneJobThread.       *)
DisciplinedInv ==
  /\ TypeOK
  /\ NoWorkBeforeExecute
  /\ OneJobThread
  /\ JobLoaded
  /\ NoCallbackDropped

(* The inductive invariant behind ToldAtMostOnce, with DisciplinedInv: what *)
(* was registered is left over only by a job thread that took it and ended; *)
(* a callback not yet called is in one place; one in no place was called or *)
(* never accepted.                                                          *)
LeftOver ==
  jobState # "RUNNING" /\ callbacksToCall # {} =>
    jobState \in {"SUCCEEDED", "FAILED"} /\ \A t \in Calls : pc[t] \notin Working

Registered == IF jobState = "RUNNING" THEN callbacksToCall ELSE {}

HeldOnce ==
  /\ \A t, u \in Calls : t # u => callbackList[t] \cap callbackList[u] = {}
  /\ \A c, d \in Cancels : c # d => cancelList[c] \cap cancelList[d] = {}
  /\ \A t \in Calls, c \in Cancels : callbackList[t] \cap cancelList[c] = {}
  /\ \A t \in Calls : Registered \cap callbackList[t] = {}
  /\ \A c \in Cancels : Registered \cap cancelList[c] = {}

InHands(k) ==
  \/ k \in Registered
  \/ \E t \in Calls : k \in callbackList[t]
  \/ \E c \in Cancels : k \in cancelList[c]

ToldOnceInv ==
  /\ LeftOver /\ HeldOnce
  /\ \A k \in Calls : InHands(k) \/ ~Accepted(k) => told[k] = <<>>
  /\ \A k \in Calls : InHands(k) => Accepted(k)
  /\ \A k \in Calls : told[k] = <<>> \/ \E s \in Status : told[k] = <<s>>

(* The inductive invariant behind SameVerdict, with the ones above, where   *)
(* nobody resets: the status is final once a thread reports, and without a  *)
(* cancel() everything said is that status.                                 *)
Verdict == IF jobState = "FAILED" THEN "FAILED" ELSE "SUCCEEDED"

NoCancelYet == \A c \in Cancels : cancelPc[c] \notin {"telling", "cancelled"}

VerdictInv ==
  /\ \A t \in Calls :
       /\ pc[t] \in Reporting => jobState \in {"SUCCEEDED", "FAILED"}
       /\ pc[t] = "calling" => notice[t] \in {"SUCCEEDED", "FAILED"}
       /\ NoCancelYet /\ pc[t] \in Working => jobState = "RUNNING"
       /\ NoCancelYet /\ pc[t] = "calling" => notice[t] = jobState
  /\ \A k \in Calls :
       /\ told[k] \in {<<>>, <<"SUCCEEDED">>, <<"FAILED">>}
       /\ NoCancelYet /\ told[k] # <<>> => jobState \in Finished /\ told[k] = <<Verdict>>
=============================================================================
