---------------------------- MODULE FlowExecution ----------------------------
(***************************************************************************)
(* One execution of a flow: the objects of azkaban.flow that run the jobs  *)
(* of a dependency graph, each job once, a job after its dependees.        *)
(*                                                                         *)
(* A job without dependees is a leaf (IndividualJobExecutableFlow).  A job *)
(* with dependees is a MultipleDependencyExecutableFlow: a composed flow   *)
(* (ComposedExecutableFlow) of its own leaf, the depender, and a group     *)
(* (GroupedExecutableFlow) of the flows of its dependees.  A job that      *)
(* several jobs depend on is one shared object.                            *)
(*                                                                         *)
(* Every thread has a stack of frames, the calls it still has to make; the *)
(* top frame is the next step.  A step is one synchronized block or one    *)
(* read of a volatile field outside of it.  Threads: the pool thread that  *)
(* calls execute() on the root, a web thread that cancels it, and a job    *)
(* thread and a callback thread per leaf.                                  *)
(*                                                                         *)
(* Abstracted: times, exceptions maps, mail; parent properties other than  *)
(* the dependees' return properties (within one execution they are equal,  *)
(* so execute() never rejects them); progressMade(), which saves the flow  *)
(* and changes none of this state unless saving fails.                     *)
(***************************************************************************)
EXTENDS Naturals, Sequences, FiniteSets

CONSTANTS
  Jobs,         \* the names of the jobs
  Root,         \* the job the flow is executed for
  Dependees,    \* Dependees[j]: the jobs j depends on, in the group's order
  NoThread,     \* nobody owns a monitor
  MayCancel,    \* does a user cancel the flow?
  ReportFails,  \* may the mail, Kafka or descriptor code of a job thread throw?
  SaveFails     \* may the save between a group and its depender throw?

RangeOf(s) == {s[i] : i \in DOMAIN s}

ASSUME FlowConstants ==
  /\ Root \in Jobs
  /\ Dependees \in [Jobs -> Seq(Jobs)]
  /\ MayCancel \in BOOLEAN
  /\ ReportFails \in BOOLEAN
  /\ SaveFails \in BOOLEAN

(* buildLegacyFlow() from job j: j, what it depends on, and so on.          *)
Below(j) ==
  {k \in Jobs : \A S \in SUBSET Jobs :
                  j \in S /\ (\A x \in S : RangeOf(Dependees[x]) \subseteq S) => k \in S}

(* A flow has the jobs that are found from its root.                        *)
ASSUME FoundFromRoot == Jobs \subseteq Below(Root)

(* A flow is put together after those it depends on, so a circle gives none. *)
ASSUME DependenciesEnd ==
  \A S \in (SUBSET Jobs) \ {{}} : \E j \in S : RangeOf(Dependees[j]) \cap S = {}

Dependents == {j \in Jobs : Dependees[j] # <<>>}

(* The objects. *)
Leaf(j)     == <<"leaf", j>>
Group(j)    == <<"group", j>>
Composed(j) == <<"composed", j>>
FlowOf(j)   == IF j \in Dependents THEN Composed(j) ELSE Leaf(j)

Objects == {Leaf(j) : j \in Jobs} \cup {Group(j) : j \in Dependents}
                                  \cup {Composed(j) : j \in Dependents}

(* The callbacks the objects register with each other. *)
GroupCallback(j, g) == <<"groupCallback", j, g>>
DependeeCallback(j) == <<"dependeeCallback", j>>
DependerCallback(j) == <<"dependerCallback", j>>
RootCallback        == <<"rootCallback", Root>>

Callbacks == {RootCallback} \cup ({"groupCallback"} \X Dependents \X Nat) \cup
  UNION {{DependeeCallback(j), DependerCallback(j)} : j \in Dependents}

Main              == <<"main", Root>>
Canceller         == <<"canceller", Root>>
JobThread(j)      == <<"job", j>>
CallbackThread(j) == <<"callbacks", j>>

Threads == {Main, Canceller} \cup {JobThread(j) : j \in Jobs}
                             \cup {CallbackThread(j) : j \in Jobs}

Status   == {"READY", "RUNNING", "SUCCEEDED", "FAILED", "COMPLETED", "IGNORED"}
Good     == {"SUCCEEDED", "COMPLETED"}
Finished == Good \cup {"FAILED"}

VARIABLES
  status,      \* jobState of every object
  callbacks,   \* callbacksToCall of every object, a list
  props,       \* returnProps of leaves and groups: whose generated properties
  notified,    \* notifiedCallbackAlready of every callback a group has had
  monitor,     \* the thread inside a monitor while it makes a call, or NoThread
  stack,       \* the frames of every thread, the next one first
  given,       \* whose properties the parent properties of a depender hold
  began,       \* history: the jobs whose run() has begun, and how often
  rootTold,    \* history: what the root's callback was told
  cancelling   \* has cancel() been called on the root?

vars == <<status, callbacks, props, notified, monitor, stack, given, began,
          rootTold, cancelling>>

(* theGroupCallback; reset() of a group makes a new one.                    *)
TheGroupCallback(j) == GroupCallback(j, Len(notified[j]))

(* Frames. *)
Frame(op, on, arg)      == [op |-> op, on |-> on, arg |-> arg]
Execute(o, cb)          == Frame("execute", o, cb)
Children(j, i)          == Frame("children", Group(j), i)
Load(j)                 == Frame("load", Leaf(j), 0)
Running(j)              == Frame("running", Leaf(j), 0)
Generated(j)            == Frame("generated", Leaf(j), 0)
CallCallbacks(j, list)  == Frame("callCallbacks", Leaf(j), list)
Completed(cb, s)        == Frame("completed", cb, s)
Verdict(cb, list)       == Frame("verdict", cb, list)
Cancel(o)               == Frame("cancel", o, 0)
Release(o)              == Frame("release", o, 0)

CompletedAll(list, s) == [i \in DOMAIN list |-> Completed(list[i], s)]

Doing(t, op) == stack[t] # <<>> /\ Head(stack[t]).op = op
On(t)        == Head(stack[t]).on
Arg(t)       == Head(stack[t]).arg

Then(t, frames) == stack' = [stack EXCEPT ![t] = frames \o Tail(@)]

(* Thread t goes on with frames and starts thread u, once an earlier one of *)
(* that leaf, of an execution before this one, is through.                  *)
ThenStart(t, frames, u, uframes) ==
  /\ stack[u] = <<>>
  /\ stack' = [stack EXCEPT ![t] = frames \o Tail(@), ![u] = uframes]

(* t may enter a synchronized block of o; Java monitors are reentrant. *)
CanEnter(t, o) == monitor[o] \in {NoThread, t}

SetStatus(o, s) == status' = [status EXCEPT ![o] = s]

(* A new flow; a user may have disabled some jobs (IGNORED), or asked to    *)
(* ignore the dependencies (the root's children are marked COMPLETED).      *)
InitStatus(disabled, skipped) ==
  [o \in Objects |->
     IF o \in {FlowOf(d) : d \in skipped} THEN "COMPLETED"
     ELSE IF o \in {Leaf(j) : j \in disabled} THEN "IGNORED" ELSE "READY"]

Init ==
  /\ \/ \E disabled \in SUBSET Jobs : status = InitStatus(disabled, {})
     \/ status = InitStatus({}, RangeOf(Dependees[Root]))
  /\ callbacks = [o \in Objects |-> <<>>]
  /\ props = [o \in Objects |-> {}]
  /\ notified = [j \in Dependents |-> <<FALSE>>]
  /\ monitor = [o \in Objects |-> NoThread]
  /\ stack = [t \in Threads |->
                IF t = Main THEN <<Execute(FlowOf(Root), RootCallback)>> ELSE <<>>]
  /\ given = [j \in Jobs |-> {}]
  /\ began = [j \in Jobs |-> 0]
  /\ rootTold = <<>>
  /\ cancelling = FALSE

-----------------------------------------------------------------------------
(* execute(parentProps, callback) of the three classes.                     *)

(* What execute() goes on with after it turned its object RUNNING.          *)
Body(o) ==
  CASE o[1] = "leaf"     -> <<Load(o[2])>>
    [] o[1] = "group"    -> <<Children(o[2], 1)>>
    [] o[1] = "composed" -> <<Execute(Group(o[2]), DependeeCallback(o[2]))>>

ExecuteReady(t) ==
  LET o == On(t) IN
  /\ Doing(t, "execute")
  /\ CanEnter(t, o)
  /\ status[o] = "READY"
  /\ SetStatus(o, "RUNNING")
  /\ callbacks' = [callbacks EXCEPT ![o] = Append(@, Arg(t))]
  /\ Then(t, Body(o))
  /\ UNCHANGED <<props, notified, monitor, given, began, rootTold, cancelling>>

ExecuteRunning(t) ==
  LET o == On(t) IN
  /\ Doing(t, "execute")
  /\ CanEnter(t, o)
  /\ status[o] = "RUNNING"
  /\ callbacks' = [callbacks EXCEPT ![o] = Append(@, Arg(t))]
  /\ Then(t, <<>>)
  /\ UNCHANGED <<status, props, notified, monitor, given, began, rootTold, cancelling>>

(* The callback is called while the object's monitor is held.               *)
ExecuteFinished(t) ==
  LET o == On(t) IN
  /\ Doing(t, "execute")
  /\ CanEnter(t, o)
  /\ status[o] \in Finished \/ (status[o] = "IGNORED" /\ o[1] # "composed")
  /\ SetStatus(o, IF status[o] = "IGNORED" /\ o[1] = "leaf" THEN "COMPLETED" ELSE status[o])
  /\ LET told == Completed(Arg(t), IF status[o] = "FAILED" THEN "FAILED" ELSE "SUCCEEDED")
     IN  Then(t, IF monitor[o] = t THEN <<told>> ELSE <<told, Release(o)>>)
  /\ monitor' = [monitor EXCEPT ![o] = t]
  /\ UNCHANGED <<callbacks, props, notified, given, began, rootTold, cancelling>>

LeaveMonitor(t) ==
  /\ Doing(t, "release")
  /\ monitor' = [monitor EXCEPT ![On(t)] = NoThread]
  /\ Then(t, <<>>)
  /\ UNCHANGED <<status, callbacks, props, notified, given, began, rootTold, cancelling>>

(* The loop over the group's flows; it skips the rest once one has failed.  *)
NextChild(t) ==
  /\ Doing(t, "children")
  /\ LET j == On(t)[2]
         i == Arg(t)
     IN  IF i > Len(Dependees[j]) THEN Then(t, <<>>)
         ELSE IF status[Group(j)] = "FAILED" THEN Then(t, <<Children(j, i + 1)>>)
         ELSE Then(t, <<Execute(FlowOf(Dependees[j][i]), TheGroupCallback(j)), Children(j, i + 1)>>)
  /\ UNCHANGED <<status, callbacks, props, notified, monitor, given, began, rootTold, cancelling>>

-----------------------------------------------------------------------------
(* The leaf: load the job, run it in a thread, report (see IndividualJob).  *)

LoadJob(t) ==
  LET j == On(t)[2] IN
  /\ Doing(t, "load")
  /\ began' = [began EXCEPT ![j] = @ + 1]
  /\ ThenStart(t, <<>>, JobThread(j), <<Running(j)>>)
  /\ UNCHANGED <<status, callbacks, props, notified, monitor, given, rootTold, cancelling>>

JobMissing(t) ==
  LET o == On(t) IN
  /\ Doing(t, "load")
  /\ CanEnter(t, o)
  /\ SetStatus(o, "FAILED")
  /\ Then(t, <<CallCallbacks(o[2], callbacks[o])>>)
  /\ UNCHANGED <<callbacks, props, notified, monitor, given, began, rootTold, cancelling>>

JobThrows(t) ==
  LET o == On(t) IN
  /\ Doing(t, "running")
  /\ CanEnter(t, o)
  /\ SetStatus(o, "FAILED")
  /\ props' = [props EXCEPT ![o] = {}]
  /\ \/ Then(t, <<CallCallbacks(o[2], callbacks[o])>>)
     \/ ReportFails /\ Then(t, <<>>)
  /\ UNCHANGED <<callbacks, notified, monitor, given, began, rootTold, cancelling>>

(* jobState and returnProps are set one after the other inside the leaf's   *)
(* monitor; getStatus() and getReturnProps() of other threads do not enter  *)
(* it.                                                                      *)
JobReturns(t) ==
  LET o == On(t) IN
  /\ Doing(t, "running")
  /\ CanEnter(t, o)
  /\ SetStatus(o, "SUCCEEDED")
  /\ monitor' = [monitor EXCEPT ![o] = t]
  /\ Then(t, <<Generated(o[2])>>)
  /\ UNCHANGED <<callbacks, props, notified, given, began, rootTold, cancelling>>

SetReturnProps(t) ==
  LET o == On(t) IN
  /\ Doing(t, "generated")
  /\ props' = [props EXCEPT ![o] = {o[2]}]
  /\ monitor' = [monitor EXCEPT ![o] = NoThread]
  /\ \/ Then(t, <<CallCallbacks(o[2], callbacks[o])>>)
     \/ ReportFails /\ Then(t, <<>>)
  /\ UNCHANGED <<status, callbacks, notified, given, began, rootTold, cancelling>>

(* callCallbacks(callbackList, jobState) of the leaf: a thread of its own.  *)
StartCallbackThread(t) ==
  LET o == On(t) IN
  /\ Doing(t, "callCallbacks")
  /\ ThenStart(t, <<>>, CallbackThread(o[2]), CompletedAll(Arg(t), status[o]))
  /\ UNCHANGED <<status, callbacks, props, notified, monitor, given, began, rootTold, cancelling>>

-----------------------------------------------------------------------------
(* completed(status) of the callbacks.                                      *)

RootCompleted(t) ==
  /\ Doing(t, "completed")
  /\ On(t) = RootCallback
  /\ rootTold' = Append(rootTold, Arg(t))
  /\ Then(t, <<>>)
  /\ UNCHANGED <<status, callbacks, props, notified, monitor, given, began, cancelling>>

(* Whose generated properties the return properties of the flow of d hold.  *)
ReturnProps(d) ==
  IF d \in Dependents THEN props[Group(d)] \cup props[Leaf(d)] ELSE props[Leaf(d)]

UpdateStateAny(j) ==                      \* mutant: one good dependee is enough
  LET ds == RangeOf(Dependees[j]) IN
  IF \E d \in ds : status[FlowOf(d)] = "FAILED"
    THEN /\ SetStatus(Group(j), "FAILED")
         /\ props' = [props EXCEPT ![Group(j)] = {}]
    ELSE IF \E d \in ds : status[FlowOf(d)] \in Good
    THEN /\ SetStatus(Group(j), "SUCCEEDED")
         /\ props' = [props EXCEPT ![Group(j)] = UNION {ReturnProps(d) : d \in ds}]
    ELSE UNCHANGED <<status, props>>

(* GroupedExecutableFlow.updateState().                                     *)
UpdateState(j) ==
  LET ds == RangeOf(Dependees[j]) IN
  IF \E d \in ds : status[FlowOf(d)] = "FAILED"
    THEN /\ SetStatus(Group(j), "FAILED")
         /\ props' = [props EXCEPT ![Group(j)] = {}]
    ELSE IF \A d \in ds : status[FlowOf(d)] \in Good
    THEN /\ SetStatus(Group(j), "SUCCEEDED")
         /\ props' = [props EXCEPT ![Group(j)] = UNION {ReturnProps(d) : d \in ds}]
    ELSE UNCHANGED <<status, props>>

GroupCompleted(t) ==
  LET j == On(t)[2] IN
  /\ Doing(t, "completed")
  /\ On(t)[1] = "groupCallback"
  /\ CanEnter(t, Group(j))
  /\ UpdateState(j)
  /\ Then(t, <<Verdict(On(t), callbacks[Group(j)])>>)
  /\ UNCHANGED <<callbacks, notified, monitor, given, began, rootTold, cancelling>>

(* jobState is read again after the monitor was left; the first callback to *)
(* find it final tells the group's callbacks.                               *)
GroupVerdict(t) ==
  LET cb == On(t)
      j == cb[2]
      final == status[Group(j)] \in {"SUCCEEDED", "FAILED"} /\ ~notified[j][cb[3]]
  IN
  /\ Doing(t, "verdict")
  /\ notified' = [notified EXCEPT ![j][cb[3]] = @ \/ final]
  /\ Then(t, IF final THEN CompletedAll(Arg(t), status[Group(j)]) ELSE <<>>)
  /\ UNCHANGED <<status, callbacks, props, monitor, given, began, rootTold, cancelling>>

DependeeEnded(t) ==                       \* mutant: runs the depender after a failure, too
  LET j == On(t)[2] IN
  /\ Doing(t, "completed")
  /\ On(t)[1] = "dependeeCallback"
  /\ CanEnter(t, Composed(j))
  /\ given' = [given EXCEPT ![j] = props[Group(j)]]
  /\ Then(t, <<Execute(Leaf(j), DependerCallback(j))>>)
  /\ UNCHANGED <<status, callbacks, props, notified, monitor, began, rootTold, cancelling>>

DependeeSucceeded(t) ==
  LET j == On(t)[2] IN
  /\ Doing(t, "completed")
  /\ On(t)[1] = "dependeeCallback"
  /\ Arg(t) = "SUCCEEDED"
  /\ CanEnter(t, Composed(j))
  /\ given' = [given EXCEPT ![j] = props[Group(j)]]
  /\ Then(t, <<Execute(Leaf(j), DependerCallback(j))>>)
  /\ UNCHANGED <<status, callbacks, props, notified, monitor, began, rootTold, cancelling>>

(* progressMade() saves the flow before the depender is executed; callCall- *)
(* backs() of the group drops the exception of a failing save.              *)
DependeeSaveFails(t) ==
  LET j == On(t)[2] IN
  /\ SaveFails
  /\ Doing(t, "completed")
  /\ On(t)[1] = "dependeeCallback"
  /\ Arg(t) = "SUCCEEDED"
  /\ CanEnter(t, Composed(j))
  /\ Then(t, <<>>)
  /\ UNCHANGED <<status, callbacks, props, notified, monitor, given, began, rootTold, cancelling>>

DependeeFailed(t) ==
  LET o == Composed(On(t)[2]) IN
  /\ Doing(t, "completed")
  /\ On(t)[1] = "dependeeCallback"
  /\ Arg(t) = "FAILED"
  /\ CanEnter(t, o)
  /\ SetStatus(o, "FAILED")
  /\ Then(t, CompletedAll(callbacks[o], "FAILED"))
  /\ UNCHANGED <<callbacks, props, notified, monitor, given, began, rootTold, cancelling>>

DependerCompleted(t) ==
  LET o == Composed(On(t)[2]) IN
  /\ Doing(t, "completed")
  /\ On(t)[1] = "dependerCallback"
  /\ CanEnter(t, o)
  /\ SetStatus(o, Arg(t))
  /\ Then(t, CompletedAll(callbacks[o], Arg(t)))
  /\ UNCHANGED <<callbacks, props, notified, monitor, given, began, rootTold, cancelling>>

-----------------------------------------------------------------------------
(* cancel(), from the root down: the depender before its dependees.         *)

CancelRoot ==
  /\ MayCancel
  /\ ~cancelling
  /\ cancelling' = TRUE
  /\ stack' = [stack EXCEPT ![Canceller] = <<Cancel(FlowOf(Root))>>]
  /\ UNCHANGED <<status, callbacks, props, notified, monitor, given, began, rootTold>>

CancelDependeesOnly(t) ==                 \* mutant: leaves the depender alone
  LET j == On(t)[2] IN
  /\ Doing(t, "cancel")
  /\ On(t)[1] # "leaf"
  /\ Then(t, IF On(t)[1] = "composed"
               THEN <<Cancel(Group(j))>>
               ELSE [i \in DOMAIN Dependees[j] |-> Cancel(FlowOf(Dependees[j][i]))])
  /\ UNCHANGED <<status, callbacks, props, notified, monitor, given, began, rootTold, cancelling>>

CancelChildren(t) ==
  LET j == On(t)[2] IN
  /\ Doing(t, "cancel")
  /\ On(t)[1] # "leaf"
  /\ Then(t, IF On(t)[1] = "composed"
               THEN <<Cancel(Leaf(j)), Cancel(Group(j))>>
               ELSE [i \in DOMAIN Dependees[j] |-> Cancel(FlowOf(Dependees[j][i]))])
  /\ UNCHANGED <<status, callbacks, props, notified, monitor, given, began, rootTold, cancelling>>

CancelFinishedLeaf(t) ==
  LET o == On(t) IN
  /\ Doing(t, "cancel")
  /\ o[1] = "leaf"
  /\ CanEnter(t, o)
  /\ status[o] \in Finished \cup {"IGNORED"}
  /\ Then(t, <<>>)
  /\ UNCHANGED <<status, callbacks, props, notified, monitor, given, began, rootTold, cancelling>>

CancelLeaf(t) ==
  LET o == On(t) IN
  /\ Doing(t, "cancel")
  /\ o[1] = "leaf"
  /\ CanEnter(t, o)
  /\ status[o] \in {"READY", "RUNNING"}
  /\ SetStatus(o, "FAILED")
  /\ callbacks' = [callbacks EXCEPT ![o] = <<>>]
  /\ props' = [props EXCEPT ![o] = {}]
  /\ Then(t, CompletedAll(callbacks[o], "FAILED"))
  /\ UNCHANGED <<notified, monitor, given, began, rootTold, cancelling>>

-----------------------------------------------------------------------------
Step(t) ==
  \/ ExecuteReady(t) \/ ExecuteRunning(t) \/ ExecuteFinished(t)
  \/ LeaveMonitor(t)
  \/ NextChild(t) \/ LoadJob(t) \/ JobMissing(t) \/ JobThrows(t) \/ JobReturns(t)
  \/ SetReturnProps(t) \/ StartCallbackThread(t) \/ RootCompleted(t)
  \/ GroupCompleted(t) \/ GroupVerdict(t) \/ DependeeSucceeded(t) \/ DependeeSaveFails(t)
  \/ DependeeFailed(t) \/ DependerCompleted(t)
  \/ CancelChildren(t) \/ CancelFinishedLeaf(t) \/ CancelLeaf(t)

Idle == \A t \in Threads : stack[t] = <<>>

(* Every thread has run to its end; what is not Idle and cannot step is a   *)
(* deadlock.                                                                *)
Quiesced == Idle /\ UNCHANGED vars

Next == (\E t \in Threads : Step(t)) \/ CancelRoot \/ Quiesced

Spec == Init /\ [][Next]_vars

(* Threads are scheduled, and a job that runs returns or throws; nobody has *)
(* to cancel.                                                               *)
FairSpec == Spec /\ \A t \in Threads : WF_vars(Step(t))

-----------------------------------------------------------------------------
(* Type invariant: objects, callbacks, frames and monitors hold the values  *)
(* their fields can have.                                                   *)
FrameOK(f) ==
  \/ f.op = "execute" /\ f.on \in Objects /\ f.arg \in Callbacks
  \/ f.op = "children" /\ f.on \in Objects /\ f.arg \in Nat
  \/ f.op \in {"load", "running", "generated", "cancel", "release"} /\ f.on \in Objects
  \/ f.op = "callCallbacks" /\ f.on \in Objects /\ f.arg \in Seq(Callbacks)
  \/ f.op = "verdict" /\ f.on \in Callbacks /\ f.arg \in Seq(Callbacks)
  \/ f.op = "completed" /\ f.on \in Callbacks /\ f.arg \in Status

TypeOK ==
  /\ status \in [Objects -> Status]
  /\ callbacks \in [Objects -> Seq(Callbacks)]
  /\ props \in [Objects -> SUBSET Jobs]
  /\ notified \in [Dependents -> Seq(BOOLEAN)]
  /\ monitor \in [Objects -> Threads \cup {NoThread}]
  /\ \A t \in Threads : \A i \in DOMAIN stack[t] : FrameOK(stack[t][i])
  /\ given \in [Jobs -> SUBSET Jobs]
  /\ began \in [Jobs -> Nat]
  /\ rootTold \in Seq(Status)
  /\ cancelling \in BOOLEAN

(* "If B fails, A never runs": the run() of a job begins only when the      *)
(* flows of all its dependees ended well, however the callbacks of several  *)
(* threads, shared dependees and a cancel() interleave.                     *)
RunsAfterDependees ==
  [][\A j \in Jobs : began'[j] # began[j] =>
       \A d \in RangeOf(Dependees[j]) : status[FlowOf(d)] \in Good]_vars

(* cancel() on the root reaches every job: when it has returned, no job is  *)
(* READY or RUNNING, though the flow went on executing under it.            *)
CancelReachesAll ==
  cancelling /\ stack[Canceller] = <<>> =>
    \A j \in Jobs : status[Leaf(j)] \notin {"READY", "RUNNING"}

(* GroupedExecutableFlow: "It will run the sub flows in parallel and        *)
(* aggregate all of their "return properties" into a single properties      *)
(* object": a job that begins has the properties its dependees generated.   *)
(* (The code does not do this: a leaf is SUCCEEDED before it has them.)     *)
AllPropsGiven ==
  \A j \in Jobs : began[j] > 0 =>
    \A d \in RangeOf(Dependees[j]) : began[d] > 0 => d \in given[j]

-----------------------------------------------------------------------------
(* Until a cancel, the objects implement FlowOrder: a job is as far as      *)
(* its composed flow says once that has ended, and as far as its leaf says  *)
(* before.                                                                  *)
PhaseOf(s) ==
  CASE s \in {"READY", "IGNORED"} -> "waiting"
    [] s = "RUNNING"              -> "running"
    [] s \in Good                 -> "ok"
    [] s = "FAILED"               -> "failed"

PhaseOfJob(j) ==
  IF status[FlowOf(j)] \in Finished THEN PhaseOf(status[FlowOf(j)])
                                    ELSE PhaseOf(status[Leaf(j)])

Promise == INSTANCE FlowOrder WITH
  phase   <- [j \in Jobs |-> PhaseOfJob(j)],
  verdict <- IF rootTold = <<>> THEN "none" ELSE rootTold[Len(rootTold)]

(* Until a cancel, a step of the flow objects is one of FlowOrder or none: in *)
(* particular a verdict, once told, is neither changed nor told again       *)
(* differently, and a job that ended stays ended.                           *)
ImplementsFlowOrder ==
  Promise!Init /\ [][Promise!Next \/ UNCHANGED Promise!vars \/ cancelling']_vars
=============================================================================
