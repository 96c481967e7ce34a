----------------------------- MODULE FlowRestart -----------------------------
(***************************************************************************)
(* Restarting an execution: FlowExecution with the web thread that resets  *)
(* the objects of a flow and hands them to the executor again.             *)
(*                                                                         *)
(* The execution page resets every object, twice or more, and marks the    *)
(* jobs the user disabled (FlowExecutionServlet.traverseFlow); the history *)
(* page resets the flows that FAILED (Flows.resetFailedFlows).  Only then  *)
(* the executor is asked, which refuses a flow that is listed as executing.*)
(*                                                                         *)
(* <<"multiple", j>> is the MultipleDependencyExecutableFlow around        *)
(* Composed(j) and Group(j); it has no state of its own.  The web thread   *)
(* has frames like the threads of FlowExecution.                           *)
(***************************************************************************)
EXTENDS FlowExecution

CONSTANTS
  MaxRestarts,  \* bound on restart requests
  Disablable,   \* jobs a user may disable, at first and in a restart
  WhileRunning, \* may a request come before the execution is over?
  Requests      \* the pages requests come from: "history", "execution"

ASSUME RestartConstants ==
  /\ MaxRestarts \in Nat
  /\ Disablable \subseteq Jobs
  /\ WhileRunning \in BOOLEAN
  /\ Requests \subseteq {"history", "execution"}

Web         == <<"web", Root>>
Multiple(j) == <<"multiple", j>>

(* A job's flow as its parents see it.                                      *)
Outer(j)    == IF j \in Dependents THEN Multiple(j) ELSE Leaf(j)

VARIABLES
  web,       \* the frames of the web thread
  disabled,  \* the jobs the last request disabled
  asked,     \* requests made
  rounds,    \* history: executions the executor has accepted
  before,    \* history: began when the last one was accepted
  kept,      \* history: the jobs the last request is to leave alone
  toRun      \* history: the jobs it is to run

restartVars == <<web, disabled, asked, rounds, before, kept, toRun>>
allVars     == <<vars, restartVars>>

Traverse(o)    == Frame("traverse", o, 0)
Reset(o)       == Frame("reset", o, 0)
ResetRest(o)   == Frame("resetRest", o, 0)
Ignore(j)      == Frame("ignore", Leaf(j), 0)
ResetFailed(o) == Frame("resetFailed", o, 0)
Submit         == Frame("submit", Outer(Root), 0)

WebDoing(op)  == web # <<>> /\ Head(web).op = op
Target        == Head(web).on
WebThen(fs)   == web' = fs \o Tail(web)
WebCanEnter(o) == monitor[o] \in {NoThread, Web}

Over == Idle /\ Len(rootTold) >= rounds

RestartInit ==
  /\ Init
  /\ \A j \in Jobs : status[Leaf(j)] = "IGNORED" => j \in Disablable
  /\ web = <<>>
  /\ disabled = {} /\ kept = {} /\ toRun = {}
  /\ asked = 0 /\ rounds = 1
  /\ before = [j \in Jobs |-> 0]

(* The children of a flow, sorted by name; here in the group's order.       *)
OnChildren(op, j) ==
  [i \in DOMAIN Dependees[j] |-> Frame(op, Outer(Dependees[j][i]), 0)]

-----------------------------------------------------------------------------
ByHistory ==
  /\ "history" \in Requests
  /\ web' = <<ResetFailed(Outer(Root)), Submit>>
  /\ disabled' = {}
  /\ kept' = {j \in Jobs : PhaseOfJob(j) = "ok"}
  /\ toRun' = {j \in Jobs : PhaseOfJob(j) # "ok" /\ status[Leaf(j)] # "IGNORED"}

ByExecution(js) ==
  /\ "execution" \in Requests
  /\ web' = <<Traverse(Outer(Root)), Submit>>
  /\ disabled' = js
  /\ kept' = js
  /\ toRun' = Jobs \ js

Request ==
  /\ asked < MaxRestarts
  /\ web = <<>>
  /\ WhileRunning \/ Over
  /\ asked' = asked + 1
  /\ ByHistory \/ \E js \in SUBSET Disablable : ByExecution(js)
  /\ UNCHANGED <<vars, rounds, before>>

TraverseOnceDeep ==                       \* mutant: leaves out the depender
  LET o == Target
      j == o[2]
  IN
  /\ WebDoing("traverse")
  /\ WebThen(CASE o[1] = "leaf"     -> <<Reset(o)>> \o (IF j \in disabled THEN <<Ignore(j)>> ELSE <<>>)
               [] o[1] = "multiple" -> <<Reset(o), Traverse(Group(j))>>
               [] o[1] = "group"    -> <<Reset(o)>> \o OnChildren("traverse", j))
  /\ UNCHANGED <<vars, disabled, asked, rounds, before, kept, toRun>>

(* traverseFlow(): the flow, what it wraps, then its children; so a job's   *)
(* dependees are traversed once through the composed flow's group and once  *)
(* more as children of the MultipleDependencyExecutableFlow.                *)
TraverseFlow ==
  LET o == Target
      j == o[2]
  IN
  /\ WebDoing("traverse")
  /\ WebThen(CASE o[1] = "leaf"     -> <<Reset(o)>> \o (IF j \in disabled THEN <<Ignore(j)>> ELSE <<>>)
               [] o[1] = "multiple" -> <<Reset(o), Traverse(Composed(j))>> \o OnChildren("traverse", j)
               [] o[1] = "composed" -> <<Reset(o), Traverse(Leaf(j)), Traverse(Group(j))>>
               [] o[1] = "group"    -> <<Reset(o)>> \o OnChildren("traverse", j))
  /\ UNCHANGED <<vars, disabled, asked, rounds, before, kept, toRun>>

(* Flows.resetFailedFlows().                                                *)
ResetFailedFlows ==
  LET o == Target
      j == o[2]
      failed == status[FlowOf(j)] = "FAILED"
  IN
  /\ WebDoing("resetFailed")
  /\ WebThen((IF failed THEN <<Reset(o)>> ELSE <<>>) \o OnChildren("resetFailed", j))
  /\ UNCHANGED <<vars, disabled, asked, rounds, before, kept, toRun>>

-----------------------------------------------------------------------------
(* reset() of the four classes; all but the first leave a RUNNING object    *)
(* alone.                                                                   *)

ResetMultiple ==
  /\ WebDoing("reset") /\ Target[1] = "multiple"
  /\ WebThen(<<Reset(Composed(Target[2])), Reset(Group(Target[2]))>>)
  /\ UNCHANGED <<vars, disabled, asked, rounds, before, kept, toRun>>

ResetRunning ==
  /\ WebDoing("reset") /\ Target[1] # "multiple"
  /\ WebCanEnter(Target)
  /\ status[Target] = "RUNNING"
  /\ WebThen(<<>>)
  /\ UNCHANGED <<vars, disabled, asked, rounds, before, kept, toRun>>

ResetComposedAnyway ==                    \* mutant: also while it is RUNNING
  /\ WebDoing("reset") /\ Target[1] = "composed"
  /\ WebCanEnter(Target)
  /\ SetStatus(Target, "READY")
  /\ monitor' = [monitor EXCEPT ![Target] = Web]
  /\ WebThen(<<Reset(Leaf(Target[2])), ResetRest(Target)>>)
  /\ UNCHANGED <<callbacks, props, notified, stack, given, began, rootTold, cancelling,
                 disabled, asked, rounds, before, kept, toRun>>

(* depender.reset() is called inside the composed flow's monitor.           *)
ResetComposed ==
  /\ WebDoing("reset") /\ Target[1] = "composed"
  /\ WebCanEnter(Target)
  /\ status[Target] # "RUNNING"
  /\ SetStatus(Target, "READY")
  /\ monitor' = [monitor EXCEPT ![Target] = Web]
  /\ WebThen(<<Reset(Leaf(Target[2])), ResetRest(Target)>>)
  /\ UNCHANGED <<callbacks, props, notified, stack, given, began, rootTold, cancelling,
                 disabled, asked, rounds, before, kept, toRun>>

ResetComposedRest ==
  /\ WebDoing("resetRest")
  /\ callbacks' = [callbacks EXCEPT ![Target] = <<>>]
  /\ monitor' = [monitor EXCEPT ![Target] = NoThread]
  /\ WebThen(<<>>)
  /\ UNCHANGED <<status, props, notified, stack, given, began, rootTold, cancelling,
                 disabled, asked, rounds, before, kept, toRun>>

ResetGroupOldCallback ==                  \* mutant: keeps theGroupCallback
  /\ WebDoing("reset") /\ Target[1] = "group"
  /\ WebCanEnter(Target)
  /\ status[Target] # "RUNNING"
  /\ SetStatus(Target, "READY")
  /\ callbacks' = [callbacks EXCEPT ![Target] = <<>>]
  /\ props' = [props EXCEPT ![Target] = {}]
  /\ WebThen(<<>>)
  /\ UNCHANGED <<notified, monitor, stack, given, began, rootTold, cancelling,
                 disabled, asked, rounds, before, kept, toRun>>

ResetGroupKeepsStatus ==                  \* mutant: the group stays FAILED
  /\ WebDoing("reset") /\ Target[1] = "group"
  /\ WebCanEnter(Target)
  /\ status[Target] # "RUNNING"
  /\ callbacks' = [callbacks EXCEPT ![Target] = <<>>]
  /\ notified' = [notified EXCEPT ![Target[2]] = Append(@, FALSE)]
  /\ WebThen(<<>>)
  /\ UNCHANGED <<status, props, monitor, stack, given, began, rootTold, cancelling,
                 disabled, asked, rounds, before, kept, toRun>>

ResetGroup ==
  /\ WebDoing("reset") /\ Target[1] = "group"
  /\ WebCanEnter(Target)
  /\ status[Target] # "RUNNING"
  /\ SetStatus(Target, "READY")
  /\ callbacks' = [callbacks EXCEPT ![Target] = <<>>]
  /\ notified' = [notified EXCEPT ![Target[2]] = Append(@, FALSE)]
  /\ props' = [props EXCEPT ![Target] = {}]
  /\ WebThen(<<>>)
  /\ UNCHANGED <<monitor, stack, given, began, rootTold, cancelling,
                 disabled, asked, rounds, before, kept, toRun>>

ResetLeaf ==
  /\ WebDoing("reset") /\ Target[1] = "leaf"
  /\ WebCanEnter(Target)
  /\ status[Target] # "RUNNING"
  /\ SetStatus(Target, "READY")
  /\ callbacks' = [callbacks EXCEPT ![Target] = <<>>]
  /\ props' = [props EXCEPT ![Target] = {}]
  /\ given' = [given EXCEPT ![Target[2]] = {}]
  /\ WebThen(<<>>)
  /\ UNCHANGED <<notified, monitor, stack, began, rootTold, cancelling,
                 disabled, asked, rounds, before, kept, toRun>>

(* setStatus(IGNORED) throws unless the leaf is READY; that ends the        *)
(* request.                                                                 *)
IgnoreLeaf ==
  /\ WebDoing("ignore")
  /\ WebCanEnter(Target)
  /\ IF status[Target] = "READY"
       THEN SetStatus(Target, "IGNORED") /\ WebThen(<<>>)
       ELSE web' = <<>> /\ UNCHANGED status
  /\ UNCHANGED <<callbacks, props, notified, monitor, stack, given, began, rootTold, cancelling,
                 disabled, asked, rounds, before, kept, toRun>>

(* JobExecutorManager.execute(holder); the pool's thread takes the flow as  *)
(* soon as it is free.                                                      *)
SubmitRefused ==
  /\ WebDoing("submit")
  /\ Len(rootTold) < rounds
  /\ WebThen(<<>>)
  /\ UNCHANGED <<vars, disabled, asked, rounds, before, kept, toRun>>

SubmitAccepted ==
  /\ WebDoing("submit")
  /\ Len(rootTold) >= rounds
  /\ stack[Main] = <<>>
  /\ stack' = [stack EXCEPT ![Main] = <<Execute(FlowOf(Root), RootCallback)>>]
  /\ rounds' = rounds + 1
  /\ before' = began
  /\ WebThen(<<>>)
  /\ UNCHANGED <<status, callbacks, props, notified, monitor, given, began, rootTold, cancelling,
                 disabled, asked, kept, toRun>>

(* A composed flow has no case for IGNORED, which only a callback that read *)
(* its depender's status after a restart request could leave it in.         *)
ExecuteIgnored(t) ==
  LET o == On(t) IN
  /\ Doing(t, "execute")
  /\ CanEnter(t, o)
  /\ status[o] = "IGNORED" /\ o[1] = "composed"
  /\ Then(t, <<>>)
  /\ UNCHANGED <<status, callbacks, props, notified, monitor, given, began, rootTold, cancelling>>

Move(t) == Step(t) \/ ExecuteIgnored(t)

WebStep ==
  \/ TraverseFlow \/ ResetFailedFlows
  \/ ResetMultiple \/ ResetRunning \/ ResetComposed \/ ResetComposedRest \/ ResetGroup
  \/ ResetLeaf \/ IgnoreLeaf \/ SubmitRefused \/ SubmitAccepted

Through == Idle /\ web = <<>>

RestartNext ==
  \/ (\E t \in Threads : Move(t)) /\ UNCHANGED restartVars
  \/ CancelRoot /\ UNCHANGED restartVars
  \/ Request
  \/ WebStep
  \/ Through /\ UNCHANGED allVars

RestartSpec == RestartInit /\ [][RestartNext]_allVars

FairRestartSpec ==
  /\ RestartSpec
  /\ \A t \in Threads : WF_allVars(Move(t) /\ UNCHANGED restartVars)
  /\ WF_allVars(WebStep)

-----------------------------------------------------------------------------
RestartTypeOK ==
  /\ status \in [Objects -> Status]
  /\ callbacks \in [Objects -> Seq(Callbacks)]
  /\ notified \in [Dependents -> Seq(BOOLEAN)]
  /\ monitor \in [Objects -> Threads \cup {NoThread, Web}]
  /\ \A i \in DOMAIN web :
       /\ web[i].op \in {"traverse", "reset", "resetRest", "ignore", "resetFailed", "submit"}
       /\ web[i].on \in Objects \cup {Multiple(j) : j \in Dependents}
  /\ disabled \in SUBSET Jobs /\ kept \in SUBSET Jobs /\ toRun \in SUBSET Jobs
  /\ asked \in 0 .. MaxRestarts
  /\ rounds \in 1 .. (MaxRestarts + 1)
  /\ before \in [Jobs -> Nat]

(* An execution that was accepted runs each job at most once and is told    *)
(* one verdict, by objects that ran and answered an execution before it.    *)
OncePerRound ==
  /\ web = <<>> => \A j \in Jobs : began[j] <= before[j] + 1
  /\ Len(rootTold) <= rounds

(* No threads wait for each other's monitors: reset() of a composed flow    *)
(* takes its depender's monitor inside its own, execute() of a depender     *)
(* that has ended takes the composed flow's inside the depender's.          *)
Wanted(t) ==
  IF t = Web
    THEN IF web # <<>> /\ Head(web).op \in {"reset", "ignore"} THEN {Head(web).on} ELSE {}
    ELSE CASE Doing(t, "completed") /\ On(t)[1] = "groupCallback" -> {Group(On(t)[2])}
           [] Doing(t, "completed") /\ On(t)[1] \in {"dependeeCallback", "dependerCallback"}
                -> {Composed(On(t)[2])}
           [] Doing(t, "execute") \/ Doing(t, "running") -> {On(t)}
           [] Doing(t, "cancel") -> {On(t)} \cap {Leaf(j) : j \in Jobs}
           [] OTHER -> {}

NoWaitCycle ==
  LET Owners(t) == {monitor[o] : o \in Wanted(t) \cap Objects} \ {NoThread, t}
      Blocked   == {t \in Threads \cup {Web} : Owners(t) # {}}
  IN  ~\E S \in SUBSET Blocked : S # {} /\ \A t \in S : Owners(t) \subseteq S

(* When a restarted flow has succeeded, the jobs it was to run have run     *)
(* again, once, and those it was to leave alone have not: the jobs the user *)
(* disabled, or, from the history page, those that had ended well.  (A job  *)
(* disabled before is not claimed to stay so there: reset() forgets it.)    *)
RerunsTheRest ==
  /\ RestartTypeOK /\ OncePerRound
  /\ Through /\ rounds > 1 /\ Len(rootTold) = rounds /\ rootTold[rounds] = "SUCCEEDED" =>
       LET ran == {j \in Jobs : began[j] > before[j]} IN toRun \subseteq ran /\ kept \cap ran = {}

(* A flow reported SUCCEEDED has nothing running, and every job below it    *)
(* ended well down to those it was told to skip, over restarts as well.     *)
SuccessIsComplete ==
  web = <<>> /\ Len(rootTold) = rounds /\ rootTold[rounds] = "SUCCEEDED" =>
    /\ \A j \in Jobs : status[Leaf(j)] # "RUNNING"
    /\ status[FlowOf(Root)] \in Good
    /\ \A j \in Dependents : status[FlowOf(j)] = "SUCCEEDED" =>
         \A d \in RangeOf(Dependees[j]) : status[FlowOf(d)] \in Good

(* The verdict of the last execution is its jobs', and SUCCEEDED is said    *)
(* only of a flow that is complete.                                         *)
VerdictOfRound ==
  /\ SuccessIsComplete
  /\ Through /\ ~cancelling /\ Len(rootTold) = rounds =>
       (rootTold[rounds] = "FAILED" <=> \E j \in Jobs : status[Leaf(j)] = "FAILED")

(* ExecutableFlow.execute: "upon completion, should call all callbacks that *)
(* were passed into an execute() call"; every accepted execution is         *)
(* answered.                                                                *)
RoundAnswered == (Len(rootTold) < rounds) ~> (Len(rootTold) >= rounds)
=============================================================================
