---------------------------- MODULE FlowInvariant ----------------------------
(***************************************************************************)
(* The inductive invariant of FlowExecution, for any dependency graph.     *)
(*                                                                         *)
(* What an object has promised to tell is at one place at a time: with a   *)
(* frame that is going to tell it, or registered with the object that it   *)
(* waits for (OneToken).  The rest says what is known when a frame is made *)
(* and stays true until it is taken (Says), and what is known of objects.  *)
(***************************************************************************)
EXTENDS FlowExecution

(* Within one execution there is one callback of a group.                   *)
TheCallbacks ==
  {RootCallback} \cup {GroupCallback(j, 1) : j \in Dependents} \cup
  {DependeeCallback(j) : j \in Dependents} \cup {DependerCallback(j) : j \in Dependents}

(* The callbacks an object may be given.                                    *)
Asked(j) == {GroupCallback(k, 1) : k \in Dependents} \cup (IF j = Root THEN {RootCallback} ELSE {})
Allowed(o) ==
  IF o[1] = "group" THEN {DependeeCallback(o[2])}
  ELSE IF o[1] = "leaf" /\ o[2] \in Dependents THEN {DependerCallback(o[2])}
  ELSE Asked(o[2])

(* No callback but a group's is twice in a list.                            *)
Single(list) ==
  \A m, n \in DOMAIN list : list[m] = list[n] /\ list[m][1] # "groupCallback" => m = n

Lists(o) == {list \in Seq(Allowed(o)) : Single(list)}

Verdicts == {"SUCCEEDED", "FAILED"}

Leaves == {Leaf(j) : j \in Jobs}
Groups == {Group(j) : j \in Dependents}

Frames ==
  {f \in [op : {"execute"}, on : Objects, arg : TheCallbacks] : f.arg \in Allowed(f.on)} \cup
  [op : {"children"}, on : Groups, arg : Nat \ {0}] \cup
  [op : {"load", "running", "generated"}, on : Leaves, arg : {0}] \cup
  [op : {"cancel", "release"}, on : Objects, arg : {0}] \cup
  {f \in [op : {"callCallbacks"}, on : Leaves, arg : Seq(TheCallbacks)] : f.arg \in Lists(f.on)} \cup
  {f \in [op : {"verdict"}, on : {GroupCallback(j, 1) : j \in Dependents}, arg : Seq(TheCallbacks)] :
     f.arg \in Lists(Group(f.on[2]))} \cup
  [op : {"completed"}, on : TheCallbacks, arg : Verdicts]

ShapeOf(o) ==
  /\ callbacks[o] \in Lists(o)
  /\ status[o] \in {"READY", "IGNORED"} => callbacks[o] = <<>>
  /\ o[1] = "group" => status[o] \in {"READY", "RUNNING"} \cup Verdicts
  /\ o[1] = "composed" => status[o] # "IGNORED"

Shapes ==
  /\ status \in [Objects -> Status]
  /\ callbacks \in [Objects -> Seq(TheCallbacks)]
  /\ \A o \in Objects : ShapeOf(o)
  /\ notified \in [Dependents -> {<<b>> : b \in BOOLEAN}]
  /\ stack \in [Threads -> Seq(Frames)]
  /\ rootTold \in Seq(Verdicts)
  /\ cancelling \in BOOLEAN

(* Where frames are.                                                        *)
Places    == UNION {{<<t, i>> : i \in DOMAIN stack[t]} : t \in Threads}
FrameAt(p) == stack[p[1]][p[2]]

-----------------------------------------------------------------------------
(* Tokens: what a job's composed flow waits for, what the caller of the     *)
(* root waits for, and the right to run a leaf's job.                       *)
Flow(j)   == <<"flow", j>>
Worker(j) == <<"worker", j>>
Caller    == <<"caller", Root>>
Tokens == {Flow(j) : j \in Dependents} \cup {Worker(j) : j \in Jobs} \cup {Caller}

Told(k) == IF k[1] = "flow" THEN {DependeeCallback(k[2]), DependerCallback(k[2])}
                            ELSE {RootCallback}

Carries(f, k) ==
  IF k[1] = "worker" THEN f.op \in {"load", "running", "generated"} /\ f.on = Leaf(k[2])
  ELSE \/ f.op = "execute" /\ f.arg \in Told(k)
       \/ f.op = "completed" /\ f.on \in Told(k)
       \/ f.op = "callCallbacks" /\ \E i \in DOMAIN f.arg : f.arg[i] \in Told(k)

(* Has a leaf still to take its list of callbacks?                          *)
Pending(j) ==
  \/ status[Leaf(j)] = "RUNNING"
  \/ \E p \in Places : FrameAt(p).op = "generated" /\ FrameAt(p).on = Leaf(j)

Holds(s, k) ==
  LET j == k[2] IN
  \/ /\ k[1] = "flow"
     /\ \/ s = "new" /\ status[Composed(j)] = "READY"
        \/ s = "group" /\ callbacks[Group(j)] # <<>> /\ ~notified[j][1]
        \/ s = "leaf" /\ callbacks[Leaf(j)] # <<>> /\ Pending(j)
        \/ s = "done" /\ status[Composed(j)] \in Finished
  \/ k[1] = "worker" /\ s = "new" /\ status[Leaf(j)] \in {"READY", "IGNORED"}
  \/ /\ k[1] = "caller"
     /\ \/ s = "done" /\ rootTold # <<>>
        \/ /\ s = "flow" /\ RootCallback \in RangeOf(callbacks[FlowOf(Root)])
           /\ IF Root \in Dependents THEN status[Composed(Root)] = "RUNNING" ELSE Pending(Root)

Slots(k) == {s \in {"new", "group", "leaf", "flow", "done"} : Holds(s, k)}

OneToken(k) ==
  /\ \A p, q \in Places : Carries(FrameAt(p), k) /\ Carries(FrameAt(q), k) => p = q
  /\ \A s, r \in Slots(k) : s = r
  /\ Slots(k) # {} => \A p \in Places : ~Carries(FrameAt(p), k)

-----------------------------------------------------------------------------
AllGood(j)    == \A d \in RangeOf(Dependees[j]) : status[FlowOf(d)] \in Good
SomeFailed(j) == \E d \in RangeOf(Dependees[j]) : status[FlowOf(d)] = "FAILED"
NotRun(j)     == status[Leaf(j)] \in {"READY", "IGNORED"}
Means(s, verdict) == IF verdict = "FAILED" THEN s = "FAILED" ELSE s \in Good

(* What a frame knows.                                                      *)
SaysOfDependees(f) ==
  \A j \in Dependents :
    /\ f.op = "completed" /\ f.on = DependeeCallback(j) =>
         IF f.arg = "SUCCEEDED" THEN AllGood(j) ELSE SomeFailed(j) \/ cancelling
    /\ f.op \in {"execute", "load"} /\ f.on = Leaf(j) => AllGood(j)

SaysOfTurn(f) ==
  \A j \in Dependents :
    (\/ f.op = "completed" /\ f.on = DependeeCallback(j)
     \/ f.op = "execute" /\ f.on \in {Leaf(j), Group(j)}) => NotRun(j) \/ cancelling

SaysOfLeaf(f) ==
  /\ f.op \in {"load", "running"} =>
       \/ status[f.on] = "RUNNING"
       \/ status[f.on] = "FAILED" /\ callbacks[f.on] = <<>> /\ cancelling
  /\ f.op = "generated" => status[f.on] = "SUCCEEDED"
  /\ f.op = "callCallbacks" => status[f.on] \in Verdicts

SaysOfVerdict(f) ==
  f.op = "completed" =>
    /\ \A j \in Dependents : f.on = DependerCallback(j) => Means(status[Leaf(j)], f.arg) \/ cancelling
    /\ f.on = RootCallback => Means(status[FlowOf(Root)], f.arg) \/ cancelling

SaysOfList(f) == f.op = "verdict" /\ f.arg # <<>> => callbacks[Group(f.on[2])] # <<>>

SaysOfCancel(f) == f.op = "cancel" => cancelling

Says(f) ==
  /\ SaysOfDependees(f) /\ SaysOfTurn(f) /\ SaysOfLeaf(f)
  /\ SaysOfVerdict(f) /\ SaysOfList(f) /\ SaysOfCancel(f)

GroupsKnow ==
  \A j \in Dependents :
    /\ status[Group(j)] = "SUCCEEDED" => AllGood(j)
    /\ status[Group(j)] = "FAILED" => SomeFailed(j) \/ cancelling
    /\ notified[j][1] => status[Group(j)] \in Verdicts

TurnsCome ==
  \A j \in Dependents :
    (Holds("new", Flow(j)) \/ Holds("group", Flow(j))) => NotRun(j) \/ cancelling

FlowInv ==
  /\ Shapes
  /\ \A k \in Tokens : OneToken(k)
  /\ \A p \in Places : Says(FrameAt(p))
  /\ GroupsKnow /\ TurnsCome

-----------------------------------------------------------------------------
(* The jobs cancel() has still to come to.                                  *)
Under(o) ==
  (IF o[1] = "group" THEN {} ELSE {o[2]}) \cup
  (IF o[1] = "leaf" THEN {} ELSE UNION {Below(d) : d \in RangeOf(Dependees[o[2]])})

CancelComes ==
  cancelling => \A j \in Jobs : status[Leaf(j)] \in {"READY", "RUNNING"} =>
    \E i \in DOMAIN stack[Canceller] :
      stack[Canceller][i].op = "cancel" /\ j \in Under(stack[Canceller][i].on)
-----------------------------------------------------------------------------
(* Nobody is forgotten: if reports and saves do not fail, whoever waits is  *)
(* waited for by a frame or by an object that has still to end.             *)
Now == UNION {RangeOf(stack[t]) : t \in Threads}

(* A callback is given away only by an object that has been executed.       *)
Known(cb) ==
  /\ cb[1] = "groupCallback" => callbacks[Group(cb[2])] # <<>>
  /\ cb[1] \in {"dependeeCallback", "dependerCallback"} => callbacks[Composed(cb[2])] # <<>>

KnowsCaller(f) ==
  /\ f.op = "execute" => Known(f.arg)
  /\ f.op = "children" => callbacks[f.on] # <<>>
  /\ f.op = "completed" => Known(f.on)
  /\ f.op = "callCallbacks" => \A i \in DOMAIN f.arg : Known(f.arg[i])
  /\ f.op = "verdict" => f.arg # <<>> /\ \A i \in DOMAIN f.arg : Known(f.arg[i])

CallersKnown ==
  /\ \A f \in Now : KnowsCaller(f)
  /\ \A o \in Objects : \A i \in DOMAIN callbacks[o] : Known(callbacks[o][i])

(* What is RUNNING was asked for, and a leaf that is has a thread.          *)
Works(f, j) == f.op \in {"load", "running"} /\ f.on = Leaf(j)

RunningIsAsked ==
  /\ \A j \in Jobs : status[Leaf(j)] = "RUNNING" =>
       callbacks[Leaf(j)] # <<>> /\ \E f \in Now : Works(f, j)
  /\ \A j \in Dependents : status[Group(j)] = "RUNNING" => callbacks[Group(j)] # <<>>

(* No token but a worker's is lost.                                         *)
Kept(k) == Slots(k) # {} \/ \E f \in Now : Carries(f, k)

NoTokenLost == \A k \in Tokens : k[1] # "worker" => Kept(k)

(* A group that was executed, and has not told what became of it.           *)
Open(j) == callbacks[Group(j)] # <<>> /\ ~notified[j][1]

(* The dependees that the loop has come to were executed for the group.     *)
ToCome(f, j, i)  == f.op = "children" /\ f.on = Group(j) /\ f.arg <= i
IsCalled(f, j, d) == f.op = "execute" /\ f.on = FlowOf(d) /\ f.arg = GroupCallback(j, 1)

Awaits(j, d) ==
  \/ status[FlowOf(d)] \in Finished
  \/ status[FlowOf(d)] = "RUNNING" /\ GroupCallback(j, 1) \in RangeOf(callbacks[FlowOf(d)])
  \/ \E f \in Now : IsCalled(f, j, d)

DependeesAwaited ==
  \A j \in Dependents : callbacks[Group(j)] # <<>> =>
    \/ status[Group(j)] \in Verdicts
    \/ \A i \in DOMAIN Dependees[j] :
         Awaits(j, Dependees[j][i]) \/ \E f \in Now : ToCome(f, j, i)

(* A group that has its state and did not tell it has a callback that will. *)
Tells(f, j) == f.op \in {"completed", "verdict"} /\ f.on = GroupCallback(j, 1)

VerdictsComing ==
  \A j \in Dependents :
    Open(j) /\ status[Group(j)] \in Verdicts => \E f \in Now : Tells(f, j)

(* A group whose dependees have ended has still to hear of one of them.     *)
Wakes(f, j) ==
  \/ ToCome(f, j, Len(Dependees[j]))
  \/ \E d \in RangeOf(Dependees[j]) : IsCalled(f, j, d)
  \/ f.op = "completed" /\ f.on = GroupCallback(j, 1)
  \/ f.op = "callCallbacks" /\ GroupCallback(j, 1) \in RangeOf(f.arg)
  \/ f.op = "generated" /\ GroupCallback(j, 1) \in RangeOf(callbacks[f.on])

AllEnded(j) == \A d \in RangeOf(Dependees[j]) : status[FlowOf(d)] \in Finished

EndsComing ==
  \A j \in Dependents :
    Open(j) /\ status[Group(j)] \notin Verdicts /\ AllEnded(j) => \E f \in Now : Wakes(f, j)

(* A composed flow ended as its depender did, or without it after a         *)
(* dependee failed.                                                         *)
ComposedEnded ==
  ~cancelling => \A j \in Dependents :
    /\ status[Composed(j)] = "SUCCEEDED" => status[Leaf(j)] \in Good
    /\ status[Composed(j)] = "FAILED" => status[Leaf(j)] = "FAILED" \/ (NotRun(j) /\ SomeFailed(j))

(* A job that is at work, or has done it, began after its dependees; a      *)
(* composed flow that succeeded has a depender that did.  (In a flow whose  *)
(* dependees are skipped, composed flows are COMPLETED without.)            *)
AtWork(j) ==
  status[Leaf(j)] \in {"RUNNING", "SUCCEEDED"} \/ \E f \in Now : Works(f, j)

ComposedKnow ==
  /\ \A j \in Dependents :
       /\ status[Composed(j)] # "COMPLETED"
       /\ status[Composed(j)] = "SUCCEEDED" => status[Leaf(j)] \in Good
  /\ \A f \in Now : \A j \in Dependents :
       f.op = "completed" /\ f.on = DependerCallback(j) /\ f.arg = "SUCCEEDED" => status[Leaf(j)] \in Good

AfterDependees == \A j \in Jobs : AtWork(j) => AllGood(j)

(* Until a cancel, what a leaf has to tell when it ends is not nothing.     *)
ListsFull ==
  ~cancelling => \A f \in Now :
    /\ f.op = "callCallbacks" => f.arg # <<>>
    /\ f.op = "generated" => callbacks[f.on] # <<>>

ToldOnce == Len(rootTold) <= 1

(* Nothing is on the canceller's stack before the cancel.                   *)
CancellerWaits == ~cancelling => stack[Canceller] = <<>>

Careful == ~ReportFails /\ ~SaveFails

LiveInv ==
  /\ CallersKnown /\ RunningIsAsked /\ NoTokenLost
  /\ DependeesAwaited /\ VerdictsComing /\ EndsComing /\ CancellerWaits

(* When every thread has run to its end, the caller of the root was told,   *)
(* once, and no object waits.                                               *)
Answered == Idle => Len(rootTold) = 1 /\ \A o \in Objects : status[o] # "RUNNING"
=============================================================================
