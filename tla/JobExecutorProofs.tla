--------------------------- MODULE JobExecutorProofs ---------------------------
(***************************************************************************)
(* Theorems about JobExecutor, for any requests, flows and topics, and any *)
(* number of reloads and crashes; and about FlowCache, for any executions, *)
(* pages and crashes.  The two share no state.                             *)
(***************************************************************************)
EXTENDS JobExecutor, FlowCache, FiniteSetTheorems, SequenceTheorems, WellFoundedInduction, TLAPS

(* A set of numbers that is not empty has a least one.                      *)
LEMMA LeastNumber ==
  ASSUME NEW B, B \subseteq Nat, B # {}
  PROVE  \E m \in B : \A i \in B : m <= i
<1> DEFINE Less == {p \in Nat \X Nat : p[1] < p[2]}
<1>1. IsWellFoundedOn(Less, Nat)
  BY NatLessThanWellFounded DEF OpToRel
<1>2. PICK m \in B : \A i \in B : ~ (<<i, m>> \in Less)
  <2> HIDE DEF Less
  <2> QED BY <1>1, WFMin
<1>3. ASSUME NEW i \in B PROVE m <= i
  <2>1. i \in Nat /\ m \in Nat
    OBVIOUS
  <2>2. i < m => <<i, m>> \in Less
    BY <2>1
  <2> HIDE DEF Less
  <2>3. ~ (i < m)
    BY <1>2, <2>2
  <2> QED BY <2>1, <2>3
<1> QED BY <1>3

(* The largest id of the files, as getLastExecutionId() finds it, is there. *)
LEMMA LastIdFacts ==
  ASSUME file \subseteq Nat \X Requests, NEW b \in Nat, \A f \in file : f[1] <= b
  PROVE  LastExecutionId \in Nat /\ \A f \in file : f[1] <= LastExecutionId
<1>1. CASE file = {}
  BY <1>1 DEF LastExecutionId
<1>2. CASE file # {}
  <2> DEFINE S == {f[1] : f \in file}
             B == {i \in Nat : \A f \in file : f[1] <= i}
  <2>1. B \subseteq Nat /\ B # {}
    OBVIOUS
  <2>2. PICK m \in B : \A i \in B : m <= i
    <3> HIDE DEF B
    <3> QED BY <2>1, LeastNumber
  <2>4. m \in S
    <3> SUFFICES ASSUME m \notin S PROVE FALSE
      OBVIOUS
    <3>1. \A f \in file : f[1] \in Nat /\ f[1] <= m /\ f[1] # m
      OBVIOUS
    <3>2. m # 0
      BY <1>2, <3>1
    <3>3. m - 1 \in B
      BY <3>1, <3>2
    <3> QED BY <2>2, <3>3
  <2>5. \E i \in S : \A f \in file : f[1] <= i
    BY <2>4
  <2>6. LastExecutionId = CHOOSE i \in S : \A f \in file : f[1] <= i
    BY <1>2 DEF LastExecutionId
  <2>7. LastExecutionId \in S /\ \A f \in file : f[1] <= LastExecutionId
    <3> HIDE DEF S
    <3> QED BY <2>5, <2>6
  <2> QED BY <2>7
<1> QED BY <1>1, <1>2

-----------------------------------------------------------------------------
(* Types.                                                                   *)

LEMMA TypeInit == Init => TypeOK /\ Bounded
<1> SUFFICES ASSUME Init PROVE TypeOK /\ Bounded
  OBVIOUS
<1>1. TypeOK
  BY ExecutorConstants DEF Init, TypeOK, Managers, Topics, Idle
<1>2. \A f \in file : f[1] <= 0
  BY DEF Init
<1>3. reloading = None
  BY DEF Init
<1> QED BY <1>1, <1>2, <1>3 DEF Bounded

LEMMA CallTypes ==
  ASSUME TypeOK, NEW r \in Requests, Call(r) \/ CallStep(r)
  PROVE  TypeOK'
<1> USE DEF TypeOK, Goto, Calling, managerVars, poolVars, runVars, callVars
<1>1. CASE Call(r)
  BY <1>1 DEF Call, Topics
<1>2. CASE Create(r)
  BY <1>2 DEF Create
<1>3. CASE CreateUnknown(r)
  BY <1>3 DEF CreateUnknown
<1>4. CASE AlreadyRunning(r)
  BY <1>4 DEF AlreadyRunning
<1>5. CASE FirstCheck(r)
  BY <1>5 DEF FirstCheck
<1>6. CASE SecondCheck(r)
  BY <1>6 DEF SecondCheck
<1>7. CASE Submit(r)
  BY <1>7 DEF Submit
<1> QED
  BY <1>1, <1>2, <1>3, <1>4, <1>5, <1>6, <1>7 DEF CallStep

LEMMA PoolTypes ==
  ASSUME TypeOK, PoolStep
  PROVE  TypeOK'
<1> USE ExecutorConstants DEF TypeOK, Goto, managerVars, callVars, runVars, Listed, Save, Idle
<1>1. CASE TakeRunnable
  BY <1>1 DEF TakeRunnable
<1>2. ASSUME NEW r \in Requests, List(r) PROVE TypeOK'
  BY <1>2 DEF List
<1>3. ASSUME NEW r \in Requests, RunFlow(r) PROVE TypeOK'
  BY <1>3 DEF RunFlow
<1>4. ASSUME NEW r \in Requests, FlowStarted(r) PROVE TypeOK'
  BY <1>4 DEF FlowStarted
<1>5. ASSUME NEW r \in Requests, StartThrows(r) PROVE TypeOK'
  BY <1>5 DEF StartThrows
<1> QED
  BY <1>1, <1>2, <1>3, <1>4, <1>5 DEF PoolStep

LEMMA EndTypes ==
  ASSUME TypeOK, NEW r \in Requests, EndStep(r)
  PROVE  TypeOK'
<1> USE ExecutorConstants DEF TypeOK, managerVars, callVars, poolVars, Listed, Save
<1>1. CASE EndSaved(r)
  BY <1>1 DEF EndSaved
<1>2. CASE EndThrows(r)
  BY <1>2 DEF EndThrows
<1>3. CASE EndRemoved(r)
  BY <1>3 DEF EndRemoved
<1>4. CASE EndRecorded(r)
  BY <1>4 DEF EndRecorded
<1> QED
  BY <1>1, <1>2, <1>3, <1>4 DEF EndStep

LEMMA RestartTypes ==
  ASSUME TypeOK, Bounded, Restart
  PROVE  TypeOK'
<1>1. LastExecutionId \in Nat
  BY LastIdFacts DEF TypeOK, Bounded
<1> QED
  BY <1>1, ExecutorConstants DEF Restart, TypeOK, Managers, Topics, Idle

(* Only a save changes the files: it puts in one entry, for the id of its   *)
(* execution.                                                               *)
LEMMA FileStep ==
  ASSUME [Next]_vars
  PROVE  \/ file' = file
         \/ \E r \in Requests : Save(r) /\ (flow[r] = "running" \/ pool = <<"running", r>>)
BY DEF Next, vars, Call, CallStep, Create, CreateUnknown, AlreadyRunning, FirstCheck, SecondCheck,
   Submit, PoolStep, TakeRunnable, List, RunFlow, FlowStarted, StartThrows, EndStep, EndSaved,
   EndThrows, EndRemoved, EndRecorded, ReloadRead, ReloadSet, Restart, runVars

LEMMA BoundedStep ==
  ASSUME TypeOK, Bounded, [Next]_vars
  PROVE  Bounded'
<1>1. \E b \in Nat : \A f \in file' : f[1] <= b
  <2>1. PICK b \in Nat : \A f \in file : f[1] <= b
    BY DEF Bounded
  <2>2. CASE file' = file
    BY <2>1, <2>2
  <2>3. ASSUME NEW r \in Requests, Save(r) PROVE \E c \in Nat : \A f \in file' : f[1] <= c
    <3> DEFINE c == IF id[r] <= b THEN b ELSE id[r]
    <3>1. id[r] \in Nat /\ c \in Nat /\ b <= c /\ id[r] <= c
      BY DEF TypeOK
    <3>2. \A f \in file' : f \in file \/ f = <<id[r], r>>
      BY <2>3 DEF Save
    <3>3. \A f \in file : f[1] \in Nat
      BY DEF TypeOK
    <3>4. \A f \in file' : f[1] <= c
      BY <2>1, <3>1, <3>2, <3>3
    <3> QED BY <3>1, <3>4
  <2> QED BY <2>2, <2>3, FileStep
<1>2. reloading' # None => delegate' < MaxReloads
  BY DEF Bounded, Next, vars, Call, CallStep, Create, CreateUnknown, AlreadyRunning, FirstCheck,
     SecondCheck, Submit, PoolStep, TakeRunnable, List, RunFlow, FlowStarted, StartThrows, EndStep,
     EndSaved, EndThrows, EndRemoved, EndRecorded, ReloadRead, ReloadSet, Restart, managerVars
<1> QED BY <1>1, <1>2 DEF Bounded

LEMMA TypeStep ==
  ASSUME TypeOK, Bounded, [Next]_vars
  PROVE  TypeOK' /\ Bounded'
<1>1. TypeOK'
  <2>1. ASSUME NEW r \in Requests, Call(r) \/ CallStep(r) PROVE TypeOK'
    BY <2>1, CallTypes
  <2>2. ASSUME NEW r \in Requests, EndStep(r) PROVE TypeOK'
    BY <2>2, EndTypes
  <2>3. CASE PoolStep
    BY <2>3, PoolTypes
  <2>4. CASE ReloadRead
    BY <2>4 DEF ReloadRead, TypeOK, callVars, poolVars, runVars
  <2>5. CASE ReloadSet
    BY <2>5, ExecutorConstants DEF ReloadSet, Bounded, TypeOK, Managers, callVars, poolVars, runVars
  <2>6. CASE Restart
    BY <2>6, RestartTypes
  <2>7. CASE UNCHANGED vars
    BY <2>7 DEF vars, TypeOK
  <2> QED BY <2>1, <2>2, <2>3, <2>4, <2>5, <2>6, <2>7 DEF Next
<1> QED BY <1>1, BoundedStep

LEMMA TypeAlways == Spec => [](TypeOK /\ Bounded)
<1>1. Init => TypeOK /\ Bounded
  BY TypeInit
<1>2. TypeOK /\ Bounded /\ [Next]_vars => TypeOK' /\ Bounded'
  BY TypeStep
<1> QED BY <1>1, <1>2, PTL DEF Spec

(* Calls, managers, pool, lists and files keep to their types; the id a     *)
(* restart goes on from is a number, whatever files there are.              *)
THEOREM TypeCorrect == Spec => []TypeOK
BY TypeAlways, PTL

-----------------------------------------------------------------------------
(* The list of executing flows.                                             *)

LEMMA EntryPoolStep ==
  ASSUME TypeOK, EntryIsLive, PoolStep
  PROVE  EntryIsLive'
<1> USE ExecutorConstants DEF TypeOK, EntryIsLive, Listed, Idle, runVars
<1>1. CASE TakeRunnable
  BY <1>1 DEF TakeRunnable
<1>2. ASSUME NEW r \in Requests, List(r) PROVE EntryIsLive'
  BY <1>2 DEF List
<1>3. ASSUME NEW r \in Requests, RunFlow(r) PROVE EntryIsLive'
  BY <1>3 DEF RunFlow
<1>4. ASSUME NEW r \in Requests, FlowStarted(r) PROVE EntryIsLive'
  BY <1>4 DEF FlowStarted
<1>5. ASSUME NEW r \in Requests, StartThrows(r) PROVE EntryIsLive'
  BY <1>5 DEF StartThrows
<1> QED BY <1>1, <1>2, <1>3, <1>4, <1>5 DEF PoolStep

LEMMA EntryEndStep ==
  ASSUME TypeOK, EntryIsLive, NEW r \in Requests, EndStep(r)
  PROVE  EntryIsLive'
<1> USE ExecutorConstants DEF TypeOK, EntryIsLive, Listed, poolVars
<1>1. CASE EndSaved(r)
  BY <1>1 DEF EndSaved
<1>2. CASE EndThrows(r)
  BY <1>2 DEF EndThrows
<1>3. CASE EndRemoved(r)
  BY <1>3 DEF EndRemoved
<1>4. CASE EndRecorded(r)
  BY <1>4 DEF EndRecorded
<1> QED BY <1>1, <1>2, <1>3, <1>4 DEF EndStep

LEMMA EntryStep ==
  ASSUME TypeOK, EntryIsLive, [Next]_vars
  PROVE  EntryIsLive'
<1>1. CASE UNCHANGED <<executing, flow>> /\ (UNCHANGED pool)
  BY <1>1 DEF EntryIsLive
<1>2. ASSUME NEW r \in Requests, Call(r) \/ CallStep(r)
      PROVE  UNCHANGED <<executing, flow, pool>>
  BY <1>2 DEF Call, CallStep, Create, CreateUnknown, AlreadyRunning, FirstCheck, SecondCheck,
              Submit, runVars, poolVars
<1>3. CASE Restart
  BY <1>3 DEF Restart, EntryIsLive
<1>4. ReloadRead \/ ReloadSet \/ UNCHANGED vars => UNCHANGED <<executing, flow, pool>>
  BY DEF ReloadRead, ReloadSet, vars, runVars, poolVars
<1> QED BY <1>1, <1>2, <1>3, <1>4, EntryPoolStep, EntryEndStep DEF Next

(* An entry of the list of executing flows is that of an execution of this  *)
(* flow that is under way: none is left behind, to refuse its flow for      *)
(* ever.                                                                    *)
THEOREM NoStaleEntry == Spec => []EntryIsLive
<1>1. Init => EntryIsLive
  BY DEF Init, EntryIsLive
<1>2. TypeOK /\ EntryIsLive /\ [Next]_vars => EntryIsLive'
  BY EntryStep
<1> QED BY <1>1, <1>2, TypeCorrect, PTL DEF Spec

(* What was accepted is in the queue until the pool thread takes it, and an *)
(* execution whose callback is through is recorded.                         *)
Recorded ==
  /\ \A r \in Requests : pc[r] = "queued" => \E i \in DOMAIN queue : queue[i] = r
  /\ \A r \in Requests : flow[r] = "done" => r \in completed

LEMMA RecordedStep ==
  ASSUME TypeOK, Recorded, [Next]_vars
  PROVE  Recorded'
<1> USE DEF TypeOK, Recorded, Calling, Goto
<1>1. ASSUME NEW r \in Requests, Call(r) PROVE Recorded'
  BY <1>1 DEF Call, poolVars, runVars
<1>2. ASSUME NEW r \in Requests, CallStep(r) PROVE Recorded'
  <2>1. CASE Submit(r)
    <3>1. queue' = Append(queue, r) /\ UNCHANGED <<flow, completed>>
      BY <2>1 DEF Submit, runVars
    <3>2. /\ queue'[Len(queue) + 1] = r /\ Len(queue) + 1 \in DOMAIN queue'
          /\ \A i \in DOMAIN queue : i \in DOMAIN queue' /\ queue'[i] = queue[i]
      BY <3>1
    <3>3. \A s \in Requests : pc'[s] = "queued" => pc[s] = "queued" \/ s = r
      BY <2>1 DEF Submit
    <3> QED BY <3>1, <3>2, <3>3
  <2>2. CASE Create(r) \/ CreateUnknown(r) \/ AlreadyRunning(r) \/ FirstCheck(r) \/ SecondCheck(r)
    <3>1. UNCHANGED <<queue, flow, completed>>
      BY <2>2 DEF Create, CreateUnknown, AlreadyRunning, FirstCheck, SecondCheck, poolVars, runVars
    <3>2. \A s \in Requests : pc'[s] = "queued" => pc[s] = "queued"
      BY <2>2 DEF Create, CreateUnknown, AlreadyRunning, FirstCheck, SecondCheck
    <3> QED BY <3>1, <3>2
  <2> QED BY <1>2, <2>1, <2>2 DEF CallStep
<1>3. CASE TakeRunnable
  <2>1. queue # <<>> /\ queue' = Tail(queue) /\ UNCHANGED <<flow, completed>>
    BY <1>3 DEF TakeRunnable, runVars
  <2>2. \A i \in DOMAIN queue : i = 1 \/ (i - 1 \in DOMAIN queue' /\ queue'[i - 1] = queue[i])
    BY <2>1
  <2>3. Head(queue) = queue[1] /\ Head(queue) \in Requests
    BY <2>1
  <2>4. \A r \in Requests : pc'[r] = "queued" => pc[r] = "queued" /\ r # Head(queue)
    BY <1>3, <2>3 DEF TakeRunnable
  <2>5. ASSUME NEW r \in Requests, pc'[r] = "queued" PROVE \E i \in DOMAIN queue' : queue'[i] = r
    <3>1. PICK i \in DOMAIN queue : queue[i] = r
      BY <2>4, <2>5
    <3>2. i # 1
      BY <2>3, <2>4, <2>5, <3>1
    <3> QED BY <2>2, <3>1, <3>2
  <2> QED BY <2>1, <2>5
<1>4. ASSUME NEW r \in Requests, List(r) \/ RunFlow(r) \/ FlowStarted(r) \/ StartThrows(r)
      PROVE  Recorded'
  BY <1>4 DEF List, RunFlow, FlowStarted, StartThrows
<1>5. ASSUME NEW r \in Requests, EndStep(r) PROVE Recorded'
  BY <1>5 DEF EndStep, EndSaved, EndThrows, EndRemoved, EndRecorded, poolVars
<1>6. CASE Restart
  BY <1>6 DEF Restart
<1>7. CASE ReloadRead \/ ReloadSet \/ UNCHANGED vars
  BY <1>7 DEF ReloadRead, ReloadSet, vars, poolVars, runVars
<1> QED BY <1>1, <1>2, <1>3, <1>4, <1>5, <1>6, <1>7 DEF Next, PoolStep

(* At rest every execution that was accepted and could be started is        *)
(* recorded, and none is listed as executing, whatever saves and starts     *)
(* failed.                                                                  *)
THEOREM EveryRunRecorded == Spec => []RunRecorded
<1>1. Init => Recorded
  BY DEF Init, Recorded
<1>2. TypeOK /\ Recorded /\ [Next]_vars => Recorded'
  BY RecordedStep
<1>3. TypeOK /\ Recorded /\ EntryIsLive => RunRecorded
  <2> SUFFICES ASSUME TypeOK, Recorded, EntryIsLive, AtRest PROVE RunRecorded
    BY DEF RunRecorded
  <2>1. ASSUME NEW n \in Names PROVE executing[n] = None
    <3>1. pool # <<"listed", executing[n]>>
      BY DEF AtRest, Idle
    <3> QED BY <3>1 DEF EntryIsLive, AtRest, TypeOK
  <2>2. \A r \in Requests : pc[r] # "queued"
    BY DEF AtRest, Recorded
  <2>3. \A r \in Requests : pc[r] = "taken" => r \in completed \/ flow[r] = "none"
    BY DEF AtRest, Recorded
  <2> QED BY <2>1, <2>2, <2>3 DEF RunRecorded
<1> QED BY <1>1, <1>2, <1>3, TypeCorrect, NoStaleEntry, PTL DEF Spec

-----------------------------------------------------------------------------
(* The trigger topic.                                                       *)

(* While the scheduler is in its call, the shared field holds its topic.    *)
TopicHeld ==
  /\ \A r \in Requests : Kind[r] = "scheduler" /\ pc[r] \in Calling => topic = Topic[r]
  /\ \A r, s \in Requests :
       /\ Kind[r] = "scheduler" /\ pc[r] \in Calling
       /\ Kind[s] = "scheduler" /\ pc[s] \in Calling
       => r = s

LEMMA TopicStep ==
  ASSUME TypeOK, TopicHeld, SchedulerTopicKept, [Next]_vars
  PROVE  TopicHeld' /\ SchedulerTopicKept'
<1> USE DEF TypeOK, TopicHeld, SchedulerTopicKept, Calling, Goto
<1>1. ASSUME NEW r \in Requests, Call(r) PROVE TopicHeld' /\ SchedulerTopicKept'
  BY <1>1 DEF Call
<1>2. ASSUME NEW r \in Requests, CallStep(r) PROVE TopicHeld' /\ SchedulerTopicKept'
  <2>1. CASE Create(r)
    BY <1>2, <2>1 DEF Create
  <2>2. CASE CreateUnknown(r)
    BY <1>2, <2>2 DEF CreateUnknown, callVars
  <2>3. CASE AlreadyRunning(r)
    BY <1>2, <2>3 DEF AlreadyRunning, callVars
  <2>4. CASE FirstCheck(r)
    BY <1>2, <2>4 DEF FirstCheck, callVars
  <2>5. CASE SecondCheck(r)
    BY <1>2, <2>5 DEF SecondCheck, callVars
  <2>6. CASE Submit(r)
    BY <1>2, <2>6 DEF Submit
  <2> QED BY <1>2, <2>1, <2>2, <2>3, <2>4, <2>5, <2>6 DEF CallStep
<1>3. CASE TakeRunnable
  BY <1>3 DEF TakeRunnable, callVars
<1>4. CASE Restart
  BY <1>4 DEF Restart
<1>5. CASE UNCHANGED <<pc, runTopic, topic>>
  BY <1>5
<1>6. ASSUME NEW r \in Requests,
             EndStep(r) \/ List(r) \/ RunFlow(r) \/ FlowStarted(r) \/ StartThrows(r)
      PROVE  UNCHANGED <<pc, runTopic, topic>>
  BY <1>6 DEF EndStep, EndSaved, EndThrows, EndRemoved, EndRecorded, List, RunFlow, FlowStarted,
              StartThrows, callVars
<1>7. ReloadRead \/ ReloadSet \/ UNCHANGED vars => UNCHANGED <<pc, runTopic, topic>>
  BY DEF ReloadRead, ReloadSet, vars, callVars
<1> QED BY <1>1, <1>2, <1>3, <1>4, <1>5, <1>6, <1>7 DEF Next, PoolStep

(* A run the scheduler started carries the topic of its own event, though   *)
(* web pages run through the same field in between.                         *)
THEOREM TopicKept == Spec => []SchedulerTopicKept
<1>1. Init => TopicHeld /\ SchedulerTopicKept
  BY DEF Init, TopicHeld, SchedulerTopicKept, Calling
<1>2. TypeOK /\ TopicHeld /\ SchedulerTopicKept /\ [Next]_vars
        => TopicHeld' /\ SchedulerTopicKept'
  BY TopicStep
<1> QED BY <1>1, <1>2, TypeCorrect, PTL DEF Spec

-----------------------------------------------------------------------------
(* Ids and files.                                                           *)

LEMMA SubmittedStep ==
  ASSUME TypeOK, WorkIsSubmitted, [Next]_vars
  PROVE  WorkIsSubmitted'
<1> USE ExecutorConstants DEF TypeOK, WorkIsSubmitted, Submitted, Calling, Goto, Idle
<1>1. ASSUME NEW r \in Requests, Call(r) PROVE WorkIsSubmitted'
  BY <1>1 DEF Call, poolVars, runVars
<1>2. ASSUME NEW r \in Requests, CallStep(r) PROVE WorkIsSubmitted'
  <2>1. CASE Create(r)
    BY <1>2, <2>1 DEF Create, poolVars, runVars
  <2>2. CASE CreateUnknown(r)
    BY <1>2, <2>2 DEF CreateUnknown, poolVars, runVars
  <2>3. CASE AlreadyRunning(r)
    BY <1>2, <2>3 DEF AlreadyRunning, poolVars, runVars
  <2>4. CASE FirstCheck(r)
    BY <1>2, <2>4 DEF FirstCheck, poolVars, runVars
  <2>5. CASE SecondCheck(r)
    BY <1>2, <2>5 DEF SecondCheck, poolVars, runVars
  <2>6. CASE Submit(r)
    BY <1>2, <2>6 DEF Submit, runVars
  <2> QED BY <1>2, <2>1, <2>2, <2>3, <2>4, <2>5, <2>6 DEF CallStep
<1>3. CASE TakeRunnable
  <2>1. queue # <<>> /\ queue \in Seq(Requests)
    BY <1>3 DEF TakeRunnable
  <2>2. /\ Head(queue) = queue[1] /\ 1 \in DOMAIN queue
        /\ \A i \in DOMAIN Tail(queue) : i + 1 \in DOMAIN queue /\ Tail(queue)[i] = queue[i + 1]
    BY <2>1
  <2>3. \A r \in Requests : Submitted(r) => Submitted(r)'
    BY <1>3, <2>2 DEF TakeRunnable
  <2>4. Head(queue) \in Requests /\ \A i \in DOMAIN Tail(queue) : Tail(queue)[i] \in Requests
    BY <2>1, <2>2
  <2>5. \A i \in DOMAIN queue' : Submitted(Tail(queue)[i])
    BY <1>3, <2>2 DEF TakeRunnable
  <2>6. queue' = Tail(queue) /\ pool'[2] = Head(queue) /\ Submitted(Head(queue))
    BY <1>3, <2>2 DEF TakeRunnable
  <2>7. \A r \in Requests : flow'[r] # "none" => Submitted(r)'
    BY <1>3, <2>3 DEF TakeRunnable, runVars
  <2> QED BY <2>3, <2>4, <2>5, <2>6, <2>7
<1>4. ASSUME NEW r \in Requests, List(r) \/ RunFlow(r) \/ FlowStarted(r) \/ StartThrows(r)
      PROVE  WorkIsSubmitted'
  BY <1>4 DEF List, RunFlow, FlowStarted, StartThrows
<1>5. ASSUME NEW r \in Requests, EndStep(r) PROVE WorkIsSubmitted'
  BY <1>5 DEF EndStep, EndSaved, EndThrows, EndRemoved, EndRecorded, poolVars
<1>6. CASE Restart
  BY <1>6 DEF Restart
<1>7. CASE ReloadRead \/ ReloadSet \/ UNCHANGED vars
  BY <1>7 DEF ReloadRead, ReloadSet, vars, poolVars, runVars
<1> QED BY <1>1, <1>2, <1>3, <1>4, <1>5, <1>6, <1>7 DEF Next, PoolStep

LEMMA OneIdStep ==
  ASSUME ReloadRaces = FALSE, TypeOK, Bounded, WorkIsSubmitted, OneId, [Next]_vars
  PROVE  OneId'
<1> USE ExecutorConstants DEF TypeOK, OneId, Numbered, Calling, Goto
<1>1. ASSUME NEW r \in Requests, Call(r) PROVE OneId'
  BY <1>1 DEF Call, managerVars, runVars
<1>2. ASSUME NEW r \in Requests, CallStep(r) PROVE OneId'
  <2>1. CASE Create(r)
    BY <1>2, <2>1 DEF Create, runVars
  <2>2. CASE CreateUnknown(r)
    BY <1>2, <2>2 DEF CreateUnknown, callVars, managerVars, runVars
  <2>3. CASE AlreadyRunning(r)
    BY <1>2, <2>3 DEF AlreadyRunning, callVars, managerVars, runVars
  <2>4. CASE FirstCheck(r)
    BY <1>2, <2>4 DEF FirstCheck, callVars, managerVars, runVars
  <2>5. CASE SecondCheck(r)
    BY <1>2, <2>5 DEF SecondCheck, callVars, managerVars, runVars
  <2>6. CASE Submit(r)
    BY <1>2, <2>6 DEF Submit, managerVars, runVars
  <2> QED BY <1>2, <2>1, <2>2, <2>3, <2>4, <2>5, <2>6 DEF CallStep
<1>3. CASE TakeRunnable
  BY <1>3 DEF TakeRunnable, WorkIsSubmitted, Submitted, callVars, managerVars, runVars
<1>4. ASSUME NEW r \in Requests, Numbered(r), Save(r), UNCHANGED <<pc, got, id, managerVars>>
      PROVE  OneId'
  <2>1. \A f \in file' : f \in file \/ f = <<id[r], r>>
    BY <1>4 DEF Save
  <2> QED BY <1>4, <2>1 DEF managerVars
<1>5. CASE UNCHANGED <<pc, got, id, file, managerVars>>
  BY <1>5 DEF managerVars
<1>6. ASSUME NEW r \in Requests, FlowStarted(r) \/ EndSaved(r) PROVE OneId'
  <2>1. Numbered(r)
    BY <1>6 DEF FlowStarted, EndSaved, WorkIsSubmitted, Submitted, Numbered, Idle
  <2> QED BY <1>4, <1>6, <2>1 DEF FlowStarted, EndSaved, callVars
<1>7. ASSUME NEW r \in Requests,
             \/ List(r) \/ RunFlow(r) \/ StartThrows(r)
             \/ EndThrows(r) \/ EndRemoved(r) \/ EndRecorded(r)
      PROVE  UNCHANGED <<pc, got, id, file, managerVars>>
  BY <1>7 DEF List, RunFlow, StartThrows, EndThrows, EndRemoved, EndRecorded, callVars
<1>8. CASE ReloadRead
  BY <1>8 DEF ReloadRead, callVars, runVars
<1>9. CASE ReloadSet
  BY <1>9 DEF ReloadSet, Bounded, Managers, callVars, runVars
<1>10. CASE Restart
  <2>1. LastExecutionId \in Nat /\ \A f \in file : f[1] <= LastExecutionId
    BY LastIdFacts DEF Bounded
  <2>2. lastId'[0] = LastExecutionId
    BY <1>10 DEF Restart, Managers
  <2>3. \A r \in Requests : pc'[r] \in {"new", "gone"}
    BY <1>10 DEF Restart
  <2>4. delegate' = 0 /\ reloading' = None /\ file' = file
    BY <1>10 DEF Restart
  <2>5. \A f \in file' : f[1] <= lastId'[delegate']
    BY <2>1, <2>2, <2>4
  <2> QED BY <2>3, <2>4, <2>5
<1>11. UNCHANGED vars => UNCHANGED <<pc, got, id, file, managerVars>>
  BY DEF vars, managerVars
<1> QED
  BY <1>1, <1>2, <1>3, <1>5, <1>6, <1>7, <1>8, <1>9, <1>10, <1>11 DEF Next, PoolStep, EndStep

LEMMA SavedKept ==
  ASSUME TypeOK, WorkIsSubmitted, OneId, [Next]_vars
  PROVE  file \subseteq file'
<1>1. ASSUME NEW r \in Requests, Save(r), flow[r] = "running" \/ pool = <<"running", r>>
      PROVE  file \subseteq file'
  <2>1. Numbered(r)
    BY <1>1 DEF WorkIsSubmitted, Submitted, Numbered, Idle
  <2>2. ASSUME NEW f \in file, f[1] = id[r] PROVE f = <<id[r], r>>
    <3>1. f[2] = r
      BY <2>1, <2>2 DEF OneId
    <3> QED BY <2>2, <3>1 DEF TypeOK
  <2> QED BY <1>1, <2>2 DEF Save
<1> QED BY <1>1, FileStep

(* Once an execution is saved, its file stays its own: over reloads and     *)
(* crashes no other execution gets its id, if no reload runs while a flow   *)
(* is being created.                                                        *)
THEOREM NothingOverwritten ==
  ASSUME ReloadRaces = FALSE
  PROVE  Spec => NoOverwrite
<1>1. Init => WorkIsSubmitted /\ OneId
  BY ExecutorConstants DEF Init, WorkIsSubmitted, OneId, Submitted, Numbered, Idle, Managers
<1>2. TypeOK /\ Bounded /\ WorkIsSubmitted /\ OneId /\ [Next]_vars
        => WorkIsSubmitted' /\ OneId'
  BY SubmittedStep, OneIdStep
<1>3. TypeOK /\ WorkIsSubmitted /\ OneId /\ [Next]_vars => [file \subseteq file']_vars
  BY SavedKept
<1> QED BY <1>1, <1>2, <1>3, TypeAlways, PTL DEF Spec, NoOverwrite

-----------------------------------------------------------------------------
(* The cache.                                                               *)

(* What an instance is, so that proofs need not see the pairs.              *)
LEMMA InstanceFacts ==
  /\ \A i \in Instances : IdOf(i) \in Ids /\ (i[2] = "created" <=> i = Created(IdOf(i)))
  /\ \A e \in Ids : Created(e) \in Instances /\ IdOf(Created(e)) = e
  /\ \A e \in Ids, p \in Pages :
       Instance(e, p) \in Instances /\ IdOf(Instance(e, p)) = e /\ Instance(e, p) # Created(e)
  /\ \A d, e \in Ids, p, q \in Pages : Instance(d, p) = Instance(e, q) => d = e /\ p = q
BY CacheConstants DEF Instances, Instance, IdOf, Created

(* An entry that is put last, in place of another.                          *)
LEMMA Moved ==
  ASSUME NEW S, NEW s \in Seq(S), NEW k \in DOMAIN s, NEW x \in S
  PROVE  LET r == Append(RemoveAt(s, k), x) IN
         /\ r \in Seq(S)
         /\ Len(r) = Len(s)
         /\ \A n \in 1 .. Len(s) :
              r[n] = IF n < k THEN s[n] ELSE IF n < Len(s) THEN s[n + 1] ELSE x
<1> DEFINE u == SubSeq(s, 1, k - 1)
           v == SubSeq(s, k + 1, Len(s))
           w == RemoveAt(s, k)
<1>1. k \in 1 .. Len(s) /\ Len(s) \in Nat
  OBVIOUS
<1>2. /\ u \in Seq(S) /\ Len(u) = k - 1
      /\ \A n \in 1 .. k - 1 : u[n] = s[n]
  BY <1>1, SubSeqProperties
<1>3. /\ v \in Seq(S) /\ Len(v) = Len(s) - k
      /\ \A n \in 1 .. Len(s) - k : v[n] = s[k + n]
  BY <1>1, SubSeqProperties
<1>4. w = u \o v
  BY DEF RemoveAt
<1> HIDE DEF u, v, w
<1>5. /\ w \in Seq(S) /\ Len(w) = Len(s) - 1
      /\ \A n \in 1 .. Len(s) - 1 : w[n] = IF n < k THEN s[n] ELSE s[n + 1]
  BY <1>1, <1>2, <1>3, <1>4
<1> QED
  BY <1>1, <1>5 DEF w

(* The cache never grows past the number of executions.                     *)
LEMMA NoMoreThanIds ==
  ASSUME NEW c \in Seq(Instances), OneEach(c), IsFiniteSet(Ids)
  PROVE  Len(c) <= Cardinality(Ids)
<1> DEFINE f == [n \in 1 .. Len(c) |-> IdOf(c[n])]
<1>1. f \in Injection(1 .. Len(c), Ids)
  <2>1. f \in [1 .. Len(c) -> Ids]
    BY InstanceFacts
  <2>2. \A m, n \in 1 .. Len(c) : f[m] = f[n] => m = n
    BY DEF OneEach
  <2> QED
    BY <2>1, <2>2 DEF Injection, IsInjective
<1>2. Cardinality(1 .. Len(c)) <= Cardinality(Ids)
  BY <1>1, FS_Injection
<1>3. Cardinality(1 .. Len(c)) = Len(c)
  <2>1. Len(c) \in Nat
    OBVIOUS
  <2>2. Cardinality(1 .. Len(c)) = IF 1 > Len(c) THEN 0 ELSE Len(c) - 1 + 1
    BY <2>1, FS_Interval
  <2> QED
    BY <2>1, <2>2
<1> QED
  BY <1>2, <1>3

(* The values of a cache in which one takes the place of another.           *)
Replaced(c, k, x) == (ToSet(c) \ {c[k]}) \cup {x}

(* Moving an entry that is there, or one of its execution, to the end.      *)
LEMMA MoveKeeps ==
  ASSUME NEW c \in Seq(Instances), OneEach(c), NEW k \in 1 .. Len(c),
         NEW x \in Instances, IdOf(x) = IdOf(c[k]),
         NEW d, d = Append(RemoveAt(c, k), x)
  PROVE  /\ d \in Seq(Instances) /\ OneEach(d)
         /\ ToSet(d) = Replaced(c, k, x)
<1> DEFINE L == Len(c)
<1>1. /\ d \in Seq(Instances) /\ Len(d) = L
      /\ \A n \in 1 .. L : d[n] = IF n < k THEN c[n] ELSE IF n < L THEN c[n + 1] ELSE x
  BY Moved
<1>0. L \in Nat
  OBVIOUS
<1>2. DOMAIN c = 1 .. L /\ DOMAIN d = 1 .. L
  BY <1>1
<1> HIDE DEF L
<1>3. OneEach(d)
  <2> DEFINE was(n) == IF n < k THEN n ELSE IF n < L THEN n + 1 ELSE k
  <2>1. \A n \in 1 .. L : was(n) \in 1 .. L
    BY <1>0
  <2>2. \A n \in 1 .. L : IdOf(d[n]) = IdOf(c[was(n)])
    BY <1>0, <1>1, <1>2
  <2>3. ASSUME NEW m \in 1 .. L, NEW n \in 1 .. L, was(m) = was(n)
        PROVE  m = n
    BY <1>0, <2>3
  <2> HIDE DEF was
  <2>4. \A m, n \in 1 .. L : IdOf(c[m]) = IdOf(c[n]) => m = n
    BY <1>2 DEF OneEach
  <2>5. ASSUME NEW m \in 1 .. L, NEW n \in 1 .. L, IdOf(d[m]) = IdOf(d[n])
        PROVE  m = n
    <3>1. was(m) \in 1 .. L /\ was(n) \in 1 .. L
      BY <2>1
    <3>2. IdOf(c[was(m)]) = IdOf(c[was(n)])
      BY <2>2, <2>5
    <3>3. was(m) = was(n)
      BY <2>4, <3>1, <3>2
    <3> QED
      BY <2>3, <3>3
  <2> QED
    BY <1>2, <2>5 DEF OneEach
<1>4. \A m \in DOMAIN c : m # k => c[m] # c[k]
  BY DEF OneEach
<1>5. ASSUME NEW y \in ToSet(d)
      PROVE  y \in (ToSet(c) \ {c[k]}) \cup {x}
  <2>1. PICK n \in 1 .. L : y = d[n]
    BY <1>2 DEF ToSet
  <2>2. CASE n < k
    <3>1. n \in DOMAIN c /\ n # k /\ y = c[n]
      BY <1>0, <1>1, <1>2, <2>1, <2>2
    <3> QED
      BY <1>4, <3>1 DEF ToSet
  <2>3. CASE n >= k /\ n < L
    <3>1. n + 1 \in DOMAIN c /\ n + 1 # k /\ y = c[n + 1]
      BY <1>0, <1>1, <1>2, <2>1, <2>3
    <3> QED
      BY <1>4, <3>1 DEF ToSet
  <2>4. CASE n >= k /\ n = L
    BY <1>0, <1>1, <1>2, <2>1, <2>4
  <2>5. n < k \/ (n >= k /\ n < L) \/ (n >= k /\ n = L)
    BY <1>0
  <2> QED
    BY <2>2, <2>3, <2>4, <2>5
<1>6. ASSUME NEW y \in (ToSet(c) \ {c[k]}) \cup {x}
      PROVE  y \in ToSet(d)
  <2>1. CASE y = x
    <3>1. L \in DOMAIN d /\ d[L] = x
      BY <1>0, <1>1, <1>2
    <3> QED
      BY <2>1, <3>1 DEF ToSet
  <2>2. CASE y # x
    <3>1. PICK m \in DOMAIN c : y = c[m] /\ m # k
      BY <2>2 DEF ToSet
    <3>2. CASE m < k
      BY <1>0, <1>1, <1>2, <3>1, <3>2 DEF ToSet
    <3>3. CASE m > k
      <4>1. m - 1 \in 1 .. L /\ d[m - 1] = c[m]
        BY <1>0, <1>1, <1>2, <3>1, <3>3
      <4> QED
        BY <1>2, <3>1, <4>1 DEF ToSet
    <3> QED
      BY <1>2, <3>1, <3>2, <3>3
  <2> QED
    BY <2>1, <2>2
<1> QED
  BY <1>1, <1>3, <1>5, <1>6 DEF Replaced

(* Where the cache has an execution that is cached.                         *)
LEMMA PlaceFacts ==
  ASSUME cache \in Seq(Instances), NEW e, Cached(e) # {}
  PROVE  Place(e) \in 1 .. Len(cache) /\ IdOf(cache[Place(e)]) = e
BY DEF Cached, Place, ToSet

(* get(): the entry moves to the end.                                       *)
LEMMA GetKeeps ==
  ASSUME cache \in Seq(Instances), OneEach(cache), NEW e, Cached(e) # {},
         NEW d, d = Append(RemoveAt(cache, Place(e)), cache[Place(e)])
  PROVE  /\ d \in Seq(Instances) /\ OneEach(d) /\ ToSet(d) = ToSet(cache)
         /\ cache[Place(e)] \in Instances /\ cache[Place(e)] \in ToSet(cache)
<1>1. Place(e) \in 1 .. Len(cache)
  BY PlaceFacts
<1>2. cache[Place(e)] \in Instances /\ cache[Place(e)] \in ToSet(cache)
  BY <1>1 DEF ToSet
<1>3. /\ d \in Seq(Instances) /\ OneEach(d)
      /\ ToSet(d) = Replaced(cache, Place(e), cache[Place(e)])
  BY <1>1, <1>2, MoveKeeps
<1> QED
  BY <1>2, <1>3 DEF Replaced

(* put(): the entry is there; another one goes only if it does not run and  *)
(* the cache is one with which nothing is restarted.                        *)
LEMMA PutKeeps ==
  ASSUME CacheTypeOK, CacheOK, RoomForAll,
         NEW i \in Instances, status[i] # "none", Put(i)
  PROVE  /\ cache' \in Seq(Instances) /\ OneEach(cache')
         /\ i \in ToSet(cache') /\ ToSet(cache') \subseteq ToSet(cache) \cup {i}
         /\ \A j \in ToSet(cache) :
              \/ j \in ToSet(cache')
              \/ IdOf(j) = IdOf(i)
              \/ cacheSize \notin RestartSizes /\ status[j] # "RUNNING"
<1> DEFINE b == Append(cache, i)
<1>1. cache \in Seq(Instances) /\ cacheSize \in Nat \ {0}
  BY CacheConstants DEF CacheTypeOK, RoomForAll
<1>2. CASE Cached(IdOf(i)) # {}
  <2>1. Place(IdOf(i)) \in 1 .. Len(cache) /\ IdOf(cache[Place(IdOf(i))]) = IdOf(i)
    BY <1>1, <1>2, PlaceFacts
  <2>2. cache' = Append(RemoveAt(cache, Place(IdOf(i))), i)
    BY <1>2 DEF Put
  <2>3. /\ cache' \in Seq(Instances) /\ OneEach(cache')
        /\ ToSet(cache') = Replaced(cache, Place(IdOf(i)), i)
    BY <1>1, <2>1, <2>2, MoveKeeps DEF CacheOK
  <2> QED
    BY <1>2, <2>1, <2>3 DEF Replaced
<1>3. CASE Cached(IdOf(i)) = {}
  <2>1. /\ b \in Seq(Instances) /\ Len(b) = Len(cache) + 1 /\ Len(cache) \in Nat
        /\ \A n \in 1 .. Len(cache) : b[n] = cache[n]
        /\ b[Len(b)] = i
    BY <1>1, AppendProperties
  <2> HIDE DEF b
  <2>2. \A n \in 1 .. Len(cache) : IdOf(cache[n]) # IdOf(i)
    BY <1>1, <1>3 DEF Cached, ToSet
  <2>3. DOMAIN b = 1 .. Len(b) /\ DOMAIN cache = 1 .. Len(cache)
    BY <1>1, <2>1
  <2>4. OneEach(b)
    BY <2>1, <2>2, <2>3 DEF OneEach, CacheOK
  <2>5. ToSet(b) = ToSet(cache) \cup {i}
    BY <2>1, <2>3 DEF ToSet
  <2>6. cache' = Evict(b)
    BY <1>3 DEF Put, b
  <2>7. CASE ~(Len(b) > cacheSize /\ status[Head(b)] # "RUNNING")
    BY <2>1, <2>4, <2>5, <2>6, <2>7 DEF Evict
  <2>8. CASE Len(b) > cacheSize /\ status[Head(b)] # "RUNNING"
    <3>1. cache' = Tail(b)
      BY <2>6, <2>8 DEF Evict
    <3>2. cacheSize \notin RestartSizes
      <4>1. Len(b) <= Cardinality(Ids)
        BY <2>1, <2>4, NoMoreThanIds DEF RoomForAll
      <4>2. Cardinality(Ids) \in Nat
        BY FS_CardinalityType DEF RoomForAll
      <4> QED
        BY <1>1, <2>1, <2>8, <4>1, <4>2 DEF RoomForAll
    <3>3. b # <<>>
      BY <2>1
    <3>4. /\ cache' \in Seq(Instances) /\ Len(cache') = Len(b) - 1
          /\ \A n \in 1 .. Len(b) - 1 : cache'[n] = b[n + 1]
      BY <2>1, <3>1, <3>3, HeadTailProperties
    <3>5. DOMAIN cache' = 1 .. Len(b) - 1 /\ Len(b) >= 2
      BY <1>1, <2>1, <2>8, <3>4
    <3>6. OneEach(cache')
      BY <2>1, <2>3, <2>4, <3>4, <3>5 DEF OneEach
    <3>7. i \in ToSet(cache')
      BY <2>1, <3>4, <3>5 DEF ToSet
    <3>8. \A n \in DOMAIN cache' : cache'[n] \in ToSet(b)
      BY <2>1, <2>3, <3>4, <3>5 DEF ToSet
    <3>9. ASSUME NEW j \in ToSet(cache), j # Head(b)
          PROVE  j \in ToSet(cache')
      <4>1. PICK n \in 1 .. Len(b) : j = b[n]
        BY <2>3, <2>5 DEF ToSet
      <4>2. Head(b) = b[1]
        BY <2>1, <3>3
      <4>3. n - 1 \in DOMAIN cache' /\ cache'[n - 1] = j
        BY <2>1, <3>4, <3>5, <3>9, <4>1, <4>2
      <4> QED
        BY <4>3 DEF ToSet
    <3>10. ToSet(cache') \subseteq ToSet(b)
      BY <3>8 DEF ToSet
    <3> QED
      BY <2>5, <2>8, <3>2, <3>4, <3>6, <3>7, <3>9, <3>10
  <2> QED
    BY <2>7, <2>8
<1> QED
  BY <1>2, <1>3

(* What must stay in the cache does.                                        *)
LEMMA PutKeepsStaying ==
  ASSUME CacheInv, RoomForAll, NEW i \in Instances, status[i] # "none", Put(i),
         thread.pc # "execute"
  PROVE  \A j \in ToSet(cache) : Stays(j) => j \in ToSet(cache')
<1> SUFFICES ASSUME NEW j \in ToSet(cache), Stays(j), j \notin ToSet(cache')
             PROVE  FALSE
  OBVIOUS
<1>1. /\ i \in ToSet(cache')
      /\ \/ IdOf(j) = IdOf(i)
         \/ cacheSize \notin RestartSizes /\ status[j] # "RUNNING"
  BY PutKeeps DEF CacheInv
<1>2. j \in Instances /\ Sole(j)
  BY DEF CacheInv, CacheTypeOK, Found, ToSet
<1>3. CASE IdOf(j) = IdOf(i)
  BY <1>1, <1>2, <1>3 DEF Sole
<1>4. CASE cacheSize \notin RestartSizes /\ status[j] # "RUNNING"
  BY <1>4 DEF CacheInv, ThreadOK, Stays, ToSet
<1> QED
  BY <1>1, <1>3, <1>4

(* Nothing is in memory or on disk at first.                                *)
LEMMA CacheInitInv ==
  CacheInit => CacheInv /\ FileInv
<1> SUFFICES ASSUME CacheInit PROVE CacheInv /\ FileInv
  OBVIOUS
<1> USE InstanceFacts DEF CacheInit
<1>0. ToSet(cache) = {} /\ DOMAIN cache = {} /\ DOMAIN waiting = {}
  BY DEF ToSet
<1>1. CacheTypeOK
  BY CacheConstants DEF CacheTypeOK, IdlePool, IdleSave, NoInstance, Saving, States, Savers
<1>2. Found /\ OnlyWorkers /\ Unborn
  BY <1>0 DEF Found, Stays, OnlyWorkers, Saves, Savers, Unborn, IdlePool, IdleSave
<1>3. CacheOK /\ ThreadOK /\ PagesOK
  BY <1>0 DEF CacheOK, OneEach, ThreadOK, PagesOK, PageInside, IdlePool
<1>4. FileInv
  BY DEF FileInv, OneSave, Carried, EndComes, Brought, InFlight, IdleSave, States
<1> QED
  BY <1>1, <1>2, <1>3, <1>4 DEF CacheInv

(* One step after another keeps executions found, whoever takes it.         *)
LEMMA CacheStepInv ==
  ASSUME CacheInv, RoomForAll, [CacheNext]_cacheVars
  PROVE  CacheInv'
<1>0. cacheSize' = cacheSize
  BY DEF CacheNext, cacheVars
<1>a. CacheTypeOK /\ Found /\ OnlyWorkers /\ Unborn /\ CacheOK /\ ThreadOK /\ PagesOK /\ ~PagesRace
  BY DEF CacheInv, RoomForAll
<1>t. /\ status \in [Instances -> States \cup {"none"}]
      /\ cache \in Seq(Instances) /\ waiting \in Seq(Instances)
      /\ disk \in [Ids -> States \cup {"none", "empty"}]
      /\ thread \in [pc : {"idle", "contains", "put", "execute", "saving"},
                     on : Instances \cup {NoInstance}]
      /\ save \in [Instances -> [Savers -> [pc : Saving \cup {"idle"},
                                           text : States \cup {"none", "done"}]]]
      /\ page \in [Pages -> [pc : {"new", "miss", "put", "got", "reset", "done", "failed"},
                             on : Instances \cup {NoInstance}]]
      /\ last \in [Ids -> States \cup {"none", "lost"}]
  BY <1>a DEF CacheTypeOK
<1> USE InstanceFacts, <1>0, <1>a, <1>t DEF SetPage, SaveIsDue, IdlePool, IdleSave
<1>1. ASSUME NEW e \in Ids, CreateExecution(e)
      PROVE  CacheInv'
  <2> USE <1>1 DEF CreateExecution
  <2>a. /\ disk[e] = "none"
        /\ \A j \in Instances : IdOf(j) = e => status[j] = "none" /\ ~Saves(j)
    BY DEF Unborn, OnlyWorkers
  <2>b. /\ status'[Created(e)] = "READY"
        /\ \A j \in Instances : j # Created(e) => status'[j] = status[j]
    OBVIOUS
  <2>c. \A n \in DOMAIN waiting' : waiting'[n] = Created(e) \/ (n \in DOMAIN waiting /\ waiting'[n] = waiting[n])
    BY AppendProperties
  <2>1. CacheTypeOK'
    BY DEF CacheTypeOK, States, Saving, Savers
  <2>2. Found'
    <3> SUFFICES ASSUME NEW j \in Instances, Stays(j)'
                 PROVE  Sole(j)' /\ (j \in ToSet(cache') \/ Fresh(j)' \/ BeingPut(j)')
      BY DEF Found
    <3>1. CASE j = Created(e)
      BY <2>a, <2>b, <3>1 DEF Sole, Fresh, Saves
    <3>2. CASE j # Created(e)
      <4>1. IdOf(j) # e /\ Stays(j)
        BY <2>a, <2>b, <3>2 DEF Stays
      <4>2. Sole(j) /\ (j \in ToSet(cache) \/ Fresh(j) \/ BeingPut(j))
        BY <4>1 DEF Found
      <4> QED
        BY <2>b, <4>1, <4>2 DEF Sole, Fresh, Saves, BeingPut
    <3> QED
      BY <3>1, <3>2
  <2>3. OnlyWorkers'
    BY DEF OnlyWorkers, Works, Saves
  <2>4. Unborn'
    BY DEF Unborn
  <2>5. CacheOK'
    BY DEF CacheOK
  <2>6. ThreadOK'
    <3>1. \A n \in DOMAIN cache : cache[n] # Created(e)
      BY <2>a DEF CacheOK, ToSet
    <3>2. thread.pc # "idle" => thread.on \in Instances /\ thread.on # Created(e)
      BY <2>a DEF OnlyWorkers
    <3> QED
      BY <2>b, <2>c, <3>1, <3>2 DEF ThreadOK
  <2>7. PagesOK'
    BY DEF PagesOK, PageInside, Cached
  <2> QED
    BY <2>1, <2>2, <2>3, <2>4, <2>5, <2>6, <2>7 DEF CacheInv
<1>2. ASSUME PoolTake
      PROVE  CacheInv'
  <2> USE <1>2 DEF PoolTake
  <2>a. /\ Head(waiting) = waiting[1] /\ 1 \in DOMAIN waiting
        /\ \A n \in DOMAIN waiting' : n + 1 \in DOMAIN waiting /\ waiting'[n] = waiting[n + 1]
    BY HeadTailProperties
  <2>b. Head(waiting) \in Instances /\ Works(Head(waiting)) /\ status[Head(waiting)] # "none"
    BY <2>a DEF OnlyWorkers
  <2>1. CacheTypeOK'
    BY DEF CacheTypeOK, States, Saving, Savers
  <2>2. Found'
    BY DEF Found, Stays, Sole, Fresh, Saves, BeingPut
  <2>3. OnlyWorkers'
    BY <2>a, <2>b DEF OnlyWorkers, Works, Saves
  <2>4. Unborn'
    BY DEF Unborn
  <2>5. CacheOK'
    BY DEF CacheOK
  <2>6. ThreadOK'
    <3>1. CASE Head(waiting) = Created(IdOf(Head(waiting)))
      BY <2>a, <2>b, <3>1 DEF ThreadOK
    <3>2. CASE Head(waiting) # Created(IdOf(Head(waiting)))
      <4>1. cacheSize \in RestartSizes /\ Head(waiting) \in ToSet(cache)
        BY <2>a, <2>b, <3>2 DEF ThreadOK, Works
      <4> QED
        BY <2>a, <2>b, <3>2, <4>1 DEF ThreadOK
    <3> QED
      BY <3>1, <3>2
  <2>7. PagesOK'
    BY DEF PagesOK, PageInside, Cached, Alone
  <2> QED
    BY <2>1, <2>2, <2>3, <2>4, <2>5, <2>6, <2>7 DEF CacheInv
<1>3. ASSUME PoolContains
      PROVE  CacheInv'
  <2> USE <1>3 DEF PoolContains
  <2>a. thread.on \in Instances /\ Works(thread.on) /\ status[thread.on] # "none"
    BY DEF OnlyWorkers
  <2>1. CacheTypeOK'
    BY DEF CacheTypeOK, States, Saving, Savers
  <2>2. Found'
    BY DEF Found, Stays, Sole, Fresh, Saves, BeingPut
  <2>3. OnlyWorkers'
    BY DEF OnlyWorkers, Works, Saves
  <2>4. Unborn'
    BY DEF Unborn
  <2>5. CacheOK'
    BY DEF CacheOK
  <2>6. ThreadOK'
    <3>1. ASSUME Cached(IdOf(thread.on)) # {}, status[thread.on] = "READY"
          PROVE  thread.on \in ToSet(cache)
      <4>1. PICK j \in ToSet(cache) : IdOf(j) = IdOf(thread.on)
        BY <3>1 DEF Cached
      <4>2. j \in Instances /\ status[j] # "none"
        BY DEF CacheOK, ToSet
      <4>3. Sole(thread.on)
        BY <2>a, <3>1 DEF Found, Stays, Works
      <4> QED
        BY <4>1, <4>2, <4>3 DEF Sole
    <3> QED
      BY <2>a, <3>1 DEF ThreadOK
  <2>7. PagesOK'
    BY DEF PagesOK, PageInside, Cached
  <2> QED
    BY <2>1, <2>2, <2>3, <2>4, <2>5, <2>6, <2>7 DEF CacheInv
<1>4. ASSUME PoolPut
      PROVE  CacheInv'
  <2> USE <1>4 DEF PoolPut
  <2>a. thread.on \in Instances /\ Works(thread.on) /\ status[thread.on] # "none"
    BY DEF OnlyWorkers
  <2>b. /\ cache' \in Seq(Instances) /\ OneEach(cache')
        /\ thread.on \in ToSet(cache') /\ ToSet(cache') \subseteq ToSet(cache) \cup {thread.on}
    BY <2>a, PutKeeps
  <2>c. \A j \in ToSet(cache) : Stays(j) => j \in ToSet(cache')
    BY <2>a, PutKeepsStaying
  <2>d. /\ thread' \in {[thread EXCEPT !.pc = "execute"], [pc |-> "idle", on |-> NoInstance]}
        /\ listed' \subseteq listed
        /\ Cached(IdOf(thread.on)) = {} => thread' = [thread EXCEPT !.pc = "execute"]
    OBVIOUS
  <2>1. CacheTypeOK'
    <3>1. thread' \in [pc : {"idle", "contains", "put", "execute", "saving"},
                       on : Instances \cup {NoInstance}]
      <4>1. CASE thread' = [thread EXCEPT !.pc = "execute"]
        BY <4>1
      <4>2. CASE thread' = [pc |-> "idle", on |-> NoInstance]
        BY <4>2
      <4> QED
        BY <2>d, <4>1, <4>2
    <3>2. listed' \in SUBSET Ids
      BY <2>d DEF CacheTypeOK
    <3> QED
      BY <2>b, <3>1, <3>2 DEF CacheTypeOK
  <2>2. Found'
    <3> SUFFICES ASSUME NEW j \in Instances, Stays(j)'
                 PROVE  Sole(j)' /\ (j \in ToSet(cache') \/ Fresh(j)' \/ BeingPut(j)')
      BY DEF Found
    <3>1. Sole(j)' /\ (j \in ToSet(cache) \/ Fresh(j) \/ BeingPut(j))
      BY DEF Found, Stays, Sole
    <3>2. Stays(j) /\ (Fresh(j) => Fresh(j)') /\ (BeingPut(j) => BeingPut(j)')
      BY DEF Stays, Fresh, BeingPut, Saves
    <3> QED
      BY <2>c, <3>1, <3>2
  <2>3. OnlyWorkers'
    <3>1. thread'.pc # "idle" => thread'.on = thread.on
      OBVIOUS
    <3> QED
      BY <2>a, <3>1 DEF OnlyWorkers, Works, Saves
  <2>4. Unborn'
    BY DEF Unborn
  <2>5. CacheOK'
    BY <2>a, <2>b DEF CacheOK
  <2>6. ThreadOK'
    <3>1. ASSUME cacheSize \notin RestartSizes, NEW n \in DOMAIN cache',
                 cache'[n] = Created(IdOf(cache'[n])), status[cache'[n]] = "READY"
          PROVE  thread'.pc = "execute" /\ thread'.on = cache'[n]
      <4>1. cache'[n] \in ToSet(cache')
        BY DEF ToSet
      <4>2. cache'[n] \notin ToSet(cache)
        BY <3>1 DEF ThreadOK, ToSet
      <4>3. cache'[n] = thread.on
        BY <2>b, <4>1, <4>2
      <4>4. Cached(IdOf(thread.on)) = {}
        <5>1. Sole(thread.on)
          BY <2>a, <3>1, <4>3 DEF Found, Stays
        <5>2. \A j \in ToSet(cache) : j \in Instances /\ status[j] # "none"
          BY DEF CacheOK, ToSet
        <5> QED
          BY <4>2, <4>3, <5>1, <5>2 DEF Cached, Sole
      <4> QED
        BY <2>d, <4>3, <4>4
    <3>2. ASSUME cacheSize \in RestartSizes
          PROVE  \A j \in ToSet(cache) : j \in ToSet(cache')
      BY <2>c, <3>2 DEF Stays, CacheOK
    <3>3. thread' = [thread EXCEPT !.pc = "execute"] \/ thread'.pc = "idle"
      BY <2>d
    <3> QED
      BY <2>b, <3>1, <3>2, <3>3 DEF ThreadOK
  <2>7. PagesOK'
    <3>1. ASSUME cacheSize \in RestartSizes
          PROVE  \A j \in ToSet(cache) : j \in ToSet(cache')
      BY <2>c, <3>1 DEF Stays, CacheOK
    <3> QED
      BY <3>1 DEF PagesOK, PageInside
  <2> QED
    BY <2>1, <2>2, <2>3, <2>4, <2>5, <2>6, <2>7 DEF CacheInv
<1>5. ASSUME PoolExecute
      PROVE  CacheInv'
  <2> USE <1>5 DEF PoolExecute
  <2>a. thread.on \in Instances /\ Works(thread.on) /\ status[thread.on] # "none"
    BY DEF OnlyWorkers
  <2>1. CacheTypeOK'
    BY DEF CacheTypeOK, States, Saving, Savers
  <2>2. Found'
    <3> SUFFICES ASSUME NEW j \in Instances, Stays(j)'
                 PROVE  Sole(j)' /\ (j \in ToSet(cache') \/ Fresh(j)' \/ BeingPut(j)')
      BY DEF Found
    <3>1. Stays(j) /\ Sole(j) /\ (j \in ToSet(cache) \/ Fresh(j) \/ BeingPut(j))
      BY <2>a DEF Stays, Works, Found
    <3>2. Sole(j)'
      BY <2>a, <3>1 DEF Sole
    <3>3. CASE j = thread.on /\ status[j] = "READY"
      BY <3>2, <3>3 DEF ThreadOK
    <3>4. CASE j = thread.on /\ status[j] # "READY"
      BY <3>1, <3>2, <3>4 DEF Fresh, BeingPut
    <3>5. CASE j # thread.on
      BY <3>1, <3>2, <3>5 DEF Fresh, BeingPut, Saves
    <3> QED
      BY <3>3, <3>4, <3>5
  <2>3. OnlyWorkers'
    BY DEF OnlyWorkers, Works, Saves
  <2>4. Unborn'
    BY DEF Unborn
  <2>5. CacheOK'
    BY <2>a DEF CacheOK, ToSet
  <2>6. ThreadOK'
    BY DEF ThreadOK
  <2>7. PagesOK'
    BY DEF PagesOK, PageInside, Cached
  <2> QED
    BY <2>1, <2>2, <2>3, <2>4, <2>5, <2>6, <2>7 DEF CacheInv
<1>6. ASSUME PoolSaved
      PROVE  CacheInv'
  <2> USE <1>6 DEF PoolSaved
  <2>1. CacheTypeOK'
    BY DEF CacheTypeOK, States, Saving, Savers
  <2>2. Found'
    BY DEF Found, Stays, Sole, Fresh, Saves, BeingPut
  <2>3. OnlyWorkers'
    BY DEF OnlyWorkers, Works, Saves
  <2>4. Unborn'
    BY DEF Unborn
  <2>5. CacheOK'
    BY DEF CacheOK
  <2>6. ThreadOK'
    BY DEF ThreadOK
  <2>7. PagesOK'
    BY DEF PagesOK, PageInside, Cached
  <2> QED
    BY <2>1, <2>2, <2>3, <2>4, <2>5, <2>6, <2>7 DEF CacheInv
<1>7. ASSUME NEW i \in Instances, Progress(i)
      PROVE  CacheInv'
  <2> USE <1>7 DEF Progress
  <2>1. CacheTypeOK'
    BY DEF CacheTypeOK, States, Saving, Savers
  <2>2. Found'
    BY DEF Found, Stays, Sole, Fresh, Saves, BeingPut
  <2>3. OnlyWorkers'
    BY DEF OnlyWorkers, Works, Saves
  <2>4. Unborn'
    BY DEF Unborn
  <2>5. CacheOK'
    BY DEF CacheOK
  <2>6. ThreadOK'
    BY DEF ThreadOK
  <2>7. PagesOK'
    BY DEF PagesOK, PageInside, Cached
  <2> QED
    BY <2>1, <2>2, <2>3, <2>4, <2>5, <2>6, <2>7 DEF CacheInv
<1>8. ASSUME NEW i \in Instances, Ends(i)
      PROVE  CacheInv'
  <2> USE <1>8 DEF Ends
  <2>1. CacheTypeOK'
    BY DEF CacheTypeOK, States, Saving, Savers
  <2>2. Found'
    BY DEF Found, Stays, Sole, Fresh, Saves, BeingPut
  <2>3. OnlyWorkers'
    BY DEF OnlyWorkers, Works, Saves
  <2>4. Unborn'
    BY DEF Unborn
  <2>5. CacheOK'
    BY DEF CacheOK
  <2>6. ThreadOK'
    BY DEF ThreadOK
  <2>7. PagesOK'
    BY DEF PagesOK, PageInside, Cached
  <2> QED
    BY <2>1, <2>2, <2>3, <2>4, <2>5, <2>6, <2>7 DEF CacheInv
<1>9. ASSUME NEW i \in Instances, NEW s \in Savers, SaveSerialize(i, s)
      PROVE  CacheInv'
  <2> USE <1>9 DEF SaveSerialize
  <2>1. CacheTypeOK'
    BY DEF CacheTypeOK, States, Saving, Savers
  <2>2. Found'
    BY DEF Found, Stays, Sole, Fresh, Saves, BeingPut
  <2>3. OnlyWorkers'
    BY DEF OnlyWorkers, Works, Saves
  <2>4. Unborn'
    BY DEF Unborn
  <2>5. CacheOK'
    BY DEF CacheOK
  <2>6. ThreadOK'
    BY DEF ThreadOK
  <2>7. PagesOK'
    BY DEF PagesOK, PageInside, Cached
  <2> QED
    BY <2>1, <2>2, <2>3, <2>4, <2>5, <2>6, <2>7 DEF CacheInv
<1>10. ASSUME NEW i \in Instances, NEW s \in Savers, SaveOpen(i, s)
      PROVE  CacheInv'
  <2> USE <1>10 DEF SaveOpen
  <2>a. Saves(i) /\ status[i] # "none" /\ save[i][s].text \in States
    BY DEF OnlyWorkers, Saves
  <2>1. CacheTypeOK'
    BY <2>a DEF CacheTypeOK, States, Saving, Savers
  <2>2. Found'
    <3> SUFFICES ASSUME NEW j \in Instances, Stays(j)'
                 PROVE  Sole(j)' /\ (j \in ToSet(cache') \/ Fresh(j)' \/ BeingPut(j)')
      BY DEF Found
    <3>1. Stays(j) /\ Sole(j) /\ (j \in ToSet(cache) \/ Fresh(j) \/ BeingPut(j))
      BY DEF Stays, Found
    <3>2. Fresh(j) => IdOf(j) # IdOf(i)
      BY <2>a, <3>1 DEF Sole, Fresh
    <3>3. Fresh(j) => Fresh(j)'
      BY <3>2 DEF Fresh, Saves
    <3> QED
      BY <3>1, <3>3 DEF Sole, BeingPut
  <2>3. OnlyWorkers'
    BY DEF OnlyWorkers, Works, Saves
  <2>4. Unborn'
    BY <2>a DEF Unborn
  <2>5. CacheOK'
    BY DEF CacheOK
  <2>6. ThreadOK'
    BY DEF ThreadOK
  <2>7. PagesOK'
    BY DEF PagesOK, PageInside, Cached
  <2> QED
    BY <2>1, <2>2, <2>3, <2>4, <2>5, <2>6, <2>7 DEF CacheInv
<1>11. ASSUME NEW i \in Instances, NEW s \in Savers, SaveWrite(i, s)
      PROVE  CacheInv'
  <2> USE <1>11 DEF SaveWrite
  <2>a. Saves(i) /\ status[i] # "none" /\ save[i][s].text \in States
    BY DEF OnlyWorkers, Saves
  <2>1. CacheTypeOK'
    BY <2>a DEF CacheTypeOK, States, Saving, Savers
  <2>2. Found'
    <3> SUFFICES ASSUME NEW j \in Instances, Stays(j)'
                 PROVE  Sole(j)' /\ (j \in ToSet(cache') \/ Fresh(j)' \/ BeingPut(j)')
      BY DEF Found
    <3>1. Stays(j) /\ Sole(j) /\ (j \in ToSet(cache) \/ Fresh(j) \/ BeingPut(j))
      BY DEF Stays, Found
    <3>2. Fresh(j) => IdOf(j) # IdOf(i)
      BY <2>a, <3>1 DEF Sole, Fresh
    <3>3. Fresh(j) => Fresh(j)'
      BY <3>2 DEF Fresh, Saves
    <3> QED
      BY <3>1, <3>3 DEF Sole, BeingPut
  <2>3. OnlyWorkers'
    BY DEF OnlyWorkers, Works, Saves
  <2>4. Unborn'
    BY <2>a DEF Unborn
  <2>5. CacheOK'
    BY DEF CacheOK
  <2>6. ThreadOK'
    BY DEF ThreadOK
  <2>7. PagesOK'
    BY DEF PagesOK, PageInside, Cached
  <2> QED
    BY <2>1, <2>2, <2>3, <2>4, <2>5, <2>6, <2>7 DEF CacheInv
<1>12. ASSUME NEW p \in Pages, NEW e \in Ids, PageLoad(p, e)
      PROVE  CacheInv'
  <2> USE <1>12 DEF PageLoad
  <2>a. /\ cache' \in Seq(Instances) /\ OneEach(cache') /\ ToSet(cache') = ToSet(cache)
        /\ \/ Cached(e) = {} /\ page' = [page EXCEPT ![p] = [pc |-> "miss", on |-> Instance(e, p)]]
           \/ \E i \in Instances \cap ToSet(cache) :
                page' = [page EXCEPT ![p] = [pc |-> "got", on |-> i]]
    <3>1. CASE Cached(e) = {}
      BY <3>1 DEF CacheOK
    <3>2. CASE Cached(e) # {}
      <4>1. cache' = Append(RemoveAt(cache, Place(e)), cache[Place(e)])
        BY <3>2
      <4>2. page' = [page EXCEPT ![p] = [pc |-> "got", on |-> cache[Place(e)]]]
        BY <3>2
      <4>3. /\ cache' \in Seq(Instances) /\ OneEach(cache') /\ ToSet(cache') = ToSet(cache)
            /\ cache[Place(e)] \in Instances /\ cache[Place(e)] \in ToSet(cache)
        BY <3>2, <4>1, GetKeeps DEF CacheOK
      <4> QED
        BY <4>2, <4>3
    <3> QED
      BY <3>1, <3>2
  <2>b. \A q \in Pages : ~PageInside(q)
    BY DEF Alone
  <2>1. CacheTypeOK'
    <3>1. page' \in [Pages -> [pc : {"new", "miss", "put", "got", "reset", "done", "failed"},
                              on : Instances \cup {NoInstance}]]
      BY <2>a
    <3> QED
      BY <2>a, <3>1 DEF CacheTypeOK
  <2>2. Found'
    <3> SUFFICES ASSUME NEW j \in Instances, Stays(j)'
                 PROVE  Sole(j)' /\ (j \in ToSet(cache') \/ Fresh(j)' \/ BeingPut(j)')
      BY DEF Found
    <3>1. Stays(j) /\ Sole(j) /\ (j \in ToSet(cache) \/ Fresh(j) \/ BeingPut(j))
      BY DEF Stays, Found
    <3> QED
      BY <2>a, <2>b, <3>1 DEF Sole, Fresh, Saves, BeingPut, PageInside
  <2>3. OnlyWorkers'
    BY DEF OnlyWorkers, Works, Saves
  <2>4. Unborn'
    BY DEF Unborn
  <2>5. CacheOK'
    BY <2>a DEF CacheOK
  <2>6. ThreadOK'
    <3>1. ASSUME NEW n \in DOMAIN cache'
          PROVE  \E m \in DOMAIN cache : cache[m] = cache'[n]
      <4>1. cache'[n] \in ToSet(cache')
        BY DEF ToSet
      <4>2. cache'[n] \in ToSet(cache)
        BY <2>a, <4>1
      <4> QED
        BY <4>2 DEF ToSet
    <3> QED
      BY <2>a, <3>1 DEF ThreadOK
  <2>7. PagesOK'
    <3>1. \A d \in Ids : Cached(d)' = Cached(d)
      BY <2>a DEF Cached
    <3>2. page[p].pc = "new" /\ thread.pc \in {"idle", "saving"} /\ (\A i \in ToSet(cache) : status[i] # "none")
      BY DEF CacheOK
    <3>3. CASE Cached(e) = {} /\ page' = [page EXCEPT ![p] = [pc |-> "miss", on |-> Instance(e, p)]]
      BY <2>a, <2>b, <3>1, <3>2, <3>3 DEF PagesOK, PageInside
    <3>4. ASSUME NEW i \in Instances \cap ToSet(cache),
                 page' = [page EXCEPT ![p] = [pc |-> "got", on |-> i]]
          PROVE  PagesOK'
      BY <2>a, <2>b, <3>1, <3>2, <3>4 DEF PagesOK, PageInside
    <3> QED
      BY <2>a, <3>3, <3>4
  <2> QED
    BY <2>1, <2>2, <2>3, <2>4, <2>5, <2>6, <2>7 DEF CacheInv
<1>13. ASSUME NEW p \in Pages, PageRead(p)
      PROVE  CacheInv'
  <2> USE <1>13 DEF PageRead
  <2> DEFINE i == page[p].on
  <2>a. /\ i \in Instances /\ i = Instance(IdOf(i), p) /\ status[i] = "none" /\ Cached(IdOf(i)) = {}
        /\ thread.pc \in {"idle", "saving"} /\ \A q \in Pages : PageInside(q) => q = p
    <3>1. PageInside(p)
      BY DEF PageInside
    <3>2. i \in Instances /\ i = Instance(IdOf(i), p)
      BY <3>1 DEF PagesOK
    <3>3. thread.pc \in {"idle", "saving"} /\ Cached(IdOf(i)) = {}
      BY <3>1 DEF PagesOK
    <3>4. \A q \in Pages : PageInside(q) => q = p
      BY <3>1 DEF PagesOK
    <3>5. status[i] = "none"
      BY <3>2 DEF PagesOK
    <3> QED
      BY <3>2, <3>3, <3>4, <3>5
  <2>b. ASSUME disk[IdOf(i)] \notin {"none", "empty"}, NEW j \in Instances, Stays(j)
        PROVE  IdOf(j) # IdOf(i)
    <3>1. j \in ToSet(cache) \/ Fresh(j) \/ BeingPut(j)
      BY <2>b DEF Found
    <3> QED
      BY <2>a, <2>b, <3>1 DEF Cached, Fresh, BeingPut, PageInside
  <2>c. CASE disk[IdOf(i)] \in {"none", "empty"}
    <3>1. page' = [page EXCEPT ![p] = [pc |-> "failed", on |-> NoInstance]] /\ status' = status
      BY <2>c
    <3>2. CacheTypeOK'
      BY <3>1 DEF CacheTypeOK
    <3>3. Found' /\ OnlyWorkers' /\ Unborn'
      BY <3>1 DEF Found, Stays, Sole, Fresh, Saves, BeingPut, OnlyWorkers, Works, Unborn
    <3>4. CacheOK' /\ ThreadOK' /\ PagesOK'
      BY <3>1 DEF CacheOK, ThreadOK, PagesOK, PageInside, Cached
    <3> QED
      BY <3>2, <3>3, <3>4 DEF CacheInv
  <2> SUFFICES ASSUME disk[IdOf(i)] \notin {"none", "empty"}
               PROVE  CacheInv'
    BY <2>c
  <2>d. /\ page' = [page EXCEPT ![p] = [pc |-> "put", on |-> i]]
        /\ status' = [status EXCEPT ![i] = Loaded(disk[IdOf(i)])]
        /\ Loaded(disk[IdOf(i)]) \in {"READY", "ENDED"}
    BY DEF Loaded
  <2>e. /\ status'[i] \in {"READY", "ENDED"}
        /\ \A j \in Instances : j # i => status'[j] = status[j]
    BY <2>a, <2>d
  <2> HIDE DEF i
  <2>1. CacheTypeOK'
    BY <2>a, <2>d DEF CacheTypeOK, States, i
  <2>2. Found'
    <3> SUFFICES ASSUME NEW j \in Instances, Stays(j)'
                 PROVE  Sole(j)' /\ (j \in ToSet(cache') \/ Fresh(j)' \/ BeingPut(j)')
      BY DEF Found
    <3>1. CASE j # i
      <4>1. Stays(j)
        BY <2>e, <3>1 DEF Stays
      <4>2. IdOf(j) # IdOf(i) /\ Sole(j) /\ (j \in ToSet(cache) \/ Fresh(j) \/ BeingPut(j))
        BY <2>b, <4>1 DEF Found
      <4>3. Sole(j)'
        BY <2>e, <4>2 DEF Sole
      <4>4. BeingPut(j) => BeingPut(j)'
        BY <2>d DEF BeingPut, i
      <4> QED
        BY <2>e, <3>1, <4>2, <4>3, <4>4 DEF Fresh, Saves
    <3>2. CASE j = i
      <4>1. cacheSize \in RestartSizes
        BY <2>a, <3>2 DEF Stays
      <4>2. \A k \in Instances : IdOf(k) = IdOf(i) => status[k] = "none"
        BY <2>b, <4>1 DEF Stays
      <4>3. Sole(j)'
        BY <2>e, <3>2, <4>2 DEF Sole
      <4>4. BeingPut(j)'
        BY <2>d, <3>2 DEF BeingPut
      <4> QED
        BY <4>3, <4>4
    <3> QED
      BY <3>1, <3>2
  <2>3. OnlyWorkers'
    BY <2>a, <2>e DEF OnlyWorkers, Works, Saves
  <2>4. Unborn'
    BY <2>a, <2>e DEF Unborn
  <2>5. CacheOK'
    <3>1. \A j \in ToSet(cache) : j \in Instances /\ j # i
      BY <2>a DEF CacheOK, ToSet
    <3> QED
      BY <2>e, <3>1 DEF CacheOK
  <2>6. ThreadOK'
    <3>1. \A n \in DOMAIN cache : cache[n] \in Instances /\ cache[n] # i
      BY <2>a DEF CacheOK, ToSet
    <3>2. thread.pc # "execute"
      BY <2>a
    <3> QED
      BY <2>e, <3>1, <3>2 DEF ThreadOK
  <2>7. PagesOK'
    <3>1. \A d \in Ids : Cached(d)' = Cached(d)
      BY DEF Cached
    <3>2. page[p].pc = "miss"
      OBVIOUS
    <3>3. ASSUME NEW q \in Pages, q # p
          PROVE  page'[q] = page[q] /\ ~PageInside(q)
      BY <2>a, <2>d, <3>3
    <3>4. page'[p] = [pc |-> "put", on |-> i]
      BY <2>d
    <3>5. ASSUME NEW q \in Pages, q # p, page'[q].pc \in {"new", "miss"}, NEW e \in Ids
          PROVE  status'[Instance(e, q)] = "none"
      BY <2>a, <2>e, <3>3, <3>5 DEF PagesOK
    <3> QED
      BY <2>a, <2>e, <3>1, <3>3, <3>4, <3>5 DEF PagesOK, PageInside
  <2> QED
    BY <2>1, <2>2, <2>3, <2>4, <2>5, <2>6, <2>7 DEF CacheInv
<1>14. ASSUME NEW p \in Pages, PagePut(p)
      PROVE  CacheInv'
  <2> USE <1>14 DEF PagePut
  <2> DEFINE i == page[p].on
  <2>a. /\ i \in Instances /\ i = Instance(IdOf(i), p) /\ status[i] # "none" /\ Cached(IdOf(i)) = {}
        /\ thread.pc \in {"idle", "saving"} /\ \A q \in Pages : PageInside(q) => q = p
    <3>1. PageInside(p)
      BY DEF PageInside
    <3>2. i \in Instances /\ i = Instance(IdOf(i), p)
      BY <3>1 DEF PagesOK
    <3>3. thread.pc \in {"idle", "saving"} /\ Cached(IdOf(i)) = {}
      BY <3>1 DEF PagesOK
    <3>4. \A q \in Pages : PageInside(q) => q = p
      BY <3>1 DEF PagesOK
    <3>5. status[i] # "none"
      BY <3>2 DEF PagesOK
    <3> QED
      BY <3>2, <3>3, <3>4, <3>5
  <2>b. /\ cache' \in Seq(Instances) /\ OneEach(cache')
        /\ i \in ToSet(cache') /\ ToSet(cache') \subseteq ToSet(cache) \cup {i}
    BY <2>a, PutKeeps
  <2>c. \A j \in ToSet(cache) : Stays(j) => j \in ToSet(cache')
    BY <2>a, PutKeepsStaying
  <2>d. page' = [page EXCEPT ![p] = [pc |-> "got", on |-> i]]
    BY <2>a
  <2>1. CacheTypeOK'
    BY <2>a, <2>b, <2>d DEF CacheTypeOK
  <2>2. Found'
    <3> SUFFICES ASSUME NEW j \in Instances, Stays(j)'
                 PROVE  Sole(j)' /\ (j \in ToSet(cache') \/ Fresh(j)' \/ BeingPut(j)')
      BY DEF Found
    <3>1. Sole(j)' /\ (j \in ToSet(cache) \/ Fresh(j) \/ BeingPut(j)) /\ Stays(j)
      BY DEF Found, Stays, Sole
    <3>2. Fresh(j) => Fresh(j)'
      BY DEF Fresh, Saves
    <3>3. BeingPut(j) => j = i
      BY <2>a DEF BeingPut, PageInside
    <3> QED
      BY <2>b, <2>c, <3>1, <3>2, <3>3
  <2>3. OnlyWorkers'
    BY DEF OnlyWorkers, Works, Saves
  <2>4. Unborn'
    BY DEF Unborn
  <2>5. CacheOK'
    BY <2>a, <2>b DEF CacheOK
  <2>6. ThreadOK'
    <3>1. ASSUME cacheSize \notin RestartSizes, NEW n \in DOMAIN cache',
                 cache'[n] = Created(IdOf(cache'[n])), status[cache'[n]] = "READY"
          PROVE  FALSE
      <4>1. cache'[n] \in ToSet(cache')
        BY DEF ToSet
      <4>2. i # Created(IdOf(i))
        BY <2>a
      <4>3. cache'[n] \in ToSet(cache)
        BY <2>b, <3>1, <4>1, <4>2
      <4> QED
        BY <2>a, <3>1, <4>3 DEF ThreadOK, ToSet
    <3>2. ASSUME cacheSize \in RestartSizes
          PROVE  \A j \in ToSet(cache) : j \in ToSet(cache')
      BY <2>c, <3>2 DEF Stays, CacheOK
    <3> QED
      BY <2>a, <2>b, <3>1, <3>2 DEF ThreadOK
  <2>7. PagesOK'
    <3>1. ASSUME cacheSize \in RestartSizes
          PROVE  \A j \in ToSet(cache) : j \in ToSet(cache')
      BY <2>c, <3>1 DEF Stays, CacheOK
    <3> QED
      BY <2>a, <2>b, <2>d, <3>1 DEF PagesOK, PageInside
  <2> QED
    BY <2>1, <2>2, <2>3, <2>4, <2>5, <2>6, <2>7 DEF CacheInv
<1>15. ASSUME NEW p \in Pages, PageShow(p)
      PROVE  CacheInv'
  <2> USE <1>15 DEF PageShow
  <2>1. CacheTypeOK'
    BY DEF CacheTypeOK, States, Saving, Savers
  <2>2. Found'
    BY DEF Found, Stays, Sole, Fresh, Saves, BeingPut
  <2>3. OnlyWorkers'
    BY DEF OnlyWorkers, Works, Saves
  <2>4. Unborn'
    BY DEF Unborn
  <2>5. CacheOK'
    BY DEF CacheOK
  <2>6. ThreadOK'
    BY DEF ThreadOK
  <2>7. PagesOK'
    BY DEF PagesOK, PageInside, Cached
  <2> QED
    BY <2>1, <2>2, <2>3, <2>4, <2>5, <2>6, <2>7 DEF CacheInv
<1>16. ASSUME NEW p \in Pages, PageReset(p)
      PROVE  CacheInv'
  <2> USE <1>16 DEF PageReset
  <2> DEFINE i == page[p].on
  <2>a. i \in Instances /\ status[i] # "none" /\ i \in ToSet(cache)
    BY DEF PagesOK
  <2>b. \A j \in Instances :
          /\ status'[j] # "none" <=> status[j] # "none"
          /\ status'[j] = status[j] \/ (j = i /\ status[j] = "ENDED" /\ status'[j] = "READY")
    BY <2>a
  <2>1. CacheTypeOK'
    BY DEF CacheTypeOK, States, Saving, Savers
  <2>2. Found'
    <3> SUFFICES ASSUME NEW j \in Instances, Stays(j)'
                 PROVE  Sole(j)' /\ (j \in ToSet(cache') \/ Fresh(j)' \/ BeingPut(j)')
      BY DEF Found
    <3>1. Stays(j) /\ Sole(j) /\ (j \in ToSet(cache) \/ Fresh(j) \/ BeingPut(j))
      BY <2>a DEF Stays, Found
    <3>2. Sole(j)'
      BY <2>a, <3>1 DEF Sole
    <3> QED
      BY <2>a, <3>1, <3>2 DEF Fresh, Saves, BeingPut
  <2>3. OnlyWorkers'
    <3>1. \A j \in Instances : status'[j] = "RUNNING" <=> status[j] = "RUNNING"
      BY <2>b
    <3> QED
      BY <2>b, <3>1 DEF OnlyWorkers, Works, Saves
  <2>4. Unborn'
    BY DEF Unborn
  <2>5. CacheOK'
    BY <2>b DEF CacheOK, ToSet
  <2>6. ThreadOK'
    <3>1. thread.pc = "execute" => thread.on \in Instances
      BY DEF OnlyWorkers
    <3>2. thread.pc = "execute" /\ status'[thread.on] = "READY" => thread.on \in ToSet(cache)
      BY <2>a, <2>b, <3>1 DEF ThreadOK
    <3> QED
      BY <3>2 DEF ThreadOK
  <2>7. PagesOK'
    BY DEF PagesOK, PageInside, Cached
  <2> QED
    BY <2>1, <2>2, <2>3, <2>4, <2>5, <2>6, <2>7 DEF CacheInv
<1>17. ASSUME NEW p \in Pages, PageSubmit(p)
      PROVE  CacheInv'
  <2> USE <1>17 DEF PageSubmit
  <2> DEFINE i == page[p].on
  <2>a. i \in Instances /\ status[i] # "none" /\ cacheSize \in RestartSizes /\ i \in ToSet(cache)
    BY DEF PagesOK
  <2>b. /\ waiting' \in Seq(Instances)
        /\ \A n \in DOMAIN waiting' : waiting'[n] = i \/ (n \in DOMAIN waiting /\ waiting'[n] = waiting[n])
    BY <2>a, AppendProperties
  <2>1. CacheTypeOK'
    BY <2>b DEF CacheTypeOK
  <2>2. Found'
    BY DEF Found, Stays, Sole, Fresh, Saves, BeingPut
  <2>3. OnlyWorkers'
    BY <2>a, <2>b DEF OnlyWorkers, Works, Saves
  <2>4. Unborn'
    BY DEF Unborn
  <2>5. CacheOK'
    BY DEF CacheOK
  <2>6. ThreadOK'
    BY <2>a, <2>b DEF ThreadOK
  <2>7. PagesOK'
    BY DEF PagesOK, PageInside, Cached
  <2> QED
    BY <2>1, <2>2, <2>3, <2>4, <2>5, <2>6, <2>7 DEF CacheInv
<1>18. ASSUME Crash
      PROVE  CacheInv'
  <2> USE <1>18 DEF Crash
  <2>a. cache' \in Seq(Instances) /\ waiting' \in Seq(Instances) /\ ToSet(cache') = {}
        /\ DOMAIN cache' = {} /\ DOMAIN waiting' = {}
    BY DEF ToSet
  <2>1. CacheTypeOK'
    BY <2>a, CacheConstants DEF CacheTypeOK, States, Saving, Savers
  <2>2. Found'
    BY DEF Found, Stays, Sole, Fresh, Saves, BeingPut
  <2>3. OnlyWorkers'
    BY DEF OnlyWorkers, Works, Saves
  <2>4. Unborn'
    BY DEF Unborn
  <2>5. CacheOK'
    BY <2>a DEF CacheOK, OneEach
  <2>6. ThreadOK'
    BY DEF ThreadOK
  <2>7. PagesOK'
    BY DEF PagesOK, PageInside, Cached
  <2> QED
    BY <2>1, <2>2, <2>3, <2>4, <2>5, <2>6, <2>7 DEF CacheInv
<1>19. CASE UNCHANGED cacheVars
  BY <1>19 DEF cacheVars, CacheInv, CacheTypeOK, Found, Stays, Sole, Fresh, Saves, BeingPut, OnlyWorkers, Works, Unborn, CacheOK, ThreadOK, PagesOK, PageInside, Cached
<1> QED
  BY <1>1, <1>2, <1>3, <1>4, <1>5, <1>6, <1>7, <1>8, <1>9, <1>10, <1>11, <1>12, <1>13, <1>14, <1>15, <1>16, <1>17, <1>18, <1>19 DEF CacheNext, CacheStep

-----------------------------------------------------------------------------
(* Of the instances that may run or save only one of an execution is in     *)
(* memory.                                                                  *)
LEMMA OneWorker ==
  ASSUME CacheInv, NEW i \in Instances, NEW j \in Instances, IdOf(i) = IdOf(j),
         Works(i), Works(j), status[i] # "none", status[j] # "none"
  PROVE  i = j
<1>1. CASE cacheSize \in RestartSizes
  BY <1>1 DEF CacheInv, Found, Stays, Sole
<1>2. CASE cacheSize \notin RestartSizes
  BY <1>2 DEF Works
<1> QED
  BY <1>1, <1>2

(* Saves do not overlap: each is serialized when the one before is written. *)
LEMMA FileStepInv ==
  ASSUME CacheInv, FileInv, RoomForAll, ~SavesRace, [CacheNext]_cacheVars
  PROVE  FileInv'
<1>0. cacheSize' = cacheSize
  BY DEF CacheNext, cacheVars
<1>a. OnlyWorkers /\ PagesOK /\ OneSave /\ Carried /\ EndComes /\ ~SavesRace /\ ~PagesRace
  BY DEF CacheInv, FileInv, RoomForAll
<1>t. /\ status \in [Instances -> States \cup {"none"}]
      /\ disk \in [Ids -> States \cup {"none", "empty"}]
      /\ thread \in [pc : {"idle", "contains", "put", "execute", "saving"},
                     on : Instances \cup {NoInstance}]
      /\ save \in [Instances -> [Savers -> [pc : Saving \cup {"idle"},
                                           text : States \cup {"none", "done"}]]]
      /\ page \in [Pages -> [pc : {"new", "miss", "put", "got", "reset", "done", "failed"},
                             on : Instances \cup {NoInstance}]]
      /\ last \in [Ids -> States \cup {"none", "lost"}]
  BY DEF CacheInv, CacheTypeOK
<1>s. "pool" \in Savers /\ "progress" \in Savers /\ "final" \in Savers
  BY DEF Savers
<1> USE InstanceFacts, <1>0, <1>a, <1>t, <1>s
<1> USE DEF SaveIsDue, IdleSave, SetPage
<1>1. ASSUME UNCHANGED <<status, save, last, disk>>
      PROVE  FileInv'
  BY <1>1 DEF FileInv, OneSave, Carried, EndComes, Brought, InFlight, Works
<1>b. ASSUME UNCHANGED <<save, disk>>
      PROVE  OneSave' /\ \A e : Brought(e)' = Brought(e)
  BY <1>b DEF OneSave, Brought, InFlight
<1>c. ASSUME NEW e, disk'[e] = disk[e], Brought(e),
             \A i \in Instances, s \in Savers : IdOf(i) = e => save'[i][s] = save[i][s]
      PROVE  Brought(e)'
  <2>1. \A i \in Instances, s \in Savers : IdOf(i) = e => InFlight(i, s)' = InFlight(i, s)
    BY <1>c DEF InFlight
  <2>2. \A i \in Instances, s \in Savers : IdOf(i) = e =>
          save'[i][s].pc = save[i][s].pc /\ save'[i][s].text = save[i][s].text
    BY <1>c
  <2>3. ASSUME NEW i \in Instances, NEW s \in Savers, IdOf(i) = e, save[i][s].pc = "due"
        PROVE  Brought(e)'
    <3>1. save'[i][s].pc = "due"
      BY <2>2, <2>3
    <3> QED
      BY <2>3, <3>1 DEF Brought
  <2>4. ASSUME NEW i \in Instances, NEW s \in Savers, IdOf(i) = e, InFlight(i, s),
               save[i][s].text = "ENDED"
        PROVE  Brought(e)'
    <3>1. InFlight(i, s)' /\ save'[i][s].text = "ENDED"
      BY <2>1, <2>2, <2>4
    <3> QED
      BY <2>4, <3>1 DEF Brought
  <2>5. ASSUME disk[e] = "ENDED", \A i \in Instances, s \in Savers : IdOf(i) = e => ~InFlight(i, s)
        PROVE  Brought(e)'
    <3>1. disk'[e] = "ENDED" /\ \A i \in Instances, s \in Savers : IdOf(i) = e => ~InFlight(i, s)'
      BY <1>c, <2>1, <2>5
    <3> QED
      BY <3>1 DEF Brought
  <2> QED
    BY <1>c, <2>3, <2>4, <2>5 DEF Brought
(* A save that becomes due leaves the others alone.                         *)
<1>2. ASSUME NEW i \in Instances, NEW s \in Savers, save[i][s].pc = "idle",
             SaveIsDue(i, s), disk' = disk
      PROVE  OneSave' /\ Brought(IdOf(i))' /\ \A e \in Ids : Brought(e) => Brought(e)'
  <2>1. save'[i][s] = [pc |-> "due", text |-> "none"]
    BY <1>2
  <2>2. \A j \in Instances, r \in Savers : ~(j = i /\ r = s) => save'[j][r] = save[j][r]
    BY <1>2
  <2>3. \A j \in Instances, r \in Savers :
          /\ InFlight(j, r)' = InFlight(j, r)
          /\ InFlight(j, r) => save'[j][r] = save[j][r]
          /\ save[j][r].pc = "due" => save'[j][r].pc = "due"
    BY <1>2, <2>1, <2>2 DEF InFlight
  <2>4. OneSave'
    BY <2>3 DEF OneSave
  <2>5. Brought(IdOf(i))'
    BY <2>1 DEF Brought
  <2>6. \A e \in Ids : Brought(e) => Brought(e)'
    BY <1>2, <2>3 DEF Brought
  <2> QED
    BY <2>4, <2>5, <2>6
<1>3. ASSUME NEW e \in Ids, CreateExecution(e)
      PROVE  FileInv'
  <2>1. \A i \in Instances : i # Created(e) => status'[i] = status[i]
    BY <1>3 DEF CreateExecution
  <2>2. OneSave' /\ EndComes'
    BY <1>3, <1>b DEF CreateExecution, EndComes
  <2>3. Carried'
    BY <1>3, <2>1 DEF CreateExecution, Carried, Works
  <2> QED
    BY <2>2, <2>3 DEF FileInv
<1>4. ASSUME PoolExecute
      PROVE  FileInv'
  <2> DEFINE i == thread.on
  <2>1. i \in Instances /\ Works(i) /\ status[i] # "none"
    BY <1>4 DEF PoolExecute, OnlyWorkers
  <2>2. OneSave' /\ \A e \in Ids : Brought(e) => Brought(e)'
    BY <1>4, <1>2, <2>1 DEF PoolExecute
  <2>3. CASE status[i] # "READY"
    BY <1>4, <2>2, <2>3 DEF PoolExecute, FileInv, Carried, EndComes, Works
  <2>4. CASE status[i] = "READY"
    <3>1. /\ status' = [status EXCEPT ![i] = "RUNNING"]
          /\ last' = [last EXCEPT ![IdOf(i)] = "RUNNING"]
      BY <1>4, <2>4 DEF PoolExecute
    <3> HIDE DEF i
    <3>2. EndComes'
      BY <2>1, <2>2, <3>1 DEF EndComes
    <3>3. Carried'
      BY <2>1, <3>1 DEF Carried, Works
    <3> QED
      BY <2>2, <3>2, <3>3 DEF FileInv
  <2> QED
    BY <2>3, <2>4
<1>5. ASSUME NEW i \in Instances, Progress(i)
      PROVE  FileInv'
  <2>1. OneSave' /\ \A e \in Ids : Brought(e) => Brought(e)'
    BY <1>5, <1>2 DEF Progress
  <2> QED
    BY <1>5, <2>1 DEF Progress, FileInv, Carried, EndComes, Works
<1>6. ASSUME NEW i \in Instances, Ends(i)
      PROVE  FileInv'
  <2>1. OneSave' /\ Brought(IdOf(i))' /\ \A e \in Ids : Brought(e) => Brought(e)'
    BY <1>6, <1>2 DEF Ends
  <2>2. Works(i)
    BY <1>6 DEF Ends, OnlyWorkers
  <2>3. /\ status' = [status EXCEPT ![i] = "ENDED"]
        /\ last' = [last EXCEPT ![IdOf(i)] = "ENDED"]
    BY <1>6 DEF Ends
  <2>4. EndComes'
    BY <2>1, <2>3 DEF EndComes
  <2>5. Carried'
    BY <2>2, <2>3 DEF Carried, Works
  <2> QED
    BY <2>1, <2>4, <2>5 DEF FileInv
<1>7. ASSUME NEW i \in Instances, NEW s \in Savers, SaveSerialize(i, s)
      PROVE  FileInv'
  <2>1. /\ \A j \in Instances, r \in Savers : IdOf(j) = IdOf(i) => ~InFlight(j, r)
        /\ save[i][s].pc = "due" /\ status' = status /\ last' = last /\ disk' = disk
        /\ save' = [save EXCEPT ![i][s] = [pc |-> "opening", text |-> status[i]]]
    BY <1>7 DEF SaveSerialize, InFlight
  <2>2. /\ save'[i][s] = [pc |-> "opening", text |-> status[i]]
        /\ \A j \in Instances, r \in Savers : ~(j = i /\ r = s) => save'[j][r] = save[j][r]
    BY <2>1
  <2>3. OneSave'
    BY <2>1, <2>2 DEF OneSave, InFlight
  <2>4. Carried'
    BY <2>1 DEF Carried, Works
  <2>5. ASSUME NEW e \in Ids, last'[e] = "ENDED"
        PROVE  Brought(e)'
    <3>1. CASE e = IdOf(i)
      <4>1. PICK j \in Instances : IdOf(j) = e /\ Works(j) /\ status[j] = "ENDED"
        BY <2>1, <2>5 DEF Carried, States
      <4>2. Works(i) /\ status[i] # "none"
        BY <2>1 DEF OnlyWorkers, Saves
      <4>3. status[i] = "ENDED"
        BY <3>1, <4>1, <4>2, OneWorker
      <4> QED
        BY <2>2, <3>1, <4>3 DEF Brought, InFlight
    <3>2. CASE e # IdOf(i)
      BY <1>c, <2>1, <2>2, <2>5, <3>2 DEF EndComes
    <3> QED
      BY <3>1, <3>2
  <2> QED
    BY <2>3, <2>4, <2>5 DEF FileInv, EndComes
<1>8. ASSUME NEW i \in Instances, NEW s \in Savers, SaveOpen(i, s)
      PROVE  FileInv'
  <2>1. /\ save[i][s].pc = "opening" /\ status' = status /\ last' = last
        /\ save' = [save EXCEPT ![i][s].pc = "writing"]
        /\ disk' = [disk EXCEPT ![IdOf(i)] = "empty"]
    BY <1>8 DEF SaveOpen
  <2>2. /\ save'[i][s].pc = "writing" /\ save'[i][s].text = save[i][s].text
        /\ \A j \in Instances, r \in Savers : ~(j = i /\ r = s) => save'[j][r] = save[j][r]
    BY <2>1
  <2>3. \A j \in Instances, r \in Savers : InFlight(j, r)' = InFlight(j, r)
    BY <2>1, <2>2 DEF InFlight
  <2>4. OneSave'
    BY <2>3 DEF OneSave
  <2>5. Carried'
    BY <2>1 DEF Carried, Works
  <2>6. \A j \in Instances, r \in Savers :
          /\ save'[j][r].text = save[j][r].text
          /\ save[j][r].pc = "due" => save'[j][r].pc = "due"
    BY <2>1, <2>2
  <2>7. InFlight(i, s)
    BY <2>1 DEF InFlight
  <2>8. ASSUME NEW e \in Ids, last'[e] = "ENDED"
        PROVE  Brought(e)'
    <3>1. Brought(e)
      BY <2>1, <2>8 DEF EndComes
    <3>2. CASE e = IdOf(i)
      <4>1. ASSUME NEW j \in Instances, NEW r \in Savers, IdOf(j) = e,
                   save[j][r].pc = "due" \/ (InFlight(j, r) /\ save[j][r].text = "ENDED")
            PROVE  Brought(e)'
        <5>1. save'[j][r].text = save[j][r].text /\ InFlight(j, r)' = InFlight(j, r)
          BY <2>3, <2>6
        <5>2. CASE save[j][r].pc = "due"
          <6>1. save'[j][r].pc = "due"
            BY <2>6, <5>2
          <6> QED
            BY <4>1, <6>1 DEF Brought
        <5>3. CASE InFlight(j, r) /\ save[j][r].text = "ENDED"
          <6>1. InFlight(j, r)' /\ save'[j][r].text = "ENDED"
            BY <5>1, <5>3
          <6> QED
            BY <4>1, <6>1 DEF Brought
        <5> QED
          BY <4>1, <5>2, <5>3
      <4> QED
        BY <2>7, <3>1, <3>2, <4>1 DEF Brought
    <3>3. CASE e # IdOf(i)
      BY <1>c, <2>1, <2>2, <3>1, <3>3
    <3> QED
      BY <3>2, <3>3
  <2> QED
    BY <2>4, <2>5, <2>8 DEF FileInv, EndComes
<1>9. ASSUME NEW i \in Instances, NEW s \in Savers, SaveWrite(i, s)
      PROVE  FileInv'
  <2>1. /\ save[i][s].pc = "writing" /\ status' = status /\ last' = last
        /\ save'[i][s].pc = "idle"
        /\ \A j \in Instances, r \in Savers : ~(j = i /\ r = s) => save'[j][r] = save[j][r]
        /\ disk' = [disk EXCEPT ![IdOf(i)] = save[i][s].text]
    BY <1>9 DEF SaveWrite
  <2>2. \A j \in Instances, r \in Savers :
          /\ InFlight(j, r)' <=> InFlight(j, r) /\ ~(j = i /\ r = s)
          /\ InFlight(j, r) /\ IdOf(j) = IdOf(i) => j = i /\ r = s
          /\ save[j][r].pc = "due" => save'[j][r].pc = "due"
    BY <2>1 DEF InFlight, OneSave
  <2>3. OneSave'
    BY <2>2 DEF OneSave
  <2>4. Carried'
    BY <2>1 DEF Carried, Works
  <2>5. ASSUME NEW e \in Ids, last'[e] = "ENDED"
        PROVE  Brought(e)'
    <3>1. Brought(e)
      BY <2>1, <2>5 DEF EndComes
    <3>2. CASE e = IdOf(i)
      BY <2>1, <2>2, <3>1, <3>2 DEF Brought, InFlight
    <3>3. CASE e # IdOf(i)
      BY <1>c, <2>1, <3>1, <3>3
    <3> QED
      BY <3>2, <3>3
  <2> QED
    BY <2>3, <2>4, <2>5 DEF FileInv, EndComes
<1>10. ASSUME NEW p \in Pages, PageRead(p)
       PROVE  FileInv'
  <2>1. UNCHANGED <<save, last, disk>>
    BY <1>10 DEF PageRead
  <2>2. OneSave' /\ EndComes'
    BY <1>b, <2>1 DEF EndComes
  <2>3. \A j \in Instances : status[j] # "none" => status'[j] = status[j]
    <3>1. page[p].on \in Instances /\ page[p].on = Instance(IdOf(page[p].on), p)
      BY <1>10 DEF PageRead, PagesOK, PageInside
    <3>2. status[page[p].on] = "none"
      BY <1>10, <3>1 DEF PageRead, PagesOK
    <3> QED
      BY <1>10, <3>2 DEF PageRead
  <2>4. ASSUME NEW e \in Ids, last'[e] \in States
        PROVE  \E j \in Instances : IdOf(j) = e /\ Works(j)' /\ status'[j] = last'[e]
    <3>1. PICK j \in Instances : IdOf(j) = e /\ Works(j) /\ status[j] = last[e]
      BY <2>1, <2>4 DEF Carried
    <3>2. status[j] # "none"
      BY <2>1, <2>4, <3>1 DEF States
    <3> QED
      BY <2>1, <2>3, <3>1, <3>2 DEF Works
  <2> QED
    BY <2>2, <2>4 DEF FileInv, Carried
<1>11. ASSUME NEW p \in Pages, PageReset(p)
       PROVE  FileInv'
  <2> DEFINE i == page[p].on
  <2>1. UNCHANGED <<save, disk>> /\ i \in Instances /\ Works(i)
    BY <1>11 DEF PageReset, PagesOK, Works
  <2>2. CASE status[i] # "ENDED"
    BY <1>1, <1>11, <2>1, <2>2 DEF PageReset
  <2>3. CASE status[i] = "ENDED"
    <3>1. /\ status' = [status EXCEPT ![i] = "READY"]
          /\ last' = [last EXCEPT ![IdOf(i)] = "READY"]
      BY <1>11, <2>3 DEF PageReset
    <3> HIDE DEF i
    <3>2. OneSave' /\ EndComes'
      BY <1>b, <2>1, <3>1 DEF EndComes
    <3>3. Carried'
      BY <2>1, <3>1 DEF Carried, Works
    <3> QED
      BY <3>2, <3>3 DEF FileInv
  <2> QED
    BY <2>2, <2>3
<1>12. ASSUME Crash
       PROVE  FileInv'
  BY <1>12 DEF Crash, FileInv, OneSave, Carried, EndComes, InFlight, States
<1> QED
  <2>1. CASE CacheNext
    <3>1. CASE PoolTake \/ PoolContains \/ PoolPut \/ PoolSaved
      BY <1>1, <3>1 DEF PoolTake, PoolContains, PoolPut, PoolSaved
    <3>2. CASE \E p \in Pages, e \in Ids : PageLoad(p, e)
      BY <1>1, <3>2 DEF PageLoad
    <3>3. CASE \E p \in Pages : PagePut(p) \/ PageShow(p) \/ PageSubmit(p)
      BY <1>1, <3>3 DEF PagePut, PageShow, PageSubmit
    <3> QED
      BY <1>3, <1>4, <1>5, <1>6, <1>7, <1>8, <1>9, <1>10, <1>11, <1>12, <2>1, <3>1, <3>2, <3>3
         DEF CacheNext, CacheStep
  <2>2. CASE UNCHANGED cacheVars
    BY <1>1, <2>2 DEF cacheVars
  <2> QED
    BY <2>1, <2>2

-----------------------------------------------------------------------------
(* The invariant of the cache, whatever its size.                           *)
LEMMA CacheInvAlways ==
  ASSUME RoomForAll
  PROVE  CacheSpec => []CacheInv
<1>1. CacheInit => CacheInv
  BY CacheInitInv
<1>2. CacheInv /\ [CacheNext]_cacheVars => CacheInv'
  BY CacheStepInv
<1> QED
  BY <1>1, <1>2, PTL DEF CacheSpec

(* CachingFlowManager: what a page gets of an execution is the instance     *)
(* that runs, and only one runs: if loads do not overlap each other or the  *)
(* start of a flow, and where pages restart executions the cache has room   *)
(* for all; over crashes, evictions and restarts.                           *)
THEOREM OneInstance ==
  ASSUME RoomForAll
  PROVE  CacheSpec => []SameInstance
<1>1. CacheInv => SameInstance
  <2> SUFFICES ASSUME CacheInv PROVE SameInstance
    OBVIOUS
  <2>1. ASSUME NEW i \in Instances, NEW j \in Instances, IdOf(i) = IdOf(j),
               status[i] = "RUNNING", status[j] # "none"
        PROVE  j = i
    <3>1. Stays(i)
      BY <2>1 DEF CacheInv, OnlyWorkers, Stays, Works
    <3> QED
      BY <2>1, <3>1 DEF CacheInv, Found, Sole
  <2> QED
    BY <2>1 DEF SameInstance, OneRuns, CacheInv, PagesOK
<1> QED
  BY <1>1, CacheInvAlways, PTL

(* FlowManager: if saves of one execution do not overlap either, the file   *)
(* of an execution that has ended holds its last state when all threads are *)
(* through with it.                                                         *)
THEOREM EndIsOnDisk ==
  ASSUME RoomForAll, ~SavesRace
  PROVE  CacheSpec => []LastStateSaved
<1>1. CacheInit => FileInv
  BY CacheInitInv
<1>2. CacheInv /\ FileInv /\ [CacheNext]_cacheVars => FileInv'
  BY FileStepInv
<1>3. FileInv => LastStateSaved
  BY DEF FileInv, EndComes, Brought, InFlight, LastStateSaved, Resting
<1> QED
  BY <1>1, <1>2, <1>3, CacheInvAlways, PTL DEF CacheSpec
=============================================================================
