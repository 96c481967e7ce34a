------------------------- MODULE IndividualJobProofs -------------------------
(* Theorems about IndividualJob, for any sets of calls, cancels and parent  *)
(* properties and any number of resets.                                     *)
EXTENDS IndividualJob, TLAPS

(* Every step keeps the type of every field, list and phase. *)
LEMMA TypeStep == TypeOK /\ [Next]_vars => TypeOK'
<1> SUFFICES ASSUME TypeOK, [Next]_vars PROVE TypeOK'
  OBVIOUS
<1> USE DEF TypeOK, Status, PcValues, Working, Reporting, flowVars, cancelVars, Goto
<1>1. ASSUME NEW k \in Calls, Execute(k) PROVE TypeOK'
  <2> PICK p \in ParentProps : \/ ExecuteRejected(k, p) \/ ExecuteReady(k, p)
                               \/ ExecuteRunning(k, p) \/ ExecuteFinished(k, p)
    BY <1>1 DEF Execute
  <2>1. CASE ExecuteRejected(k, p) BY <2>1 DEF ExecuteRejected
  <2>2. CASE ExecuteReady(k, p) BY <2>2 DEF ExecuteReady, AcceptProps
  <2>3. CASE ExecuteRunning(k, p) BY <2>3 DEF ExecuteRunning, AcceptProps
  <2>4. CASE ExecuteFinished(k, p)
    <3>1. told' \in [Calls -> Seq(Status)]
      BY <2>4 DEF ExecuteFinished, Tell
    <3>2. /\ jobState' \in Status
          /\ parentProps' \in ParentProps \cup {Null}
          /\ pc' \in [Calls -> PcValues]
      BY <2>4 DEF ExecuteFinished, AcceptProps
    <3> QED BY <2>4, <3>1, <3>2 DEF ExecuteFinished
  <2> QED BY <2>1, <2>2, <2>3, <2>4
<1>2. ASSUME NEW k \in Calls, ThreadStep(k) PROVE TypeOK'
  <2>1. CASE LoadJob(k) BY <2>1 DEF LoadJob
  <2>2. CASE JobMissing(k) BY <2>2 DEF JobMissing, TakeList
  <2>3. CASE StartThread(k) BY <2>3 DEF StartThread
  <2>4. CASE RunJob(k) BY <2>4 DEF RunJob
  <2>5. CASE JobThrows(k) BY <2>5 DEF JobThrows, TakeList
  <2>6. CASE JobReturns(k) BY <2>6 DEF JobReturns, TakeList
  <2>7. CASE LogReturnProps(k) BY <2>7 DEF LogReturnProps
  <2>8. CASE CallCallbacks(k) BY <2>8 DEF CallCallbacks
  <2>9. CASE \E cb \in Calls : CallCallback(k, cb) BY <2>9 DEF CallCallback, Tell
  <2>10. CASE CallbacksCalled(k) BY <2>10 DEF CallbacksCalled
  <2> QED BY <1>2, <2>1, <2>2, <2>3, <2>4, <2>5, <2>6, <2>7, <2>8, <2>9, <2>10
          DEF ThreadStep
<1>3. ASSUME NEW c \in Cancels, Cancel(c) \/ CancelStep(c) PROVE TypeOK'
  <2>1. CASE CancelFinished(c) BY <2>1 DEF CancelFinished
  <2>2. CASE CancelRunning(c) BY <2>2 DEF CancelRunning
  <2>3. CASE \E cb \in Calls : CancelTell(c, cb) BY <2>3 DEF CancelTell, Tell
  <2>4. CASE CancelJob(c) BY <2>4 DEF CancelJob
  <2> QED BY <1>3, <2>1, <2>2, <2>3, <2>4 DEF Cancel, CancelStep
<1>4. CASE Reset \/ MarkCompleted \/ SetIgnored
  BY <1>4, JobConstants DEF Reset, MarkCompleted, SetIgnored
<1>5. CASE UNCHANGED vars
  BY <1>5 DEF vars
<1> QED BY <1>1, <1>2, <1>3, <1>4, <1>5 DEF Next

LEMMA TypeInit == Init => TypeOK
BY JobConstants DEF Init, TypeOK, Status, PcValues, Working, Reporting

(* Every field, list and phase keeps its type. *)
THEOREM TypeCorrect == Spec => []TypeOK
<1>1. Init => TypeOK BY TypeInit
<1>2. TypeOK /\ [Next]_vars => TypeOK' BY TypeStep
<1> QED BY <1>1, <1>2, PTL DEF Spec

(* How a step moves the phases: a thread begins to work only in the step    *)
(* that turns the flow RUNNING, and stops working only in a step that gives *)
(* the flow a final status.                                                 *)
LEMMA WorkStep ==
  ASSUME TypeOK, [Next]_vars
  PROVE  \/ \E k \in Calls : /\ jobState = "READY" /\ jobState' = "RUNNING"
                             /\ pc' = [pc EXCEPT ![k] = "loading"]
         \/ /\ jobState' \in {"SUCCEEDED", "FAILED"}
            /\ \A k \in Calls : pc'[k] \in Working => pc[k] \in Working
         \/ /\ jobState' = "RUNNING" => jobState = "RUNNING"
            /\ jobState' \in {"READY", "IGNORED"}
                 => \/ jobState \in {"READY", "IGNORED"}
                    \/ ResetEarly
                    \/ \A k \in Calls : pc[k] \notin Working
            /\ \A k \in Calls : pc'[k] \in Working <=> pc[k] \in Working
<1> USE DEF TypeOK, Status, Working, PcValues, Reporting, flowVars, cancelVars, Goto
<1>1. ASSUME NEW k \in Calls, Execute(k)
      PROVE  \/ /\ jobState = "READY" /\ jobState' = "RUNNING"
                /\ pc' = [pc EXCEPT ![k] = "loading"]
             \/ /\ jobState' = "RUNNING" => jobState = "RUNNING"
                /\ jobState' \in {"READY", "IGNORED"} => jobState \in {"READY", "IGNORED"}
                /\ \A j \in Calls : pc'[j] \in Working <=> pc[j] \in Working
  BY <1>1 DEF Execute, ExecuteRejected, ExecuteReady, ExecuteRunning, ExecuteFinished,
     Finished
<1>2. ASSUME NEW k \in Calls, JobMissing(k) \/ JobThrows(k) \/ JobReturns(k)
      PROVE  /\ jobState' \in {"SUCCEEDED", "FAILED"}
             /\ \A j \in Calls : pc'[j] \in Working => pc[j] \in Working
  BY <1>2 DEF JobMissing, JobThrows, JobReturns
<1>3. ASSUME NEW k \in Calls,
             \/ LoadJob(k) \/ StartThread(k) \/ RunJob(k) \/ LogReturnProps(k)
             \/ CallCallbacks(k) \/ (\E cb \in Calls : CallCallback(k, cb))
             \/ CallbacksCalled(k)
      PROVE  /\ jobState' = jobState
             /\ \A j \in Calls : pc'[j] \in Working <=> pc[j] \in Working
  BY <1>3 DEF LoadJob, StartThread, RunJob, LogReturnProps, CallCallbacks, CallCallback,
     CallbacksCalled
<1>4. ASSUME NEW c \in Cancels, Cancel(c) \/ CancelStep(c)
      PROVE  /\ jobState' = jobState \/ jobState' = "FAILED"
             /\ pc' = pc
  BY <1>4 DEF Cancel, CancelStep, CancelFinished, CancelRunning, CancelTell, CancelJob
<1>5. CASE Reset \/ MarkCompleted \/ SetIgnored
  BY <1>5 DEF Reset, MarkCompleted, SetIgnored, Untouched
<1>6. CASE UNCHANGED vars
  BY <1>6 DEF vars
<1> QED BY <1>1, <1>2, <1>3, <1>4, <1>5, <1>6 DEF Next, ThreadStep

(* A RUNNING flow always has a thread at work on it, whatever the callers   *)
(* do and however many executions overlap.                                  *)
THEOREM RunningIsWorked == Spec => []RunningHasWorker
<1>1. Init => RunningHasWorker
  BY DEF Init, RunningHasWorker
<1>2. TypeOK /\ RunningHasWorker /\ [Next]_vars => RunningHasWorker'
  BY WorkStep DEF RunningHasWorker, Working, TypeOK
<1> QED BY <1>1, <1>2, TypeCorrect, PTL DEF Spec

-----------------------------------------------------------------------------
(* When reset() waits for the job to finish (ResetEarly = FALSE).           *)

(* No second job thread: READY is reached only with nobody at work. *)
LEMMA OneThreadStep ==
  ASSUME ResetEarly = FALSE, TypeOK, NoWorkBeforeExecute, OneJobThread, [Next]_vars
  PROVE  NoWorkBeforeExecute' /\ OneJobThread'
BY WorkStep DEF NoWorkBeforeExecute, OneJobThread, Working, TypeOK

(* The field "job" changes only in loadJob(), when no other thread needs it. *)
LEMMA JobLoadedStep ==
  ASSUME TypeOK, OneJobThread, JobLoaded, [Next]_vars
  PROVE  JobLoaded'
<1> USE DEF TypeOK, OneJobThread, JobLoaded, Working, flowVars, cancelVars, Goto
<1>1. ASSUME NEW k \in Calls, Execute(k) PROVE JobLoaded'
  BY <1>1 DEF Execute, ExecuteRejected, ExecuteReady, ExecuteRunning, ExecuteFinished
<1>2. ASSUME NEW k \in Calls, ThreadStep(k) PROVE JobLoaded'
  <2>1. CASE LoadJob(k) BY <2>1 DEF LoadJob
  <2>2. CASE JobMissing(k) \/ StartThread(k) \/ RunJob(k)
    BY <2>2 DEF JobMissing, StartThread, RunJob
  <2>3. CASE JobThrows(k) \/ JobReturns(k) BY <2>3 DEF JobThrows, JobReturns
  <2>4. CASE LogReturnProps(k) \/ CallCallbacks(k) \/ CallbacksCalled(k)
    BY <2>4 DEF LogReturnProps, CallCallbacks, CallbacksCalled
  <2>5. CASE \E cb \in Calls : CallCallback(k, cb) BY <2>5 DEF CallCallback
  <2> QED BY <1>2, <2>1, <2>2, <2>3, <2>4, <2>5 DEF ThreadStep
<1>3. ASSUME NEW c \in Cancels, Cancel(c) \/ CancelStep(c) PROVE JobLoaded'
  BY <1>3 DEF Cancel, CancelStep, CancelFinished, CancelRunning, CancelTell, CancelJob
<1>4. CASE Reset \/ MarkCompleted \/ SetIgnored
  BY <1>4 DEF Reset, MarkCompleted, SetIgnored
<1>5. CASE UNCHANGED vars
  BY <1>5 DEF vars
<1> QED BY <1>1, <1>2, <1>3, <1>4, <1>5 DEF Next

(* A callback that has just been called has been told something. *)
LEMMA ToldSomething ==
  ASSUME TypeOK, NEW k \in Calls, NEW s \in Status, Tell(k, s)
  PROVE  told'[k] # <<>>
<1>1. told[k] \in Seq(Status) /\ told'[k] = Append(told[k], s)
  BY DEF TypeOK, Tell
<1>2. Len(told'[k]) = Len(told[k]) + 1 /\ Len(told[k]) \in Nat
  BY <1>1
<1>3. Len(<<>>) = 0
  OBVIOUS
<1> QED BY <1>2, <1>3

(* The holder of an uncalled callback passes it on or keeps it. *)
LEMMA HeldStep ==
  ASSUME TypeOK, JobLoaded, NoCallbackDropped, [Next]_vars
  PROVE  NoCallbackDropped'
<1> SUFFICES ASSUME NEW j \in Calls, Accepted(j)', told'[j] = <<>>
             PROVE  HeldBy(j)'
  BY DEF NoCallbackDropped
<1> USE DEF TypeOK, HeldBy, Accepted, Reporting, Working, flowVars, cancelVars, Goto
<1>1. ASSUME NEW k \in Calls, Execute(k) PROVE HeldBy(j)'
  <2>1. PICK p \in ParentProps : \/ ExecuteRejected(k, p) \/ ExecuteReady(k, p)
                                 \/ ExecuteRunning(k, p) \/ ExecuteFinished(k, p)
    BY <1>1 DEF Execute
  <2>2. CASE ExecuteRejected(k, p) BY <2>2 DEF ExecuteRejected, NoCallbackDropped
  <2>3. CASE ExecuteReady(k, p) BY <2>3 DEF ExecuteReady, NoCallbackDropped
  <2>4. CASE ExecuteRunning(k, p) BY <2>4 DEF ExecuteRunning, NoCallbackDropped
  <2>5. CASE ExecuteFinished(k, p)
    <3>1. j # k
      BY <2>5, ToldSomething DEF ExecuteFinished, Status
    <3>2. Accepted(j) /\ told[j] = <<>>
      BY <2>5, <3>1 DEF ExecuteFinished, Tell
    <3>3. HeldBy(j) /\ jobState # "RUNNING"
      BY <2>5, <3>2 DEF ExecuteFinished, NoCallbackDropped, Finished
    <3> QED BY <2>5, <3>3 DEF ExecuteFinished
  <2> QED BY <2>1, <2>2, <2>3, <2>4, <2>5
<1>2. ASSUME NEW k \in Calls, ThreadStep(k) PROVE HeldBy(j)'
  <2>1. CASE LoadJob(k) BY <2>1 DEF LoadJob, NoCallbackDropped
  <2>2. CASE JobMissing(k) BY <2>2 DEF JobMissing, TakeList, NoCallbackDropped
  <2>3. CASE StartThread(k) BY <2>3 DEF StartThread, NoCallbackDropped
  <2>4. CASE RunJob(k) BY <2>4 DEF RunJob, NoCallbackDropped
  <2>5. CASE JobThrows(k)
    <3>1. Accepted(j) /\ told[j] = <<>>
      BY <2>5 DEF JobThrows
    <3>2. HeldBy(j)
      BY <3>1 DEF NoCallbackDropped
    <3> QED BY <2>5, <3>1, <3>2 DEF JobThrows, TakeList
  <2>6. CASE JobReturns(k)
    <3>1. Accepted(j) /\ told[j] = <<>> /\ job # Null
      BY <2>6 DEF JobReturns, JobLoaded
    <3>2. HeldBy(j)
      BY <3>1 DEF NoCallbackDropped
    <3> QED BY <2>6, <3>1, <3>2 DEF JobReturns, TakeList
  <2>7. CASE LogReturnProps(k) BY <2>7 DEF LogReturnProps, NoCallbackDropped
  <2>8. CASE CallCallbacks(k) BY <2>8 DEF CallCallbacks, NoCallbackDropped
  <2>9. ASSUME NEW cb \in Calls, CallCallback(k, cb) PROVE HeldBy(j)'
    <3>1. j # cb
      BY <2>9, ToldSomething DEF CallCallback
    <3>2. Accepted(j) /\ told[j] = <<>>
      BY <2>9, <3>1 DEF CallCallback, Tell
    <3>3. HeldBy(j)
      BY <3>2 DEF NoCallbackDropped
    <3> QED BY <2>9, <3>1, <3>3 DEF CallCallback
  <2>10. CASE CallbacksCalled(k) BY <2>10 DEF CallbacksCalled, NoCallbackDropped
  <2> QED BY <1>2, <2>1, <2>2, <2>3, <2>4, <2>5, <2>6, <2>7, <2>8, <2>9, <2>10
          DEF ThreadStep
<1>3. ASSUME NEW c \in Cancels, Cancel(c) \/ CancelStep(c) PROVE HeldBy(j)'
  <2>1. CASE CancelFinished(c) BY <2>1 DEF CancelFinished, NoCallbackDropped
  <2>2. CASE CancelRunning(c) BY <2>2 DEF CancelRunning, NoCallbackDropped
  <2>3. ASSUME NEW cb \in Calls, CancelTell(c, cb) PROVE HeldBy(j)'
    <3>1. j # cb
      BY <2>3, ToldSomething DEF CancelTell, Status
    <3> QED BY <2>3, <3>1 DEF CancelTell, Tell, NoCallbackDropped
  <2>4. CASE CancelJob(c) BY <2>4 DEF CancelJob, NoCallbackDropped
  <2> QED BY <1>3, <2>1, <2>2, <2>3, <2>4 DEF Cancel, CancelStep
<1>4. CASE Reset BY <1>4 DEF Reset, NoCallbackDropped
<1>5. CASE MarkCompleted \/ SetIgnored
  BY <1>5 DEF MarkCompleted, SetIgnored, Untouched, NoCallbackDropped
<1>6. CASE UNCHANGED vars
  BY <1>6 DEF vars, NoCallbackDropped
<1> QED BY <1>1, <1>2, <1>3, <1>4, <1>5, <1>6 DEF Next

(* As long as nobody resets a flow whose job still runs, one job thread at  *)
(* a time serves the flow, and every accepted callback is called or still   *)
(* in the hands of the flow, a job thread or a cancel().                    *)
THEOREM NothingDropped ==
  ASSUME ResetEarly = FALSE
  PROVE  Spec => [](OneJobThread /\ NoCallbackDropped)
<1>1. Init => DisciplinedInv
  BY TypeInit DEF Init, DisciplinedInv, NoWorkBeforeExecute, OneJobThread, JobLoaded,
     NoCallbackDropped, Accepted, Working
<1>2. DisciplinedInv /\ [Next]_vars => DisciplinedInv'
  BY TypeStep, OneThreadStep, JobLoadedStep, HeldStep DEF DisciplinedInv
<1>3. DisciplinedInv => OneJobThread /\ NoCallbackDropped
  BY DEF DisciplinedInv
<1> QED BY <1>1, <1>2, <1>3, PTL DEF Spec

-----------------------------------------------------------------------------
(* Each callback is called once.                                            *)

(* A callback in somebody's hands that is called, or one answered at once,  *)
(* has then been called for the first time.                                 *)
LEMMA ToldFirst ==
  ASSUME TypeOK, NEW k \in Calls, told[k] = <<>>, NEW s \in Status, Tell(k, s)
  PROVE  told' = [told EXCEPT ![k] = <<s>>]
<1>1. Append(<<>>, s) = <<s>>
  OBVIOUS
<1> QED BY <1>1 DEF Tell

(* The new status leaves nothing over, hands nothing out twice: a job       *)
(* thread takes what is registered with a RUNNING flow, and ends that state.*)
LEMMA TakenOnce ==
  ASSUME ResetEarly = FALSE, DisciplinedInv, ToldOnceInv, NEW t \in Calls,
         JobMissing(t) \/ JobThrows(t) \/ JobReturns(t)
  PROVE  ToldOnceInv'
<1> USE DEF flowVars, cancelVars, Goto, TakeList
<1>1. TypeOK /\ OneJobThread /\ pc[t] \in Working
  BY DEF DisciplinedInv, JobMissing, JobThrows, JobReturns, Working
<1>2. /\ UNCHANGED <<callbacksToCall, told, cancelList>>
      /\ jobState' \in {"SUCCEEDED", "FAILED"}
      /\ pc'[t] \in Reporting \cup {"dead"} /\ \A u \in Calls : u # t => pc'[u] = pc[u]
      /\ callbackList' \in {callbackList, [callbackList EXCEPT ![t] = callbacksToCall]}
  BY <1>1 DEF JobMissing, JobThrows, JobReturns, TypeOK, Reporting
<1>3. callbacksToCall = Registered
  BY <1>1 DEF ToldOnceInv, LeftOver, Registered
<1>4. LeftOver'
  BY <1>1, <1>2 DEF LeftOver, OneJobThread, Working, Reporting
<1>5. Registered' = {}
  BY <1>2 DEF Registered
<1>6. \A u \in Calls : callbackList'[u] \in {callbackList[u], IF u = t THEN Registered ELSE {}}
  BY <1>1, <1>2, <1>3 DEF TypeOK
<1>7. HeldOnce'
  BY <1>2, <1>5, <1>6 DEF ToldOnceInv, HeldOnce
<1>8. \A k \in Calls : InHands(k)' => InHands(k)
  BY <1>2, <1>5, <1>6 DEF InHands
<1>9. \A k \in Calls : Accepted(k)' <=> Accepted(k)
  BY <1>1, <1>2 DEF Accepted, Working, Reporting
<1> QED BY <1>2, <1>4, <1>7, <1>8, <1>9 DEF ToldOnceInv

(* One of a list is called and taken off it. *)
LEMMA CalledOnce ==
  ASSUME DisciplinedInv, ToldOnceInv, NEW cb \in Calls, NEW s \in Status, Tell(cb, s),
         UNCHANGED <<jobState, callbacksToCall, pc>>,
         \/ \E t \in Calls : /\ cb \in callbackList[t] /\ UNCHANGED cancelList
                            /\ callbackList' = [callbackList EXCEPT ![t] = @ \ {cb}]
         \/ \E c \in Cancels : /\ cb \in cancelList[c] /\ UNCHANGED callbackList
                              /\ cancelList' = [cancelList EXCEPT ![c] = @ \ {cb}]
  PROVE  ToldOnceInv'
<1>1. TypeOK /\ InHands(cb)
  BY DEF DisciplinedInv, InHands
<1>2. told' = [told EXCEPT ![cb] = <<s>>]
  BY <1>1, ToldFirst DEF ToldOnceInv
<1>3. /\ \A t \in Calls : callbackList'[t] \subseteq callbackList[t]
      /\ \A c \in Cancels : cancelList'[c] \subseteq cancelList[c]
      /\ Registered' = Registered
  BY <1>1 DEF TypeOK, Registered
<1>4. LeftOver' /\ HeldOnce'
  BY <1>3 DEF ToldOnceInv, LeftOver, HeldOnce
<1>5. \A k \in Calls : InHands(k)' => InHands(k) /\ k # cb
  <2>1. \A k \in Calls : InHands(k)' => InHands(k)
    BY <1>3 DEF InHands
  <2>2. ASSUME NEW t \in Calls, cb \in callbackList[t], UNCHANGED cancelList,
               callbackList' = [callbackList EXCEPT ![t] = @ \ {cb}]
        PROVE  ~InHands(cb)'
    <3>1. cb \notin Registered /\ \A c \in Cancels : cb \notin cancelList[c]
      BY <2>2 DEF ToldOnceInv, HeldOnce
    <3>2. \A u \in Calls : cb \notin callbackList'[u]
      BY <1>1, <2>2 DEF ToldOnceInv, HeldOnce, TypeOK
    <3> QED BY <1>3, <2>2, <3>1, <3>2 DEF InHands
  <2>3. ASSUME NEW c \in Cancels, cb \in cancelList[c], UNCHANGED callbackList,
               cancelList' = [cancelList EXCEPT ![c] = @ \ {cb}]
        PROVE  ~InHands(cb)'
    <3>1. cb \notin Registered /\ \A t \in Calls : cb \notin callbackList[t]
      BY <2>3 DEF ToldOnceInv, HeldOnce
    <3>2. \A d \in Cancels : cb \notin cancelList'[d]
      BY <1>1, <2>3 DEF ToldOnceInv, HeldOnce, TypeOK
    <3> QED BY <1>3, <2>3, <3>1, <3>2 DEF InHands
  <2> QED BY <2>1, <2>2, <2>3
<1>6. \A k \in Calls : Accepted(k)' <=> Accepted(k)
  BY DEF Accepted
<1>7. Accepted(cb)
  BY <1>1 DEF ToldOnceInv
<1>8. \A k \in Calls : told'[k] = IF k = cb THEN <<s>> ELSE told[k]
  BY <1>1, <1>2 DEF TypeOK
<1>9. \A k \in Calls : InHands(k)' \/ ~Accepted(k)' => told'[k] = <<>>
  BY <1>5, <1>6, <1>7, <1>8 DEF ToldOnceInv
<1>10. \A k \in Calls : told'[k] = <<>> \/ \E r \in Status : told'[k] = <<r>>
  BY <1>8 DEF ToldOnceInv
<1> QED BY <1>4, <1>5, <1>6, <1>9, <1>10 DEF ToldOnceInv

LEMMA ToldOnceStep ==
  ASSUME ResetEarly = FALSE, DisciplinedInv, ToldOnceInv, [Next]_vars
  PROVE  ToldOnceInv'
<1> USE DEF flowVars, cancelVars, Goto
<1>0. TypeOK
  BY DEF DisciplinedInv
<1>1. ASSUME NEW k \in Calls, Execute(k) PROVE ToldOnceInv'
  <2>1. PICK p \in ParentProps : \/ ExecuteRejected(k, p) \/ ExecuteReady(k, p)
                                 \/ ExecuteRunning(k, p) \/ ExecuteFinished(k, p)
    BY <1>1 DEF Execute
  <2>2. /\ pc[k] = "idle" /\ ~Accepted(k) /\ told[k] = <<>> /\ ~InHands(k)
        /\ UNCHANGED <<callbackList, cancelList>>
        /\ \A j \in Calls : j # k => pc'[j] = pc[j]
    BY <1>0, <2>1 DEF ExecuteRejected, ExecuteReady, ExecuteRunning, ExecuteFinished, Accepted,
       ToldOnceInv, TypeOK
  <2>3. CASE ExecuteRejected(k, p)
    <3>1. UNCHANGED <<jobState, callbacksToCall, told>> /\ pc'[k] = "rejected"
      BY <1>0, <2>3 DEF ExecuteRejected, TypeOK
    <3>2. \A j \in Calls : (InHands(j)' <=> InHands(j)) /\ (Accepted(j)' <=> Accepted(j))
      BY <2>2, <3>1 DEF InHands, Registered, Accepted
    <3> QED BY <2>2, <3>1, <3>2 DEF ToldOnceInv, LeftOver, HeldOnce, Registered, Working
  <2>4. CASE ExecuteReady(k, p) \/ ExecuteRunning(k, p)
    <3>1. /\ jobState' = "RUNNING" /\ told' = told /\ callbacksToCall' = callbacksToCall \cup {k}
          /\ pc'[k] \in {"loading", "registered"}
          /\ callbacksToCall \in {Registered, {}}
      BY <1>0, <2>4 DEF ExecuteReady, ExecuteRunning, TypeOK, ToldOnceInv, LeftOver, Registered
    <3>2. Registered' \subseteq Registered \cup {k}
      BY <3>1 DEF Registered
    <3>3. \A j \in Calls : InHands(j)' => InHands(j) \/ j = k
      <4>1. \A j \in Calls : j \in Registered' => j \in Registered \/ j = k
        BY <3>2
      <4> HIDE DEF Registered
      <4> QED BY <2>2, <4>1 DEF InHands
    <3>5. \A j \in Calls : Accepted(j)' <=> Accepted(j) \/ j = k
      BY <2>2, <3>1 DEF Accepted
    <3>4. HeldOnce'
      BY <2>2, <3>2 DEF ToldOnceInv, HeldOnce, InHands
    <3> QED BY <2>2, <3>1, <3>3, <3>4, <3>5 DEF ToldOnceInv, LeftOver
  <2>5. CASE ExecuteFinished(k, p)
    <3>1. PICK s \in Status : Tell(k, s)
      BY <2>5 DEF ExecuteFinished, Status
    <3>2. \A j \in Calls : told'[j] = IF j = k THEN <<s>> ELSE told[j]
      BY <1>0, <2>2, <3>1, ToldFirst DEF TypeOK
    <3>3. /\ callbacksToCall' = callbacksToCall /\ pc'[k] = "answered"
          /\ jobState # "RUNNING" /\ jobState' # "RUNNING"
          /\ jobState \in {"SUCCEEDED", "FAILED"} => jobState' = jobState
      BY <1>0, <2>5 DEF ExecuteFinished, TypeOK, Finished
    <3>4. \A j \in Calls : (InHands(j)' <=> InHands(j)) /\ (Accepted(j)' <=> Accepted(j) \/ j = k)
      BY <2>2, <3>3 DEF InHands, Registered, Accepted
    <3>5. LeftOver' /\ HeldOnce'
      BY <2>2, <3>3 DEF ToldOnceInv, LeftOver, HeldOnce, Registered, Working
    <3> QED BY <2>2, <3>2, <3>4, <3>5 DEF ToldOnceInv
  <2> QED BY <2>1, <2>3, <2>4, <2>5
<1>2. ASSUME NEW t \in Calls,
             \/ LoadJob(t) \/ StartThread(t) \/ RunJob(t) \/ LogReturnProps(t)
             \/ CallCallbacks(t) \/ CallbacksCalled(t)
      PROVE  ToldOnceInv'
  <2>1. /\ UNCHANGED <<jobState, callbacksToCall, callbackList, cancelList, told>>
        /\ \A j \in Calls : (Accepted(j)' <=> Accepted(j)) /\ (pc'[j] \in Working => pc[j] \in Working)
    BY <1>0, <1>2 DEF LoadJob, StartThread, RunJob, LogReturnProps, CallCallbacks, CallbacksCalled,
       TypeOK, Accepted, Working
  <2> QED BY <2>1 DEF ToldOnceInv, LeftOver, HeldOnce, InHands, Registered
<1>3. ASSUME NEW t \in Calls, NEW cb \in Calls, CallCallback(t, cb) PROVE ToldOnceInv'
  <2>1. Tell(cb, notice[t]) /\ notice[t] \in Status
    BY <1>0, <1>3 DEF CallCallback, TypeOK
  <2> QED BY <1>3, <2>1, CalledOnce DEF CallCallback
<1>4. ASSUME NEW c \in Cancels, NEW cb \in Calls, CancelTell(c, cb) PROVE ToldOnceInv'
  BY <1>4, CalledOnce DEF CancelTell, Status
<1>5. ASSUME NEW c \in Cancels, CancelRunning(c) PROVE ToldOnceInv'
  <2>1. /\ callbacksToCall' = {} /\ UNCHANGED <<pc, callbackList, told>>
        /\ callbacksToCall = Registered
        /\ \A d \in Cancels : cancelList'[d] = IF d = c THEN Registered ELSE cancelList[d]
    BY <1>0, <1>5 DEF CancelRunning, TypeOK, ToldOnceInv, LeftOver, Registered
  <2>2. Registered' = {}
    BY <2>1 DEF Registered
  <2>3. LeftOver' /\ HeldOnce'
    BY <2>1, <2>2 DEF ToldOnceInv, LeftOver, HeldOnce
  <2>4. \A k \in Calls : (InHands(k)' => InHands(k)) /\ (Accepted(k)' <=> Accepted(k))
    BY <2>1, <2>2 DEF InHands, Accepted
  <2> QED BY <2>1, <2>3, <2>4 DEF ToldOnceInv
<1>6. ASSUME NEW c \in Cancels, CancelFinished(c) \/ CancelJob(c) PROVE ToldOnceInv'
  <2>1. UNCHANGED <<jobState, callbacksToCall, callbackList, cancelList, told, pc>>
    BY <1>6 DEF CancelFinished, CancelJob
  <2> QED BY <2>1 DEF ToldOnceInv, LeftOver, HeldOnce, InHands, Registered, Accepted
<1>7. CASE Reset \/ MarkCompleted \/ SetIgnored
  <2>1. /\ callbacksToCall' = {} /\ jobState' # "RUNNING"
        /\ UNCHANGED <<callbackList, cancelList, told, pc>>
    BY <1>7 DEF Reset, MarkCompleted, SetIgnored, Untouched, ToldOnceInv, LeftOver
  <2>2. Registered' = {}
    BY <2>1 DEF Registered
  <2>3. LeftOver' /\ HeldOnce'
    BY <2>1, <2>2 DEF ToldOnceInv, LeftOver, HeldOnce
  <2>4. \A k \in Calls : (InHands(k)' => InHands(k)) /\ (Accepted(k)' <=> Accepted(k))
    BY <2>1, <2>2 DEF InHands, Accepted
  <2> QED BY <2>1, <2>3, <2>4 DEF ToldOnceInv
<1>8. CASE UNCHANGED vars
  BY <1>8 DEF vars, ToldOnceInv, LeftOver, HeldOnce, InHands, Registered, Accepted
<1> QED BY <1>1, <1>2, <1>3, <1>4, <1>5, <1>6, <1>7, <1>8, TakenOnce
        DEF Next, ThreadStep, Cancel, CancelStep

LEMMA ToldOnceAlways ==
  ASSUME ResetEarly = FALSE PROVE Spec => [](DisciplinedInv /\ ToldOnceInv)
<1>1. Init => DisciplinedInv /\ ToldOnceInv
  <2>1. Init => DisciplinedInv
    BY TypeInit DEF Init, DisciplinedInv, NoWorkBeforeExecute, OneJobThread, JobLoaded,
       NoCallbackDropped, Accepted, Working
  <2>2. Init => ToldOnceInv
    BY DEF Init, ToldOnceInv, LeftOver, HeldOnce, InHands, Registered
  <2> QED BY <2>1, <2>2
<1>2. DisciplinedInv /\ ToldOnceInv /\ [Next]_vars => (DisciplinedInv /\ ToldOnceInv)'
  BY TypeStep, OneThreadStep, JobLoadedStep, HeldStep, ToldOnceStep DEF DisciplinedInv
<1> QED BY <1>1, <1>2, PTL DEF Spec

(* No callback is called twice, although cancel() and a job thread both     *)
(* hand on what is registered and the list outlives the execution, provided *)
(* nobody resets a flow whose job still runs.                               *)
THEOREM CalledAtMostOnce == ASSUME ResetEarly = FALSE PROVE Spec => []ToldAtMostOnce
<1>1. ToldOnceInv => ToldAtMostOnce
  <2>1. Len(<<>>) = 0 /\ \A s \in Status : Len(<<s>>) = 1
    OBVIOUS
  <2>2. ToldOnceInv => \A k \in Calls : told[k] = <<>> \/ \E s \in Status : told[k] = <<s>>
    BY DEF ToldOnceInv
  <2>3. ToldOnceInv => \A k \in Calls : Len(told[k]) \in {0, 1}
    BY <2>1, <2>2
  <2>4. \A n \in {0, 1} : n <= 1
    OBVIOUS
  <2> QED BY <2>3, <2>4, Zenon DEF ToldAtMostOnce
<1> QED BY <1>1, ToldOnceAlways, PTL

-----------------------------------------------------------------------------
(* One verdict, where nobody resets.                                        *)

LEMMA NoReset ==
  ASSUME MaxResets = 0 PROVE Spec => [](resets = 0)
<1> USE DEF flowVars, cancelVars
<1>1. Init => resets = 0
  BY DEF Init
<1>2. resets = 0 /\ [Next]_vars => (resets = 0)'
  BY DEF Next, Execute, ExecuteRejected, ExecuteReady, ExecuteRunning, ExecuteFinished, ThreadStep,
     LoadJob, JobMissing, StartThread, RunJob, JobThrows, JobReturns, LogReturnProps, CallCallbacks,
     CallCallback, CallbacksCalled, Cancel, CancelFinished, CancelRunning, CancelStep, CancelTell,
     CancelJob, Reset, MarkCompleted, SetIgnored, vars
<1> QED BY <1>1, <1>2, PTL DEF Spec

(* A final status comes from the one job thread, while the flow is RUNNING  *)
(* and nobody has been told anything, or from a cancel().                   *)
LEMMA VerdictStep ==
  ASSUME MaxResets = 0, resets = 0, DisciplinedInv, ToldOnceInv, VerdictInv, [Next]_vars
  PROVE  VerdictInv'
<1> USE DEF flowVars, cancelVars, Goto, Working, Reporting
<1>0. TypeOK /\ OneJobThread
  BY DEF DisciplinedInv
<1>1. ASSUME NEW k \in Calls, Execute(k) PROVE VerdictInv'
  <2>1. PICK p \in ParentProps : \/ ExecuteRejected(k, p) \/ ExecuteReady(k, p)
                                 \/ ExecuteRunning(k, p) \/ ExecuteFinished(k, p)
    BY <1>1 DEF Execute
  <2>2. /\ UNCHANGED <<notice, cancelPc>>
        /\ \A j \in Calls : j # k => pc'[j] = pc[j]
    BY <1>0, <2>1 DEF ExecuteRejected, ExecuteReady, ExecuteRunning, ExecuteFinished, TypeOK
  <2>3. CASE ExecuteRejected(k, p) \/ ExecuteRunning(k, p)
    <3>1. UNCHANGED <<jobState, told>> /\ pc'[k] \in {"rejected", "registered"}
      BY <1>0, <2>3 DEF ExecuteRejected, ExecuteRunning, TypeOK
    <3> QED BY <2>2, <3>1 DEF VerdictInv, NoCancelYet, Verdict
  <2>4. CASE ExecuteReady(k, p)
    <3>1. told' = told /\ pc'[k] = "loading" /\ jobState = "READY" /\ jobState' = "RUNNING"
      BY <1>0, <2>4 DEF ExecuteReady, TypeOK
    <3> QED BY <2>2, <3>1 DEF VerdictInv, NoCancelYet, Finished
  <2>5. CASE ExecuteFinished(k, p)
    <3>1. told[k] = <<>> /\ Tell(k, Verdict) /\ Verdict \in Status
      BY <2>5 DEF ExecuteFinished, Verdict, Status, ToldOnceInv, Accepted
    <3>2. \A j \in Calls : told'[j] = IF j = k THEN <<Verdict>> ELSE told[j]
      BY <1>0, <3>1, ToldFirst DEF TypeOK
    <3>3. /\ pc'[k] = "answered" /\ jobState # "RUNNING" /\ jobState' \in Finished
          /\ jobState' = jobState \/ (jobState = "IGNORED" /\ jobState' = "COMPLETED")
      BY <1>0, <2>5 DEF ExecuteFinished, TypeOK, Finished
    <3>4. Verdict' = Verdict
      BY <3>3 DEF Verdict
    <3> QED BY <2>2, <3>2, <3>3, <3>4 DEF VerdictInv, NoCancelYet, Verdict
  <2> QED BY <2>1, <2>3, <2>4, <2>5
<1>2. ASSUME NEW t \in Calls, JobMissing(t) \/ JobThrows(t) \/ JobReturns(t) PROVE VerdictInv'
  <2>1. /\ UNCHANGED <<notice, cancelPc, told>> /\ pc[t] \in Working
        /\ jobState' \in {"SUCCEEDED", "FAILED"}
        /\ pc'[t] \in {"logging", "notifying", "dead"}
        /\ \A u \in Calls : u # t => pc'[u] = pc[u] /\ pc[u] \notin Working
    BY <1>0, <1>2 DEF JobMissing, JobThrows, JobReturns, TypeOK, OneJobThread
  <2>2. NoCancelYet => jobState = "RUNNING"
    BY <2>1 DEF VerdictInv
  <2> QED BY <2>1, <2>2 DEF VerdictInv, NoCancelYet, Finished
<1>3. ASSUME NEW t \in Calls,
             LoadJob(t) \/ StartThread(t) \/ RunJob(t) \/ LogReturnProps(t) \/ CallbacksCalled(t)
      PROVE  VerdictInv'
  <2>1. /\ UNCHANGED <<jobState, notice, cancelPc, told>>
        /\ \A u \in Calls : \/ pc'[u] = pc[u]
                            \/ {pc[u], pc'[u]} \subseteq Working
                            \/ pc[u] \in Reporting /\ pc'[u] \in {"dead", "done", "notifying"}
    BY <1>0, <1>3 DEF LoadJob, StartThread, RunJob, LogReturnProps, CallbacksCalled, TypeOK
  <2> QED BY <2>1 DEF VerdictInv, NoCancelYet, Verdict
<1>4. ASSUME NEW t \in Calls, CallCallbacks(t) PROVE VerdictInv'
  <2>1. /\ UNCHANGED <<jobState, cancelPc, told>>
        /\ pc[t] = "notifying" /\ pc'[t] = "calling" /\ notice'[t] = jobState
        /\ \A u \in Calls : u # t => pc'[u] = pc[u] /\ notice'[u] = notice[u]
    BY <1>0, <1>4 DEF CallCallbacks, TypeOK
  <2> QED BY <2>1 DEF VerdictInv, NoCancelYet, Verdict
<1>5. ASSUME NEW t \in Calls, NEW cb \in Calls, CallCallback(t, cb) PROVE VerdictInv'
  <2>1. /\ UNCHANGED <<jobState, cancelPc, pc, notice>> /\ pc[t] = "calling"
        /\ Tell(cb, notice[t]) /\ InHands(cb) /\ notice[t] \in Status
    BY <1>0, <1>5 DEF CallCallback, InHands, TypeOK
  <2>2. \A j \in Calls : told'[j] = IF j = cb THEN <<notice[t]>> ELSE told[j]
    BY <1>0, <2>1, ToldFirst DEF TypeOK, ToldOnceInv
  <2>3. /\ notice[t] \in {"SUCCEEDED", "FAILED"} /\ jobState \in {"SUCCEEDED", "FAILED"}
        /\ NoCancelYet => notice[t] = Verdict
    BY <2>1 DEF VerdictInv, Verdict
  <2> QED BY <2>1, <2>2, <2>3 DEF VerdictInv, NoCancelYet, Verdict, Finished
<1>6. ASSUME NEW c \in Cancels, NEW cb \in Calls, CancelTell(c, cb) PROVE VerdictInv'
  <2>1. /\ UNCHANGED <<jobState, cancelPc, pc, notice>> /\ cancelPc[c] = "telling"
        /\ Tell(cb, "FAILED") /\ InHands(cb) /\ "FAILED" \in Status
    BY <1>6 DEF CancelTell, InHands, Status
  <2>2. \A j \in Calls : told'[j] = IF j = cb THEN <<"FAILED">> ELSE told[j]
    BY <1>0, <2>1, ToldFirst DEF TypeOK, ToldOnceInv
  <2> QED BY <2>1, <2>2 DEF VerdictInv, NoCancelYet
<1>7. ASSUME NEW c \in Cancels, CancelRunning(c) PROVE VerdictInv'
  <2>1. /\ UNCHANGED <<pc, notice, told>> /\ jobState' = "FAILED" /\ cancelPc'[c] = "telling"
    BY <1>0, <1>7 DEF CancelRunning, TypeOK
  <2>2. ~NoCancelYet'
    BY <2>1 DEF NoCancelYet
  <2> QED BY <2>1, <2>2 DEF VerdictInv
<1>8. ASSUME NEW c \in Cancels, CancelFinished(c) \/ CancelJob(c) PROVE VerdictInv'
  <2>1. /\ UNCHANGED <<pc, notice, told, jobState>>
        /\ NoCancelYet' => NoCancelYet
    BY <1>0, <1>8 DEF CancelFinished, CancelJob, NoCancelYet, TypeOK
  <2> QED BY <2>1 DEF VerdictInv, Verdict
<1>9. CASE MarkCompleted \/ SetIgnored
  <2>1. /\ UNCHANGED <<pc, notice, told, cancelPc>> /\ jobState = "READY"
        /\ \A t \in Calls : pc[t] \notin Working
    BY <1>9 DEF MarkCompleted, SetIgnored, Untouched, DisciplinedInv, NoWorkBeforeExecute
  <2> QED BY <2>1 DEF VerdictInv, NoCancelYet, Finished
<1>10. CASE Reset
  BY <1>10 DEF Reset
<1>11. CASE UNCHANGED vars
  BY <1>11 DEF vars, VerdictInv, NoCancelYet, Verdict
<1> QED BY <1>1, <1>2, <1>3, <1>4, <1>5, <1>6, <1>7, <1>8, <1>9, <1>10, <1>11
        DEF Next, ThreadStep, Cancel, CancelStep

(* In one execution the callers hear one verdict, SUCCEEDED or FAILED,      *)
(* though the job thread reads the status again after leaving the monitor;  *)
(* only a cancel() can make them differ.                                    *)
THEOREM OneVerdict ==
  ASSUME ResetEarly = FALSE, MaxResets = 0 PROVE Spec => []SameVerdict
<1>1. Init => VerdictInv
  BY DEF Init, VerdictInv, Working, Reporting
<1>2. VerdictInv => SameVerdict
  <2> SUFFICES ASSUME VerdictInv PROVE SameVerdict
    OBVIOUS
  <2>1. \A k \in Calls : \A i \in DOMAIN told[k] : told[k][i] \in {"SUCCEEDED", "FAILED"}
    BY DEF VerdictInv
  <2>2. NoCancelYet => \A j, k \in Calls : told[j] # <<>> /\ told[k] # <<>> => told[j] = told[k]
    BY DEF VerdictInv
  <2> QED BY <2>1, <2>2 DEF SameVerdict, ToldOnlyVerdicts, NoCancelYet
<1>3. (resets = 0 /\ DisciplinedInv /\ ToldOnceInv) /\ VerdictInv /\ [Next]_vars => VerdictInv'
  BY VerdictStep
<1> QED BY <1>1, <1>2, <1>3, NoReset, ToldOnceAlways, PTL DEF Spec
=============================================================================
