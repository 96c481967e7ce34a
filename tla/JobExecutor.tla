----------------------------- MODULE JobExecutor -----------------------------
(***************************************************************************)
(* Accepting and listing executions of flows: JobExecutorManager, its pool *)
(* thread, and the ids and files RefreshableFlowManager and                *)
(* ImmutableFlowManager give to executions.                                *)
(*                                                                         *)
(* A member of Requests is one call of execute() and the execution it      *)
(* leads to.  The scheduler passes the topic of its event; the web pages   *)
(* call execute(id, ignoreDep), or make the flow themselves and call       *)
(* execute(flow).  The pool has no core threads and an unbounded queue, so *)
(* one thread serves the queue, whatever the maximum is.  The jobs of a    *)
(* flow run in threads of their own (FlowExecution): the pool thread comes *)
(* back from flow.execute() before the flow ends, and the flow's callback  *)
(* is called from elsewhere, also before the pool thread is back.          *)
(*                                                                         *)
(* Abstracted: mail, durations, properties; saves of a running flow        *)
(* (progressMade), which write the file its end writes, too; cancel(name), *)
(* which looks an entry up and changes nothing here.                       *)
(***************************************************************************)
EXTENDS Naturals, Sequences, FiniteSets

CONSTANTS
  Requests,     \* execute() calls, each made once
  Names,        \* flow names
  Name,         \* Name[r]: the flow r asks for
  Kind,         \* Kind[r]: "scheduler", "job" (execute(id, ..)) or "flow" (execute(flow))
  Topic,        \* Topic[r]: the topic a scheduler request passes, or None
  None,
  MaxReloads,   \* bound on reloads of the job directory
  MaxRestarts,  \* bound on crashes, each followed by a restart
  ReloadRaces,  \* may a reload run while a flow is being created?
  SaveFails,    \* may saving an execution, or what follows in the callback, throw?
  StartFails    \* may starting a flow throw?

ASSUME ExecutorConstants ==
  /\ IsFiniteSet(Requests)
  /\ Name \in [Requests -> Names]
  /\ Kind \in [Requests -> {"scheduler", "job", "flow"}]
  /\ None \notin Requests
  /\ MaxReloads \in Nat /\ MaxRestarts \in Nat
  /\ {ReloadRaces, SaveFails, StartFails} \subseteq BOOLEAN

Managers == 0 .. MaxReloads      \* ImmutableFlowManager objects, one per reload
Topics   == {Topic[r] : r \in Requests} \cup {None}

VARIABLES
  pc,        \* progress of each call
  got,       \* the manager each call got from delegateManager
  id,        \* the id of each execution's flow, or 0
  runTopic,  \* the topic in each JobExecution
  topic,     \* JobExecutorManager.topic; eventTriggered is topic # None
  delegate,  \* delegateManager
  lastId,    \* lastId of every manager
  reloading, \* the lastId a reload has read, or None
  queue,     \* the pool's queue
  pool,      \* what the pool thread does, and with which request
  flow,      \* how far each execution's flow is
  executing, \* JobExecutorManager.executing: a request or None for every name
  completed, \* JobExecutorManager.completed
  file,      \* the saved executions: <<i, r>> if file i holds the execution of r
  restarts

vars == <<pc, got, id, runTopic, topic, delegate, lastId, reloading, queue, pool,
          flow, executing, completed, file, restarts>>

callVars    == <<got, id, runTopic, topic>>
managerVars == <<delegate, lastId, reloading, restarts>>
poolVars    == <<queue, pool>>
runVars     == <<flow, executing, completed, file>>

Idle == <<"idle", None>>

Init ==
  /\ pc = [r \in Requests |-> "new"]
  /\ got = [r \in Requests |-> 0]
  /\ id = [r \in Requests |-> 0]
  /\ runTopic = [r \in Requests |-> None]
  /\ topic = None
  /\ delegate = 0
  /\ lastId = [m \in Managers |-> 0]
  /\ reloading = None
  /\ queue = <<>>
  /\ pool = Idle
  /\ flow = [r \in Requests |-> "none"]
  /\ executing = [n \in Names |-> None]
  /\ completed = {}
  /\ file = {}
  /\ restarts = 0

Goto(r, step) == pc' = [pc EXCEPT ![r] = step]

(* Inside a call.                                                           *)
Calling == {"creating", "created", "checking", "submitting"}

-----------------------------------------------------------------------------
(* The calls.                                                               *)

(* setTriggerTopic() and unsetTriggerTopic(), which only the scheduler      *)
(* calls, and delegateManager.get().  The scheduler is one thread.          *)

Call(r) ==
  /\ pc[r] = "new"
  /\ Kind[r] = "scheduler" =>
       \A s \in Requests : Kind[s] = "scheduler" => pc[s] \notin Calling
  /\ ReloadRaces \/ reloading = None
  /\ topic' = IF Kind[r] = "scheduler" THEN Topic[r] ELSE topic
  /\ got' = [got EXCEPT ![r] = delegate]
  /\ Goto(r, "creating")
  /\ UNCHANGED <<id, runTopic, managerVars, poolVars, runVars>>

(* createNewExecutableFlow() of the manager: getNextId().                   *)
Create(r) ==
  /\ pc[r] = "creating"
  /\ lastId' = [lastId EXCEPT ![got[r]] = @ + 1]
  /\ id' = [id EXCEPT ![r] = lastId[got[r]] + 1]
  /\ Goto(r, IF Kind[r] = "flow" THEN "checking" ELSE "created")
  /\ UNCHANGED <<got, runTopic, topic, delegate, reloading, restarts, poolVars, runVars>>

CreateUnknown(r) ==     \* no such flow: the call fails with an exception
  /\ pc[r] = "creating"
  /\ Goto(r, "refused")
  /\ UNCHANGED <<callVars, managerVars, poolVars, runVars>>

(* "is already running", in execute(id, ignoreDep) and in execute(flow).    *)
AlreadyRunning(r) ==
  /\ pc[r] \in {"created", "checking"}
  /\ executing[Name[r]] # None
  /\ Goto(r, "refused")
  /\ UNCHANGED <<callVars, managerVars, poolVars, runVars>>

FirstCheck(r) ==
  /\ pc[r] = "created"
  /\ executing[Name[r]] = None
  /\ Goto(r, "checking")
  /\ UNCHANGED <<callVars, managerVars, poolVars, runVars>>

SecondCheck(r) ==       \* the check of execute(flow), then the properties
  /\ pc[r] = "checking"
  /\ executing[Name[r]] = None
  /\ Goto(r, "submitting")
  /\ UNCHANGED <<callVars, managerVars, poolVars, runVars>>

Submit(r) ==            \* new JobExecution(...), executor.execute(...)
  /\ pc[r] = "submitting"
  /\ runTopic' = [runTopic EXCEPT ![r] = topic]
  /\ queue' = Append(queue, r)
  /\ Goto(r, "queued")
  /\ UNCHANGED <<got, id, topic, managerVars, pool, runVars>>

-----------------------------------------------------------------------------
(* ExecutingFlowRunnable.run(), in the pool thread.                         *)

Listed(n, r) == executing' = [executing EXCEPT ![n] = r]

Save(r) == file' = {f \in file : f[1] # id[r]} \cup {<<id[r], r>>}

TakeRunnable ==
  /\ pool = Idle /\ queue # <<>>
  /\ pool' = <<"starting", Head(queue)>>
  /\ queue' = Tail(queue)
  /\ Goto(Head(queue), "taken")
  /\ UNCHANGED <<callVars, managerVars, runVars>>

List(r) ==
  /\ pool = <<"starting", r>>
  /\ Listed(Name[r], r)
  /\ pool' = <<"listed", r>>
  /\ UNCHANGED <<pc, callVars, managerVars, queue, flow, completed, file>>

RunFlow(r) ==           \* flow.execute() has turned the flow RUNNING
  /\ pool = <<"listed", r>>
  /\ flow' = [flow EXCEPT ![r] = "running"]
  /\ pool' = <<"running", r>>
  /\ UNCHANGED <<pc, callVars, managerVars, queue, executing, completed, file>>

FlowStartedAndListed(r) ==                \* mutant: puts the entry after execute()
  /\ pool = <<"running", r>>
  /\ Save(r)
  /\ Listed(Name[r], r)
  /\ pool' = Idle
  /\ UNCHANGED <<pc, callVars, managerVars, queue, flow, completed>>

FlowStarted(r) ==       \* execute() is back, the execution is saved
  /\ pool = <<"running", r>>
  /\ Save(r)
  /\ pool' = Idle
  /\ UNCHANGED <<pc, callVars, managerVars, queue, flow, executing, completed>>

(* "An exception almost made it back": a missing job descriptor, execute(), *)
(* before it has started anything or after, or the save.  The entry of the  *)
(* name is removed, whose ever it is.                                       *)
StartThrows(r) ==
  /\ \/ StartFails /\ pool \in {<<"starting", r>>, <<"listed", r>>}
     \/ SaveFails /\ pool = <<"running", r>>
  /\ Listed(Name[r], None)
  /\ pool' = Idle
  /\ UNCHANGED <<pc, callVars, managerVars, queue, flow, completed, file>>

-----------------------------------------------------------------------------
(* completed(status), which the flow calls once when it has ended.          *)

EndSaved(r) ==
  /\ flow[r] = "running"
  /\ Save(r)
  /\ flow' = [flow EXCEPT ![r] = "saved"]
  /\ UNCHANGED <<pc, callVars, managerVars, poolVars, executing, completed>>

EndThrows(r) ==         \* the catch block
  /\ flow[r] = "running"
  /\ SaveFails
  /\ Listed(Name[r], None)
  /\ flow' = [flow EXCEPT ![r] = "saved"]
  /\ UNCHANGED <<pc, callVars, managerVars, poolVars, completed, file>>

EndRemoved(r) ==        \* the finally block
  /\ flow[r] = "saved"
  /\ Listed(Name[r], None)
  /\ flow' = [flow EXCEPT ![r] = "removed"]
  /\ UNCHANGED <<pc, callVars, managerVars, poolVars, completed, file>>

EndRecorded(r) ==
  /\ flow[r] = "removed"
  /\ completed' = completed \cup {r}
  /\ flow' = [flow EXCEPT ![r] = "done"]
  /\ UNCHANGED <<pc, callVars, managerVars, poolVars, executing, file>>

-----------------------------------------------------------------------------
(* RefreshableFlowManager.reloadInternal(null): its idSync keeps out other  *)
(* reloads, but not createNewExecutableFlow().                              *)

ReloadRead ==
  /\ delegate < MaxReloads /\ reloading = None
  /\ ReloadRaces \/ \A r \in Requests : pc[r] # "creating"
  /\ reloading' = lastId[delegate]
  /\ UNCHANGED <<pc, callVars, delegate, lastId, restarts, poolVars, runVars>>

ReloadSet ==
  /\ reloading # None
  /\ delegate' = delegate + 1
  /\ lastId' = [lastId EXCEPT ![delegate + 1] = reloading]
  /\ reloading' = None
  /\ UNCHANGED <<pc, callVars, restarts, poolVars, runVars>>

(* AzkabanApplication.getLastExecutionId(): the ids of the files.           *)
FirstFree == 0                            \* mutant: numbering starts again

LastExecutionId ==
  IF file = {} THEN 0
  ELSE CHOOSE i \in {f[1] : f \in file} : \A f \in file : f[1] <= i

(* A crash: calls, queue, lists and flows are gone, the files stay.         *)
Restart ==
  /\ restarts < MaxRestarts
  /\ restarts' = restarts + 1
  /\ pc' = [r \in Requests |-> IF pc[r] = "new" THEN "new" ELSE "gone"]
  /\ topic' = None
  /\ delegate' = 0 /\ reloading' = None
  /\ lastId' = [m \in Managers |-> IF m = 0 THEN LastExecutionId ELSE 0]
  /\ queue' = <<>> /\ pool' = Idle
  /\ flow' = [r \in Requests |-> "none"]
  /\ executing' = [n \in Names |-> None]
  /\ completed' = {}
  /\ UNCHANGED <<got, id, runTopic, file>>

-----------------------------------------------------------------------------
CallStep(r) ==
  \/ Create(r) \/ CreateUnknown(r) \/ AlreadyRunning(r) \/ FirstCheck(r)
  \/ SecondCheck(r) \/ Submit(r)

PoolStep ==
  \/ TakeRunnable
  \/ \E r \in Requests : List(r) \/ RunFlow(r) \/ FlowStarted(r) \/ StartThrows(r)

EndStep(r) == EndSaved(r) \/ EndThrows(r) \/ EndRemoved(r) \/ EndRecorded(r)

Next ==
  \/ \E r \in Requests : Call(r) \/ CallStep(r) \/ EndStep(r)
  \/ PoolStep \/ ReloadRead \/ ReloadSet \/ Restart

Spec == Init /\ [][Next]_vars

-----------------------------------------------------------------------------
(* Type invariant: calls, managers, the pool, the lists and the files keep  *)
(* to the values their fields can have.                                     *)
TypeOK ==
  /\ pc \in [Requests -> {"new", "refused", "queued", "taken", "gone"} \cup Calling]
  /\ got \in [Requests -> Managers]
  /\ id \in [Requests -> Nat]
  /\ runTopic \in [Requests -> Topics] /\ topic \in Topics
  /\ delegate \in Managers
  /\ lastId \in [Managers -> Nat]
  /\ reloading \in Nat \cup {None}
  /\ queue \in Seq(Requests)
  /\ pool \in {Idle} \cup ({"starting", "listed", "running"} \X Requests)
  /\ flow \in [Requests -> {"none", "running", "saved", "removed", "done"}]
  /\ executing \in [Names -> Requests \cup {None}]
  /\ completed \subseteq Requests
  /\ file \subseteq Nat \X Requests
  /\ restarts \in Nat

(* An entry of executing is that of an execution under way: a stale one     *)
(* would refuse its flow for ever.  With executions of one name after and   *)
(* beside each other, whose callbacks come before or after execute() is     *)
(* back, and whatever throws.                                               *)
EntryIsLive ==
  \A n \in Names : executing[n] # None =>
    LET r == executing[n] IN
    /\ Name[r] = n
    /\ flow[r] \in {"running", "saved"} \/ pool = <<"listed", r>>

(* A run the scheduler started is recorded with the topic of its own event, *)
(* although all callers share the field.                                    *)
SchedulerTopicKept ==
  \A r \in Requests :
    Kind[r] = "scheduler" /\ pc[r] = "queued" => runTopic[r] = Topic[r]

(* The file of an execution is never overwritten by another execution, over *)
(* reloads and restarts, also when a crash comes between handing out an id  *)
(* and saving the flow.                                                     *)
NoOverwrite == [][file \subseteq file']_vars

(* When the pool and all flows have come to rest, nothing is listed as      *)
(* executing, nothing accepted is still to be started, and every execution  *)
(* that was taken is recorded as completed unless it could not be started:  *)
(* no failing save in its callback, no other execution of the same name,    *)
(* and no start that fails after the flow runs keeps it from that.          *)
AtRest == pool = Idle /\ queue = <<>> /\ \A r \in Requests : flow[r] \in {"none", "done"}

RunRecorded ==
  AtRest =>
    /\ \A n \in Names : executing[n] = None
    /\ \A r \in Requests : pc[r] # "queued"
    /\ \A r \in Requests : pc[r] = "taken" => r \in completed \/ flow[r] = "none"

(* The inductive invariants behind TypeOK and NoOverwrite.  Ids in files    *)
(* are bounded, and a reload that has begun has a manager left to make.     *)
Bounded ==
  /\ \E b \in Nat : \A f \in file : f[1] <= b
  /\ reloading # None => delegate < MaxReloads

(* What is queued, starting or running was submitted, and not refused.      *)
Submitted(r) == pc[r] \in {"queued", "taken"}

WorkIsSubmitted ==
  /\ \A i \in DOMAIN queue : Submitted(queue[i])
  /\ pool # Idle => Submitted(pool[2])
  /\ \A r \in Requests : flow[r] # "none" => Submitted(r)

(* Ids in use and in files are those given out, one for each execution.     *)
Numbered(r) == pc[r] \in {"created", "checking", "submitting", "queued", "taken"}

OneId ==
  /\ \A r \in Requests : pc[r] = "creating" => got[r] = delegate /\ reloading = None
  /\ reloading # None => reloading = lastId[delegate]
  /\ \A f \in file : f[1] <= lastId[delegate]
  /\ \A r \in Requests : Numbered(r) => id[r] <= lastId[delegate]
  /\ \A r, s \in Requests : Numbered(r) /\ Numbered(s) /\ id[r] = id[s] => r = s
  /\ \A r \in Requests : \A f \in file : Numbered(r) /\ f[1] = id[r] => f[2] = r

(* FlowManager.getNextId: "The contract around this method is that if value *)
(* X will only ever be returned once from getNextId()."                     *)
IdsUnique ==
  \A r, s \in Requests : id[r] = id[s] /\ id[r] # 0 => r = s

=============================================================================
