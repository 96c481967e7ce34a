# Azkaban, modelled in TLA+

Azkaban runs workflows: jobs described by property files in a job directory, each
after the jobs it depends on, now, on a schedule, or when an event arrives.  This
directory holds TLA+ models of the parts of it in which threads meet, the TLC
configurations that check them, and theorems about them proved with TLAPS.
Paths below are relative to `src/azkaban/src/java/azkaban/` unless they start
with `src/`.

- [1. The system](#1-the-system): its parts, their state, how they interact
- [2. The modules](#2-the-modules) and how they correspond to the code
- [3. The runs](#3-the-runs): questions, bounds, fairness
- [4. The proofs](#4-the-proofs)
- [5. Where code and documentation part](#5-where-code-and-documentation-part)
- [6. What is not modelled](#6-what-is-not-modelled)
- [7. Plan](#7-plan)

To check: `tlc -config <Run>.cfg <module>` for a run of section 3, `tlapm
<X>Proofs.tla` for the proofs.

## 1. The system

One process.  A web server with servlets, a scheduler thread, a thread that
consumes Kafka events, one pool thread that starts flows, and for every running job
a job thread and, when it ends, a callback thread.  State is kept in objects; the
file system keeps the job directory, the schedule file and its backup, and one file
per execution.

    web pages ──schedule/remove──▶ ScheduleManager ◀──ready── EventConsumerManager
        │                              │  runner thread
        │ execute(id, ignoreDep)       │ execute(id), topic
        │ execute(flow)                ▼
        └──────────────────────▶ JobExecutorManager ──getNextId/save──▶ FlowManager
                                       │ pool thread                  (reload, files)
                                       ▼ flow.execute(props, callback)
                                 flow objects (composed / group / leaf)
                                       │ job thread        ▲ completed(status)
                                       ▼                   │ callback thread
                                 ResourceThrottledJob ─▶ locks, permits
                                       ▼
                                 RetryingJob ▶ LoggingJob ▶ ProcessJob ▶ process

| Component | State | Operations | What makes it correct |
|---|---|---|---|
| Leaf (`flow/IndividualJobExecutableFlow`) | `jobState`, `callbacksToCall`, `parentProps`, `returnProps`, all under `sync`; `job`, volatile | `execute`, `cancel`, `reset`, `markCompleted`, `setStatus`; `run()` of its job thread and callback thread | every caller is told SUCCEEDED or FAILED, once; one job thread at a time; never RUNNING with nobody at work |
| Flow graph (`ComposedExecutableFlow`, `GroupedExecutableFlow`, `MultipleDependencyExecutableFlow`) | the same fields per object, `notifiedCallbackAlready` | `execute`, `cancel`, the callbacks' `completed` and `progressMade`, `reset`, `markCompleted` | a job runs once and after its dependees; the verdict is the jobs' and comes; a dependee's properties reach its depender |
| Job executor (`jobs/JobExecutorManager`) | `executing`, `completed`, `topic`, the pool's queue | `execute` (three forms), `cancel`, `run` in the pool, `completed` of its callback | the lists are those of what runs and ran; a topic belongs to its run |
| Flow managers (`RefreshableFlowManager`, `ImmutableFlowManager`, `AzkabanApplication`) | `delegateManager`, `lastId`, execution files | `getNextId`, `createNewExecutableFlow`, `reload`, `saveExecutableFlow` | an id is given out once, a file is never overwritten by another execution |
| Scheduler (`scheduler/ScheduleManager`) | `scheduleIDMap`, the runner's queue, two monitors | `schedule`, `removeScheduledJob`, `updateLocal`, `saveSchedule`, the runner's loop | one entry per job, none lost, due entries taken up, the file current |
| Schedule file (`scheduler/LocalFileScheduleLoader`) | file and backup | `saveSchedule` (four steps), `loadSchedule` | a crash costs nothing that had been saved |
| Locks and permits (`jobcontrol/impl/jobs/locks/*`, `ResourceThrottledJob`, `app/JobWrappingFactory`) | lock table, read/write locks, semaphore, `canceled` | building a group lock, acquire, run, cancel, release | writers exclude, permits are conserved, everyone gets through |
| Flow cache and restart (`CachingFlowManager`, `FlowExecutionServlet`, `ExecutionHistoryServlet`) | the last N executions in access order | get, put with eviction, reset job by job, execute again | one object in memory per execution that runs; a restart runs the rest, once; the file ends with the last state |
| Event trigger (`scheduler/EventConsumerManager`) | event queue, criteria seen | consume, check the time window, put back, make entries ready | no event vanishes, a run has its events, other entries are served |
| Times (`scheduler/ScheduledJob`, forms of `IndexServlet`) | next time, period, hours | `updateTime`, `getNextRuntime`, `checkTimeConstraints` | an entry keeps its beat and runs at its first time to come |
| Retry, logging (`RetryingJob`, `app/LoggingJob`) | attempts | run, cancel | no attempt after a cancel |
| Process jobs (`util/process/AzkabanProcess`, `ProcessJob`, `CircularBuffer`) | two latches, a flag, process id; the last lines | run, cancel, soft and hard kill; append, iterate | cancel ends the process and comes back, success is the process', output is kept |
| Serialization (`serialization/*`, `JobManagerFlowDeserializer`) | an execution as JSON | write, read | what is loaded is what was saved, and was once so |
| Flow page (`azkaban-flow.js`, `azkaban-graph.js`, `fillFlow`) | flags and classes on SVG nodes | enable, disable, all, all dependencies, execute | what is drawn is what is sent, and is what the user said |
| Job directory (`app/JobManager`, `web/JobManagerServlet`) | files, `jobDescriptorCache`, the flows | deploy a folder, edit a job, reload, look a job up | what is served is sound and is what was installed |
| Other web pages, command lines, layout | none that matters | – | – |

**What is hard here.**  Nearly every class has a monitor, and nearly every one does
something outside of it with what it read inside: the leaf reads `jobState` again
after the block that set it; the group decides in the monitor and tells afterwards;
the executor checks `executing` in the caller's thread and fills it in the pool's.
Callbacks run in other threads than the calls they answer, and may come first.
Cancel and reset change objects under running threads.  The scheduler's two monitors
are taken in both orders.  A crash may come between any two of the steps of a save,
and ids and schedules are rebuilt from whatever files there are.  The job directory
is walked by many and locked by nobody.  A page shows what one of several objects of a
job says, and posts it back minutes later.  `PROJECT.json`
lists these hazards at their lines with the properties that speak of them; a hazard
without a property says why.

## 2. The modules

| Module | Models | State and actions |
|---|---|---|
| `IndividualJob` | one leaf with any number of `execute()` and `cancel()` calls | the fields by their names; `pc` is where each call and the threads it starts are. `Execute*` are the branches of `execute`'s synchronized switch; `LoadJob … CallbacksCalled` the rest of it and `run()`; `Cancel*`, `Reset`, `MarkCompleted`, `SetIgnored` |
| `FlowExecution` | one execution of a whole graph, with all its objects | `status`, `callbacks`, `props`, `notified` per object, `monitor` while a thread makes a call inside one, and per thread a `stack` of the calls it still has to make: the top frame is its next step. One action per handler and branch: `ExecuteReady`, `GroupCompleted` (`updateState`), `GroupVerdict` (the part after the monitor), `DependeeSucceeded`, `DependerCompleted`, `CancelChildren`, … |
| `FlowInvariant` | nothing more: the inductive invariants `FlowInv`, `CancelComes` and `LiveInv` of `FlowExecution`, in a module without proofs so that TLC can be asked about them (`MCFlowExecution` extends it; add them to its cfg) | – |
| `FlowOrder` | what an execution promises: jobs wait, run, end; a job runs only after its dependees; then one verdict | `phase`, `verdict` |
| `JobLocks` | jobs acquiring permits, read locks and write locks | `phase`/`at`: where a thread is in its group lock; `table`: `ReadWriteLockManager`, with its lookup and its put as two steps; a fair queue per lock object and for the semaphore |
| `Scheduler` | schedule, its runner, its files | `pc["web"]` and `pc["runner"]` also say who holds which monitor; the steps of a save are `Snapshot`, `DeleteBackup`, … down to writing; `Restart` may come anywhere |
| `JobExecutor` | accepting, starting, listing and recording runs; ids; files | `pc` of each call, `pool`, `flow`, the lists; `ReloadRead`/`ReloadSet`; `Restart` |
| `FlowRestart` | `FlowExecution` with the web thread that resets a flow's objects and hands it to the executor again | `web`: that thread's frames; `TraverseFlow`, `ResetFailedFlows`, `ResetLeaf`, `ResetGroup`, `ResetComposed`, `IgnoreLeaf` (a disabled job), `SubmitAccepted`/`SubmitRefused`; a request is `ByExecution` or `ByHistory`. Callbacks of a group carry the generation they were made in, as `reset()` makes a new one |
| `FlowCache` | executions in memory and on disk: the cache, pages that load, show and restart, the executor's saves | `cache` in access order; `save[i][s]` is one save with its serialized text; `disk`, where a file is emptied before it is written; `thread` and `waiting` are the pool; at its end the inductive invariants `CacheInv` and `FileInv` |
| `FlowFile` | `FlowExecution` with its saves: the serializer reads leaf after leaf, a job after its dependees (`NextLeaves`), the deserializer makes objects of the text | `saver`, `file`, `poolSaved`, `whole` (are the leaves read at once?); `LoadedLeaf`, `GroupState`, `ComposedState` are what loading makes of it |
| `EventTrigger` | one entry that waits for events, and another one | `messages` (the queue), `matched` (`criteriaCheck`), `offset` and what Kafka knows of it; `runner` goes through `consume`, `checkCriteria`, execute and reset; `HourPasses` |
| `ScheduleTimes` | the times of one entry, from the form to the file | `AskForTime`, `AskForTrigger`, `UpdateTime`, the loop of `getNextRuntime`, `Restart` after a downtime |
| `JobProcess` | a job that starts processes, its retries, a thread that cancels it | `run` and `cancel` are the two threads' steps, `os` the processes; both classes' latches |
| `LogBuffer` | the buffer of log lines between the thread that fills it and the one that reads it | `lines`, `start`, `modCount` as far as it matters; the iterator over one list or two sublists |
| `FlowPage` | the flow page, and the execution whose states it shows | a node's `enabled`, `class` and `recurseID`; `leaf` and `composed` states behind `FlowStatus` |
| `FlowEdits` | what the page's menu promises: a set of disabled jobs | `off`, `edit` |
| `JobFolder` | the job directory, deployers, reloads, lookups | `files`, `folders`, `cache`, `flows`; a load reads one folder a step (`ReadFolder`). `alone`, chosen in the initial state, is about the environment: one deployer that deploys folders and whose moves succeed, or several |
| `MC…` | small instances for TLC | graphs, lock lists, entries, requests, uploads; parts, see below |
| `…Proofs` | theorems about the module they are named after; `FlowEndProofs` goes on from `FlowExecutionProofs` and is also about `FlowFile` and `FlowRestart`; `JobFolderProofs` is also about `FlowPage`, `JobProcessProofs` about `LogBuffer`, `SchedulerProofs` about `EventTrigger`, `JobExecutorProofs` about `FlowCache` | – |

**Parts.**  Four MC modules hold more than one system, so that one run can ask about
related things: `MCIndividualJob` the leaf, its process and its log lines
(`IndividualJob`, `JobProcess`, `LogBuffer`); `MCScheduler` the schedule, a trigger and
an entry's times (`Scheduler`, `EventTrigger`, `ScheduleTimes`); `MCJobExecutor` the
executor and the cache (`JobExecutor`, `FlowCache`); `MCJobFolder` the directory and the
page (`JobFolder`, `FlowPage`).  The systems of one MC module share no state.  A variable `part`, chosen in
the initial state, says which of them the behaviour is about; the others stay in an
initial state.  So a run over three parts has the states of the three runs, one beside
the other, never their product, and an invariant of one part says nothing in the
behaviours of the others.

How they fit together: `JobExecutor` treats a flow as something that runs and then
calls back once; that it does is `RoundAnswered` and `OncePerRound` of `FlowRestart`.
`FlowExecution` gives each leaf one job thread and one callback thread and treats
it at the grain of its synchronized blocks; what repeated executions, resets and
many callers of one leaf do is `IndividualJob`.  `Scheduler` ends where it calls
the executor (`RunnerExecute`), `JobExecutor` begins there (`Call`).  The inner job
of a leaf is `JobLocks`' job.  `FlowExecution` implements `FlowOrder` under the
refinement mapping at the end of the module: a job's phase is its composed flow's
once that has ended and its leaf's before.  `FlowRestart` and `FlowFile` EXTEND
`FlowExecution`: their steps are its steps and those of one more thread, which resets
or saves the same objects.  `FlowCache` stands above them: there an execution is one
object with a state, and its saves one text.  `FlowPage` begins with what the server
says of an execution and ends where `FlowRestart` begins, with the jobs to disable; it
implements `FlowEdits` under `off <- Off, Jobs <- PageJobs`.  `EventTrigger` is the part of `Scheduler`'s
runner that an entry with a topic goes through, `ScheduleTimes` the arithmetic both
leave out.  `JobProcess` is what a leaf's job does once it has its locks.  `JobFolder`
is the reload `JobExecutor` takes as one step.

Grain.  A step is one synchronized block, or one read of a shared field outside of
any.  Where a call is made inside a monitor (the composed flow calls back inside
its own), the monitor is a variable and other threads wait for it.  The `definition →
lines` table of `PROJECT.json` names the code of every definition.

Operators whose comment says *mutant* are never used by a specification.  Each is a
plausible bug in the operator below it; substituting it must break the property it
is listed with in `PROJECT.json`, which shows that the property can fail.

Modelling decisions a reader may ask about:

- *The pool is one thread.*  `JobExecutorManager.java:80` makes a
  `ThreadPoolExecutor` with no core threads and an unbounded queue; such a pool
  starts a second thread only when the queue is full, so never.
- *Reports may throw.*  `ReportFails` stands for exceptions of the mail, Kafka and
  descriptor code inside the leaf's final synchronized blocks, `SaveFails` for those
  of the file system, `StartFails` for those of starting a flow.  Each is a constant,
  so that a property can be checked with and without.
- *Resets.*  The comment above `loadJob` expects a flow to be reset after it
  finished.  `ResetEarly = FALSE` models callers who keep to that: no reset while a
  job thread works.  The code asks less, only that the state is not RUNNING;
  `ResetEarly = TRUE` models the code alone.
- *Time* in `Scheduler` is the fact that an entry is due; among due entries any may be
  next.  `EventTrigger` counts hours of a short day, `ScheduleTimes` hours from the
  first midnight, with days of six hours; a period's units (months are longer than
  others) are not kept.
- *The graph.*  `buildLegacyFlow()` takes only jobs that are found from the root
  (`FoundFromRoot` of `FlowExecution`), and comes to an end only if dependencies do
  (`DependenciesEnd` of `FlowExecution` and `FlowPage`); both are assumptions about the constants, which TLC
  evaluates.
- *Two pages at once.*  `FlowCache` has `PagesRace` and `SavesRace`, so that what holds
  without overlapping loads, or saves, can be checked by itself; `RestartSizes` are the
  sizes of the cache with which pages restart executions, for the same reason.  `FlowFile` has `Whole`
  in the same way: a save as one step, or one step for each leaf.
- *Statements nothing checks.*  A few modules state what a comment, a test or a page
  says and the code does not do (`AllPropsGiven`, `OthersOnTime`, `SoftKillSignals`, …).
  They are kept beside the properties that do hold; section 5 says what refutes each.
- *Broken messages* are part of `EventTrigger`'s messages; what an entry loses by them
  is `StaysScheduled`, and `Accounted` holds all the same.
- *The system's processes* are external: they end when they like, may ignore TERM, and
  end when destroyed.

## 3. The runs

Eleven runs that pass and one that ends in a counterexample.  Invariants that are
conjunctions of named parts list those in parentheses.

| Run | Question and properties | Bounds and why they are enough |
|---|---|---|
| `IndividualJobOnce` (`MCIndividualJob`) | *Leaf:* is every caller that joins an execution answered, with a verdict, and the same one? `EveryCallAnswered`, `SameVerdict` (`ToldOnlyVerdicts`). *Process:* does a job leave no process behind, tell the truth of its processes, and end when cancelled? `NoneLeftBehind` (`CancelHolds`), `RunIsHonest`, `CancelEnds`. *Lines:* does the buffer hold the last ones? `HoldsTheLast` | 3 calls, 2 cancels, 2 property values, no reset: one call starts the job, one joins, one comes late, and a second cancel finds the state the first left. Both classes of process job, two commands, up to two retries: a cancel meets the first, a middle or the last process. A buffer of 3 and 7 lines wraps twice |
| `IndividualJobReset` (`MCIndividualJob`) | Over resets and reports that throw, is a callback ever lost or called twice, or a flow left RUNNING with nobody at work? `NoCallbackDropped`, `ToldAtMostOnce`, `RunningHasWorker` | 2 resets, so that threads of two earlier executions overlap with the third; calls and cancels are interchangeable and no property is temporal: symmetry |
| `FlowExecutionDiamond` (`MCFlowExecution`) | Do the objects, callbacks and threads of a flow do what `FlowOrder` promises, with reports and saves that throw, as long as nobody cancels? When a cancel has returned, is any job still running or to be run? `ImplementsFlowOrder`, `CancelReachesAll` | a diamond: a group, a shared dependee, a job with one and a job with no dependee; of the jobs, the shared dependee and one between disabled or not (`SomeInit`); dependencies skipped or not; a cancel at any point, after which the promise's order of failures is no longer claimed |
| `FlowRestartAnswered` (`MCFlowRestart`) | Cancelled, or restarted up to twice: does each job that is to run do so once and after its dependees, is the verdict the round's, is each round answered? `RerunsTheRest` (`RestartTypeOK`, `OncePerRound`), `RunsAfterDependees`, `VerdictOfRound` (`SuccessIsComplete`), `RoundAnswered` | a job that is a direct and an indirect dependee, so two objects are restarted for it, and two traversals meet it; a round after a round after a round. `Apart`: a cancel or restarts, not both, and the second restart from the history page with no job disabled before |
| `FlowRestartDuring` (`MCFlowRestart`) | Can one request to restart a running flow close a circle of waiting threads? `NoWaitCycle` (a second one can, on a larger graph: section 5) | a chain of two: composed flow over leaf over leaf has both orders of monitors; a request from either page and a cancel at any point; the root disabled or not |
| `FlowFileSaved` (`MCFlowFile`) | Is what is loaded a state the execution was in, and in the end the one it ended in? `FileIsAState` (`FileTypeOK`, `NothingInvented`), `LoadedAsSaved` (`SavedInTheEnd`) | a dependee both direct and indirect, so two objects write one job, and a third branch that may fail before the others end. `ApartSpec`: cancels where the third branch is disabled, saves leaf by leaf where another one is, too |
| `JobLocksOrdered` (`MCJobLocks`) | `ExclusiveWriters`, `PermitsConserved`, `NoDeadlock`, `GetsThrough` | three jobs, two resources, two permits: a reader between two writers, a queue of two, a job that needs all permits |
| `ScheduleKept` (`MCScheduler`) | *Schedule:* is anything lost, doubled or run again by replacing, removing, running and crashing? `OneEntryPerId`, `RecurringStays`, `FileCurrent`, `OneTimeOnce`, `CrashKeepsSaved`. *Trigger:* `RunIsWarranted` (`Accounted`). *Times:* `NextIsFirst`; `WindowIsRange`, which has no variables, is assumed and so evaluated | two jobs with a recurring entry each and two one-time entries for one of them, 4 calls, 2 crashes at any step of a save: the second crash meets the backup of the first. Two criteria, three messages of every kind with broken ones, one replacement, one crash, a day of three hours with a window of one. All pairs of hours of a day of six, periods from 0 up, downtimes on both sides of the limit of increments (5 for 100000) |
| `ScheduleServed` (`MCScheduler`) | Is a due entry taken up, do others get their turn beside a trigger that waits for its hours, does a full set of events lead to a run? `DueIsServed`, `OthersServed`, `TriggerRuns` | jobs and saves that throw, 2 calls, no crash; a window that passes midnight; messages that fit one criterion each |
| `SchedulerLockOrder` (`MCScheduler`) | Is a due entry always taken up? `DueIsRun`: no, see section 5 | 2 calls |
| `ExecutorRuns` (`MCJobExecutor`) | *Executor:* is the list of executing flows without stale entries, is a file ever overwritten? `EntryIsLive`, `NoOverwrite`. *Cache:* is there one object of each execution in use, and does its file end with the last state? `SameInstance` (`OneRuns`), `LastStateSaved` | three calls for two flows, so one follows and one runs beside the other, a reload, a crash, saves and starts that fail. Two executions and two pages with a cache of one and of two. The executor reloads or is restarted, not both (`ExecutorStep`); Restarts only with a cache of two (`RestartSizes`), and so a crash, of a server with one execution (`Apart`) |
| `DeployedAndEdited` (`MCJobFolder`) | *Directory:* is what is served sound; with one deployer, can the directory always be loaded and is what was installed served? `ServedIsSound`, `AloneIsServed`. *Page:* are the flags a set edited as the menu says, and is what is drawn what is sent? `EditsTheSet`, `SeenIsSent` | two folders; uploads that replace, extend, or would break the directory, one with a job that depends on itself; edits, moves that fail; `alone`: three deployments of one deployer, else two of several. Three jobs with a shortcut, two recursive edits (marks are never cleared), both before the first of two executions (`EditedBefore`) |

What they do not show: restarts of a cancelled flow, or by both pages of one that is larger than
three jobs; crashes of the cache with two executions; more than one trigger, which in
the code share the runner only.

**Bounds.**  `MaxResets`, `MaxCalls`, `MaxRestarts`, `MaxReloads`,
`MaxEvents`, `MaxReplaces`, `MaxDeploys`, `MaxCrashes`, `MaxPosts` limit how often the
environment acts, `MaxRecursions` how often a page's recursive edit is used, `MaxLines`
what a process writes, `MaxRetries` the attempts of a job, `Horizon` how long time
passes; each call, entry or request of the constant sets is used once,
except schedule entries, which may be made again once nothing refers to them.  No
bound cuts a thread short.

**Fairness.**  `FairSpec` of a module (in `FairPartSpec` of the MC modules with parts)
makes weakly fair the steps of threads that run, and only
those: the JVM schedules every runnable thread, a job that was started ends, fair
locks (`new ReentrantReadWriteLock(true)`, `new Semaphore(n, true)`) grant in order.
Nothing is assumed of callers, cancels, resets, crashes, requests.  In `Scheduler` taking
a given due entry is strongly fair, as the priority queue hands out the earliest entry
first and an entry put back is due later than one that waits.
In `EventTrigger` the runner, the consumer thread and the clock are weakly fair; `Prompt`
says that the runner's steps take no time counted in hours, without which it may be
preempted through every window.  `JobProcess` makes both threads fair and assumes of
processes only that a destroyed one ends.  `JobExecutor` needs no fairness: what must
happen in the end is stated of the states in which the pool and all flows have come to
rest (`RunRecorded`), and so does `FlowFile` (`SavedInTheEnd`).

**Deadlock** is checked in the flow and lock models, where all threads finished is a
stutter of its own (`Quiesced`) or never the end (`JobLocks` starts jobs again).
The other systems may stop when the bounds on calls are used up; their cfgs say so.

## 4. The proofs

| Theorem | Says | For |
|---|---|---|
| `IndividualJobProofs!TypeCorrect` | `[]TypeOK` | any calls, cancels, properties, resets |
| `IndividualJobProofs!RunningIsWorked` | `[]RunningHasWorker` | the same, with `ResetEarly` either way |
| `IndividualJobProofs!NothingDropped` | `[](OneJobThread /\ NoCallbackDropped)` | any number of each, if `ResetEarly = FALSE` |
| `IndividualJobProofs!CalledAtMostOnce` | `[]ToldAtMostOnce` | the same, if `ResetEarly = FALSE` |
| `IndividualJobProofs!OneVerdict` | `[]SameVerdict` | any calls and cancels, without resets |
| `FlowExecutionProofs!TypeCorrect` | `[]TypeOK` | any dependency graph without circles whose jobs are found from the root, any jobs disabled, cancelled at any point, reports and saves failing |
| `FlowExecutionProofs!InvAlways` | `[]FlowInv` | the same |
| `FlowExecutionProofs!JobsRunAfterDependees` | `RunsAfterDependees` (`[][...]_vars`) | the same |
| `FlowExecutionProofs!CancelReachesEveryJob` | `[]CancelReachesAll` | the same |
| `FlowExecutionProofs!FlowKeepsOrder` | `ImplementsFlowOrder`: the refinement of `FlowOrder` until a cancel | the same |
| `FlowEndProofs!NobodyIsForgotten` | `[](FlowInv /\ LiveInv /\ ToldOnce)` | the same, if `Careful`: reports and saves do not fail |
| `FlowEndProofs!CallerIsAnswered` | `[]Answered` | the same, if `Careful` |
| `FlowEndProofs!SavesOnlyWatch` | `FileSpec => Spec`: `FlowFile` implements `FlowExecution` | the same, any saves |
| `FlowEndProofs!FileNeverLies` | `[]FileIsAState` | the same, if `MaySkip = FALSE` |
| `FlowEndProofs!FileKeepsTheEnd` | `[]LoadedAsSaved` | the same, if moreover `Careful` |
| `FlowEndProofs!OnlyResetsBlock` | `[]FlowThreadsMove`, of `RestartSpec`: no circle of waiting threads without the web thread | any graph, any number of restarts at any time, cancels, reports and saves failing |
| `FlowEndProofs!RestartsNeverBlock` | `[]NoWaitCycle`, of `RestartSpec` | the same, if `WhileRunning = FALSE`: requests come when the execution is over |
| `JobLocksProofs!TypeCorrect` | `[]TypeOK` | any jobs, lists, permits |
| `JobLocksProofs!NoConflicts` | `[]ExclusiveWriters` | any jobs and lists (in any order) that are `Settled` |
| `JobLocksProofs!NoCircle` | `[]NoDeadlock` | the same, if moreover `ReadsFirst` and the resources have a greatest one |
| `JobLocksProofs!NoPermitLost` | `[]PermitsConserved` | any jobs, lists, permits, cancels and failures |
| `SchedulerProofs!TypeCorrect` | `[]TypeOK` | any entries, calls, crashes |
| `SchedulerProofs!OneSchedule` | `[]OneEntryPerId` | the same |
| `SchedulerProofs!OnceForAll` | `[]OneTimeOnce` | the same, whatever fails |
| `SchedulerProofs!RecurringKept` | `[]RecurringStays` | the same, if `ExecuteFails = FALSE` |
| `SchedulerProofs!CrashLosesNothing` | `CrashKeepsSaved` (`[][...]_vars`) | the same, if `SaveFails = FALSE` |
| `SchedulerProofs!NoUpdateLost` | `[]FileCurrent` | the same, if neither fails |
| `JobExecutorProofs!TypeCorrect` | `[]TypeOK` | any calls, flows, names, reloads, crashes |
| `JobExecutorProofs!NoStaleEntry` | `[]EntryIsLive` | the same, any saves and starts failing |
| `JobExecutorProofs!EveryRunRecorded` | `[]RunRecorded` | the same |
| `JobExecutorProofs!TopicKept` | `[]SchedulerTopicKept` | the same |
| `JobExecutorProofs!NothingOverwritten` | `NoOverwrite` (`[][...]_file`) | the same, if `ReloadRaces = FALSE` |
| `JobExecutorProofs!OneInstance` | `[]SameInstance` | any executions, pages and crashes, if `RoomForAll` |
| `JobExecutorProofs!EndIsOnDisk` | `[]LastStateSaved` | the same, if moreover `SavesRace = FALSE` |
| `JobProcessProofs!TypeCorrect` | `[]ProcessTypeOK` | any number of commands and retries, a cancel or none |
| `JobProcessProofs!NothingGoesOn` | `[]NoneLeftBehind` | the same |
| `JobProcessProofs!TellsTheTruth` | `[]RunIsHonest` | the same |
| `SchedulerProofs!TriggerTyped` | `[]TriggerTypeOK` | any criteria, messages, hours, periods, crashes |
| `SchedulerProofs!RunsAreWarranted` | `[]RunIsWarranted` | the same |
| `JobFolderProofs!ServedSound` | `[]ServedIsSound` | any folders, jobs, deployers, runners, requests, with moves that fail |
| `JobFolderProofs!TypeCorrect` | `[]TypeOK` | the same |
| `JobFolderProofs!AloneServed` | `[]AloneIsServed` | the same; what it says is about one deployer alone |
| `JobFolderProofs!PageInvAlways` | `[]PageInv` | any jobs whose dependencies end, any states the server gives, any edits and posts |
| `JobFolderProofs!EditsAreOfTheSet` | `EditsTheSet`: the refinement of `FlowEdits` | the same |
| `JobFolderProofs!WhatIsSeenIsSent` | `SeenIsSent` (`[][...]_pageVars`) | the same |
| `JobProcessProofs!BufferTyped` | `[]BufferTypeOK` | any size and number of lines |
| `JobProcessProofs!LastLinesHeld` | `[]HoldsTheLast` | the same |

All rest on the named `ASSUME`s of their modules, which say of what type the constants
are, and on nothing else but the hypotheses in the table.  `Settled` and `ReadsFirst` are
definitions of `JobLocks`, about the job files: the code guarantees neither (section 5), and the
instance of `JobLocksOrdered` meets both.  `RoomForAll`, of `FlowCache`, says that loads
overlap neither each other nor the start of a flow, that the cache is at least one large,
and that where pages restart executions it has room for all of them; without any of
these `SameInstance` fails (section 5).  `ExecutorRuns` meets it with both sizes of its cache.
The type invariants of these
modules, `RunRecorded`, `SchedulerTopicKept`, `Answered`, `ToldOnce` and `LiveInv` are proved and in no
run; TLC had confirmed the last three on the diamond and on a graph with a shortcut.

*The flow.*  What a thread still has to do is on its stack, and each frame there was
pushed on account of something that was true then.  `FlowInv` says that it is true until
the frame is taken (`Says`): who is about to run a job knows that its dependees have
ended well, who is about to tell a verdict knows that the object has it.  This needs that
nothing is told twice: `OneToken` says of each job's turn, of the right to run it and of
the root's caller that at most one frame or one object has it, so a frame that
carries it excludes every other claim.  `GroupsKnow` says that a group which has ended
knows its children, `TurnsCome` that a job whose turn is still to come has not run.  No
conjunct is inductive by itself: what a frame knows could be undone by a second frame
with the same token, and that there is no second one rests on what objects know.  The
proof takes each action apart in the same three ways: `Moves` (thread t takes its first
frame, others come in its place), `Passes` (who had each token and who has it now),
`Effects` (what the step did to an object); `StepKeeps` puts them together once.  TLC
had confirmed `FlowInv` and `CancelComes` on the diamond (257,923 states) and on three jobs
with a shortcut (60,369).

*CancelReachesAll* needs `CancelComes`: while a leaf may still run after a cancel began,
the canceller's stack has a frame that cancels something the leaf is under.  A step of
another thread leaves that stack alone; one of the canceller replaces its first frame by
frames that cover what it covered (`CancelFramesReach`, which unfolds the least set
`Below` once).

*CallerIsAnswered.*  `FlowInv` says that nothing is told twice; `LiveInv` that nothing is
forgotten.  `NoTokenLost`: each token is with a frame or an object.  `DependeesAwaited`: of a
group that was executed, every dependee the loop has come to has ended, or has the group's
callback in its list, or a frame is about to execute it.  `VerdictsComing` and `EndsComing`
are the two halves of the group's unlocked decision: a group with a verdict it has not told has a
callback that will tell, and one whose dependees have all ended, but which has not noticed, has
still to hear of one of them.  The second is the delicate one: of two callbacks that
come at once the first may find the other's dependee RUNNING, and only the other one
may tell.  In the end no frames are left; an object that still waits then
waits for an object below it, and among the jobs that wait one has no dependee that does,
because dependencies end (`DependenciesEnd`: `Flows.buildLegacyFlow` puts a flow together after
those it depends on, so a circle gives no flow).  Without `Careful` both statements fail:
a report that throws drops the leaf's list (section 5).  `Answered` is no liveness: that the
threads do come to their end is what fairness gives.

*FileNeverLies.*  Saves touch nothing of the flow (`SavesOnlyWatch`), so all of the above
holds under them.  `TextInv` says of the file, and of what every save has read so far, that a
leaf it calls ended well has ended well, which stays so (`EndsHold`).  That a job's dependees
are in a file that has it as SUCCEEDED needs that they were done when it began, and still are:
`AfterDependees`, with `ComposedKnow` (a composed flow that succeeded has a leaf that did).
Both are inductive only where nobody skipped dependencies (`NoneSkipped`).  What the loaded
flow is, is a recursive function; the proofs use the one step it unfolds to
(`LoadedFacts`), which holds because dependencies end (`LoadedIs`: there is a function that
solves the equation, put together from those of the jobs below).

*FileKeepsTheEnd.*  `SaveComes`: until a cancel, and where a save takes all leaves at once, the
file has the states of all leaves, or a save is due: the pool's, one that has begun, or one
that a frame will make (`WillSave`).  `Does` says of a step which leaf and composed flow it may
change and which frames it leaves: who changes a leaf leaves a frame that will save, and such
a frame is replaced by another one or begins a save, unless it tells nobody, which
`ListsFull` and `CallersKnown` exclude.  At the end there are no frames and no saves, so the
file is up to date.  That the loaded flow ended as the real one needs `ComposedEnded`: a
composed flow failed with its leaf, or without it after a dependee; which flow is FAILED
goes up the dependencies (`FailedLoaded`).  Leaf by leaf saves, cancels and failing
saves do lose an end: section 5 and the hypotheses say which.

*OnlyResetsBlock* and *RestartsNeverBlock.*  Monitors have an order: `Rank` puts a job's group
below its leaf, the leaf below the composed flow, and all of them below the groups of the
jobs that depend on it, since these have more jobs below them (`HeightGrows`; a flow
is finite because dependencies end and each job has a list of them).  A call from inside
a monitor goes up in it: `CalledBy` bounds whom an object may have in its list, in this
execution or in an earlier one, which is what makes the invariant hold over restarts,
when nothing else is known of old callbacks.  `MonitorInv` says, besides types, that above a
frame which will give a monitor back there are only frames that want greater ones
(`StackOrdered`), and that who holds a monitor has such a frame (`HoldersGiveBack`).  `Turn` says of each
action what the proof needs to know; of the monitors wanted in a circle the greatest is
held by somebody who wants a greater one.  The web thread goes the other way, from a
composed flow to its depender, so a circle needs it.  If requests come only after an
execution, it waits for nobody: `QuietInv` says that while it has frames the others have
only those of a cancellation, which holds no monitor and, since a READY leaf has no
callbacks and a RUNNING one has its frame (`LeavesServed`), starts nothing that would.  TLC had
confirmed `QuietInv` on the shortcut with one restart, cancels and everything failing
(1,062,123 states).  Without the hypothesis the statement is false (section 5), but by
`OnlyResetsBlock` only through the web thread.

*FlowKeepsOrder.*  The refinement, step by step: a leaf that begins is `FlowOrder`'s start,
which asks that the dependees be ok; the frame that executes it says so.  A
composed flow that fails without its leaf having run is a job that is passed over; one
that ends after its leaf changes no phase (`ComposedOrdered`).  Everything else is a
stutter.

*RunningIsWorked.*  Lemma `WorkStep` sorts all steps into three kinds: one that turns
READY into RUNNING and makes its own thread a worker; one that ends in SUCCEEDED or
FAILED; one that neither makes the flow RUNNING nor lets a worker stop.  With types,
`RunningHasWorker` is inductive under each.

*NothingDropped.*  `NoCallbackDropped` alone is not inductive: a job thread that finds
`job = null` dies with its list not yet taken.  `DisciplinedInv` adds that no thread
works on a READY flow, that only one thread works, and so that nobody sets `job` to null
under a thread that needs it.  The one that stops the induction without the
assumption is `NoWorkBeforeExecute`: a reset under a working thread breaks it.

*CalledAtMostOnce.*  `ToldOnceInv`, on top of `DisciplinedInv`: what is registered with a
RUNNING flow, the job threads' lists and the cancels' lists are pairwise disjoint
(`HeldOnce`), a callback in any of them has been told nothing, and so has one whose call
was not accepted yet.  `callbacksToCall` outlives the execution until a reset replaces it;
`LeftOver` says that nobody works then who could take it once more.

*OneVerdict.*  `VerdictInv`: once a thread reports, the status is final; without a
cancel the status a thread has read for telling is the one that stands, and everything told
is that one.  A second execution would bring a second verdict, hence no resets.

*NoConflicts.*  `LockInv` says, besides types: a thread that acquires has a request at
its index (`AtRequest`); every job that got a lock object for a resource got the one
in the table (`OneTable`, which needs `Settled`: no two jobs are the first ones to
name a resource); a job between grant and release of a request is among that lock
object's readers or is its writer (`LocksHeld`), also in the middle of a release,
which goes through the list in the same order as acquiring; a lock object with a writer
has no other reader (`OneWriter`).  Two running jobs hold everything they name, on
the same objects, so they cannot conflict.

*NoCircle.*  Waiting must end somewhere, although jobs wait for holders and for jobs before
them in a queue.  `HoldersHold` is the converse of `LocksHeld`: who is recorded with a lock
object has the request behind it.  `QueuesOfWaiters`: in a queue stand only jobs that wait
at just this lock object, each once.  A group lock asks for permits first, then for its reads in
order, then for its writes in order (`GroupLockFacts`); with `ReadsFirst` the list as a whole is
ordered.  Of a set of jobs in which everyone waits, take the greatest resource somebody
waits for, and of the jobs waiting there the first in the queue: it waits for a holder, who
waits for something greater.  That there is a greatest one is the well-foundedness of
`<`, as the resources are bounded.  Permits come first in every list, so who waits for
them has nothing another one waits for, and stands in no circle (`WaitsFor`).

*NoPermitLost.*  Free permits and the set of pairs of a job and a number of a permit it
holds have a constant sum; a set, since the prover knows cardinalities and not
sums.  `PermitsInv` adds that the set is finite and that a job's place in its list tells
whether it has permits: they are asked for first.

*OneSchedule.*  `OneEntryInv` adds to one-per-job of queue and runner: the map knows
every entry of the queue except the one being removed; the entry about to be added
has no rival left; and the same one-per-job for both files and both threads' snapshots,
since a restart turns any of them into the queue.

*The rest of the scheduler.*  All of it stands on `OneEntryInv`.  `RecurringStays` needs that a
web thread between its two steps still has the entry the map had before
(`RemovesTheOld`).  `OneTimeOnce` needs `ExecutedIsOver`: an entry that was executed is due,
and neither queued nor about to be, so no restart loads it and no second round finds it.
`DiskIsSaved` goes through the steps of a save: file or backup hold what was saved last,
but for entries whose time has passed (`Same`) and except while the new file is
empty.  `SavesTheLast` says that of the two threads one at a time saves, and that
the list it took is still the schedule, but again for what has passed.  Both need that a save
does not end halfway, `SavesTheLast` also that no entry falls out of memory unsaved.

*The executor.*  `TypeOK` needs `Bounded`: the id a restart goes on from is the largest
in the files, a `CHOOSE` that denotes a number only if the files are bounded; that one is
then found from `<` being well-founded on `Nat` (`LastIdFacts`).  `EntryIsLive` is
inductive with the types.  `RunRecorded` speaks of rest only; behind it `Recorded` says
that a call marked queued is in the queue, and that a flow that is done is in
`completed`; with `EntryIsLive` nothing is listed at rest either.  `TopicHeld`: while the
scheduler is between its writing of `topic` and the reading of it, the field holds its
topic, since web pages never write the field and there is one scheduler thread.
`NoOverwrite` follows from `OneId` (an id in use or in a file is one execution's, and at
most the manager's `lastId`) and `WorkIsSubmitted` (only a submitted call is ever saved).
`OneId` is where the assumption enters: a reload between a creation's reading of the
manager and its `getNextId()` counts the id on a manager that is no longer consulted
(section 5).

*The cache.*  `CacheInv` treats the sizes of the cache apart.  With one that has room for all, nothing
is ever evicted, since the cache has one entry of an execution at most
(`NoMoreThanIds`, by the cardinality of an injection), and the one object of an execution
in memory is in the cache, or new and not yet there, or in the hands of the one page that
puts it there (`Found`).  With a smaller one only objects that were created ever
run, and those are in the cache from before they run until they end, as eviction
spares what is RUNNING and the pool's thread puts an object there just before it executes it
(`ThreadOK`); nobody loads meanwhile.  `FileInv` says that while the last state of an
execution that has ended is not on disk, a save is due that has still to read the
state, or is writing that state (`Brought`).  A save that is due reads the state of its own
object; that this is the state reached last rests on `OneWorker`: of the objects that save,
one per execution is in memory.  TLC had confirmed both with two executions, two pages
and sizes one and two (1,939,691 states).

*Processes.*  `ProcessInv`: `Counted` bounds the processes made by attempts and commands
(also what a new one needs to have a number); `OnlyTheLatest` says that a process is alive
only between its start and the end of `waitFor()`, and that the commands before it in this
attempt succeeded; `KillsTheOne` says which process a cancel reads from the field, in
particular that a cancel which got beyond `softKill()` met the only process of a job
that is not retried, so that nothing is started after it.

*RunsAreWarranted.*  `TriggerInv`: a delivered message is in the queue, in the runner's hand
or done, and in one of these only (`InOnePlace`); those of satisfied criteria and of runs are
done (`Handled`), so the one in hand is none of them when a criterion takes it.  The length
of the queue is the number of its messages since none is there twice (`AsManyElements`).
`InTime` is there for the types: what has passed of a period is less than the period.

*ServedSound.*  The invariant is `ServedIsSound` with `Accepted`: a thread about to
publish has read files that can be loaded.  Files that can be loaded have sound
descriptors (`LoadsSound`), and what the roots lead to of a sound set is sound, being the
least set closed under dependencies (`FromClosed`, `BuiltSound`).  It needs nothing of
what other threads do to the directory: the code checks what it has read, not what is
there.

*AloneServed.*  `Claims` says, at each step of the one deployer, which files it has read
or will leave behind, and that those can be loaded; nobody else changes files, so what it
verified is what it publishes.  That every job gets a flow unless some depend on
themselves (`AllBuilt`) goes by a minimum instead of an induction: among the jobs
without a flow one that the fewest jobs lead to would be a root.

*The page.*  `PageInv`: a node is drawn faded if and only if its flag is off (`FadedIsOff`); marks
are those of earlier recursive edits, so the mark of a new one keeps no node out;
what an execution has run shows it (`Executed`); what had succeeded before the page was
loaded is off until it is edited (`FreshIsOff`).  The recursion over the dependencies is a
recursive function; that it computes the least closed set of `FlowEdits` needs that
dependencies end: of the jobs on which the two differ one has no dependency among them
(`RecursivelyIsWith`).

*LastLinesHeld.*  `HoldsTheLast` speaks of the states between two calls of `append()`;
the invariant says of the state inside one that the new line has replaced the oldest and
`start` still points at it.  The lemmas are one for each step of `append()`, split where
`start` returns to 0; `AtInRange` keeps the index arithmetic modulo the size in one place.

TLC only: everything temporal under fairness (`EveryCallAnswered`, `CancelEnds`,
`RoundAnswered`, `GetsThrough`, `DueIsServed`, `OthersServed`, `TriggerRuns`), which is out
of the prover's reach; `NoWaitCycle` with one request while the execution runs, for which
nothing is known of larger graphs; `RerunsTheRest` and `VerdictOfRound` of `FlowRestart`,
whose web thread breaks what `FlowInv`
says (objects are reset under frames that know them as they were), so that they need an
invariant of their own; `NextIsFirst`, whose loop over the periods is an
induction over data.

## 5. Where code and documentation part

Shown by the run `SchedulerLockOrder`:

- **The schedule stops.**  The runner holds its monitor and wants the manager's
  (`ScheduleManager.java:296`), `schedule()` and `removeScheduledJob()` the other way
  round.  `DueIsServed`, with this circle as its one exception, holds.

Statements of the modules that the code does not meet, and how to see it: change the
constants named in the cfg and check the statement.

| Statement, of | Says | What refutes it | With |
|---|---|---|---|
| `EveryCallAnswered`, `IndividualJob` | `flow/ExecutableFlow.java:53`: all callbacks are called | the job thread mails and publishes inside its last synchronized block (`IndividualJobExecutableFlow.java:242-309`); if its job is no longer in the directory (`get(job.getId())` at line 251 is null) or `producer.send()` throws (line 290; in a servlet container nobody makes the producer, which only `AzkabanApp.java:148` does) the thread ends first | `IndividualJobOnce`, `ReportFails = TRUE` |
| `AllPropsGiven`, `FlowExecution` | `flow/GroupedExecutableFlow.java:40`: return properties of all sub flows are aggregated | a group reads a leaf's state and properties between the leaf's two assignments (`IndividualJobExecutableFlow.java:243`) | a job with three leaves as dependees, no cancel |
| `RoundAnswered`, `FlowRestart` | `flow/ExecutableFlow.java:53` | the page resets parts that have ended before the executor refuses a flow under way (`FlowExecutionServlet.java:222`) | `FlowRestartDuring` under `FairRestartSpec` |
| `NoWaitCycle`, `FlowRestart` | `flow/ExecutableFlow.java:53`: two threads that wait for each other call nothing any more | the page resets the parts of a running flow twice; both generations of a group's callback tell, the depender runs twice, and `reset()` takes monitors downwards (`ComposedExecutableFlow.java:217`) while the depender calls back upwards | `FlowRestartDuring`, a job with two leaves as dependees, `MaxRestarts = 2`, the execution page only, nothing disabled, no cancel (14 million states) |
| `RoundAnswered`, `FlowRestart` | `flow/ExecutableFlow.java:53` | an exception of the save in `progressMade()` (`ComposedExecutableFlow.java:378`) | `FlowRestartAnswered`, `SaveFails = TRUE` |
| `IdsUnique`, `JobExecutor` | `flow/FlowManager.java:96`: an id is returned once | a reload copies the last id while a flow is being created (`RefreshableFlowManager.java:94`) | `ExecutorRuns`, `ReloadRaces = TRUE` |
| `LastStateSaved`, `FlowCache` | `flow/FlowManager.java:126`: loads the flow "with all of its state" | two saves overlap and the older state is written last (`JobExecutorManager.java:628`) | `ExecutorRuns`, `SavesRace = TRUE` |
| `SameInstance`, `FlowCache` | `flow/CachingFlowManager.java:37`: the same instance | two pages miss and both load (`CachingFlowManager.java:149`) | `ExecutorRuns`, `PagesRace = TRUE` |
| the same | the same | an execution that waits in the pool's queue is evicted and loaded again (`CachingFlowManager.java:61`) | `RestartSizes = {1}` |
| `OthersOnTime`, `EventTrigger` | `ScheduleManager.java:188`: jobs run "when the schedule is ready" | outside its hours a message goes round in the loop that empties the queue (`EventConsumerManager.java:136`) | `ScheduleServed`, `StartHour = 1`, `StopHour = 3`, `MaxEvents = 2` |
| `StaysScheduled`, `EventTrigger` | `ScheduleManager.java:292`: "Immediately reschedule" | a message that is JSON but no object fails a cast, which nobody catches (`EventConsumerManager.java:166`) | `ScheduleKept` |
| `HoursAsMeant`, `ScheduleTimes` | `web/pages/index.vm:252`: hours 1 to 12 with am and pm | 12 am is noon, 12 pm midnight (`IndexServlet.java:278`) | `ScheduleKept` |
| `CancelHolds`, `JobProcess` | `src/azkaban-common/src/java/azkaban/common/jobs/Job.java:50` | the attempt that was killed is retried (`RetryingJob.java:40`) | without `retries = 0` |
| `SoftKillSignals`, `JobProcess` | `src/azkaban/src/unit/azkaban/utils/process/ProcessTest.java:49`: soft kill interrupts | the startup latch is released before the process id is read (`AzkabanProcess.java:76`) | `IndividualJobOnce` |
| `ForcedInTheEnd`, `JobProcess` | `ProcessJob.java:152`: "Will force terminate the job" | `_isComplete` is set by the first command and never reset (`ProcessJob.java:99`) | `IndividualJobOnce` |
| `FailureIsReported`, `LogBuffer` | `ProcessTest.java:32`: a `ProcessFailureException` | the buffer is iterated while the reader adds to it (`AzkabanProcess.java:99`) | `IndividualJobOnce` |
| `LoadedAsSaved`, `FlowFile` | `flow/FlowManager.java:126` | `markCompleted()` sets composed flows only, the file has leaves only (`ComposedExecutableFlow.java:237`) | `FlowFileSaved`, `MaySkip = TRUE` |
| `FileIsAState`, `SavedInTheEnd`, `FlowFile` | the same | leaves are read one after the other while they run (`ComposedEFSerializer.java:44`) | without `whole` |
| `DisabledStaysOff`, `FlowPage` | `web/pages/flow_instance.vm:160`: disabled nodes are observed | a job with dependees shows its composed flow's state, never IGNORED (`FlowExecutionServlet.java:127`) | `DeployedAndEdited` |
| `CompletedIsReady`, `FlowPage` | `flow_instance.vm:150`: "treated like a ready job" | the page disables it (`azkaban-flow.js:331`) | `DeployedAndEdited` |
| `SucceededIsServed`, `JobFolder` | `JobManagerServlet.java:103`: "Installation Succeeded" | of two reloads the older directory is published last (`RefreshableFlowManager.java:134`) | `DeployedAndEdited`, where `alone` is FALSE |
| `CyclesAreRefused`, `JobFolder` | `JobManager.java:435`: "check for cycles" | nothing follows that comment; a circle of jobs that no root leads to is installed and has no flow, hence the exception in `SucceededIsServed` | `DeployedAndEdited` |
| `MissingIsGone`, `JobFolder` | `IndividualJobExecutableFlow.java:163`: "Job doesn't exist" | a lookup walks through folders that are being deleted (`JobManager.java:324`) | `DeployedAndEdited` |

Other things met while modelling:

- *Two job threads.*  `IndividualJobExecutableFlow.java:149` says only one thread can
  get there.  cancel, reset and execute bring a second one while the first still runs
  (`ResetEarly = TRUE` breaks `OneJobThread`).
- *Cancelled, then succeeded.*  A job that returns after `cancel()` returned true turns
  FAILED into SUCCEEDED (line 243).
- *Told before it is over.*  `FlowCallback.java:34` says nothing else is running when
  `completed` is called; a group tells FAILED at its first failure.
- *Crossed locks.*  `app/JobDescriptor.java:118` sorts locks to prevent simple
  deadlocks, but all read locks come before all write locks
  (`JobWrappingFactory.java:117-128`): jobs that each read what the other writes
  wait for ever, and so does a job that lists one resource as both: hence the hypothesis
  `ReadsFirst` of `NoCircle`.
- *Two lock objects.*  `ReadWriteLockManager.java:35-46` looks up and puts without
  synchronization: hence the hypothesis `Settled` of `NoConflicts`.
- *A recurring entry lost* when `executeJob()` throws anything but a
  `JobExecutionException` (`ScheduleManager.java:278`); `ExecuteFails = FALSE` in
  `ScheduleKept`.
- *An empty schedule* after a crash between creating and writing the file, although
  there is a backup (`LocalFileScheduleLoader.java:122`): the exception
  `CrashKeepsSaved` makes.
- *An execution lost* by a crash between truncating and writing its file
  (`ImmutableFlowManager.java:147`), on which `LastStateSaved` makes no claim.
- *Duplicate runs.*  `ScheduleManager.java:292` leaves them to the executor, which
  checks in the caller's thread and lists in the pool's: two requests may both run.
- *Monitors in both orders*, again: `reset()` of a composed flow takes it before its
  depender (`ComposedExecutableFlow.java:217`), a depender that has ended calls back the other
  way.  A RUNNING composed flow is left alone, so this takes two executions of one depender
  for one composed flow: one that ends the composed flow, and one that then calls it back
  while a reset is under way.  With two dependees and two requests while the execution
  runs it comes to that (the row `NoWaitCycle` of the table, a trace of 63 steps: an old
  group's callback and the new one both tell the composed flow); with one request TLC found
  none on this graph (1,401,403 states, no cancel), nor with two from the history page
  (4.4 million states), and with requests after the execution there is none (section 4).
- *Disabled before, run now.*  A restart from the history page resets a disabled leaf
  below a failed group and runs it; `RerunsTheRest` makes no claim about those.
- *Never reached, loaded as failed.*  Once a dependee has failed a group executes no more
  of its flows (`GroupedExecutableFlow.java`, the loop of `execute`).  A composed flow among
  those stays READY in memory, but is made FAILED when the file is loaded, if
  it depends on the failed job as well: the constructor looks at its parts.  `EndedAs` in
  `LoadedAsSaved` is this exception.
- *Several job directories* always fail the verification of an upload
  (`JobManager.java:257`).
- *Events* are fitted to the criteria in the order of a `HashMap`, the first that fits
  takes a message; the queue and the criteria seen are lost by a crash or when the entry
  is replaced; a refusal by the executor is swallowed.
- `app/AzkabanApplication.java:187-194` passes the addresses for failure and success
  mails in swapped order; mail is not modelled.

## 6. What is not modelled

- Texts: mail, log files, JSON, property values, command lines.  Only who is told
  what, and whose properties arrive, is kept.
- Deployment of a zip: unpacking, properties files and class loaders; several job
  directories.
- Two requests to restart one execution at once in `FlowRestart` (one web thread
  there; `FlowCache` has two pages, at the grain of whole executions).
- The legacy schedule file and the format of dates; months and other units of periods.
- Drawing in the flow page: zooming, panning and layout keep no state the server sees.
- Most of `src/azkaban/web/static/js` is jQuery and its plugins: third-party code.
- The other components that `PROJECT.json` lists as `not_modelled`, each with its
  reason: layout, job types and command lines, the common library, contributed jobs.
- Interrupts, which nothing sends to job threads, and `shutdown()`, which nobody calls.

## 7. Plan

Done: all modules of section 2, from the object everything rests on outwards, and
proofs for thirteen of them, in eight modules.

What would come next:

1. Proofs: the invariant of `FlowOrder` itself (a job not waiting has only ended
   dependees); `RerunsTheRest` and `VerdictOfRound` of `FlowRestart`, for requests that
   come after the execution: `QuietInv` is where an invariant over rounds would begin.
2. The composition of `Scheduler` and `EventTrigger`: several triggers under one runner
   with its crash.
3. `FlowRestart` with two web threads.
