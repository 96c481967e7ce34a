------------------------------ MODULE Scheduler ------------------------------
(***************************************************************************)
(* The schedule: ScheduleManager, its runner thread, and the schedule file *)
(* LocalFileScheduleLoader keeps.                                          *)
(*                                                                         *)
(* Two monitors: M, the ScheduleManager's, which schedule() and            *)
(* removeScheduledJob() of web threads hold from end to end, and R, the    *)
(* runner's, which the runner holds for a whole round of its loop and web  *)
(* threads for one call.  So at most one web thread is past entering M,    *)
(* and its progress and the runner's say who holds what: the web thread    *)
(* has M unless it is idle, the runner has R unless it is idle.            *)
(*                                                                         *)
(* A member of Entries is a ScheduledJob.  Time is abstracted to due: has  *)
(* the entry's time passed?  Among due entries the runner takes any one.   *)
(* The runner's waiting is its being idle.  An id nobody has scheduled     *)
(* makes removeScheduledJob() throw and changes nothing; shutdown() has no *)
(* caller.  What executing a job does is JobExecutor's.                    *)
(***************************************************************************)
EXTENDS Naturals, Sequences, FiniteSets

CONSTANTS
  Entries,       \* ScheduledJob objects
  Ids,           \* job names
  Id,            \* Id[e]: the job e is a schedule of
  Recurring,     \* the entries that have a period (event triggered ones do)
  None,          \* null
  MaxCalls,      \* bound on schedule() and removeScheduledJob() calls
  MaxRestarts,   \* bound on crashes, each followed by a restart
  ExecuteFails,  \* may executing a job throw, other than JobExecutionException?
  SaveFails      \* may writing the schedule file throw?

ASSUME ScheduleConstants ==
  /\ Id \in [Entries -> Ids]
  /\ Recurring \subseteq Entries
  /\ None \notin Entries
  /\ MaxCalls \in Nat /\ MaxRestarts \in Nat
  /\ ExecuteFails \in BOOLEAN /\ SaveFails \in BOOLEAN

Threads == {"web", "runner"}

VARIABLES
  queue,     \* ScheduleRunner.schedule
  map,       \* scheduleIDMap: an entry, or None, for every id
  due,       \* has the entry's time passed?
  running,   \* the entry the runner has polled, or None
  old, new,  \* the web thread's entries: the one it removes, the one it adds
  pc,        \* progress of the web thread inside M and of the runner inside R
  snapshot,  \* getSchedule(), the list each thread is about to save
  file,      \* the schedule file: <<>>, or one set of entries
  backup,    \* the backup file
  saved,     \* history: what the last complete save wrote, or a restart loaded
  ran,       \* history: executions of each one-time entry
  calls, restarts

vars == <<queue, map, due, running, old, new, pc, snapshot, file, backup, saved,
          ran, calls, restarts>>

diskVars == <<file, backup, saved>>
webVars  == <<old, new>>

Saving == {"delete", "rename", "create", "write"}

Init ==
  /\ queue = {}
  /\ map = [x \in Ids |-> None]
  /\ due = [e \in Entries |-> FALSE]
  /\ running = None
  /\ old = None /\ new = None
  /\ pc = [t \in Threads |-> "idle"]
  /\ snapshot = [t \in Threads |-> {}]
  /\ file = <<>> /\ backup = <<>> /\ saved = {}
  /\ ran = [e \in Entries |-> 0]
  /\ calls = 0 /\ restarts = 0

Goto(t, step) == pc' = [pc EXCEPT ![t] = step]

(* An object nothing refers to, neither in memory nor by its data on disk:  *)
(* a constructor may return it.                                             *)
InFile(f) == IF f = <<>> THEN {} ELSE Head(f)

Fresh(e) ==
  e \notin queue \cup {map[x] : x \in Ids} \cup {running, old, new}
              \cup InFile(file) \cup InFile(backup)

-----------------------------------------------------------------------------
(* Web threads.                                                             *)

ScheduleKeepingOld(e, past) ==            \* mutant: an existing entry stays
  /\ pc["web"] = "idle" /\ calls < MaxCalls
  /\ Fresh(e)
  /\ old' = map[Id[e]] /\ new' = e
  /\ due' = [due EXCEPT ![e] = past /\ e \notin Recurring]
  /\ ran' = [ran EXCEPT ![e] = 0]
  /\ Goto("web", "add")
  /\ calls' = calls + 1
  /\ UNCHANGED <<queue, map, running, snapshot, diskVars, restarts>>

Schedule(e, past) ==     \* schedule(job), internalSchedule up to the removal
  /\ pc["web"] = "idle" /\ calls < MaxCalls
  /\ Fresh(e)
  /\ old' = map[Id[e]] /\ new' = e
  /\ due' = [due EXCEPT ![e] = past /\ e \notin Recurring]     \* updateTime()
  /\ ran' = [ran EXCEPT ![e] = 0]
  /\ Goto("web", IF map[Id[e]] = None THEN "add" ELSE "remove")
  /\ calls' = calls + 1
  /\ UNCHANGED <<queue, map, running, snapshot, diskVars, restarts>>

Unschedule(x) ==         \* removeScheduledJob(id)
  /\ pc["web"] = "idle" /\ calls < MaxCalls
  /\ map[x] # None
  /\ old' = map[x] /\ new' = None
  /\ map' = [map EXCEPT ![x] = None]
  /\ Goto("web", "remove")
  /\ calls' = calls + 1
  /\ UNCHANGED <<queue, due, running, snapshot, diskVars, ran, restarts>>

RemoveOld ==             \* runner.removeScheduledJob(existing), needs R
  /\ pc["web"] = "remove" /\ pc["runner"] = "idle"
  /\ queue' = queue \ {old}
  /\ Goto("web", IF new = None THEN "snapshot" ELSE "add")
  /\ UNCHANGED <<map, due, running, webVars, snapshot, diskVars, ran, calls, restarts>>

AddNew ==                \* runner.addScheduledJob(job), needs R; then the map
  /\ pc["web"] = "add" /\ pc["runner"] = "idle"
  /\ queue' = queue \cup {new}
  /\ map' = [map EXCEPT ![Id[new]] = new]
  /\ Goto("web", "snapshot")
  /\ UNCHANGED <<due, running, webVars, snapshot, diskVars, ran, calls, restarts>>

-----------------------------------------------------------------------------
(* A round of ScheduleRunner.run(), all of it inside R.                     *)

RunnerPoll(e) ==
  /\ pc["runner"] = "idle"
  /\ e \in queue /\ due[e]
  /\ queue' = queue \ {e}
  /\ running' = e
  /\ Goto("runner", "execute")
  /\ UNCHANGED <<map, due, webVars, snapshot, diskVars, ran, calls, restarts>>

(* The job runs, or its event has not come, or it is already running.       *)
RunnerExecute ==
  /\ pc["runner"] = "execute"
  /\ ran' \in {ran, [ran EXCEPT ![running] = IF running \in Recurring THEN 0 ELSE @ + 1]}
  /\ Goto("runner", "update")
  /\ UNCHANGED <<queue, map, due, running, webVars, snapshot, diskVars, calls, restarts>>

RunnerForgets ==                          \* mutant: no schedule.add(runningJob)
  /\ pc["runner"] = "update"
  /\ running \in Recurring
  /\ due' = [due EXCEPT ![running] = FALSE]
  /\ running' = None
  /\ Goto("runner", "snapshot")
  /\ UNCHANGED <<queue, map, webVars, snapshot, diskVars, ran, calls, restarts>>

RunnerReschedule ==      \* updateTime() is true: back into the queue
  /\ pc["runner"] = "update"
  /\ running \in Recurring
  /\ due' = [due EXCEPT ![running] = FALSE]
  /\ queue' = queue \cup {running}
  /\ running' = None
  /\ Goto("runner", "snapshot")
  /\ UNCHANGED <<map, webVars, snapshot, diskVars, ran, calls, restarts>>

RunnerDrop ==            \* updateTime() is false: not in the queue any more,
  /\ pc["runner"] = "update"             \* but still in the map and the file
  /\ running \notin Recurring
  /\ queue' = queue \ {running}
  /\ running' = None
  /\ Goto("runner", "idle")
  /\ UNCHANGED <<map, due, webVars, snapshot, diskVars, ran, calls, restarts>>

RunnerThrowsOut ==                        \* mutant: nobody catches
  /\ pc["runner"] \in {"execute", "update"}
  /\ ExecuteFails
  /\ running' = None
  /\ Goto("runner", "dead")
  /\ UNCHANGED <<queue, map, due, webVars, snapshot, diskVars, ran, calls, restarts>>

RunnerThrows ==          \* "Unexpected exception has been thrown in scheduler"
  /\ pc["runner"] \in {"execute", "update"}
  /\ ExecuteFails
  /\ running' = None
  /\ Goto("runner", "idle")
  /\ UNCHANGED <<queue, map, due, webVars, snapshot, diskVars, ran, calls, restarts>>

-----------------------------------------------------------------------------
(* saveSchedule(getSchedule()): the web thread, in M, needs R for the list; *)
(* the runner, in R, needs M.                                               *)

SnapshotUnlocked(t) ==                    \* mutant: getSchedule() takes no monitor
  /\ pc[t] = "snapshot"
  /\ snapshot' = [snapshot EXCEPT ![t] = queue]
  /\ Goto(t, "delete")
  /\ UNCHANGED <<queue, map, due, running, webVars, diskVars, ran, calls, restarts>>

Snapshot(t) ==
  /\ pc[t] = "snapshot"
  /\ \A u \in Threads \ {t} : pc[u] = "idle"
  /\ snapshot' = [snapshot EXCEPT ![t] = queue]
  /\ Goto(t, "delete")
  /\ UNCHANGED <<queue, map, due, running, webVars, diskVars, ran, calls, restarts>>

DeleteBackup(t) ==
  /\ pc[t] = "delete"
  /\ backup' = IF file # <<>> THEN <<>> ELSE backup
  /\ Goto(t, "rename")
  /\ UNCHANGED <<queue, map, due, running, webVars, snapshot, file, saved, ran, calls, restarts>>

RenameFile(t) ==
  /\ pc[t] = "rename"
  /\ IF file # <<>> THEN backup' = file /\ file' = <<>> ELSE UNCHANGED <<backup, file>>
  /\ Goto(t, "create")
  /\ UNCHANGED <<queue, map, due, running, webVars, snapshot, saved, ran, calls, restarts>>

(* The new file is empty at first; it would load as an empty schedule.      *)
CreateFile(t) ==
  /\ pc[t] = "create"
  /\ file' = <<{}>>
  /\ Goto(t, "write")
  /\ UNCHANGED <<queue, map, due, running, webVars, snapshot, backup, saved, ran, calls, restarts>>

WriteFile(t) ==
  /\ pc[t] = "write"
  /\ file' = <<snapshot[t]>>
  /\ saved' = snapshot[t]
  /\ Goto(t, "idle")
  /\ UNCHANGED <<queue, map, due, running, webVars, snapshot, backup, ran, calls, restarts>>

SaveThrows(t) ==         \* "Error saving flow file"
  /\ pc[t] \in {"create", "write"}
  /\ SaveFails
  /\ Goto(t, "idle")
  /\ UNCHANGED <<queue, map, due, running, webVars, snapshot, diskVars, ran, calls, restarts>>

-----------------------------------------------------------------------------
(* Time passes; the process crashes and starts again, loading the schedule. *)

Tick(e) ==
  /\ ~Fresh(e) /\ ~due[e]
  /\ due' = [due EXCEPT ![e] = TRUE]
  /\ UNCHANGED <<queue, map, running, webVars, pc, snapshot, diskVars, ran, calls, restarts>>

OnDiskNoBackup == IF file # <<>> THEN InFile(file) ELSE {}     \* mutant

OnDisk == IF file # <<>> THEN InFile(file) ELSE InFile(backup)

ReloadedPast(S) == S                      \* mutant: updateTime() ignored

(* createScheduledJob(): a one-time entry whose time has passed is left out.*)
Reloaded(S) == {e \in S : e \in Recurring \/ ~due[e]}

Restart ==
  /\ restarts < MaxRestarts
  /\ restarts' = restarts + 1
  /\ queue' = Reloaded(OnDisk)
  /\ map' = [x \in Ids |-> IF \E e \in Reloaded(OnDisk) : Id[e] = x
                             THEN CHOOSE e \in Reloaded(OnDisk) : Id[e] = x ELSE None]
  /\ due' = [e \in Entries |-> due[e] /\ e \notin Recurring]
  /\ running' = None /\ old' = None /\ new' = None
  /\ pc' = [t \in Threads |-> "idle"]
  /\ IF file = <<>> /\ backup # <<>> THEN file' = backup /\ backup' = <<>>
                                     ELSE UNCHANGED <<file, backup>>
  /\ saved' = Reloaded(OnDisk)
  /\ UNCHANGED <<snapshot, ran, calls>>

-----------------------------------------------------------------------------
Save(t) ==
  \/ Snapshot(t) \/ DeleteBackup(t) \/ RenameFile(t) \/ CreateFile(t)
  \/ WriteFile(t) \/ SaveThrows(t)

WebStep == RemoveOld \/ AddNew \/ Save("web")

RunnerStep ==
  \/ RunnerExecute \/ RunnerReschedule \/ RunnerDrop \/ RunnerThrows \/ Save("runner")

Next ==
  \/ \E e \in Entries : (\E past \in BOOLEAN : Schedule(e, past)) \/ RunnerPoll(e) \/ Tick(e)
  \/ \E x \in Ids : Unschedule(x)
  \/ WebStep \/ RunnerStep \/ Restart

Spec == Init /\ [][Next]_vars

(* The threads run on; the queue hands out its earliest entry, so no due    *)
(* entry is overtaken for ever.                                             *)
FairSpec ==
  /\ Spec
  /\ WF_vars(WebStep) /\ WF_vars(RunnerStep)
  /\ \A e \in Entries : SF_vars(RunnerPoll(e))

-----------------------------------------------------------------------------
(* Type invariant: the queue, the map and both files hold entries, and the  *)
(* two threads are at one of their steps.                                   *)
TypeOK ==
  /\ queue \subseteq Entries
  /\ map \in [Ids -> Entries \cup {None}]
  /\ due \in [Entries -> BOOLEAN]
  /\ running \in Entries \cup {None}
  /\ old \in Entries \cup {None} /\ new \in Entries \cup {None}
  /\ pc["web"] \in {"idle", "remove", "add", "snapshot"} \cup Saving
  /\ pc["runner"] \in {"idle", "execute", "update", "snapshot"} \cup Saving
  /\ DOMAIN pc = Threads
  /\ snapshot \in [Threads -> SUBSET Entries]
  /\ file \in {<<>>} \cup {<<S>> : S \in SUBSET Entries}
  /\ backup \in {<<>>} \cup {<<S>> : S \in SUBSET Entries}
  /\ saved \subseteq Entries
  /\ ran \in [Entries -> Nat]
  /\ calls \in Nat /\ restarts \in Nat

(* A job has at most one schedule, though the runner takes entries out of   *)
(* the queue and puts them back while others replace them.                  *)
OneEntryPerId ==
  \A e, f \in queue \cup ({running} \ {None}) : Id[e] = Id[f] => e = f

(* A recurring schedule nobody removed is in the queue or at the runner:    *)
(* "It will not remove the job from the schedule when it is run" (the class *)
(* comment of ScheduleManager).  Only a replaced one leaves before the map  *)
(* says so.                                                                 *)
RecurringStays ==
  \A x \in Ids : map[x] \in Recurring =>
    \/ map[x] \in queue \cup {running}
    \/ pc["web"] = "add" /\ map[x] = old

(* When neither thread is at work, a restart would load the schedule there  *)
(* is: the two threads' saves lose no update of each other.  (A one-time    *)
(* entry whose time has passed is not loaded, started or not.)              *)
FileCurrent ==
  (\A t \in Threads : pc[t] = "idle") => Reloaded(OnDisk) = Reloaded(queue)

(* A one-time entry is executed at most once, although its end is saved     *)
(* nowhere: also when the process restarts from an older schedule file.     *)
OneTimeOnce == \A e \in Entries : ran[e] <= 1

(* The inductive invariant behind OneEntryPerId: the queue and every list   *)
(* that may become the queue hold one entry per job, the map knows the      *)
(* entries of the queue, and the job of the entry about to be added has no  *)
(* other entry left.                                                        *)
OnePerId(S) == \A e, f \in S : Id[e] = Id[f] => e = f

Live == queue \cup ({running} \ {None})

Known == \A e \in Live : map[Id[e]] = e \/ (pc["web"] = "remove" /\ e = old)

RunnerBusy == running # None => pc["runner"] \in {"execute", "update"}

Replacing ==
  /\ \A i \in Ids : map[i] # None => Id[map[i]] = i
  /\ pc["web"] \in {"remove", "add"} /\ new # None =>
       \A e \in Live : Id[e] = Id[new] => pc["web"] = "remove" /\ e = old
  /\ pc["web"] = "add" => new # None
  /\ pc["web"] = "remove" => old # None

OneEntryInv ==
  /\ TypeOK /\ OnePerId(Live) /\ Known /\ RunnerBusy /\ Replacing
  /\ OnePerId(InFile(file)) /\ OnePerId(InFile(backup))
  /\ \A t \in Threads : OnePerId(snapshot[t])

(* The inductive invariant behind RecurringStays: what a web thread is      *)
(* about to remove is the map's entry of the job it schedules, or is no     *)
(* longer in the map.                                                       *)
RemovesTheOld ==
  /\ pc["web"] \in {"remove", "add"} /\ new # None => old = map[Id[new]]
  /\ pc["web"] = "remove" /\ new = None => \A x \in Ids : map[x] # old

RecurringInv == OneEntryInv /\ RemovesTheOld /\ RecurringStays

(* The inductive invariant behind OneTimeOnce: an entry that was executed   *)
(* is due, and neither in the queue nor about to be added.                  *)
Executed(e) == ran[e] # 0

ExecutedIsOver ==
  /\ \A e \in Entries : Executed(e) =>
       /\ ran[e] = 1 /\ e \notin Recurring /\ due[e] /\ e \notin queue
       /\ e = running => pc["runner"] = "update"
  /\ running # None => due[running] /\ running \notin queue
  /\ pc["web"] \in {"remove", "add"} /\ new # None => new \notin Live /\ ~Executed(new)

(* The same schedule but for one-time entries whose time has passed, which  *)
(* a restart leaves out.                                                    *)
Same(S, T) == \A e \in (S \ T) \cup (T \ S) : e \notin Recurring /\ due[e]

(* The inductive invariants behind CrashKeepsSaved and FileCurrent: what is *)
(* on disk was saved, unless it is being written; what is saved is the      *)
(* schedule there is, and is on disk unless somebody is about to save.      *)
DiskIsSaved ==
  (\A t \in Threads : pc[t] # "write") => saved \subseteq OnDisk /\ Same(OnDisk, saved)

SavesTheLast ==
  /\ pc["web"] \in Saving => pc["runner"] \notin Saving /\ Same(snapshot["web"], Live)
  /\ pc["runner"] \in Saving => snapshot["runner"] = queue
  /\ pc["web"] \in {"idle", "remove"} /\ pc["runner"] \notin Saving => Same(OnDisk, Live)

(* A crash costs no schedule that had been saved completely, unless it hits *)
(* between making the new file and writing it.                              *)
CrashKeepsSaved ==
  [][restarts' # restarts /\ (\A t \in Threads : pc[t] # "write")
       => queue' = Reloaded(saved)]_vars

(* The runner and a web thread have each the monitor the other one needs.   *)
LockCycle ==
  pc["runner"] = "snapshot" /\ pc["web"] \in {"remove", "add", "snapshot"}

Waiting(e) == e \in queue /\ due[e]

(* An entry that is due leaves the queue, to be executed or removed, unless *)
(* the two monitors are taken in opposite orders: nothing else stops the    *)
(* runner, no exception of a job or of a save.                              *)
DueIsServed == \A e \in Entries : Waiting(e) ~> ~Waiting(e) \/ LockCycle

(* ScheduleRunner: "Thread that simply invokes the running of jobs when the *)
(* schedule is ready."                                                      *)
DueIsRun == \A e \in Entries : Waiting(e) ~> ~Waiting(e)
=============================================================================
