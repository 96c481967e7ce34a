--------------------------- MODULE SchedulerProofs ---------------------------
(***************************************************************************)
(* Proofs about Scheduler, for any entries, jobs and numbers of calls and  *)
(* crashes: its type invariant, that a job never has two schedules, that a *)
(* one-time entry runs once, and, where jobs or saves do not fail, that a  *)
(* recurring entry stays, that the file is current, and that a crash costs *)
(* nothing that was saved; and about EventTrigger, for any criteria,       *)
(* messages and hours: that no message is lost between the topic and the   *)
(* criteria, so that every run has messages of its own.                    *)
(***************************************************************************)
EXTENDS Scheduler, EventTrigger, FiniteSetTheorems, SequenceTheorems, TLAPS

Files == {<<>>} \cup {<<S>> : S \in SUBSET Entries}

LEMMA InFileType == ASSUME NEW f \in Files PROVE InFile(f) \subseteq Entries
BY DEF Files, InFile

LEMMA FileOf == ASSUME NEW S \in SUBSET Entries PROVE <<S>> \in Files /\ InFile(<<S>>) = S
BY DEF Files, InFile

(* What EXCEPT returns, also when the index may be outside the domain.      *)
LEMMA ExceptType ==
  ASSUME NEW D, NEW T, NEW f \in [D -> T], NEW x, NEW y, x \in D => y \in T
  PROVE  [f EXCEPT ![x] = y] \in [D -> T]
OBVIOUS

LEMMA TypeInit == Init => TypeOK
BY ScheduleConstants DEF Init, TypeOK, Threads, Saving

(* Goto keeps the two threads at steps of theirs.                           *)
LEMMA GotoType ==
  ASSUME TypeOK, NEW t \in Threads, NEW step, Goto(t, step),
         t = "web" => step \in {"idle", "remove", "add", "snapshot"} \cup Saving,
         t = "runner" => step \in {"idle", "execute", "update", "snapshot"} \cup Saving
  PROVE  /\ pc'["web"] \in {"idle", "remove", "add", "snapshot"} \cup Saving
         /\ pc'["runner"] \in {"idle", "execute", "update", "snapshot"} \cup Saving
         /\ DOMAIN pc' = Threads
         /\ pc'[t] = step
         /\ \A u \in Threads : u # t => pc'[u] = pc[u]
BY DEF TypeOK, Goto, Threads, Saving

LEMMA TypeStep == OneEntryInv /\ [Next]_vars => TypeOK'
<1> SUFFICES ASSUME TypeOK, OneEntryInv, [Next]_vars PROVE TypeOK'
  BY DEF OneEntryInv
<1> USE DEF webVars, diskVars
<1>0. "web" \in Threads /\ "runner" \in Threads
  BY DEF Threads
<1>1. CASE UNCHANGED vars
  BY <1>1 DEF TypeOK, vars
<1>2. ASSUME NEW e \in Entries, NEW past \in BOOLEAN, Schedule(e, past) PROVE TypeOK'
  <2>1. PICK step \in {"add", "remove"} : Goto("web", step)
    BY <1>2 DEF Schedule
  <2>2. due' \in [Entries -> BOOLEAN] /\ ran' \in [Entries -> Nat]
    BY <1>2 DEF Schedule, TypeOK
  <2>3. old' \in Entries \cup {None}
    <3>1. Id[e] \in Ids
      BY ScheduleConstants
    <3> QED
      BY <1>2, <3>1 DEF Schedule, TypeOK
  <2>4. new' \in Entries /\ calls' \in Nat
    BY <1>2 DEF Schedule, TypeOK
  <2> QED
    BY <1>0, <1>2, <2>1, <2>2, <2>3, <2>4, GotoType DEF TypeOK, Schedule
<1>3. ASSUME NEW x \in Ids, Unschedule(x) PROVE TypeOK'
  BY <1>0, <1>3, GotoType DEF TypeOK, Unschedule
<1>4. CASE RemoveOld
  BY <1>0, <1>4, GotoType DEF TypeOK, RemoveOld
<1>5. CASE AddNew
  <2>1. new \in Entries
    BY <1>5 DEF OneEntryInv, Replacing, AddNew, TypeOK
  <2> QED
    BY <1>0, <1>5, <2>1, GotoType DEF TypeOK, AddNew
<1>6. ASSUME NEW e \in Entries, RunnerPoll(e) PROVE TypeOK'
  BY <1>0, <1>6, GotoType DEF TypeOK, RunnerPoll
<1>7. CASE RunnerExecute
  <2>1. ran' \in [Entries -> Nat]
    <3>2. CASE ran' = ran
      BY <3>2 DEF TypeOK
    <3>3. CASE ran' = [ran EXCEPT ![running] = IF running \in Recurring THEN 0 ELSE @ + 1]
      <4> DEFINE n == IF running \in Recurring THEN 0 ELSE ran[running] + 1
      <4>1. ran' = [ran EXCEPT ![running] = n]
        BY <3>3
      <4>2. running \in Entries => n \in Nat
        BY DEF TypeOK
      <4> HIDE DEF n
      <4> QED
        BY <4>1, <4>2, ExceptType DEF TypeOK
    <3> QED
      BY <1>7, <3>2, <3>3 DEF RunnerExecute
  <2> QED
    BY <1>0, <1>7, <2>1, GotoType DEF TypeOK, RunnerExecute
<1>8. CASE RunnerReschedule
  BY <1>0, <1>8, GotoType, ScheduleConstants DEF TypeOK, RunnerReschedule
<1>9. CASE RunnerDrop
  BY <1>0, <1>9, GotoType DEF TypeOK, RunnerDrop
<1>10. CASE RunnerThrows
  BY <1>0, <1>10, GotoType DEF TypeOK, RunnerThrows
<1>11. ASSUME NEW t \in Threads, Save(t) PROVE TypeOK'
  <2>1. CASE Snapshot(t)
    BY <2>1, GotoType DEF TypeOK, Snapshot, Saving
  <2>2. CASE DeleteBackup(t)
    BY <2>2, GotoType DEF TypeOK, DeleteBackup, Saving
  <2>3. CASE RenameFile(t)
    BY <2>3, GotoType DEF TypeOK, RenameFile, Saving
  <2>4. CASE CreateFile(t)
    BY <2>4, GotoType DEF TypeOK, CreateFile, Saving
  <2>5. CASE WriteFile(t)
    <3>1. snapshot[t] \in SUBSET Entries
      BY DEF TypeOK
    <3> QED
      BY <2>5, <3>1, GotoType DEF TypeOK, WriteFile
  <2>6. CASE SaveThrows(t)
    BY <2>6, GotoType DEF TypeOK, SaveThrows
  <2> QED
    BY <1>11, <2>1, <2>2, <2>3, <2>4, <2>5, <2>6 DEF Save
<1>12. ASSUME NEW e \in Entries, Tick(e) PROVE TypeOK'
  BY <1>12 DEF TypeOK, Tick
<1>13. CASE Restart
  <2>1. Reloaded(OnDisk) \subseteq Entries
    BY InFileType DEF Reloaded, OnDisk, TypeOK, Files
  <2>2. queue' \subseteq Entries /\ saved' \subseteq Entries
    BY <1>13, <2>1 DEF Restart
  <2>3. map' \in [Ids -> Entries \cup {None}]
    <3>1. ASSUME NEW x \in Ids, \E e \in Reloaded(OnDisk) : Id[e] = x
          PROVE  (CHOOSE e \in Reloaded(OnDisk) : Id[e] = x) \in Entries
      BY <2>1, <3>1
    <3> QED
      BY <1>13, <3>1 DEF Restart
  <2>4. due' \in [Entries -> BOOLEAN]
    BY <1>13 DEF Restart, TypeOK
  <2>5. file' \in {<<>>} \cup {<<S>> : S \in SUBSET Entries}
        /\ backup' \in {<<>>} \cup {<<S>> : S \in SUBSET Entries}
    BY <1>13 DEF Restart, TypeOK
  <2> QED
    BY <1>0, <1>13, <2>2, <2>3, <2>4, <2>5 DEF Restart, TypeOK, Threads
<1> QED
  BY <1>1, <1>2, <1>3, <1>4, <1>5, <1>6, <1>7, <1>8, <1>9, <1>10, <1>11, <1>12, <1>13, <1>0
     DEF Next, WebStep, RunnerStep

-----------------------------------------------------------------------------
(* One schedule per job.                                                    *)

(* With the types, and None not an entry.                                   *)
LEMMA LiveType == TypeOK => Live \subseteq Entries
BY DEF Live, TypeOK

LEMMA OneEntryInit == Init => OneEntryInv
<1> SUFFICES ASSUME Init PROVE OneEntryInv
  OBVIOUS
<1>1. TypeOK
  BY TypeInit
<1>2. Live = {}
  BY DEF Init, Live
<1>3. InFile(file) = {} /\ InFile(backup) = {}
  BY DEF Init, InFile
<1> QED
  BY <1>1, <1>2, <1>3 DEF Init, OneEntryInv, OnePerId, Known, RunnerBusy, Replacing, Threads

(* A step that adds no entry to the queue, leaves the map and the web       *)
(* thread's replacement alone, and writes no second entry of a job.         *)
LEMMA CalmStep ==
  ASSUME OneEntryInv, TypeOK', UNCHANGED <<map, old, new>>, Live' \subseteq Live,
         \/ pc'["web"] = pc["web"]
         \/ {pc["web"], pc'["web"]} \cap {"remove", "add"} = {},
         RunnerBusy', OnePerId(InFile(file')), OnePerId(InFile(backup')),
         \A u \in Threads : OnePerId(snapshot'[u])
  PROVE  OneEntryInv'
<1>1. OnePerId(Live')
  BY DEF OneEntryInv, OnePerId
<1>2. Known'
  BY DEF OneEntryInv, Known
<1>3. Replacing'
  BY DEF OneEntryInv, Replacing
<1> QED
  BY <1>1, <1>2, <1>3 DEF OneEntryInv, OnePerId, InFile

(* A save moves one set of entries through the files, and takes another     *)
(* from the queue.                                                          *)
LEMMA SaveStep ==
  ASSUME OneEntryInv, TypeOK', NEW t \in Threads, Save(t)
  PROVE  OneEntryInv'
<1> USE DEF webVars, diskVars
<1>1. PICK step \in {"snapshot", "idle"} \cup Saving :
        Goto(t, step) /\ pc[t] \in {"snapshot"} \cup Saving
  BY DEF Save, Snapshot, DeleteBackup, RenameFile, CreateFile, WriteFile, SaveThrows, Saving
<1>2. UNCHANGED <<queue, map, running, old, new>>
  BY DEF Save, Snapshot, DeleteBackup, RenameFile, CreateFile, WriteFile, SaveThrows
<1>3. Live' = Live
  BY <1>2 DEF Live
<1>4. \/ pc'["web"] = pc["web"]
      \/ {pc["web"], pc'["web"]} \cap {"remove", "add"} = {}
  BY <1>1 DEF OneEntryInv, TypeOK, Goto, Threads, Saving
<1>5. pc'["runner"] = pc["runner"] \/ pc["runner"] \notin {"execute", "update"}
  BY <1>1 DEF OneEntryInv, TypeOK, Goto, Threads, Saving
<1>6. RunnerBusy'
  BY <1>2, <1>5 DEF OneEntryInv, RunnerBusy
<1>7. \A u \in Threads : OnePerId(snapshot'[u])
  <2>1. CASE Snapshot(t)
    <3>1. OnePerId(queue)
      BY DEF OneEntryInv, OnePerId, Live
    <3>2. \A u \in Threads : snapshot'[u] \in {snapshot[u], queue}
      BY <2>1 DEF Snapshot, OneEntryInv, TypeOK
    <3> QED
      BY <3>1, <3>2 DEF OneEntryInv
  <2>2. CASE snapshot' = snapshot
    BY <2>2 DEF OneEntryInv
  <2> QED
    BY <2>1, <2>2 DEF Save, DeleteBackup, RenameFile, CreateFile, WriteFile, SaveThrows
<1>8. OnePerId({}) /\ InFile(<<>>) = {} /\ InFile(<<{}>>) = {}
      /\ InFile(<<snapshot[t]>>) = snapshot[t]
  BY DEF OnePerId, InFile
<1>9. file' \in {file, <<>>, <<{}>>, <<snapshot[t]>>} /\ backup' \in {backup, <<>>, file}
  BY DEF Save, Snapshot, DeleteBackup, RenameFile, CreateFile, WriteFile, SaveThrows
<1>10. OnePerId(InFile(file')) /\ OnePerId(InFile(backup'))
  BY <1>8, <1>9 DEF OneEntryInv
<1> QED
  BY <1>2, <1>3, <1>4, <1>6, <1>7, <1>10, CalmStep

LEMMA OneEntryStep == OneEntryInv /\ [Next]_vars => OneEntryInv'
<1> SUFFICES ASSUME OneEntryInv, [Next]_vars PROVE OneEntryInv'
  OBVIOUS
<1> USE DEF webVars, diskVars
<1>0. TypeOK' /\ TypeOK
  BY TypeStep DEF OneEntryInv
<1>1. CASE UNCHANGED vars
  BY <1>1 DEF OneEntryInv, TypeOK, OnePerId, Live, Known, RunnerBusy, Replacing, vars
<1>2. ASSUME NEW e \in Entries, NEW past \in BOOLEAN, Schedule(e, past) PROVE OneEntryInv'
  <2>1. Live' = Live /\ Live \subseteq Entries /\ UNCHANGED <<map, running, file, backup, snapshot>>
    BY <1>0, <1>2, LiveType DEF Schedule, Live
  <2>2. pc["web"] = "idle" /\ pc'["web"] = (IF map[Id[e]] = None THEN "add" ELSE "remove")
        /\ pc'["runner"] = pc["runner"] /\ old' = map[Id[e]] /\ new' = e
    BY <1>0, <1>2 DEF Schedule, Goto, TypeOK, Threads
  <2>3. \A f \in Live : map[Id[f]] = f
    BY <2>2 DEF OneEntryInv, Known
  <2>4. Known' /\ RunnerBusy'
    BY <2>1, <2>2, <2>3 DEF OneEntryInv, Known, RunnerBusy
  <2>5. e # None /\ \A f \in Live : f # None
    BY <2>1, ScheduleConstants
  <2>6. Replacing'
    BY <2>1, <2>2, <2>3, <2>5 DEF OneEntryInv, Replacing
  <2> QED
    BY <1>0, <2>1, <2>4, <2>6 DEF OneEntryInv
<1>3. ASSUME NEW x \in Ids, Unschedule(x) PROVE OneEntryInv'
  <2>1. Live' = Live /\ Live \subseteq Entries /\ UNCHANGED <<running, file, backup, snapshot>>
    BY <1>0, <1>3, LiveType DEF Unschedule, Live
  <2>2. pc["web"] = "idle" /\ pc'["web"] = "remove" /\ pc'["runner"] = pc["runner"]
        /\ old' = map[x] /\ new' = None /\ old' # None
        /\ \A i \in Ids : map'[i] = (IF i = x THEN None ELSE map[i])
    BY <1>0, <1>3 DEF Unschedule, Goto, TypeOK, Threads
  <2>3. \A f \in Live : map[Id[f]] = f /\ Id[f] \in Ids
    BY <2>1, <2>2, ScheduleConstants DEF OneEntryInv, Known
  <2>4. Known' /\ RunnerBusy'
    BY <2>1, <2>2, <2>3 DEF OneEntryInv, Known, RunnerBusy
  <2>5. Replacing'
    BY <2>1, <2>2 DEF OneEntryInv, Replacing
  <2> QED
    BY <1>0, <2>1, <2>4, <2>5 DEF OneEntryInv
<1>4. CASE RemoveOld
  <2>1. pc["web"] = "remove" /\ pc["runner"] = "idle" /\ running = None
    BY <1>4 DEF RemoveOld, OneEntryInv, RunnerBusy
  <2>2. Live' = Live \ {old} /\ UNCHANGED <<map, running, old, new, file, backup, snapshot>>
    BY <1>4, <2>1 DEF RemoveOld, Live
  <2>3. pc'["web"] = (IF new = None THEN "snapshot" ELSE "add")
    BY <1>0, <1>4 DEF RemoveOld, Goto, TypeOK, Threads
  <2>4. OnePerId(Live)' /\ Known' /\ RunnerBusy'
    BY <2>1, <2>2 DEF OneEntryInv, OnePerId, Known, RunnerBusy
  <2>5. Replacing'
    BY <2>1, <2>2, <2>3 DEF OneEntryInv, Replacing
  <2> QED
    BY <1>0, <2>2, <2>4, <2>5 DEF OneEntryInv
<1>5. CASE AddNew
  <2>1. pc["web"] = "add" /\ pc["runner"] = "idle" /\ running = None
    BY <1>5 DEF AddNew, OneEntryInv, RunnerBusy
  <2>2. new \in Entries /\ Id[new] \in Ids
    BY <1>0, <2>1, ScheduleConstants DEF OneEntryInv, Replacing, TypeOK
  <2>3. Live' = Live \cup {new} /\ UNCHANGED <<running, old, new, file, backup, snapshot>>
    BY <1>5, <2>1, <2>2, ScheduleConstants DEF AddNew, Live
  <2>4. pc'["web"] = "snapshot" /\ \A i \in Ids : map'[i] = (IF i = Id[new] THEN new ELSE map[i])
    BY <1>0, <1>5 DEF AddNew, Goto, TypeOK, Threads
  <2>5. \A e \in Live : Id[e] # Id[new] /\ map[Id[e]] = e /\ Id[e] \in Ids
    BY <1>0, <2>1, <2>2, LiveType, ScheduleConstants DEF OneEntryInv, Replacing, Known
  <2>6. OnePerId(Live)' /\ Known' /\ RunnerBusy'
    BY <2>1, <2>2, <2>3, <2>4, <2>5 DEF OneEntryInv, OnePerId, Known, RunnerBusy
  <2>7. Replacing'
    BY <2>2, <2>3, <2>4 DEF OneEntryInv, Replacing
  <2> QED
    BY <1>0, <2>3, <2>6, <2>7 DEF OneEntryInv
<1>6. ASSUME NEW e \in Entries, RunnerPoll(e) PROVE OneEntryInv'
  <2>1. UNCHANGED <<map, old, new, file, backup, snapshot>> /\ Live' \subseteq Live
    BY <1>6 DEF RunnerPoll, Live
  <2>2. pc'["runner"] = "execute" /\ pc'["web"] = pc["web"]
    BY <1>0, <1>6 DEF RunnerPoll, Goto, TypeOK, Threads
  <2> QED
    BY <1>0, <2>1, <2>2, CalmStep DEF OneEntryInv, RunnerBusy
<1>7. ASSUME RunnerExecute \/ RunnerReschedule \/ RunnerDrop \/ RunnerThrows PROVE OneEntryInv'
  <2>1. UNCHANGED <<map, old, new, file, backup, snapshot>> /\ Live' \subseteq Live
    BY <1>0, <1>7, ScheduleConstants
       DEF RunnerExecute, RunnerReschedule, RunnerDrop, RunnerThrows, Live
  <2>2. pc'["web"] = pc["web"] /\ (running' = None \/ pc'["runner"] = "update")
    BY <1>0, <1>7 DEF RunnerExecute, RunnerReschedule, RunnerDrop, RunnerThrows, Goto, TypeOK, Threads
  <2> QED
    BY <1>0, <2>1, <2>2, CalmStep DEF OneEntryInv, RunnerBusy
<1>8. ASSUME NEW e \in Entries, Tick(e) PROVE OneEntryInv'
  <2>1. UNCHANGED <<map, old, new, file, backup, snapshot, pc, running>> /\ Live' \subseteq Live
    BY <1>8 DEF Tick, Live
  <2> QED
    BY <1>0, <2>1, CalmStep DEF OneEntryInv, RunnerBusy
<1>9. CASE Restart
  <2>1. OnePerId(Reloaded(OnDisk)) /\ Reloaded(OnDisk) \subseteq Entries
    BY <1>0, InFileType DEF OneEntryInv, OnePerId, Reloaded, OnDisk, TypeOK, Files
  <2>2. Live' = Reloaded(OnDisk) /\ running' = None /\ old' = None /\ new' = None
        /\ pc'["web"] = "idle" /\ snapshot' = snapshot
        /\ file' \in {file, backup} /\ backup' \in {backup, <<>>}
    BY <1>9 DEF Restart, Live, Threads
  <2>3. \A i \in Ids : map'[i] # None => map'[i] \in Reloaded(OnDisk) /\ Id[map'[i]] = i
    BY <1>9 DEF Restart
  <2>4. \A e \in Reloaded(OnDisk) : map'[Id[e]] = e
    <3> SUFFICES ASSUME NEW e \in Reloaded(OnDisk) PROVE map'[Id[e]] = e
      OBVIOUS
    <3>1. Id[e] \in Ids
      BY <2>1, ScheduleConstants
    <3>2. map'[Id[e]] = CHOOSE f \in Reloaded(OnDisk) : Id[f] = Id[e]
      BY <1>9, <3>1 DEF Restart
    <3>3. map'[Id[e]] \in Reloaded(OnDisk) /\ Id[map'[Id[e]]] = Id[e]
      BY <3>2
    <3> QED
      BY <2>1, <3>3 DEF OnePerId
  <2>5. OnePerId(InFile(file')) /\ OnePerId(InFile(backup'))
    BY <2>2 DEF OneEntryInv, OnePerId, InFile
  <2>6. OnePerId(Live') /\ Known' /\ RunnerBusy'
    BY <2>1, <2>2, <2>4 DEF OnePerId, Known, RunnerBusy
  <2>7. Replacing'
    BY <2>2, <2>3 DEF Replacing
  <2> QED
    BY <1>0, <2>2, <2>5, <2>6, <2>7 DEF OneEntryInv, OnePerId, InFile
<1> QED
  BY <1>0, <1>1, <1>2, <1>3, <1>4, <1>5, <1>6, <1>7, <1>8, <1>9, SaveStep
     DEF Next, WebStep, RunnerStep, Threads

LEMMA OneEntryAlways == Spec => []OneEntryInv
BY OneEntryInit, OneEntryStep, PTL DEF Spec

(* The queue, the map, the files and the threads' progress keep their types *)
(* through every interleaving, crash and restart (ScheduleManager and       *)
(* LocalFileScheduleLoader).                                                *)
THEOREM TypeCorrect == Spec => []TypeOK
<1>1. OneEntryInv => TypeOK
  BY DEF OneEntryInv
<1> QED
  BY <1>1, OneEntryAlways, PTL

(* internalSchedule() replaces the entry of a job: whatever the runner does *)
(* with it meanwhile, and whatever a restart loads, the job has at most one *)
(* entry in the queue and at the runner.                                    *)
THEOREM OneSchedule == Spec => []OneEntryPerId
<1>1. OneEntryInv => OneEntryPerId
  BY DEF OneEntryInv, OneEntryPerId, OnePerId, Live
<1> QED
  BY <1>1, OneEntryAlways, PTL

-----------------------------------------------------------------------------
(* A recurring schedule stays.                                              *)

LEMMA RemovesStep == OneEntryInv /\ RemovesTheOld /\ [Next]_vars => RemovesTheOld'
<1> SUFFICES ASSUME OneEntryInv, RemovesTheOld, [Next]_vars PROVE RemovesTheOld'
  OBVIOUS
<1> USE DEF webVars, diskVars
<1>0. TypeOK
  BY DEF OneEntryInv
<1>1. CASE UNCHANGED <<map, old, new>> /\ (pc'["web"] = pc["web"] \/ pc'["web"] \notin {"remove", "add"})
  BY <1>1 DEF RemovesTheOld
<1>2. ASSUME NEW e \in Entries, NEW past \in BOOLEAN, Schedule(e, past) PROVE RemovesTheOld'
  BY <1>2, ScheduleConstants DEF Schedule, RemovesTheOld
<1>3. ASSUME NEW x \in Ids, Unschedule(x) PROVE RemovesTheOld'
  <2>1. map[x] # None /\ old' = map[x] /\ new' = None
        /\ \A i \in Ids : map'[i] = (IF i = x THEN None ELSE map[i])
    BY <1>0, <1>3 DEF Unschedule, TypeOK
  <2>2. \A i \in Ids : map[i] # None => Id[map[i]] = i
    BY DEF OneEntryInv, Replacing
  <2> QED
    BY <2>1, <2>2 DEF RemovesTheOld
<1>4. CASE RemoveOld
  <2>1. UNCHANGED <<map, old, new>> /\ pc["web"] = "remove"
        /\ pc'["web"] = (IF new = None THEN "snapshot" ELSE "add")
    BY <1>0, <1>4 DEF RemoveOld, Goto, TypeOK, Threads
  <2> QED
    BY <2>1 DEF RemovesTheOld
<1>5. CASE AddNew
  BY <1>0, <1>5 DEF AddNew, Goto, TypeOK, Threads, RemovesTheOld
<1>6. ASSUME NEW e \in Entries, RunnerPoll(e) \/ Tick(e) PROVE RemovesTheOld'
  BY <1>0, <1>1, <1>6 DEF RunnerPoll, Tick, Goto, TypeOK, Threads
<1>7. CASE RunnerExecute \/ RunnerReschedule \/ RunnerDrop \/ RunnerThrows
  BY <1>0, <1>1, <1>7
     DEF RunnerExecute, RunnerReschedule, RunnerDrop, RunnerThrows, Goto, TypeOK, Threads
<1>8. ASSUME NEW t \in Threads, Save(t) PROVE RemovesTheOld'
  BY <1>0, <1>1, <1>8
     DEF Save, Snapshot, DeleteBackup, RenameFile, CreateFile, WriteFile, SaveThrows, Goto,
         TypeOK, Threads, Saving
<1>9. CASE Restart
  BY <1>9 DEF Restart, RemovesTheOld, Threads
<1>10. CASE UNCHANGED vars
  BY <1>10, <1>1 DEF vars
<1> QED
  BY <1>2, <1>3, <1>4, <1>5, <1>6, <1>7, <1>8, <1>9, <1>10 DEF Next, WebStep, RunnerStep, Threads

LEMMA RecurringStep ==
  ASSUME ~ExecuteFails, RecurringInv, [Next]_vars
  PROVE  RecurringStays'
<1> USE DEF webVars, diskVars
<1>0. TypeOK
  BY DEF RecurringInv, OneEntryInv
<1>1. CASE /\ map' = map /\ pc'["web"] = pc["web"] /\ old' = old
           /\ (queue \cup {running}) \cap Recurring \subseteq queue' \cup {running'}
  BY <1>1 DEF RecurringInv, RecurringStays
<1>2. CASE /\ UNCHANGED <<map, queue, running>>
           /\ pc["web"] # "add"
  BY <1>2 DEF RecurringInv, RecurringStays
<1>3. ASSUME NEW e \in Entries, NEW past \in BOOLEAN, Schedule(e, past) PROVE RecurringStays'
  BY <1>2, <1>3 DEF Schedule
<1>4. ASSUME NEW x \in Ids, Unschedule(x) PROVE RecurringStays'
  <2>1. UNCHANGED <<queue, running>> /\ pc["web"] = "idle"
        /\ \A i \in Ids : map'[i] = (IF i = x THEN None ELSE map[i])
    BY <1>0, <1>4 DEF Unschedule, TypeOK
  <2>2. None \notin Recurring
    BY ScheduleConstants
  <2> QED
    BY <2>1, <2>2 DEF RecurringInv, RecurringStays
<1>5. CASE RemoveOld
  <2>1. UNCHANGED <<map, old, new, running>> /\ pc["web"] = "remove" /\ queue' = queue \ {old}
        /\ pc'["web"] = (IF new = None THEN "snapshot" ELSE "add")
    BY <1>0, <1>5 DEF RemoveOld, Goto, TypeOK, Threads
  <2> QED
    BY <2>1 DEF RecurringInv, RecurringStays, RemovesTheOld
<1>6. CASE AddNew
  <2>1. pc["web"] = "add" /\ new \in Entries /\ Id[new] \in Ids /\ new # None
    BY <1>0, <1>6, ScheduleConstants DEF AddNew, RecurringInv, OneEntryInv, Replacing, TypeOK
  <2>2. queue' = queue \cup {new} /\ running' = running
        /\ \A i \in Ids : map'[i] = (IF i = Id[new] THEN new ELSE map[i])
    BY <1>0, <1>6 DEF AddNew, TypeOK
  <2>3. ASSUME NEW x \in Ids, x # Id[new], map[x] \in Recurring PROVE map[x] # old
    <3>1. map[x] # None /\ Id[map[x]] = x
      BY <2>3, ScheduleConstants DEF RecurringInv, OneEntryInv, Replacing
    <3>2. old = map[Id[new]] /\ (old # None => Id[old] = Id[new])
      BY <2>1 DEF RecurringInv, RemovesTheOld, OneEntryInv, Replacing
    <3> QED
      BY <2>3, <3>1, <3>2
  <2> QED
    BY <2>1, <2>2, <2>3 DEF RecurringInv, RecurringStays
<1>7. ASSUME NEW e \in Entries, RunnerPoll(e) PROVE RecurringStays'
  <2>1. running = None /\ queue' = queue \ {e} /\ running' = e /\ UNCHANGED <<map, old>>
        /\ pc'["web"] = pc["web"]
    BY <1>0, <1>7 DEF RunnerPoll, RecurringInv, OneEntryInv, RunnerBusy, Goto, TypeOK, Threads
  <2> QED
    BY <1>1, <2>1, ScheduleConstants
<1>8. CASE RunnerExecute \/ RunnerReschedule \/ RunnerDrop
  <2>1. UNCHANGED <<map, old>> /\ pc'["web"] = pc["web"]
    BY <1>0, <1>8 DEF RunnerExecute, RunnerReschedule, RunnerDrop, Goto, TypeOK, Threads
  <2>2. (queue \cup {running}) \cap Recurring \subseteq queue' \cup {running'}
    BY <1>8 DEF RunnerExecute, RunnerReschedule, RunnerDrop
  <2> QED
    BY <1>1, <2>1, <2>2
<1>9. CASE RunnerThrows
  BY <1>9 DEF RunnerThrows
<1>10. ASSUME NEW t \in Threads, Save(t) PROVE RecurringStays'
  <2>1. UNCHANGED <<map, queue, running, old>>
    BY <1>10
       DEF Save, Snapshot, DeleteBackup, RenameFile, CreateFile, WriteFile, SaveThrows
  <2>2. pc'["web"] = pc["web"] \/ pc["web"] # "add"
    BY <1>0, <1>10
       DEF Save, Snapshot, DeleteBackup, RenameFile, CreateFile, WriteFile, SaveThrows, Goto,
           TypeOK, Threads, Saving
  <2> QED
    BY <1>1, <1>2, <2>1, <2>2
<1>11. ASSUME NEW e \in Entries, Tick(e) PROVE RecurringStays'
  BY <1>1, <1>11 DEF Tick
<1>12. CASE Restart
  <2>1. \A x \in Ids : map'[x] \in Reloaded(OnDisk) \cup {None}
    BY <1>12 DEF Restart
  <2> QED
    BY <1>12, <2>1, ScheduleConstants DEF Restart, RecurringStays
<1>13. CASE UNCHANGED vars
  BY <1>1, <1>13 DEF vars
<1> QED
  BY <1>3, <1>4, <1>5, <1>6, <1>7, <1>8, <1>9, <1>10, <1>11, <1>12, <1>13
     DEF Next, WebStep, RunnerStep, Threads

(* "It will not remove the job from the schedule when it is run": unless    *)
(* executing a job throws what the runner does not expect, a recurring      *)
(* schedule nobody removes is in the queue or at the runner, through every  *)
(* replacement, save and restart.                                           *)
THEOREM RecurringKept == ASSUME ~ExecuteFails PROVE Spec => []RecurringStays
<1>1. Init => RecurringInv
  BY OneEntryInit, ScheduleConstants
     DEF Init, RecurringInv, RemovesTheOld, RecurringStays, Threads
<1>2. RecurringInv /\ [Next]_vars => RecurringInv'
  BY OneEntryStep, RemovesStep, RecurringStep DEF RecurringInv
<1>3. RecurringInv => RecurringStays
  BY DEF RecurringInv
<1> QED
  BY <1>1, <1>2, <1>3, PTL DEF Spec

-----------------------------------------------------------------------------
(* A one-time entry is executed once.                                       *)

(* A step that executes nothing, lets no entry into the queue and takes no  *)
(* entry's time back but a recurring one's.                                 *)
LEMMA NothingExecuted ==
  ASSUME OneEntryInv, ExecutedIsOver, TypeOK', UNCHANGED <<ran, new>>,
         queue' \subseteq queue \cup ({running} \cap Recurring), Live' \subseteq Live,
         running' \in {running, None}, running' # None => due'[running'] /\ running' \notin queue',
         pc'["runner"] = pc["runner"] \/ running' = None \/ pc'["runner"] = "update",
         \A e \in Entries : due[e] /\ e \notin Recurring => due'[e],
         pc'["web"] \in {"remove", "add"} => pc["web"] \in {"remove", "add"}
  PROVE  ExecutedIsOver'
<1>1. ASSUME NEW e \in Entries, ran'[e] # 0
      PROVE  /\ ran'[e] = 1 /\ e \notin Recurring /\ due'[e] /\ e \notin queue'
             /\ e = running' => pc'["runner"] = "update"
  BY <1>1, ScheduleConstants DEF ExecutedIsOver, Executed
<1> QED
  BY <1>1 DEF ExecutedIsOver, Executed

LEMMA ExecutedStep == OneEntryInv /\ ExecutedIsOver /\ [Next]_vars => ExecutedIsOver'
<1> SUFFICES ASSUME OneEntryInv, ExecutedIsOver, [Next]_vars PROVE ExecutedIsOver'
  OBVIOUS
<1> USE DEF webVars, diskVars
<1>0. TypeOK /\ TypeOK'
  BY TypeStep DEF OneEntryInv
<1>1. CASE UNCHANGED vars
  BY <1>1 DEF vars, ExecutedIsOver, Executed, Live
<1>2. ASSUME NEW e \in Entries, NEW past \in BOOLEAN, Schedule(e, past) PROVE ExecutedIsOver'
  <2>1. e \notin queue /\ e # running /\ e # None
    BY <1>2, ScheduleConstants DEF Schedule, Fresh
  <2>2. /\ UNCHANGED <<queue, running>> /\ new' = e /\ pc'["runner"] = pc["runner"]
        /\ \A f \in Entries : ran'[f] = (IF f = e THEN 0 ELSE ran[f])
        /\ \A f \in Entries \ {e} : due'[f] = due[f]
    BY <1>0, <1>2 DEF Schedule, Goto, TypeOK, Threads
  <2> QED
    BY <1>0, <2>1, <2>2 DEF ExecutedIsOver, Executed, Live, TypeOK
<1>3. ASSUME NEW x \in Ids, Unschedule(x) PROVE ExecutedIsOver'
  <2>1. new' = None /\ UNCHANGED <<queue, running, due, ran>> /\ pc'["runner"] = pc["runner"]
    BY <1>0, <1>3 DEF Unschedule, Goto, TypeOK, Threads
  <2> QED
    BY <2>1 DEF ExecutedIsOver, Executed
<1>4. CASE RemoveOld
  <2>1. UNCHANGED <<ran, new, running, due>> /\ queue' \subseteq queue /\ pc["web"] = "remove"
        /\ pc'["runner"] = pc["runner"]
    BY <1>0, <1>4 DEF RemoveOld, Goto, TypeOK, Threads
  <2>2. Live' \subseteq Live /\ (running # None => due[running] /\ running \notin queue)
    BY <2>1 DEF Live, ExecutedIsOver
  <2> QED
    BY <1>0, <2>1, <2>2, NothingExecuted
<1>5. CASE AddNew
  <2>1. /\ UNCHANGED <<ran, new, running, due>> /\ queue' = queue \cup {new}
        /\ pc["web"] = "add" /\ pc'["web"] = "snapshot" /\ pc'["runner"] = pc["runner"]
    BY <1>0, <1>5 DEF AddNew, Goto, TypeOK, Threads
  <2>2. new # None /\ ran[new] = 0 /\ new # running
    BY <2>1 DEF OneEntryInv, Replacing, ExecutedIsOver, Executed, Live
  <2> QED
    BY <2>1, <2>2 DEF ExecutedIsOver, Executed
<1>6. ASSUME NEW e \in Entries, RunnerPoll(e) PROVE ExecutedIsOver'
  <2>1. /\ UNCHANGED <<ran, new, due>> /\ queue' = queue \ {e} /\ running' = e
        /\ e \in queue /\ due[e] /\ pc'["web"] = pc["web"]
    BY <1>0, <1>6 DEF RunnerPoll, Goto, TypeOK, Threads
  <2>2. Live' \subseteq Live
    BY <2>1 DEF Live
  <2> QED
    BY <2>1, <2>2 DEF ExecutedIsOver, Executed
<1>7. CASE RunnerExecute
  <2>1. /\ UNCHANGED <<queue, running, due, new>> /\ Live' = Live
        /\ pc["runner"] = "execute" /\ pc'["runner"] = "update" /\ pc'["web"] = pc["web"]
        /\ \/ ran' = ran
           \/ ran' = [ran EXCEPT ![running] = IF running \in Recurring THEN 0 ELSE @ + 1]
    BY <1>0, <1>7 DEF RunnerExecute, Goto, TypeOK, Threads, Live
  <2>2. CASE ran' = ran
    BY <2>1, <2>2 DEF ExecutedIsOver, Executed
  <2>3. CASE running = None /\ ran' = [ran EXCEPT ![running] = IF running \in Recurring THEN 0 ELSE @ + 1]
    BY <1>0, <2>1, <2>2, <2>3, ScheduleConstants DEF TypeOK
  <2>4. CASE /\ running # None
             /\ ran' = [ran EXCEPT ![running] = IF running \in Recurring THEN 0 ELSE @ + 1]
    <3>1. running \in Entries /\ running \in Live /\ due[running] /\ ran[running] = 0
      BY <1>0, <2>1, <2>4 DEF TypeOK, Live, ExecutedIsOver, Executed
    <3>2. running \notin queue
      BY <2>4 DEF ExecutedIsOver
    <3> QED
      BY <1>0, <2>1, <2>4, <3>1, <3>2 DEF ExecutedIsOver, Executed, TypeOK
  <2> QED
    BY <2>1, <2>2, <2>3, <2>4
<1>8. CASE RunnerReschedule \/ RunnerDrop \/ RunnerThrows
  <2>1. UNCHANGED <<ran, new>> /\ running' = None /\ pc'["web"] = pc["web"]
    BY <1>0, <1>8 DEF RunnerReschedule, RunnerDrop, RunnerThrows, Goto, TypeOK, Threads
  <2>2. queue' \subseteq queue \cup ({running} \cap Recurring)
    BY <1>8 DEF RunnerReschedule, RunnerDrop, RunnerThrows
  <2>3. \A e \in Entries : due[e] /\ e \notin Recurring => due'[e]
    BY <1>0, <1>8 DEF RunnerReschedule, RunnerDrop, RunnerThrows, TypeOK
  <2>4. Live' \subseteq Live
    BY <2>1, <2>2, ScheduleConstants DEF Live
  <2> QED
    BY <1>0, <2>1, <2>2, <2>3, <2>4, NothingExecuted
<1>9. ASSUME NEW t \in Threads, Save(t) PROVE ExecutedIsOver'
  <2>1. UNCHANGED <<ran, new, queue, running, due>> /\ Live' = Live
    BY <1>9 DEF Save, Snapshot, DeleteBackup, RenameFile, CreateFile, WriteFile, SaveThrows, Live
  <2>2. /\ pc'["web"] \in {"remove", "add"} => pc["web"] \in {"remove", "add"}
        /\ pc'["runner"] = pc["runner"] \/ pc["runner"] \in {"snapshot"} \cup Saving
    BY <1>0, <1>9
       DEF Save, Snapshot, DeleteBackup, RenameFile, CreateFile, WriteFile, SaveThrows, Goto,
           TypeOK, Threads, Saving
  <2>3. pc'["runner"] = pc["runner"] \/ running' = None
    BY <2>1, <2>2 DEF OneEntryInv, RunnerBusy, Saving
  <2> QED
    BY <1>0, <2>1, <2>2, <2>3, NothingExecuted DEF ExecutedIsOver
<1>10. ASSUME NEW e \in Entries, Tick(e) PROVE ExecutedIsOver'
  <2>1. UNCHANGED <<ran, new, queue, running, pc>> /\ Live' = Live
        /\ \A f \in Entries : due[f] => due'[f]
    BY <1>0, <1>10 DEF Tick, TypeOK, Live
  <2>2. running # None => running \in Entries
    BY <1>0 DEF TypeOK
  <2> QED
    BY <1>0, <2>1, <2>2, NothingExecuted DEF ExecutedIsOver
<1>11. CASE Restart
  <2>1. /\ ran' = ran /\ running' = None /\ new' = None /\ queue' = Reloaded(OnDisk)
        /\ \A e \in Entries : due'[e] = (due[e] /\ e \notin Recurring)
    BY <1>11 DEF Restart
  <2>2. ASSUME NEW e \in Entries, ran[e] # 0 PROVE e \notin queue'
    BY <2>1, <2>2 DEF Reloaded, ExecutedIsOver, Executed
  <2> QED
    BY <2>1, <2>2, ScheduleConstants DEF ExecutedIsOver, Executed
<1> QED
  BY <1>1, <1>2, <1>3, <1>4, <1>5, <1>6, <1>7, <1>8, <1>9, <1>10, <1>11
     DEF Next, WebStep, RunnerStep, Threads

(* The end of a one-time entry is saved nowhere, and yet it is executed at  *)
(* most once, whatever fails and whenever the process crashes: it is loaded *)
(* again only if its time has not passed (createScheduledJob()).            *)
THEOREM OnceForAll == Spec => []OneTimeOnce
<1>1. Init => ExecutedIsOver
  BY DEF Init, ExecutedIsOver, Executed, Threads
<1>2. OneEntryInv /\ ExecutedIsOver => OneTimeOnce
  BY DEF OneEntryInv, TypeOK, ExecutedIsOver, Executed, OneTimeOnce
<1> QED
  BY <1>1, <1>2, OneEntryAlways, ExecutedStep, PTL DEF Spec

-----------------------------------------------------------------------------
(* A crash keeps what was saved, and no save loses an update.               *)

LEMMA DiskType == TypeOK => OnDisk \subseteq Entries /\ Live \subseteq Entries
BY InFileType, LiveType DEF TypeOK, OnDisk, Files

(* Only a recurring entry's time is taken back, and that of an object that  *)
(* is neither in memory nor on disk and that a web thread makes use of.     *)
LEMMA TimesKept ==
  ASSUME TypeOK, [Next]_vars
  PROVE  \A f \in Entries : due[f] /\ f \notin Recurring =>
           due'[f] \/ (pc["web"] = "idle" /\ f \notin OnDisk \cup Live)
<1> USE DEF webVars, diskVars
<1> DEFINE Kept == \A f \in Entries : due[f] /\ f \notin Recurring =>
                     due'[f] \/ (pc["web"] = "idle" /\ f \notin OnDisk \cup Live)
<1>1. ASSUME NEW e \in Entries, NEW past \in BOOLEAN, Schedule(e, past) PROVE Kept
  <2>1. pc["web"] = "idle" /\ e \notin OnDisk \cup Live
    BY <1>1, ScheduleConstants DEF Schedule, Fresh, OnDisk, Live
  <2> QED
    BY <1>1, <2>1 DEF Schedule, TypeOK
<1>2. CASE due' = due
  BY <1>2
<1>3. ASSUME NEW e \in Entries, Tick(e) PROVE Kept
  BY <1>3 DEF Tick, TypeOK
<1>4. CASE RunnerReschedule
  BY <1>4 DEF RunnerReschedule, TypeOK
<1>5. CASE Restart
  BY <1>5 DEF Restart, TypeOK
<1>6. ASSUME NEW t \in Threads, Save(t) PROVE due' = due
  BY <1>6 DEF Save, Snapshot, DeleteBackup, RenameFile, CreateFile, WriteFile, SaveThrows
<1>7. ASSUME NEW e \in Entries, RunnerPoll(e) PROVE due' = due
  BY <1>7 DEF RunnerPoll
<1>8. ASSUME NEW x \in Ids, Unschedule(x) PROVE due' = due
  BY <1>8 DEF Unschedule
<1>9. RemoveOld \/ AddNew \/ RunnerExecute \/ RunnerDrop \/ RunnerThrows => due' = due
  BY DEF RemoveOld, AddNew, RunnerExecute, RunnerDrop, RunnerThrows
<1> QED
  BY <1>1, <1>2, <1>3, <1>4, <1>5, <1>6, <1>7, <1>8, <1>9
     DEF Next, WebStep, RunnerStep, Threads, vars

(* Each step of a save but the last leaves on disk what is there, or is     *)
(* about to write.                                                          *)
LEMMA DiskStep ==
  ASSUME ~SaveFails, TypeOK, DiskIsSaved, [Next]_vars
  PROVE  DiskIsSaved'
<1> USE DEF webVars, diskVars
<1>1. CASE /\ OnDisk' = OnDisk /\ saved' = saved
           /\ \A t \in Threads : pc[t] = "write" => pc'[t] = "write"
  BY <1>1, TimesKept, DiskType DEF DiskIsSaved, Same
<1>2. CASE UNCHANGED <<file, backup, saved, pc>>
  BY <1>1, <1>2 DEF OnDisk, InFile
<1>3. ASSUME NEW e \in Entries, NEW past \in BOOLEAN, Schedule(e, past) PROVE DiskIsSaved'
  BY <1>1, <1>3 DEF Schedule, Goto, OnDisk, InFile, TypeOK, Threads
<1>4. ASSUME NEW x \in Ids, Unschedule(x) PROVE DiskIsSaved'
  BY <1>1, <1>4 DEF Unschedule, Goto, OnDisk, InFile, TypeOK, Threads
<1>5. CASE RemoveOld \/ AddNew
  BY <1>1, <1>5 DEF RemoveOld, AddNew, Goto, OnDisk, InFile, TypeOK, Threads
<1>6. ASSUME NEW e \in Entries, RunnerPoll(e) PROVE DiskIsSaved'
  BY <1>1, <1>6 DEF RunnerPoll, Goto, OnDisk, InFile, TypeOK, Threads
<1>7. CASE RunnerExecute \/ RunnerReschedule \/ RunnerDrop \/ RunnerThrows
  BY <1>1, <1>7
     DEF RunnerExecute, RunnerReschedule, RunnerDrop, RunnerThrows, Goto, OnDisk, InFile, TypeOK, Threads
<1>8. ASSUME NEW t \in Threads, Save(t) PROVE DiskIsSaved'
  <2>1. CASE Snapshot(t)
    BY <1>1, <2>1 DEF Snapshot, Goto, OnDisk, InFile, TypeOK, Threads
  <2>2. CASE DeleteBackup(t)
    BY <1>1, <2>2 DEF DeleteBackup, Goto, OnDisk, InFile, TypeOK, Threads
  <2>3. CASE RenameFile(t)
    BY <1>1, <2>3 DEF RenameFile, Goto, OnDisk, InFile, TypeOK, Threads
  <2>4. CASE CreateFile(t)
    BY <2>4 DEF CreateFile, Goto, TypeOK, DiskIsSaved
  <2>5. CASE WriteFile(t)
    BY <2>5 DEF WriteFile, OnDisk, InFile, DiskIsSaved, Same
  <2>6. CASE SaveThrows(t)
    BY <2>6 DEF SaveThrows
  <2> QED
    BY <1>8, <2>1, <2>2, <2>3, <2>4, <2>5, <2>6 DEF Save
<1>9. ASSUME NEW e \in Entries, Tick(e) PROVE DiskIsSaved'
  BY <1>2, <1>9 DEF Tick
<1>10. CASE Restart
  <2>1. /\ OnDisk' = OnDisk /\ saved' = Reloaded(OnDisk)
        /\ \A e \in Entries : due'[e] = (due[e] /\ e \notin Recurring)
    BY <1>10 DEF Restart, OnDisk
  <2> QED
    BY <2>1, DiskType DEF DiskIsSaved, Same, Reloaded, TypeOK
<1>11. CASE UNCHANGED vars
  BY <1>2, <1>11 DEF vars
<1> QED
  BY <1>3, <1>4, <1>5, <1>6, <1>7, <1>8, <1>9, <1>10, <1>11 DEF Next, WebStep, RunnerStep, Threads

(* "Backing up the schedule file" (LocalFileScheduleLoader): a crash at any *)
(* step of a save but the write itself costs nothing that was saved.        *)
THEOREM CrashLosesNothing == ASSUME ~SaveFails PROVE Spec => CrashKeepsSaved
<1>1. Init => DiskIsSaved
  BY DEF Init, DiskIsSaved, OnDisk, InFile, Same
<1>2. OneEntryInv /\ DiskIsSaved /\ [Next]_vars => DiskIsSaved'
  BY DiskStep DEF OneEntryInv
<1>3. OneEntryInv /\ DiskIsSaved /\ [Next]_vars =>
        [restarts' # restarts /\ (\A t \in Threads : pc[t] # "write") => queue' = Reloaded(saved)]_vars
  <2> SUFFICES ASSUME OneEntryInv, DiskIsSaved, [Next]_vars, restarts' # restarts,
                      \A t \in Threads : pc[t] # "write"
               PROVE  queue' = Reloaded(saved)
    OBVIOUS
  <2>1. Restart
    BY DEF Next, WebStep, RunnerStep, Save, Schedule, Unschedule, RemoveOld, AddNew, RunnerPoll,
           RunnerExecute, RunnerReschedule, RunnerDrop, RunnerThrows, Snapshot, DeleteBackup,
           RenameFile, CreateFile, WriteFile, SaveThrows, Tick, vars
  <2>2. queue' = Reloaded(OnDisk)
    BY <2>1 DEF Restart
  <2> QED
    BY <2>2 DEF DiskIsSaved, Same, Reloaded
<1> QED
  BY <1>1, <1>2, <1>3, OneEntryAlways, PTL DEF Spec, CrashKeepsSaved

(* A step that leaves files and lists alone, and lets no entry go but one   *)
(* that a restart would leave out.                                          *)
LEMMA CalmFiles ==
  ASSUME TypeOK, SavesTheLast, [Next]_vars, UNCHANGED <<file, backup, snapshot>>,
         \A t \in Threads : pc'[t] \in Saving <=> pc[t] \in Saving,
         pc'["web"] \in {"idle", "remove"} => pc["web"] \in {"idle", "remove"},
         pc["runner"] \in Saving => queue' = queue,
         pc'["web"] \in Saving \cup {"idle", "remove"} =>
           Live' \subseteq Live /\ \A e \in Live \ Live' : e \notin Recurring /\ due'[e]
  PROVE  SavesTheLast'
<1>0. "web" \in Threads /\ "runner" \in Threads
  BY DEF Threads
<1>1. OnDisk' = OnDisk
  BY DEF OnDisk, InFile
<1>2. snapshot["web"] \subseteq Entries /\ OnDisk \subseteq Entries /\ Live \subseteq Entries
  BY DiskType, <1>0 DEF TypeOK
<1>3. "idle" \notin Saving
  BY DEF Saving
<1>4. pc'["web"] \in Saving =>
        pc'["runner"] \notin Saving /\ Same(snapshot["web"], Live)'
  <2> SUFFICES ASSUME pc'["web"] \in Saving
               PROVE  pc'["runner"] \notin Saving /\ Same(snapshot["web"], Live)'
    OBVIOUS
  <2>1. pc["web"] \in Saving /\ pc["runner"] \notin Saving /\ Same(snapshot["web"], Live)
    BY <1>0 DEF SavesTheLast
  <2>2. \A f \in Entries : due[f] /\ f \notin Recurring => due'[f]
    BY <1>3, <2>1, TimesKept
  <2>3. snapshot'["web"] = snapshot["web"]
    OBVIOUS
  <2> QED
    BY <1>0, <1>2, <2>1, <2>2, <2>3 DEF Same
<1>5. pc'["runner"] \in Saving => snapshot'["runner"] = queue'
  BY <1>0 DEF SavesTheLast
<1>6. pc'["web"] \in {"idle", "remove"} /\ pc'["runner"] \notin Saving => Same(OnDisk, Live)'
  <2> SUFFICES ASSUME pc'["web"] \in {"idle", "remove"}, pc'["runner"] \notin Saving
               PROVE  Same(OnDisk, Live)'
    BY DEF Same
  <2>1. Same(OnDisk, Live)
    BY <1>0 DEF SavesTheLast
  <2>2. \A f \in OnDisk \cup Live : due[f] /\ f \notin Recurring => due'[f]
    BY <1>2, TimesKept
  <2> QED
    BY <1>1, <2>1, <2>2 DEF Same
<1> QED
  BY <1>4, <1>5, <1>6 DEF SavesTheLast

LEMMA SavesStep ==
  ASSUME ~ExecuteFails, ~SaveFails, OneEntryInv, ExecutedIsOver, SavesTheLast, [Next]_vars
  PROVE  SavesTheLast'
<1> USE DEF webVars, diskVars
<1>0. TypeOK /\ TypeOK' /\ "web" \in Threads /\ "runner" \in Threads
  BY TypeStep DEF OneEntryInv, Threads
<1>1. "idle" \notin Saving /\ "snapshot" \notin Saving /\ {"remove", "add"} \cap Saving = {}
      /\ {"execute", "update"} \cap Saving = {}
  BY DEF Saving
<1>2. running # None => pc["runner"] \in {"execute", "update"} /\ due[running]
  BY DEF OneEntryInv, RunnerBusy, ExecutedIsOver
<1>3. ASSUME NEW e \in Entries, NEW past \in BOOLEAN, Schedule(e, past) PROVE SavesTheLast'
  <2>1. Live' = Live /\ UNCHANGED <<file, backup, snapshot, queue>>
    BY <1>3 DEF Schedule, Live
  <2>2. pc["web"] = "idle" /\ pc'["web"] \in {"add", "remove"} /\ pc'["runner"] = pc["runner"]
    BY <1>0, <1>3 DEF Schedule, Goto, TypeOK, Threads
  <2> QED
    BY <1>0, <1>1, <2>1, <2>2, CalmFiles DEF Threads
<1>4. ASSUME NEW x \in Ids, Unschedule(x) PROVE SavesTheLast'
  <2>1. Live' = Live /\ UNCHANGED <<file, backup, snapshot, queue>>
    BY <1>4 DEF Unschedule, Live
  <2>2. pc["web"] = "idle" /\ pc'["web"] = "remove" /\ pc'["runner"] = pc["runner"]
    BY <1>0, <1>4 DEF Unschedule, Goto, TypeOK, Threads
  <2> QED
    BY <1>0, <1>1, <2>1, <2>2, CalmFiles DEF Threads
<1>5. CASE RemoveOld \/ AddNew
  <2>1. UNCHANGED <<file, backup, snapshot>> /\ pc["runner"] \notin Saving
    BY <1>1, <1>5 DEF RemoveOld, AddNew
  <2>2. pc["web"] \in {"remove", "add"} /\ pc'["web"] \in {"snapshot", "add"}
        /\ pc'["runner"] = pc["runner"]
    BY <1>0, <1>5 DEF RemoveOld, AddNew, Goto, TypeOK, Threads
  <2> QED
    BY <1>0, <1>1, <2>1, <2>2, CalmFiles DEF Threads
<1>6. ASSUME NEW e \in Entries, RunnerPoll(e) PROVE SavesTheLast'
  <2>1. UNCHANGED <<file, backup, snapshot>> /\ e # None /\ running = None
    BY <1>2, <1>6, ScheduleConstants DEF RunnerPoll
  <2>2. pc["runner"] = "idle" /\ pc'["runner"] = "execute" /\ pc'["web"] = pc["web"]
    BY <1>0, <1>6 DEF RunnerPoll, Goto, TypeOK, Threads
  <2>3. Live' = Live
    BY <1>6, <2>1 DEF RunnerPoll, Live
  <2> QED
    BY <1>0, <1>1, <2>1, <2>2, <2>3, CalmFiles DEF Threads
<1>7. CASE RunnerExecute \/ RunnerReschedule \/ RunnerDrop
  <2>1. UNCHANGED <<file, backup, snapshot>> /\ pc'["web"] = pc["web"]
        /\ pc["runner"] \notin Saving /\ pc'["runner"] \notin Saving
    BY <1>0, <1>1, <1>7 DEF RunnerExecute, RunnerReschedule, RunnerDrop, Goto, TypeOK, Threads
  <2>2. Live' \subseteq Live
    BY <1>7, <1>0, ScheduleConstants DEF RunnerExecute, RunnerReschedule, RunnerDrop, Live
  <2>3. ASSUME NEW e \in Live \ Live' PROVE e \notin Recurring /\ due'[e]
    <3>1. CASE RunnerExecute \/ RunnerReschedule
      BY <3>1 DEF RunnerExecute, RunnerReschedule, Live
    <3>2. CASE RunnerDrop
      <4>1. e = running /\ e # None
        BY <1>0, <3>2, ScheduleConstants DEF RunnerDrop, Live, TypeOK
      <4> QED
        BY <1>2, <3>2, <4>1 DEF RunnerDrop
    <3> QED
      BY <1>7, <3>1, <3>2
  <2> QED
    BY <1>0, <1>1, <2>1, <2>2, <2>3, CalmFiles DEF Threads
<1>8. CASE RunnerThrows
  BY <1>8 DEF RunnerThrows
<1>9. ASSUME NEW e \in Entries, Tick(e) PROVE SavesTheLast'
  BY <1>0, <1>9, CalmFiles DEF Tick, Live
<1>10. CASE Restart
  <2>1. /\ OnDisk' = OnDisk /\ Live' = Reloaded(OnDisk)
        /\ pc'["web"] = "idle" /\ pc'["runner"] = "idle"
        /\ \A e \in Entries : due'[e] = (due[e] /\ e \notin Recurring)
    BY <1>10 DEF Restart, OnDisk, Live, Threads
  <2> QED
    BY <1>0, <1>1, <2>1, DiskType DEF SavesTheLast, Same, Reloaded
<1>11. CASE UNCHANGED vars
  BY <1>11 DEF vars, SavesTheLast, Same, OnDisk, InFile, Live
<1>12. ASSUME NEW t \in Threads, Save(t) PROVE SavesTheLast'
  <2>1. UNCHANGED <<queue, running, due>> /\ Live' = Live
    BY <1>12 DEF Save, Snapshot, DeleteBackup, RenameFile, CreateFile, WriteFile, SaveThrows, Live
  <2>2. CASE Snapshot(t)
    <3>1. /\ running = None /\ Live = queue /\ pc'[t] = "delete" /\ "delete" \in Saving
          /\ \A u \in Threads : u # t => pc'[u] = "idle" /\ pc[u] = "idle"
          /\ snapshot'[t] = queue
      BY <1>0, <1>2, <2>2 DEF Snapshot, Goto, TypeOK, Threads, Live, Saving
    <3> QED
      BY <1>1, <2>1, <3>1 DEF SavesTheLast, Same, Threads
  <2>3. CASE DeleteBackup(t) \/ RenameFile(t) \/ CreateFile(t)
    <3>1. pc[t] \in Saving /\ pc'[t] \in Saving /\ snapshot' = snapshot
          /\ \A u \in Threads : u # t => pc'[u] = pc[u]
      BY <1>0, <2>3 DEF DeleteBackup, RenameFile, CreateFile, Goto, TypeOK, Threads, Saving
    <3>2. CASE t = "web"
      BY <1>0, <1>1, <2>1, <3>1, <3>2 DEF SavesTheLast, Same
    <3>3. CASE t = "runner"
      BY <1>0, <1>1, <2>1, <3>1, <3>3 DEF SavesTheLast, Same
    <3> QED
      BY <3>2, <3>3 DEF Threads
  <2>4. CASE WriteFile(t)
    <3>1. pc[t] \in Saving /\ pc'[t] = "idle" /\ snapshot' = snapshot /\ OnDisk' = snapshot[t]
          /\ \A u \in Threads : u # t => pc'[u] = pc[u]
      BY <1>0, <2>4 DEF WriteFile, Goto, TypeOK, Threads, Saving, OnDisk, InFile
    <3>2. CASE t = "web"
      BY <1>0, <1>1, <2>1, <3>1, <3>2 DEF SavesTheLast, Same
    <3>3. CASE t = "runner"
      <4>1. Live = queue /\ pc["web"] \notin Saving /\ snapshot["runner"] = queue
        BY <1>1, <1>2, <3>1, <3>3 DEF Live, SavesTheLast, Saving
      <4> QED
        BY <1>0, <1>1, <2>1, <3>1, <3>3, <4>1 DEF SavesTheLast, Same
    <3> QED
      BY <3>2, <3>3 DEF Threads
  <2>5. CASE SaveThrows(t)
    BY <2>5 DEF SaveThrows
  <2> QED
    BY <1>12, <2>2, <2>3, <2>4, <2>5 DEF Save
<1> QED
  BY <1>0, <1>3, <1>4, <1>5, <1>6, <1>7, <1>8, <1>9, <1>10, <1>11, <1>12
     DEF Next, WebStep, RunnerStep

(* With neither thread at work, the schedule on disk is the one in memory:  *)
(* the two threads, each saving a list it took before, never write one over *)
(* a newer one.                                                             *)
THEOREM NoUpdateLost == ASSUME ~ExecuteFails, ~SaveFails PROVE Spec => []FileCurrent
<1>1. Init => ExecutedIsOver /\ SavesTheLast
  BY DEF Init, ExecutedIsOver, Executed, SavesTheLast, Threads, Saving, Same, OnDisk, InFile, Live
<1>2. OneEntryInv /\ ExecutedIsOver /\ SavesTheLast => FileCurrent
  <2> SUFFICES ASSUME OneEntryInv, SavesTheLast, \A t \in Threads : pc[t] = "idle"
               PROVE  Reloaded(OnDisk) = Reloaded(queue)
    BY DEF FileCurrent
  <2>1. Live = queue /\ Same(OnDisk, Live)
    BY DEF OneEntryInv, RunnerBusy, Live, SavesTheLast, Threads, Saving
  <2> QED
    BY <2>1 DEF Same, Reloaded
<1> QED
  BY <1>1, <1>2, OneEntryAlways, ExecutedStep, SavesStep, PTL DEF Spec

-----------------------------------------------------------------------------
(* The event trigger.                                                       *)

Elements(s)  == {s[k] : k \in DOMAIN s}
Different(s) == \A k, l \in DOMAIN s : s[k] = s[l] => k = l

LEMMA AppendElements ==
  ASSUME NEW S, NEW s \in Seq(S), NEW x \in S
  PROVE  /\ Elements(Append(s, x)) = Elements(s) \cup {x}
         /\ Different(s) /\ x \notin Elements(s) => Different(Append(s, x))
<1>1. /\ DOMAIN s = 1 .. Len(s) /\ DOMAIN Append(s, x) = 1 .. Len(s) + 1 /\ Len(s) \in Nat
      /\ \A k \in 1 .. Len(s) : Append(s, x)[k] = s[k]
      /\ Append(s, x)[Len(s) + 1] = x
  OBVIOUS
<1>2. 1 .. Len(s) + 1 = 1 .. Len(s) \cup {Len(s) + 1} /\ Len(s) + 1 \notin 1 .. Len(s)
  BY <1>1
<1>3. Elements(Append(s, x)) \subseteq Elements(s) \cup {x}
  BY <1>1, <1>2 DEF Elements
<1>4. Elements(s) \subseteq Elements(Append(s, x))
  BY <1>1, <1>2 DEF Elements
<1>5. x \in Elements(Append(s, x))
  BY <1>1, <1>2 DEF Elements
<1>6. ASSUME Different(s), x \notin Elements(s) PROVE Different(Append(s, x))
  <2> SUFFICES ASSUME NEW k \in 1 .. Len(s) + 1, NEW l \in 1 .. Len(s) + 1,
                      Append(s, x)[k] = Append(s, x)[l]
               PROVE  k = l
    BY <1>1 DEF Different
  <2>1. \A i \in 1 .. Len(s) : s[i] # x
    BY <1>1, <1>6 DEF Elements
  <2>2. \A i, j \in 1 .. Len(s) : s[i] = s[j] => i = j
    BY <1>1, <1>6 DEF Different
  <2> QED
    BY <1>1, <1>2, <2>1, <2>2
<1> QED
  BY <1>3, <1>4, <1>5, <1>6

LEMMA TailElements ==
  ASSUME NEW S, NEW s \in Seq(S), s # <<>>, Different(s)
  PROVE  /\ Elements(Tail(s)) = Elements(s) \ {Head(s)}
         /\ Different(Tail(s)) /\ Head(s) \in Elements(s)
<1>1. /\ Len(s) \in Nat \ {0} /\ DOMAIN s = 1 .. Len(s)
      /\ DOMAIN Tail(s) = 1 .. Len(s) - 1 /\ Head(s) = s[1]
      /\ \A k \in 1 .. Len(s) - 1 : Tail(s)[k] = s[k + 1]
  OBVIOUS
<1>2. \A k \in 1 .. Len(s) - 1 : k + 1 \in 1 .. Len(s) /\ k + 1 # 1
  BY <1>1
<1>3. \A k \in 1 .. Len(s) : k # 1 => k - 1 \in 1 .. Len(s) - 1 /\ k = (k - 1) + 1
  BY <1>1
<1>4. Different(Tail(s))
  BY <1>1 DEF Different
<1>5. Head(s) \in Elements(s)
  BY <1>1 DEF Elements
<1>6. Elements(Tail(s)) \subseteq Elements(s) \ {Head(s)}
  BY <1>1, <1>2 DEF Elements, Different
<1>7. Elements(s) \ {Head(s)} \subseteq Elements(Tail(s))
  <2> SUFFICES ASSUME NEW k \in 1 .. Len(s), s[k] # s[1] PROVE s[k] \in Elements(Tail(s))
    BY <1>1 DEF Elements
  <2> QED
    BY <1>1, <1>3 DEF Elements
<1> QED
  BY <1>4, <1>5, <1>6, <1>7

LEMMA AsManyElements ==
  ASSUME NEW S, NEW s \in Seq(S), Different(s)
  PROVE  Len(s) = Cardinality(Elements(s))
<1>1. DOMAIN s = 1 .. Len(s) /\ Len(s) \in Nat /\ s = [k \in 1 .. Len(s) |-> s[k]]
  OBVIOUS
<1>2. s \in [1 .. Len(s) -> Elements(s)]
  BY <1>1 DEF Elements
<1>3. s \in Surjection(1 .. Len(s), Elements(s))
  BY <1>1, <1>2 DEF Surjection, Elements
<1>4. s \in Injection(1 .. Len(s), Elements(s))
  BY <1>1, <1>2 DEF Injection, IsInjective, Different
<1>5. IsFiniteSet(1 .. Len(s)) /\ Cardinality(1 .. Len(s)) = Len(s)
  <2>1. 1 \in Int /\ Len(s) \in Int
    BY <1>1
  <2>2. Cardinality(1 .. Len(s)) = IF 1 > Len(s) THEN 0 ELSE Len(s) - 1 + 1
    BY <2>1, FS_Interval
  <2>3. IsFiniteSet(1 .. Len(s))
    BY <2>1, FS_Interval
  <2> QED
    BY <1>1, <2>2, <2>3
<1> QED
  BY <1>3, <1>4, <1>5, FS_Surjection

(* An order of some of the entries is a sequence of entries.                *)
LEMMA OrdersAreSequences ==
  ASSUME NEW E \in SUBSET Listable, NEW s \in AsQueue(E)
  PROVE  s \in Seq(Listable)
<1>1. IsFiniteSet(Listable)
  <2>1. IsFiniteSet({"event"} \cup {"plain"})
    BY FS_Singleton, FS_AddElement
  <2>2. {"event"} \cup {"plain"} = Listable
    BY DEF Listable
  <2> QED
    BY <2>1, <2>2
<1>2. Cardinality(E) \in Nat
  BY <1>1, FS_Subset, FS_CardinalityType
<1> QED
  BY <1>2 DEF AsQueue

LEMMA NextHours ==
  ASSUME TriggerTypeOK, InTime, NEW e \in Listable
  PROVE  HoursToNext(e) \in Nat /\ 0 < Period[e]
<1>1. /\ Period[e] \in Nat /\ Period[e] # 0 /\ over[e] \in Nat /\ over[e] < Period[e]
      /\ Day \in Nat /\ Day # 0 /\ hour \in Nat /\ hour < Day /\ StartHour \in Nat
  BY TriggerConstants DEF TriggerTypeOK, InTime
<1>2. Day + StartHour - hour \in Nat
  BY <1>1
<1>3. (Day + StartHour - hour) % Day \in Nat
  BY <1>1, <1>2
<1> QED
  BY <1>1, <1>3 DEF HoursToNext

LEMMA ClockStep ==
  ASSUME TriggerTypeOK, HourPasses
  PROVE  /\ hour' \in 0 .. Day - 1
         /\ left' \in [Listable -> Nat] /\ over' \in [Listable -> Nat]
         /\ \A e \in Listable : over'[e] < Period[e]
<1>1. Day \in Nat \ {0} /\ hour \in Nat
      /\ \A e \in Listable : Period[e] \in Nat \ {0} /\ over[e] \in Nat /\ left[e] \in Nat
  BY TriggerConstants DEF TriggerTypeOK
<1>2. \A n \in Nat, d \in Nat \ {0} : (n + 1) % d \in 0 .. d - 1
  OBVIOUS
<1>3. (hour + 1) % Day \in 0 .. Day - 1
      /\ \A e \in Listable : (over[e] + 1) % Period[e] \in 0 .. Period[e] - 1
  BY <1>1, <1>2
<1>4. \A e \in Listable : left[e] # 0 => left[e] - 1 \in Nat
  BY <1>1
<1>5. left' \in [Listable -> Nat]
  BY <1>1, <1>4 DEF HourPasses
<1>6. \A e \in Listable : over'[e] \in Nat /\ over'[e] < Period[e]
  BY <1>1, <1>3 DEF HourPasses
<1>7. over' = [e \in Listable |-> over'[e]]
  BY DEF HourPasses
<1> QED
  BY <1>3, <1>5, <1>6, <1>7 DEF HourPasses

LEMMA TriggerTypeStep ==
  ASSUME TriggerTypeOK, InTime, InOnePlace, [TriggerNext]_triggerVars
  PROVE  TriggerTypeOK'
<1> USE DEF TriggerTypeOK, Steps, runnerVars, topicVars, history
<1>1. CASE Publish
  <2>1. PICK k \in Kinds : sent' = Append(sent, k)
    BY <1>1 DEF Publish
  <2>2. Append(sent, k) \in Seq(Kinds) /\ Len(Append(sent, k)) = Len(sent) + 1
    OBVIOUS
  <2>3. MaxEvents \in Nat /\ Len(sent) \in Nat /\ Len(sent) < MaxEvents
    BY <1>1, TriggerConstants DEF Publish
  <2> QED
    BY <1>1, <2>1, <2>2, <2>3 DEF Publish
<1>2. CASE Deliver
  <2>1. offset + 1 \in 1 .. offset' /\ messages \in Seq(1 .. offset') /\ offset' <= Len(sent)
        /\ offset' \in Nat /\ committed <= offset'
    BY <1>2 DEF Deliver
  <2>2. messages' \in Seq(1 .. offset')
    BY <1>2, <2>1 DEF Deliver
  <2>3. inHand \in 0 .. offset' /\ matched \in [CriteriaSet -> 0 .. offset']
    BY <1>2 DEF Deliver
  <2> QED
    BY <1>2, <2>1, <2>2, <2>3 DEF Deliver
<1>3. CASE CommitOffset
  BY <1>3 DEF CommitOffset
<1>4. CASE HourPasses
  <2>1. PICK s \in AsQueue({e \in Listable : left[e] = 1} \cap listed) :
               dueEntries' = dueEntries \o s
    BY <1>4 DEF HourPasses
  <2>2. s \in Seq(Listable)
    BY OrdersAreSequences
  <2>3. dueEntries' \in Seq(Listable)
    BY <2>1, <2>2
  <2> QED
    BY <1>4, <2>3, ClockStep DEF HourPasses
<1>5. CASE Poll
  BY <1>5 DEF Poll
<1>6. CASE Take
  BY <1>6 DEF Take
<1>7. CASE NotPassed
  BY <1>7 DEF NotPassed
<1>8. CASE PutBack
  <2>1. inHand \in 1 .. offset
    BY <1>8 DEF PutBack, InOnePlace, Nothing
  <2> QED
    BY <1>8, <2>1 DEF PutBack, Nothing
<1>9. CASE Match
  <2>1. matched' \in [CriteriaSet -> 0 .. offset]
    BY <1>9 DEF Match
  <2>2. done' \subseteq Nat
    BY <1>9 DEF Match
  <2>3. runner' \in Steps /\ inHand' \in 0 .. offset
    BY <1>9 DEF Match, Nothing
  <2> QED
    BY <1>9, <2>1, <2>2, <2>3 DEF Match
<1>10. CASE MatchThrows
  <2>1. dueEntries' \in Seq(Listable)
    BY <1>10 DEF MatchThrows, InTime
  <2>2. done' \subseteq Nat /\ inHand' \in 0 .. offset /\ listed' \subseteq Listable
    BY <1>10 DEF MatchThrows, Nothing
  <2> QED
    BY <1>10, <2>1, <2>2 DEF MatchThrows
<1>11. CASE Execute
  <2>1. matched' \in [CriteriaSet -> 0 .. offset]
    BY <1>11 DEF Execute, NoMatch, Nothing
  <2>2. used' \subseteq Nat
    <3>1. \A c \in CriteriaSet : matched[c] \in Nat
      OBVIOUS
    <3> QED
      BY <1>11, <3>1 DEF Execute
  <2> QED
    BY <1>11, <2>1, <2>2 DEF Execute
<1>12. CASE Serve
  BY <1>12 DEF Serve
<1>13. CASE Reschedule
  <2>1. dueEntries # <<>> /\ Head(dueEntries) \in Listable /\ Tail(dueEntries) \in Seq(Listable)
    BY <1>13 DEF Reschedule, InTime
  <2>2. HoursToNext(Head(dueEntries)) \in Nat
    BY <2>1, NextHours
  <2> QED
    BY <1>13, <2>1, <2>2 DEF Reschedule
<1>14. CASE Crash
  <2>1. left' \in [Listable -> Nat]
    BY <1>14, NextHours DEF Crash
  <2>2. over' \in [Listable -> Nat] /\ dueEntries' \in Seq(Listable)
    BY <1>14 DEF Crash
  <2>3. /\ offset' = committed /\ committed' = committed /\ messages' = <<>> /\ inHand' = 0
        /\ matched' = [c \in CriteriaSet |-> 0] /\ done' = 1 .. committed
    BY <1>14 DEF Crash, NewConsumer, NoMatch, Nothing
  <2> QED
    BY <1>14, <2>1, <2>2, <2>3 DEF Crash
<1>15. CASE Replace
  <2>1. PICK s \in AsQueue({dueEntries[k] : k \in DOMAIN dueEntries} \ {"event"}) :
               dueEntries' = s
    BY <1>15 DEF Replace
  <2>2. {dueEntries[k] : k \in DOMAIN dueEntries} \ {"event"} \in SUBSET Listable
    OBVIOUS
  <2>3. dueEntries' \in Seq(Listable)
    BY <2>1, <2>2, OrdersAreSequences
  <2>4. "event" \in Listable /\ Period["event"] \in Nat /\ HoursToNext("event") \in Nat
    BY NextHours, TriggerConstants DEF Listable
  <2>5. left' \in [Listable -> Nat] /\ over' \in [Listable -> Nat]
    BY <1>15, <2>4 DEF Replace
  <2>6. /\ offset' = offset /\ committed' = offset /\ messages' = <<>> /\ inHand' = 0
        /\ matched' = [c \in CriteriaSet |-> 0] /\ done' = 1 .. offset
    BY <1>15 DEF Replace, NewConsumer, NoMatch, Nothing
  <2> QED
    BY <1>15, <2>3, <2>4, <2>5, <2>6 DEF Replace
<1>16. CASE UNCHANGED triggerVars
  BY <1>16 DEF triggerVars
<1> QED
  BY <1>1, <1>2, <1>3, <1>4, <1>5, <1>6, <1>7, <1>8, <1>9, <1>10, <1>11, <1>12, <1>13,
     <1>14, <1>15, <1>16 DEF TriggerNext, PollStep

LEMMA TimeStep ==
  ASSUME TriggerTypeOK, InTime, [TriggerNext]_triggerVars
  PROVE  InTime'
<1> USE DEF InTime
<1>1. CASE HourPasses
  <2>1. PICK s \in AsQueue({e \in Listable : left[e] = 1} \cap listed) :
               dueEntries' = dueEntries \o s
    BY <1>1 DEF HourPasses
  <2>2. s \in Seq(Listable) /\ dueEntries \in Seq(Listable)
    BY OrdersAreSequences DEF TriggerTypeOK
  <2>3. dueEntries # <<>> => dueEntries' # <<>>
    BY <2>1, <2>2
  <2> QED
    BY <1>1, <2>3, ClockStep DEF HourPasses
<1>2. CASE Reschedule \/ Crash \/ Replace
  <2>1. runner' = "wait"
    BY <1>2 DEF Reschedule, Crash, Replace
  <2>2. \A e \in Listable : over'[e] \in {0, over[e]}
    BY <1>2 DEF Reschedule, Crash, Replace, TriggerTypeOK
  <2> QED
    BY <2>1, <2>2, NextHours
<1>3. CASE Poll
  BY <1>3 DEF Poll, runnerVars
<1>4. CASE MatchThrows
  BY <1>4 DEF MatchThrows
<1>5. CASE \/ Publish \/ Deliver \/ CommitOffset \/ Take \/ NotPassed \/ PutBack \/ Match
           \/ Execute \/ Serve \/ UNCHANGED triggerVars
  <2>1. UNCHANGED runnerVars
    BY <1>5 DEF Publish, Deliver, CommitOffset, Take, NotPassed, PutBack, Match, Execute,
                Serve, triggerVars
  <2>2. runner = "wait" => runner' = "wait"
    BY <1>5 DEF Publish, Deliver, CommitOffset, Take, NotPassed, PutBack, Match, Execute,
                Serve, triggerVars
  <2> QED
    BY <2>1, <2>2 DEF runnerVars
<1> QED
  BY <1>1, <1>2, <1>3, <1>4, <1>5 DEF TriggerNext, PollStep

(* Where the messages are: in the queue, in the runner's hand, or done.     *)
LEMMA PlaceStep ==
  ASSUME TriggerTypeOK, InOnePlace, [TriggerNext]_triggerVars
  PROVE  InOnePlace'
<1>0. /\ InQueue = Elements(messages) /\ InQueue' = Elements(messages')
      /\ Different(messages) /\ (InOnePlace' <=>
           /\ Elements(messages') \cup done' \cup ({inHand'} \ {Nothing}) = 1 .. offset'
           /\ inHand' \notin done' \cup Elements(messages')
           /\ Elements(messages') \cap done' = {}
           /\ Different(messages')
           /\ (inHand' # Nothing <=> runner' = "check"))
  BY DEF InOnePlace, InQueue, Elements, Different
<1>1. /\ Elements(messages) \cup done \cup ({inHand} \ {Nothing}) = 1 .. offset
      /\ inHand \notin done \cup Elements(messages)
      /\ Elements(messages) \cap done = {}
      /\ inHand # Nothing <=> runner = "check"
  BY <1>0 DEF InOnePlace
<1>2. messages \in Seq(1 .. offset) /\ offset \in Nat /\ committed \in Nat /\ Nothing = 0
  BY DEF TriggerTypeOK, Nothing
<1>3. CASE Deliver
  <2>1. messages \in Seq(1 .. offset + 1) /\ offset + 1 \in 1 .. offset + 1
        /\ 1 .. offset + 1 = 1 .. offset \cup {offset + 1} /\ offset + 1 \notin 1 .. offset
        /\ offset + 1 # 0
    BY <1>2
  <2>2. /\ messages' = Append(messages, offset + 1) /\ offset' = offset + 1
        /\ UNCHANGED <<inHand, done, runner>>
    BY <1>3 DEF Deliver, history
  <2>3. offset + 1 \notin Elements(messages) /\ offset + 1 \notin done /\ offset + 1 # inHand
    BY <1>1, <1>2, <2>1
  <2>4. Elements(messages') = Elements(messages) \cup {offset + 1} /\ Different(messages')
    BY <1>0, <2>1, <2>2, <2>3, AppendElements
  <2> QED
    BY <1>0, <1>1, <1>2, <2>1, <2>2, <2>3, <2>4
<1>4. CASE Take
  <2>1. /\ messages # <<>> /\ inHand = Nothing
        /\ inHand' = Head(messages) /\ messages' = Tail(messages)
        /\ runner' = "check" /\ UNCHANGED <<done, offset>>
    BY <1>1, <1>4 DEF Take, history, topicVars
  <2>2. /\ Elements(messages') = Elements(messages) \ {inHand'} /\ inHand' \in Elements(messages)
        /\ Different(messages')
    BY <1>0, <1>2, <2>1, TailElements
  <2>3. inHand' # Nothing
    BY <1>1, <1>2, <2>2
  <2> QED
    BY <1>0, <1>1, <2>1, <2>2, <2>3
<1>5. CASE PutBack
  <2>1. /\ inHand # Nothing /\ messages' = Append(messages, inHand) /\ inHand' = Nothing
        /\ runner' = "poll" /\ UNCHANGED <<done, offset>>
    BY <1>1, <1>5 DEF PutBack, history, topicVars
  <2>2. inHand \in 1 .. offset
    BY <1>1, <2>1
  <2>3. Elements(messages') = Elements(messages) \cup {inHand} /\ Different(messages')
    BY <1>0, <1>1, <1>2, <2>1, <2>2, AppendElements
  <2>4. Nothing \notin 1 .. offset
    BY <1>2
  <2> QED
    BY <1>0, <1>1, <2>1, <2>2, <2>3, <2>4
<1>6. CASE Match \/ MatchThrows
  <2>1. /\ inHand # Nothing /\ inHand' = Nothing /\ done' = done \cup {inHand}
        /\ runner' # "check" /\ UNCHANGED <<messages, offset>>
    BY <1>1, <1>6 DEF Match, MatchThrows, topicVars
  <2>2. Nothing \notin 1 .. offset
    BY <1>2
  <2> QED
    BY <1>0, <1>1, <2>1, <2>2
<1>7. CASE Crash \/ Replace
  <2>1. PICK from \in {committed, offset} : NewConsumer(from)
    BY <1>7 DEF Crash, Replace
  <2>2. messages' = <<>> /\ inHand' = Nothing /\ offset' = from /\ done' = 1 .. from /\ runner' = "wait"
    BY <1>7, <2>1 DEF NewConsumer, Crash, Replace
  <2>3. Elements(messages') = {} /\ Different(messages')
    BY <2>2 DEF Elements, Different
  <2>4. Nothing \notin 1 .. from
    BY <1>2
  <2> QED
    BY <1>0, <2>2, <2>3, <2>4
<1>8. CASE \/ Publish \/ CommitOffset \/ HourPasses \/ Poll \/ NotPassed \/ Execute \/ Serve
           \/ Reschedule \/ UNCHANGED triggerVars
  <2>1. UNCHANGED <<messages, inHand, done, offset>> /\ (runner' = "check" <=> runner = "check")
    BY <1>8 DEF Publish, CommitOffset, HourPasses, Poll, NotPassed, Execute, Serve, Reschedule,
                triggerVars, history, topicVars
  <2> QED
    BY <1>0, <1>1, <2>1
<1> QED
  BY <1>3, <1>4, <1>5, <1>6, <1>7, <1>8 DEF TriggerNext, PollStep

(* A message fits one criterion at most that is not satisfied yet.          *)
LEMMA FitsOne ==
  ASSUME NEW c \in FirstFit, NEW d \in FirstFit
  PROVE  c = d /\ c \in CriteriaSet /\ c \in sent[inHand] /\ c \notin Satisfied
<1> DEFINE fit(k) == Criteria[k] \in sent[inHand] \ Satisfied
<1>1. PICK i \in DOMAIN Criteria :
        c = Criteria[i] /\ fit(i) /\ \A l \in 1 .. i - 1 : ~fit(l)
  BY DEF FirstFit
<1>2. PICK j \in DOMAIN Criteria :
        d = Criteria[j] /\ fit(j) /\ \A l \in 1 .. j - 1 : ~fit(l)
  BY DEF FirstFit
<1>3. DOMAIN Criteria = 1 .. Len(Criteria) /\ Len(Criteria) \in Nat
  BY TriggerConstants
<1>4. i = j
  <2>1. ~ (i < j) /\ ~ (j < i)
    <3> HIDE DEF fit
    <3> QED
      BY <1>1, <1>2, <1>3
  <2> QED
    BY <1>3, <2>1
<1> QED
  BY <1>1, <1>2, <1>4 DEF CriteriaSet

(* Messages that satisfy criteria, or made a job run, are done with.        *)
LEMMA WarrantStep ==
  ASSUME TriggerTypeOK, InOnePlace, Handled, Warranted, [TriggerNext]_triggerVars
  PROVE  Handled' /\ Warranted'
<1>1. CASE Publish
  <2>1. PICK k \in Kinds : sent' = Append(sent, k)
    BY <1>1 DEF Publish
  <2>2. \A i \in 1 .. offset : sent'[i] = sent[i]
    BY <2>1 DEF TriggerTypeOK
  <2>3. UNCHANGED <<matched, done, used, runner>>
    BY <1>1 DEF Publish, history
  <2>4. \A c \in Satisfied : matched[c] \in 1 .. offset
    BY DEF TriggerTypeOK, Satisfied, Nothing
  <2> QED
    BY <2>2, <2>3, <2>4 DEF Handled, Warranted, Satisfied
<1>2. CASE Match
  <2>1. /\ runner = "check" /\ sent[inHand] # Broken /\ UNCHANGED <<sent, used>>
        /\ done' = done \cup {inHand}
        /\ matched' = [c \in CriteriaSet |-> IF c \in FirstFit THEN inHand ELSE matched[c]]
        /\ runner' = "execute" => \A c \in CriteriaSet : matched'[c] # Nothing
    BY <1>2 DEF Match, topicVars
  <2>2. inHand # Nothing /\ inHand \notin done
    BY <2>1 DEF InOnePlace
  <2>3. ASSUME NEW c \in Satisfied'
        PROVE  \/ c \in FirstFit /\ matched'[c] = inHand
               \/ c \notin FirstFit /\ c \in Satisfied /\ matched'[c] = matched[c]
    BY <2>1 DEF Satisfied
  <2>4. Handled'
    BY <2>1, <2>3 DEF Handled
  <2>5. \A c \in Satisfied' : sent'[matched'[c]] # Broken /\ c \in sent'[matched'[c]]
    BY <2>1, <2>3, FitsOne DEF Warranted
  <2>6. \A c \in Satisfied' : matched'[c] \notin used'
    BY <2>1, <2>2, <2>3 DEF Warranted, Handled
  <2>7. \A c, d \in Satisfied' : matched'[c] = matched'[d] => c = d
    BY <2>2, <2>3, FitsOne DEF Warranted, Handled
  <2>8. runner' = "execute" => Satisfied' = CriteriaSet
    BY <2>1 DEF Satisfied
  <2> QED
    BY <2>4, <2>5, <2>6, <2>7, <2>8 DEF Warranted
<1>3. CASE Execute
  <2>1. Satisfied' = {} /\ runner' # "execute"
    BY <1>3 DEF Execute, Satisfied, NoMatch
  <2>2. CriteriaSet = Satisfied
    BY <1>3 DEF Execute, Warranted
  <2>3. used' \subseteq done' 
    BY <1>3, <2>2 DEF Execute, Handled
  <2> QED
    BY <2>1, <2>3 DEF Handled, Warranted
<1>4. CASE Crash \/ Replace
  <2>1. PICK from \in {committed, offset} : NewConsumer(from) /\ used' \subseteq 1 .. from
    <3>1. CASE Crash
      BY <3>1 DEF Crash
    <3>2. CASE Replace
      <4>1. done \subseteq 1 .. offset
        BY DEF InOnePlace
      <4> QED
        BY <3>2, <4>1 DEF Replace, Handled
    <3> QED
      BY <1>4, <3>1, <3>2
  <2>2. Satisfied' = {} /\ runner' = "wait" /\ done' = 1 .. from
    BY <1>4, <2>1 DEF NewConsumer, NoMatch, Satisfied, Crash, Replace
  <2> QED
    BY <2>1, <2>2 DEF Handled, Warranted
<1>5. CASE \/ Deliver \/ CommitOffset \/ HourPasses \/ Poll \/ Take \/ NotPassed \/ PutBack
           \/ MatchThrows \/ Serve \/ Reschedule \/ UNCHANGED triggerVars
  <2>1. /\ UNCHANGED <<sent, matched, used>> /\ done \subseteq done'
        /\ runner' = "execute" => runner = "execute"
    BY <1>5 DEF Deliver, CommitOffset, HourPasses, Poll, Take, NotPassed, PutBack, MatchThrows,
                Serve, Reschedule, triggerVars, history, topicVars
  <2>2. Satisfied' = Satisfied
    BY <2>1 DEF Satisfied
  <2> QED
    BY <2>1, <2>2 DEF Handled, Warranted
<1> QED
  BY <1>1, <1>2, <1>3, <1>4, <1>5 DEF TriggerNext, PollStep

LEMMA InvAlways == TriggerSpec => []TriggerInv
<1>1. TriggerInit => TriggerInv
  <2> SUFFICES ASSUME TriggerInit PROVE TriggerInv
    OBVIOUS
  <2> USE TriggerConstants DEF TriggerInit, NoMatch, Nothing
  <2>1. TriggerTypeOK
    BY DEF TriggerTypeOK, Steps
  <2>2. InTime
    BY DEF InTime
  <2>3. InOnePlace
    BY DEF InOnePlace, InQueue
  <2>4. Handled /\ Warranted
    BY DEF Handled, Warranted, Satisfied
  <2> QED
    BY <2>1, <2>2, <2>3, <2>4 DEF TriggerInv
<1>2. TriggerInv /\ [TriggerNext]_triggerVars => TriggerInv'
  BY TriggerTypeStep, TimeStep, PlaceStep, WarrantStep DEF TriggerInv
<1> QED
  BY <1>1, <1>2, PTL DEF TriggerSpec

(* The queue, the criteria, the schedule and the clock keep their types.    *)
THEOREM TriggerTyped == TriggerSpec => []TriggerTypeOK
<1>1. TriggerInv => TriggerTypeOK
  BY DEF TriggerInv
<1> QED
  BY <1>1, InvAlways, PTL

(* "put this back in queue. It isn't time yet" (EventConsumerManager): no   *)
(* delivered message vanishes or is there twice, and a job runs for messages*)
(* of its own, one for each criterion and fitting it, through polls outside *)
(* the hours, broken messages, replaced entries and crashes.                *)
THEOREM RunsAreWarranted == TriggerSpec => []RunIsWarranted
<1>1. TriggerInv => RunIsWarranted
  <2> SUFFICES ASSUME TriggerInv PROVE RunIsWarranted
    OBVIOUS
  <2>1. TriggerTypeOK /\ InOnePlace /\ Warranted
    BY DEF TriggerInv
  <2>2. Len(messages) = Cardinality(InQueue)
    <3>1. messages \in Seq(1 .. offset) /\ Different(messages) /\ Elements(messages) = InQueue
      BY <2>1 DEF TriggerTypeOK, InOnePlace, Different, Elements, InQueue
    <3> QED
      BY <3>1, AsManyElements
  <2> QED
    BY <2>1, <2>2 DEF RunIsWarranted, Accounted, InOnePlace
<1> QED
  BY <1>1, InvAlways, PTL
==============================================================================
