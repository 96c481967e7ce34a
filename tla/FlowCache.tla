------------------------------ MODULE FlowCache ------------------------------
(***************************************************************************)
(* Executions of flows in memory and on disk: the cache of                 *)
(* CachingFlowManager, the files ImmutableFlowManager saves them in, the   *)
(* pages that load, show and restart them, and the executor's threads that *)
(* run and save them.                                                      *)
(*                                                                         *)
(* An execution has an id; the object in memory for it is an instance,     *)
(* made by createNewExecutableFlow() or by a load that reads the file.     *)
(* The cache is a LinkedHashMap in access order, here the sequence of its  *)
(* values, eldest first.  Each call of the synchronized map is a step; so  *)
(* are the three parts of a save: serializing, truncating the file by      *)
(* opening it, writing.                                                    *)
(*                                                                         *)
(* Abstracted: an instance's state is that of its root; every execution is *)
(* of a flow of its own name; an execution's text is written at once.      *)
(***************************************************************************)
EXTENDS Naturals, Sequences, FiniteSets, SequencesExt

CONSTANTS
  Ids,          \* ids of executions
  Pages,        \* requests for a page, each served once
  CacheSizes,   \* what azkaban.flow.cache.size may be
  MaxCrashes,   \* bound on crashes
  RestartSizes, \* the sizes of the cache with which pages restart executions
  PagesRace,    \* may a page's load overlap another load or a start?
  SavesRace     \* may two saves of an execution overlap?

ASSUME CacheConstants ==
  /\ CacheSizes \subseteq Nat
  /\ RestartSizes \subseteq CacheSizes
  /\ MaxCrashes \in Nat
  /\ "created" \notin Pages
  /\ PagesRace \in BOOLEAN /\ SavesRace \in BOOLEAN

Instance(id, by) == <<id, by>>
Created(id)      == Instance(id, "created")
IdOf(i)          == i[1]
Instances        == Ids \X ({"created"} \cup Pages)
NoInstance       == <<>>

Savers  == {"pool", "progress", "final"}
Saving  == {"due", "opening", "writing"}
States  == {"READY", "RUNNING", "ENDED"}

VARIABLES
  cacheSize,  \* azkaban.flow.cache.size
  status,     \* the state of every instance, or "none"
  cache,      \* flowCache
  disk,       \* the file of every id: "none", "empty" or the state written
  waiting,    \* the pool's queue
  thread,     \* the pool thread: where it is, and with which instance
  save,       \* the saves of every instance: where they are, and their text
  listed,     \* JobExecutorManager.executing
  page,       \* every page: where it is, and with which instance
  last,       \* history: the state each execution reached last
  crashes

cacheVars ==
  <<cacheSize, status, cache, disk, waiting, thread, save, listed, page, last, crashes>>

IdleSave == [pc |-> "idle", text |-> "none"]
IdlePool == [pc |-> "idle", on |-> NoInstance]

CacheInit ==
  /\ cacheSize \in CacheSizes
  /\ status = [i \in Instances |-> "none"]
  /\ cache = <<>>
  /\ disk = [id \in Ids |-> "none"]
  /\ waiting = <<>>
  /\ thread = IdlePool
  /\ save = [i \in Instances |-> [s \in Savers |-> IdleSave]]
  /\ listed = {}
  /\ page = [p \in Pages |-> [pc |-> "new", on |-> NoInstance]]
  /\ last = [id \in Ids |-> "none"]
  /\ crashes = 0

-----------------------------------------------------------------------------
(* The cache.                                                               *)

Cached(id) == {i \in ToSet(cache) : IdOf(i) = id}
Place(id)  == CHOOSE n \in DOMAIN cache : IdOf(cache[n]) = id

EvictEldest(c) ==                           \* mutant: whatever it does
  IF Len(c) > cacheSize THEN Tail(c) ELSE c

(* removeEldestEntry(): one entry, and only if it does not run.             *)
Evict(c) ==
  IF Len(c) > cacheSize /\ status[Head(c)] # "RUNNING" THEN Tail(c) ELSE c

(* flowCache.put(): it replaces an entry of the same id in its new place;   *)
(* only a new entry evicts.                                                 *)
Put(i) ==
  cache' = IF Cached(IdOf(i)) = {} THEN Evict(Append(cache, i))
           ELSE Append(RemoveAt(cache, Place(IdOf(i))), i)

-----------------------------------------------------------------------------
(* Starting an execution: createNewExecutableFlow(), then the executor's    *)
(* queue; its thread calls execute() of the wrapper, and saves the flow.    *)

CreateExecution(id) ==
  /\ last[id] = "none"
  /\ last' = [last EXCEPT ![id] = "READY"]
  /\ status' = [status EXCEPT ![Created(id)] = "READY"]
  /\ waiting' = Append(waiting, Created(id))
  /\ UNCHANGED <<cache, disk, thread, save, listed, page, crashes>>

PageInside(p) == page[p].pc \in {"miss", "put"}
Alone         == PagesRace \/ \A p \in Pages : ~PageInside(p)

(* Only the flow that was created is wrapped, one that was loaded is not.   *)
PoolTake ==
  /\ thread.pc = "idle" /\ waiting # <<>>
  /\ Alone
  /\ thread' = [pc |-> IF Head(waiting)[2] = "created" THEN "contains" ELSE "execute",
                on |-> Head(waiting)]
  /\ listed' = listed \cup {IdOf(Head(waiting))}
  /\ waiting' = Tail(waiting)
  /\ UNCHANGED <<status, cache, disk, save, page, last, crashes>>

PoolContains ==
  /\ thread.pc = "contains"
  /\ thread' = [thread EXCEPT !.pc = IF Cached(IdOf(thread.on)) = {} THEN "put" ELSE "execute"]
  /\ UNCHANGED <<status, cache, disk, waiting, save, listed, page, last, crashes>>

(* addToCache(): throws if put() replaced something; run() catches that.    *)
PoolPut ==
  /\ thread.pc = "put"
  /\ Put(thread.on)
  /\ IF Cached(IdOf(thread.on)) = {}
       THEN thread' = [thread EXCEPT !.pc = "execute"] /\ UNCHANGED listed
       ELSE thread' = IdlePool /\ listed' = listed \ {IdOf(thread.on)}
  /\ UNCHANGED <<status, disk, waiting, save, page, last, crashes>>

SaveIsDue(i, s) == save' = [save EXCEPT ![i][s] = [pc |-> "due", text |-> "none"]]

(* A flow that has ended calls back at once: the flow is no longer listed.  *)
PoolExecute ==
  LET i == thread.on IN
  /\ thread.pc = "execute"
  /\ save[i]["pool"].pc = "idle"
  /\ thread' = [thread EXCEPT !.pc = "saving"]
  /\ IF status[i] = "READY"
       THEN /\ status' = [status EXCEPT ![i] = "RUNNING"]
            /\ last' = [last EXCEPT ![IdOf(i)] = "RUNNING"]
       ELSE UNCHANGED <<status, last>>
  /\ listed' = IF status[i] = "ENDED" THEN listed \ {IdOf(i)} ELSE listed
  /\ SaveIsDue(i, "pool")
  /\ UNCHANGED <<cache, disk, waiting, page, crashes>>

PoolSaved ==
  /\ thread.pc = "saving"
  /\ save[thread.on]["pool"].pc = "idle"
  /\ thread' = IdlePool
  /\ UNCHANGED <<status, cache, disk, waiting, save, listed, page, last, crashes>>

-----------------------------------------------------------------------------
(* A flow that runs makes progress and ends; both callbacks save it.        *)

Progress(i) ==
  /\ status[i] = "RUNNING"
  /\ save[i]["progress"].pc = "idle" /\ save[i]["progress"].text = "none"
  /\ SaveIsDue(i, "progress")
  /\ UNCHANGED <<status, cache, disk, waiting, thread, listed, page, last, crashes>>

EndsSavingFirst(i) ==                       \* mutant: saves before it sets the state
  /\ status[i] = "RUNNING"
  /\ save[i]["final"].pc = "idle"
  /\ status' = [status EXCEPT ![i] = "ENDED"]
  /\ last' = [last EXCEPT ![IdOf(i)] = "ENDED"]
  /\ save' = [save EXCEPT ![i]["final"] = [pc |-> "opening", text |-> status[i]]]
  /\ UNCHANGED <<cache, disk, waiting, thread, listed, page, crashes>>

Ends(i) ==
  /\ status[i] = "RUNNING"
  /\ save[i]["final"].pc = "idle"
  /\ status' = [status EXCEPT ![i] = "ENDED"]
  /\ last' = [last EXCEPT ![IdOf(i)] = "ENDED"]
  /\ SaveIsDue(i, "final")
  /\ UNCHANGED <<cache, disk, waiting, thread, listed, page, crashes>>

(* saveExecutableFlow(): the flow becomes text, ...                         *)
SaveSerialize(i, s) ==
  /\ save[i][s].pc = "due"
  /\ SavesRace \/ \A j \in Instances, r \in Savers :
                    IdOf(j) = IdOf(i) => save[j][r].pc \notin {"opening", "writing"}
  /\ save' = [save EXCEPT ![i][s] = [pc |-> "opening", text |-> status[i]]]
  /\ UNCHANGED <<status, cache, disk, waiting, thread, listed, page, last, crashes>>

(* ... new FileWriter() empties the file, ...                               *)
SaveOpen(i, s) ==
  /\ save[i][s].pc = "opening"
  /\ save' = [save EXCEPT ![i][s].pc = "writing"]
  /\ disk' = [disk EXCEPT ![IdOf(i)] = "empty"]
  /\ UNCHANGED <<status, cache, waiting, thread, listed, page, last, crashes>>

(* ... and the text is written.  A longer text that another save has left   *)
(* behind it is not read.                                                   *)
SaveWrite(i, s) ==
  /\ save[i][s].pc = "writing"
  /\ save' = [save EXCEPT ![i][s] = [pc |-> "idle",
                                     text |-> IF s = "progress" THEN "done" ELSE "none"]]
  /\ disk' = [disk EXCEPT ![IdOf(i)] = save[i][s].text]
  /\ listed' = IF s = "final" THEN listed \ {IdOf(i)} ELSE listed
  /\ UNCHANGED <<status, cache, waiting, thread, page, last, crashes>>

-----------------------------------------------------------------------------
(* The pages.                                                               *)

SetPage(p, pc, i) == page' = [page EXCEPT ![p] = [pc |-> pc, on |-> i]]

(* loadExecutableFlow(): get() from the cache moves the entry to the end.   *)
PageLoad(p, id) ==
  /\ page[p].pc = "new"
  /\ Alone /\ (PagesRace \/ thread.pc \in {"idle", "saving"})
  /\ IF Cached(id) = {} THEN SetPage(p, "miss", Instance(id, p)) /\ UNCHANGED cache
     ELSE LET i == cache[Place(id)] IN
          SetPage(p, "got", i) /\ cache' = Append(RemoveAt(cache, Place(id)), i)
  /\ UNCHANGED <<status, disk, waiting, thread, save, listed, last, crashes>>

(* What the deserializer makes of a state: a leaf that was saved RUNNING    *)
(* becomes READY.                                                           *)
Loaded(text) == IF text = "ENDED" THEN "ENDED" ELSE "READY"

(* No file: null, which the pages do not expect or call unknown; an empty   *)
(* one throws.                                                              *)
PageRead(p) ==
  LET i == page[p].on IN
  /\ page[p].pc = "miss"
  /\ IF disk[IdOf(i)] \in {"none", "empty"}
       THEN SetPage(p, "failed", NoInstance) /\ UNCHANGED status
       ELSE /\ SetPage(p, "put", i)
            /\ status' = [status EXCEPT ![i] = Loaded(disk[IdOf(i)])]
  /\ UNCHANGED <<cache, disk, waiting, thread, save, listed, last, crashes>>

PagePut(p) ==
  LET i == page[p].on IN
  /\ page[p].pc = "put"
  /\ Put(i)
  /\ IF Cached(IdOf(i)) = {} THEN SetPage(p, "got", i) ELSE SetPage(p, "failed", NoInstance)
  /\ UNCHANGED <<status, disk, waiting, thread, save, listed, last, crashes>>

(* The page is shown.                                                       *)
PageShow(p) ==
  /\ page[p].pc = "got"
  /\ SetPage(p, "done", NoInstance)
  /\ UNCHANGED <<status, cache, disk, waiting, thread, save, listed, last, crashes>>

(* The servlets reset the flow first; reset() leaves what is RUNNING alone. *)
PageReset(p) ==
  LET i == page[p].on IN
  /\ cacheSize \in RestartSizes
  /\ page[p].pc = "got"
  /\ SetPage(p, "reset", i)
  /\ IF status[i] = "ENDED"
       THEN /\ status' = [status EXCEPT ![i] = "READY"]
            /\ last' = [last EXCEPT ![IdOf(i)] = "READY"]
       ELSE UNCHANGED <<status, last>>
  /\ UNCHANGED <<cache, disk, waiting, thread, save, listed, crashes>>

(* execute(holder) of the executor refuses a flow that is listed.           *)
PageSubmit(p) ==
  LET i == page[p].on IN
  /\ page[p].pc = "reset"
  /\ SetPage(p, "done", NoInstance)
  /\ waiting' = IF IdOf(i) \in listed THEN waiting ELSE Append(waiting, i)
  /\ UNCHANGED <<status, cache, disk, thread, save, listed, last, crashes>>

-----------------------------------------------------------------------------
(* The server stops and starts again; what was in memory is gone.           *)
Crash ==
  /\ crashes < MaxCrashes
  /\ crashes' = crashes + 1
  /\ status' = [i \in Instances |-> "none"]
  /\ cache' = <<>> /\ waiting' = <<>> /\ thread' = IdlePool /\ listed' = {}
  /\ save' = [i \in Instances |-> [s \in Savers |-> IdleSave]]
  /\ page' = [p \in Pages |-> IF page[p].pc \in {"new", "failed"} THEN page[p]
                              ELSE [pc |-> "done", on |-> NoInstance]]
  /\ last' = [id \in Ids |-> IF last[id] = "none" THEN "none" ELSE "lost"]
  /\ UNCHANGED disk

CacheStep ==
  \/ \E id \in Ids : CreateExecution(id)
  \/ PoolTake \/ PoolContains \/ PoolPut \/ PoolExecute \/ PoolSaved
  \/ \E i \in Instances : Progress(i) \/ Ends(i)
  \/ \E i \in Instances, s \in Savers : SaveSerialize(i, s) \/ SaveOpen(i, s) \/ SaveWrite(i, s)
  \/ \E p \in Pages, id \in Ids : PageLoad(p, id)
  \/ \E p \in Pages : PageRead(p) \/ PagePut(p) \/ PageShow(p) \/ PageReset(p) \/ PageSubmit(p)
  \/ Crash

CacheNext == CacheStep /\ UNCHANGED cacheSize

CacheSpec == CacheInit /\ [][CacheNext]_cacheVars

-----------------------------------------------------------------------------
CacheTypeOK ==
  /\ cacheSize \in CacheSizes
  /\ status \in [Instances -> States \cup {"none"}]
  /\ cache \in Seq(Instances)
  /\ disk \in [Ids -> States \cup {"none", "empty"}]
  /\ waiting \in Seq(Instances)
  /\ thread \in [pc : {"idle", "contains", "put", "execute", "saving"},
                 on : Instances \cup {NoInstance}]
  /\ save \in [Instances -> [Savers -> [pc : Saving \cup {"idle"},
                                        text : States \cup {"none", "done"}]]]
  /\ listed \in SUBSET Ids
  /\ page \in [Pages -> [pc : {"new", "miss", "put", "got", "reset", "done", "failed"},
                         on : Instances \cup {NoInstance}]]
  /\ last \in [Ids -> States \cup {"none", "lost"}]
  /\ crashes \in 0 .. MaxCrashes

(* Two instances of an execution never run at the same time, nor does an    *)
(* instance wait in the queue while another one runs: they would write to   *)
(* one file.                                                                *)
OneRuns ==
  \A i, j \in Instances :
    IdOf(i) = IdOf(j) /\ status[i] = "RUNNING" /\ status[j] = "RUNNING" => i = j

(* CachingFlowManager: "subsequent calls to loadExecutableFlow(2) would     *)
(* return the same instance".  What a page has got of an execution that     *)
(* runs is the instance that runs, not another copy that stands still and   *)
(* can be restarted; and only one of an execution's runs.                   *)
SameInstance ==
  /\ CacheTypeOK /\ OneRuns
  /\ \A p \in Pages : page[p].pc \in {"got", "reset"} =>
       \A i \in Instances : IdOf(i) = IdOf(page[p].on) /\ status[i] = "RUNNING" => i = page[p].on

(* FlowManager.loadExecutableFlow: "If a flow with id 7 was previously      *)
(* saved, then [it] will load up that previous flow with all of its state". *)
(* When all threads are through, the file of an execution that has ended    *)
(* says so, whichever of its saves came last.                               *)
Resting(id) ==
  /\ thread.pc = "idle" /\ waiting = <<>>
  /\ \A i \in Instances, s \in Savers : IdOf(i) = id => save[i][s].pc = "idle"

LastStateSaved ==
  \A id \in Ids : Resting(id) /\ last[id] = "ENDED" => disk[id] = "ENDED"

-----------------------------------------------------------------------------
(* The inductive invariants behind SameInstance and LastStateSaved.         *)

(* With the sizes of the cache for which pages restart executions, none is  *)
(* evicted, and every instance may run; else only what was created runs.    *)
Works(i) == cacheSize \in RestartSizes \/ i = Created(IdOf(i))

Sole(i) == \A j \in Instances : IdOf(j) = IdOf(i) /\ status[j] # "none" => j = i

Saves(i) == \E s \in Savers : save[i][s].pc # "idle"

(* Created, and not yet in the cache or saved.                              *)
Fresh(i) ==
  /\ i = Created(IdOf(i)) /\ status[i] = "READY"
  /\ disk[IdOf(i)] = "none" /\ ~Saves(i)

BeingPut(i) == \E p \in Pages : page[p].pc = "put" /\ page[p].on = i

(* In memory for good: it is the only one, and pages and threads find it.   *)
Stays(i) ==
  /\ status[i] # "none"
  /\ \/ cacheSize \in RestartSizes
     \/ i = Created(IdOf(i)) /\ status[i] \in {"READY", "RUNNING"}

Found ==
  \A i \in Instances : Stays(i) =>
    /\ Sole(i)
    /\ i \in ToSet(cache) \/ Fresh(i) \/ BeingPut(i)

(* Whatever is queued, runs or saves may do so, and is in memory.           *)
OnlyWorkers ==
  /\ \A n \in DOMAIN waiting : Works(waiting[n]) /\ status[waiting[n]] # "none"
  /\ thread.pc # "idle" =>
       thread.on \in Instances /\ Works(thread.on) /\ status[thread.on] # "none"
  /\ \A i \in Instances : status[i] = "RUNNING" \/ Saves(i) => Works(i) /\ status[i] # "none"
  /\ \A i \in Instances, s \in Savers :
       save[i][s].pc \in {"opening", "writing"} => save[i][s].text \in States

(* Before a created execution is in the cache nothing of it is.             *)
Unborn ==
  \A e \in Ids : last[e] = "none" =>
    disk[e] = "none" /\ \A i \in Instances : IdOf(i) = e => status[i] = "none"

(* The cache: one entry of an execution, and what is there is in memory.    *)
OneEach(c) == \A m, n \in DOMAIN c : IdOf(c[m]) = IdOf(c[n]) => m = n

CacheOK == OneEach(cache) /\ \A i \in ToSet(cache) : status[i] # "none"

(* The pool's thread between contains() and execute().                      *)
ThreadOK ==
  /\ thread.pc = "execute" /\ status[thread.on] = "READY" => thread.on \in ToSet(cache)
  /\ cacheSize \notin RestartSizes =>
       \A n \in DOMAIN cache :
         cache[n] = Created(IdOf(cache[n])) /\ status[cache[n]] = "READY" =>
           thread.pc = "execute" /\ thread.on = cache[n]
  /\ cacheSize \in RestartSizes =>
       /\ \A n \in DOMAIN waiting : waiting[n] = Created(IdOf(waiting[n])) \/ waiting[n] \in ToSet(cache)
       /\ thread.pc \in {"contains", "put"} => thread.on = Created(IdOf(thread.on))

(* A page that loads an execution is alone, and no one has it.              *)
PagesOK ==
  \A p \in Pages :
    /\ page[p].pc \in {"new", "miss"} => \A e \in Ids : status[Instance(e, p)] = "none"
    /\ page[p].pc \in {"miss", "put", "got", "reset"} => page[p].on \in Instances
    /\ PageInside(p) =>
         /\ page[p].on = Instance(IdOf(page[p].on), p)
         /\ thread.pc \in {"idle", "saving"}
         /\ Cached(IdOf(page[p].on)) = {}
         /\ \A q \in Pages : PageInside(q) => q = p
    /\ page[p].pc \in {"put", "got", "reset"} => status[page[p].on] # "none"
    /\ page[p].pc = "put" => status[page[p].on] # "RUNNING"
    /\ page[p].pc \in {"got", "reset"} /\ cacheSize \in RestartSizes => page[p].on \in ToSet(cache)
    /\ page[p].pc = "reset" => cacheSize \in RestartSizes

CacheInv == CacheTypeOK /\ Found /\ OnlyWorkers /\ Unborn /\ CacheOK /\ ThreadOK /\ PagesOK

(* The file: one save of an execution at a time opens and writes it, and    *)
(* while the last state is not there a save that brings it is due.          *)
InFlight(i, s) == save[i][s].pc \in {"opening", "writing"}

OneSave ==
  \A i, j \in Instances, s, r \in Savers :
    IdOf(i) = IdOf(j) /\ InFlight(i, s) /\ InFlight(j, r) => i = j /\ s = r

Carried ==
  \A e \in Ids : last[e] \in States =>
    \E i \in Instances : IdOf(i) = e /\ Works(i) /\ status[i] = last[e]

Brought(e) ==
  \/ \E i \in Instances, s \in Savers : IdOf(i) = e /\ save[i][s].pc = "due"
  \/ \E i \in Instances, s \in Savers : IdOf(i) = e /\ InFlight(i, s) /\ save[i][s].text = "ENDED"
  \/ /\ disk[e] = "ENDED"
     /\ \A i \in Instances, s \in Savers : IdOf(i) = e => ~InFlight(i, s)

EndComes == \A e \in Ids : last[e] = "ENDED" => Brought(e)

FileInv == OneSave /\ Carried /\ EndComes

(* Pages neither load while another one does nor while a flow is started,   *)
(* and where they restart executions there is room for all of them.         *)
RoomForAll ==
  /\ IsFiniteSet(Ids)
  /\ ~PagesRace
  /\ 0 \notin CacheSizes
  /\ \A n \in RestartSizes : Cardinality(Ids) <= n
=============================================================================
