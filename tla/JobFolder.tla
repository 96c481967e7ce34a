----------------------------- MODULE JobFolder ------------------------------
(***************************************************************************)
(* The job directory: web threads that deploy folders and single jobs into *)
(* it (JobManager.deployJobDir, deployJob), the descriptors and flows the  *)
(* server makes of it (updateFlowManager, RefreshableFlowManager), and the *)
(* leaves of running flows that look their job up in it (loadJob).  No     *)
(* lock guards the directory: every load walks through its folders while   *)
(* others delete, make and rename them.                                    *)
(*                                                                         *)
(* Abstracted: the properties of a job but its dependencies; nested        *)
(* folders; the class loaders.  One job directory, and no two deployments  *)
(* at once into one folder.                                                *)
(***************************************************************************)
EXTENDS Naturals, FiniteSets

CONSTANTS
  Folders,     \* the folders of the job directory
  Jobs,        \* the names of jobs
  Deployers,   \* web threads that deploy
  Runners,     \* threads of leaves that load their job
  Requests,    \* what may be deployed
  InitFiles,   \* the job files at the start
  MoveFails,   \* may an unpacked folder fail to be moved?
  MaxDeploys   \* bound on deployments

File       == [folder : Folders, job : Jobs, deps : SUBSET Jobs]
Descriptor == [job : Jobs, deps : SUBSET Jobs]
Threads    == Deployers \cup Runners

Descriptors(fs) == {[job |-> x.job, deps |-> x.deps] : x \in fs}
NamesOf(ds)     == {d.job : d \in ds}

Unique(fs)  == \A x, y \in fs : x.job = y.job => x = y
NoneMissing(ds) == \A d \in ds : d.deps \subseteq NamesOf(ds)
Sound(ds)   == NoneMissing(ds) /\ \A d, e \in ds : d.job = e.job => d = e

(* loadJobDescriptors() of the files that were read; throws if not.         *)
Loads(fs) == Unique(fs) /\ NoneMissing(Descriptors(fs))

(* An upload replaces a folder, an edit writes one job's file; the server   *)
(* starts only with a directory it can load.                                *)
ASSUME FolderConstants ==
  /\ Requests \subseteq [kind : {"folder", "job"}, folder : Folders, jobs : SUBSET Descriptor]
  /\ InitFiles \subseteq File /\ Loads(InitFiles)
  /\ Deployers \cap Runners = {}
  /\ MoveFails \in BOOLEAN
  /\ MaxDeploys \in Nat

ASSUME JobsAreFinite == IsFiniteSet(Jobs)

VARIABLES
  files,     \* the job files on the disk
  folders,   \* the folders on the disk
  cache,     \* jobDescriptorCache
  flows,     \* the flows of the RefreshableFlowManager's delegate
  pc,        \* where each thread is
  request,   \* what each deployer deploys
  job,       \* the job each runner looks for
  toRead,    \* the folders a thread's load has still to read
  read,      \* the files it has read
  deploys,   \* deployments so far
  alone      \* does one deployer work alone, with uploads that arrive?

disk   == <<files, folders>>
served == <<cache, flows>>
load   == <<toRead, read>>
vars   == <<disk, served, pc, request, job, load, deploys, alone>>

InFolder(f) == {x \in files : x.folder = f}
FilesOf(r)  == {[folder |-> r.folder, job |-> d.job, deps |-> d.deps] : d \in r.jobs}

(* getRootJobDescriptors(), and what buildLegacyFlow() comes to from there. *)
Roots(ds)  == {d \in ds : \A e \in ds : d.job \notin e.deps}
Closed(S, ds)  == \A d \in ds : d \in S => {e \in ds : e.job \in d.deps} \subseteq S
From(start, ds) ==
  {d \in ds : \A S \in SUBSET ds : start \subseteq S /\ Closed(S, ds) => d \in S}
Built(ds)  == From(Roots(ds), ds)
OnCycle(d, ds) == d \in From({e \in ds : e.job \in d.deps}, ds)
Overflows(ds)  == \E d \in Built(ds) : OnCycle(d, ds)

Init ==
  /\ files = InitFiles
  /\ folders = {x.folder : x \in InitFiles}
  /\ cache = Descriptors(InitFiles)
  /\ flows = Built(Descriptors(InitFiles))
  /\ pc = [t \in Threads |-> "idle"]
  /\ request = [t \in Deployers |-> [kind |-> "none", folder |-> "none", jobs |-> {}]]
  /\ job = [t \in Runners |-> "none"]
  /\ toRead = [t \in Threads |-> {}]
  /\ read = [t \in Threads |-> {}]
  /\ deploys = 0
  /\ alone \in BOOLEAN

Goto(t, where) == pc' = [pc EXCEPT ![t] = where]

(* A load starts: the job directory is listed.                              *)
StartLoad(t, where, masked) ==
  /\ Goto(t, where)
  /\ toRead' = [toRead EXCEPT ![t] = folders \ masked]
  /\ read' = [read EXCEPT ![t] = {}]

Resting   == {"idle", "succeeded", "failed", "found", "missing"}
Busy(t)   == pc[t] \notin Resting
Loading(t) == pc[t] \in {"verify", "cache", "reload", "look"}

-----------------------------------------------------------------------------
(* The folders are read one after the other; one that has gone since they   *)
(* were listed throws.                                                      *)
Gone(t) == IF t \in Runners THEN "missing" ELSE "failed"

ReadFolder(t) ==
  /\ Loading(t)
  /\ \E f \in toRead[t] :
       IF f \in folders
         THEN /\ toRead' = [toRead EXCEPT ![t] = @ \ {f}]
              /\ read' = [read EXCEPT ![t] = @ \cup InFolder(f)]
              /\ UNCHANGED pc
         ELSE Goto(t, Gone(t)) /\ UNCHANGED load
  /\ UNCHANGED <<disk, served, request, job, deploys>>

HasRead(t, where) == pc[t] = where /\ toRead[t] = {}

-----------------------------------------------------------------------------
(* deployJobDir().                                                          *)

DeployFolder(t) ==
  /\ ~Busy(t)
  /\ deploys < MaxDeploys /\ deploys' = deploys + 1
  /\ \E r \in Requests :
       /\ r.kind = "folder"
       /\ \A u \in Deployers : Busy(u) => request[u].folder # r.folder
       /\ alone => \A u \in Deployers : request[u].kind # "none" => u = t
       /\ request' = [request EXCEPT ![t] = r]
       /\ StartLoad(t, "verify", {r.folder})
  /\ UNCHANGED <<disk, served, job>>

VerifyUploadOnly(t) ==                    \* mutant: does not look at the other folders
  /\ HasRead(t, "verify")
  /\ IF Unique(FilesOf(request[t])) THEN Goto(t, "undeploy") ELSE Goto(t, "failed")
  /\ UNCHANGED <<disk, served, request, job, load, deploys>>

(* verifyPathValidity(): the other folders' jobs with the new ones.         *)
Verify(t) ==
  /\ HasRead(t, "verify")
  /\ IF Loads(read[t] \cup FilesOf(request[t])) THEN Goto(t, "undeploy") ELSE Goto(t, "failed")
  /\ UNCHANGED <<disk, served, request, job, load, deploys>>

(* FileUtils.deleteDirectory() removes the files one by one.                *)
Undeploy(t) ==
  LET f == request[t].folder IN
  /\ pc[t] = "undeploy"
  /\ \/ f \notin folders /\ Goto(t, "mkdirs") /\ UNCHANGED disk
     \/ (\E x \in InFolder(f) : files' = files \ {x}) /\ UNCHANGED <<folders, pc>>
     \/ /\ f \in folders /\ InFolder(f) = {}
        /\ folders' = folders \ {f}
        /\ Goto(t, "mkdirs") /\ UNCHANGED files
  /\ UNCHANGED <<served, request, job, load, deploys>>

MakeFolder(t) ==
  /\ pc[t] = "mkdirs"
  /\ folders' = folders \cup {request[t].folder}
  /\ Goto(t, "move")
  /\ UNCHANGED <<files, served, request, job, load, deploys>>

Move(t) ==
  /\ pc[t] = "move"
  /\ \/ files' = files \cup FilesOf(request[t]) /\ Goto(t, "update")
     \/ MoveFails /\ ~alone /\ Goto(t, "failed") /\ UNCHANGED files
  /\ UNCHANGED <<folders, served, request, job, load, deploys>>

-----------------------------------------------------------------------------
(* deployJob(): verifies nothing.                                           *)

SameJob(t) == {x \in InFolder(request[t].folder) : x.job \in NamesOf(request[t].jobs)}

DeployJob(t) ==
  /\ ~Busy(t) /\ ~alone
  /\ deploys < MaxDeploys /\ deploys' = deploys + 1
  /\ \E r \in Requests :
       /\ r.kind = "job"
       /\ \A u \in Deployers : Busy(u) => request[u].folder # r.folder
       /\ request' = [request EXCEPT ![t] = r]
       /\ folders' = folders \cup {r.folder}
  /\ Goto(t, "delete")
  /\ UNCHANGED <<files, served, job, load>>

DeleteJobFile(t) ==
  /\ pc[t] = "delete"
  /\ files' = files \ SameJob(t)
  /\ Goto(t, "create")
  /\ UNCHANGED <<folders, served, request, job, load, deploys>>

(* The file is there before its properties are.                             *)
CreateJobFile(t) ==
  /\ pc[t] = "create"
  /\ files' = files \cup {[x EXCEPT !.deps = {}] : x \in FilesOf(request[t])}
  /\ Goto(t, "store")
  /\ UNCHANGED <<folders, served, request, job, load, deploys>>

StoreJob(t) ==
  /\ pc[t] = "store"
  /\ files' = (files \ SameJob(t)) \cup FilesOf(request[t])
  /\ Goto(t, "update")
  /\ UNCHANGED <<folders, served, request, job, load, deploys>>

-----------------------------------------------------------------------------
(* updateFlowManager(): the directory is loaded for the cache and once more *)
(* for the flows, which are published after they have been built.           *)

Update(t) ==
  /\ pc[t] = "update"
  /\ StartLoad(t, "cache", {})
  /\ UNCHANGED <<disk, served, request, job, deploys>>

SetCacheUnchecked(t) ==                   \* mutant: dependencies are ignored
  /\ HasRead(t, "cache")
  /\ IF Unique(read[t])
       THEN cache' = Descriptors(read[t]) /\ StartLoad(t, "reload", {})
       ELSE Goto(t, "failed") /\ UNCHANGED <<cache, load>>
  /\ UNCHANGED <<disk, flows, request, job, deploys>>

SetCache(t) ==
  /\ HasRead(t, "cache")
  /\ IF Loads(read[t])
       THEN cache' = Descriptors(read[t]) /\ StartLoad(t, "reload", {})
       ELSE Goto(t, "failed") /\ UNCHANGED <<cache, load>>
  /\ UNCHANGED <<disk, flows, request, job, deploys>>

(* buildLegacyFlow() recurses without end on a cycle that a root leads to.  *)
BuildFlows(t) ==
  /\ HasRead(t, "reload")
  /\ IF Loads(read[t]) /\ ~Overflows(Descriptors(read[t]))
       THEN Goto(t, "publish")
       ELSE Goto(t, "failed")
  /\ UNCHANGED <<disk, served, request, job, load, deploys>>

Publish(t) ==
  /\ pc[t] = "publish"
  /\ flows' = Built(Descriptors(read[t]))
  /\ Goto(t, "succeeded")
  /\ UNCHANGED <<disk, cache, request, job, load, deploys>>

-----------------------------------------------------------------------------
(* loadJob() of a leaf, which ignores dependencies.                         *)

LookFor(t) ==
  /\ pc[t] = "idle"
  /\ \E j \in NamesOf(flows) : job' = [job EXCEPT ![t] = j]
  /\ StartLoad(t, "look", {})
  /\ UNCHANGED <<disk, served, request, deploys>>

Find(t) ==
  /\ HasRead(t, "look")
  /\ IF Unique(read[t]) /\ job[t] \in NamesOf(read[t]) THEN Goto(t, "found") ELSE Goto(t, "missing")
  /\ UNCHANGED <<disk, served, request, job, load, deploys>>

Deploy(t) ==
  \/ DeployFolder(t) \/ Verify(t) \/ Undeploy(t) \/ MakeFolder(t) \/ Move(t)
  \/ DeployJob(t) \/ DeleteJobFile(t) \/ CreateJobFile(t) \/ StoreJob(t)
  \/ Update(t) \/ SetCache(t) \/ BuildFlows(t) \/ Publish(t)

Quiet == \A t \in Threads : ~Busy(t)

Next ==
  /\ \/ \E t \in Threads : ReadFolder(t)
     \/ \E t \in Deployers : Deploy(t)
     \/ \E t \in Runners : LookFor(t) \/ Find(t)
     \/ Quiet /\ UNCHANGED vars
  /\ UNCHANGED alone

Spec == Init /\ [][Next]_vars

-----------------------------------------------------------------------------
Steps == Resting \cup {"verify", "undeploy", "mkdirs", "move", "delete", "create", "store",
                       "update", "cache", "reload", "publish", "look"}

TypeOK ==
  /\ files \subseteq File /\ folders \subseteq Folders
  /\ \A x \in files : x.folder \in folders
  /\ cache \subseteq Descriptor /\ flows \subseteq Descriptor
  /\ pc \in [Threads -> Steps]
  /\ \A t \in Deployers : Busy(t) => request[t] \in Requests
  /\ toRead \in [Threads -> SUBSET Folders]
  /\ read \in [Threads -> SUBSET File]
  /\ deploys \in Nat /\ alone \in BOOLEAN

(* What the server schedules and executes hangs together whatever the disk  *)
(* looked like while it was read: no job twice, no dependency missing.      *)
ServedIsSound == Sound(cache) /\ Sound(flows)

(* An upload that was not verified with all the others never reaches the    *)
(* directory: whenever nobody is deploying, it can be loaded.               *)
FolderStaysSound == Quiet => Loads(files)

(* "Installation Succeeded": once everybody is through, the server has the  *)
(* jobs that are in the directory, and a flow for each unless some depend   *)
(* on themselves.                                                           *)
SucceededIsServed ==
  Quiet /\ (\E t \in Deployers : pc[t] = "succeeded") /\ (\A t \in Deployers : pc[t] # "failed") =>
    /\ cache = Descriptors(files)
    /\ (\A d \in cache : ~OnCycle(d, cache)) => flows = cache

(* With one deployer alone the directory can be loaded whenever nobody is   *)
(* deploying, and what was installed is served.                             *)
AloneIsServed == TypeOK /\ (alone => FolderStaysSound /\ SucceededIsServed)

(* "check for cycles": no cycle passes the verification.                    *)
CyclesAreRefused ==
  Quiet => \A d \in Descriptors(files) : ~OnCycle(d, Descriptors(files))

(* "Job doesn't exist": a job that a leaf does not find is in a folder that *)
(* somebody has changed.                                                    *)
MissingIsGone ==
  \A t \in Runners : pc[t] = "missing" =>
    \A x \in InitFiles : x.job = job[t] => \E u \in Deployers : request[u].folder = x.folder
=============================================================================
