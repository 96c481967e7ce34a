-------------------------- MODULE JobFolderProofs ---------------------------
(***************************************************************************)
(* What the server makes of the job directory is sound for every number of *)
(* deployers, folders and uploads: it throws on everything else, and what  *)
(* is built from sound descriptors is sound.  A deployer that works alone  *)
(* keeps the directory so that it can be loaded, and what was installed is *)
(* served: at each step of its deployment it is known which files it has   *)
(* read and which it will leave behind (Claims).                           *)
(*                                                                         *)
(* The page of a flow, beside it, for any jobs whose dependencies end: its *)
(* flags, classes and marks are the set of disabled jobs that FlowEdits    *)
(* edits, and Execute leaves out the jobs that were drawn faded.           *)
(***************************************************************************)
EXTENDS JobFolder, FlowPage, FiniteSetTheorems, WellFoundedInduction, TLAPS

(* What BuildFlows has accepted is kept until it is published.              *)
Accepted == \A t \in Threads : pc[t] = "publish" => Loads(read[t])

Functions == DOMAIN pc = Threads /\ DOMAIN read = Threads

IInv == Functions /\ ServedIsSound /\ Accepted

-----------------------------------------------------------------------------
(* Files that can be loaded have sound descriptors.                         *)
LEMMA LoadsSound == ASSUME NEW fs, Loads(fs) PROVE Sound(Descriptors(fs))
<1>1. ASSUME NEW d \in Descriptors(fs), NEW e \in Descriptors(fs), d.job = e.job
      PROVE  d = e
  <2>1. PICK x \in fs : d = [job |-> x.job, deps |-> x.deps]  BY DEF Descriptors
  <2>2. PICK y \in fs : e = [job |-> y.job, deps |-> y.deps]  BY DEF Descriptors
  <2>3. x.job = y.job  BY <1>1, <2>1, <2>2
  <2>4. x = y  BY <2>3 DEF Loads, Unique
  <2> QED  BY <2>1, <2>2, <2>4
<1>2. NoneMissing(Descriptors(fs))  BY DEF Loads
<1> QED  BY <1>1, <1>2 DEF Sound

(* A job that the roots lead to has its dependencies among such jobs.       *)
LEMMA FromClosed ==
  ASSUME NEW ds, NEW start, NEW d \in From(start, ds), NEW e \in ds, e.job \in d.deps
  PROVE  e \in From(start, ds)
<1>1. d \in ds  BY DEF From
<1>2. ASSUME NEW S \in SUBSET ds, start \subseteq S, Closed(S, ds)
      PROVE  e \in S
  <2>1. d \in S  BY <1>2 DEF From
  <2> QED  BY <1>1, <1>2, <2>1 DEF Closed
<1> QED  BY <1>2 DEF From

(* buildLegacyFlow() keeps what is sound so.                                *)
LEMMA BuiltSound == ASSUME NEW ds, Sound(ds) PROVE Sound(Built(ds))
<1>1. Built(ds) \subseteq ds  BY DEF Built, From
<1>2. ASSUME NEW d \in Built(ds), NEW j \in d.deps
      PROVE  j \in NamesOf(Built(ds))
  <2>1. d \in ds  BY <1>1
  <2>2. j \in NamesOf(ds)  BY <2>1 DEF Sound, NoneMissing
  <2>3. PICK e \in ds : e.job = j  BY <2>2 DEF NamesOf
  <2>4. e \in Built(ds)  BY <2>3, FromClosed DEF Built
  <2> QED  BY <2>3, <2>4 DEF NamesOf
<1>3. NoneMissing(Built(ds))  BY <1>2 DEF NoneMissing
<1>4. \A d, e \in Built(ds) : d.job = e.job => d = e  BY <1>1 DEF Sound
<1> QED  BY <1>3, <1>4 DEF Sound

-----------------------------------------------------------------------------
(* A step of t that leaves what is served alone, and where t does not come  *)
(* to publish, keeps the invariant.                                         *)
LEMMA OtherStep ==
  ASSUME IInv, NEW t \in Threads, UNCHANGED served,
         DOMAIN pc' = Threads, DOMAIN read' = Threads,
         pc'[t] # "publish",
         \A u \in Threads \ {t} : pc'[u] = pc[u] /\ read'[u] = read[u]
  PROVE  IInv'
<1>1. ServedIsSound'  BY DEF IInv, ServedIsSound, served
<1>2. Accepted'
  <2> SUFFICES ASSUME NEW u \in Threads, pc'[u] = "publish" PROVE Loads(read'[u])
    BY DEF Accepted
  <2>1. u # t  OBVIOUS
  <2>2. pc[u] = "publish" /\ read'[u] = read[u]  BY <2>1
  <2> QED  BY <2>2 DEF IInv, Accepted
<1> QED  BY <1>1, <1>2 DEF IInv, Functions

LEMMA InitIInv == Init => IInv
<1> SUFFICES ASSUME Init PROVE IInv  OBVIOUS
<1>1. Functions  BY DEF Init, Functions
<1>2. Sound(cache)  BY FolderConstants, LoadsSound DEF Init
<1>3. Sound(flows)  BY FolderConstants, LoadsSound, BuiltSound DEF Init
<1>4. Accepted  BY DEF Init, Accepted
<1> QED  BY <1>1, <1>2, <1>3, <1>4 DEF IInv, ServedIsSound

LEMMA StepIInv == IInv /\ [Next]_vars => IInv'
<1> SUFFICES ASSUME IInv, [Next]_vars PROVE IInv'  OBVIOUS
<1> USE DEF Functions
<1>1. ASSUME NEW t \in Threads, ReadFolder(t) PROVE IInv'
  <2>1. pc[t] # "publish"  BY <1>1 DEF ReadFolder, Loading
  <2>2. PICK f \in toRead[t] :
          IF f \in folders
            THEN /\ read' = [read EXCEPT ![t] = @ \cup InFolder(f)]
                 /\ UNCHANGED pc
            ELSE Goto(t, Gone(t)) /\ UNCHANGED load
    BY <1>1 DEF ReadFolder
  <2>3. UNCHANGED served  BY <1>1 DEF ReadFolder
  <2>4. CASE f \in folders  BY <2>1, <2>2, <2>3, <2>4, OtherStep DEF IInv
  <2>5. CASE f \notin folders
    BY <2>2, <2>3, <2>5, OtherStep DEF IInv, Goto, Gone, load
  <2> QED  BY <2>4, <2>5
<1>2. ASSUME NEW t \in Deployers, Deploy(t) PROVE IInv'
  <2> t \in Threads  BY DEF Threads
  <2>1. CASE DeployFolder(t)
    <3>1. pc' = [pc EXCEPT ![t] = "verify"] /\ read' = [read EXCEPT ![t] = {}]
      BY <2>1 DEF DeployFolder, StartLoad, Goto
    <3> QED  BY <3>1, <2>1, OtherStep DEF DeployFolder, IInv
  <2>2. CASE Verify(t)
    BY <2>2, OtherStep DEF Verify, Goto, load, IInv
  <2>3. CASE Undeploy(t)
    <3>1. pc[t] = "undeploy" /\ UNCHANGED <<served, load>>  BY <2>3 DEF Undeploy
    <3>2. pc' = pc \/ pc' = [pc EXCEPT ![t] = "mkdirs"]  BY <2>3 DEF Undeploy, Goto
    <3> QED  BY <3>1, <3>2, OtherStep DEF load, IInv
  <2>4. CASE MakeFolder(t)
    BY <2>4, OtherStep DEF MakeFolder, Goto, load, IInv
  <2>5. CASE Move(t)
    BY <2>5, OtherStep DEF Move, Goto, load, IInv
  <2>6. CASE DeployJob(t)
    BY <2>6, OtherStep DEF DeployJob, Goto, load, IInv
  <2>7. CASE DeleteJobFile(t)
    BY <2>7, OtherStep DEF DeleteJobFile, Goto, load, IInv
  <2>8. CASE CreateJobFile(t)
    BY <2>8, OtherStep DEF CreateJobFile, Goto, load, IInv
  <2>9. CASE StoreJob(t)
    BY <2>9, OtherStep DEF StoreJob, Goto, load, IInv
  <2>10. CASE Update(t)
    <3>1. pc' = [pc EXCEPT ![t] = "cache"] /\ read' = [read EXCEPT ![t] = {}]
      BY <2>10 DEF Update, StartLoad, Goto
    <3> QED  BY <3>1, <2>10, OtherStep DEF Update, IInv
  <2>11. CASE SetCache(t)
    <3>1. CASE ~Loads(read[t])
      BY <2>11, <3>1, OtherStep DEF SetCache, Goto, load, served, IInv
    <3>2. CASE Loads(read[t])
      <4>1. /\ cache' = Descriptors(read[t]) /\ flows' = flows
            /\ pc' = [pc EXCEPT ![t] = "reload"] /\ read' = [read EXCEPT ![t] = {}]
        BY <2>11, <3>2 DEF SetCache, StartLoad, Goto
      <4>2. ServedIsSound'  BY <4>1, <3>2, LoadsSound DEF IInv, ServedIsSound
      <4>3. Accepted'  BY <4>1 DEF IInv, Accepted
      <4> QED  BY <4>1, <4>2, <4>3 DEF IInv
    <3> QED  BY <3>1, <3>2
  <2>12. CASE BuildFlows(t)
    <3>1. /\ UNCHANGED <<served, read>>
          /\ \/ Loads(read[t]) /\ pc' = [pc EXCEPT ![t] = "publish"]
             \/ pc' = [pc EXCEPT ![t] = "failed"]
      BY <2>12 DEF BuildFlows, Goto, load
    <3>2. ServedIsSound'  BY <3>1 DEF IInv, ServedIsSound, served
    <3>3. Accepted'  BY <3>1 DEF IInv, Accepted
    <3> QED  BY <3>1, <3>2, <3>3 DEF IInv
  <2>13. CASE Publish(t)
    <3>1. /\ pc[t] = "publish" /\ flows' = Built(Descriptors(read[t])) /\ cache' = cache
          /\ pc' = [pc EXCEPT ![t] = "succeeded"] /\ read' = read
      BY <2>13 DEF Publish, Goto, load
    <3>2. Loads(read[t])  BY <3>1 DEF IInv, Accepted
    <3>3. Sound(flows')  BY <3>1, <3>2, LoadsSound, BuiltSound
    <3>4. ServedIsSound'  BY <3>1, <3>3 DEF IInv, ServedIsSound
    <3>5. Accepted'  BY <3>1 DEF IInv, Accepted
    <3> QED  BY <3>1, <3>4, <3>5 DEF IInv
  <2> QED
    BY <1>2, <2>1, <2>2, <2>3, <2>4, <2>5, <2>6, <2>7, <2>8, <2>9, <2>10, <2>11, <2>12, <2>13
    DEF Deploy
<1>3. ASSUME NEW t \in Runners, LookFor(t) \/ Find(t) PROVE IInv'
  <2> t \in Threads  BY DEF Threads
  <2>1. CASE LookFor(t)
    <3>1. pc' = [pc EXCEPT ![t] = "look"] /\ read' = [read EXCEPT ![t] = {}]
      BY <2>1 DEF LookFor, StartLoad, Goto
    <3> QED  BY <3>1, <2>1, OtherStep DEF LookFor, IInv
  <2>2. CASE Find(t)
    BY <2>2, OtherStep DEF Find, Goto, load, IInv
  <2> QED  BY <1>3, <2>1, <2>2
<1>4. CASE UNCHANGED vars
  <2>1. UNCHANGED <<served, pc, read>>  BY <1>4 DEF vars, load
  <2> QED  BY <2>1 DEF IInv, ServedIsSound, Accepted, served
<1> QED  BY <1>1, <1>2, <1>3, <1>4 DEF Next

(* The descriptors the executor asks and the flows that are scheduled have  *)
(* no job twice and no dependency missing, whatever the web threads did to  *)
(* the directory while it was read.                                         *)
THEOREM ServedSound == Spec => []ServedIsSound
<1>1. IInv => ServedIsSound  BY DEF IInv
<1> QED  BY InitIInv, StepIInv, <1>1, PTL DEF Spec

-----------------------------------------------------------------------------
(* Types.  A deployer that changes a folder has it to itself, so the folder *)
(* is there when a file is put into it.                                     *)
NoRequest == [kind |-> "none", folder |-> "none", jobs |-> {}]

FolderThere ==
  \A t \in Deployers :
    /\ pc[t] \in {"move", "delete", "create", "store"} => request[t].folder \in folders
    /\ \A u \in Deployers \ {t} : Busy(t) /\ Busy(u) => request[t].folder # request[u].folder

TypeInv ==
  /\ TypeOK /\ FolderThere
  /\ request \in [Deployers -> Requests \cup {NoRequest}]

(* What a deployer is going to do, or has read, when it is the only one.    *)
Changing == {"undeploy", "mkdirs", "move"}

Rest(t) == {x \in files : x.folder # request[t].folder}

Claims(t) ==
  /\ request[t].kind = "none" => pc[t] = "idle"
  /\ pc[t] \notin {"delete", "create", "store"}
  /\ pc[t] = "verify" =>
       /\ toRead[t] \subseteq folders \ {request[t].folder}
       /\ read[t] = {x \in Rest(t) : x.folder \notin toRead[t]}
  /\ pc[t] = "undeploy" => Loads(Rest(t) \cup FilesOf(request[t]))
  /\ pc[t] \in {"mkdirs", "move"} => Rest(t) = files /\ Loads(files \cup FilesOf(request[t]))
  /\ pc[t] \in {"cache", "reload"} =>
       toRead[t] \subseteq folders /\ read[t] = {x \in files : x.folder \notin toRead[t]}
  /\ pc[t] = "publish" => read[t] = files
  /\ pc[t] \in {"reload", "publish", "succeeded"} => cache = Descriptors(files)
  /\ pc[t] = "succeeded" => flows = Built(Descriptors(files))

OneDeploys ==
  \A t, u \in Deployers : request[t].kind # "none" /\ request[u].kind # "none" => t = u

AloneInv ==
  alone =>
    /\ OneDeploys
    /\ \A t \in Deployers : Claims(t)
    /\ (\A t \in Deployers : pc[t] \notin Changing) => Loads(files)

(* What t's step may not touch.                                             *)
Acts(t) ==
  /\ \A u \in Threads \ {t} : pc'[u] = pc[u] /\ toRead'[u] = toRead[u] /\ read'[u] = read[u]
  /\ \A u \in Deployers \ {t} : request'[u] = request[u]

(* What is made of requests and files.                                      *)
LEMMA FilesTyped ==
  /\ \A r \in Requests : r.folder \in Folders /\ FilesOf(r) \subseteq File
                         /\ \A x \in FilesOf(r) : x.folder = r.folder /\ [x EXCEPT !.deps = {}] \in File
                                                 /\ [x EXCEPT !.deps = {}].folder = r.folder
  /\ \A r \in Requests : r.kind \in {"folder", "job"}
  /\ \A fs \in SUBSET File : Descriptors(fs) \subseteq Descriptor
  /\ \A ds : Built(ds) \subseteq ds
<1>1. ASSUME NEW r \in Requests
      PROVE  /\ r.folder \in Folders /\ r.kind \in {"folder", "job"}
             /\ \A x \in FilesOf(r) : /\ x \in File /\ x.folder = r.folder
                                      /\ [x EXCEPT !.deps = {}] \in File
                                      /\ [x EXCEPT !.deps = {}].folder = r.folder
  <2>1. r.folder \in Folders /\ r.jobs \in SUBSET Descriptor /\ r.kind \in {"folder", "job"}
    BY FolderConstants
  <2>2. ASSUME NEW d \in Descriptor
        PROVE  /\ [folder |-> r.folder, job |-> d.job, deps |-> d.deps] \in File
               /\ [folder |-> r.folder, job |-> d.job, deps |-> {}] \in File
    BY <2>1 DEF Descriptor, File
  <2> QED
    BY <2>1, <2>2 DEF FilesOf
<1>2. \A fs \in SUBSET File : Descriptors(fs) \subseteq Descriptor
  BY DEF Descriptors, File, Descriptor
<1>3. \A ds : Built(ds) \subseteq ds
  BY DEF Built, From
<1> QED
  BY <1>1, <1>2, <1>3

(* What a step of t has to see to, for the types.                           *)
LEMMA TypedStep ==
  ASSUME TypeInv, NEW t \in Threads, Acts(t), alone' = alone, deploys' \in Nat,
         pc' \in [Threads -> Steps],
         toRead' \in [Threads -> SUBSET Folders], read' \in [Threads -> SUBSET File],
         request' \in [Deployers -> Requests \cup {NoRequest}],
         files' \subseteq File, folders' \subseteq Folders, \A x \in files' : x.folder \in folders',
         cache' \subseteq Descriptor, flows' \subseteq Descriptor,
         t \in Deployers =>
           /\ Busy(t)' => request'[t] \in Requests
           /\ pc'[t] \in {"move", "delete", "create", "store"} => request'[t].folder \in folders'
           /\ \A u \in Deployers \ {t} : Busy(t)' /\ Busy(u) => request'[t].folder # request[u].folder,
         \A u \in Deployers \ {t} :
           Busy(u) /\ request[u].folder \in folders => request[u].folder \in folders'
  PROVE  TypeInv'
<1>1. Deployers \subseteq Threads
  BY DEF Threads
<1>2. \A u \in Deployers \ {t} : Busy(u)' = Busy(u) /\ request'[u] = request[u] /\ pc'[u] = pc[u]
  BY <1>1 DEF Acts, Busy
<1>3. \A u \in Deployers : Busy(u)' => request'[u] \in Requests
  BY <1>2 DEF TypeInv, TypeOK
<1>4. TypeOK'
  BY <1>3 DEF TypeInv, TypeOK
<1>5. ASSUME NEW u \in Deployers
      PROVE  /\ pc'[u] \in {"move", "delete", "create", "store"} => request'[u].folder \in folders'
             /\ \A v \in Deployers \ {u} : Busy(u)' /\ Busy(v)' => request'[u].folder # request'[v].folder
  <2>1. CASE u = t
    BY <1>2, <2>1
  <2>2. CASE u # t
    <3>1. pc[u] \in {"move", "delete", "create", "store"} => Busy(u)
      BY DEF Busy, Resting
    <3>2. pc'[u] \in {"move", "delete", "create", "store"} => request'[u].folder \in folders'
      BY <1>2, <2>2, <3>1 DEF TypeInv, FolderThere
    <3>3. ASSUME NEW v \in Deployers \ {u}, Busy(u)', Busy(v)'
          PROVE  request'[u].folder # request'[v].folder
      <4>1. CASE v = t
        BY <1>2, <2>2, <3>3, <4>1
      <4>2. CASE v # t
        BY <1>2, <2>2, <3>3, <4>2 DEF TypeInv, FolderThere
      <4> QED
        BY <4>1, <4>2
    <3> QED
      BY <3>2, <3>3
  <2> QED
    BY <2>1, <2>2
<1>6. FolderThere'
  BY <1>5 DEF FolderThere
<1> QED
  BY <1>4, <1>6 DEF TypeInv

(* A thread goes on at w, with X to read and Y read.                        *)
GoesOn(t, w, X, Y) ==
  /\ pc' = [pc EXCEPT ![t] = w] /\ toRead' = [toRead EXCEPT ![t] = X]
  /\ read' = [read EXCEPT ![t] = Y]

LEMMA GoesOnFacts ==
  ASSUME TypeInv, NEW t \in Threads, NEW w \in Steps, NEW X \in SUBSET Folders, NEW Y \in SUBSET File,
         GoesOn(t, w, X, Y), \A u \in Deployers \ {t} : request'[u] = request[u]
  PROVE  /\ pc' \in [Threads -> Steps] /\ toRead' \in [Threads -> SUBSET Folders]
         /\ read' \in [Threads -> SUBSET File]
         /\ pc'[t] = w /\ toRead'[t] = X /\ read'[t] = Y /\ Acts(t)
BY DEF TypeInv, TypeOK, GoesOn, Acts

LEMMA LoadKept ==
  ASSUME TypeInv, NEW t \in Threads, NEW w, Goto(t, w), UNCHANGED load
  PROVE  GoesOn(t, w, toRead[t], read[t])
BY DEF TypeInv, TypeOK, GoesOn, Goto, load

(* A step of t that leaves the disk and the requests alone.                 *)
LEMMA ReadingTyped ==
  ASSUME TypeInv, NEW t \in Threads, NEW w \in Steps, NEW X \in SUBSET Folders, NEW Y \in SUBSET File,
         GoesOn(t, w, X, Y), UNCHANGED <<disk, request, deploys, alone>>,
         cache' \subseteq Descriptor, flows' \subseteq Descriptor,
         t \in Deployers => w \notin {"move", "delete", "create", "store"} /\ (Busy(t) \/ w \in Resting)
  PROVE  TypeInv' /\ Acts(t) /\ pc'[t] = w /\ toRead'[t] = X /\ read'[t] = Y
<1>1. /\ pc' \in [Threads -> Steps] /\ toRead' \in [Threads -> SUBSET Folders]
      /\ read' \in [Threads -> SUBSET File]
      /\ pc'[t] = w /\ toRead'[t] = X /\ read'[t] = Y /\ Acts(t)
  BY GoesOnFacts
<1>2. t \in Deployers =>
        /\ Busy(t)' => request'[t] \in Requests
        /\ pc'[t] \in {"move", "delete", "create", "store"} => request'[t].folder \in folders'
        /\ \A u \in Deployers \ {t} : Busy(t)' /\ Busy(u) => request'[t].folder # request[u].folder
  BY <1>1 DEF TypeInv, TypeOK, FolderThere, Busy
<1>3. TypeInv'
  BY <1>1, <1>2, TypedStep DEF TypeInv, TypeOK, disk
<1> QED
  BY <1>1, <1>3

(* A step of the one deployer there is.                                     *)
LEMMA AloneStep ==
  ASSUME AloneInv, alone' = alone, NEW t \in Deployers, Acts(t),
         alone => /\ \A u \in Deployers \ {t} : request[u].kind = "none"
                  /\ Claims(t)' /\ (pc'[t] \notin Changing => Loads(files'))
  PROVE  AloneInv'
<1> SUFFICES ASSUME alone
             PROVE  /\ OneDeploys'
                    /\ \A u \in Deployers : Claims(u)'
                    /\ (\A u \in Deployers : pc'[u] \notin Changing) => Loads(files')
  BY DEF AloneInv
<1>1. ASSUME NEW u \in Deployers \ {t}
      PROVE  request'[u].kind = "none" /\ pc'[u] = "idle"
  <2>1. request[u].kind = "none" /\ pc[u] = "idle"
    BY DEF AloneInv, Claims
  <2>2. request'[u] = request[u] /\ pc'[u] = pc[u]
    BY DEF Acts, Threads
  <2> QED
    BY <2>1, <2>2
<1>2. OneDeploys'
  BY <1>1 DEF OneDeploys
<1>3. ASSUME NEW u \in Deployers
      PROVE  Claims(u)'
  <2>1. CASE u # t
    BY <1>1, <2>1 DEF Claims
  <2> QED
    BY <2>1
<1> QED
  BY <1>2, <1>3

(* What is known of it as soon as it has a request.                         *)
LEMMA AloneFacts ==
  ASSUME AloneInv, alone, NEW t \in Deployers, pc[t] # "idle"
  PROVE  /\ Claims(t) /\ request[t].kind # "none"
         /\ \A u \in Deployers \ {t} : request[u].kind = "none" /\ pc[u] = "idle"
         /\ pc[t] \notin Changing => Loads(files)
<1>1. Claims(t) /\ request[t].kind # "none"
  BY DEF AloneInv, Claims
<1>2. \A u \in Deployers \ {t} : request[u].kind = "none" /\ pc[u] = "idle"
  BY <1>1 DEF AloneInv, OneDeploys, Claims
<1> QED
  BY <1>1, <1>2 DEF AloneInv, Changing

(* A leaf that looks for its job.                                           *)
LEMMA AloneReader ==
  ASSUME AloneInv, alone' = alone, NEW t \in Runners, Acts(t), UNCHANGED <<disk, served, request>>
  PROVE  AloneInv'
<1>1. \A u \in Deployers : pc'[u] = pc[u] /\ toRead'[u] = toRead[u] /\ read'[u] = read[u]
  BY FolderConstants DEF Acts, Threads
<1>2. \A u \in Deployers : Claims(u)' <=> Claims(u)
  BY <1>1 DEF Claims, Rest, disk, served
<1>3. OneDeploys' <=> OneDeploys
  BY DEF OneDeploys
<1> QED
  BY <1>1, <1>2, <1>3 DEF AloneInv, disk

Inv == TypeInv /\ AloneInv

LEMMA ReadFolderStep == ASSUME Inv, NEW t \in Threads, ReadFolder(t), alone' = alone PROVE Inv'
<1>1. TypeInv /\ AloneInv /\ Loading(t) /\ pc[t] \in Steps /\ Busy(t)
      /\ toRead[t] \in SUBSET Folders /\ read[t] \in SUBSET File /\ files \subseteq File
  BY DEF Inv, ReadFolder, TypeInv, TypeOK, Loading, Busy, Resting
<1>2. PICK f \in toRead[t] :
        IF f \in folders
          THEN /\ toRead' = [toRead EXCEPT ![t] = @ \ {f}]
               /\ read' = [read EXCEPT ![t] = @ \cup InFolder(f)]
               /\ UNCHANGED pc
          ELSE Goto(t, Gone(t)) /\ UNCHANGED load
  BY DEF ReadFolder
<1>3. UNCHANGED <<disk, served, request, deploys, alone>> /\ cache' \subseteq Descriptor /\ flows' \subseteq Descriptor
  BY <1>1 DEF ReadFolder, served, TypeInv, TypeOK
<1>4. pc[t] \in {"verify", "cache", "reload", "look"}
  BY <1>1 DEF Loading
<1>5. CASE f \in folders
  <2>1. GoesOn(t, pc[t], toRead[t] \ {f}, read[t] \cup InFolder(f))
    BY <1>1, <1>2, <1>5 DEF GoesOn, TypeInv, TypeOK
  <2>2. read[t] \cup InFolder(f) \in SUBSET File /\ toRead[t] \ {f} \in SUBSET Folders
    BY <1>1 DEF InFolder
  <2>3. TypeInv' /\ Acts(t) /\ pc'[t] = pc[t] /\ toRead'[t] = toRead[t] \ {f}
        /\ read'[t] = read[t] \cup InFolder(f)
    BY <1>1, <1>3, <1>4, <2>1, <2>2, ReadingTyped
  <2>4. AloneInv'
    <3>1. CASE t \in Runners
      BY <1>1, <1>3, <2>3, <3>1, AloneReader
    <3>2. CASE t \in Deployers
      <4> SUFFICES ASSUME alone
                   PROVE  /\ \A u \in Deployers \ {t} : request[u].kind = "none"
                          /\ Claims(t)' /\ (pc'[t] \notin Changing => Loads(files'))
        BY <1>1, <1>3, <2>3, <3>2, AloneStep
      <4>1. /\ Claims(t) /\ request[t].kind # "none"
            /\ \A u \in Deployers \ {t} : request[u].kind = "none" /\ pc[u] = "idle"
            /\ pc[t] \notin Changing => Loads(files)
        BY <1>1, <1>4, <3>2, AloneFacts
      <4>2. Claims(t)'
        <5>1. files' = files /\ folders' = folders /\ request' = request /\ cache' = cache /\ Rest(t)' = Rest(t)
          BY <1>3 DEF disk, served, Rest
        <5>2. CASE pc[t] = "verify"
          <6>1. f # request[t].folder
            BY <1>2, <4>1, <5>2 DEF Claims
          <6>2. read'[t] = {x \in Rest(t) : x.folder \notin toRead'[t]}
            BY <1>2, <2>3, <4>1, <5>2, <6>1 DEF Claims, InFolder, Rest
          <6> QED
            BY <2>3, <4>1, <5>1, <5>2, <6>2 DEF Claims
        <5>3. CASE pc[t] \in {"cache", "reload"}
          <6>1. read'[t] = {x \in files : x.folder \notin toRead'[t]}
            BY <1>2, <2>3, <4>1, <5>3 DEF Claims, InFolder
          <6> QED
            BY <2>3, <4>1, <5>1, <5>3, <6>1 DEF Claims
        <5>4. CASE pc[t] = "look"
          BY <2>3, <4>1, <5>1, <5>4 DEF Claims
        <5> QED
          BY <1>4, <5>2, <5>3, <5>4
      <4> QED
        BY <1>3, <2>3, <4>1, <4>2 DEF disk
    <3> QED
      BY <3>1, <3>2 DEF Threads
  <2> QED
    BY <2>3, <2>4 DEF Inv
<1>6. CASE f \notin folders
  <2>1. GoesOn(t, Gone(t), toRead[t], read[t]) /\ Gone(t) \in Resting /\ Gone(t) \in Steps
        /\ Gone(t) \in {"missing", "failed"}
    BY <1>1, <1>2, <1>6, LoadKept DEF Gone, Resting, Steps
  <2>2. TypeInv' /\ Acts(t) /\ pc'[t] = Gone(t)
    BY <1>1, <1>3, <2>1, ReadingTyped
  <2>3. AloneInv'
    <3>1. CASE t \in Runners
      BY <1>1, <1>3, <2>2, <3>1, AloneReader
    <3>2. CASE t \in Deployers
      <4> SUFFICES ASSUME alone
                   PROVE  /\ \A u \in Deployers \ {t} : request[u].kind = "none"
                          /\ Claims(t)' /\ (pc'[t] \notin Changing => Loads(files'))
        BY <1>1, <1>3, <2>2, <3>2, AloneStep
      <4>1. /\ Claims(t) /\ request[t].kind # "none"
            /\ \A u \in Deployers \ {t} : request[u].kind = "none" /\ pc[u] = "idle"
            /\ pc[t] \notin Changing => Loads(files)
        BY <1>1, <1>4, <3>2, AloneFacts
      <4>2. Claims(t)'
        BY <1>3, <2>1, <2>2, <4>1 DEF Claims
      <4>3. Loads(files')
        BY <1>3, <1>4, <4>1 DEF disk, Changing
      <4> QED
        BY <4>1, <4>2, <4>3
    <3> QED
      BY <3>1, <3>2 DEF Threads
  <2> QED
    BY <2>2, <2>3 DEF Inv
<1> QED
  BY <1>5, <1>6

(* A step of a deployer that is at work, and of the only one if alone.      *)
LEMMA WorkStep ==
  ASSUME Inv, NEW t \in Deployers, pc[t] # "idle", alone' = alone, Acts(t), TypeInv',
         ASSUME alone, Claims(t), request[t].kind # "none", pc[t] \notin Changing => Loads(files)
         PROVE  Claims(t)' /\ (pc'[t] \notin Changing => Loads(files'))
  PROVE  Inv'
<1>1. ASSUME alone
      PROVE  /\ \A u \in Deployers \ {t} : request[u].kind = "none"
             /\ Claims(t)' /\ (pc'[t] \notin Changing => Loads(files'))
  <2>1. /\ Claims(t) /\ request[t].kind # "none"
        /\ \A u \in Deployers \ {t} : request[u].kind = "none"
        /\ pc[t] \notin Changing => Loads(files)
    BY <1>1, AloneFacts DEF Inv
  <2> QED
    BY <1>1, <2>1
<1> QED
  BY <1>1, AloneStep DEF Inv

LEMMA DeployFolderStep == ASSUME Inv, NEW t \in Deployers, DeployFolder(t), alone' = alone PROVE Inv'
<1>1. TypeInv /\ AloneInv /\ t \in Threads /\ ~Busy(t) /\ pc[t] \in Resting
      /\ files \subseteq File /\ \A x \in files : x.folder \in folders
  BY DEF Inv, DeployFolder, TypeInv, TypeOK, Busy, Threads
<1>2. PICK r \in Requests :
        /\ \A u \in Deployers : Busy(u) => request[u].folder # r.folder
        /\ alone => \A u \in Deployers : request[u].kind # "none" => u = t
        /\ r.kind = "folder"
        /\ request' = [request EXCEPT ![t] = r]
        /\ StartLoad(t, "verify", {r.folder})
  BY DEF DeployFolder
<1>3. UNCHANGED <<disk, served>> /\ deploys' \in Nat
  BY <1>1 DEF DeployFolder, TypeInv, TypeOK
<1>4. GoesOn(t, "verify", folders \ {r.folder}, {}) /\ "verify" \in Steps
      /\ folders \ {r.folder} \in SUBSET Folders /\ {} \in SUBSET File
  BY <1>1, <1>2 DEF StartLoad, Goto, GoesOn, Steps, TypeInv, TypeOK
<1>5. /\ request' \in [Deployers -> Requests \cup {NoRequest}] /\ request'[t] = r
      /\ \A u \in Deployers \ {t} : request'[u] = request[u]
  BY <1>1, <1>2 DEF TypeInv
<1>6. /\ pc' \in [Threads -> Steps] /\ toRead' \in [Threads -> SUBSET Folders]
      /\ read' \in [Threads -> SUBSET File] /\ pc'[t] = "verify"
      /\ toRead'[t] = folders \ {r.folder} /\ read'[t] = {} /\ Acts(t)
  <2>1. PICK X \in SUBSET Folders, Y \in SUBSET File : X = folders \ {r.folder} /\ Y = {}
    BY <1>4
  <2>2. GoesOn(t, "verify", X, Y)
    BY <1>4, <2>1
  <2>3. /\ pc' \in [Threads -> Steps] /\ toRead' \in [Threads -> SUBSET Folders]
        /\ read' \in [Threads -> SUBSET File] /\ pc'[t] = "verify"
        /\ toRead'[t] = X /\ read'[t] = Y /\ Acts(t)
    BY <1>1, <1>4, <1>5, <2>2, GoesOnFacts
  <2> QED
    BY <2>1, <2>3
<1>7. TypeInv'
  BY <1>1, <1>2, <1>3, <1>5, <1>6, TypedStep DEF TypeInv, TypeOK, disk, served
<1>8. AloneInv'
  <2> SUFFICES ASSUME alone
               PROVE  /\ \A u \in Deployers \ {t} : request[u].kind = "none"
                      /\ Claims(t)' /\ (pc'[t] \notin Changing => Loads(files'))
    BY <1>1, <1>6, AloneStep
  <2>1. \A u \in Deployers \ {t} : request[u].kind = "none" /\ pc[u] = "idle"
    BY <1>1, <1>2 DEF AloneInv, Claims
  <2>2. \A u \in Deployers : pc[u] \notin Changing
    BY <1>1, <2>1 DEF Resting, Changing
  <2>3. Loads(files')
    BY <1>1, <1>3, <2>2 DEF AloneInv, disk
  <2>4. read'[t] = {x \in Rest(t)' : x.folder \notin toRead'[t]}
    BY <1>1, <1>3, <1>5, <1>6 DEF Rest, disk
  <2>5. Claims(t)'
    BY <1>2, <1>3, <1>5, <1>6, <2>4 DEF Claims, disk
  <2> QED
    BY <2>1, <2>3, <2>5
<1> QED
  BY <1>7, <1>8 DEF Inv

LEMMA VerifyStep == ASSUME Inv, NEW t \in Deployers, Verify(t), alone' = alone PROVE Inv'
<1>1. TypeInv /\ AloneInv /\ t \in Threads /\ pc[t] = "verify" /\ toRead[t] = {} /\ Busy(t)
      /\ toRead[t] \in SUBSET Folders /\ read[t] \in SUBSET File
  BY DEF Inv, Verify, HasRead, TypeInv, TypeOK, Threads, Busy, Resting
<1>2. PICK w \in {"undeploy", "failed"} :
        Goto(t, w) /\ (w = "undeploy" => Loads(read[t] \cup FilesOf(request[t])))
  BY DEF Verify
<1>3. UNCHANGED <<disk, served, request, deploys, alone>> /\ UNCHANGED load
      /\ cache' \subseteq Descriptor /\ flows' \subseteq Descriptor
  BY <1>1 DEF Verify, served, TypeInv, TypeOK
<1>4. GoesOn(t, w, toRead[t], read[t]) /\ w \in Steps
  BY <1>1, <1>2, <1>3, LoadKept DEF Steps, Resting
<1>5. TypeInv' /\ Acts(t) /\ pc'[t] = w
  BY <1>1, <1>3, <1>4, ReadingTyped
<1>6. ASSUME alone, Claims(t), request[t].kind # "none", pc[t] \notin Changing => Loads(files)
      PROVE  Claims(t)' /\ (pc'[t] \notin Changing => Loads(files'))
  <2>1. Rest(t)' = Rest(t) /\ FilesOf(request[t])' = FilesOf(request[t]) /\ read[t] = Rest(t)
    BY <1>1, <1>3, <1>6 DEF Rest, FilesOf, disk, Claims
  <2>2. Claims(t)'
    BY <1>2, <1>3, <1>5, <1>6, <2>1 DEF Claims
  <2> QED
    BY <1>1, <1>3, <1>6, <2>2 DEF Changing, disk
<1> QED
  BY <1>1, <1>5, <1>6, WorkStep

LEMMA UndeployStep == ASSUME Inv, NEW t \in Deployers, Undeploy(t), alone' = alone PROVE Inv'
<1>1. /\ TypeInv /\ AloneInv /\ t \in Threads /\ pc[t] = "undeploy" /\ Busy(t)
      /\ toRead[t] \in SUBSET Folders /\ read[t] \in SUBSET File /\ request[t] \in Requests
      /\ files \subseteq File /\ folders \subseteq Folders /\ \A x \in files : x.folder \in folders
  BY DEF Inv, Undeploy, TypeInv, TypeOK, Threads, Busy, Resting
<1>2. UNCHANGED <<served, request, deploys, alone>> /\ UNCHANGED load
  BY DEF Undeploy
<1>3. PICK f : f = request[t].folder
  OBVIOUS
<1>4. PICK w \in {"undeploy", "mkdirs"} :
        /\ pc' = [pc EXCEPT ![t] = w]
        /\ \/ w = "mkdirs" /\ f \notin folders /\ UNCHANGED disk
           \/ w = "undeploy" /\ (\E x \in InFolder(f) : files' = files \ {x}) /\ folders' = folders
           \/ w = "mkdirs" /\ InFolder(f) = {} /\ folders' = folders \ {f} /\ files' = files
  BY <1>1, <1>3 DEF Undeploy, Goto, TypeInv, TypeOK
<1>5. GoesOn(t, w, toRead[t], read[t]) /\ w \in Steps
  BY <1>1, <1>2, <1>4, LoadKept DEF Steps, Goto
<1>6. /\ pc' \in [Threads -> Steps] /\ toRead' \in [Threads -> SUBSET Folders]
      /\ read' \in [Threads -> SUBSET File] /\ pc'[t] = w /\ Acts(t)
  BY <1>1, <1>2, <1>5, GoesOnFacts
<1>7. /\ files' \subseteq files /\ folders' \subseteq Folders /\ \A x \in files' : x.folder \in folders'
      /\ \A g \in folders : g # f => g \in folders'
      /\ Rest(t)' = Rest(t) /\ (w = "mkdirs" => Rest(t) = files)
  BY <1>1, <1>2, <1>3, <1>4 DEF InFolder, Rest, disk
<1>8. TypeInv'
  <2>1. \A u \in Deployers \ {t} : Busy(u) => request[u].folder # f
    BY <1>1, <1>3 DEF TypeInv, FolderThere
  <2>2. cache' \subseteq Descriptor /\ flows' \subseteq Descriptor /\ deploys' \in Nat
        /\ request' \in [Deployers -> Requests \cup {NoRequest}]
    BY <1>1, <1>2 DEF TypeInv, TypeOK, served
  <2>3. /\ request'[t] \in Requests /\ pc'[t] \notin {"move", "delete", "create", "store"}
        /\ \A u \in Deployers \ {t} : Busy(u) => request'[t].folder # request[u].folder
    BY <1>1, <1>2, <1>3, <1>6, <2>1
  <2>4. \A u \in Deployers \ {t} : Busy(u) /\ request[u].folder \in folders => request[u].folder \in folders'
    BY <1>7, <2>1
  <2> QED
    BY <1>1, <1>2, <1>6, <1>7, <2>2, <2>3, <2>4, TypedStep
<1>9. ASSUME alone, Claims(t), request[t].kind # "none", pc[t] \notin Changing => Loads(files)
      PROVE  Claims(t)' /\ (pc'[t] \notin Changing => Loads(files'))
  <2>1. FilesOf(request[t])' = FilesOf(request[t]) /\ Loads(Rest(t) \cup FilesOf(request[t]))
        /\ (w = "mkdirs" => files' = files)
    BY <1>1, <1>2, <1>4, <1>9 DEF FilesOf, Claims, disk
  <2>2. pc'[t] \in Changing
    BY <1>6 DEF Changing
  <2>3. Claims(t)'
    BY <1>2, <1>6, <1>7, <1>9, <2>1 DEF Claims
  <2> QED
    BY <2>2, <2>3
<1> QED
  BY <1>1, <1>2, <1>6, <1>8, <1>9, WorkStep

(* A step of a deployer that makes its folder, or puts files into it.       *)
LEMMA WriteTyped ==
  ASSUME Inv, NEW t \in Deployers, Busy(t), NEW w \in Steps, Goto(t, w),
         UNCHANGED <<served, request, deploys, alone>>, UNCHANGED load,
         folders' \subseteq Folders, folders \subseteq folders',
         files' \subseteq File, \A x \in files' : x \in files \/ x.folder = request[t].folder,
         request[t].folder \in folders'
  PROVE  TypeInv' /\ Acts(t) /\ pc'[t] = w
<1>1. /\ TypeInv /\ t \in Threads
      /\ toRead[t] \in SUBSET Folders /\ read[t] \in SUBSET File /\ request[t] \in Requests
      /\ \A x \in files : x.folder \in folders
  BY DEF Inv, TypeInv, TypeOK, Threads
<1>2. GoesOn(t, w, toRead[t], read[t])
  BY <1>1, LoadKept
<1>3. /\ pc' \in [Threads -> Steps] /\ toRead' \in [Threads -> SUBSET Folders]
      /\ read' \in [Threads -> SUBSET File] /\ pc'[t] = w /\ Acts(t)
  BY <1>1, <1>2, GoesOnFacts
<1>4. cache' \subseteq Descriptor /\ flows' \subseteq Descriptor /\ deploys' \in Nat
      /\ request' \in [Deployers -> Requests \cup {NoRequest}]
  BY <1>1 DEF TypeInv, TypeOK, served
<1>5. /\ request'[t] \in Requests /\ request'[t].folder \in folders'
      /\ \A u \in Deployers \ {t} : Busy(u) => request'[t].folder # request[u].folder
  BY <1>1 DEF TypeInv, FolderThere
<1>6. \A x \in files' : x.folder \in folders'
  BY <1>1
<1>7. TypeInv'
  BY <1>1, <1>3, <1>4, <1>5, <1>6, TypedStep
<1> QED
  BY <1>3, <1>7

(* deployJobDir(): the new files are put where the old ones were.           *)
LEMMA MakeFolderStep == ASSUME Inv, NEW t \in Deployers, MakeFolder(t), alone' = alone PROVE Inv'
<1>1. /\ Busy(t) /\ pc[t] = "mkdirs" /\ Goto(t, "move") /\ "move" \in Steps
      /\ UNCHANGED <<files, served, request, deploys, alone>> /\ UNCHANGED load
      /\ folders' = folders \cup {request[t].folder}
  BY DEF MakeFolder, Busy, Resting, Steps
<1>2. /\ files \subseteq File /\ folders \subseteq Folders /\ request[t] \in Requests
      /\ request[t].folder \in Folders
  BY <1>1, FilesTyped DEF Inv, TypeInv, TypeOK
<1>3. TypeInv' /\ Acts(t) /\ pc'[t] = "move"
  BY <1>1, <1>2, WriteTyped
<1>4. ASSUME alone, Claims(t), request[t].kind # "none", pc[t] \notin Changing => Loads(files)
      PROVE  Claims(t)' /\ (pc'[t] \notin Changing => Loads(files'))
  <2>1. Rest(t)' = Rest(t) /\ FilesOf(request[t])' = FilesOf(request[t])
    BY <1>1 DEF Rest, FilesOf
  <2>2. Claims(t)'
    BY <1>1, <1>3, <1>4, <2>1 DEF Claims
  <2> QED
    BY <1>3, <2>2 DEF Changing
<1> QED
  BY <1>1, <1>3, <1>4, WorkStep

LEMMA MoveStep == ASSUME Inv, NEW t \in Deployers, Move(t), alone' = alone PROVE Inv'
<1>1. /\ Busy(t) /\ pc[t] = "move" /\ "update" \in Steps /\ "failed" \in Steps
      /\ UNCHANGED <<folders, served, request, deploys, alone>> /\ UNCHANGED load
  BY DEF Move, Busy, Resting, Steps
<1>2. /\ files \subseteq File /\ folders \subseteq Folders /\ request[t] \in Requests
      /\ FilesOf(request[t]) \subseteq File /\ \A x \in FilesOf(request[t]) : x.folder = request[t].folder
      /\ request[t].folder \in folders
  BY <1>1, FilesTyped DEF Inv, TypeInv, TypeOK, FolderThere
<1>3. CASE files' = files \cup FilesOf(request[t]) /\ Goto(t, "update")
  <2>1. files' \subseteq File /\ \A x \in files' : x \in files \/ x.folder = request[t].folder
    BY <1>2, <1>3
  <2>2. TypeInv' /\ Acts(t) /\ pc'[t] = "update"
    BY <1>1, <1>2, <1>3, <2>1, WriteTyped
  <2>3. ASSUME alone, Claims(t), request[t].kind # "none", pc[t] \notin Changing => Loads(files)
        PROVE  Claims(t)' /\ (pc'[t] \notin Changing => Loads(files'))
    <3>1. Loads(files')
      BY <1>1, <1>3, <2>3 DEF Claims
    <3>2. Claims(t)'
      BY <1>1, <2>2, <2>3 DEF Claims
    <3> QED
      BY <3>1, <3>2
  <2> QED
    BY <1>1, <2>2, <2>3, WorkStep
<1>4. CASE ~alone /\ Goto(t, "failed") /\ UNCHANGED files
  <2>1. TypeInv' /\ Acts(t) /\ pc'[t] = "failed"
    BY <1>1, <1>2, <1>4, WriteTyped
  <2> QED
    BY <1>1, <1>4, <2>1, WorkStep
<1> QED
  BY <1>3, <1>4 DEF Move

(* A single job is deployed only while others may deploy too.               *)
LEMMA DeployJobStep == ASSUME Inv, NEW t \in Deployers, DeployJob(t), alone' = alone PROVE Inv'
<1>1. TypeInv /\ t \in Threads /\ ~alone /\ deploys' \in Nat
      /\ toRead[t] \in SUBSET Folders /\ read[t] \in SUBSET File
      /\ "delete" \in Steps
      /\ files \subseteq File /\ folders \subseteq Folders /\ \A x \in files : x.folder \in folders
  BY DEF Inv, DeployJob, TypeInv, TypeOK, Threads, Steps
<1>2. PICK r \in Requests :
        /\ \A u \in Deployers : Busy(u) => request[u].folder # r.folder
        /\ request' = [request EXCEPT ![t] = r]
        /\ folders' = folders \cup {r.folder}
  BY DEF DeployJob
<1>3. UNCHANGED <<files, served>> /\ Goto(t, "delete") /\ UNCHANGED load
  BY DEF DeployJob
<1>4. /\ request' \in [Deployers -> Requests \cup {NoRequest}] /\ request'[t] = r
      /\ \A u \in Deployers \ {t} : request'[u] = request[u]
  BY <1>1, <1>2 DEF TypeInv
<1>5. GoesOn(t, "delete", toRead[t], read[t])
  BY <1>1, <1>3, LoadKept
<1>6. /\ pc' \in [Threads -> Steps] /\ toRead' \in [Threads -> SUBSET Folders]
      /\ read' \in [Threads -> SUBSET File] /\ pc'[t] = "delete" /\ Acts(t)
  <2>1. PICK X \in SUBSET Folders, Y \in SUBSET File : X = toRead[t] /\ Y = read[t]
    BY <1>1
  <2>2. GoesOn(t, "delete", X, Y)
    BY <1>5, <2>1
  <2>3. TypeInv /\ t \in Threads /\ "delete" \in Steps
    BY <1>1
  <2> QED
    BY <1>4, <2>2, <2>3, GoesOnFacts
<1>7. r.folder \in Folders /\ folders' \subseteq Folders /\ folders \subseteq folders'
      /\ r.folder \in folders' /\ files' \subseteq File /\ \A x \in files' : x.folder \in folders'
  BY <1>1, <1>2, <1>3, FilesTyped
<1>8. cache' \subseteq Descriptor /\ flows' \subseteq Descriptor
  BY <1>1, <1>3 DEF TypeInv, TypeOK, served
<1>9. TypeInv'
  BY <1>1, <1>2, <1>4, <1>6, <1>7, <1>8, TypedStep
<1> QED
  BY <1>1, <1>9 DEF Inv, AloneInv

(* deployJob() goes on: never when one deployer is alone.                   *)
LEMMA EditStep ==
  ASSUME Inv, NEW t \in Deployers, DeleteJobFile(t) \/ CreateJobFile(t) \/ StoreJob(t), alone' = alone
  PROVE  Inv'
<1>1. PICK w \in {"create", "store", "update"} :
        /\ Goto(t, w)
        /\ files' \subseteq files \cup FilesOf(request[t])
                             \cup {[x EXCEPT !.deps = {}] : x \in FilesOf(request[t])}
  BY DEF DeleteJobFile, CreateJobFile, StoreJob
<1>2. /\ Busy(t) /\ pc[t] \in {"delete", "create", "store"} /\ w \in Steps
      /\ UNCHANGED <<folders, served, request, deploys, alone>> /\ UNCHANGED load
  BY DEF DeleteJobFile, CreateJobFile, StoreJob, Busy, Resting, Steps
<1>3. /\ files \subseteq File /\ folders \subseteq Folders /\ request[t] \in Requests
      /\ request[t].folder \in folders
  BY <1>2 DEF Inv, TypeInv, TypeOK, FolderThere
<1>4. ASSUME NEW x \in files'
      PROVE  x \in File /\ (x \in files \/ x.folder = request[t].folder)
  <2>1. \A y \in FilesOf(request[t]) : y \in File /\ y.folder = request[t].folder
          /\ [y EXCEPT !.deps = {}] \in File /\ [y EXCEPT !.deps = {}].folder = request[t].folder
    BY <1>3, FilesTyped
  <2> QED
    BY <1>1, <1>3, <2>1
<1>5. TypeInv' /\ Acts(t) /\ pc'[t] = w
  BY <1>2, <1>1, <1>3, <1>4, WriteTyped
<1>6. ASSUME alone, Claims(t)
      PROVE  FALSE
  BY <1>2, <1>6 DEF Claims
<1> QED
  BY <1>2, <1>5, <1>6, WorkStep

(* updateFlowManager(): what was read is what is there.                     *)
LEMMA UpdateStep == ASSUME Inv, NEW t \in Deployers, Update(t), alone' = alone PROVE Inv'
<1>1. TypeInv /\ t \in Threads /\ pc[t] = "update" /\ Busy(t) /\ "cache" \in Steps
      /\ folders \in SUBSET Folders /\ {} \in SUBSET File
      /\ files \subseteq File /\ \A x \in files : x.folder \in folders
  BY DEF Inv, Update, TypeInv, TypeOK, Threads, Busy, Resting, Steps
<1>2. UNCHANGED <<disk, served, request, deploys, alone>>
      /\ cache' \subseteq Descriptor /\ flows' \subseteq Descriptor
  BY <1>1 DEF Update, served, TypeInv, TypeOK
<1>3. PICK X \in SUBSET Folders, Y \in SUBSET File : X = folders /\ Y = {}
  BY <1>1
<1>4. GoesOn(t, "cache", X, Y)
  BY <1>3 DEF Update, StartLoad, Goto, GoesOn
<1>5. TypeInv' /\ Acts(t) /\ pc'[t] = "cache" /\ toRead'[t] = X /\ read'[t] = Y
  BY <1>1, <1>2, <1>4, ReadingTyped
<1>6. ASSUME alone, Claims(t), request[t].kind # "none", pc[t] \notin Changing => Loads(files)
      PROVE  Claims(t)' /\ (pc'[t] \notin Changing => Loads(files'))
  <2>1. files' = files /\ folders' = folders
    BY <1>2 DEF disk
  <2>2. Y = {x \in files : x.folder \notin X}
    BY <1>1, <1>3
  <2>3. Claims(t)'
    BY <1>2, <1>3, <1>5, <1>6, <2>1, <2>2 DEF Claims
  <2> QED
    BY <1>1, <1>6, <2>1, <2>3 DEF Changing
<1> QED
  BY <1>1, <1>5, <1>6, WorkStep

(* The load for the cache is over: all the files there are have been read.  *)
LEMMA SetCacheStep == ASSUME Inv, NEW t \in Deployers, SetCache(t), alone' = alone PROVE Inv'
<1>1. TypeInv /\ t \in Threads /\ pc[t] = "cache" /\ toRead[t] = {} /\ Busy(t)
      /\ "reload" \in Steps /\ "failed" \in Steps
      /\ toRead[t] \in SUBSET Folders /\ read[t] \in SUBSET File
      /\ folders \in SUBSET Folders /\ {} \in SUBSET File
      /\ cache \subseteq Descriptor /\ flows \subseteq Descriptor
      /\ files \subseteq File /\ \A x \in files : x.folder \in folders
  BY DEF Inv, SetCache, HasRead, TypeInv, TypeOK, Threads, Busy, Resting, Steps
<1>2. UNCHANGED <<disk, flows, request, deploys, alone>>
  BY DEF SetCache
<1>3. CASE Loads(read[t])
  <2>1. cache' = Descriptors(read[t]) /\ cache' \subseteq Descriptor /\ flows' \subseteq Descriptor
    <3>1. cache' = Descriptors(read[t]) /\ flows' = flows
      BY <1>3 DEF SetCache
    <3>2. Descriptors(read[t]) \subseteq Descriptor
      BY <1>1, FilesTyped
    <3>3. flows \subseteq Descriptor
      BY <1>1
    <3> QED
      BY <3>1, <3>2, <3>3
  <2>2. PICK X \in SUBSET Folders, Y \in SUBSET File : X = folders /\ Y = {}
    BY <1>1
  <2>3. GoesOn(t, "reload", X, Y)
    BY <1>3, <2>2 DEF SetCache, StartLoad, Goto, GoesOn
  <2>4. TypeInv' /\ Acts(t) /\ pc'[t] = "reload" /\ toRead'[t] = X /\ read'[t] = Y
    BY <1>1, <1>2, <2>1, <2>3, ReadingTyped
  <2>5. ASSUME alone, Claims(t), request[t].kind # "none", pc[t] \notin Changing => Loads(files)
        PROVE  Claims(t)' /\ (pc'[t] \notin Changing => Loads(files'))
    <3>1. files' = files /\ folders' = folders
      BY <1>2 DEF disk
    <3>2. Y = {x \in files : x.folder \notin X} /\ read[t] = files
      BY <1>1, <2>2, <2>5 DEF Claims
    <3>3. Claims(t)'
      BY <1>2, <2>1, <2>2, <2>4, <2>5, <3>1, <3>2 DEF Claims
    <3> QED
      BY <1>1, <2>5, <3>1, <3>3 DEF Changing
  <2> QED
    BY <1>1, <2>4, <2>5, WorkStep
<1>4. CASE ~Loads(read[t])
  <2>1. UNCHANGED served /\ GoesOn(t, "failed", toRead[t], read[t])
        /\ cache' \subseteq Descriptor /\ flows' \subseteq Descriptor
    <3>1. Goto(t, "failed") /\ UNCHANGED <<cache, flows>> /\ UNCHANGED load
      BY <1>4 DEF SetCache
    <3>2. GoesOn(t, "failed", toRead[t], read[t])
      BY <1>1, <3>1, LoadKept
    <3> QED
      BY <1>1, <3>1, <3>2 DEF served
  <2>2. TypeInv' /\ Acts(t) /\ pc'[t] = "failed"
    BY <1>1, <1>2, <2>1, ReadingTyped
  <2>3. ASSUME alone, Claims(t), request[t].kind # "none", pc[t] \notin Changing => Loads(files)
        PROVE  Claims(t)' /\ (pc'[t] \notin Changing => Loads(files'))
    <3>1. Claims(t)'
      BY <1>2, <2>2, <2>3 DEF Claims
    <3> QED
      BY <1>1, <1>2, <2>3, <3>1 DEF Changing, disk
  <2> QED
    BY <1>1, <2>2, <2>3, WorkStep
<1> QED
  BY <1>3, <1>4

LEMMA BuildFlowsStep == ASSUME Inv, NEW t \in Deployers, BuildFlows(t), alone' = alone PROVE Inv'
<1>1. TypeInv /\ t \in Threads /\ pc[t] = "reload" /\ toRead[t] = {} /\ Busy(t)
      /\ toRead[t] \in SUBSET Folders /\ read[t] \in SUBSET File
      /\ cache \subseteq Descriptor /\ flows \subseteq Descriptor
      /\ files \subseteq File /\ \A x \in files : x.folder \in folders
  BY DEF Inv, BuildFlows, HasRead, TypeInv, TypeOK, Threads, Busy, Resting
<1>2. PICK w \in {"publish", "failed"} : Goto(t, w)
  BY DEF BuildFlows
<1>3. UNCHANGED <<disk, served, request, deploys, alone>> /\ UNCHANGED load
      /\ cache' \subseteq Descriptor /\ flows' \subseteq Descriptor
  BY <1>1 DEF BuildFlows, served
<1>4. GoesOn(t, w, toRead[t], read[t]) /\ w \in Steps
  BY <1>1, <1>2, <1>3, LoadKept DEF Steps, Resting
<1>5. TypeInv' /\ Acts(t) /\ pc'[t] = w
  BY <1>1, <1>3, <1>4, ReadingTyped
<1>6. ASSUME alone, Claims(t), request[t].kind # "none", pc[t] \notin Changing => Loads(files)
      PROVE  Claims(t)' /\ (pc'[t] \notin Changing => Loads(files'))
  <2>1. files' = files /\ cache' = cache /\ read'[t] = read[t] /\ read[t] = files
    BY <1>1, <1>3, <1>6 DEF disk, served, load, Claims
  <2>2. Claims(t)'
    BY <1>1, <1>3, <1>5, <1>6, <2>1 DEF Claims
  <2> QED
    BY <1>1, <1>6, <2>1, <2>2 DEF Changing
<1> QED
  BY <1>1, <1>5, <1>6, WorkStep

LEMMA PublishStep == ASSUME Inv, NEW t \in Deployers, Publish(t), alone' = alone PROVE Inv'
<1>1. TypeInv /\ t \in Threads /\ pc[t] = "publish" /\ Busy(t) /\ "succeeded" \in Steps
      /\ toRead[t] \in SUBSET Folders /\ read[t] \in SUBSET File
      /\ cache \subseteq Descriptor /\ flows \subseteq Descriptor
  BY DEF Inv, Publish, TypeInv, TypeOK, Threads, Busy, Resting, Steps
<1>2. /\ UNCHANGED <<disk, cache, request, deploys, alone>> /\ UNCHANGED load
      /\ Goto(t, "succeeded") /\ flows' = Built(Descriptors(read[t]))
  BY DEF Publish
<1>3. cache' \subseteq Descriptor /\ flows' \subseteq Descriptor
  <2>1. Descriptors(read[t]) \subseteq Descriptor
    BY <1>1, FilesTyped
  <2>2. Built(Descriptors(read[t])) \subseteq Descriptors(read[t])
    BY FilesTyped
  <2> QED
    BY <1>1, <1>2, <2>1, <2>2
<1>4. GoesOn(t, "succeeded", toRead[t], read[t])
  BY <1>1, <1>2, LoadKept
<1>5. TypeInv' /\ Acts(t) /\ pc'[t] = "succeeded"
  <2>1. PICK X \in SUBSET Folders, Y \in SUBSET File : X = toRead[t] /\ Y = read[t]
    BY <1>1
  <2>2. GoesOn(t, "succeeded", X, Y)
    BY <1>4, <2>1
  <2> QED
    BY <1>1, <1>2, <1>3, <2>2, ReadingTyped
<1>6. ASSUME alone, Claims(t), request[t].kind # "none", pc[t] \notin Changing => Loads(files)
      PROVE  Claims(t)' /\ (pc'[t] \notin Changing => Loads(files'))
  <2>1. files' = files /\ cache' = cache /\ read[t] = files /\ cache = Descriptors(files)
    BY <1>1, <1>2, <1>6 DEF disk, Claims
  <2>2. Claims(t)'
    BY <1>2, <1>5, <1>6, <2>1 DEF Claims
  <2> QED
    BY <1>1, <1>6, <2>1, <2>2 DEF Changing
<1> QED
  BY <1>1, <1>5, <1>6, WorkStep

(* Leaves only read.                                                        *)
LEMMA LookForStep == ASSUME Inv, NEW t \in Runners, LookFor(t), alone' = alone PROVE Inv'
<1>1. TypeInv /\ AloneInv /\ t \in Threads /\ t \notin Deployers /\ "look" \in Steps
      /\ folders \in SUBSET Folders /\ {} \in SUBSET File
      /\ cache \subseteq Descriptor /\ flows \subseteq Descriptor
  BY FolderConstants DEF Inv, LookFor, TypeInv, TypeOK, Threads, Steps
<1>2. UNCHANGED <<disk, served, request, deploys, alone>>
      /\ cache' \subseteq Descriptor /\ flows' \subseteq Descriptor
  BY <1>1 DEF LookFor, served
<1>3. PICK X \in SUBSET Folders, Y \in SUBSET File : X = folders /\ Y = {}
  BY <1>1
<1>4. GoesOn(t, "look", X, Y)
  BY <1>3 DEF LookFor, StartLoad, Goto, GoesOn
<1>5. TypeInv' /\ Acts(t)
  BY <1>1, <1>2, <1>4, ReadingTyped
<1>6. AloneInv'
  BY <1>1, <1>2, <1>5, AloneReader
<1> QED
  BY <1>5, <1>6 DEF Inv

LEMMA FindStep == ASSUME Inv, NEW t \in Runners, Find(t), alone' = alone PROVE Inv'
<1>1. TypeInv /\ AloneInv /\ t \in Threads /\ t \notin Deployers
      /\ toRead[t] \in SUBSET Folders /\ read[t] \in SUBSET File
      /\ cache \subseteq Descriptor /\ flows \subseteq Descriptor
  BY FolderConstants DEF Inv, Find, TypeInv, TypeOK, Threads, Steps
<1>2. UNCHANGED <<disk, served, request, deploys, alone>> /\ UNCHANGED load
      /\ cache' \subseteq Descriptor /\ flows' \subseteq Descriptor
  BY <1>1 DEF Find, served
<1>3. PICK w \in {"found", "missing"} : Goto(t, w)
  BY DEF Find
<1>4. GoesOn(t, w, toRead[t], read[t]) /\ w \in Steps
  BY <1>1, <1>2, <1>3, LoadKept DEF Steps, Resting
<1>5. TypeInv' /\ Acts(t)
  BY <1>1, <1>2, <1>4, ReadingTyped
<1>6. AloneInv'
  BY <1>1, <1>2, <1>5, AloneReader
<1> QED
  BY <1>5, <1>6 DEF Inv

-----------------------------------------------------------------------------
LEMMA InitInv == Init => Inv
<1> SUFFICES ASSUME Init
             PROVE  Inv
  OBVIOUS
<1>1. /\ files = InitFiles /\ folders = {x.folder : x \in InitFiles} /\ InitFiles \subseteq File
      /\ \A t \in Threads : pc[t] = "idle" /\ toRead[t] = {} /\ read[t] = {}
      /\ \A t \in Deployers : request[t] = NoRequest
      /\ Loads(InitFiles) /\ deploys \in Nat /\ alone \in BOOLEAN
  BY FolderConstants DEF Init, NoRequest
<1>2. folders \subseteq Folders /\ \A x \in files : x.folder \in folders
  BY <1>1 DEF File
<1>3. cache \subseteq Descriptor /\ flows \subseteq Descriptor
  <2>1. InitFiles \in SUBSET File
    BY <1>1
  <2>2. Descriptors(InitFiles) \subseteq Descriptor
    BY <2>1, FilesTyped
  <2>3. Built(Descriptors(InitFiles)) \subseteq Descriptors(InitFiles)
    BY FilesTyped
  <2> QED
    BY <2>2, <2>3 DEF Init
<1>4. /\ pc \in [Threads -> Steps] /\ toRead \in [Threads -> SUBSET Folders]
      /\ read \in [Threads -> SUBSET File]
      /\ request \in [Deployers -> Requests \cup {NoRequest}]
  BY DEF Init, Steps, Resting, NoRequest
<1>5. \A t \in Deployers : ~Busy(t) /\ pc[t] = "idle" /\ request[t].kind = "none"
  BY <1>1 DEF Busy, Resting, Threads, NoRequest
<1>6. TypeOK
  BY <1>1, <1>2, <1>3, <1>4, <1>5 DEF TypeOK
<1>7. FolderThere
  BY <1>5 DEF FolderThere
<1>8. AloneInv
  BY <1>1, <1>5 DEF AloneInv, OneDeploys, Claims
<1> QED
  BY <1>4, <1>6, <1>7, <1>8 DEF Inv, TypeInv

LEMMA StepInv == Inv /\ [Next]_vars => Inv'
<1> SUFFICES ASSUME Inv, [Next]_vars
             PROVE  Inv'
  OBVIOUS
<1>1. CASE UNCHANGED vars
  BY <1>1 DEF vars, disk, served, load, Inv, TypeInv, TypeOK, FolderThere, AloneInv, OneDeploys, Claims,
              Rest, Busy
<1>2. CASE Next
  <2> SUFFICES ASSUME ~UNCHANGED vars
               PROVE  Inv'
    BY <1>1
  <2>1. alone' = alone
    BY <1>2 DEF Next
  <2>2. ASSUME NEW t \in Threads, ReadFolder(t)
        PROVE  Inv'
    BY <2>1, <2>2, ReadFolderStep
  <2>3. ASSUME NEW t \in Deployers, Deploy(t)
        PROVE  Inv'
    BY <2>1, <2>3, DeployFolderStep, VerifyStep, UndeployStep, MakeFolderStep, MoveStep, DeployJobStep,
       EditStep, UpdateStep, SetCacheStep, BuildFlowsStep, PublishStep DEF Deploy
  <2>4. ASSUME NEW t \in Runners, LookFor(t) \/ Find(t)
        PROVE  Inv'
    BY <2>1, <2>4, LookForStep, FindStep
  <2> QED
    BY <1>2, <2>2, <2>3, <2>4 DEF Next
<1> QED
  BY <1>1, <1>2

-----------------------------------------------------------------------------
(* Every job has a flow where none depends on itself: of the jobs without   *)
(* one, some job that the fewest jobs depend on is a root after all.        *)
DepsOf(d, ds)  == {e \in ds : e.job \in d.deps}
UsersOf(d, ds) == {e.job : e \in {x \in ds : d \in From(DepsOf(x, ds), ds)}}

LEMMA AllBuilt ==
  ASSUME NEW ds \in SUBSET Descriptor, Sound(ds), \A d \in ds : ~OnCycle(d, ds)
  PROVE  Built(ds) = ds
<1> SUFFICES ASSUME Built(ds) # ds
             PROVE  FALSE
  OBVIOUS
<1> DEFINE L == ds \ Built(ds)
           N(d) == Cardinality(UsersOf(d, ds))
           Sizes == {N(d) : d \in L}
<1>1. L # {} /\ L \subseteq ds
  BY DEF Built, From
<1>2. ASSUME NEW d \in ds
      PROVE  IsFiniteSet(UsersOf(d, ds)) /\ N(d) \in Nat
  <2>1. UsersOf(d, ds) \in SUBSET Jobs
    BY DEF UsersOf, Descriptor
  <2>2. IsFiniteSet(UsersOf(d, ds))
    BY <2>1, JobsAreFinite, FS_Subset
  <2> QED
    BY <2>2, FS_CardinalityType
<1>3. PICK d \in L : \A e \in L : ~(N(e) < N(d))
  <2> DEFINE Less == {p \in Nat \X Nat : p[1] < p[2]}
  <2>1. IsWellFoundedOn(Less, Nat)
    BY NatLessThanWellFounded DEF OpToRel
  <2>2. Sizes \subseteq Nat /\ Sizes # {}
    BY <1>1, <1>2
  <2>3. PICK m \in Sizes : \A i \in Sizes : ~ (<<i, m>> \in Less)
    <3> HIDE DEF Less, Sizes
    <3> QED
      BY <2>1, <2>2, WFMin
  <2>4. PICK d \in L : m = N(d)
    OBVIOUS
  <2>5. ASSUME NEW e \in L, N(e) < N(d)
        PROVE  FALSE
    <3>1. N(e) \in Sizes /\ N(e) \in Nat /\ m \in Nat
      BY <2>2
    <3>2. <<N(e), m>> \in Less
      BY <2>4, <2>5, <3>1
    <3> HIDE DEF Less, Sizes, N
    <3> QED
      BY <2>3, <3>1, <3>2
  <2> QED
    BY <2>5
<1>4. PICK p \in ds : d.job \in p.deps
  <2>1. Roots(ds) \subseteq Built(ds)
    BY DEF Built, From, Roots
  <2> QED
    BY <1>1, <2>1 DEF Roots
<1>5. p \in L
  BY <1>1, <1>4, FromClosed DEF Built
<1>6. UsersOf(p, ds) \subseteq UsersOf(d, ds)
  <2>1. ASSUME NEW x \in ds, p \in From(DepsOf(x, ds), ds)
        PROVE  d \in From(DepsOf(x, ds), ds)
    BY <1>1, <1>4, <2>1, FromClosed
  <2> QED
    BY <2>1 DEF UsersOf
<1>7. p.job \in UsersOf(d, ds)
  <2>1. d \in DepsOf(p, ds)
    BY <1>1, <1>4 DEF DepsOf
  <2>2. d \in From(DepsOf(p, ds), ds)
    BY <1>1, <2>1 DEF From
  <2> QED
    BY <1>4, <2>2 DEF UsersOf
<1>8. p.job \notin UsersOf(p, ds)
  <2> SUFFICES ASSUME NEW x \in ds, p \in From(DepsOf(x, ds), ds), x.job = p.job
               PROVE  FALSE
    BY DEF UsersOf
  <2>1. x = p
    BY <1>4 DEF Sound
  <2>2. OnCycle(p, ds)
    BY <2>1 DEF OnCycle, DepsOf
  <2> QED
    BY <1>4, <2>2
<1>9. N(p) < N(d)
  <2>1. UsersOf(p, ds) \in SUBSET UsersOf(d, ds) /\ IsFiniteSet(UsersOf(d, ds))
    BY <1>1, <1>2, <1>6
  <2>2. N(p) <= N(d) /\ N(p) # N(d)
    BY <1>7, <1>8, <2>1, FS_Subset
  <2>3. N(p) \in Nat /\ N(d) \in Nat
    BY <1>1, <1>2, <1>4
  <2> HIDE DEF N
  <2> QED
    BY <2>2, <2>3
<1> QED
  BY <1>3, <1>5, <1>9

(* What is installed alone is served.                                       *)
LEMMA InvAlone == Inv => AloneIsServed
<1> SUFFICES ASSUME Inv, alone
             PROVE  FolderStaysSound /\ SucceededIsServed
  BY DEF Inv, TypeInv, AloneIsServed
<1>1. ASSUME Quiet
      PROVE  Loads(files)
  <2>1. \A t \in Deployers : pc[t] \notin Changing
    BY <1>1 DEF Quiet, Busy, Resting, Changing, Threads
  <2> QED
    BY <2>1 DEF Inv, AloneInv
<1>2. ASSUME Quiet, NEW t \in Deployers, pc[t] = "succeeded"
      PROVE  cache = Descriptors(files) /\ ((\A d \in cache : ~OnCycle(d, cache)) => flows = cache)
  <2>1. cache = Descriptors(files) /\ flows = Built(Descriptors(files))
    BY <1>2 DEF Inv, AloneInv, Claims
  <2>2. Sound(cache) /\ cache \in SUBSET Descriptor
    BY <1>1, <1>2, <2>1, LoadsSound DEF Inv, TypeInv, TypeOK
  <2>3. (\A d \in cache : ~OnCycle(d, cache)) => Built(cache) = cache
    BY <2>2, AllBuilt
  <2> QED
    BY <2>1, <2>3
<1> QED
  BY <1>1, <1>2 DEF FolderStaysSound, SucceededIsServed

(* One deployer alone, whatever the uploads and however often: while nobody *)
(* deploys, the directory can be loaded, and what "Installation Succeeded"  *)
(* was said of is served.                                                   *)
THEOREM AloneServed == Spec => []AloneIsServed
BY InitInv, StepInv, InvAlone, PTL DEF Spec

(* The variables keep their types, whoever deploys.                         *)
THEOREM TypeCorrect == Spec => []TypeOK
<1>1. Inv => TypeOK
  BY DEF Inv, TypeInv
<1> QED
  BY InitInv, StepInv, <1>1, PTL DEF Spec

-----------------------------------------------------------------------------
(* The page of a flow.                                                      *)

(* A click selects one node.                                                *)
OneSelected == selection = {} \/ \E j \in PageJobs : selection = {j}

(* setEnabledNode() changes flag and class together.                        *)
FadedIsOff == \A j \in PageJobs : node[j].faded = ~node[j].enabled

(* The execution's side: what has succeeded shows it, what was posted does  *)
(* not run, nothing runs when the execution is over.                        *)
Executed ==
  \A j \in PageJobs :
    /\ leaf[j] = "SUCCEEDED" => composed[j] = "SUCCEEDED"
    /\ leaf[j] = "RUNNING" => executing
    /\ j \in posted => leaf[j] \in {"IGNORED", "COMPLETED"}

(* What had succeeded before the page was loaded is off until it is edited. *)
FreshIsOff ==
  fresh => /\ ~executing
           /\ \A j \in PageJobs : leaf[j] = "SUCCEEDED" /\ j \notin touched => ~node[j].enabled

PageInv ==
  /\ PageTypeOK /\ OneSelected /\ FadedIsOff /\ Executed /\ FreshIsOff
  /\ recurseId \in 0 .. MaxRecursions

NodeType ==
  [shown : Statuses, enabled : BOOLEAN, faded : BOOLEAN, recurseID : -1 .. MaxRecursions]

-----------------------------------------------------------------------------
(* disableRecursively() reaches the job and all it depends on.              *)
With(j) == Edit!WithDependencies(j)

LEMMA WithUnfolds ==
  ASSUME NEW j \in PageJobs
  PROVE  With(j) = {j} \cup UNION {With(d) : d \in Dependees[j]}
<1> DEFINE KeepsBelow(S) == \A k \in S : Dependees[k] \subseteq S
           R == {j} \cup UNION {With(d) : d \in Dependees[j]}
<1>1. \A i, k : k \in With(i) <=>
        k \in PageJobs /\ \A S \in SUBSET PageJobs : i \in S /\ KeepsBelow(S) => k \in S
  BY DEF With, Edit!WithDependencies
<1>2. \A i \in PageJobs : Dependees[i] \subseteq PageJobs /\ i \in With(i)
  BY <1>1, PageConstants
<1> HIDE DEF KeepsBelow
<1>3. ASSUME NEW i, NEW k \in With(i), NEW e \in Dependees[k]
      PROVE  e \in With(i)
  <2>1. \A S \in SUBSET PageJobs : i \in S /\ KeepsBelow(S) => e \in S
    BY <1>1 DEF KeepsBelow
  <2> QED
    BY <1>1, <1>2, <2>1
<1>4. R \subseteq With(j)
  <2>1. ASSUME NEW d \in Dependees[j], NEW k \in With(d)
        PROVE  k \in With(j)
    <3>1. \A S \in SUBSET PageJobs : j \in S /\ KeepsBelow(S) => k \in S
      BY <1>1 DEF KeepsBelow
    <3> QED
      BY <1>1, <3>1
  <2> QED
    BY <1>2, <2>1
<1>5. R \in SUBSET PageJobs /\ j \in R /\ KeepsBelow(R)
  <2>1. R \in SUBSET PageJobs /\ j \in R
    BY <1>1
  <2>2. ASSUME NEW k \in R, NEW e \in Dependees[k]
        PROVE  e \in R
    BY <1>2, <1>3, <2>2
  <2> QED
    BY <2>1, <2>2 DEF KeepsBelow
<1>6. With(j) \subseteq R
  BY <1>1, <1>5
<1> QED
  BY <1>4, <1>6

LEMMA RecursivelyIsWith ==
  ASSUME PageInv, recurseId' = recurseId + 1, NEW j \in PageJobs
  PROVE  Recursively[j] = With(j)
<1> DEFINE Step(f) == [i \in PageJobs |-> IF node[i].recurseID = recurseId' THEN {}
                                          ELSE {i} \cup UNION {f[d] : d \in Dependees[i]}]
           W == [i \in PageJobs |-> With(i)]
<1>1. \A i \in PageJobs : node[i].recurseID # recurseId'
  <2> SUFFICES ASSUME NEW i \in PageJobs
               PROVE  node[i].recurseID # recurseId'
    OBVIOUS
  <2>1. node[i].recurseID \in -1 .. MaxRecursions /\ node[i].recurseID <= recurseId /\ recurseId \in Nat
    BY PageConstants DEF PageInv, PageTypeOK
  <2> QED
    BY <2>1, PageConstants
<1>2. \A f, i : i \in PageJobs => Step(f)[i] = {i} \cup UNION {f[d] : d \in Dependees[i]}
  BY <1>1
<1>3. W = Step(W)
  <2>1. \A i \in PageJobs : Step(W)[i] = With(i)
    <3> SUFFICES ASSUME NEW i \in PageJobs
                 PROVE  Step(W)[i] = With(i)
      OBVIOUS
    <3>1. {W[d] : d \in Dependees[i]} = {With(d) : d \in Dependees[i]}
      BY PageConstants
    <3> QED
      BY <1>2, <3>1, WithUnfolds
  <2> QED
    BY <2>1
<1>4. Recursively = CHOOSE f : f = Step(f)
  BY DEF Recursively
<1>5. Recursively = Step(Recursively)
  <2> HIDE DEF Step, W
  <2> QED
    BY <1>3, <1>4
<1>6. \A i \in PageJobs : Recursively[i] = W[i]
  <2> SUFFICES ASSUME NEW D, D = {i \in PageJobs : Recursively[i] # W[i]}, D # {}
               PROVE  FALSE
    OBVIOUS
  <2>1. PICK i \in D : Dependees[i] \cap D = {}
    BY DependenciesEnd
  <2>2. \A d \in Dependees[i] : Recursively[d] = W[d]
    BY <2>1, PageConstants
  <2>3. {Recursively[d] : d \in Dependees[i]} = {W[d] : d \in Dependees[i]}
    BY <2>2
  <2>4. Step(Recursively)[i] = Step(W)[i]
    <3> HIDE DEF W
    <3> QED
      BY <1>2, <2>3
  <2> QED
    <3> HIDE DEF Step, W
    <3> QED
      BY <1>3, <1>5, <2>4
<1> QED
  BY <1>6

-----------------------------------------------------------------------------
(* The invariant, and what each step is for FlowEdits.                      *)
PageEditStep == Edit!Next \/ UNCHANGED <<Off, edit>>

Kept == PageInv' /\ PageEditStep

LEMMA PageTypes ==
  ASSUME PageInv
  PROVE  /\ node \in [PageJobs -> NodeType]
         /\ leaf \in [PageJobs -> Statuses] /\ composed \in [PageJobs -> Statuses]
         /\ recurseId \in 0 .. MaxRecursions /\ posts \in 0 .. MaxPosts
         /\ \A j \in PageJobs : node[j].recurseID <= recurseId
BY DEF PageInv, PageTypeOK, NodeType

LEMMA NodeMade ==
  ASSUME NEW s \in Statuses
  PROVE  /\ Node(s) \in NodeType /\ Node(s).recurseID = -1
         /\ Node(s).faded = ~Node(s).enabled /\ (s = "SUCCEEDED" => ~Node(s).enabled)
<1>1. -1 \in -1 .. MaxRecursions
  BY PageConstants
<1>2. PICK off \in BOOLEAN, on \in BOOLEAN :
        off = StartsDisabled(s) /\ on = ~StartsDisabled(s) /\ off = ~on /\ (s = "SUCCEEDED" => on = FALSE)
  <2>1. StartsDisabled(s) \in BOOLEAN /\ (s = "SUCCEEDED" => StartsDisabled(s))
    BY DEF StartsDisabled
  <2> QED
    BY <2>1
<1>3. Node(s) = [shown |-> s, enabled |-> on, faded |-> off, recurseID |-> -1]
  BY <1>2 DEF Node
<1>4. Node(s) \in NodeType /\ Node(s).recurseID = -1 /\ Node(s).faded = off /\ Node(s).enabled = on
  BY <1>1, <1>3 DEF NodeType
<1> QED
  BY <1>2, <1>4

LEMMA PageInitInv == PageInit => PageInv /\ Edit!Init
<1> SUFFICES ASSUME PageInit
             PROVE  PageInv /\ Edit!Init
  OBVIOUS
<1>1. Node("READY") \in NodeType /\ Node("READY").recurseID = -1
      /\ Node("READY").faded = ~Node("READY").enabled
  <2>1. PICK s \in Statuses : s = "READY"
    BY DEF Statuses
  <2> QED
    BY <2>1, NodeMade
<1>2. node \in [PageJobs -> NodeType] /\ \A j \in PageJobs : node[j] = Node("READY")
  BY <1>1 DEF PageInit
<1>3. Cardinality(selection) <= 1
  BY FS_EmptySet DEF PageInit
<1>4. PageTypeOK
  <2>1. recurseId = 0 /\ \A j \in PageJobs : node[j].recurseID <= recurseId
    BY <1>1, <1>2 DEF PageInit
  <2>2. posts \in 0 .. MaxPosts
    BY PageConstants DEF PageInit
  <2>3. leaf \in [PageJobs -> Statuses] /\ composed \in [PageJobs -> Statuses]
    BY DEF PageInit, Statuses
  <2>4. executing \in BOOLEAN /\ dialog \in BOOLEAN /\ fresh \in BOOLEAN
        /\ ran \subseteq PageJobs \ posted
    BY DEF PageInit
  <2> QED
    BY <1>2, <1>3, <2>1, <2>2, <2>3, <2>4 DEF PageTypeOK, NodeType
<1>5. OneSelected /\ FadedIsOff /\ Executed /\ FreshIsOff /\ recurseId \in 0 .. MaxRecursions
  BY <1>1, <1>2, PageConstants DEF PageInit, OneSelected, FadedIsOff, Executed, FreshIsOff
<1>6. Edit!Init
  BY DEF PageInit, Edit!Init, Off
<1> QED
  BY <1>4, <1>5, <1>6 DEF PageInv

(* A selection has at most one node.                                        *)
LEMMA SelectedFew ==
  ASSUME OneSelected'
  PROVE  Cardinality(selection') <= 1
<1>1. CASE selection' = {}
  BY <1>1, FS_EmptySet
<1>2. CASE \E j \in PageJobs : selection' = {j}
  BY <1>2, FS_Singleton
<1> QED
  BY <1>1, <1>2 DEF OneSelected

LEMMA LoadStep == ASSUME PageInv, Load PROVE Kept
<1>1. ASSUME NEW s \in Statuses
      PROVE  /\ Node(s) \in NodeType /\ Node(s).recurseID = -1
             /\ Node(s).faded = ~Node(s).enabled /\ (s = "SUCCEEDED" => ~Node(s).enabled)
  BY NodeMade
<1>2. \A j \in PageJobs : FlowStatus(j) \in Statuses /\ node'[j] = Node(FlowStatus(j))
  BY PageTypes DEF FlowStatus, Load
<1>3. node' \in [PageJobs -> NodeType]
  BY <1>1, <1>2 DEF Load
<1>4. UNCHANGED server /\ posts' = posts /\ posted' = posted /\ recurseId' = 0 /\ selection' = {}
      /\ fresh' = ~executing /\ dialog' = FALSE
  BY DEF Load
<1>5. OneSelected' /\ Cardinality(selection') <= 1
  BY <1>4, SelectedFew DEF OneSelected
<1>6. \A j \in PageJobs : node'[j].recurseID <= recurseId'
  BY <1>1, <1>2, <1>4
<1>7. PageTypeOK'
  BY <1>3, <1>4, <1>5, <1>6 DEF PageInv, PageTypeOK, server, NodeType
<1>8. FadedIsOff'
  BY <1>1, <1>2 DEF FadedIsOff
<1>9. Executed'
  BY <1>4 DEF PageInv, Executed, server
<1>10. FreshIsOff'
  <2>1. \A j \in PageJobs : leaf'[j] = "SUCCEEDED" => FlowStatus(j) = "SUCCEEDED"
    BY <1>4 DEF PageInv, Executed, FlowStatus, server
  <2> QED
    BY <1>1, <1>2, <1>4, <2>1 DEF FreshIsOff, server
<1>11. PageInv'
  BY <1>4, <1>5, <1>7, <1>8, <1>9, <1>10, PageConstants DEF PageInv
<1>12. Off' \in SUBSET PageJobs /\ edit' = <<"load", PageJobs>>
  BY DEF Load, Off
<1> QED
  BY <1>11, <1>12 DEF Kept, PageEditStep, Edit!Next, Edit!Load

LEMMA NodeClickedStep == ASSUME PageInv, NEW j \in PageJobs, NodeClicked(j) PROVE Kept
<1>1. selection' = {j} /\ UNCHANGED <<server, node, recurseId, sent, user>>
  BY DEF NodeClicked
<1>2. OneSelected' /\ Cardinality(selection') <= 1
  BY <1>1, SelectedFew DEF OneSelected
<1>3. PageInv'
  BY <1>1, <1>2 DEF PageInv, PageTypeOK, FadedIsOff, Executed, FreshIsOff, server, sent, user
<1>4. Off' = Off /\ edit' = edit
  BY <1>1 DEF Off, user
<1> QED
  BY <1>3, <1>4 DEF Kept, PageEditStep

(* An edit of the jobs js: all of them get the flag e, and at most the mark *)
(* of this edit.                                                            *)
LEMMA EditedStep ==
  ASSUME PageInv, NEW js \in SUBSET PageJobs, NEW e \in BOOLEAN,
         node' \in [PageJobs -> NodeType],
         \A j \in PageJobs \ js : node'[j] = node[j],
         \A j \in js : node'[j].enabled = e /\ node'[j].faded = ~e,
         recurseId' \in 0 .. MaxRecursions,
         \A j \in PageJobs : node'[j].recurseID <= recurseId',
         touched' = touched \cup js,
         UNCHANGED <<server, selection, sent, fresh>>
  PROVE  PageInv' /\ Off' = IF e THEN Off \ js ELSE Off \cup js
<1>1. PageTypeOK'
  BY DEF PageInv, PageTypeOK, NodeType, server, sent
<1>2. OneSelected' /\ Executed'
  BY DEF PageInv, OneSelected, Executed, server, sent
<1>3. FadedIsOff'
  BY DEF PageInv, FadedIsOff
<1>4. FreshIsOff'
  BY DEF PageInv, FreshIsOff, server
<1>5. Off' = IF e THEN Off \ js ELSE Off \cup js
  BY DEF Off
<1> QED
  BY <1>1, <1>2, <1>3, <1>4, <1>5 DEF PageInv

(* WithEnabled() does that.                                                 *)
LEMMA WithEnabledFacts ==
  ASSUME PageInv, NEW js \in SUBSET PageJobs, NEW e \in BOOLEAN, node' = WithEnabled(js, e)
  PROVE  /\ node' \in [PageJobs -> NodeType]
         /\ \A j \in PageJobs \ js : node'[j] = node[j]
         /\ \A j \in js : node'[j].enabled = e /\ node'[j].faded = ~e
         /\ \A j \in PageJobs : node'[j].recurseID = node[j].recurseID
<1>1. \A j \in PageJobs : node[j] \in NodeType
  BY PageTypes
<1>2. \A j \in js : node'[j] = [node[j] EXCEPT !.enabled = e, !.faded = ~e]
  BY DEF WithEnabled
<1>3. \A j \in PageJobs \ js : node'[j] = node[j]
  BY DEF WithEnabled
<1>4. ASSUME NEW j \in js
      PROVE  /\ node'[j] \in NodeType /\ node'[j].enabled = e /\ node'[j].faded = ~e
             /\ node'[j].recurseID = node[j].recurseID
  BY <1>1, <1>2 DEF NodeType
<1>5. node' \in [PageJobs -> NodeType]
  BY <1>1, <1>3, <1>4 DEF WithEnabled
<1> QED
  BY <1>3, <1>4, <1>5

LEMMA WithEnabledStep ==
  ASSUME PageInv, NEW js \in SUBSET PageJobs, NEW e \in BOOLEAN, node' = WithEnabled(js, e),
         recurseId' = recurseId, touched' = touched \cup js,
         UNCHANGED <<server, selection, sent, fresh>>
  PROVE  PageInv' /\ Off' = IF e THEN Off \ js ELSE Off \cup js
<1>1. /\ node' \in [PageJobs -> NodeType]
      /\ \A j \in PageJobs \ js : node'[j] = node[j]
      /\ \A j \in js : node'[j].enabled = e /\ node'[j].faded = ~e
      /\ \A j \in PageJobs : node'[j].recurseID = node[j].recurseID
  BY WithEnabledFacts
<1>2. recurseId' \in 0 .. MaxRecursions /\ \A j \in PageJobs : node[j].recurseID <= recurseId
  BY PageTypes
<1>3. \A j \in PageJobs : node'[j].recurseID <= recurseId'
  BY <1>1, <1>2
<1> QED
  BY <1>1, <1>2, <1>3, EditedStep

LEMMA DisableStep == ASSUME PageInv, Disable PROVE Kept
<1>1. PICK j \in PageJobs : selection = {j}
  BY DEF PageInv, OneSelected, Disable
<1>2. PICK js \in SUBSET PageJobs, e \in BOOLEAN : js = {j} /\ e = FALSE
  OBVIOUS
<1>3. node' = WithEnabled(js, e) /\ recurseId' = recurseId /\ touched' = touched \cup js
      /\ UNCHANGED <<server, selection, sent, fresh>> /\ edit' = <<"disable", {j}>>
  BY <1>1, <1>2 DEF Disable, Edited
<1>4. PageInv' /\ Off' = IF e THEN Off \ js ELSE Off \cup js
  BY <1>3, WithEnabledStep
<1>5. Edit!Disable(j)
  BY <1>2, <1>3, <1>4 DEF Edit!Disable
<1> QED
  BY <1>4, <1>5 DEF Kept, PageEditStep, Edit!Next

LEMMA EnableStep == ASSUME PageInv, Enable PROVE Kept
<1>1. PICK j \in PageJobs : selection = {j}
  BY DEF PageInv, OneSelected, Enable
<1>2. PICK js \in SUBSET PageJobs, e \in BOOLEAN : js = {j} /\ e = TRUE
  OBVIOUS
<1>3. node' = WithEnabled(js, e) /\ recurseId' = recurseId /\ touched' = touched \cup js
      /\ UNCHANGED <<server, selection, sent, fresh>> /\ edit' = <<"enable", {j}>>
  BY <1>1, <1>2 DEF Enable, Edited
<1>4. PageInv' /\ Off' = IF e THEN Off \ js ELSE Off \cup js
  BY <1>3, WithEnabledStep
<1>5. Edit!Enable(j)
  BY <1>2, <1>3, <1>4 DEF Edit!Enable
<1> QED
  BY <1>4, <1>5 DEF Kept, PageEditStep, Edit!Next

LEMMA EnableAllStep == ASSUME PageInv, EnableAll PROVE Kept
<1>1. PICK js \in SUBSET PageJobs, e \in BOOLEAN : js = PageJobs /\ e = TRUE
  OBVIOUS
<1>2. node' = WithEnabled(js, e) /\ recurseId' = recurseId /\ touched' = touched \cup js
      /\ UNCHANGED <<server, selection, sent, fresh>> /\ edit' = <<"enableAll", PageJobs>>
  BY <1>1 DEF EnableAll, Edited
<1>3. PageInv' /\ Off' = IF e THEN Off \ js ELSE Off \cup js
  BY <1>2, WithEnabledStep
<1>4. Edit!EnableAll
  BY <1>1, <1>2, <1>3 DEF Edit!EnableAll, Off
<1> QED
  BY <1>3, <1>4 DEF Kept, PageEditStep, Edit!Next

(* The mark of this call is new, so no node keeps the recursion out.        *)
LEMMA DisableAllAncestorsStep == ASSUME PageInv, DisableAllAncestors PROVE Kept
<1>1. PICK j \in PageJobs : selection = {j}
  BY DEF PageInv, OneSelected, DisableAllAncestors
<1>2. recurseId' = recurseId + 1 /\ recurseId < MaxRecursions
  BY DEF DisableAllAncestors
<1>3. PICK js \in SUBSET PageJobs, e \in BOOLEAN : js = With(j) /\ e = FALSE
  <2>1. With(j) \subseteq PageJobs
    BY DEF With, Edit!WithDependencies
  <2> QED
    BY <2>1
<1>4. UNION {Recursively[i] : i \in selection} = js
  BY <1>1, <1>2, <1>3, RecursivelyIsWith
<1>5. /\ node' = [i \in PageJobs |-> IF i \in js
            THEN [node[i] EXCEPT !.enabled = FALSE, !.faded = TRUE, !.recurseID = recurseId'] ELSE node[i]]
      /\ touched' = touched \cup js /\ UNCHANGED <<server, selection, sent, fresh>>
      /\ edit' = <<"disableAncestor", {j}>>
  BY <1>1, <1>4 DEF DisableAllAncestors, Edited
<1>6. recurseId' \in 0 .. MaxRecursions /\ recurseId' \in -1 .. MaxRecursions /\ recurseId <= recurseId'
  BY <1>2, PageTypes, PageConstants
<1>7. ASSUME NEW i \in PageJobs
      PROVE  /\ node'[i] \in NodeType /\ node'[i].recurseID <= recurseId'
             /\ i \notin js => node'[i] = node[i]
             /\ i \in js => node'[i].enabled = e /\ node'[i].faded = ~e
  <2>1. node[i] \in NodeType /\ node[i].recurseID <= recurseId /\ recurseId \in Nat
    BY PageTypes, PageConstants
  <2>2. CASE i \in js
    <3>1. node'[i] = [node[i] EXCEPT !.enabled = FALSE, !.faded = TRUE, !.recurseID = recurseId']
      BY <1>5, <2>2
    <3>2. node'[i].enabled = FALSE /\ node'[i].faded = TRUE /\ node'[i].recurseID = recurseId'
          /\ node'[i] \in NodeType
      BY <1>6, <2>1, <3>1 DEF NodeType
    <3>3. node'[i].enabled = e /\ node'[i].faded = ~e
      BY <1>3, <3>2
    <3>4. node'[i].recurseID <= recurseId'
      BY <1>6, <3>2, PageConstants
    <3> QED
      BY <2>2, <3>2, <3>3, <3>4
  <2>3. CASE i \notin js
    <3>1. node'[i] = node[i]
      BY <1>5, <2>3
    <3>2. node[i].recurseID \in Int
      BY <2>1 DEF NodeType
    <3> QED
      BY <1>6, <2>1, <2>3, <3>1, <3>2
  <2> QED
    BY <2>2, <2>3
<1>8. node' \in [PageJobs -> NodeType]
  BY <1>5, <1>7
<1>9. PageInv' /\ Off' = IF e THEN Off \ js ELSE Off \cup js
  BY <1>5, <1>6, <1>7, <1>8, EditedStep
<1>10. Edit!DisableDependencies(j)
  BY <1>3, <1>5, <1>9 DEF Edit!DisableDependencies, With
<1> QED
  BY <1>9, <1>10 DEF Kept, PageEditStep, Edit!Next

(* Execute sends what is drawn faded, and what had succeeded is among it.   *)
LEMMA ExecuteFlowStep ==
  ASSUME PageInv, ExecuteFlow
  PROVE  /\ Kept
         /\ {j \in PageJobs : leaf'[j] = "IGNORED"} = {j \in PageJobs : node[j].faded}
         /\ fresh => {j \in PageJobs : leaf[j] = "SUCCEEDED"} \ touched \subseteq posted'
<1>1. /\ leaf' = [j \in PageJobs |-> IF j \in Off THEN "IGNORED" ELSE "READY"]
      /\ composed' = [j \in PageJobs |-> "RUNNING"]
      /\ executing' = TRUE /\ ran' = {} /\ posts' = posts + 1 /\ posts < MaxPosts
      /\ posted' = Off /\ dialog' = TRUE /\ fresh' = FALSE
      /\ UNCHANGED <<node, selection, recurseId, edit, touched, wanted>>
  BY DEF ExecuteFlow
<1>2. leaf' \in [PageJobs -> Statuses] /\ composed' \in [PageJobs -> Statuses]
  BY <1>1 DEF Statuses
<1>3. posts' \in 0 .. MaxPosts
  BY <1>1, PageTypes, PageConstants
<1>4. PageTypeOK'
  BY <1>1, <1>2, <1>3 DEF PageInv, PageTypeOK
<1>5. Executed'
  BY <1>1 DEF Executed
<1>6. PageInv'
  BY <1>1, <1>4, <1>5 DEF PageInv, OneSelected, FadedIsOff, FreshIsOff
<1>7. Off' = Off
  BY <1>1 DEF Off
<1>8. {j \in PageJobs : leaf'[j] = "IGNORED"} = {j \in PageJobs : node[j].faded}
  BY <1>1 DEF PageInv, FadedIsOff, Off
<1>9. fresh => {j \in PageJobs : leaf[j] = "SUCCEEDED"} \ touched \subseteq posted'
  BY <1>1 DEF PageInv, FreshIsOff, Off
<1> QED
  BY <1>1, <1>6, <1>7, <1>8, <1>9 DEF Kept, PageEditStep

(* A step of the execution, which runs what was not posted.                 *)
LEMMA ExecutionStep == ASSUME PageInv, Execution PROVE Kept
<1> DEFINE Runs == /\ leaf' \in [PageJobs -> Statuses] /\ composed' \in [PageJobs -> Statuses]
                   /\ executing' \in BOOLEAN /\ ran' \subseteq PageJobs \ posted /\ Executed'
<1>1. UNCHANGED <<node, selection, recurseId, sent, user>>
  BY DEF Execution, FlowCompleted, RunJob, IgnoreJob, EndJob, DependeeFailed, Executes
<1>2. executing
  BY DEF PageInv, Executed, Execution, FlowCompleted, RunJob, IgnoreJob, EndJob, DependeeFailed, Reached
<1>3. Runs
  <2>0. leaf \in [PageJobs -> Statuses] /\ composed \in [PageJobs -> Statuses]
        /\ ran \subseteq PageJobs \ posted /\ Executed
    BY DEF PageInv, PageTypeOK
  <2>1. CASE FlowCompleted
    BY <1>1, <2>0, <2>1 DEF FlowCompleted, Executed, sent
  <2>2. ASSUME NEW j \in PageJobs, RunJob(j)
        PROVE  Runs
    BY <1>1, <1>2, <2>0, <2>2 DEF RunJob, Executes, Executed, Statuses, sent
  <2>3. ASSUME NEW j \in PageJobs, IgnoreJob(j)
        PROVE  Runs
    BY <1>1, <1>2, <2>0, <2>3 DEF IgnoreJob, Executes, Executed, Statuses, sent
  <2>4. ASSUME NEW j \in PageJobs, EndJob(j)
        PROVE  Runs
    BY <1>1, <1>2, <2>0, <2>4 DEF EndJob, Executes, Executed, Statuses, sent
  <2>5. ASSUME NEW j \in PageJobs, DependeeFailed(j)
        PROVE  Runs
    BY <1>1, <1>2, <2>0, <2>5 DEF DependeeFailed, Executes, Executed, Statuses, sent
  <2> QED
    BY <2>1, <2>2, <2>3, <2>4, <2>5 DEF Execution
<1>4. PageTypeOK'
  BY <1>1, <1>3 DEF PageInv, PageTypeOK, sent, user
<1>5. PageInv'
  BY <1>1, <1>2, <1>3, <1>4 DEF PageInv, OneSelected, FadedIsOff, FreshIsOff, sent, user
<1>6. Off' = Off /\ edit' = edit
  BY <1>1 DEF Off, user
<1> QED
  BY <1>5, <1>6 DEF Kept, PageEditStep

LEMMA PageStep == PageInv /\ [PageNext]_pageVars => Kept
<1> SUFFICES ASSUME PageInv, [PageNext]_pageVars
             PROVE  Kept
  OBVIOUS
<1>1. CASE UNCHANGED pageVars
  <2>1. PageInv'
    BY <1>1 DEF pageVars, server, sent, user, PageInv, PageTypeOK, OneSelected, FadedIsOff, Executed,
                FreshIsOff
  <2>2. Off' = Off /\ edit' = edit
    BY <1>1 DEF pageVars, user, Off
  <2> QED
    BY <2>1, <2>2 DEF Kept, PageEditStep
<1>2. CASE PageNext
  BY <1>2, LoadStep, NodeClickedStep, DisableStep, EnableStep, EnableAllStep, DisableAllAncestorsStep,
     ExecuteFlowStep, ExecutionStep DEF PageNext, Edits
<1> QED
  BY <1>1, <1>2

(* Types, and what the proofs rest on.                                      *)
THEOREM PageInvAlways == PageSpec => []PageInv
<1>1. PageInv /\ [PageNext]_pageVars => PageInv'
  BY PageStep DEF Kept
<1> QED
  BY PageInitInv, <1>1, PTL DEF PageSpec

(* The flags, classes and marks on the page's nodes implement a set of      *)
(* disabled jobs, edited as the menu's entries say.                         *)
THEOREM EditsAreOfTheSet == PageSpec => EditsTheSet
<1>1. PageInv /\ [PageNext]_pageVars => [Edit!Next]_(Edit!vars)
  BY PageStep DEF Kept, PageEditStep, Edit!vars
<1> QED
  BY PageInitInv, PageInvAlways, <1>1, PTL DEF PageSpec, EditsTheSet, Edit!Spec

(* The execution leaves out what the user saw faded, and of a page loaded   *)
(* after the end nothing runs again that had succeeded, unless it was       *)
(* enabled.                                                                 *)
THEOREM WhatIsSeenIsSent == PageSpec => SeenIsSent
<1> DEFINE Sent == ExecuteFlow =>
             /\ {j \in PageJobs : leaf'[j] = "IGNORED"} = {j \in PageJobs : node[j].faded}
             /\ fresh => {j \in PageJobs : leaf[j] = "SUCCEEDED"} \ touched \subseteq posted'
<1>1. PageInv => PageTypeOK
  BY DEF PageInv
<1>2. PageInv => Sent
  BY ExecuteFlowStep
<1> QED
  BY PageInvAlways, <1>1, <1>2, PTL DEF PageSpec, SeenIsSent
=============================================================================
