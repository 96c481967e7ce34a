------------------------------ MODULE FlowFile ------------------------------
(***************************************************************************)
(* What an execution's file says of it: FlowExecution with the saves its   *)
(* threads make on the way, and the flow that is built from the file once  *)
(* the server has been started again.                                      *)
(*                                                                         *)
(* The executor's FlowCallback saves the flow on progressMade() and on     *)
(* completed(), and its pool thread once more when execute() has returned. *)
(* A save writes the descriptors of the jobs, one leaf after the other, as *)
(* the serializers walk down the flow; no monitor is held.  Only leaves    *)
(* are written: the states of groups and composed flows are made up again  *)
(* by their constructors.                                                  *)
(*                                                                         *)
(* Abstracted: times, ids, override properties; in which order a save      *)
(* comes by the dependees of a job; that the file is truncated and written *)
(* by several threads (FlowCache).                                         *)
(***************************************************************************)
EXTENDS FlowExecution

CONSTANTS
  Whole,   \* may saves take the states of all leaves at once: subset of BOOLEAN
  MaySkip  \* may the flow have been asked to ignore the dependencies?

ASSUME FileConstants == Whole \subseteq BOOLEAN /\ MaySkip \in BOOLEAN

VARIABLES
  file,      \* the descriptors in the file; a function on the jobs it has
  saver,     \* what the save of every thread has read so far, or NotSaving
  poolSaved, \* has the pool thread made its save after execute()?
  whole      \* do this behaviour's saves take all leaves at once?

fileVars == <<file, saver, poolSaved, whole>>
savedVars  == <<vars, fileVars>>

Descriptor(j) == [state |-> status[Leaf(j)], props |-> props[Leaf(j)]]

(* What has been read once the descriptor of j has been written, too.       *)
With(read, j) == [i \in {j} \cup DOMAIN read |-> IF i = j THEN Descriptor(j) ELSE read[i]]

NotSaving == [busy |-> FALSE, read |-> <<>>]
Saving    == [busy |-> TRUE, read |-> <<>>]

(* The leaves a save may come by next: the dependees' before the depender.  *)
(* The descriptor of a leaf that several flows share is the one that is     *)
(* read first.                                                              *)
NextLeaves(read) == {j \in Jobs \ DOMAIN read : RangeOf(Dependees[j]) \subseteq DOMAIN read}

FileInit ==
  /\ Init
  /\ MaySkip \/ \A o \in Objects : status[o] # "COMPLETED"
  /\ file = <<>>
  /\ saver = [t \in Threads |-> NotSaving]
  /\ poolSaved = FALSE
  /\ whole \in Whole

-----------------------------------------------------------------------------
SavesNextOnVerdict(t) ==                  \* mutant: only what tells a verdict saves
  \/ Doing(t, "completed") /\ On(t)[1] = "dependeeCallback" /\ Arg(t) = "SUCCEEDED"
  \/ Doing(t, "completed") /\ On(t) = RootCallback

(* A callback saves: of a group, when it tells nobody a verdict; of a       *)
(* composed flow's dependee, before the depender is executed; of the        *)
(* executor, when the flow has completed.                                   *)
SavesNext(t) ==
  \/ /\ Doing(t, "verdict")
     /\ LET j == On(t)[2]
        IN  status[Group(j)] \notin {"SUCCEEDED", "FAILED"} \/ notified[j][On(t)[3]]
  \/ Doing(t, "completed") /\ On(t)[1] = "dependeeCallback" /\ Arg(t) = "SUCCEEDED"
  \/ Doing(t, "completed") /\ On(t) = RootCallback

Begin(t) == saver' = [saver EXCEPT ![t] = Saving]

FlowStep(t) ==
  /\ ~saver[t].busy
  /\ Step(t)
  /\ IF SavesNext(t) THEN Begin(t) ELSE UNCHANGED saver
  /\ UNCHANGED <<file, poolSaved, whole>>

(* saveExecutableFlow() after execute() has returned.                       *)
PoolSave ==
  /\ stack[Main] = <<>>
  /\ ~poolSaved /\ ~saver[Main].busy
  /\ poolSaved' = TRUE
  /\ Begin(Main)
  /\ UNCHANGED <<vars, file, whole>>

ReadLeaf(t) ==
  /\ saver[t].busy /\ ~whole
  /\ \E j \in NextLeaves(saver[t].read) :
       saver' = [saver EXCEPT ![t].read = With(@, j)]
  /\ UNCHANGED <<vars, file, poolSaved, whole>>

WriteFile(t) ==
  /\ saver[t].busy
  /\ \/ whole /\ file' = [j \in Jobs |-> Descriptor(j)]
     \/ ~whole /\ DOMAIN saver[t].read = Jobs /\ file' = saver[t].read
  /\ saver' = [saver EXCEPT ![t] = NotSaving]
  /\ UNCHANGED <<vars, poolSaved, whole>>

AllSaved == poolSaved /\ \A t \in Threads : ~saver[t].busy

FileNext ==
  \/ \E t \in Threads : FlowStep(t) \/ ReadLeaf(t) \/ WriteFile(t)
  \/ PoolSave
  \/ CancelRoot /\ UNCHANGED fileVars
  \/ Idle /\ AllSaved /\ UNCHANGED savedVars

FileSpec == FileInit /\ [][FileNext]_savedVars

-----------------------------------------------------------------------------
(* The flow that is built from the file.                                    *)

LoadedLeafLegacy(j) ==                    \* mutant: a COMPLETED job is taken for a READY one
  IF file[j].state \in {"RUNNING", "COMPLETED"} THEN "READY" ELSE file[j].state

(* JobManagerFlowDeserializer: what was running is READY.                   *)
LoadedLeaf(j) == IF file[j].state = "RUNNING" THEN "READY" ELSE file[j].state

(* updateState() in the constructor of GroupedExecutableFlow.               *)
GroupState(states) ==
  IF "FAILED" \in states THEN "FAILED"
  ELSE IF states \subseteq Good THEN "SUCCEEDED" ELSE "READY"

(* The constructor of ComposedExecutableFlow; no part of a loaded flow is   *)
(* RUNNING.                                                                 *)
ComposedState(depender, dependee) ==
  IF depender \in Finished THEN depender
  ELSE IF dependee = "FAILED" THEN "FAILED" ELSE "READY"

(* buildFlow(): a job with one dependee is a composed flow of its leaf and  *)
(* the dependee's flow, one with several of its leaf and a group.           *)
LoadedFlow[j \in Jobs] ==
  LET ds == RangeOf(Dependees[j]) IN
  CASE Dependees[j] = <<>>     -> LoadedLeaf(j)
    [] Len(Dependees[j]) = 1 -> ComposedState(LoadedLeaf(j), LoadedFlow[Dependees[j][1]])
    [] OTHER                 -> ComposedState(LoadedLeaf(j), GroupState({LoadedFlow[d] : d \in ds}))

InFile == file # <<>>

-----------------------------------------------------------------------------
FileTypeOK ==
  /\ file = <<>> \/ file \in [Jobs -> [state : Status, props : SUBSET Jobs]]
  /\ InFile => \A j \in Jobs : LoadedFlow[j] \in Status \ {"RUNNING"}
  /\ \A t \in Threads : saver[t].busy => DOMAIN saver[t].read \subseteq Jobs

(* Every end of a job reaches the file: when all threads are through, it    *)
(* has the state of every leaf, whatever ended after the flow's verdict was *)
(* told.  (Not after a cancel(): what it ends that nobody waits for, and a  *)
(* job that returns although it was cancelled, are not saved.  Not leaf by  *)
(* leaf: the last save to write need not be the last that began.)           *)
SavedInTheEnd ==
  whole /\ Idle /\ AllSaved /\ ~cancelling => \A j \in Jobs : file[j].state = status[Leaf(j)]

(* The file never promises too much: what the loaded flow counts as done,   *)
(* and a restart after a crash would leave out, was done.                   *)
NothingInvented ==
  InFile => \A j \in Jobs :
    LoadedFlow[j] \in Good => status[FlowOf(j)] \in Good \/ status[Leaf(j)] \in Good

(* The file never promises too much, however the leaves are read, and is a  *)
(* state the execution was in, if a save takes the leaves at once: a job    *)
(* that has run has run after its dependees.                                *)
FileIsAState ==
  /\ FileTypeOK /\ NothingInvented
  /\ whole /\ InFile => \A j \in Jobs : file[j].state = "SUCCEEDED" =>
       \A d \in RangeOf(Dependees[j]) : LoadedFlow[d] \in Good

(* What the flow of j ended as, or, if nobody waits for it any more because *)
(* the group above it had failed before its turn came, what it would have:  *)
(* a flow that is built anew is FAILED as soon as a dependee is.            *)
EndedAs(j) ==
  IF status[FlowOf(j)] = "READY" /\ \E d \in RangeOf(Dependees[j]) : LoadedFlow[d] = "FAILED"
    THEN "failed" ELSE PhaseOf(status[FlowOf(j)])

(* FlowManager.loadExecutableFlow(): "will load up that previous flow with  *)
(* all of its state": what is over, and was not cancelled, was saved and is *)
(* loaded as it ended.                                                      *)
LoadedAsSaved ==
  /\ SavedInTheEnd
  /\ whole /\ Idle /\ AllSaved /\ ~cancelling =>
       \A j \in Jobs : PhaseOf(LoadedFlow[j]) = EndedAs(j)

=============================================================================
