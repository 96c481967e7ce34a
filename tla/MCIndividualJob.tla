--------------------------- MODULE MCIndividualJob ---------------------------
(* A job: its leaf in the flow and, beside it, the process it runs and the  *)
(* lines kept of what that writes.  The three share no state: a behaviour   *)
(* is one of the leaf, of the process or of the lines, and leaves the       *)
(* others alone.                                                            *)
EXTENDS IndividualJob, JobProcess, LogBuffer, TLC

CONSTANTS
  k1, k2, k3, c1, c2, p0, p1,
  Parts                                   \* what this run is about

(* Three execute() calls, up to two cancel() calls, two values of the       *)
(* parent properties.                                                       *)
MCCalls   == {k1, k2, k3}
MCCancels == {c1, c2}
MCProps   == {p0, p1}

(* The calls are interchangeable, and so are the cancels.  Used only where  *)
(* no temporal property is checked.                                         *)
MCSymmetry == Permutations(MCCalls) \cup Permutations(MCCancels)

VARIABLE part                             \* what this behaviour is about

ASSUME PartConstants == Parts \subseteq {"leaf", "process", "lines"}

all == <<vars, bufferVars, processVars, part>>

PartInit ==
  /\ part \in Parts
  /\ Init /\ BufferInit /\ ProcessInit
  /\ part # "process" => retries = 0 /\ class = "LongArgJob"

LeafStep(A)    == part = "leaf" /\ A /\ UNCHANGED <<bufferVars, processVars, part>>
LinesStep(A)   == part = "lines" /\ A /\ UNCHANGED <<vars, processVars, part>>
ProcessStep(A) == part = "process" /\ A /\ UNCHANGED <<vars, bufferVars, part>>

PartNext == LeafStep(Next) \/ LinesStep(BufferNext) \/ ProcessStep(ProcessNext)

PartSpec == PartInit /\ [][PartNext]_all

(* The fairness of IndividualJob and of JobProcess.                         *)
FairPartSpec ==
  /\ PartSpec
  /\ \A k \in Calls : WF_all(LeafStep(ThreadStep(k)))
  /\ \A c \in Cancels : WF_all(LeafStep(CancelStep(c)))
  /\ WF_all(ProcessStep(JobStep)) /\ WF_all(ProcessStep(KillStep))
  /\ \A k \in Processes : WF_all(ProcessStep(k \in destroyed /\ Exit(k)))
=============================================================================
