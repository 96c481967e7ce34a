------------------------------ MODULE LogBuffer ------------------------------
(***************************************************************************)
(* The log lines AzkabanProcess keeps of a process: a LogGobbler reads     *)
(* what the process writes and appends it to a CircularBuffer; the job's   *)
(* thread, once the process has failed, iterates over that buffer for the  *)
(* ProcessFailureException.  Nothing synchronizes the two.                 *)
(*                                                                         *)
(* A line is its number.  append() of a full buffer is two steps; adding   *)
(* a line to one that is not full invalidates iterators over lines (its    *)
(* modCount), setting one does not.                                        *)
(***************************************************************************)
EXTENDS Naturals, Sequences

CONSTANTS
  Size,       \* size of the buffer, 30 in the code
  MaxLines    \* bound on what the process writes

ASSUME BufferConstants == Size \in Nat \ {0} /\ MaxLines \in Nat

VARIABLES
  lines,     \* CircularBuffer.lines
  start,     \* CircularBuffer.start, an index from 0
  set,       \* has append() set a line and not moved start yet?
  appended,  \* history: lines the gobbler has appended
  written,   \* lines the process has written
  thread,    \* the step of the job's thread
  from,      \* start, when the iterator was made
  grew,      \* has lines grown since then?
  snippet    \* the lines the iterator has returned

buffer == <<lines, start, set, appended>>
reader == <<thread, from, grew, snippet>>
bufferVars   == <<buffer, written, reader>>

BufferInit ==
  /\ lines = <<>> /\ start = 0 /\ set = FALSE
  /\ appended = 0 /\ written = 0
  /\ thread = "waitFor" /\ from = 0 /\ grew = FALSE /\ snippet = <<>>

-----------------------------------------------------------------------------
Write ==
  /\ thread = "waitFor" /\ written < MaxLines
  /\ written' = written + 1
  /\ UNCHANGED <<buffer, reader>>

(* append(), the buffer not full.                                           *)
AppendNew ==
  /\ ~set /\ appended < written /\ Len(lines) < Size
  /\ lines' = Append(lines, appended + 1)
  /\ appended' = appended + 1
  /\ grew' = TRUE
  /\ UNCHANGED <<start, set, written, thread, from, snippet>>

(* append(), the oldest line overwritten; then start is moved.              *)
AppendSet ==
  /\ ~set /\ appended < written /\ Len(lines) = Size
  /\ lines' = [lines EXCEPT ![start + 1] = appended + 1]
  /\ appended' = appended + 1
  /\ set' = TRUE
  /\ UNCHANGED <<start, written, reader>>

MoveStartPast ==                          \* mutant: leaves an index of Size
  /\ set
  /\ start' = (start + 1) % (Size + 1)
  /\ set' = FALSE
  /\ UNCHANGED <<lines, appended, written, reader>>

MoveStart ==
  /\ set
  /\ start' = IF start + 1 = Size THEN 0 ELSE start + 1
  /\ set' = FALSE
  /\ UNCHANGED <<lines, appended, written, reader>>

-----------------------------------------------------------------------------
Succeeds ==
  /\ thread = "waitFor"
  /\ thread' = "joined"
  /\ UNCHANGED <<buffer, written, from, grew, snippet>>

(* waitFor() has returned another exit code; getRecentLog() at once.        *)
MakeIterator ==
  /\ thread = "waitFor"
  /\ thread' = "iterating"
  /\ from' = start
  /\ grew' = FALSE /\ snippet' = <<>>
  /\ UNCHANGED <<buffer, written>>

(* The k-th line of an iteration that began at start s.                     *)
At(s, k) == lines[IF s + k <= Len(lines) THEN s + k ELSE s + k - Len(lines)]

Iterate ==
  /\ thread = "iterating"
  /\ Len(snippet) < Len(lines) /\ ~grew
  /\ snippet' = Append(snippet, At(from, Len(snippet) + 1))
  /\ UNCHANGED <<buffer, written, thread, from, grew>>

(* ConcurrentModificationException.                                         *)
IterateThrows ==
  /\ thread = "iterating"
  /\ Len(snippet) < Len(lines) /\ grew
  /\ thread' = "threwOther"
  /\ UNCHANGED <<buffer, written, from, grew, snippet>>

IterateEnds ==
  /\ thread = "iterating"
  /\ Len(snippet) = Len(lines)
  /\ thread' = "threwFailure"
  /\ UNCHANGED <<buffer, written, from, grew, snippet>>

BufferOver == thread \in {"joined", "threwOther", "threwFailure"} /\ appended = written /\ ~set

BufferNext ==
  \/ Write \/ AppendNew \/ AppendSet \/ MoveStart
  \/ Succeeds \/ MakeIterator \/ Iterate \/ IterateThrows \/ IterateEnds
  \/ BufferOver /\ UNCHANGED bufferVars

BufferSpec == BufferInit /\ [][BufferNext]_bufferVars

-----------------------------------------------------------------------------
(* Type invariant: indices are in the list, lines are lines written.        *)
BufferTypeOK ==
  /\ lines \in Seq(1 .. MaxLines) /\ Len(lines) <= Size
  /\ start \in 0 .. Size - 1 /\ set \in BOOLEAN
  /\ appended \in 0 .. written /\ written \in 0 .. MaxLines
  /\ thread \in {"waitFor", "joined", "iterating", "threwOther", "threwFailure"}
  /\ from \in 0 .. Size - 1 /\ grew \in BOOLEAN
  /\ snippet \in Seq(1 .. MaxLines)

(* "It will grow up to the give size as items are appended, then it will    *)
(* begin to overwrite older items" (CircularBuffer): between two calls of   *)
(* append(), iterating gives the last lines in the order they came, also    *)
(* when start has come back to 0.                                           *)
Kept == IF appended < Size THEN appended ELSE Size

HoldsTheLast ==
  ~set => /\ Len(lines) = Kept
          /\ \A k \in 1 .. Kept : At(start, k) = appended - Kept + k

(* ProcessTest: "expected = ProcessFailureException.class": a process that  *)
(* fails is reported by that exception.                                     *)
FailureIsReported == thread # "threwOther"
=============================================================================
