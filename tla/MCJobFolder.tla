---------------------------- MODULE MCJobFolder ----------------------------
(* The job directory with the jobs in it and, beside it, the page of a flow *)
(* of them.  The two share no state: a behaviour is one of the directory,   *)
(* with several deployers together or one alone, or one of the page.        *)
EXTENDS JobFolder, FlowPage, TLC

CONSTANTS a, b, c, d

Made(n, deps)       == [job |-> n, deps |-> deps]
Upload(f, jobs)     == [kind |-> "folder", folder |-> f, jobs |-> jobs]
JobEdit(f, n, deps) == [kind |-> "job", folder |-> f, jobs |-> {Made(n, deps)}]
InF(f, n, deps)     == [folder |-> f, job |-> n, deps |-> deps]

TwoFolders == {"one", "two"}

(* Folder one has a and b; a depends on b, and d, in folder two, on a.      *)
SomeFiles == {InF("one", a, {b}), InF("one", b, {}), InF("two", d, {a})}

(* A new folder one with and without a; folder two with its own a; a folder *)
(* that goes with the others only if one has been replaced.                 *)
SomeUploads ==
  {Upload("one", {Made(a, {}), Made(c, {})}),
   Upload("one", {Made(b, {}), Made(c, {b})}),
   Upload("two", {Made(a, {})}),
   Upload("two", {Made(c, {b})}),
   Upload("two", {Made(d, {d})})}

WithEdits == SomeUploads \cup {JobEdit("two", d, {b}), JobEdit("one", b, {c})}

Interchangeable == Permutations(Deployers)

(* The page's flow: a depends on b and c, and b depends on c as well.       *)
MCPageJobs  == {a, b, c}
MCDependees == a :> {b, c} @@ b :> {c} @@ c :> {}

VARIABLE part                             \* what this behaviour is about

PartInit ==
  /\ Init /\ PageInit
  /\ part \in {"folder", "page"} /\ (part = "page" => alone)

(* Recursive edits before the flow is first ordered to run.                 *)
EditedBefore == recurseId' > recurseId => posts = 0

PartNext ==
  \/ part = "folder" /\ Next /\ (alone \/ deploys' <= 2) /\ UNCHANGED <<pageVars, part>>
  \/ part = "page" /\ PageNext /\ EditedBefore /\ UNCHANGED <<vars, part>>

PartSpec == PartInit /\ [][PartNext]_<<vars, pageVars, part>>
=============================================================================
