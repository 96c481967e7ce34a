------------------------------ MODULE FlowPage ------------------------------
(***************************************************************************)
(* The page of a flow (azkaban-flow.js, azkaban-graph.js) and the server   *)
(* behind it (FlowExecutionServlet): the page shows the state an execution *)
(* had when the page was loaded, the user disables and enables jobs, and   *)
(* Execute posts the names of the disabled ones.  The page of a job starts *)
(* a first execution, the page of an execution restarts it.                *)
(*                                                                         *)
(* A job's node has the status of the job's flow, that is of the composed  *)
(* flow if the job depends on others; what a user disables is its leaf.    *)
(*                                                                         *)
(* Abstracted: coordinates, panning and zooming; the execution, whose      *)
(* callbacks and threads are FlowExecution's; one page, in which Execute   *)
(* is pressed when no job is running (FlowRestart has requests that come   *)
(* earlier).                                                               *)
(***************************************************************************)
EXTENDS Integers, FiniteSets

CONSTANTS
  PageJobs,     \* the jobs of the flow
  Dependees,    \* Dependees[j]: the jobs j depends on
  Root,         \* the job the page is for
  MaxRecursions,\* bound on the uses of "Disable All Dependencies"
  MaxPosts      \* bound on the uses of Execute

ASSUME PageConstants ==
  /\ Root \in PageJobs
  /\ Dependees \in [PageJobs -> SUBSET PageJobs]
  /\ MaxRecursions \in Nat /\ MaxPosts \in Nat

(* Of a flow that has been built: buildLegacyFlow() recurses over the       *)
(* dependencies until there are none.                                       *)
ASSUME DependenciesEnd ==
  \A S \in SUBSET PageJobs : S # {} => \E j \in S : Dependees[j] \cap S = {}

VARIABLES
  leaf,       \* the status of every job's leaf
  composed,   \* the status of the composed flow of the jobs that depend on others
  executing,  \* is the execution listed as executing?
  ran,        \* history: the jobs the execution has run since Execute
  node,       \* the page's SVG nodes
  selection,  \* the node that is selected, if any
  recurseId,  \* the mark of the last "Disable All Dependencies"
  posts,      \* uses of Execute
  posted,     \* history: the disabled jobs Execute sent last
  dialog,     \* is the dialog that follows Execute open?
  edit,       \* history: the user's last edit
  touched,    \* history: the jobs edited since the page was loaded
  wanted,     \* history: the jobs the user disabled and nobody has enabled
  fresh       \* history: was the page loaded after the execution's end?

server == <<leaf, composed, executing, ran>>
sent   == <<posts, posted, dialog>>
user   == <<edit, touched, wanted, fresh>>
pageVars   == <<server, node, selection, recurseId, sent, user>>

Statuses == {"READY", "RUNNING", "SUCCEEDED", "FAILED", "COMPLETED", "IGNORED"}
Good     == {"SUCCEEDED", "COMPLETED"}

(* getStatus() of what fillFlow() takes for the job's flow.                 *)
FlowStatus(j) == IF Dependees[j] = {} THEN leaf[j] ELSE composed[j]

Off == {j \in PageJobs : ~node[j].enabled}

-----------------------------------------------------------------------------
(* The page is loaded.                                                      *)

StartsDisabledIgnored(status) ==          \* mutant: not what has succeeded
  status \in {"COMPLETED", "IGNORED"}

(* loadFlow()                                                               *)
StartsDisabled(status) == status \in {"SUCCEEDED", "COMPLETED", "IGNORED"}

Node(status) ==
  [shown |-> status, enabled |-> ~StartsDisabled(status), faded |-> StartsDisabled(status),
   recurseID |-> -1]

PageInit ==
  /\ leaf = [j \in PageJobs |-> "READY"]
  /\ composed = [j \in PageJobs |-> "READY"]
  /\ executing = FALSE
  /\ ran = {}
  /\ node = [j \in PageJobs |-> Node("READY")]
  /\ selection = {}
  /\ recurseId = 0
  /\ posts = 0 /\ posted = {} /\ dialog = FALSE
  /\ edit = <<"load", PageJobs>> /\ touched = {} /\ wanted = {} /\ fresh = TRUE

(* The page of the execution, which the user asks for or the dialog leads   *)
(* to when it is closed.  What was disabled and not posted is lost.         *)
Load ==
  /\ posts > 0
  /\ node' = [j \in PageJobs |-> Node(FlowStatus(j))]
  /\ selection' = {}
  /\ recurseId' = 0
  /\ dialog' = FALSE
  /\ edit' = <<"load", PageJobs>>
  /\ touched' = {}
  /\ wanted' = wanted \cap posted
  /\ fresh' = ~executing
  /\ UNCHANGED <<server, posts, posted>>

-----------------------------------------------------------------------------
(* Edits.  A right click selects its node before the menu opens; the menu   *)
(* acts on what is selected.                                                *)

NodeClicked(j) ==
  /\ ~dialog
  /\ selection # {j}
  /\ selection' = {j}
  /\ UNCHANGED <<server, node, recurseId, sent, user>>

WithEnabled(js, enable) ==
  [j \in PageJobs |-> IF j \in js THEN [node[j] EXCEPT !.enabled = enable, !.faded = ~enable]
                  ELSE node[j]]

Edited(kind, js, disabled, enabled) ==
  /\ edit' = <<kind, js>>
  /\ touched' = touched \cup disabled \cup enabled
  /\ wanted' = (wanted \cup disabled) \ enabled
  /\ UNCHANGED <<server, selection, sent, fresh>>

Disable ==
  /\ ~dialog /\ selection # {}
  /\ node' = WithEnabled(selection, FALSE)
  /\ Edited("disable", selection, selection, {})
  /\ UNCHANGED recurseId

Enable ==
  /\ ~dialog /\ selection # {}
  /\ node' = WithEnabled(selection, TRUE)
  /\ Edited("enable", selection, {}, selection)
  /\ UNCHANGED recurseId

EnableAll ==
  /\ ~dialog /\ selection # {}
  /\ node' = WithEnabled(PageJobs, TRUE)
  /\ Edited("enableAll", PageJobs, {}, PageJobs)
  /\ UNCHANGED recurseId

DisableAllAncestorsOldMark ==             \* mutant: recurseId is not incremented
  /\ ~dialog /\ selection # {}
  /\ LET Marked[j \in PageJobs] ==
           IF node[j].recurseID = recurseId THEN {} ELSE {j} \cup UNION {Marked[d] : d \in Dependees[j]}
         all == UNION {Marked[j] : j \in selection}
     IN
     /\ node' = [j \in PageJobs |-> IF j \in all
                  THEN [node[j] EXCEPT !.enabled = FALSE, !.faded = TRUE, !.recurseID = recurseId]
                  ELSE node[j]]
     /\ Edited("disableAncestor", selection, all, {})
  /\ UNCHANGED recurseId

(* disableRecursively() does not enter a node with the mark of this call.   *)
Recursively[j \in PageJobs] ==
  IF node[j].recurseID = recurseId' THEN {}
  ELSE {j} \cup UNION {Recursively[d] : d \in Dependees[j]}

DisableAllAncestors ==
  /\ ~dialog /\ selection # {}
  /\ recurseId < MaxRecursions
  /\ recurseId' = recurseId + 1
  /\ LET all == UNION {Recursively[j] : j \in selection} IN
     /\ node' = [j \in PageJobs |-> IF j \in all
                  THEN [node[j] EXCEPT !.enabled = FALSE, !.faded = TRUE, !.recurseID = recurseId']
                  ELSE node[j]]
     /\ Edited("disableAncestor", selection, all, {})

-----------------------------------------------------------------------------
(* Execute: the objects of the flow are new or are reset, the disabled      *)
(* leaves IGNORED, and the composed flows are executed from the root down.  *)
ExecuteFlow ==
  /\ ~dialog /\ ~executing
  /\ posts < MaxPosts
  /\ leaf' = [j \in PageJobs |-> IF j \in Off THEN "IGNORED" ELSE "READY"]
  /\ composed' = [j \in PageJobs |-> "RUNNING"]
  /\ executing' = TRUE
  /\ ran' = {}
  /\ posts' = posts + 1 /\ posted' = Off /\ dialog' = TRUE
  /\ fresh' = FALSE
  /\ UNCHANGED <<node, selection, recurseId, edit, touched, wanted>>

-----------------------------------------------------------------------------
(* The execution (see FlowExecution).                                       *)

Reached(j) == executing /\ \A d \in Dependees[j] : FlowStatus(d) \in Good

Executes(l, c, r) ==
  /\ leaf' = l /\ composed' = c /\ ran' = r
  /\ UNCHANGED <<executing, node, selection, recurseId, sent, user>>

RunJob(j) ==
  /\ Reached(j) /\ leaf[j] = "READY"
  /\ Executes([leaf EXCEPT ![j] = "RUNNING"], composed, ran \cup {j})

IgnoreJob(j) ==
  /\ Reached(j) /\ leaf[j] = "IGNORED"
  /\ Executes([leaf EXCEPT ![j] = "COMPLETED"], [composed EXCEPT ![j] = "SUCCEEDED"], ran)

EndJob(j) ==
  /\ leaf[j] = "RUNNING"
  /\ \E s \in {"SUCCEEDED", "FAILED"} :
       Executes([leaf EXCEPT ![j] = s], [composed EXCEPT ![j] = s], ran)

DependeeFailed(j) ==
  /\ executing /\ composed[j] = "RUNNING"
  /\ \E d \in Dependees[j] : FlowStatus(d) = "FAILED"
  /\ Executes(leaf, [composed EXCEPT ![j] = "FAILED"], ran)

FlowCompleted ==
  /\ executing
  /\ FlowStatus(Root) \in {"FAILED"} \cup Good
  /\ \A j \in PageJobs : leaf[j] # "RUNNING"
  /\ executing' = FALSE
  /\ UNCHANGED <<leaf, composed, ran, node, selection, recurseId, sent, user>>

Execution == FlowCompleted \/ \E j \in PageJobs : RunJob(j) \/ IgnoreJob(j) \/ EndJob(j) \/ DependeeFailed(j)

Edits ==
  \/ Disable \/ Enable \/ EnableAll \/ DisableAllAncestors
  \/ \E j \in PageJobs : NodeClicked(j)

PageNext == Load \/ Edits \/ ExecuteFlow \/ Execution

PageSpec == PageInit /\ [][PageNext]_pageVars

-----------------------------------------------------------------------------
PageTypeOK ==
  /\ leaf \in [PageJobs -> Statuses] /\ composed \in [PageJobs -> Statuses]
  /\ executing \in BOOLEAN /\ dialog \in BOOLEAN /\ fresh \in BOOLEAN
  /\ node \in [PageJobs -> [shown : Statuses, enabled : BOOLEAN, faded : BOOLEAN,
                        recurseID : -1 .. MaxRecursions]]
  /\ \A j \in PageJobs : node[j].recurseID <= recurseId
  /\ Cardinality(selection) <= 1
  /\ ran \subseteq PageJobs \ posted
  /\ posts \in 0 .. MaxPosts

(* The flags, classes and marks amount to the set of jobs that the menu's   *)
(* entries speak of.                                                        *)
Edit == INSTANCE FlowEdits WITH Jobs <- PageJobs, off <- Off
EditsTheSet == Edit!Spec

(* "Jobs that are faded-out are disabled": the execution leaves out what    *)
(* the user saw faded when Execute was pressed, and nothing else.  A page   *)
(* that was loaded after an execution's end does not run what has succeeded *)
(* again, unless the user enables it.  (A page loaded while the execution   *)
(* was running, as the one the dialog leads to, does.)                      *)
SeenIsSent ==
  /\ []PageTypeOK
  /\ [][ExecuteFlow =>
          /\ {j \in PageJobs : leaf'[j] = "IGNORED"} = {j \in PageJobs : node[j].faded}
          /\ fresh => {j \in PageJobs : leaf[j] = "SUCCEEDED"} \ touched \subseteq posted']_pageVars

(* "Disabled nodes will be observed": what the user has disabled, and       *)
(* executed so, and not enabled since stays disabled in a restart.          *)
DisabledStaysOff == [][ExecuteFlow => wanted \subseteq posted']_pageVars

(* "Completed status is a legacy status ... It is treated like a ready      *)
(* job": it is enabled when the page is loaded.                             *)
CompletedIsReady ==
  \A j \in PageJobs \ touched : node[j].shown = "COMPLETED" => node[j].enabled
=============================================================================
