---------------------------- MODULE EventTrigger ----------------------------
(***************************************************************************)
(* An entry of the schedule that waits for events: EventConsumerManager,   *)
(* polled by the runner of ScheduleManager.                                *)
(*                                                                         *)
(* A consumer thread puts the messages of a Kafka topic into a queue.      *)
(* When the entry's time has come, the runner empties the queue: inside    *)
(* the entry's hours a message satisfies the first criterion, not yet      *)
(* satisfied, that it fits, outside of them it goes back into the queue.   *)
(* When all criteria are satisfied the job is executed.  All of this       *)
(* happens in the runner's monitor, so the other entry waits meanwhile.    *)
(*                                                                         *)
(* Time is in hours of a day of Day hours.  A message is its offset in the *)
(* topic, sent[i] the criteria it fits.                                    *)
(***************************************************************************)
EXTENDS Naturals, Sequences, FiniteSets

CONSTANTS
  Criteria,     \* the keys of criteria, in the order of the HashMap
  Kinds,        \* what messages may be: sets of criteria they fit, or Broken
  Day,          \* hours of a day
  StartHour, StopHour,
  Period,       \* Period[e]: hours between the times of entry e
  Prompt,       \* do the runner's own steps take no time, in hours?
  MaxEvents, MaxCrashes, MaxReplaces  \* bounds

CriteriaSet == {Criteria[k] : k \in DOMAIN Criteria}
Listable    == {"event", "plain"}
Events      == 1 .. MaxEvents
Nothing     == 0

(* A message whose handling throws: not a JSON object, or a null value.     *)
Broken      == {"broken"}

ASSUME TriggerConstants ==
  /\ Criteria \in Seq(STRING) /\ Criteria # <<>>
  /\ \A k, l \in DOMAIN Criteria : Criteria[k] = Criteria[l] => k = l
  /\ Kinds \subseteq SUBSET CriteriaSet \cup {Broken}
  /\ "broken" \notin CriteriaSet
  /\ Day \in Nat \ {0} /\ StartHour \in 0 .. Day - 1 /\ StopHour \in 0 .. Day - 1
  /\ Period \in [Listable -> Nat \ {0}]
  /\ Prompt \in BOOLEAN
  /\ MaxEvents \in Nat /\ MaxCrashes \in Nat /\ MaxReplaces \in Nat

VARIABLES
  hour,       \* the hour of the day
  dueEntries, \* the entries whose time has come, the earliest first; the first
              \* one stays here while it is in the runner's hands
  left,       \* hours to the time of an entry, 0 when it has come
  over,       \* hours since then, modulo its period
  listed,     \* the entries in the queue of the runner or in its hands
  filed,      \* the entries in the schedule file
  runner,     \* the runner's step
  sent,       \* the topic
  offset,     \* the last message the consumer thread has put into the queue
  committed,  \* the last one Kafka knows to be delivered
  messages,   \* EventConsumerManager.queue
  inHand,     \* the message the runner has taken from it, or Nothing
  matched,    \* criteriaCheck; the message is history
  done,       \* history: messages handled, or lost with the queue
  used,       \* history: messages that made a job run
  crashes, replaces

runnerVars == <<dueEntries, left, over, listed, filed>>
topicVars  == <<sent, offset, committed>>
history    == <<done, used, crashes, replaces>>
triggerVars == <<hour, runnerVars, runner, topicVars, messages, inHand, matched, history>>

InQueue   == {messages[k] : k \in DOMAIN messages}
Satisfied == {c \in CriteriaSet : matched[c] # Nothing}
NoMatch   == [c \in CriteriaSet |-> Nothing]

Steps == {"wait", "poll", "check", "execute", "serve", "reschedule"}

InWindowSameDay(h) ==                     \* mutant: no window over midnight
  h >= StartHour /\ h < StopHour

(* EventManagerUtils.checkTimeConstraints.                                  *)
InWindow(h) ==
  IF StartHour < StopHour THEN h >= StartHour /\ h < StopHour
                          ELSE h >= StartHour \/ h < StopHour

(* ScheduledJob.getNextRuntime, in hours from now: the start of the window  *)
(* when now is outside of it, else the first time of the period after now.  *)
(* (That one may be outside of the window.)                                 *)
HoursToNext(e) ==
  IF e = "event" /\ ~InWindow(hour) THEN (Day + StartHour - hour) % Day
                                    ELSE Period[e] - over[e]

TriggerInit ==
  /\ hour \in 0 .. Day - 1
  /\ dueEntries = <<>>
  /\ left = Period
  /\ over = [e \in Listable |-> 0]
  /\ listed = Listable /\ filed = Listable
  /\ runner = "wait"
  /\ sent = <<>> /\ offset = 0 /\ committed = 0
  /\ messages = <<>> /\ inHand = Nothing
  /\ matched = NoMatch
  /\ done = {} /\ used = {}
  /\ crashes = 0 /\ replaces = 0

-----------------------------------------------------------------------------
(* The topic, the consumer thread, the clock.                               *)

Publish ==
  /\ Len(sent) < MaxEvents
  /\ \E k \in Kinds : sent' = Append(sent, k)
  /\ UNCHANGED <<hour, runnerVars, runner, offset, committed, messages,
                 inHand, matched, history>>

Deliver ==
  /\ offset < Len(sent)
  /\ offset' = offset + 1
  /\ messages' = Append(messages, offset + 1)
  /\ UNCHANGED <<hour, runnerVars, runner, sent, committed, inHand, matched, history>>

CommitOffset ==
  /\ committed < offset
  /\ committed' = offset
  /\ UNCHANGED <<hour, runnerVars, runner, sent, offset, messages, inHand,
                 matched, history>>

(* The loop of consume() outside the window.                                *)
Spinning == /\ runner \in {"poll", "check"} /\ ~InWindow(hour)
            /\ messages # <<>> \/ inHand # Nothing

(* Entries whose times come together are in either order.                   *)
AsQueue(S) ==
  {s \in [1 .. Cardinality(S) -> S] : \A i, j \in DOMAIN s : s[i] = s[j] => i = j}

HourPasses ==
  LET come == {e \in Listable : left[e] = 1} IN
  /\ Prompt => Spinning \/ (runner = "wait" /\ dueEntries = <<>>)
  /\ hour' = (hour + 1) % Day
  /\ left' = [e \in Listable |-> IF left[e] = 0 THEN 0 ELSE left[e] - 1]
  /\ over' = [e \in Listable |-> IF left[e] = 0 THEN (over[e] + 1) % Period[e] ELSE 0]
  /\ \E s \in AsQueue(come \cap listed) : dueEntries' = dueEntries \o s
  /\ UNCHANGED <<listed, filed, runner, topicVars, messages, inHand, matched, history>>

-----------------------------------------------------------------------------
(* A round of the runner, in its monitor.                                   *)

Poll ==
  /\ runner = "wait" /\ dueEntries # <<>>
  /\ runner' = IF Head(dueEntries) = "event" THEN "poll" ELSE "serve"
  /\ UNCHANGED <<hour, runnerVars, topicVars, messages, inHand, matched, history>>

Take ==
  /\ runner = "poll" /\ messages # <<>>
  /\ inHand' = Head(messages)
  /\ messages' = Tail(messages)
  /\ runner' = "check"
  /\ UNCHANGED <<hour, runnerVars, topicVars, matched, history>>

NotPassed ==
  /\ runner = "poll" /\ messages = <<>>
  /\ runner' = "reschedule"
  /\ UNCHANGED <<hour, runnerVars, topicVars, messages, inHand, matched, history>>

PutBackNot ==                             \* mutant: an early message is dropped
  /\ runner = "check" /\ ~InWindow(hour)
  /\ inHand' = Nothing
  /\ runner' = "poll"
  /\ UNCHANGED <<hour, runnerVars, topicVars, messages, matched, history>>

PutBack ==
  /\ runner = "check" /\ ~InWindow(hour)
  /\ messages' = Append(messages, inHand)
  /\ inHand' = Nothing
  /\ runner' = "poll"
  /\ UNCHANGED <<hour, runnerVars, topicVars, matched, history>>

(* The criteria a message in hand satisfies: at most one.                   *)
FirstFit ==
  LET fit(k) == Criteria[k] \in sent[inHand] \ Satisfied
  IN  {Criteria[k] : k \in {i \in DOMAIN Criteria : fit(i) /\ \A l \in 1 .. i - 1 : ~fit(l)}}

Match ==
  /\ runner = "check" /\ InWindow(hour) /\ sent[inHand] # Broken
  /\ matched' = [c \in CriteriaSet |-> IF c \in FirstFit THEN inHand ELSE matched[c]]
  /\ runner' = IF \A c \in CriteriaSet : matched'[c] # Nothing THEN "execute" ELSE "poll"
  /\ done' = done \cup {inHand}
  /\ inHand' = Nothing
  /\ UNCHANGED <<hour, runnerVars, topicVars, messages, used, crashes, replaces>>

(* Only a ParseException is caught; any other one ends the round, and the   *)
(* entry, taken out of the schedule by poll(), is not put back.             *)
MatchThrows ==
  /\ runner = "check" /\ InWindow(hour) /\ sent[inHand] = Broken
  /\ listed' = listed \ {"event"}
  /\ dueEntries' = Tail(dueEntries)
  /\ done' = done \cup {inHand}
  /\ inHand' = Nothing
  /\ runner' = "wait"
  /\ UNCHANGED <<hour, left, over, filed, topicVars, messages, matched,
                 used, crashes, replaces>>

ExecuteKeepingCriteria ==                 \* mutant: no resetCriteriaCheck()
  /\ runner = "execute"
  /\ used' = used \cup {matched[c] : c \in CriteriaSet}
  /\ runner' = "reschedule"
  /\ UNCHANGED <<hour, runnerVars, topicVars, messages, inHand, matched,
                 done, crashes, replaces>>

(* resetCriteriaCheck(), then executeJob(), which swallows the refusal of   *)
(* a job that is still running.                                             *)
Execute ==
  /\ runner = "execute"
  /\ matched' = NoMatch
  /\ used' = used \cup {matched[c] : c \in CriteriaSet}
  /\ runner' = "reschedule"
  /\ UNCHANGED <<hour, runnerVars, topicVars, messages, inHand, done, crashes, replaces>>

Serve ==
  /\ runner = "serve"
  /\ runner' = "reschedule"
  /\ UNCHANGED <<hour, runnerVars, topicVars, messages, inHand, matched,
                 done, used, crashes, replaces>>

(* updateTime(), schedule.add(), saveSchedule().                            *)
Reschedule ==
  LET e == Head(dueEntries) IN
  /\ runner = "reschedule"
  /\ left' = [left EXCEPT ![e] = HoursToNext(e)]
  /\ over' = [over EXCEPT ![e] = 0]
  /\ dueEntries' = Tail(dueEntries)
  /\ filed' = listed
  /\ runner' = "wait"
  /\ UNCHANGED <<hour, listed, topicVars, messages, inHand, matched, history>>

-----------------------------------------------------------------------------
(* What is lost with an EventConsumerManager: its queue, and criteriaCheck. *)
NewConsumer(from) ==
  /\ messages' = <<>> /\ inHand' = Nothing
  /\ matched' = NoMatch
  /\ offset' = from /\ committed' = from
  /\ done' = 1 .. from

(* The entries of the file are loaded, with updateTime().                   *)
Crash ==
  /\ crashes < MaxCrashes
  /\ crashes' = crashes + 1
  /\ NewConsumer(committed)
  /\ used' = used \cap 1 .. committed
  /\ listed' = filed
  /\ dueEntries' = <<>>
  /\ left' = [e \in Listable |-> IF left[e] = 0 THEN HoursToNext(e) ELSE left[e]]
  /\ over' = [e \in Listable |-> 0]
  /\ runner' = "wait"
  /\ UNCHANGED <<hour, filed, sent, replaces>>

(* schedule() of the same job replaces the entry; killConsumers() commits   *)
(* what was delivered.  It needs the runner's monitor.                      *)
Replace ==
  /\ replaces < MaxReplaces
  /\ replaces' = replaces + 1
  /\ runner = "wait"
  /\ NewConsumer(offset)
  /\ listed' = listed \cup {"event"} /\ filed' = listed'
  /\ \E s \in AsQueue({dueEntries[k] : k \in DOMAIN dueEntries} \ {"event"}) : dueEntries' = s
  /\ over' = [over EXCEPT !["event"] = 0]
  /\ left' = [left EXCEPT !["event"] =
                IF InWindow(hour) THEN Period["event"] ELSE HoursToNext("event")]
  /\ UNCHANGED <<hour, runner, sent, used, crashes>>

-----------------------------------------------------------------------------
PollStep ==
  \/ Poll \/ Take \/ NotPassed \/ PutBack \/ Match \/ MatchThrows \/ Execute \/ Serve
  \/ Reschedule

TriggerNext ==
  Publish \/ Deliver \/ CommitOffset \/ HourPasses \/ PollStep \/ Crash \/ Replace

TriggerSpec == TriggerInit /\ [][TriggerNext]_triggerVars

(* The consumer thread and the runner are scheduled, and time passes.       *)
FairTriggerSpec ==
  /\ TriggerSpec
  /\ WF_triggerVars(Deliver) /\ WF_triggerVars(PollStep) /\ WF_triggerVars(HourPasses)

-----------------------------------------------------------------------------
(* Type invariant: the queue, the criteria and the schedule hold the values *)
(* their fields can have.                                                   *)
TriggerTypeOK ==
  /\ hour \in 0 .. Day - 1
  /\ dueEntries \in Seq(Listable)
  /\ left \in [Listable -> Nat] /\ over \in [Listable -> Nat]
  /\ listed \subseteq Listable /\ filed \subseteq Listable
  /\ runner \in Steps
  /\ sent \in Seq(Kinds) /\ Len(sent) <= MaxEvents
  /\ committed \in Nat /\ offset \in Nat /\ committed <= offset /\ offset <= Len(sent)
  /\ messages \in Seq(1 .. offset)
  /\ inHand \in 0 .. offset
  /\ matched \in [CriteriaSet -> 0 .. offset]
  /\ done \subseteq Nat /\ used \subseteq Nat
  /\ crashes \in Nat /\ replaces \in Nat

(* EventConsumerManager: "put this back in queue. It isn't time yet": a     *)
(* delivered message is in the queue, once, or at the runner, or has been   *)
(* handled, once, however often it goes round outside the entry's hours.    *)
(* Only a crash or a new schedule of the job loses what was in the queue.   *)
Accounted ==
  /\ InQueue \cup done \cup ({inHand} \ {Nothing}) = 1 .. offset
  /\ inHand \notin done \cup InQueue
  /\ InQueue \cap done = {}
  /\ Len(messages) = Cardinality(InQueue)
  /\ inHand # Nothing <=> runner = "check"

(* The satisfied criteria have messages of their own, which fit them and    *)
(* made no job run before; all have, when the job is run.                   *)
Warranted ==
  /\ \A c \in Satisfied :
       /\ sent[matched[c]] # Broken /\ c \in sent[matched[c]]
       /\ matched[c] \notin used
       /\ \A d \in Satisfied : matched[c] = matched[d] => c = d
  /\ runner = "execute" => Satisfied = CriteriaSet

(* A job runs for a message of its own per criterion, one that fits it and  *)
(* made no job run before, though criteriaCheck is kept over many polls.    *)
(* (A crash makes the messages new that were not committed.)  For that each *)
(* message has to be accounted for, see above.                              *)
RunIsWarranted == TriggerTypeOK /\ Accounted /\ Warranted

(* The runner comes back from a poll: the other entry is executed when its  *)
(* time has come, even if that takes until the next window opens.           *)
OthersServed == (left["plain"] = 0) ~> (runner = "serve")

(* Messages for all criteria, each of which fits one, make the job run.     *)
Missing  == CriteriaSet \ Satisfied
Arriving ==
  LET ahead == InQueue \cup ({inHand} \ {Nothing}) \cup (offset + 1) .. Len(sent)
  IN  UNION {sent[i] : i \in ahead}
TriggerRuns == (Missing \subseteq Arriving) ~> (runner = "execute")

(* ScheduleManager: "Thread that simply invokes the running of jobs when    *)
(* the schedule is ready": while the runner is quick, no hour passes with   *)
(* an entry that is due.                                                    *)
OthersOnTime ==
  [][hour' # hour => \A k \in DOMAIN dueEntries : dueEntries[k] # "plain"]_triggerVars

(* ScheduleManager: "Immediately reschedule if it's possible": an entry     *)
(* with a period stays scheduled.                                           *)
StaysScheduled == listed = Listable

(* The inductive invariant behind RunIsWarranted: a delivered message is in *)
(* one place; messages of satisfied criteria and of runs have been handled. *)
InOnePlace ==
  /\ InQueue \cup done \cup ({inHand} \ {Nothing}) = 1 .. offset
  /\ inHand \notin done \cup InQueue
  /\ InQueue \cap done = {}
  /\ \A k, l \in DOMAIN messages : messages[k] = messages[l] => k = l
  /\ inHand # Nothing <=> runner = "check"

InTime ==
  /\ \A e \in Listable : over[e] < Period[e]
  /\ runner # "wait" => dueEntries # <<>>

Handled ==
  /\ used \subseteq done
  /\ \A c \in Satisfied : matched[c] \in done

TriggerInv == TriggerTypeOK /\ InTime /\ InOnePlace /\ Handled /\ Warranted
=============================================================================
