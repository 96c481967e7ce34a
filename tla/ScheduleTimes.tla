---------------------------- MODULE ScheduleTimes ----------------------------
(***************************************************************************)
(* The times of one entry of the schedule: what the forms of the index     *)
(* page ask for, ScheduledJob.updateTime() and getNextRuntime(), and what  *)
(* the schedule file keeps of a period.                                    *)
(*                                                                         *)
(* Times are hours since midnight of the first day.  The ten seconds       *)
(* between polls of an entry that waits for events are one hour here, and  *)
(* the 100000 increments of the loop are MaxIncrements.                    *)
(***************************************************************************)
EXTENDS Integers

CONSTANTS
  Periods,        \* periods a user may ask for, in hours
  NoPeriod,       \* a one-time entry, or no entry
  MaxIncrements,  \* 100000 in the code
  Half,           \* hours of half a day, 12
  Horizon,        \* bound on time
  Down            \* how long the server may be down

TimesConstants ==
  /\ Periods \subseteq Nat
  /\ NoPeriod \notin Nat
  /\ MaxIncrements \in Nat /\ Half \in Nat \ {0} /\ Horizon \in Nat
  /\ Down \subseteq Nat

FullDay   == 2 * Half
HourOf(t) == t % FullDay
OnClock   == (1 .. Half) \X {"am", "pm"}   \* what a form can say

(* What am and pm mean.                                                     *)
Meant(c) == (c[1] % Half) + (IF c[2] = "pm" THEN Half ELSE 0)

(* IndexServlet: the hour of schedule and the hours of schedule_trigger.    *)
FormHour(c)    == (IF c[2] = "pm" /\ c[1] < Half THEN c[1] + Half ELSE c[1]) % FullDay
TriggerHour(c) == IF c[2] = "pm" THEN (c[1] + Half) % FullDay ELSE c[1]

(* EventManagerUtils.checkTimeConstraints.                                  *)
InWindow(h, start, stop) ==
  IF start < stop THEN h >= start /\ h < stop ELSE h >= start \/ h < stop

(* Its hours are those from start, round the clock, up to stop, and all of  *)
(* them if the two are the same.                                            *)
WindowIsRange ==
  \A h, start, stop \in 0 .. FullDay - 1 :
    LET length == IF start = stop THEN FullDay ELSE (stop - start + FullDay) % FullDay
    IN  InWindow(h, start, stop) <=> (h - start + FullDay) % FullDay < length

VARIABLES
  now,
  entry,    \* what was asked for: event or not, hours of the forms
  start, stop,  \* the hours of an entry that waits for events
  period,
  next,     \* nextScheduledExecution
  first,    \* history: the time first asked for
  from,     \* history: next when updateTime() was called
  count,    \* of the loop in getNextRuntime()
  pc

vars == <<now, entry, start, stop, period, next, first, from, count, pc>>

NoEntry == [event |-> FALSE, start |-> <<Half, "am">>, stop |-> <<Half, "am">>]

Init ==
  /\ now \in 0 .. FullDay - 1
  /\ entry = NoEntry
  /\ start = 0 /\ stop = 0
  /\ period = NoPeriod
  /\ next = 0 /\ first = 0 /\ from = 0 /\ count = 0
  /\ pc = "form"

-----------------------------------------------------------------------------
(* "Schedule to run at" an hour of this day, once or every p hours.         *)
AskForTime ==
  /\ pc = "form"
  /\ \E c \in OnClock, p \in Periods \cup {NoPeriod} :
       /\ entry' = [NoEntry EXCEPT !.start = c]
       /\ next' = (now - HourOf(now)) + FormHour(c)
       /\ period' = p
  /\ first' = next'
  /\ pc' = "update"
  /\ UNCHANGED <<now, start, stop, from, count>>

(* "Run only between" two hours; polled from now on.                        *)
AskForTrigger ==
  /\ pc = "form"
  /\ \E c, d \in OnClock :
       /\ entry' = [event |-> TRUE, start |-> c, stop |-> d]
       /\ start' = TriggerHour(c) /\ stop' = TriggerHour(d)
  /\ next' = now /\ first' = now
  /\ period' = 1
  /\ pc' = "update"
  /\ UNCHANGED <<now, from, count>>

(* updateTime(): called when the entry is added, after it ran, when it is   *)
(* loaded.                                                                  *)
UpdateTime ==
  /\ pc = "update"
  /\ from' = next /\ count' = 0
  /\ pc' = IF next > now THEN "scheduled"
           ELSE IF period = NoPeriod THEN "ended"
           ELSE IF entry.event /\ ~InWindow(HourOf(now), start, stop) THEN "pushed"
           ELSE "loop"
  /\ UNCHANGED <<now, entry, start, stop, period, next, first>>

(* Outside of its hours an entry that waits for events is next polled when  *)
(* they start.                                                              *)
PushToStart ==
  /\ pc = "pushed"
  /\ LET today == (now - HourOf(now)) + start
     IN  next' = IF today < now THEN today + FullDay ELSE today
  /\ pc' = "scheduled"
  /\ UNCHANGED <<now, entry, start, stop, period, first, from, count>>

IncrementFar ==                           \* mutant: counts from now on
  /\ pc = "loop" /\ next <= now
  /\ count <= MaxIncrements
  /\ next' = now + period
  /\ count' = count + 1
  /\ UNCHANGED <<now, entry, start, stop, period, first, from, pc>>

Increment ==
  /\ pc = "loop" /\ next <= now
  /\ count <= MaxIncrements
  /\ next' = next + period
  /\ count' = count + 1
  /\ UNCHANGED <<now, entry, start, stop, period, first, from, pc>>

TooMany ==
  /\ pc = "loop" /\ next <= now
  /\ count > MaxIncrements
  /\ next' = from                         \* only the local date was advanced
  /\ pc' = "thrown"
  /\ UNCHANGED <<now, entry, start, stop, period, first, from, count>>

LoopEnds ==
  /\ pc = "loop" /\ next > now
  /\ pc' = "scheduled"
  /\ UNCHANGED <<now, entry, start, stop, period, next, first, from, count>>

-----------------------------------------------------------------------------
Tick ==
  /\ pc = "scheduled" /\ now < Horizon
  /\ now' = now + 1
  /\ UNCHANGED <<entry, start, stop, period, next, first, from, count, pc>>

(* The runner takes the entry and calls updateTime() after it.              *)
Run ==
  /\ pc = "scheduled" /\ next <= now
  /\ pc' = "update"
  /\ UNCHANGED <<now, entry, start, stop, period, next, first, from, count>>

(* createPeriodString() writes a period that is not positive as "n", none.  *)
SavedPeriod(p) == IF p = 0 THEN NoPeriod ELSE p

Restart ==
  /\ pc = "scheduled"
  /\ \E d \in Down : now + d <= Horizon /\ now' = now + d
  /\ period' = SavedPeriod(period)
  /\ pc' = "update"
  /\ UNCHANGED <<entry, start, stop, next, first, from, count>>

Next ==
  \/ AskForTime \/ AskForTrigger \/ UpdateTime \/ PushToStart
  \/ Increment \/ TooMany \/ LoopEnds \/ Tick \/ Run \/ Restart

Spec == Init /\ [][Next]_vars

-----------------------------------------------------------------------------
(* The time updateTime() finds is to come and is the first such time of the *)
(* period, on the beat of the time first asked for, however late the entry  *)
(* ran and however long the server was down; an entry that waits for events *)
(* is polled within a day.  updateTime() gives an entry up only if more     *)
(* than MaxIncrements periods have passed, or its period is zero.           *)
NextIsFirst ==
  [][/\ pc # "scheduled" /\ pc' = "scheduled" =>
          /\ next' > now'
          /\ entry.event => next' - now' <= FullDay
          /\ period' \notin {NoPeriod, 0} /\ ~entry.event =>
               /\ (next' - first') % period' = 0
               /\ next' # from' => next' - period' <= now'
     /\ pc # "thrown" /\ pc' = "thrown" =>
          period = 0 \/ now' - next' > MaxIncrements * period]_vars

(* The forms ask for an hour and am or pm, "12 am" among them (index.vm):   *)
(* the entry's hours are the ones meant.                                    *)
HoursAsMeant ==
  pc = "update" =>
    /\ entry.event => start = Meant(entry.start) /\ stop = Meant(entry.stop)
    /\ ~entry.event => HourOf(first) = Meant(entry.start)
=============================================================================
