---------------------------- MODULE MCScheduler ----------------------------
(* The schedule and, beside it, an entry that waits for events and the      *)
(* times of an entry.  The three share no state: a behaviour is one of the  *)
(* schedule, of the trigger or of the times, and leaves the others alone.   *)
EXTENDS Scheduler, EventTrigger, TLC

CONSTANTS
  x, y, daily, once, again, hourly,
  Parts,                                  \* what this run is about
  Periods, NoPeriod, MaxIncrements, Half, Horizon, Down  \* ScheduleTimes'

(* Two jobs: one with a recurring and two one-time entries, which replace   *)
(* each other, and one with a recurring entry.                              *)
MCIds       == {x, y}
MCEntries   == {daily, once, again, hourly}
MCId        == daily :> x @@ once :> x @@ again :> x @@ hourly :> y
FewEntries  == {daily, once, hourly}
FewId       == daily :> x @@ once :> x @@ hourly :> y
MCRecurring == {daily, hourly}

(* Two criteria and what messages may fit.                                  *)
TwoCriteria == <<"x", "y">>
OneEach     == {{"x"}, {"y"}}
AnyKind     == {{}, {"x"}, {"x", "y"}, {"broken"}}
Hourly      == "event" :> 1 @@ "plain" :> 2
EveryHour   == "event" :> 1 @@ "plain" :> 1

(* Periods from none to two days of six hours.                              *)
SomePeriods == {0, 1, 4, 6, 12}
Downtimes   == {0, 2, 9}

VARIABLES
  part,                                   \* what this behaviour is about
  now, entry, start, stop, period, next, first, from, count, timesPc

Times == INSTANCE ScheduleTimes WITH pc <- timesPc

ASSUME PartConstants ==
  /\ Times!TimesConstants /\ Times!WindowIsRange
  /\ Parts \subseteq {"schedule", "trigger", "times"}

timesVars == <<now, entry, start, stop, period, next, first, from, count, timesPc>>
all == <<vars, triggerVars, timesVars, part>>

PartInit ==
  /\ part \in Parts
  /\ Init /\ TriggerInit /\ Times!Init
  /\ part = "trigger" \/ hour = 0
  /\ part = "times" \/ now = 0

ScheduleStep(A) == part = "schedule" /\ A /\ UNCHANGED <<triggerVars, timesVars, part>>
TriggerStep(A)  == part = "trigger" /\ A /\ UNCHANGED <<vars, timesVars, part>>
TimesStep(A)    == part = "times" /\ A /\ UNCHANGED <<vars, triggerVars, part>>

PartNext == ScheduleStep(Next) \/ TriggerStep(TriggerNext) \/ TimesStep(Times!Next)

PartSpec == PartInit /\ [][PartNext]_all

(* The fairness of Scheduler and of EventTrigger.                           *)
FairPartSpec ==
  /\ PartSpec
  /\ WF_all(ScheduleStep(WebStep)) /\ WF_all(ScheduleStep(RunnerStep))
  /\ \A e \in Entries : SF_all(ScheduleStep(RunnerPoll(e)))
  /\ WF_all(TriggerStep(Deliver))
  /\ WF_all(TriggerStep(PollStep))
  /\ WF_all(TriggerStep(HourPasses))

-----------------------------------------------------------------------------
(* What ScheduleTimes states.                                               *)
NextIsFirst  == Times!NextIsFirst

(* What the code does not do, stated there: no run checks these.            *)
HoursAsMeant == Times!HoursAsMeant
=============================================================================
