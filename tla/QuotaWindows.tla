---------------------------- MODULE QuotaWindows ----------------------------
(***************************************************************************)
(* Quota Windows as internal/traffic and internal/keys compute them: a     *)
(* key's Reset Rule is its Effective Reset Schedule and the Transitional   *)
(* Windows ("pins") that schedule edits left behind (ADR 0010).            *)
(*                                                                         *)
(* The calendar itself is a parameter: StartOf and ResetOf give, for every *)
(* schedule, period and instant, the window scheduleWindow returns.        *)
(* CalendarAssumption is all that is used of it; MCQuotaCalendar evaluates *)
(* it for the translated scheduleWindow of QuotaCalendar.                  *)
(***************************************************************************)
EXTENDS Integers

CONSTANTS
  Instants,    \* the instants the clock can show
  Schedules,   \* the valid Quota Reset Schedules
  Unset,       \* a nil *ResetSchedule: the UTC calendar of ADR 0005
  Periods,     \* the Quota Periods that reset (scheduledPeriods)
  StartOf,     \* scheduleWindow's start, [schedule -> [period -> [instant -> Int]]]
  ResetOf      \* scheduleWindow's resetAt

AnySchedule == Schedules \cup {Unset}

ASSUME InstantsAssumption == Instants \subseteq Int

ASSUME ScheduleAssumption == Unset \notin Schedules

(* Every instant lies in the window computed for it, the next instant lies *)
(* in the same window or in one that starts where this one ends.           *)
ASSUME CalendarAssumption ==
  \A s \in AnySchedule, p \in Periods, t \in Instants :
    /\ StartOf[s][p][t] \in Int /\ ResetOf[s][p][t] \in Int
    /\ StartOf[s][p][t] <= t /\ t < ResetOf[s][p][t]
    /\ t + 1 \in Instants =>
         IF t + 1 < ResetOf[s][p][t]
           THEN /\ StartOf[s][p][t + 1] = StartOf[s][p][t]
                /\ ResetOf[s][p][t + 1] = ResetOf[s][p][t]
           ELSE StartOf[s][p][t + 1] = ResetOf[s][p][t]

-----------------------------------------------------------------------------
WindowSet == [start : Int, until : Int]

NoPin == [start |-> 0, until |-> 0]     \* covers no instant

NoPins == [p \in Periods |-> NoPin]

Rule(schedule, pins) == [schedule |-> schedule, pins |-> pins]

RuleSet == [schedule : AnySchedule, pins : [Periods -> WindowSet]]

Covers(window, t) == window.start <= t /\ t < window.until

CalendarWindow(p, schedule, t) ==
  [start |-> StartOf[schedule][p][t], until |-> ResetOf[schedule][p][t]]

(* Mutant: a Transitional Window still holds at its very end.              *)
CalcUntilInclusive(p, rule, t) ==
  IF rule.pins[p] # NoPin /\ rule.pins[p].start <= t /\ t <= rule.pins[p].until
    THEN rule.pins[p]
    ELSE CalendarWindow(p, rule.schedule, t)

(* An active Transitional Window wins over the schedule's own window.      *)
CalcQuotaWindow(p, rule, t) ==
  IF Covers(rule.pins[p], t) THEN rule.pins[p]
  ELSE CalendarWindow(p, rule.schedule, t)

(* Mutant: the pin ends at the reset of the old schedule.                  *)
PinUntilOldReset(oldRule, newSchedule, t) ==
  [p \in Periods |->
     IF CalcQuotaWindow(p, oldRule, t).start = StartOf[newSchedule][p][t] THEN NoPin
     ELSE CalcQuotaWindow(p, oldRule, t)]

(* The window running at t keeps its start and ends at the first reset of  *)
(* the new schedule; a period whose start does not move gets no pin.       *)
PinsForChange(oldRule, newSchedule, t) ==
  [p \in Periods |->
     IF CalcQuotaWindow(p, oldRule, t).start = StartOf[newSchedule][p][t] THEN NoPin
     ELSE [start |-> CalcQuotaWindow(p, oldRule, t).start,
           until |-> ResetOf[newSchedule][p][t]]]

(* An edit that leaves the effective schedule as it is keeps the pins.     *)
PinsAfterChange(oldRule, newSchedule, t) ==
  IF oldRule.schedule = newSchedule THEN oldRule.pins
  ELSE PinsForChange(oldRule, newSchedule, t)

(* A Transitional Window in force at t ends at the first reset of the      *)
(* schedule it leads over to.                                              *)
EndsOnSchedule(rule, t) ==
  \A p \in Periods :
    Covers(rule.pins[p], t) => rule.pins[p].until = ResetOf[rule.schedule][p][t]

(* A key's own schedule, else the global one, else the ADR 0005 default.   *)
EffectiveSchedule(own, global) == IF own # Unset THEN own ELSE global
=============================================================================
