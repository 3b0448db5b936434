-------------------------- MODULE MCQuotaCalendar --------------------------
(* A clock that runs over two model months under every schedule below, so  *)
(* that TLC evaluates scheduleWindow at every hour of them. The module     *)
(* also extends QuotaWindows with that calendar for its parameters: TLC    *)
(* then evaluates CalendarAssumption, which the proofs rest on, for it.    *)
EXTENDS QuotaCalendar, QuotaWindows, FiniteSetsExt

Utc   == [standard |-> 0, summer |-> 0, from |-> 0, until |-> 0]
East  == [standard |-> 7, summer |-> 7, from |-> 0, until |-> 0]
(* One hour forward in the night of day 20, back again on day 48.          *)
North == [standard |-> 1, summer |-> 2, from |-> 20 * 24 + 1, until |-> 48 * 24 + 1]
West  == [standard |-> -5, summer |-> -4, from |-> 20 * 24 + 7, until |-> 48 * 24 + 6]

Sched(zone, hour, weekday, day) ==
  [zone |-> zone, hour |-> hour, weekday |-> weekday, day |-> day]

MCSchedules ==
  { Sched(Utc, 0, 1, 1), Sched(East, 5, 3, 31), Sched(North, 2, 7, 29),
    Sched(West, 2, 7, 31), Sched(West, 23, 1, 15) }

NoSchedule == Sched(Utc, -1, 1, 1)

MCPeriods == {"daily", "weekly", "monthly", "total"}
Horizon == 65 * DayHours

(* What a schedule that was saved says (ResetSchedule.Validate), in a zone *)
(* that is never a day or more off UTC or off itself.                      *)
ValidZone(z) ==
  /\ {z.standard, z.summer} \subseteq -24 .. 24
  /\ z.summer - z.standard \in -23 .. 23
  /\ {z.from, z.until} \subseteq Int

ValidSchedule(s) ==
  /\ ValidZone(s.zone)
  /\ s.hour \in 0 .. 23 /\ s.weekday \in 1 .. 7 /\ s.day \in 1 .. 31

ASSUME CalendarValues ==
  /\ \A s \in Schedules : ValidSchedule(s)
  /\ ~ Usable(Unset)
  /\ Periods \subseteq MCPeriods

MCInstants == 0 .. Horizon

MCStartOf ==
  [s \in MCSchedules \cup {NoSchedule} |-> [p \in MCPeriods |-> [t \in MCInstants |->
     ScheduleWindow(p, s, t).start]]]
MCResetOf ==
  [s \in MCSchedules \cup {NoSchedule} |-> [p \in MCPeriods |-> [t \in MCInstants |->
     ScheduleWindow(p, s, t).until]]]

VARIABLES sched, period, now,
          resets,   \* the schedule's reset instants, see ResetGrid
          window    \* what scheduleWindow returns for now
calendarVars == <<sched, period, now, resets, window>>

(* The reset instants of a schedule, written down without any search: one  *)
(* per local day, per local week, per month; midnight, Monday and the 1st  *)
(* in UTC for a key without a schedule.                                    *)
ResetGrid(p, s) ==
  CASE p = "daily"   -> {Date(s.zone, d, s.hour) : d \in -3 .. 70}
    [] p = "weekly"  -> {Date(s.zone, 7 * w + s.weekday - 1, s.hour) : w \in -2 .. 11}
    [] p = "monthly" -> {Date(s.zone, FirstOfMonth(m) + Min({s.day, DaysIn(m)}) - 1, s.hour) :
                           m \in -2 .. 4}
    [] p = "total"   -> {Epoch, EndOfTime}

CalendarInit ==
  /\ sched \in AnySchedule
  /\ period \in Periods
  /\ now = 0
  /\ resets = ResetGrid(period, IF sched = Unset THEN Sched(Utc, 0, 1, 1) ELSE sched)
  /\ window = ScheduleWindow(period, sched, now)

AnHourPasses ==
  /\ now < Horizon
  /\ now' = now + 1
  /\ window' = ScheduleWindow(period, sched, now')
  /\ UNCHANGED <<sched, period, resets>>

CalendarSpec == CalendarInit /\ [][AnHourPasses]_calendarVars

-----------------------------------------------------------------------------
(* The window scheduleWindow returns runs from the last reset of the       *)
(* schedule's own calendar up to now to the first one after now: the       *)
(* bounded search (window.go:59-65) reaches it at every hour, next to a    *)
(* daylight saving change and in short months too, and the UTC fallback of *)
(* line 68 is never taken for a usable schedule. That consecutive windows  *)
(* then share a boundary (ADR 0010 #6) is CalendarAssumption.              *)
WindowIsOnTheGrid ==
  /\ window.start <= now /\ now < window.until
  /\ {window.start, window.until} \subseteq resets
  /\ \A x \in resets : x <= window.start \/ window.until <= x
=============================================================================
