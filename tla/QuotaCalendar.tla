--------------------------- MODULE QuotaCalendar ---------------------------
(***************************************************************************)
(* The calendar arithmetic of internal/traffic/window.go and of            *)
(* defaultWindow in internal/traffic/quota.go: which Quota Window an       *)
(* instant falls in, under a Quota Reset Schedule or under the UTC         *)
(* calendar of ADR 0005.                                                   *)
(*                                                                         *)
(* Instants are whole hours since a Monday that is the first of a month.   *)
(* Months repeat with the lengths 31, 28, 31, which is enough for short    *)
(* months, clamped days and a month that starts on any weekday.            *)
(***************************************************************************)
EXTENDS Integers

DayHours == 24

(* External: the proleptic calendar of Go's time package, in miniature.    *)
MonthCycle == 90
FirstOfMonth(m) == (m \div 3) * MonthCycle + <<0, 31, 59>>[(m % 3) + 1]
DaysIn(m) == FirstOfMonth(m + 1) - FirstOfMonth(m)
MonthOf(day) ==
  CHOOSE m \in 3 * (day \div MonthCycle) .. 3 * (day \div MonthCycle) + 2 :
    FirstOfMonth(m) <= day /\ day < FirstOfMonth(m + 1)
Weekday(day) == (day % 7) + 1     \* 1 = Monday .. 7 = Sunday

(* External: a zone has one summer offset between two instants.            *)
OffsetAt(zone, t) ==
  IF zone.from <= t /\ t < zone.until THEN zone.summer ELSE zone.standard

(* External: time.Date(.., loc) first looks the zone up at the local time  *)
(* read as UTC, and a second time at the instant that gives; this settles  *)
(* local times that a daylight saving change skips or repeats.             *)
Date(zone, day, hour) ==
  LET local == DayHours * day + hour
      guess == OffsetAt(zone, local)
  IN  local - (IF guess = 0 THEN 0 ELSE OffsetAt(zone, local - guess))

LocalDay(zone, t) == (t + OffsetAt(zone, t)) \div DayHours

Clamp(v, lo, hi) == IF v < lo THEN lo ELSE IF v > hi THEN hi ELSE v

Window(start, until) == [start |-> start, until |-> until]

(* The instants of 1970-01-01 and 9999-12-31 the "total" period runs over. *)
Epoch == -100000
EndOfTime == 100000

-----------------------------------------------------------------------------
(* defaultWindow: UTC midnight, Monday, the first of the month.            *)
DefaultWindow(period, t) ==
  LET day    == t \div DayHours
      monday == day - (Weekday(day) - 1)
      month  == MonthOf(day)
  IN  CASE period = "daily"   -> Window(DayHours * day, DayHours * (day + 1))
        [] period = "weekly"  -> Window(DayHours * monday, DayHours * (monday + 7))
        [] period = "monthly" -> Window(DayHours * FirstOfMonth(month),
                                        DayHours * FirstOfMonth(month + 1))
        [] period = "total"   -> Window(Epoch, EndOfTime)

(* Mutant: the day of the month is not clamped to its length.              *)
NthMonthUnclamped(sched, day, k) ==
  Date(sched.zone, FirstOfMonth(MonthOf(day) + k) + sched.day - 1, sched.hour)

(* nth for the monthly period: day 29-31 means the last day of a short month. *)
NthMonth(sched, day, k) ==
  LET m == MonthOf(day) + k
  IN  Date(sched.zone, FirstOfMonth(m) + Clamp(sched.day, 1, DaysIn(m)) - 1, sched.hour)

(* nth(k): the k-th reset counted from the local date day.                 *)
Nth(period, sched, day, k) ==
  CASE period = "daily"   -> Date(sched.zone, day + k, sched.hour)
    [] period = "weekly"  -> Date(sched.zone, day - (Weekday(day) - 1) + 7 * k
                                    + (Clamp(sched.weekday, 1, 7) - 1), sched.hour)
    [] period = "monthly" -> NthMonth(sched, day, k)

(* The two search loops: k moves back while S(k) lies after t, then on     *)
(* while S(k + 1) does not, MaxSteps moves at most in each.                *)
MaxSteps == 4

StepsBack(period, sched, day, t) ==
  CHOOSE i \in 0 .. MaxSteps :
    /\ i = MaxSteps \/ Nth(period, sched, day, -i) <= t
    /\ \A j \in 0 .. i - 1 : Nth(period, sched, day, -j) > t

StepsOn(period, sched, day, t, k) ==
  CHOOSE i \in 0 .. MaxSteps :
    /\ i = MaxSteps \/ Nth(period, sched, day, k + i + 1) > t
    /\ \A j \in 0 .. i - 1 : Nth(period, sched, day, k + j + 1) <= t

(* load and ParseClock: a nil schedule, or one whose zone or clock does not *)
(* parse, is not usable; hour -1 stands for either.                        *)
Usable(sched) == sched.hour \in 0 .. 23

(* scheduleWindow: two consecutive values of nth around t; the UTC         *)
(* calendar without a usable schedule, for the period that never resets,   *)
(* and when the pair does not enclose t.                                   *)
ScheduleWindow(period, sched, t) ==
  IF period = "total" \/ ~ Usable(sched) THEN DefaultWindow(period, t)
  ELSE LET day  == LocalDay(sched.zone, t)
           back == -StepsBack(period, sched, day, t)
           k    == back + StepsOn(period, sched, day, t, back)
           w    == Window(Nth(period, sched, day, k), Nth(period, sched, day, k + 1))
       IN  IF w.start <= t /\ t < w.until THEN w ELSE DefaultWindow(period, t)
=============================================================================
