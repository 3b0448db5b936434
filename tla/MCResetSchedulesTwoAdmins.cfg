SPECIFICATION Spec
CONSTANTS
  Unset = Unset
  s1 = s1
  s2 = s2
  Schedules = {s1, s2}
  Keys = {k1}
  Admins = {a1, a2}
  ClockMovesDuringEdit = FALSE
  Instants <- MCInstants
  Periods <- MCPeriods
  StartOf <- MCStartOf
  ResetOf <- MCResetOf

PROPERTY StoredUsageKept
\* Deadlock is checked: Restart is always possible.
