SPECIFICATION Spec
CONSTANTS
  Unset = Unset
  s1 = s1
  s2 = s2
  Schedules = {s1, s2}
  Keys = {k1, k2}
  Admins = {a1}
  ClockMovesDuringEdit = FALSE
  Instants <- MCInstants
  Periods <- MCPeriods
  StartOf <- MCStartOf
  ResetOf <- MCResetOf
SYMMETRY Symmetry
INVARIANT PinsEndOnSchedule CacheCoherent
PROPERTY UsageKept WindowsTile
\* Deadlock is checked: Restart is always possible.
