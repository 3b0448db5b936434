SPECIFICATION ServicesSpec
CONSTANTS
  Unset <- NoSchedule
  Schedules <- MCSchedules
  Periods <- MCPeriods
  Instants <- MCInstants
  StartOf <- MCStartOf
  ResetOf <- MCResetOf
  Readers = {u1}
  MaxChanges = 2
  Currencies = {"IDR", "EUR"}
  Refreshers = {x1, x2}
  MaxDisturbances = 3
  Savers = {s1, s2}
  Intervals = {"5m", "10m"}
INVARIANTS
  ServicesTypeOK
  WindowIsOnTheGrid
  WaitsAsStored
PROPERTY
  ServicesSettle
\* The clock of the calendar stops, and so do the changes of the rate.
CHECK_DEADLOCK FALSE
