SPECIFICATION DashboardSpec
CONSTANTS
  Requests = {r1, r2}
  Names = {"ann", "bob"}
  MaxId = 2
  MaxPassword = 1
  MaxSessions = 2
  Addresses = {"i"}
  Accounts = {"u"}
  Attempts = {t1, t2}
  Window = 3
  MaxRequests = 2
  LockWindow = 2
  MaxFailures = 2
  MaxTime = 7
  Capacity = 2
  BatchSize = 2
  DefaultPage = 1
  MaxPage = 2
  Limits = {0, 1, 2, 3}
  MaxEntries = 5
SYMMETRY Symmetry
INVARIANTS
  DashboardTypeOK
  SessionsAreSound
  AdministratorRemains
  EntriesKept
  PagesComplete
PROPERTY
  GuessingIsLimited
\* The log closes, and the clock of the limiter stops.
CHECK_DEADLOCK FALSE
