SPECIFICATION MCSpec
CONSTANTS
  Threads = {t1, t2}
  CodesOf <- ScopeTables
  Requests <- AllRequests
  MaxErrors = 1
  Exchanges = {1, 2}
  Days = {1, 2}
  Listings = {1}
  ExchangeOf <- OfTheLast
  Decisions = {"ready", "blocked"}
  MaxRuns = 2
  Poll = 1
  TickTime = 1
  WorkerStale = 3
  SchedulerStale = 4
  QueueStale = 2
  MaxTime = 5
  MaxPending = 1
  MaxFaults = 1
  MaxRequests = 1
INVARIANTS
  ReadinessIsCommitted
  PricesComplete
PROPERTIES
  OnlyAdminsChangeScope
  UndisturbedIsEchoed
  DayNeverGoesBack
  DeadDaemonReported
  LiveDaemonIsNoAlarm
CHECK_DEADLOCK FALSE
