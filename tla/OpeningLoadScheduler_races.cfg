SPECIFICATION Spec
CONSTANTS
  Exchanges <- MCTwoExchanges
  Expected = {1, 2}
  Runners = {daemon, loop}
  Daemon = daemon
  MaxFaults = 2
  MaxJobs = 2
INVARIANTS
  TypeOK
  LoadHasCommittedJob
  OneActiveJob
  NoWaitingCycle
  ReportMatchesTables
PROPERTIES
  EventuallyLoaded
  ImplementsSchedule
