CONSTANTS
  MaxLaunches = 2
  MaxStuck = 1
SPECIFICATION FairSpec
INVARIANTS
  NothingLeftBehind
  SessionLossReported
  DrainedMeansReleased
PROPERTIES
  ImplementsLease
  ShutdownReleases
CHECK_DEADLOCK FALSE
