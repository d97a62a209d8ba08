CONSTANTS
  MaxLaunches = 1
  MaxStuck = 1
SPECIFICATION Spec
INVARIANT WorkerLossReported
CHECK_DEADLOCK FALSE
