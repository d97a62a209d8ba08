SPECIFICATION Spec
CONSTANTS
  MaxCalls = 5
INVARIANTS
  Served
PROPERTIES
  OwnerIsTold
  ImplementsCalls
CHECK_DEADLOCK FALSE
