SPECIFICATION FairSpec
CONSTANTS
  NoLifetime = NoLifetime
  Actors = {root, thread}
  Root = root
  Threads = {thread}
  Lifetimes = {gen1}
  MaxPending = 2
  MaxRetired = 1
  MaxRequests = 3
  MaxAcks = 2
INVARIANTS
  OwnReplyUnlessMisled
  NoStrandedCaller
  SlotsAccounted
PROPERTIES
  RetiredIsFinal
  EveryCallerSettles
  ImplementsLedger
CHECK_DEADLOCK FALSE
