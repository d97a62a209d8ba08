SPECIFICATION NavSpec
CONSTANTS
  NoPage = NoPage
  NoDocument = NoDocument
  TopActors = {t1, t2}
  WorkerActors = {}
  FirstPage = t1
  Blank = blank
  Wanted = wanted
  Other = other
  MaxThreads = 2
  MaxTombstones = 3
  MaxEchoes = 0
  MaxWire = 2
INVARIANTS
  DestinationNotMissed
  LoadIsNotHeld
PROPERTIES
  NotTheOldDocument
  NavigationEnds
  ClosedTabIsReported
CHECK_DEADLOCK FALSE
