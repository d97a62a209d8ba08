SPECIFICATION DebuggeeSpec
CONSTANTS
  NoPage = NoPage
  NoActor = NoActor
  NoStop = NoStop
  TopActors = {t1, t2}
  FirstPage = t1
  ModulePages = {t1}
  WorkerActors = {}
  MaxThreads = 2
  MaxTombstones = 3
  MaxEchoes = 0
  MaxWire = 2
  MaxStops = 3
  MaxPauses = 1
  MaxInterrupts = 1
INVARIANTS
  CtrlCNotMissed
CHECK_DEADLOCK FALSE
