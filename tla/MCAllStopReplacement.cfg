SPECIFICATION ReplacementSpec
CONSTANTS
  NoPage = NoPage
  NoActor = NoActor
  NoStop = NoStop
  TopActors = {t1, t2}
  WorkerActors = {w1}
  MaxThreads = 2
  MaxTombstones = 3
  MaxEchoes = 0
  MaxWire = 2
  MaxStops = 2
  MaxPauses = 2
  MaxInterrupts = 1
INVARIANTS
  CoherentAllStop
CHECK_DEADLOCK FALSE
