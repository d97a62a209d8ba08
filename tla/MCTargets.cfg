SPECIFICATION Spec
CONSTANTS
  NoPage = NoPage
  TopActors = {t1, t2, t3}
  WorkerActors = {w1, w2}
  MaxThreads = 3
  MaxTombstones = 4
  MaxEchoes = 1
  MaxWire = 2
SYMMETRY Interchangeable
INVARIANTS
  OneIncarnation
  NoResurrection
  SourcesAreCurrent
  AgreesWithFirefox
PROPERTIES
  StableTids
CHECK_DEADLOCK FALSE
