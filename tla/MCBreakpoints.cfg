SPECIFICATION Spec
CONSTANTS
  NoSite = NoSite
  worker = worker
  k1 = k1
  k2 = k2
  bad = bad
  s1 = s1
  c1 = c1
  c2 = c2
  Actors = {page, worker}
  GapActors = {worker}
  Keys = {k1, k2, bad}
  Sites = {s1}
  SiteOf <- SharedSite
  NoKey = NoKey
  NoCall = NoCall
  CallId = {c1, c2}
  MaxErrors = 1
SYMMETRY Interchangeable
CONSTRAINT OneCallWithPeers
INVARIANTS
  Reconciled
  NoLateInstall
  NoCallIsStuck
CHECK_DEADLOCK FALSE
