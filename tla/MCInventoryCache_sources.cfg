CONSTANTS
  Missing = Missing
  Blank = Blank
  Torn = Torn
  Procs = {p1}
  Images = {u1, u2}
  DefaultImage = u1
  Airgapped = {u1}
  Publishable = {}
  InitRegistry <- MCAnyImages
  MaxRev = 2
  Kinds = {"list", "local", "update", "daily", "invalidate", "clean", "delete", "init"}
  Faults = {"crash", "fail", "configfail"}
  MaxFaults = 2
SPECIFICATION Spec
INVARIANTS TrustedCacheIsOwn
