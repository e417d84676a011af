CONSTANTS
  Missing = Missing
  Blank = Blank
  Torn = Torn
  Procs = {p1}
  Images = {u1}
  DefaultImage = u1
  Airgapped = {u1}
  Publishable = {u1}
  InitRegistry <- MCOneImage
  MaxRev = 2
  Kinds = {"list", "local", "update", "init", "daily", "invalidate"}
  Faults = {"crash", "fail", "metafail"}
  MaxFaults = 2
SPECIFICATION FairSpec
INVARIANTS RefreshedIsCurrent CentralConfigFollows
PROPERTIES Converges
