CONSTANTS
  Procs = {p1, p2}
  NoProc = NoProc
  x1 = x1
  x2 = x2
  Plugins = {x1, x2}
  Target <- MCTarget
  Docs <- MCDocs
  Aliases <- MCAliases
  Remapped <- MCRemapped
  CommandLines <- MCCommandLines
  MaxRows = 1
  SendAt = 1
  Faults = {"crash", "dbfail"}
  MaxFaults = 1
  MaxRuns = 2
  Missing = Missing
  Blank = Blank
  Torn = Torn
SPECIFICATION TelemetrySpec
CHECK_DEADLOCK FALSE
INVARIANTS RowsAreBounded MetricsAreMasked TreesAreOwn
PROPERTIES LockIsGivenBack
