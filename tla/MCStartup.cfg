CONSTANTS
  Procs = {p1, p2}
  NoProc = NoProc
  TanzuCtxs = {c1}
  K8sCtxs = {c2}
  Kinds = {"version", "config eula accept", "config eula show", "login"}
  Faults = {"crash", "writefail", "setfail"}
  MaxFaults = 1
  MaxRuns = 2
  Torn = Torn
  NoVersion = NoVersion
  Current <- MCCurrent
  Lists <- MCLists
SPECIFICATION StartupSpec
CHECK_DEADLOCK FALSE
INVARIANTS UpdatesAreComplete LoginsSurviveUpdates SourceIsMigrated EssentialsNeedAgreement
PROPERTIES KeysAreKept CommandsEnd
