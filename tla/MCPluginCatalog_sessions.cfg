CONSTANTS
  Procs = {p1, p2}
  Inodes = {i1, i2, i3}
  NoProc = NoProc
  NoInode = NoInode
  NoPlugin = NoPlugin
  StandAlone = StandAlone
  Blank = Blank
  Torn = Torn
  Servers = {s1}
  ActiveContexts = {s1}
  Plugins <- MCPlugins
  LegacyCatalogs <- MCLegacy
  Kinds = {"list", "fix", "refresh", "install", "delete"}
  Faults = {}
  MaxOps = 1
SPECIFICATION FairSpec
INVARIANTS CommittedAtUnlock ListedAreRunnable
PROPERTIES UpdatesAreIsolated OperationsFinish
