CONSTANTS
  Procs = {p1, p2}
  Inodes = {i1, i2, i3}
  NoProc = NoProc
  NoInode = NoInode
  NoPlugin = NoPlugin
  StandAlone = StandAlone
  Blank = Blank
  Torn = Torn
  Servers = {s1}
  ActiveContexts = {s1}
  Plugins <- MCTwoPlugins
  LegacyCatalogs <- MCLegacyTwo
  Kinds = {"list", "refresh", "install", "installTest", "delete", "clean"}
  Faults = {"crash", "writefail"}
  MaxOps = 1
SPECIFICATION Spec
INVARIANTS CatalogsWellFormed LocksAreAccountedFor
PROPERTIES RefinesStore
