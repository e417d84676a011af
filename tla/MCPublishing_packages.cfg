CONSTANTS
  p1 = p1  p2 = p2  g1 = g1  amd = amd  arm = arm  None = None
  Plugins = {p1, p2}
  NameOf <- MCName
  Versions <- MCVersions
  Archs = {amd, arm}
  Required = {amd}
  Groups = {g1}
  GroupVersions <- MCGroupVersions
  Essentials = g1
  GroupMembers <- MCMembers
  Publishers = {b1}
  Kinds = {"release"}
  Overrides = {FALSE}
  CentralInits <- MCEmptyRegistry
  MaxParallelism = 2
  MaxJobs = 1
  MaxBundles = 0
  MaxFaults = 0
  MaxFlags = 1
SPECIFICATION Spec
CHECK_DEADLOCK FALSE
INVARIANTS PackagesAreOwn
