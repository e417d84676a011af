CONSTANTS
  p1 = p1  p2 = p2  g1 = g1  amd = amd  arm = arm  None = None
  Plugins = {p1, p2}
  NameOf <- MCName
  Versions <- MCVersions
  Archs = {amd, arm}
  Required = {amd}
  Groups = {g1}
  GroupVersions <- MCGroupVersions
  Essentials = g1
  GroupMembers <- MCMembers
  Publishers = {b1}
  Kinds = {"release", "init", "add", "activate", "group", "groupActivate", "bundle", "upload"}
  Overrides = {FALSE}
  CentralInits <- MCCentral
  MaxParallelism = 2
  MaxJobs = 2
  MaxBundles = 2
  MaxFaults = 1
  MaxFlags = 1
SPECIFICATION Spec
CHECK_DEADLOCK FALSE
INVARIANTS RowsHaveImages ListedArePresent GroupsAreComplete BundlesStayListed
