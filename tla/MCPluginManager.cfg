SPECIFICATION Spec
CONSTANTS
  ck = ck  ct = ct  tk = tk  tn = tn  s1 = s1  s2 = s2  arm = arm  amd = amd  g = g
  kc = kc  tz = tz
  None = None  Unknown = Unknown
  Plugins = {ck, ct, tk, tn}
  NameOf <- MCName
  TargetOf <- MCTarget
  SourceSeq <- MCSources
  Configured = {s1}
  Releases <- MCReleases
  ThisArch = arm
  FallbackArch = amd
  EssentialGroup = g
  Contexts = {kc, tz}
  TypeOf <- MCType
  Recommended <- MCRecommended
  LocalDirs <- MCLocal
  Requests <- MCRequests
  GroupRequests <- MCGroupRequests
  Kinds = {"install", "upgrade", "group", "local", "uninstall", "use", "unset", "sync", "clean", "search", "group search", "complete", "other"}
  MaxCommands = 2
INVARIANTS InstalledIsBest SyncSettles EssentialsSettle SuggestionsInstall SuggestionsSelect
CHECK_DEADLOCK FALSE
