SPECIFICATION Spec
CONSTANTS
  n1 = n1  n2 = n2  o1 = o1  o2 = o2  org = org  r1 = r1
  c1 = c1  c2 = c2  ca1 = ca1  None = None
  Procs = {p1}
  p1 = p1  p2 = p2
  Names = {n1, n2}
  LoginNames = {n1}
  Orgs = {o1, o2}
  Resources = {org, r1}
  Org = org
  Clusters = {c1, c2}
  UserClusters = {c1}
  Certs = {ca1}
  Requests <- AllRequests
  TLSOptions <- NoTLSOptions
  StableModes = {FALSE, TRUE}
  SkipSync = FALSE
  Kinds = {"create", "login", "use", "unset", "delete", "resource", "token"}
  MaxOps = 6
  Faults = {"crash", "fail"}
  MaxFaults = 2
CHECK_DEADLOCK FALSE
INVARIANTS ActiveIsCurrent ContextsUsable LoginRepairs CurrentContextExists
