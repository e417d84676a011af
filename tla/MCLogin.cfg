SPECIFICATION FairSpec
CONSTANTS
  None = None
  Variables = {"org"}
  OrgVariable = "org"
  Orgs <- MCOrgs
  Values <- MCValues
  APIOrgs = {"o1"}
  DefaultOrg = "o1"
  Features = {"f"}
  DefaultFlags <- MCFlags
  CAs = {"ca1", "ca2"}
  IssuerCA = "ca1"
  Rotating = {"uaa"}
  Callbacks = {1, 2}
  Prompts = {"off", "reading"}
  TLSOptions <- MCTLS
  FixedPort = TRUE
  CertFlags <- MCCertFlags
  Earlier <- MCEarlier
  Kinds <- MCKinds
  Procs = {"p1", "p2"}
  MaxOps = 2
  MaxGrants = 4
  MaxNow = 1
  Life = 0
  Faults = {"crash", "fail", "lapse"}
  MaxFaults = 1
INVARIANTS TokensStayInOrg StoredRefreshWorks OrganizationKnown
PROPERTIES LoginKeepsToken LoginEnds
CHECK_DEADLOCK FALSE
