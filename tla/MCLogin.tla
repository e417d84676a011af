------------------------------- MODULE MCLogin -------------------------------
EXTENDS Login

MCOrgs == {"o1", "o2"}
MCValues == MCOrgs \cup {"elsewhere"}    \* an organization that the user is not in
MCTLS == {NoTLS, [ca |-> "ca1", skip |-> FALSE], [ca |-> None, skip |-> TRUE]}
MCCertFlags ==
  {[ca |-> "ca2", skip |-> "false", insecure |-> "false"], [ca |-> None, skip |-> "true", insecure |-> "false"],
   [ca |-> "ca1", skip |-> None, insecure |-> None], [ca |-> None, skip |-> "False", insecure |-> "true"]}
MCEarlier == {{"o2"}, {"tpsm"}}
MCFlags == [f \in Features |-> TRUE]
MCKinds == Commands
=============================================================================
