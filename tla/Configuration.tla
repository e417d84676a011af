---------------------------- MODULE Configuration ----------------------------
(***************************************************************************)
(* The user's settings in the CLI configuration, as the commands under     *)
(* `tanzu config`, `ceip-participation` and `plugin source` change them:   *)
(* environment variables, feature flags, the CEIP choice and how the       *)
(* certificate of a host is verified.  The file belongs to                 *)
(* tanzu-plugin-runtime, whose calls read or change it as a whole under a  *)
(* lock; these are the values that the commands read and write.            *)
(***************************************************************************)
EXTENDS Integers

CONSTANTS
  Variables,     \* environment variables that the configuration may set
  Values,        \* their values
  Features,      \* feature flags, of the CLI and of plugins
  DefaultFlags,  \* those that the installed plugins declare, with their value
  CAs,           \* CA certificates
  None           \* no value, or an empty string

\* What a boolean flag may be spelled like.  Commands accept any case and keep the spelling.
Spellings == {"true", "false", "False"}
EqualFold(s, word) == s = word \/ (word = "false" /\ s = "False")
ParseBool(s) == s = "true"

Cert == [ca : CAs \cup {None}, skip : Spellings \cup {None}, insecure : Spellings \cup {None}]
NoCert == [ca |-> None, skip |-> None, insecure |-> None]

Config ==
  [env      : [Variables -> Values \cup {None}],
   features : [Features -> BOOLEAN \cup {None}],
   ceip     : BOOLEAN \cup {None},
   cert     : Cert \cup {None}]

ASSUME ConfigurationAssumption ==
  /\ None \notin Values /\ None \notin CAs /\ None \notin BOOLEAN /\ None \notin Spellings
  /\ None \notin Cert
  /\ DefaultFlags \in [Features -> BOOLEAN \cup {None}]

EmptyConfig ==
  [env      |-> [v \in Variables |-> None],
   features |-> [f \in Features |-> None],
   ceip     |-> None,
   cert     |-> None]

-----------------------------------------------------------------------------
(* Variables, features and CEIP *)

\* config set and config unset.
SetConfiguration(cfg, v, x) == [cfg EXCEPT !.env = [cfg.env EXCEPT ![v] = x]]
SetFeature(cfg, f, b) == [cfg EXCEPT !.features = [cfg.features EXCEPT ![f] = b]]
UnsetConfiguration(cfg, v) == [cfg EXCEPT !.env = [cfg.env EXCEPT ![v] = None]]
UnsetFeature(cfg, f) == [cfg EXCEPT !.features = [cfg.features EXCEPT ![f] = None]]

\* config init: flags of the installed plugins that are not set yet.
InitConfig(cfg) ==
  [cfg EXCEPT !.features = [f \in Features |-> IF cfg.features[f] = None THEN DefaultFlags[f]
                                               ELSE cfg.features[f]]]

SetCEIPOptIn(cfg, b) == [cfg EXCEPT !.ceip = b]

\* A variable of the configuration counts unless the shell sets it.
ConfigureEnvVariables(cfg, shell) ==
  [v \in Variables |-> IF shell[v] # None THEN shell[v] ELSE cfg.env[v]]

-----------------------------------------------------------------------------
(* Certificates *)

\* config.SetCert updates the fields that are set.
SetCert(cfg, c) ==
  LET old == IF cfg.cert = None THEN NoCert ELSE cfg.cert IN
  [cfg EXCEPT !.cert = [x \in DOMAIN c |-> IF c[x] = None THEN old[x] ELSE c[x]]]
DeleteCert(cfg) == [cfg EXCEPT !.cert = None]

\* The flags that config cert add takes.  Those not given are "false".
AddAccepts(f) ==
  /\ ~ (EqualFold(f.skip, "false") /\ EqualFold(f.insecure, "false") /\ f.ca = None)
  /\ ~ (~ EqualFold(f.skip, "false") /\ f.ca # None)
AddFlags == {f \in [ca : CAs \cup {None}, skip : Spellings, insecure : Spellings] : AddAccepts(f)}

\* The flags that config cert update takes.
validateUpdateOptions(f) ==
  /\ ~ ((f.skip = None \/ EqualFold(f.skip, "false")) /\ f.insecure = None /\ f.ca = None)
  /\ ~ (f.skip # None /\ ~ EqualFold(f.skip, "false") /\ f.ca # None)
UpdateFlags == {f \in Cert : validateUpdateOptions(f)}

\* A CA asks for verification; any --skip-cert-verify but "false" drops the CA.
updateCert(c, f) ==
  [ca       |-> IF f.skip # None /\ f.skip # "false" THEN None
                ELSE IF f.ca # None THEN f.ca ELSE c.ca,
   skip     |-> IF f.skip # None THEN f.skip
                ELSE IF f.ca # None THEN "false" ELSE c.skip,
   insecure |-> IF f.insecure # None THEN f.insecure ELSE c.insecure]

\* How a connection is verified: against the system's roots and ca, or not at all.
GetTLSConfig(cfg, tls) ==
  LET saved == IF cfg.cert = None THEN NoCert ELSE cfg.cert IN
  IF ParseBool(saved.skip) \/ tls.skip THEN [ca |-> None, skip |-> TRUE]
  ELSE [ca |-> IF tls.ca # None THEN tls.ca ELSE saved.ca, skip |-> FALSE]

=============================================================================
