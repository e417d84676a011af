----------------------------- MODULE LoginProofs -----------------------------
(***************************************************************************)
(* Theorems about module Login, for any number of processes, contexts,     *)
(* callbacks, faults and commands: a context keeps to its organization,    *)
(* renewals leave no context with a used up refresh token, a login of a    *)
(* self-managed platform learns its organization, and the browser is told  *)
(* the truth.  The invariant has a part about one process                  *)
(* (Coherent, SessionOK), one about who knows which refresh token          *)
(* (FreshOK, Pending) and one about the certificate settings (VerifiedOK). *)
(***************************************************************************)
EXTENDS Login, TLAPS

-----------------------------------------------------------------------------
(* The invariant *)

\* A refresh token and a token of an issuer.
RefreshOK(r) ==
  r \in Refresh /\ (r.issuer = "csp" => r.org \in Orgs) /\ (r.issuer = "uaa" => r.org = SelfManaged)
TokenOf(idp, t) == t \in Token /\ RefreshOK(t.refresh) /\ t.refresh.org = t.org /\ t.refresh.issuer = idp

\* A context as it is stored under a name.
Named(n, c) ==
  /\ c \in Context /\ TokenOf(c.idp, c.auth)
  /\ n \in Orgs => c.idp = "csp" /\ c.org = n /\ c.auth.org = n
  /\ n = "tpsm" => c.idp = "uaa"
  /\ n = "tmc" => c.idp = "csp" /\ c.type = "mission-control" /\ c.org = c.auth.org
  /\ c.idp = "csp" /\ (c.kind = "api-token" \/ n = "tmc") => c.kind = "api-token" /\ c.auth.refresh.n = 0

\* Where the commands of a kind are.
Reachable(kind) ==
  CASE kind = "login" -> {"endpoint", "refresh", "listen", "wait", "check", "close", "granted", "metadata", "add"}
    [] kind = "tmc" -> {"endpoint", "granted", "add"}
    [] kind = "token" -> {"get", "refresh", "listen", "wait", "check", "close", "granted", "set"}
    [] kind = "resource" -> {"get", "set"}
    [] kind = "apitoken" -> {"listen", "wait", "check", "close", "granted"}
    [] kind \in {"certadd", "certupdate", "certdelete"} -> {"certdelete", "certset"}
    [] OTHER -> {"idle"}

\* The tokens that a process got and that nobody else has seen.
Tokens(s) == {s.tok, s.sess.token, s.sess.got} \ {None}
Held(s) == {t.refresh : t \in Tokens(s)}

\* A process on the way from an issuer to the configuration.
Coherent(s) ==
  /\ s.pc \in Reachable(s.kind)
  /\ s.pc = "idle" => s = Idle
  /\ s.tls \in TLSOptions \cup {NoTLS}
  /\ s.pc = "certset" \/ s.kind = "certupdate" => s.cert # None
  /\ s.pc = "get" => s.idp = "csp" /\ s.refresh = None
  /\ s.kind \in {"token", "resource", "tmc"} => s.name # None
  /\ s.kind = "tmc" => s.name = "tmc" /\ s.idp = "csp" /\ s.api # None
  /\ s.kind = "apitoken" => s.idp = "uaa"
  /\ s.api # None => /\ RefreshOK(s.api) /\ s.api.issuer = s.idp /\ (s.idp = "csp" => s.api.n = 0)
                     /\ s.kind \in {"login", "tmc"}
  /\ s.api # None /\ s.idp = "csp" => /\ s.pc \in {"endpoint", "granted", "metadata", "add"}
                                      /\ \A t \in Tokens(s) : t.refresh.n = 0
  /\ s.pc = "refresh" => /\ s.refresh # None /\ RefreshOK(s.refresh) /\ s.refresh.issuer = s.idp
                         /\ s.kind = "login" => s.suppress
                         /\ s.kind = "token" => s.refresh = s.ctx.auth.refresh
  /\ s.pc \in {"endpoint", "get", "refresh", "listen"} => s.tok = None
  /\ ~ (s.pc \in {"wait", "check", "close"}) => s.sess = NoSession
  /\ \A t \in Tokens(s) : TokenOf(s.idp, t)
  /\ s.pc \in {"granted", "metadata", "add"} \/ (s.pc = "set" /\ s.kind = "token") => s.tok # None
  /\ s.pc \in {"metadata", "add", "set"} => s.ctx # None /\ s.name # None /\ Named(s.name, s.ctx)
  /\ s.pc = "metadata" => s.name # "tmc"
  /\ s.pc \in {"metadata", "add"} \/ (s.pc = "set" /\ s.kind = "token") => s.ctx.auth = s.tok
  /\ s.kind = "token" /\ s.pc # "get" =>
       /\ s.ctx # None /\ Named(s.name, s.ctx) /\ s.ctx.idp = s.idp /\ s.ctx.type = "tanzu"
       /\ s.idp = "csp" =>
            /\ s.pc \in {"refresh", "listen", "wait", "check", "close"} =>
                 s.org = s.ctx.org /\ s.ctx.kind # "api-token"
            /\ \A t \in Tokens(s) : t.org = s.ctx.org
            /\ s.ctx.kind = "api-token" => \A t \in Tokens(s) : t.refresh.n = 0

\* The goroutines of a login with a browser.
Fine(h, pc, tok) ==
  /\ \A c \in Callbacks : h.cb[c] \in {"locked", "answer"} => h.mutex = c
  /\ \A c \in Callbacks : h.cb[c] = "locked" /\ ~ h.prompted => h.token = None
  /\ h.prompt \in {"pasted", "store"} => h.prompted
  /\ h.told /\ ~ h.prompted => h.token # None
  /\ pc \in {"check", "close"} => h.complete
  /\ pc = "check" /\ ~ h.prompted => h.token # None
  /\ pc = "close" /\ h.told /\ ~ h.prompted => tok # None
SessionOK(s) == Fine(s.sess, s.pc, s.tok)

\* The issuers.
IssuerOK ==
  /\ issuer \in [given : 0..MaxGrants, spent : SUBSET Refresh, lapsed : SUBSET Refresh, api : SUBSET Refresh]
  /\ \A r \in issuer.api : RefreshOK(r) /\ (r.issuer = "csp" => r.n = 0)

Rotates(r) == r.n > 0 /\ r.issuer \in Rotating

\* Refresh tokens are numbered by when they were given out.
NumbersOK ==
  /\ \A r \in issuer.api \cup issuer.spent : r.n <= issuer.given
  /\ \A n \in Names : ctxs[n] # None => ctxs[n].auth.refresh.n <= issuer.given
  /\ \A p \in Procs :
       /\ \A r \in Held(proc[p]) : r.n <= issuer.given
       /\ proc[p].refresh # None => proc[p].refresh.n <= issuer.given
       /\ proc[p].api # None => proc[p].api.n <= issuer.given
       /\ proc[p].ctx # None => proc[p].ctx.auth.refresh.n <= issuer.given
  /\ \A r \in issuer.spent : Rotates(r)

\* A refresh token that is to be replaced when it is used is known only to its holder
\* until it is stored or shown, and what is shown is not what is stored.
FreshOK ==
  /\ \A p \in Procs : \A r \in Held(proc[p]) : Rotates(r) =>
       /\ r \notin issuer.api \cup issuer.spent
       /\ \A n \in Names : ctxs[n] # None => ctxs[n].auth.refresh # r
       /\ \A q \in Procs : proc[q].refresh # r /\ proc[q].api # r /\ (q # p => r \notin Held(proc[q]))
  /\ \A n \in Names : ctxs[n] # None /\ Rotates(ctxs[n].auth.refresh) =>
       /\ ctxs[n].auth.refresh \notin issuer.api
       /\ \A q \in Procs :
            /\ proc[q].api # ctxs[n].auth.refresh
            /\ proc[q].kind # "token" => proc[q].refresh # ctxs[n].auth.refresh

\* Who used up the refresh token of a context is about to store the next one.
Renewing(p, n) == proc[p].kind = "token" /\ proc[p].name = n /\ proc[p].pc \in {"granted", "set"}
Pending ==
  \A n \in Names : ctxs[n] # None /\ ctxs[n].auth.refresh \in issuer.spent => \E p \in Procs : Renewing(p, n)

\* The flags that users give name the CA of the issuer.
FlagsAreRight == \A t \in TLSOptions : t.ca # None => IssuerCA \in {None, t.ca}

\* What a login was verified with is there for the requests after it.
KnownOrg(s) ==
  /\ s.kind \in {"token", "resource"} /\ s.ctx # None => s.ctx.org # None
  /\ s.pc \in {"metadata", "add"} => s.ctx.org # None
VerifiedOK ==
  /\ \A n \in Names : ctxs[n] # None => ctxs[n].org # None
  /\ \A p \in Procs :
       /\ KnownOrg(proc[p])
       /\ proc[p].kind = "login" /\ proc[p].idp = "uaa" /\ Tokens(proc[p]) # {} =>
            Reaches("uaa", IF proc[p].tok # None THEN NoTLS ELSE proc[p].tls)

IInv ==
  /\ TypeOK
  /\ now \in Nat /\ faults \in Nat /\ crossed \in BOOLEAN /\ IssuerOK
  /\ \A n \in Names : ctxs[n] # None => Named(n, ctxs[n])
  /\ \A p \in Procs : Coherent(proc[p]) /\ SessionOK(proc[p])
  /\ NumbersOK
  /\ ~ crossed => FreshOK /\ Pending
  /\ ~ crossed /\ FlagsAreRight => VerifiedOK

-----------------------------------------------------------------------------
(* Types of settings, and what a login does to them *)

LEMMA NoTLSType == NoTLS \in [ca : CAs \cup {None}, skip : BOOLEAN]
BY DEF NoTLS

LEMMA IdleType == Idle \in ProcState /\ NoSession \in Session
<1>1. NoSession \in Session
  BY DEF NoSession, Session
<1>. HIDE DEF NoSession
<1> QED BY <1>1, NoTLSType DEF Idle, ProcState, PCs, Idps

LEMMA IdleIsCoherent == Coherent(Idle) /\ SessionOK(Idle) /\ Tokens(Idle) = {} /\ Held(Idle) = {} /\ KnownOrg(Idle)
<1>1. /\ Idle.pc = "idle" /\ Idle.kind = "none" /\ Idle.tls = NoTLS /\ Idle.api = None /\ Idle.refresh = None
      /\ Idle.tok = None /\ Idle.sess = NoSession
  BY DEF Idle
<1>2. /\ NoSession.token = None /\ NoSession.got = None /\ ~ NoSession.told /\ NoSession.prompt = "off"
      /\ \A c \in Callbacks : NoSession.cb[c] = "none"
  BY DEF NoSession
<1>3. Tokens(Idle) = {}
  BY <1>1, <1>2 DEF Tokens
<1>4. Held(Idle) = {}
  BY <1>3 DEF Held
<1>5. Coherent(Idle)
  BY <1>1, <1>3 DEF Coherent, Reachable
<1>6. SessionOK(Idle)
  BY <1>1, <1>2 DEF SessionOK, Fine
<1>7. KnownOrg(Idle)
  BY <1>1 DEF KnownOrg
<1> QED BY <1>3, <1>4, <1>5, <1>6, <1>7

\* Settings keep their shape.
LEMMA SetCertType ==
  ASSUME NEW cfg \in Config, NEW c \in Cert
  PROVE  /\ SetCert(cfg, c) \in Config /\ SetCert(cfg, c).cert \in Cert
         /\ SetCert(cfg, c).cert = [ca |-> IF c.ca = None THEN (IF cfg.cert = None THEN None ELSE cfg.cert.ca) ELSE c.ca,
                                    skip |-> IF c.skip = None THEN (IF cfg.cert = None THEN None ELSE cfg.cert.skip) ELSE c.skip,
                                    insecure |-> IF c.insecure = None THEN (IF cfg.cert = None THEN None ELSE cfg.cert.insecure)
                                                 ELSE c.insecure]
<1>. DEFINE old == IF cfg.cert = None THEN NoCert ELSE cfg.cert
            new == [x \in DOMAIN c |-> IF c[x] = None THEN old[x] ELSE c[x]]
<1>1. old \in Cert /\ (cfg.cert = None => old = NoCert) /\ (cfg.cert # None => old = cfg.cert)
  BY DEF Config, Cert, NoCert
<1>2. DOMAIN c = {"ca", "skip", "insecure"}
  BY DEF Cert
<1>. HIDE DEF old
<1>3. new = [ca |-> IF c.ca = None THEN old.ca ELSE c.ca, skip |-> IF c.skip = None THEN old.skip ELSE c.skip,
             insecure |-> IF c.insecure = None THEN old.insecure ELSE c.insecure]
  BY <1>2
<1>4. new \in Cert
  BY <1>1, <1>3 DEF Cert
<1>5. SetCert(cfg, c) = [cfg EXCEPT !.cert = new]
  BY DEF SetCert, old
<1>. HIDE DEF new
<1>6. [cfg EXCEPT !.cert = new] \in Config /\ [cfg EXCEPT !.cert = new].cert = new
  BY <1>4 DEF Config
<1>7. old.ca = (IF cfg.cert = None THEN None ELSE cfg.cert.ca) /\ old.skip = (IF cfg.cert = None THEN None ELSE cfg.cert.skip)
      /\ old.insecure = (IF cfg.cert = None THEN None ELSE cfg.cert.insecure)
  BY <1>1 DEF NoCert
<1> QED BY <1>3, <1>4, <1>5, <1>6, <1>7

LEMMA CertMapType ==
  ASSUME NEW cfg \in Config, NEW t \in [ca : CAs \cup {None}, skip : BOOLEAN]
  PROVE  updateCertMap(cfg, t) \in Config
<1>. DEFINE c == [ca |-> t.ca, skip |-> IF t.skip THEN "true" ELSE "false",
                  insecure |-> IF cfg.cert = None THEN None ELSE cfg.cert.insecure]
<1>1. c \in Cert
  BY DEF Config, Cert, Spellings
<1>2. updateCertMap(cfg, t) \in {cfg, SetCert(cfg, c)}
  BY DEF updateCertMap
<1>. HIDE DEF c
<1> QED BY <1>1, <1>2, SetCertType

\* How the issuer's certificate is verified under given settings.
ReachesUnder(cfg, t) == LET v == GetTLSConfig(cfg, t) IN v.skip \/ IssuerCA \in {None, v.ca}

LEMMA ReachesIsUnder == \A t : Reaches("uaa", t) = ReachesUnder(config, t)
BY DEF Reaches, ReachesUnder

\* A connection is not verified, or with the CA of the flags, or with the saved one.
LEMMA Verification ==
  ASSUME NEW cfg, NEW t
  PROVE  ReachesUnder(cfg, t) <=>
           \/ t.skip \/ (cfg.cert # None /\ cfg.cert.skip = "true")
           \/ IssuerCA = None
           \/ t.ca # None /\ IssuerCA = t.ca
           \/ t.ca = None /\ cfg.cert # None /\ IssuerCA = cfg.cert.ca
<1>. DEFINE saved == IF cfg.cert = None THEN NoCert ELSE cfg.cert
<1>1. cfg.cert = None => saved.ca = None /\ saved.skip = None /\ saved.skip # "true"
  BY ConfigurationAssumption DEF NoCert, Spellings
<1>2. cfg.cert # None => saved = cfg.cert
  OBVIOUS
<1>3. GetTLSConfig(cfg, t) = IF saved.skip = "true" \/ t.skip THEN [ca |-> None, skip |-> TRUE]
                             ELSE [ca |-> IF t.ca # None THEN t.ca ELSE saved.ca, skip |-> FALSE]
  BY DEF GetTLSConfig, ParseBool
<1>. HIDE DEF saved
<1>4. CASE saved.skip = "true" \/ t.skip
  BY <1>1, <1>2, <1>3, <1>4 DEF ReachesUnder
<1>5. CASE ~ (saved.skip = "true" \/ t.skip)
  BY <1>1, <1>2, <1>3, <1>5 DEF ReachesUnder
<1> QED BY <1>4, <1>5

\* Flags that name the right CA, once saved, make every request reach the issuer that
\* reached it before, and those without flags as well.
LEMMA CertMapReaches ==
  ASSUME FlagsAreRight, NEW cfg \in Config, NEW t \in TLSOptions \cup {NoTLS}
  PROVE  /\ t # NoTLS => ReachesUnder(updateCertMap(cfg, t), NoTLS)
         /\ \A u \in TLSOptions \cup {NoTLS} :
              ReachesUnder(cfg, u) => ReachesUnder(updateCertMap(cfg, t), u)
<1>. DEFINE c == [ca |-> t.ca, skip |-> IF t.skip THEN "true" ELSE "false",
                  insecure |-> IF cfg.cert = None THEN None ELSE cfg.cert.insecure]
            new == updateCertMap(cfg, t)
            Saved == t # NoTLS => /\ new.cert # None
                                  /\ t.skip => new.cert.skip = "true"
                                  /\ t.ca # None => new.cert.ca = t.ca
<1>1. t \in [ca : CAs \cup {None}, skip : BOOLEAN]
  BY LoginAssumption, NoTLSType
<1>2. c \in Cert
  BY <1>1 DEF Config, Cert, Spellings
<1>3. t # NoTLS => t.skip \/ t.ca # None
  BY <1>1 DEF NoTLS
<1>4. c.ca = t.ca /\ c.skip = (IF t.skip THEN "true" ELSE "false") /\ c.skip # None
  BY ConfigurationAssumption DEF Spellings
<1>6. Saved
  <2>1. CASE t = NoTLS \/ (cfg.cert # None /\ cfg.cert.ca = c.ca /\ cfg.cert.skip = c.skip)
    <3>1. new = cfg
      BY <2>1 DEF updateCertMap
    <3> QED BY <1>4, <2>1, <3>1
  <2>2. CASE ~ (t = NoTLS \/ (cfg.cert # None /\ cfg.cert.ca = c.ca /\ cfg.cert.skip = c.skip))
    <3>1. new = SetCert(cfg, c)
      BY <2>2 DEF updateCertMap
    <3>. HIDE DEF c, new
    <3>2. new.cert = [ca |-> IF c.ca = None THEN (IF cfg.cert = None THEN None ELSE cfg.cert.ca) ELSE c.ca,
                      skip |-> IF c.skip = None THEN (IF cfg.cert = None THEN None ELSE cfg.cert.skip) ELSE c.skip,
                      insecure |-> IF c.insecure = None THEN (IF cfg.cert = None THEN None ELSE cfg.cert.insecure)
                                   ELSE c.insecure]
      BY <3>1, <1>2, SetCertType
    <3>3. new.cert \in Cert
      BY <3>1, <1>2, SetCertType
    <3>4. new.cert.skip = c.skip /\ (c.ca # None => new.cert.ca = c.ca)
      BY <3>2, <1>4
    <3>5. new.cert # None
      BY <3>3, ConfigurationAssumption
    <3> QED BY <1>4, <3>4, <3>5
  <2> QED BY <2>1, <2>2
<1>7. t = NoTLS => new = cfg
  BY DEF updateCertMap
<1>. HIDE DEF new, c
<1>8. t # NoTLS => ReachesUnder(new, NoTLS)
  <2>1. NoTLS.ca = None /\ ~ NoTLS.skip
    BY DEF NoTLS
  <2>2. t # NoTLS /\ t.skip => ReachesUnder(new, NoTLS)
    BY <1>6, Verification
  <2>3. t # NoTLS /\ t.ca # None => ReachesUnder(new, NoTLS)
    <3>1. t # NoTLS => t \in TLSOptions
      OBVIOUS
    <3> QED BY <1>6, <2>1, <3>1, Verification DEF FlagsAreRight
  <2> QED BY <1>3, <2>2, <2>3
<1>9. ASSUME NEW u \in TLSOptions, u # NoTLS PROVE ReachesUnder(new, u)
  <2>1. u \in [ca : CAs \cup {None}, skip : BOOLEAN]
    BY LoginAssumption
  <2>2. u.skip \/ u.ca # None
    BY <1>9, <2>1 DEF NoTLS
  <2> QED BY <2>2, Verification DEF FlagsAreRight
<1> QED BY <1>7, <1>8, <1>9 DEF new

-----------------------------------------------------------------------------
(* What a step of one process leaves alone *)

\* A process in state s knows no refresh token that p does not hold or others knew.
Quiet(p, s) ==
  /\ \A r \in Held(s) : r \in Held(proc[p]) \/ (~ Rotates(r) /\ r.n <= issuer.given)
  /\ s.refresh # None =>
       \/ s.refresh = proc[p].refresh /\ (s.kind = "token" \/ proc[p].kind # "token")
       \/ s.refresh = proc[p].api
       \/ s.kind = "token" /\ \E n \in Names : ctxs[n] # None /\ s.refresh = ctxs[n].auth.refresh
  /\ s.api # None => s.api = proc[p].api \/ s.api \in issuer.api
  /\ s.ctx # None => \/ s.ctx = proc[p].ctx
                     \/ s.ctx.auth.refresh \in Held(proc[p])
                     \/ \E n \in Names : ctxs[n] # None /\ s.ctx = ctxs[n]

\* It goes on with a renewal.
StillRenews(p, s) == \A n \in Names : Renewing(p, n) => s.kind = "token" /\ s.name = n /\ s.pc \in {"granted", "set"}

\* What it got was verified.
Verified(s) ==
  /\ KnownOrg(s)
  /\ s.kind = "login" /\ s.idp = "uaa" /\ Tokens(s) # {} =>
       Reaches("uaa", IF s.tok # None THEN NoTLS ELSE s.tls)

LEMMA Becomes ==
  ASSUME TypeOK, NEW p \in Procs, NEW s, Become(p, s)
  PROVE  \A q \in Procs : proc'[q] = IF q = p THEN s ELSE proc[q]
BY DEF Become, TypeOK

LEMMA KeepLocal ==
  ASSUME IInv, NEW p \in Procs, NEW s \in ProcState, Coherent(s), SessionOK(s), Become(p, s)
  PROVE  /\ proc' \in [Procs -> ProcState]
         /\ \A q \in Procs : Coherent(proc'[q]) /\ SessionOK(proc'[q])
<1>1. TypeOK
  BY DEF IInv
<1>2. proc' \in [Procs -> ProcState]
  BY <1>1 DEF Become, TypeOK
<1>3. \A q \in Procs : proc'[q] = IF q = p THEN s ELSE proc[q]
  BY <1>1, Becomes
<1>4. \A q \in Procs : Coherent(proc[q]) /\ SessionOK(proc[q])
  BY DEF IInv
<1>5. ASSUME NEW q \in Procs PROVE Coherent(proc'[q]) /\ SessionOK(proc'[q])
  BY <1>3, <1>4
<1> QED BY <1>2, <1>5

LEMMA KeepNumbers ==
  ASSUME IInv, NEW p \in Procs, NEW s \in ProcState, Become(p, s), Quiet(p, s), UNCHANGED <<ctxs, issuer>>
  PROVE  NumbersOK'
<1>1. \A q \in Procs : proc'[q] = IF q = p THEN s ELSE proc[q]
  BY Becomes DEF IInv
<1>2. NumbersOK
  BY DEF IInv
<1>3. \A r \in Held(s) : r.n <= issuer.given
  BY <1>2 DEF NumbersOK, Quiet
<1>4. s.refresh # None => s.refresh.n <= issuer.given
  BY <1>2 DEF NumbersOK, Quiet
<1>5. s.api # None => s.api.n <= issuer.given
  BY <1>2 DEF NumbersOK, Quiet
<1>6. s.ctx # None => s.ctx.auth.refresh.n <= issuer.given
  BY <1>2 DEF NumbersOK, Quiet
<1>7. ASSUME NEW q \in Procs
      PROVE  /\ \A r \in Held(proc'[q]) : r.n <= issuer.given
             /\ proc'[q].refresh # None => proc'[q].refresh.n <= issuer.given
             /\ proc'[q].api # None => proc'[q].api.n <= issuer.given
             /\ proc'[q].ctx # None => proc'[q].ctx.auth.refresh.n <= issuer.given
  <2>1. CASE q = p
    BY <1>1, <1>3, <1>4, <1>5, <1>6, <2>1
  <2>2. CASE q # p
    BY <1>1, <1>2, <2>2 DEF NumbersOK
  <2> QED BY <2>1, <2>2
<1> QED BY <1>2, <1>7 DEF NumbersOK

LEMMA KeepFresh ==
  ASSUME IInv, FreshOK, NEW p \in Procs, NEW s \in ProcState, Become(p, s), Quiet(p, s), Coherent(s),
         UNCHANGED <<ctxs, issuer>>
  PROVE  FreshOK'
<1>1. \A q \in Procs : proc'[q] = IF q = p THEN s ELSE proc[q]
  BY Becomes DEF IInv
<1>2. \A r \in Held(s) : Rotates(r) => r \in Held(proc[p])
  BY DEF Quiet
<1>3. \A q \in Procs : \A r \in Held(proc'[q]) : Rotates(r) => r \in Held(proc[q])
  BY <1>1, <1>2
<1>4. ASSUME NEW q \in Procs, NEW r \in Held(proc'[q]), Rotates(r)
      PROVE  /\ r \notin issuer.api \cup issuer.spent
             /\ \A n \in Names : ctxs[n] # None => ctxs[n].auth.refresh # r
             /\ \A o \in Procs : proc'[o].refresh # r /\ proc'[o].api # r /\ (o # q => r \notin Held(proc'[o]))
  <2>1. r \in Held(proc[q])
    BY <1>3, <1>4
  <2>2. /\ r \notin issuer.api \cup issuer.spent
        /\ \A n \in Names : ctxs[n] # None => ctxs[n].auth.refresh # r
        /\ \A o \in Procs : proc[o].refresh # r /\ proc[o].api # r /\ (o # q => r \notin Held(proc[o]))
    BY <1>4, <2>1 DEF FreshOK
  <2>3. r # None
    <3>1. PICK x \in Tokens(proc[q]) : r = x.refresh
      BY <2>1 DEF Held
    <3>2. RefreshOK(r)
      BY <3>1 DEF IInv, Coherent, TokenOf
    <3> QED BY <3>2, LoginAssumption DEF RefreshOK
  <2>4. s.refresh # r /\ s.api # r
    BY <2>2, <2>3 DEF Quiet
  <2>5. \A o \in Procs : proc'[o].refresh # r /\ proc'[o].api # r
    BY <1>1, <2>2, <2>4
  <2>6. \A o \in Procs : o # q => r \notin Held(proc'[o])
    BY <1>3, <1>4, <2>2
  <2> QED BY <2>2, <2>5, <2>6
<1>5. ASSUME NEW n \in Names, ctxs[n] # None, Rotates(ctxs[n].auth.refresh)
      PROVE  /\ ctxs[n].auth.refresh \notin issuer.api
             /\ \A q \in Procs : /\ proc'[q].api # ctxs[n].auth.refresh
                                 /\ proc'[q].kind # "token" => proc'[q].refresh # ctxs[n].auth.refresh
  <2>. DEFINE r == ctxs[n].auth.refresh
  <2>1. /\ r \notin issuer.api
        /\ \A q \in Procs : proc[q].api # r /\ (proc[q].kind # "token" => proc[q].refresh # r)
    BY <1>5 DEF FreshOK
  <2>2. r # None
    <3>1. Named(n, ctxs[n])
      BY <1>5 DEF IInv
    <3>2. RefreshOK(r)
      BY <3>1 DEF Named, TokenOf
    <3> QED BY <3>2, LoginAssumption DEF RefreshOK
  <2>. HIDE DEF r
  <2>3. s.api # r
    BY <2>1, <2>2 DEF Quiet
  <2>4. s.kind # "token" => s.refresh # r
    BY <2>1, <2>2 DEF Quiet
  <2>5. \A q \in Procs : proc'[q].api # r /\ (proc'[q].kind # "token" => proc'[q].refresh # r)
    BY <1>1, <2>1, <2>3, <2>4
  <2> QED BY <2>1, <2>5 DEF r
<1>6. issuer' = issuer /\ ctxs' = ctxs
  OBVIOUS
<1> QED BY <1>4, <1>5, <1>6 DEF FreshOK, Rotates

LEMMA KeepPending ==
  ASSUME IInv, Pending, NEW p \in Procs, NEW s, Become(p, s), StillRenews(p, s), UNCHANGED <<ctxs, issuer>>
  PROVE  Pending'
<1>1. \A q \in Procs : proc'[q] = IF q = p THEN s ELSE proc[q]
  BY Becomes DEF IInv
<1>2. \A n \in Names, q \in Procs : Renewing(q, n) => Renewing(q, n)'
  BY <1>1 DEF Renewing, StillRenews
<1> QED BY <1>2 DEF Pending

LEMMA KeepVerified ==
  ASSUME IInv, VerifiedOK, NEW p \in Procs, NEW s \in ProcState, Become(p, s), Verified(s),
         UNCHANGED <<config, ctxs>>
  PROVE  VerifiedOK'
<1>1. \A q \in Procs : proc'[q] = IF q = p THEN s ELSE proc[q]
  BY Becomes DEF IInv
<1>3. \A q \in Procs : Verified(proc[q])
  BY DEF VerifiedOK, Verified
<1>4. \A q \in Procs : Verified(proc'[q])
  BY <1>1, <1>3
<1>5. ASSUME NEW q \in Procs
      PROVE  /\ KnownOrg(proc'[q])
             /\ proc'[q].kind = "login" /\ proc'[q].idp = "uaa" /\ Tokens(proc'[q]) # {} =>
                  Reaches("uaa", IF proc[q].tok # None THEN NoTLS ELSE proc[q].tls)'
  <2>1. Reaches("uaa", IF proc[q].tok # None THEN NoTLS ELSE proc[q].tls)'
          = ReachesUnder(config, IF proc'[q].tok # None THEN NoTLS ELSE proc'[q].tls)
    BY DEF Reaches, ReachesUnder
  <2>2. Reaches("uaa", IF proc'[q].tok # None THEN NoTLS ELSE proc'[q].tls)
          = ReachesUnder(config, IF proc'[q].tok # None THEN NoTLS ELSE proc'[q].tls)
    BY DEF Reaches, ReachesUnder
  <2> QED BY <1>4, <2>1, <2>2 DEF Verified
<1>6. \A n \in Names : ctxs'[n] # None => ctxs'[n].org # None
  BY DEF VerifiedOK
<1> QED BY <1>5, <1>6 DEF VerifiedOK

\* A step of one process that changes neither the contexts nor the issuers.
LEMMA Keep ==
  ASSUME IInv, NEW p \in Procs, NEW s \in ProcState, Become(p, s), Coherent(s), SessionOK(s), Quiet(p, s),
         UNCHANGED <<ctxs, active, issuer, now>>, config' \in Config,
         faults' \in Nat, crossed' \in BOOLEAN, crossed => crossed',
         ~ crossed' => StillRenews(p, s),
         ~ crossed' /\ FlagsAreRight => VerifiedOK'
  PROVE  IInv'
<1>1. proc' \in [Procs -> ProcState] /\ \A q \in Procs : Coherent(proc'[q]) /\ SessionOK(proc'[q])
  BY KeepLocal
<1>2. TypeOK'
  BY <1>1 DEF IInv, TypeOK
<1>3. NumbersOK'
  BY KeepNumbers
<1>4. ~ crossed' => FreshOK' /\ Pending'
  BY KeepFresh, KeepPending DEF IInv
<1>5. now' \in Nat /\ IssuerOK' /\ \A n \in Names : ctxs'[n] # None => Named(n, ctxs'[n])
  BY DEF IInv, IssuerOK
<1>6. FlagsAreRight' = FlagsAreRight
  OBVIOUS
<1> QED BY <1>1, <1>2, <1>3, <1>4, <1>5 DEF IInv

\* One that changes nothing else either.
LEMMA KeepAll ==
  ASSUME IInv, NEW p \in Procs, NEW s \in ProcState, Become(p, s), Coherent(s), SessionOK(s), Quiet(p, s),
         UNCHANGED <<config, ctxs, active, issuer, now>>,
         faults' = faults \/ faults' = faults + 1, crossed' = crossed \/ crossed' = TRUE,
         ~ crossed' => StillRenews(p, s),
         ~ crossed' /\ FlagsAreRight => Verified(s)
  PROVE  IInv'
<1>0. config \in Config /\ faults \in Nat /\ crossed \in BOOLEAN
  BY DEF IInv, TypeOK
<1>1. config' \in Config /\ faults' \in Nat /\ crossed' \in BOOLEAN /\ (crossed => crossed')
  <2>1. config' \in Config /\ faults' \in Nat
    BY <1>0
  <2>2. crossed' \in BOOLEAN /\ (crossed => crossed')
    BY <1>0
  <2> QED BY <2>1, <2>2
<1>2. ~ crossed' /\ FlagsAreRight => VerifiedOK'
  BY <1>1, KeepVerified DEF IInv
<1> QED BY <1>1, <1>2, Keep

\* A command that ends.
LEMMA IdleIsQuiet ==
  ASSUME NEW p \in Procs
  PROVE  Quiet(p, Idle) /\ Verified(Idle) /\ Idle \in ProcState /\ Coherent(Idle) /\ SessionOK(Idle)
<1>1. Idle.refresh = None /\ Idle.api = None /\ Idle.ctx = None
  BY DEF Idle
<1>2. Quiet(p, Idle)
  BY <1>1, IdleIsCoherent DEF Quiet
<1> QED BY <1>2, IdleIsCoherent, IdleType DEF Verified

LEMMA ReturnKeeps ==
  ASSUME IInv, NEW p \in Procs, Return(p), UNCHANGED <<config, ctxs, active, issuer, now>>,
         faults' = faults \/ faults' = faults + 1, crossed' = crossed \/ crossed' = TRUE,
         ~ crossed' => ~ (proc[p].kind = "token" /\ proc[p].pc \in {"granted", "set"})
  PROVE  IInv'
<1>1. Become(p, Idle)
  BY DEF Return
<1>2. ~ crossed' => StillRenews(p, Idle)
  BY DEF StillRenews, Renewing
<1> QED BY <1>1, <1>2, IdleIsQuiet, KeepAll

-----------------------------------------------------------------------------
(* Commands that begin *)

LEMMA StartStep ==
  ASSUME IInv, NEW p \in Procs, NEW kind \in Commands, NEW s, Start(p, kind, s),
         NEW u \in ProcState, u = [s EXCEPT !.kind = kind], s # Idle => Coherent(u) /\ SessionOK(u) /\ Quiet(p, u) /\ Verified(u)
  PROVE  IInv'
<1>1. proc[p].pc = "idle"
  BY DEF Start, At
<1>2. UNCHANGED <<config, ctxs, active, issuer, now, faults, crossed>>
  BY DEF Start
<1>3. CASE s = Idle
  <2>1. Return(p)
    BY <1>3 DEF Start, Return
  <2> QED BY <1>1, <1>2, <2>1, ReturnKeeps
<1>4. CASE s # Idle
  <2>1. Become(p, u)
    BY <1>4 DEF Start
  <2>2. StillRenews(p, u)
    BY <1>1 DEF StillRenews, Renewing
  <2> QED BY <1>2, <1>4, <2>1, <2>2, KeepAll
<1> QED BY <1>3, <1>4

\* A process that just began knows nothing but an API token.
LEMMA Started ==
  ASSUME NEW p \in Procs, NEW u \in ProcState,
         u.tok = None, u.sess = NoSession, u.refresh = None, u.ctx = None, u.tls \in TLSOptions \cup {NoTLS},
         u.pc \in Reachable(u.kind), u.pc \in {"endpoint", "get", "listen", "certset", "certdelete"},
         u.kind \in {"token", "resource"} => u.pc = "get" /\ u.name # None,
         u.kind = "tmc" => u.name = "tmc" /\ u.idp = "csp" /\ u.api # None,
         u.kind = "apitoken" => u.idp = "uaa",
         u.pc = "certset" \/ u.kind = "certupdate" => u.cert # None,
         u.pc = "get" => u.idp = "csp",
         u.api # None => /\ RefreshOK(u.api) /\ u.api.issuer = u.idp /\ (u.idp = "csp" => u.api.n = 0)
                         /\ u.kind \in {"login", "tmc"} /\ u.api \in issuer.api /\ u.pc = "endpoint"
  PROVE  Coherent(u) /\ SessionOK(u) /\ Quiet(p, u) /\ Verified(u)
<1>1. /\ NoSession.token = None /\ NoSession.got = None /\ ~ NoSession.told /\ NoSession.prompt = "off"
      /\ \A c \in Callbacks : NoSession.cb[c] = "none"
  BY DEF NoSession
<1>2. Tokens(u) = {} /\ Held(u) = {}
  <2>1. Tokens(u) = {}
    BY <1>1 DEF Tokens
  <2> QED BY <2>1 DEF Held
<1>3. Coherent(u)
  <2>1. /\ u.pc # "idle" /\ u.pc # "refresh"
        /\ ~ (u.pc \in {"granted", "metadata", "add"}) /\ u.pc # "set"
    OBVIOUS
  <2>2. u.kind = "token" => u.pc = "get"
    OBVIOUS
  <2>3. u.kind \in {"token", "resource", "tmc"} => u.name # None
    BY LoginAssumption DEF Names
  <2> QED BY <1>2, <2>1, <2>2, <2>3 DEF Coherent
<1>4. SessionOK(u)
  BY <1>1 DEF SessionOK, Fine
<1>5. Quiet(p, u)
  BY <1>2 DEF Quiet
<1>6. Verified(u)
  BY <1>2 DEF Verified, KnownOrg
<1> QED BY <1>3, <1>4, <1>5, <1>6

LEMMA BeganType ==
  ASSUME NEW pc \in PCs, NEW idp \in Idps, NEW tls \in [ca : CAs \cup {None}, skip : BOOLEAN],
         NEW api \in Refresh \cup {None}, NEW org \in Values \cup {None}, NEW kind \in Commands
  PROVE  /\ [Idle EXCEPT !.pc = pc, !.idp = idp, !.tls = tls, !.api = api, !.org = org] \in ProcState
         /\ [[Idle EXCEPT !.pc = pc, !.idp = idp, !.tls = tls, !.api = api, !.org = org] EXCEPT !.kind = kind] \in ProcState
<1>. DEFINE s1 == [Idle EXCEPT !.pc = pc, !.idp = idp]
            s2 == [s1 EXCEPT !.tls = tls, !.api = api]
            s3 == [s2 EXCEPT !.org = org]
<1>1. s1 \in ProcState
  BY IdleType DEF ProcState
<1>. HIDE DEF s1
<1>2. s2 \in ProcState
  BY <1>1 DEF ProcState
<1>. HIDE DEF s2
<1>3. s3 \in ProcState
  BY <1>2 DEF ProcState
<1>. HIDE DEF s3
<1>4. [s3 EXCEPT !.kind = kind] \in ProcState
  BY <1>3 DEF ProcState
<1> QED BY <1>3, <1>4 DEF s1, s2, s3

LEMMA BeginLoginStep == ASSUME IInv, NEW p \in Procs, BeginLogin(p) PROVE IInv'
<1>0. PICK idp \in Idps, tls \in TLSOptions, o \in Orgs \cup {None} :
        \E api \in {None} \cup {r \in issuer.api : r.issuer = idp} :
          LET env == ConfigureEnvVariables(config, [NoShell EXCEPT ![OrgVariable] = o]) IN
          Start(p, "login", [Idle EXCEPT !.pc = "endpoint", !.idp = idp, !.tls = tls, !.api = api,
                               !.org = IF idp = "csp" /\ api = None THEN env[OrgVariable] ELSE None])
  BY DEF BeginLogin
<1>1. PICK api \in {None} \cup {r \in issuer.api : r.issuer = idp} :
        LET env == ConfigureEnvVariables(config, [NoShell EXCEPT ![OrgVariable] = o]) IN
        Start(p, "login", [Idle EXCEPT !.pc = "endpoint", !.idp = idp, !.tls = tls, !.api = api,
                             !.org = IF idp = "csp" /\ api = None THEN env[OrgVariable] ELSE None])
  BY <1>0
<1>. DEFINE env == ConfigureEnvVariables(config, [NoShell EXCEPT ![OrgVariable] = o])
            org == IF idp = "csp" /\ api = None THEN env[OrgVariable] ELSE None
            s == [Idle EXCEPT !.pc = "endpoint", !.idp = idp, !.tls = tls, !.api = api, !.org = org]
            u == [s EXCEPT !.kind = "login"]
<1>2. org \in Values \cup {None}
  <2>1. env[OrgVariable] \in Values \cup {None}
    BY LoginAssumption DEF IInv, TypeOK, Config, ConfigureEnvVariables, NoShell
  <2>. HIDE DEF env
  <2> QED BY <2>1
<1>3. api # None => api \in issuer.api /\ api.issuer = idp /\ RefreshOK(api) /\ (idp = "csp" => api.n = 0)
  BY DEF IInv, IssuerOK
<1>4. Start(p, "login", s)
  BY <1>1
<1>. HIDE DEF org
<1>5. u \in ProcState
  <2>1. tls \in [ca : CAs \cup {None}, skip : BOOLEAN] /\ api \in Refresh \cup {None}
    BY <1>3, LoginAssumption DEF RefreshOK
  <2>2. "endpoint" \in PCs /\ "login" \in Commands
    BY DEF PCs, Commands
  <2> QED BY <1>2, <2>1, <2>2, BeganType
<1>6. /\ u.pc = "endpoint" /\ u.kind = "login" /\ u.idp = idp /\ u.tls = tls /\ u.api = api
      /\ u.tok = None /\ u.sess = NoSession /\ u.refresh = None /\ u.ctx = None
  BY DEF Idle
<1>. HIDE DEF s, u
<1>7. Coherent(u) /\ SessionOK(u) /\ Quiet(p, u) /\ Verified(u)
  BY <1>3, <1>5, <1>6, Started DEF Reachable
<1>8. "login" \in Commands /\ u = [s EXCEPT !.kind = "login"]
  BY DEF Commands, u
<1> QED BY <1>4, <1>5, <1>7, <1>8, StartStep

LEMMA BeginTMCStep == ASSUME IInv, NEW p \in Procs, BeginTMC(p) PROVE IInv'
<1>1. PICK r \in {r \in issuer.api : r.issuer = "csp"} :
        Start(p, "tmc", [Idle EXCEPT !.pc = "endpoint", !.name = "tmc", !.api = r])
  BY DEF BeginTMC
<1>. DEFINE s == [Idle EXCEPT !.pc = "endpoint", !.name = "tmc", !.api = r]
            u == [s EXCEPT !.kind = "tmc"]
<1>2. r \in issuer.api /\ r.issuer = "csp" /\ RefreshOK(r) /\ r.n = 0 /\ r \in Refresh /\ r # None
  BY LoginAssumption DEF IInv, IssuerOK, RefreshOK
<1>3. s \in ProcState
  <2>1. "endpoint" \in PCs /\ "tmc" \in Names
    BY DEF PCs, Names
  <2> QED BY <1>2, <2>1, IdleType DEF ProcState
<1>4. s.pc = "endpoint" /\ s.name = "tmc" /\ s.idp = "csp" /\ s.tls = NoTLS /\ s.api = r
      /\ s.tok = None /\ s.sess = NoSession /\ s.refresh = None /\ s.ctx = None
  BY DEF Idle
<1>5. Start(p, "tmc", s)
  BY <1>1
<1>. HIDE DEF s
<1>6. u \in ProcState /\ u.kind = "tmc" /\ "tmc" \in Commands
  BY <1>3 DEF ProcState, Commands
<1>7. u.pc = "endpoint" /\ u.name = "tmc" /\ u.idp = "csp" /\ u.tls = NoTLS /\ u.api = r
      /\ u.tok = None /\ u.sess = NoSession /\ u.refresh = None /\ u.ctx = None
  BY <1>3, <1>4 DEF ProcState
<1>. HIDE DEF u
<1>8. Coherent(u) /\ SessionOK(u) /\ Quiet(p, u) /\ Verified(u)
  BY <1>2, <1>6, <1>7, Started DEF Reachable
<1>9. u = [s EXCEPT !.kind = "tmc"]
  BY DEF u
<1> QED BY <1>5, <1>6, <1>8, <1>9, StartStep

\* The commands that begin without an API token.
LEMMA PlainStart ==
  ASSUME IInv, NEW p \in Procs, NEW kind \in Commands, NEW s \in ProcState, Start(p, kind, s),
         s.api = None, s.tok = None, s.sess = NoSession, s.refresh = None, s.ctx = None, s.tls = NoTLS,
         s # Idle => s.pc \in Reachable(kind),
         s.pc \in {"idle", "get", "listen", "certset", "certdelete"},
         s # Idle => s.pc # "idle",
         kind # "tmc",
         s # Idle /\ kind \in {"token", "resource"} => s.pc = "get" /\ s.name # None,
         s # Idle /\ kind = "apitoken" => s.idp = "uaa",
         s # Idle /\ (s.pc = "certset" \/ kind = "certupdate") => s.cert # None,
         s.pc = "get" => s.idp = "csp"
  PROVE  IInv'
<1>. DEFINE u == [s EXCEPT !.kind = kind]
<1>1. u \in ProcState
  BY DEF ProcState
<1>2. /\ u.pc = s.pc /\ u.name = s.name /\ u.idp = s.idp /\ u.tls = NoTLS /\ u.api = None /\ u.kind = kind /\ u.cert = s.cert
      /\ u.tok = None /\ u.sess = NoSession /\ u.refresh = None /\ u.ctx = None
  BY DEF ProcState
<1>. HIDE DEF u
<1>3. s # Idle => Coherent(u) /\ SessionOK(u) /\ Quiet(p, u) /\ Verified(u)
  BY <1>1, <1>2, Started
<1> QED BY <1>1, <1>3, StartStep DEF u

LEMMA BeginOnContextStep == ASSUME IInv, NEW p \in Procs, BeginOnContext(p) PROVE IInv'
<1>1. PICK k \in {"token", "resource"}, n \in Names : Start(p, k, [Idle EXCEPT !.pc = "get", !.name = n])
  BY DEF BeginOnContext
<1>. DEFINE s == [Idle EXCEPT !.pc = "get", !.name = n]
<1>2. s \in ProcState
  <2>1. "get" \in PCs
    BY DEF PCs
  <2> QED BY <2>1, IdleType DEF ProcState
<1>3. s.pc = "get" /\ s.name = n /\ s.idp = "csp" /\ s.tls = NoTLS /\ s.api = None
      /\ s.tok = None /\ s.sess = NoSession /\ s.refresh = None /\ s.ctx = None
  BY DEF Idle
<1>4. Start(p, k, s) /\ k \in Commands /\ n # None
  BY <1>1, LoginAssumption DEF Commands
<1>. HIDE DEF s
<1>5. "get" \in Reachable(k)
  BY DEF Reachable
<1> QED BY <1>2, <1>3, <1>4, <1>5, PlainStart

LEMMA createAPITokenStep == ASSUME IInv, NEW p \in Procs, createAPIToken(p) PROVE IInv'
<1>. DEFINE s == IF active = "tpsm" THEN [Idle EXCEPT !.pc = "listen", !.idp = "uaa"] ELSE Idle
<1>1. s \in ProcState
  <2>1. "listen" \in PCs /\ "uaa" \in Idps
    BY DEF PCs, Idps
  <2> QED BY <2>1, IdleType DEF ProcState
<1>2. /\ s # Idle => s.pc = "listen" /\ s.idp = "uaa"
      /\ s.pc \in {"idle", "listen"} /\ s.tls = NoTLS /\ s.api = None
      /\ s.tok = None /\ s.sess = NoSession /\ s.refresh = None /\ s.ctx = None
  BY DEF Idle
<1>3. Start(p, "apitoken", s)
  BY DEF createAPIToken
<1>. HIDE DEF s
<1>4. "listen" \in Reachable("apitoken") /\ "apitoken" \in Commands
  BY DEF Reachable, Commands
<1> QED BY <1>1, <1>2, <1>3, <1>4, PlainStart

LEMMA BeginCertAddStep == ASSUME IInv, NEW p \in Procs, BeginCertAdd(p) PROVE IInv'
<1>1. PICK f \in CertFlags \cap AddFlags :
        Start(p, "certadd", IF config.cert # None THEN Idle ELSE [Idle EXCEPT !.pc = "certset", !.cert = f])
  BY DEF BeginCertAdd
<1>. DEFINE s == IF config.cert # None THEN Idle ELSE [Idle EXCEPT !.pc = "certset", !.cert = f]
<1>2. s \in ProcState
  <2>1. "certset" \in PCs /\ f \in Cert
    BY LoginAssumption DEF PCs
  <2> QED BY <2>1, IdleType DEF ProcState
<1>3. /\ s # Idle => s.pc = "certset" /\ s.cert = f
      /\ s.pc \in {"idle", "certset"} /\ s.tls = NoTLS /\ s.api = None
      /\ s.tok = None /\ s.sess = NoSession /\ s.refresh = None /\ s.ctx = None
  BY DEF Idle
<1>4. Start(p, "certadd", s)
  BY <1>1
<1>. HIDE DEF s
<1>5. "certset" \in Reachable("certadd") /\ "certadd" \in Commands /\ f # None
  BY LoginAssumption, ConfigurationAssumption DEF Reachable, Commands
<1> QED BY <1>2, <1>3, <1>4, <1>5, PlainStart

LEMMA updateCertType == ASSUME NEW c \in Cert, NEW f \in Cert PROVE updateCert(c, f) \in Cert
BY DEF updateCert, Cert, Spellings

LEMMA BeginCertUpdateStep == ASSUME IInv, NEW p \in Procs, BeginCertUpdate(p) PROVE IInv'
<1>1. PICK f \in CertFlags \cap UpdateFlags :
        Start(p, "certupdate", IF config.cert = None THEN Idle
                               ELSE [Idle EXCEPT !.pc = "certdelete", !.cert = updateCert(config.cert, f)])
  BY DEF BeginCertUpdate
<1>. DEFINE new == updateCert(config.cert, f)
            s == IF config.cert = None THEN Idle ELSE [Idle EXCEPT !.pc = "certdelete", !.cert = new]
<1>2. config.cert # None => new \in Cert
  <2>1. config.cert # None => config.cert \in Cert
    BY DEF IInv, TypeOK, Config
  <2>2. f \in Cert
    BY LoginAssumption
  <2> QED BY <2>1, <2>2, updateCertType
<1>4. Start(p, "certupdate", s)
  BY <1>1
<1>. HIDE DEF new
<1>3. /\ s \in ProcState
      /\ s # Idle => s.pc = "certdelete" /\ s.cert = new /\ new # None
      /\ s.pc \in {"idle", "certdelete"} /\ s.tls = NoTLS /\ s.api = None
      /\ s.tok = None /\ s.sess = NoSession /\ s.refresh = None /\ s.ctx = None
  <2>1. s \in ProcState
    <3>1. "certdelete" \in PCs
      BY DEF PCs
    <3>2. CASE config.cert # None
      <4>1. new \in Cert /\ Idle \in ProcState
        BY <1>2, <3>2, IdleType
      <4>2. [Idle EXCEPT !.pc = "certdelete", !.cert = new] \in ProcState
        BY <3>1, <4>1 DEF ProcState
      <4> QED BY <3>2, <4>2
    <3> QED BY <3>2, IdleType
  <2>2. s # Idle => new # None
    BY <1>2, ConfigurationAssumption
  <2> QED BY <2>1, <2>2 DEF Idle
<1>. HIDE DEF s
<1>5. "certdelete" \in Reachable("certupdate") /\ "certupdate" \in Commands
  BY DEF Reachable, Commands
<1> QED BY <1>3, <1>4, <1>5, PlainStart

LEMMA BeginCertDeleteStep == ASSUME IInv, NEW p \in Procs, BeginCertDelete(p) PROVE IInv'
<1>. DEFINE s == [Idle EXCEPT !.pc = "certdelete"]
<1>1. /\ s \in ProcState /\ s.pc = "certdelete" /\ s.tls = NoTLS /\ s.api = None
      /\ s.tok = None /\ s.sess = NoSession /\ s.refresh = None /\ s.ctx = None
  <2>1. "certdelete" \in PCs
    BY DEF PCs
  <2>2. s \in ProcState
    BY <2>1, IdleType DEF ProcState
  <2> QED BY <2>2 DEF Idle
<1>2. Start(p, "certdelete", s)
  BY DEF BeginCertDelete
<1>. HIDE DEF s
<1>3. "certdelete" \in Reachable("certdelete") /\ "certdelete" \in Commands
  BY DEF Reachable, Commands
<1> QED BY <1>1, <1>2, <1>3, PlainStart

-----------------------------------------------------------------------------
(* The configuration *)

LEMMA ConfigureStep == ASSUME IInv, NEW p \in Procs, Configure(p) PROVE IInv'
<1>1. UNCHANGED <<ctxs, active, issuer, proc, now, faults, crossed>>
  BY DEF Configure
<1>2. config \in Config /\ proc \in [Procs -> ProcState]
  BY DEF IInv, TypeOK
<1>3. config' \in Config /\ config'.cert = config.cert
  <2>1. ASSUME NEW v \in Variables, NEW x \in Values \cup {None}, config' = [config EXCEPT !.env = [config.env EXCEPT ![v] = x]]
        PROVE  config' \in Config /\ config'.cert = config.cert
    BY <1>2, <2>1 DEF Config
  <2>2. ASSUME NEW f \in Features, NEW b \in BOOLEAN \cup {None},
               config' = [config EXCEPT !.features = [config.features EXCEPT ![f] = b]]
        PROVE  config' \in Config /\ config'.cert = config.cert
    BY <1>2, <2>2 DEF Config
  <2>3. CASE config' = InitConfig(config)
    <3>. DEFINE fs == [f \in Features |-> IF config.features[f] = None THEN DefaultFlags[f] ELSE config.features[f]]
    <3>1. fs \in [Features -> BOOLEAN \cup {None}]
      BY <1>2, ConfigurationAssumption DEF Config
    <3>2. config' = [config EXCEPT !.features = fs]
      BY <2>3 DEF InitConfig
    <3>. HIDE DEF fs
    <3> QED BY <1>2, <3>1, <3>2 DEF Config
  <2>4. ASSUME NEW b \in BOOLEAN, config' = SetCEIPOptIn(config, b)
        PROVE  config' \in Config /\ config'.cert = config.cert
    BY <1>2, <2>4 DEF Config, SetCEIPOptIn
  <2> QED BY <2>1, <2>2, <2>3, <2>4
          DEF Configure, SetConfiguration, UnsetConfiguration, SetFeature, UnsetFeature
<1>4. Become(p, proc[p])
  BY <1>1, <1>2 DEF Become
<1>5. Quiet(p, proc[p]) /\ StillRenews(p, proc[p])
  BY DEF Quiet, StillRenews, Renewing
<1>6. ~ crossed' /\ FlagsAreRight => VerifiedOK'
  <2>1. \A q \in Procs : Reaches("uaa", IF proc[q].tok # None THEN NoTLS ELSE proc[q].tls)'
                         = Reaches("uaa", IF proc[q].tok # None THEN NoTLS ELSE proc[q].tls)
    BY <1>1, <1>3 DEF Reaches, GetTLSConfig
  <2>2. ~ crossed' /\ FlagsAreRight => VerifiedOK
    BY <1>1 DEF IInv
  <2> QED BY <1>1, <2>1, <2>2 DEF VerifiedOK
<1>7. proc[p] \in ProcState /\ Coherent(proc[p]) /\ SessionOK(proc[p]) /\ crossed \in BOOLEAN /\ faults \in Nat
  BY <1>2 DEF IInv
<1> QED BY <1>1, <1>3, <1>4, <1>5, <1>6, <1>7, Keep

\* A change of the certificate settings, under no login.
LEMMA ChangeCertStep ==
  ASSUME IInv, NEW p \in Procs, NEW new \in Config, ChangeCert(new), proc[p].kind \in {"certadd", "certupdate", "certdelete"},
         NEW s \in ProcState, Become(p, s), Coherent(s), SessionOK(s), Quiet(p, s), s.kind = proc[p].kind \/ s = Idle,
         UNCHANGED <<ctxs, active, issuer, now, ops, faults>>
  PROVE  IInv'
<1>1. config' = new /\ crossed' \in BOOLEAN /\ (crossed => crossed') /\ faults' \in Nat
  BY DEF ChangeCert, IInv
<1>2. ~ crossed' => ~ crossed /\ \A q \in Procs : proc[q].kind \notin {"login", "apitoken", "token"}
  BY DEF ChangeCert
<1>3. \A q \in Procs : proc'[q] = IF q = p THEN s ELSE proc[q]
  BY Becomes DEF IInv
<1>4. s.kind \notin {"login", "token", "resource"} /\ s.pc \notin {"metadata", "add"}
  BY DEF Idle, Coherent, Reachable
<1>5. ~ crossed' => StillRenews(p, s)
  BY DEF StillRenews, Renewing
<1>6. ~ crossed' /\ FlagsAreRight => VerifiedOK'
  <2>1. SUFFICES ASSUME ~ crossed', FlagsAreRight PROVE VerifiedOK'
    OBVIOUS
  <2>2. VerifiedOK
    BY <1>2, <2>1 DEF IInv
  <2>3. \A q \in Procs : KnownOrg(proc'[q]) /\ proc'[q].kind # "login"
    BY <1>2, <1>3, <1>4, <2>1, <2>2 DEF VerifiedOK, KnownOrg
  <2> QED BY <2>2, <2>3 DEF VerifiedOK
<1> QED BY <1>1, <1>5, <1>6, Keep

\* Where a process is and what command it runs go together.
LEMMA CertKinds ==
  ASSUME NEW s, Coherent(s), s.pc \in {"certset", "certdelete"}
  PROVE  s.kind \in {"certadd", "certupdate", "certdelete"}
BY DEF Coherent, Reachable

LEMMA CertDeleteStep == ASSUME IInv, NEW p \in Procs, CertDelete(p) PROVE IInv'
<1>. DEFINE u == [proc[p] EXCEPT !.pc = "certset"]
            s == IF proc[p].kind = "certupdate" THEN u ELSE Idle
            new == DeleteCert(config)
<1>1. config \in Config /\ proc[p] \in ProcState /\ Coherent(proc[p]) /\ SessionOK(proc[p])
  BY DEF IInv, TypeOK
<1>2. proc[p].pc = "certdelete" /\ ChangeCert(new) /\ Become(p, s)
  BY DEF CertDelete, At, Goto, Return
<1>3. new \in Config
  BY <1>1 DEF DeleteCert, Config
<1>4. proc[p].kind \in {"certadd", "certupdate", "certdelete"}
  BY <1>1, <1>2, CertKinds
<1>5. u \in ProcState
  BY <1>1 DEF ProcState, PCs
<1>6. /\ u.pc = "certset" /\ u.kind = proc[p].kind /\ u.name = proc[p].name /\ u.idp = proc[p].idp /\ u.tls = proc[p].tls
      /\ u.api = proc[p].api /\ u.tok = proc[p].tok /\ u.sess = proc[p].sess /\ u.refresh = proc[p].refresh
      /\ u.ctx = proc[p].ctx /\ u.cert = proc[p].cert
  BY <1>1 DEF ProcState
<1>. HIDE DEF u, new
<1>7. Tokens(u) = Tokens(proc[p]) /\ Held(u) = Held(proc[p])
  <2>1. Tokens(u) = Tokens(proc[p])
    BY <1>6 DEF Tokens
  <2> QED BY <2>1 DEF Held
<1>8. proc[p].kind = "certupdate" => Coherent(u)
  <2>1. "certset" \in Reachable(u.kind)
    BY <1>4, <1>6 DEF Reachable
  <2> QED BY <1>1, <1>2, <1>4, <1>6, <1>7, <2>1 DEF Coherent
<1>9. SessionOK(u)
  BY <1>1, <1>6, <1>2 DEF SessionOK, Fine
<1>10. Quiet(p, u)
  BY <1>6, <1>7 DEF Quiet
<1>11. s \in ProcState /\ Coherent(s) /\ SessionOK(s) /\ Quiet(p, s) /\ (s.kind = proc[p].kind \/ s = Idle)
  BY <1>5, <1>6, <1>8, <1>9, <1>10, IdleIsQuiet
<1>. HIDE DEF s
<1>12. UNCHANGED <<ctxs, active, issuer, now, ops, faults>>
  BY DEF CertDelete
<1> QED BY <1>2, <1>3, <1>4, <1>11, <1>12, ChangeCertStep

LEMMA CertSetStep == ASSUME IInv, NEW p \in Procs, CertSet(p) PROVE IInv'
<1>1. config \in Config /\ proc[p] \in ProcState /\ Coherent(proc[p])
  BY DEF IInv, TypeOK
<1>2. proc[p].pc = "certset" /\ ChangeCert(SetCert(config, proc[p].cert)) /\ Become(p, Idle)
  BY DEF CertSet, At, Return
<1>3. proc[p].kind \in {"certadd", "certupdate", "certdelete"}
  BY <1>1, <1>2, CertKinds
<1>4. SetCert(config, proc[p].cert) \in Config
  <2>1. proc[p].cert \in Cert
    BY <1>1, <1>2 DEF ProcState, Coherent
  <2> QED BY <1>1, <2>1, SetCertType
<1>5. UNCHANGED <<ctxs, active, issuer, now, ops, faults>>
  BY DEF CertSet
<1> QED BY <1>2, <1>3, <1>4, <1>5, IdleIsQuiet, ChangeCertStep

-----------------------------------------------------------------------------
(* Tokens *)

\* Which commands are at a point.
LEMMA KindsAt ==
  ASSUME NEW s, Coherent(s)
  PROVE  /\ s.pc = "endpoint" => s.kind \in {"login", "tmc"}
         /\ s.pc = "get" => s.kind \in {"token", "resource"}
         /\ s.pc = "refresh" => s.kind \in {"login", "token"}
         /\ s.pc \in {"listen", "wait", "check", "close"} => s.kind \in {"login", "token", "apitoken"}
         /\ s.pc = "granted" => s.kind \in {"login", "token", "apitoken", "tmc"}
         /\ s.pc = "metadata" => s.kind = "login"
         /\ s.pc = "add" => s.kind \in {"login", "tmc"}
         /\ s.pc = "set" => s.kind \in {"token", "resource"}
BY DEF Coherent, Reachable

LEMMA PointsOf ==
  /\ {"listen", "wait", "check", "close", "granted"} \subseteq
       (Reachable("login") \cap Reachable("token") \cap Reachable("apitoken"))
  /\ "refresh" \in Reachable("login") \cap Reachable("token")
  /\ {"metadata", "add"} \subseteq Reachable("login") /\ {"granted", "add"} \subseteq Reachable("tmc")
  /\ "set" \in Reachable("token") \cap Reachable("resource")
BY DEF Reachable

\* The answer of an issuer to a refresh token.
LEMMA Renewal ==
  ASSUME IInv, NEW r, RefreshOK(r), ~ Rotates(r) \/ issuer.given < MaxGrants
  PROVE  /\ TokenOf(r.issuer, Renewed(r)) /\ Renewed(r).org = r.org
         /\ ~ Rotates(r) => Renewed(r).refresh = r
         /\ Rotates(r) => Renewed(r).refresh.n = issuer.given + 1
<1>1. r \in Refresh /\ now + Life \in Int /\ issuer.given \in 0..MaxGrants /\ MaxGrants \in Nat
  BY LoginAssumption DEF RefreshOK, IInv, IssuerOK
<1>. DEFINE next == [r EXCEPT !.n = issuer.given + 1]
            ref == IF Rotates(r) THEN next ELSE r
<1>2. Renewed(r) = [org |-> r.org, exp |-> now + Life, refresh |-> ref]
  BY DEF Renewed, Rotates
<1>3. Rotates(r) => next \in Refresh /\ next.n = issuer.given + 1 /\ next.org = r.org /\ next.issuer = r.issuer
  <2>1. Rotates(r) => issuer.given + 1 \in 0..MaxGrants
    BY <1>1
  <2>. DEFINE k == issuer.given + 1
  <2>. HIDE DEF k
  <2>2. Rotates(r) => [r EXCEPT !.n = k] \in Refresh /\ [r EXCEPT !.n = k].n = k /\ [r EXCEPT !.n = k].org = r.org
                      /\ [r EXCEPT !.n = k].issuer = r.issuer
    BY <1>1, <2>1 DEF Refresh, k
  <2> QED BY <2>2 DEF k
<1>. HIDE DEF next
<1>4. ref \in Refresh /\ ref.org = r.org /\ ref.issuer = r.issuer /\ (~ Rotates(r) => ref = r)
      /\ (Rotates(r) => ref.n = issuer.given + 1)
  BY <1>1, <1>3
<1>. HIDE DEF ref
<1>5. RefreshOK(ref)
  BY <1>4 DEF RefreshOK
<1>6. Renewed(r) \in Token
  BY <1>1, <1>2, <1>4 DEF Token, Refresh
<1> QED BY <1>2, <1>4, <1>5, <1>6 DEF TokenOf

\* The answer to the code of a login.
LEMMA Grant ==
  ASSUME IInv, NEW p \in Procs, issuer.given < MaxGrants, proc[p].org \in Orgs \cup {None}
  PROVE  /\ TokenOf(proc[p].idp, Granted(p)) /\ Granted(p).refresh.n = issuer.given + 1
         /\ proc[p].idp = "csp" /\ proc[p].org # None => Granted(p).org = proc[p].org
<1>1. now + Life \in Int /\ issuer.given + 1 \in 0..MaxGrants
  BY LoginAssumption DEF IInv, IssuerOK
<1>2. proc[p].idp \in {"csp", "uaa"}
  BY DEF IInv, TypeOK, ProcState, Idps
<1>. DEFINE o == CASE proc[p].idp = "uaa" -> SelfManaged
                   [] proc[p].idp = "csp" /\ proc[p].org # None -> proc[p].org
                   [] OTHER -> DefaultOrg
            k == issuer.given + 1
            ref == [issuer |-> proc[p].idp, org |-> o, n |-> k]
<1>3. (proc[p].idp = "uaa" => o = SelfManaged) /\ (proc[p].idp = "csp" => o \in Orgs)
      /\ (proc[p].idp = "csp" /\ proc[p].org # None => o = proc[p].org)
  BY <1>2, LoginAssumption
<1>4. Granted(p) = [org |-> o, exp |-> now + Life, refresh |-> ref]
  BY DEF Granted
<1>. HIDE DEF o, k
<1>5. ref \in Refresh
  BY <1>1, <1>2, <1>3 DEF Refresh, Idps, k
<1>6. RefreshOK(ref)
  BY <1>3, <1>5 DEF RefreshOK
<1>7. ref.n = k /\ ref.org = o /\ ref.issuer = proc[p].idp
  OBVIOUS
<1>. HIDE DEF ref
<1>8. Granted(p) \in Token
  BY <1>1, <1>2, <1>3, <1>4, <1>5 DEF Token
<1> QED BY <1>3, <1>4, <1>6, <1>7, <1>8 DEF TokenOf, k

-----------------------------------------------------------------------------
(* Logins until there is a token *)

\* The fields of two states of a process agree, except where they are and what they got.
SameSession(u, s) ==
  /\ u.kind = s.kind /\ u.idp = s.idp /\ u.api = s.api /\ u.tls = s.tls /\ u.cert = s.cert /\ u.sess = s.sess
Same(u, s) ==
  /\ SameSession(u, s) /\ u.name = s.name /\ u.org = s.org /\ u.refresh = s.refresh /\ u.suppress = s.suppress
  /\ u.tok = s.tok /\ u.ctx = s.ctx

LEMMA GotoFacts ==
  ASSUME NEW s \in ProcState, NEW pc \in PCs
  PROVE  /\ [s EXCEPT !.pc = pc] \in ProcState /\ [s EXCEPT !.pc = pc].pc = pc /\ Same([s EXCEPT !.pc = pc], s)
         /\ Tokens([s EXCEPT !.pc = pc]) = Tokens(s) /\ Held([s EXCEPT !.pc = pc]) = Held(s)
<1>. DEFINE u == [s EXCEPT !.pc = pc]
<1>1. u \in ProcState /\ u.pc = pc
  BY DEF ProcState
<1>2. Same(u, s)
  BY DEF ProcState, Same, SameSession
<1>. HIDE DEF u
<1>3. Tokens(u) = Tokens(s)
  BY <1>2 DEF Same, SameSession, Tokens
<1> QED BY <1>1, <1>2, <1>3 DEF Held, u

LEMMA SameIsQuiet ==
  ASSUME NEW p \in Procs, NEW u, Same(u, proc[p])
  PROVE  Quiet(p, u)
<1>1. Held(u) = Held(proc[p])
  BY DEF Held, Tokens, Same, SameSession
<1> QED BY <1>1 DEF Quiet, Same, SameSession

\* Going on to the browser.
LEMMA ListenIsCoherent ==
  ASSUME NEW s \in ProcState, Coherent(s), SessionOK(s), s.pc \in {"endpoint", "refresh"}, s.kind # "tmc",
         s.api # None => s.idp = "uaa", NEW u, Same(u, s), u.pc = "listen"
  PROVE  Coherent(u) /\ SessionOK(u)
<1>1. s.kind \in {"login", "token"} /\ (s.kind = "token" => s.pc = "refresh")
  BY KindsAt
<1>2. Tokens(u) = Tokens(s)
  BY DEF Tokens, Same, SameSession
<1>3. "listen" \in Reachable(u.kind)
  BY <1>1, PointsOf DEF Same, SameSession
<1>4. Coherent(u)
  <2>1. /\ u.pc # "idle" /\ u.pc # "certset" /\ u.pc # "refresh" /\ u.pc # "set" /\ u.kind # "certupdate"
        /\ ~ (u.pc \in {"granted", "metadata", "add"})
    BY <1>1 DEF Same, SameSession
  <2>2. s.tok = None /\ s.sess = NoSession
    BY DEF Coherent
  <2> QED BY <1>1, <1>2, <1>3, <2>1, <2>2 DEF Coherent, Same, SameSession
<1>5. SessionOK(u)
  BY DEF SessionOK, Fine, Same, SameSession
<1> QED BY <1>4, <1>5

LEMMA GotoListen ==
  ASSUME IInv, NEW p \in Procs, proc[p].pc \in {"endpoint", "refresh"}, proc[p].kind # "tmc",
         proc[p].api # None => proc[p].idp = "uaa", Goto(p, "listen"), UNCHANGED <<config, ctxs, active, issuer, now, faults, crossed>>
  PROVE  IInv'
<1>. DEFINE u == [proc[p] EXCEPT !.pc = "listen"]
<1>1. proc[p] \in ProcState /\ Coherent(proc[p]) /\ SessionOK(proc[p])
  BY DEF IInv, TypeOK
<1>2. "listen" \in PCs
  BY DEF PCs
<1>3. u \in ProcState /\ u.pc = "listen" /\ Same(u, proc[p]) /\ Tokens(u) = Tokens(proc[p]) /\ Become(p, u)
  BY <1>1, <1>2, GotoFacts DEF Goto
<1>. HIDE DEF u
<1>4. Coherent(u) /\ SessionOK(u) /\ Quiet(p, u)
  BY <1>1, <1>3, ListenIsCoherent, SameIsQuiet
<1>5. StillRenews(p, u)
  BY DEF StillRenews, Renewing
<1>6. ~ crossed' /\ FlagsAreRight => Verified(u)
  <2>1. ~ crossed' /\ FlagsAreRight => Verified(proc[p])
    BY DEF IInv, VerifiedOK, Verified
  <2> QED BY <1>3, <2>1 DEF Verified, KnownOrg, Same, SameSession
<1> QED BY <1>3, <1>4, <1>5, <1>6, KeepAll

\* A process with its token.
LEMMA GrantedIsCoherent ==
  ASSUME NEW u, u.pc = "granted", u.kind \in {"login", "tmc", "token", "apitoken"},
         u.tls \in TLSOptions \cup {NoTLS}, u.sess = NoSession, u.tok # None, TokenOf(u.idp, u.tok),
         u.kind = "tmc" => u.name = "tmc" /\ u.idp = "csp" /\ u.api # None,
         u.kind = "apitoken" => u.idp = "uaa",
         u.api # None => /\ RefreshOK(u.api) /\ u.api.issuer = u.idp /\ (u.idp = "csp" => u.api.n = 0)
                         /\ u.kind \in {"login", "tmc"},
         u.api # None /\ u.idp = "csp" => u.tok.refresh.n = 0,
         u.kind = "token" =>
           /\ u.name # None /\ u.ctx # None /\ Named(u.name, u.ctx) /\ u.ctx.idp = u.idp /\ u.ctx.type = "tanzu"
           /\ u.idp = "csp" => u.tok.org = u.ctx.org /\ (u.ctx.kind = "api-token" => u.tok.refresh.n = 0)
  PROVE  Coherent(u) /\ SessionOK(u) /\ Tokens(u) = {u.tok} /\ Held(u) = {u.tok.refresh}
<1>1. /\ NoSession.token = None /\ NoSession.got = None /\ ~ NoSession.told /\ NoSession.prompt = "off"
      /\ \A c \in Callbacks : NoSession.cb[c] = "none"
  BY DEF NoSession
<1>2. Tokens(u) = {u.tok}
  BY <1>1 DEF Tokens
<1>3. Held(u) = {u.tok.refresh}
  BY <1>2 DEF Held
<1>4. "granted" \in Reachable(u.kind)
  BY PointsOf
<1>5. SessionOK(u)
  BY <1>1 DEF SessionOK, Fine
<1>6. u.kind \in {"token", "resource", "tmc"} => u.name # None
  BY LoginAssumption DEF Names
<1>7. /\ u.pc # "idle" /\ u.pc # "certset" /\ u.pc # "refresh" /\ u.pc # "set" /\ u.kind # "certupdate"
      /\ ~ (u.pc \in {"metadata", "add", "set"}) /\ ~ (u.pc \in {"metadata", "add"}) /\ u.pc # "get"
      /\ ~ (u.pc \in {"endpoint", "get", "refresh", "listen"})
      /\ ~ (u.pc \in {"refresh", "listen", "wait", "check", "close"})
  OBVIOUS
<1>8. Coherent(u)
  <2>1. \A x \in Tokens(u) : x = u.tok
    BY <1>2
  <2>. HIDE DEF Tokens
  <2> QED BY <1>4, <1>6, <1>7, <2>1 DEF Coherent
<1> QED BY <1>2, <1>3, <1>5, <1>8

LEMMA doCSPAuthenticationStep == ASSUME IInv, NEW p \in Procs, doCSPAuthentication(p) PROVE IInv'
<1>. DEFINE s == proc[p]
<1>1. s \in ProcState /\ Coherent(s) /\ SessionOK(s)
  BY DEF IInv, TypeOK
<1>2. s.pc = "endpoint" /\ s.idp = "csp" /\ s.kind \in {"login", "tmc"}
  BY <1>1, KindsAt DEF doCSPAuthentication, At
<1>3. UNCHANGED <<config, ctxs, active, issuer, now, faults, crossed>>
  BY DEF doCSPAuthentication, OnlyProc
<1>4. CASE Return(p)
  BY <1>2, <1>3, <1>4, ReturnKeeps
<1>5. CASE s.api = None /\ Goto(p, "listen")
  <2>1. s.kind # "tmc"
    BY <1>1, <1>5 DEF Coherent
  <2> QED BY <1>2, <1>3, <1>5, <2>1, GotoListen
<1>6. CASE s.api # None /\ Become(p, [s EXCEPT !.pc = "granted", !.tok = Renewed(s.api)])
  <2>. DEFINE k == Renewed(s.api)
              u == [s EXCEPT !.pc = "granted", !.tok = k]
  <2>1. RefreshOK(s.api) /\ s.api.issuer = "csp" /\ s.api.n = 0 /\ ~ Rotates(s.api)
    BY <1>1, <1>2, <1>6 DEF Coherent, Rotates
  <2>2. TokenOf("csp", k) /\ k.refresh = s.api /\ k # None /\ k \in Token
    BY <2>1, Renewal, LoginAssumption DEF TokenOf
  <2>3. Become(p, u)
    BY <1>6
  <2>. HIDE DEF k
  <2>4. u \in ProcState /\ u.pc = "granted" /\ u.tok = k /\ SameSession(u, s) /\ u.refresh = s.refresh
        /\ u.name = s.name /\ u.ctx = s.ctx
    <3>1. "granted" \in PCs
      BY DEF PCs
    <3>2. u \in ProcState /\ u.pc = "granted" /\ u.tok = k
      BY <1>1, <2>2, <3>1 DEF ProcState
    <3>3. SameSession(u, s) /\ u.refresh = s.refresh /\ u.name = s.name /\ u.ctx = s.ctx
      BY <1>1 DEF ProcState, SameSession
    <3> QED BY <3>2, <3>3
  <2>. HIDE DEF u
  <2>5. s.sess = NoSession /\ s.tls \in TLSOptions \cup {NoTLS} /\ (s.kind = "tmc" => s.name = "tmc")
    BY <1>1, <1>2 DEF Coherent
  <2>6. Coherent(u) /\ SessionOK(u) /\ Held(u) = {u.tok.refresh}
    BY <1>2, <1>6, <2>1, <2>2, <2>4, <2>5, GrantedIsCoherent DEF SameSession
  <2>11. s.api.n <= issuer.given
    BY <1>6 DEF IInv, NumbersOK
  <2>12. Quiet(p, u)
    BY <1>2, <2>1, <2>2, <2>4, <2>6, <2>11 DEF Quiet, SameSession
  <2>13. StillRenews(p, u) /\ Verified(u)
    BY <1>2, <2>4 DEF StillRenews, Renewing, Verified, KnownOrg, SameSession
  <2> QED BY <1>3, <2>3, <2>4, <2>6, <2>12, <2>13, KeepAll
<1> QED BY <1>4, <1>5, <1>6 DEF doCSPAuthentication

\* A process with a refresh token.
LEMMA RefreshIsCoherent ==
  ASSUME NEW u, u.pc = "refresh", u.kind \in {"login", "token"},
         u.tls \in TLSOptions \cup {NoTLS}, u.sess = NoSession, u.tok = None,
         u.refresh # None, RefreshOK(u.refresh), u.refresh.issuer = u.idp, u.kind = "login" => u.suppress,
         u.api # None => /\ RefreshOK(u.api) /\ u.api.issuer = u.idp /\ (u.idp = "csp" => u.api.n = 0)
                         /\ u.kind \in {"login", "tmc"} /\ u.idp = "uaa",
         u.kind = "token" =>
           /\ u.name # None /\ u.ctx # None /\ Named(u.name, u.ctx) /\ u.ctx.idp = u.idp /\ u.ctx.type = "tanzu"
           /\ u.refresh = u.ctx.auth.refresh
           /\ u.idp = "csp" => u.org = u.ctx.org /\ u.ctx.kind # "api-token"
  PROVE  Coherent(u) /\ SessionOK(u) /\ Tokens(u) = {} /\ Held(u) = {}
<1>1. /\ NoSession.token = None /\ NoSession.got = None /\ ~ NoSession.told /\ NoSession.prompt = "off"
      /\ \A c \in Callbacks : NoSession.cb[c] = "none"
  BY DEF NoSession
<1>2. Tokens(u) = {}
  BY <1>1 DEF Tokens
<1>3. Held(u) = {}
  BY <1>2 DEF Held
<1>4. "refresh" \in Reachable(u.kind)
  BY PointsOf
<1>5. SessionOK(u)
  BY <1>1 DEF SessionOK, Fine
<1>7. /\ u.pc # "idle" /\ u.pc # "certset" /\ u.pc # "set" /\ u.kind # "certupdate" /\ u.kind # "tmc" /\ u.kind # "apitoken"
      /\ ~ (u.pc \in {"metadata", "add", "set"}) /\ ~ (u.pc \in {"metadata", "add"})
      /\ ~ (u.pc \in {"granted", "metadata", "add"})
  OBVIOUS
<1>8. Coherent(u)
  BY <1>2, <1>4, <1>7 DEF Coherent
<1> QED BY <1>2, <1>3, <1>5, <1>8

LEMMA doUAAAuthenticationStep == ASSUME IInv, NEW p \in Procs, doUAAAuthentication(p) PROVE IInv'
<1>. DEFINE s == proc[p]
<1>1. s \in ProcState /\ Coherent(s) /\ SessionOK(s)
  BY DEF IInv, TypeOK
<1>2. s.pc = "endpoint" /\ s.idp = "uaa" /\ s.kind \in {"login", "tmc"}
  BY <1>1, KindsAt DEF doUAAAuthentication, At
<1>3. s.kind = "login" /\ s.sess = NoSession /\ s.tls \in TLSOptions \cup {NoTLS} /\ s.tok = None
  BY <1>1, <1>2 DEF Coherent
<1>4. UNCHANGED <<config, ctxs, active, issuer, now, faults, crossed>>
  BY DEF doUAAAuthentication, OnlyProc
<1>5. CASE Return(p)
  BY <1>2, <1>4, <1>5, ReturnKeeps
<1>6. CASE Goto(p, "listen")
  BY <1>2, <1>3, <1>4, <1>6, GotoListen
<1>7. CASE s.api # None /\ Become(p, [s EXCEPT !.pc = "refresh", !.refresh = s.api, !.suppress = TRUE])
  <2>. DEFINE r == s.api
              u == [s EXCEPT !.pc = "refresh", !.refresh = r, !.suppress = TRUE]
  <2>1. RefreshOK(r) /\ r.issuer = "uaa" /\ r \in Refresh
    BY <1>1, <1>2, <1>7 DEF Coherent, RefreshOK
  <2>2. Become(p, u) /\ r # None
    BY <1>7
  <2>. HIDE DEF r
  <2>3. u \in ProcState /\ u.pc = "refresh" /\ u.refresh = r /\ u.suppress
    <3>1. "refresh" \in PCs
      BY DEF PCs
    <3> QED BY <1>1, <2>1, <3>1 DEF ProcState
  <2>4. SameSession(u, s) /\ u.tok = None /\ u.ctx = s.ctx
    BY <1>1, <1>3 DEF ProcState, SameSession
  <2>. HIDE DEF u
  <2>5. Coherent(u) /\ SessionOK(u) /\ Tokens(u) = {} /\ Held(u) = {}
    BY <1>2, <1>3, <2>1, <2>2, <2>3, <2>4, RefreshIsCoherent DEF SameSession, r
  <2>6. Quiet(p, u)
    BY <2>3, <2>4, <2>5 DEF Quiet, SameSession, r
  <2>7. StillRenews(p, u) /\ Verified(u)
    BY <1>2, <1>3, <2>3, <2>4, <2>5 DEF StillRenews, Renewing, Verified, KnownOrg, SameSession
  <2> QED BY <1>4, <2>2, <2>3, <2>5, <2>6, <2>7, KeepAll
<1>8. Return(p) \/ Goto(p, "listen") \/ (s.api # None /\ Become(p, [s EXCEPT !.pc = "refresh", !.refresh = s.api, !.suppress = TRUE]))
  BY DEF doUAAAuthentication
<1> QED BY <1>5, <1>6, <1>7, <1>8

\* get-token with a refresh token that is to be used.
LEMMA getTokenRefresh ==
  ASSUME IInv, NEW p \in Procs, proc[p].pc = "get", proc[p].kind = "token",
         NEW c, c = ctxs[proc[p].name], c # None, c.type = "tanzu",
         NEW u \in ProcState, Become(p, u), u.pc = "refresh", u.kind = "token", u.name = proc[p].name,
         u.api = proc[p].api, u.tls = proc[p].tls, u.sess = proc[p].sess, u.tok = proc[p].tok,
         u.refresh = c.auth.refresh, u.ctx = c, u.idp = c.idp, u.idp = "csp" => u.org = c.auth.org /\ c.kind # "api-token",
         UNCHANGED <<config, ctxs, active, issuer, now, faults, crossed>>
  PROVE  IInv'
<1>. DEFINE s == proc[p]
<1>1. s \in ProcState /\ Coherent(s) /\ SessionOK(s)
  BY DEF IInv, TypeOK
<1>2. s.sess = NoSession /\ s.tls \in TLSOptions \cup {NoTLS} /\ s.tok = None /\ s.api = None /\ s.name # None
  BY <1>1 DEF Coherent
<1>3. s.name \in Names
  BY <1>1, <1>2 DEF ProcState
<1>4. Named(s.name, c) /\ RefreshOK(c.auth.refresh) /\ c.auth.refresh.issuer = c.idp /\ c.auth.refresh # None
  BY <1>3, LoginAssumption DEF IInv, Named, TokenOf, RefreshOK
<1>5. c.idp = "csp" => c.auth.org = c.org
  BY <1>3, <1>4 DEF Named, Names
<1>6. Coherent(u) /\ SessionOK(u) /\ Tokens(u) = {} /\ Held(u) = {}
  BY <1>2, <1>4, <1>5, RefreshIsCoherent
<1>7. Quiet(p, u)
  BY <1>2, <1>3, <1>6 DEF Quiet
<1>8. StillRenews(p, u)
  BY DEF StillRenews, Renewing
<1>9. ~ crossed' /\ FlagsAreRight => Verified(u)
  <2>1. ~ crossed' /\ FlagsAreRight => c.org # None
    BY <1>3 DEF IInv, VerifiedOK
  <2> QED BY <2>1 DEF Verified, KnownOrg
<1> QED BY <1>6, <1>7, <1>8, <1>9, KeepAll

\* get-token with an API token, which gets an access token at once.
LEMMA getTokenAPI ==
  ASSUME IInv, NEW p \in Procs, proc[p].pc = "get", proc[p].kind = "token",
         NEW c, c = ctxs[proc[p].name], c # None, c.type = "tanzu", c.idp = "csp", c.kind = "api-token",
         Become(p, [proc[p] EXCEPT !.pc = "granted", !.ctx = c, !.tok = Renewed(c.auth.refresh)]),
         UNCHANGED <<config, ctxs, active, issuer, now, faults, crossed>>
  PROVE  IInv'
<1>. DEFINE s == proc[p]
            k == Renewed(c.auth.refresh)
            u == [s EXCEPT !.pc = "granted", !.ctx = c, !.tok = k]
<1>1. s \in ProcState /\ Coherent(s) /\ SessionOK(s)
  BY DEF IInv, TypeOK
<1>2. s.sess = NoSession /\ s.tls \in TLSOptions \cup {NoTLS} /\ s.tok = None /\ s.api = None /\ s.name # None
  BY <1>1 DEF Coherent
<1>3. s.name \in Names
  BY <1>1, <1>2 DEF ProcState
<1>4. Named(s.name, c) /\ c \in Context /\ TokenOf("csp", c.auth) /\ RefreshOK(c.auth.refresh) /\ c.auth.refresh.n = 0
  BY <1>3 DEF IInv, Named, TokenOf
<1>5. ~ Rotates(c.auth.refresh)
  BY <1>4 DEF Rotates
<1>6. c.auth.org = c.org
  BY <1>3, <1>4 DEF Named, Names
<1>7. TokenOf("csp", k) /\ k.org = c.org /\ k.refresh = c.auth.refresh /\ k # None /\ k \in Token
  <2>1. c.auth.refresh.issuer = "csp" /\ c.auth.refresh.org = c.org
    BY <1>4, <1>6 DEF TokenOf
  <2>2. TokenOf("csp", k) /\ k.org = c.org /\ k.refresh = c.auth.refresh
    BY <1>4, <1>5, <2>1, Renewal
  <2> QED BY <2>2, LoginAssumption DEF TokenOf
<1>8. Become(p, u)
  OBVIOUS
<1>. HIDE DEF k
<1>9. u \in ProcState /\ u.pc = "granted" /\ u.ctx = c /\ u.tok = k
  <2>1. "granted" \in PCs
    BY DEF PCs
  <2> QED BY <1>1, <1>4, <1>7, <2>1 DEF ProcState
<1>10. u.kind = s.kind /\ u.name = s.name /\ u.idp = s.idp /\ u.api = s.api /\ u.tls = s.tls /\ u.sess = s.sess
       /\ u.refresh = s.refresh
  BY <1>1 DEF ProcState
<1>. HIDE DEF u
<1>11. s.idp = "csp" /\ s.refresh = None
  BY <1>1 DEF Coherent
<1>12. Coherent(u) /\ SessionOK(u) /\ Held(u) = {k.refresh}
  BY <1>2, <1>4, <1>7, <1>9, <1>10, <1>11, GrantedIsCoherent
<1>13. k.refresh.n <= issuer.given
  BY <1>3, <1>7 DEF IInv, NumbersOK
<1>14. Quiet(p, u)
  BY <1>2, <1>3, <1>5, <1>7, <1>9, <1>10, <1>11, <1>12, <1>13 DEF Quiet
<1>15. StillRenews(p, u)
  BY DEF StillRenews, Renewing
<1>16. ~ crossed' /\ FlagsAreRight => Verified(u)
  <2>1. ~ crossed' /\ FlagsAreRight => c.org # None
    BY <1>3 DEF IInv, VerifiedOK
  <2> QED BY <1>9, <1>10, <2>1 DEF Verified, KnownOrg
<1> QED BY <1>8, <1>9, <1>12, <1>14, <1>15, <1>16, KeepAll

\* update tanzu-active-resource has read the context.
LEMMA getTokenResource ==
  ASSUME IInv, NEW p \in Procs, proc[p].pc = "get", proc[p].kind = "resource",
         NEW c, c = ctxs[proc[p].name], c # None, Become(p, [proc[p] EXCEPT !.pc = "set", !.ctx = c]),
         UNCHANGED <<config, ctxs, active, issuer, now, faults, crossed>>
  PROVE  IInv'
<1>. DEFINE s == proc[p]
            u == [s EXCEPT !.pc = "set", !.ctx = c]
<1>1. s \in ProcState /\ Coherent(s) /\ SessionOK(s)
  BY DEF IInv, TypeOK
<1>2. s.sess = NoSession /\ s.tls \in TLSOptions \cup {NoTLS} /\ s.tok = None /\ s.api = None /\ s.name # None
  BY <1>1 DEF Coherent
<1>3. s.name \in Names
  BY <1>1, <1>2 DEF ProcState
<1>4. Named(s.name, c) /\ c \in Context
  BY <1>3 DEF IInv, Named
<1>5. u \in ProcState /\ u.pc = "set" /\ u.ctx = c
  <2>1. "set" \in PCs
    BY DEF PCs
  <2> QED BY <1>1, <1>4, <2>1 DEF ProcState
<1>6. u.kind = s.kind /\ u.name = s.name /\ u.idp = s.idp /\ u.api = s.api /\ u.tls = s.tls /\ u.sess = s.sess
      /\ u.refresh = s.refresh /\ u.tok = s.tok
  BY <1>1 DEF ProcState
<1>. HIDE DEF u
<1>7. Tokens(u) = Tokens(s) /\ Held(u) = Held(s)
  BY <1>6 DEF Tokens, Held
<1>8. "set" \in Reachable(u.kind)
  BY <1>6, PointsOf
<1>9. Coherent(u)
  <2>1. /\ u.pc # "idle" /\ u.pc # "certset" /\ u.kind = "resource" /\ u.pc # "refresh"
        /\ ~ (u.pc \in {"granted", "metadata", "add"}) /\ ~ (u.pc \in {"metadata", "add"})
    BY <1>5, <1>6
  <2>2. \A x \in Tokens(u) : TokenOf(u.idp, x)
    BY <1>1, <1>6, <1>7 DEF Coherent
  <2> QED BY <1>2, <1>4, <1>5, <1>6, <1>8, <2>1, <2>2 DEF Coherent
<1>10. SessionOK(u)
  BY <1>1, <1>5, <1>6 DEF SessionOK, Fine
<1>11. Quiet(p, u) /\ StillRenews(p, u)
  BY <1>3, <1>5, <1>6, <1>7 DEF Quiet, StillRenews, Renewing
<1>12. ~ crossed' /\ FlagsAreRight => Verified(u)
  <2>1. ~ crossed' /\ FlagsAreRight => c.org # None
    BY <1>3 DEF IInv, VerifiedOK
  <2> QED BY <1>5, <1>6, <2>1 DEF Verified, KnownOrg
<1>13. Become(p, u)
  BY DEF u
<1> QED BY <1>5, <1>9, <1>10, <1>11, <1>12, <1>13, KeepAll

LEMMA getTokenStep == ASSUME IInv, NEW p \in Procs, getToken(p) PROVE IInv'
<1>. DEFINE s == proc[p]
            c == ctxs[s.name]
            csp == [s EXCEPT !.pc = "refresh", !.ctx = c, !.idp = "csp", !.refresh = c.auth.refresh, !.org = c.auth.org]
            uaa == [s EXCEPT !.pc = "refresh", !.ctx = c, !.idp = "uaa", !.refresh = c.auth.refresh,
                             !.suppress = c.kind = "api-token"]
<1>1. s \in ProcState /\ Coherent(s) /\ s.pc = "get"
  BY DEF IInv, TypeOK, getToken, At
<1>2. s.kind \in {"token", "resource"} /\ s.name \in Names
  <2>1. s.kind \in {"token", "resource"}
    BY <1>1, KindsAt
  <2> QED BY <1>1, <2>1 DEF Coherent, ProcState
<1>3. UNCHANGED <<config, ctxs, active, issuer, now, faults, crossed>>
  BY DEF getToken, OnlyProc
<1>4. CASE Become(p, Idle)
  <2>1. Return(p)
    BY <1>4 DEF Return
  <2> QED BY <1>1, <1>3, <2>1, ReturnKeeps
<1>5. CASE s.kind = "resource" /\ c # None /\ Become(p, [s EXCEPT !.pc = "set", !.ctx = c])
  BY <1>1, <1>3, <1>5, getTokenResource
<1>6. CASE /\ s.kind = "token" /\ c # None /\ c.type = "tanzu" /\ c.idp = "csp" /\ c.kind = "api-token"
           /\ Become(p, [s EXCEPT !.pc = "granted", !.ctx = c, !.tok = Renewed(c.auth.refresh)])
  BY <1>1, <1>3, <1>6, getTokenAPI
<1>7. ASSUME s.kind = "token", c # None, c.type = "tanzu",
             (c.idp = "csp" /\ c.kind # "api-token" /\ Become(p, csp)) \/ (c.idp = "uaa" /\ Become(p, uaa))
      PROVE  IInv'
  <2>1. c \in Context /\ c.auth.refresh \in Refresh /\ c.auth.org \in Orgs \cup {SelfManaged} /\ Named(s.name, c)
    BY <1>2, <1>7 DEF IInv, Named, TokenOf, RefreshOK, Context, Token
  <2>2. c.idp = "csp" => c.auth.org \in Values
    BY <1>2, <2>1, LoginAssumption DEF Named, TokenOf, RefreshOK
  <2>3. "refresh" \in PCs /\ "csp" \in Idps /\ "uaa" \in Idps
    BY DEF PCs, Idps
  <2>. DEFINE r == c.auth.refresh
              o == c.auth.org
              a == [s EXCEPT !.pc = "refresh", !.ctx = c]
              b == c.kind = "api-token"
  <2>4. a \in ProcState /\ a.pc = "refresh" /\ a.ctx = c /\ a.kind = s.kind /\ a.name = s.name /\ a.api = s.api
        /\ a.tls = s.tls /\ a.sess = s.sess /\ a.tok = s.tok
    BY <1>1, <2>1, <2>3 DEF ProcState
  <2>5. r \in Refresh /\ b \in BOOLEAN
    BY <2>1
  <2>. HIDE DEF a, r, o, b
  <2>6. CASE c.idp = "csp" /\ c.kind # "api-token" /\ Become(p, csp)
    <3>. DEFINE u == [a EXCEPT !.idp = "csp", !.refresh = r, !.org = o]
    <3>1. Become(p, u)
      BY <2>6 DEF a, r, o
    <3>2. o \in Values
      BY <2>2, <2>6 DEF o
    <3>3. u \in ProcState /\ u.idp = "csp" /\ u.refresh = r /\ u.org = o
      BY <2>3, <2>4, <2>5, <3>2 DEF ProcState
    <3>4. u.pc = "refresh" /\ u.ctx = c /\ u.kind = s.kind /\ u.name = s.name /\ u.api = s.api
          /\ u.tls = s.tls /\ u.sess = s.sess /\ u.tok = s.tok
      BY <2>4 DEF ProcState
    <3>. HIDE DEF u, c
    <3>5. r = c.auth.refresh /\ o = c.auth.org /\ c = ctxs[s.name]
      BY DEF r, o, c
    <3> QED BY <1>1, <1>3, <1>7, <2>6, <3>1, <3>3, <3>4, <3>5, getTokenRefresh
  <2>7. CASE c.idp = "uaa" /\ Become(p, uaa)
    <3>. DEFINE u == [a EXCEPT !.idp = "uaa", !.refresh = r, !.suppress = b]
    <3>1. Become(p, u)
      BY <2>7 DEF a, r, b
    <3>3. u \in ProcState /\ u.idp = "uaa" /\ u.refresh = r
      <4>. DEFINE v == [a EXCEPT !.idp = "uaa", !.refresh = r]
      <4>1. v \in ProcState /\ v.idp = "uaa" /\ v.refresh = r
        BY <2>3, <2>4, <2>5 DEF ProcState
      <4>. HIDE DEF v
      <4>2. [v EXCEPT !.suppress = b] \in ProcState
        BY <2>5, <4>1 DEF ProcState
      <4>3. [v EXCEPT !.suppress = b].idp = "uaa" /\ [v EXCEPT !.suppress = b].refresh = r
        BY <4>1 DEF ProcState
      <4> QED BY <4>2, <4>3 DEF v
    <3>4. u.pc = "refresh" /\ u.ctx = c /\ u.kind = s.kind /\ u.name = s.name /\ u.api = s.api
          /\ u.tls = s.tls /\ u.sess = s.sess /\ u.tok = s.tok
      BY <2>4 DEF ProcState
    <3>. HIDE DEF u, c
    <3>5. r = c.auth.refresh /\ c = ctxs[s.name]
      BY DEF r, c
    <3> QED BY <1>1, <1>3, <1>7, <2>7, <3>1, <3>3, <3>4, <3>5, getTokenRefresh
  <2> QED BY <1>7, <2>6, <2>7
<1>8. \/ Become(p, Idle)
      \/ s.kind = "resource" /\ c # None /\ Become(p, [s EXCEPT !.pc = "set", !.ctx = c])
      \/ s.kind = "token" /\ c # None /\ c.type = "tanzu" /\ Become(p, IF c.idp = "csp" THEN cspGetTokens(p, c) ELSE uaaGetTokens(p, c))
  BY <1>2 DEF getToken
<1>9. c # None => c.idp \in {"csp", "uaa"}
  BY <1>2 DEF IInv, Named, Context, Idps
<1>10. ASSUME s.kind = "token", c # None, c.type = "tanzu",
              Become(p, IF c.idp = "csp" THEN cspGetTokens(p, c) ELSE uaaGetTokens(p, c))
       PROVE  IInv'
  <2>1. CASE c.idp = "csp"
    <3>1. Become(p, cspGetTokens(p, c))
      BY <1>10, <2>1
    <3>2. CASE c.kind = "api-token"
      <4>1. \/ Become(p, Idle)
            \/ Become(p, [s EXCEPT !.pc = "granted", !.ctx = c, !.tok = Renewed(c.auth.refresh)])
        BY <3>1, <3>2 DEF cspGetTokens
      <4> QED BY <1>4, <1>6, <1>10, <2>1, <3>2, <4>1
    <3>3. CASE c.kind # "api-token"
      <4>1. Become(p, csp)
        BY <3>1, <3>3 DEF cspGetTokens
      <4> QED BY <1>7, <1>10, <2>1, <3>3, <4>1
    <3> QED BY <3>2, <3>3
  <2>2. CASE c.idp = "uaa"
    <3>1. Become(p, uaa)
      BY <1>10, <2>2 DEF uaaGetTokens
    <3> QED BY <1>7, <1>10, <2>2, <3>1
  <2> QED BY <1>9, <1>10, <2>1, <2>2
<1> QED BY <1>4, <1>5, <1>8, <1>10

-----------------------------------------------------------------------------
(* The login handler *)

\* The session of a login, its tokens being those of the context if there is one.
TokenFor(s, t) ==
  TokenOf(s.idp, t) /\ (s.kind = "token" /\ s.idp = "csp" => t.org = s.ctx.org)

LEMMA SessionIsCoherent ==
  ASSUME NEW s, Coherent(s), s.pc \in {"listen", "wait", "check", "close"},
         NEW u, u.pc \in {"wait", "check", "close"}, u.kind = s.kind, u.idp = s.idp, u.api = s.api, u.tls = s.tls,
         u.cert = s.cert, u.name = s.name, u.org = s.org, u.ctx = s.ctx,
         \A t \in Tokens(u) : TokenFor(s, t)
  PROVE  Coherent(u)
<1>1. s.kind \in {"login", "token", "apitoken"}
  BY KindsAt
<1>2. u.pc \in Reachable(u.kind)
  BY <1>1, PointsOf
<1>3. /\ u.pc # "idle" /\ u.pc # "certset" /\ u.kind # "certupdate" /\ u.pc # "refresh" /\ u.pc # "set" /\ u.pc # "get"
      /\ ~ (u.pc \in {"endpoint", "get", "refresh", "listen"}) /\ ~ (u.pc \in {"granted", "metadata", "add"})
      /\ ~ (u.pc \in {"metadata", "add", "set"})
  BY <1>1
<1>4. /\ \A t \in Tokens(u) : TokenOf(u.idp, t)
      /\ u.kind = "token" /\ u.idp = "csp" => \A t \in Tokens(u) : t.org = u.ctx.org
  BY DEF TokenFor
<1>. DEFINE S == Tokens(u)
<1>5. /\ \A t \in S : TokenOf(u.idp, t)
      /\ u.kind = "token" /\ u.idp = "csp" => \A t \in S : t.org = u.ctx.org
  BY <1>4
<1>. HIDE DEF S
<1>6. u.kind = "token" => /\ u.ctx # None /\ Named(u.name, u.ctx) /\ u.ctx.idp = u.idp /\ u.ctx.type = "tanzu"
                          /\ u.idp = "csp" => u.org = u.ctx.org /\ u.ctx.kind # "api-token"
  BY DEF Coherent
<1>7. /\ u.tls \in TLSOptions \cup {NoTLS}
      /\ u.kind \in {"token", "resource", "tmc"} => u.name # None
      /\ u.kind # "tmc"
      /\ u.kind = "apitoken" => u.idp = "uaa"
      /\ u.api # None => /\ RefreshOK(u.api) /\ u.api.issuer = u.idp /\ (u.idp = "csp" => u.api.n = 0)
                         /\ u.kind \in {"login", "tmc"}
  BY <1>1 DEF Coherent
<1> QED BY <1>2, <1>3, <1>5, <1>6, <1>7 DEF Coherent, S

LEMMA OldTokens ==
  ASSUME NEW s, Coherent(s), s.pc \in {"wait", "check", "close"}
  PROVE  \A t \in Tokens(s) : TokenFor(s, t)
BY DEF Coherent, TokenFor

\* A step of one of the goroutines.
LEMMA SessStep ==
  ASSUME IInv, NEW p \in Procs, InSession(p), NEW h \in Session, SetSess(p, h),
         h.token \in {None, Sess(p).token, Sess(p).got}, h.got \in {None, Sess(p).got},
         Fine(h, proc[p].pc, proc[p].tok),
         UNCHANGED <<config, ctxs, active, issuer, now, faults, crossed>>
  PROVE  IInv'
<1>. DEFINE s == proc[p]
            u == [s EXCEPT !.sess = h]
<1>1. s \in ProcState /\ Coherent(s)
  BY DEF IInv, TypeOK
<1>2. s.pc \in {"wait", "check", "close"}
  BY DEF InSession
<1>3. u \in ProcState /\ u.sess = h
  BY <1>1 DEF ProcState
<1>4. u.pc = s.pc /\ u.kind = s.kind /\ u.idp = s.idp /\ u.api = s.api /\ u.tls = s.tls
      /\ u.cert = s.cert /\ u.name = s.name /\ u.org = s.org /\ u.ctx = s.ctx /\ u.tok = s.tok /\ u.refresh = s.refresh
  BY <1>1 DEF ProcState
<1>5. Become(p, u) /\ SessionOK(u)
  BY <1>3, <1>4 DEF SetSess, SessionOK
<1>. HIDE DEF u
<1>6. Tokens(u) \subseteq Tokens(s)
  BY <1>3, <1>4 DEF Tokens, Sess
<1>7. Coherent(u)
  BY <1>1, <1>2, <1>4, <1>6, OldTokens, SessionIsCoherent
<1>8. Quiet(p, u)
  BY <1>4, <1>6 DEF Quiet, Held
<1>9. StillRenews(p, u)
  BY <1>2 DEF StillRenews, Renewing
<1>10. ~ crossed' /\ FlagsAreRight => Verified(u)
  <2>1. ~ crossed' /\ FlagsAreRight => Verified(s)
    BY DEF IInv, VerifiedOK, Verified
  <2> QED BY <1>4, <1>6, <2>1 DEF Verified, KnownOrg
<1> QED BY <1>3, <1>5, <1>7, <1>8, <1>9, <1>10, KeepAll

LEMMA InSessionFacts ==
  ASSUME IInv, NEW p \in Procs
  PROVE  /\ proc[p] \in ProcState /\ Sess(p) \in Session /\ Sess(p).cb \in [Callbacks -> {"none", "good", "bad", "locked", "answer", "done"}]
         /\ Coherent(proc[p]) /\ Fine(Sess(p), proc[p].pc, proc[p].tok)
<1>1. proc[p] \in ProcState /\ Coherent(proc[p]) /\ SessionOK(proc[p])
  BY DEF IInv, TypeOK
<1>2. Sess(p) \in Session
  BY <1>1 DEF ProcState, Sess
<1>3. Sess(p).cb \in [Callbacks -> {"none", "good", "bad", "locked", "answer", "done"}]
  BY <1>2 DEF Session
<1> QED BY <1>1, <1>2, <1>3 DEF SessionOK, Sess

\* A callback moves on.
LEMMA CbMoves ==
  ASSUME NEW h \in Session, NEW c \in Callbacks, NEW x \in {"none", "good", "bad", "locked", "answer", "done"},
         NEW g, g = [h EXCEPT !.cb = [h.cb EXCEPT ![c] = x]]
  PROVE  /\ g \in Session /\ \A b \in Callbacks : g.cb[b] = IF b = c THEN x ELSE h.cb[b]
         /\ g.token = h.token /\ g.got = h.got /\ g.mutex = h.mutex /\ g.complete = h.complete
         /\ g.prompt = h.prompt /\ g.prompted = h.prompted /\ g.told = h.told /\ g.used = h.used
<1>. DEFINE cb == [h.cb EXCEPT ![c] = x]
<1>2. cb \in [Callbacks -> {"none", "good", "bad", "locked", "answer", "done"}] /\ \A b \in Callbacks : cb[b] = IF b = c THEN x ELSE h.cb[b]
  BY DEF Session
<1>. HIDE DEF cb
<1>0. g = [h EXCEPT !.cb = cb]
  BY DEF cb
<1>3. g \in Session /\ g.cb = cb
  BY <1>0, <1>2 DEF Session
<1>4. g.token = h.token /\ g.got = h.got /\ g.mutex = h.mutex /\ g.complete = h.complete /\ g.prompt = h.prompt
      /\ g.prompted = h.prompted /\ g.told = h.told /\ g.used = h.used
  BY <1>0 DEF Session
<1> QED BY <1>2, <1>3, <1>4

LEMMA BrowserCallsStep == ASSUME IInv, NEW p \in Procs, NEW c \in Callbacks, BrowserCalls(p, c) PROVE IInv'
<1>1. PICK kind \in {"good", "bad"} : SetSess(p, [Sess(p) EXCEPT !.cb[c] = kind])
  BY DEF BrowserCalls
<1>. DEFINE g == [Sess(p) EXCEPT !.cb[c] = kind]
<1>2. InSession(p) /\ UNCHANGED <<config, ctxs, active, issuer, now, faults, crossed>> /\ SetSess(p, g)
  BY <1>1 DEF BrowserCalls
<1>3. /\ g \in Session /\ \A b \in Callbacks : g.cb[b] = IF b = c THEN kind ELSE Sess(p).cb[b]
      /\ g.token = Sess(p).token /\ g.got = Sess(p).got /\ g.mutex = Sess(p).mutex /\ g.complete = Sess(p).complete
      /\ g.prompt = Sess(p).prompt /\ g.prompted = Sess(p).prompted /\ g.told = Sess(p).told
  <2>1. g = [Sess(p) EXCEPT !.cb = [Sess(p).cb EXCEPT ![c] = kind]] /\ Sess(p) \in Session
    BY InSessionFacts
  <2>. HIDE DEF g
  <2> QED BY <2>1, CbMoves
<1>. HIDE DEF g
<1>4. Fine(g, proc[p].pc, proc[p].tok)
  BY <1>3, InSessionFacts DEF Fine
<1> QED BY <1>2, <1>3, <1>4, SessStep

LEMMA callbackHandlerStep == ASSUME IInv, NEW p \in Procs, NEW c \in Callbacks, callbackHandler(p, c) PROVE IInv'
<1>. DEFINE h == Sess(p)
            x == IF h.cb[c] = "good" THEN "locked" ELSE "answer"
            m == [h EXCEPT !.mutex = c]
            g1 == [h EXCEPT !.cb[c] = "done"]
            g2 == [m EXCEPT !.cb[c] = x]
<1>1. InSession(p) /\ h.mutex = None /\ UNCHANGED <<config, ctxs, active, issuer, now, faults, crossed>>
      /\ h.cb[c] \in {"good", "bad"}
  BY DEF callbackHandler, OnlyProc
<1>2. h \in Session /\ Fine(h, proc[p].pc, proc[p].tok)
  BY InSessionFacts
<1>3. CASE h.token # None /\ SetSess(p, g1)
  <2>1. /\ g1 \in Session /\ \A b \in Callbacks : g1.cb[b] = IF b = c THEN "done" ELSE h.cb[b]
        /\ g1.token = h.token /\ g1.got = h.got /\ g1.mutex = h.mutex /\ g1.complete = h.complete
        /\ g1.prompt = h.prompt /\ g1.prompted = h.prompted /\ g1.told = h.told
    <3>1. g1 = [h EXCEPT !.cb = [h.cb EXCEPT ![c] = "done"]]
      OBVIOUS
    <3>. HIDE DEF g1, h
    <3> QED BY <1>2, <3>1, CbMoves
  <2>2. SetSess(p, g1)
    BY <1>3
  <2>. HIDE DEF g1
  <2>3. Fine(g1, proc[p].pc, proc[p].tok)
    BY <1>2, <2>1 DEF Fine
  <2> QED BY <1>1, <2>1, <2>2, <2>3, SessStep
<1>4. CASE h.token = None /\ SetSess(p, g2)
  <2>1. m \in Session /\ m.mutex = c /\ m.cb = h.cb /\ m.token = h.token /\ m.got = h.got /\ m.complete = h.complete
        /\ m.prompt = h.prompt /\ m.prompted = h.prompted /\ m.told = h.told
    BY <1>2 DEF Session
  <2>2. SetSess(p, g2)
    BY <1>4
  <2>. HIDE DEF m, x
  <2>3. /\ g2 \in Session /\ \A b \in Callbacks : g2.cb[b] = IF b = c THEN x ELSE m.cb[b]
        /\ g2.token = m.token /\ g2.got = m.got /\ g2.mutex = m.mutex /\ g2.complete = m.complete
        /\ g2.prompt = m.prompt /\ g2.prompted = m.prompted /\ g2.told = m.told
    <3>1. x \in {"none", "good", "bad", "locked", "answer", "done"}
      BY DEF x
    <3>2. g2 = [m EXCEPT !.cb = [m.cb EXCEPT ![c] = x]]
      OBVIOUS
    <3>. HIDE DEF g2
    <3> QED BY <2>1, <3>1, <3>2, CbMoves
  <2>. HIDE DEF g2
  <2>4. \A b \in Callbacks : b # None
    BY LoginAssumption
  <2>5. \A b \in Callbacks : h.cb[b] \notin {"locked", "answer"}
    BY <1>1, <1>2, <2>4 DEF Fine
  <2>6. \A b \in Callbacks : g2.cb[b] \in {"locked", "answer"} => b = c
    BY <2>1, <2>3, <2>5
  <2>7. Fine(g2, proc[p].pc, proc[p].tok)
    BY <1>2, <1>4, <2>1, <2>3, <2>6 DEF Fine
  <2> QED BY <1>1, <2>1, <2>2, <2>3, <2>7, SessStep
<1> QED BY <1>3, <1>4 DEF callbackHandler

LEMMA CallbackDoneStep == ASSUME IInv, NEW p \in Procs, NEW c \in Callbacks, CallbackDone(p, c) PROVE IInv'
<1>. DEFINE h == Sess(p)
            m == [h EXCEPT !.complete = TRUE, !.mutex = None]
            g == [m EXCEPT !.cb[c] = "done"]
<1>1. InSession(p) /\ h.cb[c] = "answer" /\ UNCHANGED <<config, ctxs, active, issuer, now, faults, crossed>> /\ SetSess(p, g)
  BY DEF CallbackDone, OnlyProc
<1>2. h \in Session /\ Fine(h, proc[p].pc, proc[p].tok)
  BY InSessionFacts
<1>3. m \in Session /\ m.cb = h.cb /\ m.token = h.token /\ m.got = h.got /\ m.complete
      /\ m.prompt = h.prompt /\ m.prompted = h.prompted /\ m.told = h.told
  BY <1>2 DEF Session
<1>4. g = [m EXCEPT !.cb = [m.cb EXCEPT ![c] = "done"]]
  OBVIOUS
<1>. HIDE DEF m, g
<1>5. /\ g \in Session /\ \A b \in Callbacks : g.cb[b] = IF b = c THEN "done" ELSE m.cb[b]
      /\ g.token = m.token /\ g.got = m.got /\ g.mutex = m.mutex /\ g.complete = m.complete
      /\ g.prompt = m.prompt /\ g.prompted = m.prompted /\ g.told = m.told
  <2>1. m \in Session
    BY <1>3
  <2> QED BY <2>1, <1>4, CbMoves
<1>6. \A b \in Callbacks : h.cb[b] \in {"locked", "answer"} => b = c
  BY <1>1, <1>2 DEF Fine
<1>7. \A b \in Callbacks : g.cb[b] \notin {"locked", "answer"}
  BY <1>3, <1>5, <1>6
<1>8. Fine(g, proc[p].pc, proc[p].tok)
  BY <1>2, <1>3, <1>5, <1>7 DEF Fine
<1> QED BY <1>1, <1>3, <1>5, <1>8, SessStep

\* An exchange that fails leaves no token: by then the browser was told nothing.
LEMMA CallbackFailsStep ==
  ASSUME IInv, NEW p \in Procs, NEW c \in Callbacks, InSession(p), Sess(p).cb[c] = "locked",
         SetSess(p, [Sess(p) EXCEPT !.token = None, !.cb[c] = "answer"]),
         UNCHANGED <<config, ctxs, active, issuer, now, faults, crossed>>
  PROVE  IInv'
<1>. DEFINE h == Sess(p)
            m == [h EXCEPT !.token = None]
            g == [m EXCEPT !.cb[c] = "answer"]
<1>1. SetSess(p, g)
  OBVIOUS
<1>2. h \in Session /\ Fine(h, proc[p].pc, proc[p].tok)
  BY InSessionFacts
<1>3. m \in Session /\ m.cb = h.cb /\ m.token = None /\ m.got = h.got /\ m.complete = h.complete /\ m.mutex = h.mutex
      /\ m.prompt = h.prompt /\ m.prompted = h.prompted /\ m.told = h.told
  BY <1>2 DEF Session
<1>4. g = [m EXCEPT !.cb = [m.cb EXCEPT ![c] = "answer"]]
  OBVIOUS
<1>. HIDE DEF m, g
<1>5. /\ g \in Session /\ \A b \in Callbacks : g.cb[b] = IF b = c THEN "answer" ELSE m.cb[b]
      /\ g.token = m.token /\ g.got = m.got /\ g.mutex = m.mutex /\ g.complete = m.complete
      /\ g.prompt = m.prompt /\ g.prompted = m.prompted /\ g.told = m.told
  BY <1>3, <1>4, CbMoves
<1>6. h.mutex = c /\ (~ h.prompted => h.token = None /\ ~ h.told /\ proc[p].pc # "check")
  <2>1. h.mutex = c /\ (~ h.prompted => h.token = None)
    BY <1>2 DEF Fine
  <2> QED BY <1>2, <2>1 DEF Fine
<1>7. Fine(g, proc[p].pc, proc[p].tok)
  BY <1>2, <1>3, <1>5, <1>6 DEF Fine
<1> QED BY <1>1, <1>3, <1>5, <1>7, SessStep

LEMMA UserPastesStep == ASSUME IInv, NEW p \in Procs, UserPastes(p) PROVE IInv'
<1>. DEFINE h == Sess(p)
            g == [h EXCEPT !.prompt = "pasted", !.prompted = TRUE]
<1>1. InSession(p) /\ SetSess(p, g) /\ UNCHANGED <<config, ctxs, active, issuer, now, faults, crossed>>
  BY DEF UserPastes
<1>2. h \in Session /\ Fine(h, proc[p].pc, proc[p].tok)
  BY InSessionFacts
<1>3. g \in Session /\ g.cb = h.cb /\ g.token = h.token /\ g.got = h.got /\ g.complete = h.complete /\ g.mutex = h.mutex
      /\ g.prompted
  BY <1>2 DEF Session
<1>. HIDE DEF g
<1>4. Fine(g, proc[p].pc, proc[p].tok)
  BY <1>2, <1>3 DEF Fine
<1> QED BY <1>1, <1>3, <1>4, SessStep

LEMMA PromptEndsStep == ASSUME IInv, NEW p \in Procs, PromptFails(p) PROVE IInv'
<1>. DEFINE h == Sess(p)
            g == [h EXCEPT !.prompt = "done", !.complete = TRUE, !.prompted = TRUE]
<1>1. InSession(p) /\ SetSess(p, g) /\ UNCHANGED <<config, ctxs, active, issuer, now, faults, crossed>>
  BY DEF PromptFails
<1>2. h \in Session /\ Fine(h, proc[p].pc, proc[p].tok)
  BY InSessionFacts
<1>3. g \in Session /\ g.cb = h.cb /\ g.token = h.token /\ g.got = h.got /\ g.complete /\ g.mutex = h.mutex
      /\ g.prompted
  BY <1>2 DEF Session
<1>. HIDE DEF g
<1>4. Fine(g, proc[p].pc, proc[p].tok)
  BY <1>2, <1>3 DEF Fine
<1> QED BY <1>1, <1>3, <1>4, SessStep

LEMMA PastedFailsStep ==
  ASSUME IInv, NEW p \in Procs, InSession(p), Sess(p).prompt = "pasted", SetSess(p, [Sess(p) EXCEPT !.prompt = "store"]),
         UNCHANGED <<config, ctxs, active, issuer, now, faults, crossed>>
  PROVE  IInv'
<1>. DEFINE h == Sess(p)
            g == [h EXCEPT !.prompt = "store"]
<1>1. SetSess(p, g)
  OBVIOUS
<1>2. h \in Session /\ Fine(h, proc[p].pc, proc[p].tok)
  BY InSessionFacts
<1>3. g \in Session /\ g.cb = h.cb /\ g.token = h.token /\ g.got = h.got /\ g.complete = h.complete /\ g.mutex = h.mutex
      /\ g.prompted = h.prompted /\ g.told = h.told
  BY <1>2 DEF Session
<1>. HIDE DEF g
<1>4. Fine(g, proc[p].pc, proc[p].tok)
  BY <1>2, <1>3 DEF Fine
<1> QED BY <1>1, <1>3, <1>4, SessStep

LEMMA PromptStoreStep == ASSUME IInv, NEW p \in Procs, PromptStore(p) PROVE IInv'
<1>. DEFINE h == Sess(p)
            k == h.got
            g == [h EXCEPT !.token = k, !.complete = TRUE, !.prompt = "done"]
<1>1. InSession(p) /\ h.prompt = "store" /\ SetSess(p, g)
      /\ UNCHANGED <<config, ctxs, active, issuer, now, faults, crossed>>
  BY DEF PromptStore, OnlyProc
<1>2. h \in Session /\ Fine(h, proc[p].pc, proc[p].tok) /\ k \in Token \cup {None} /\ k = h.got
  BY InSessionFacts DEF Session
<1>. HIDE DEF k
<1>3. g \in Session /\ g.cb = h.cb /\ g.token = k /\ g.got = h.got /\ g.complete /\ g.mutex = h.mutex /\ g.prompted = h.prompted
  BY <1>2 DEF Session
<1>. HIDE DEF g
<1>4. h.prompted
  BY <1>1, <1>2 DEF Fine
<1>5. Fine(g, proc[p].pc, proc[p].tok)
  BY <1>2, <1>3, <1>4 DEF Fine
<1>6. g.token \in {None, h.token, h.got} /\ g.got \in {None, h.got}
  BY <1>2, <1>3
<1> QED BY <1>1, <1>3, <1>5, <1>6, SessStep

LEMMA PromptCancelledStep == ASSUME IInv, NEW p \in Procs, PromptCancelled(p) PROVE IInv'
<1>. DEFINE h == Sess(p)
            g == [h EXCEPT !.prompt = "done"]
<1>1. InSession(p) /\ SetSess(p, g) /\ UNCHANGED <<config, ctxs, active, issuer, now, faults, crossed>>
  BY DEF PromptCancelled, OnlyProc
<1>2. h \in Session /\ Fine(h, proc[p].pc, proc[p].tok)
  BY InSessionFacts
<1>3. g \in Session /\ g.cb = h.cb /\ g.token = h.token /\ g.got = h.got /\ g.complete = h.complete /\ g.mutex = h.mutex
      /\ g.prompted = h.prompted /\ g.told = h.told /\ g.prompt = "done"
  BY <1>2 DEF Session
<1>. HIDE DEF g
<1>4. Fine(g, proc[p].pc, proc[p].tok)
  BY <1>2, <1>3 DEF Fine
<1> QED BY <1>1, <1>3, <1>4, SessStep

-----------------------------------------------------------------------------
(* Tokens that issuers give out *)

\* What others verified stays verified when a login saves its flags.
LEMMA VerifiedAfter ==
  ASSUME IInv, ~ crossed, FlagsAreRight, NEW p \in Procs, NEW u \in ProcState, Become(p, u), UNCHANGED ctxs,
         config' = config \/ config' = updateCertMap(config, proc[p].tls), KnownOrg(u),
         u.kind = "login" /\ u.idp = "uaa" /\ Tokens(u) # {} =>
           ReachesUnder(config', IF u.tok # None THEN NoTLS ELSE u.tls)
  PROVE  VerifiedOK'
<1>1. \A q \in Procs : proc'[q] = IF q = p THEN u ELSE proc[q]
  BY Becomes DEF IInv
<1>2. VerifiedOK /\ config \in Config /\ \A q \in Procs : proc[q].tls \in TLSOptions \cup {NoTLS}
  BY DEF IInv, TypeOK, Coherent
<1>3. \A t \in TLSOptions \cup {NoTLS} : ReachesUnder(config, t) => ReachesUnder(config', t)
  <2>1. \A t \in TLSOptions \cup {NoTLS} : ReachesUnder(config, t) => ReachesUnder(updateCertMap(config, proc[p].tls), t)
    BY <1>2, CertMapReaches
  <2>2. CASE config' = config
    BY <2>2
  <2>3. CASE config' = updateCertMap(config, proc[p].tls)
    BY <2>1, <2>3
  <2> QED BY <2>2, <2>3
<1>4. ASSUME NEW q \in Procs
      PROVE  /\ KnownOrg(proc'[q])
             /\ proc'[q].kind = "login" /\ proc'[q].idp = "uaa" /\ Tokens(proc'[q]) # {} =>
                  Reaches("uaa", IF proc[q].tok # None THEN NoTLS ELSE proc[q].tls)'
  <2>1. Reaches("uaa", IF proc[q].tok # None THEN NoTLS ELSE proc[q].tls)'
          = ReachesUnder(config', IF proc'[q].tok # None THEN NoTLS ELSE proc'[q].tls)
    BY DEF Reaches, ReachesUnder
  <2>2. CASE q = p
    BY <1>1, <2>1, <2>2
  <2>3. CASE q # p
    <3>. DEFINE t == IF proc[q].tok # None THEN NoTLS ELSE proc[q].tls
    <3>1. proc'[q] = proc[q]
      BY <1>1, <2>3
    <3>2. proc[q].kind = "login" /\ proc[q].idp = "uaa" /\ Tokens(proc[q]) # {} => Reaches("uaa", t)
      BY <1>2 DEF VerifiedOK
    <3>3. t \in TLSOptions \cup {NoTLS}
      BY <1>2
    <3>4. KnownOrg(proc[q])
      BY <1>2 DEF VerifiedOK
    <3>. HIDE DEF t
    <3>5. Reaches("uaa", t) => ReachesUnder(config', t)
      BY <1>3, <3>3, ReachesIsUnder
    <3> QED BY <2>1, <3>1, <3>2, <3>4, <3>5 DEF t
  <2> QED BY <2>2, <2>3
<1>5. \A n \in Names : ctxs'[n] # None => ctxs'[n].org # None
  BY <1>2 DEF VerifiedOK
<1> QED BY <1>4, <1>5 DEF VerifiedOK

LEMMA Gain ==
  ASSUME IInv, NEW p \in Procs, proc[p].pc \notin {"granted", "set"},
         NEW u \in ProcState, Become(p, u), Coherent(u), SessionOK(u),
         u.kind = proc[p].kind, u.name = proc[p].name, u.api = proc[p].api, u.refresh = proc[p].refresh,
         u.ctx = proc[p].ctx, NEW k, RefreshOK(k.refresh), k.refresh.n = issuer.given + 1, Tokens(u) \subseteq Tokens(proc[p]) \cup {k},
         NEW R, R \subseteq {proc[p].refresh},
         R # {} => proc[p].pc = "refresh" /\ u.pc = "granted" /\ Rotates(proc[p].refresh),
         issuer.given < MaxGrants, issuer'.given = issuer.given + 1, issuer'.spent = issuer.spent \cup R,
         issuer'.api = issuer.api,
         issuer' \in [given : 0..MaxGrants, spent : SUBSET Refresh, lapsed : SUBSET Refresh, api : SUBSET Refresh],
         UNCHANGED <<ctxs, active, now, faults, crossed>>, config' \in Config,
         ~ crossed /\ FlagsAreRight => VerifiedOK'
  PROVE  IInv'
<1>. DEFINE r0 == k.refresh
<1>1. proc' \in [Procs -> ProcState] /\ \A q \in Procs : Coherent(proc'[q]) /\ SessionOK(proc'[q])
  BY KeepLocal
<1>2. TypeOK'
  BY <1>1 DEF IInv, TypeOK
<1>3. now' \in Nat /\ faults' \in Nat /\ crossed' \in BOOLEAN /\ IssuerOK'
      /\ \A n \in Names : ctxs'[n] # None => Named(n, ctxs'[n])
  BY DEF IInv, IssuerOK
<1>4. \A q \in Procs : proc'[q] = IF q = p THEN u ELSE proc[q]
  BY Becomes DEF IInv
<1>5. Held(u) \subseteq Held(proc[p]) \cup {r0}
  BY DEF Held
<1>6. issuer.given \in Nat /\ issuer.given < issuer.given + 1 /\ r0.n = issuer.given + 1 /\ r0 # None /\ NumbersOK
  BY LoginAssumption DEF IInv, IssuerOK, RefreshOK
<1>7. R # {} => R = {proc[p].refresh} /\ proc[p].refresh # None /\ RefreshOK(proc[p].refresh)
  BY DEF IInv, Coherent
<1>. HIDE DEF r0
<1>8. \A n : n <= issuer.given => n # issuer.given + 1
  BY <1>6
\* The new refresh token is none of those that exist.
<1>9. /\ r0 \notin issuer.api \cup issuer.spent
      /\ \A n \in Names : ctxs[n] # None => ctxs[n].auth.refresh # r0
      /\ \A q \in Procs : proc[q].refresh # r0 /\ proc[q].api # r0 /\ r0 \notin Held(proc[q])
  BY <1>6, <1>8 DEF NumbersOK
<1>10. NumbersOK'
  <2>1. \A q \in Procs : \A r \in Held(proc[q]) : r.n \in Nat
    <3>1. SUFFICES ASSUME NEW q \in Procs, NEW x \in Tokens(proc[q]) PROVE x.refresh.n \in Nat
      BY DEF Held
    <3>2. x.refresh \in Refresh
      BY DEF IInv, Coherent, TokenOf, RefreshOK
    <3> QED BY <3>2, LoginAssumption DEF Refresh
  <2>2. \A r \in Refresh : r.n \in Nat
    BY LoginAssumption DEF Refresh
  <2>3. \A n \in Nat : n <= issuer.given => n <= issuer.given + 1
    BY <1>6
  <2>4. \A q \in Procs : \A r \in Held(proc'[q]) : r.n <= issuer.given + 1
    <3>1. \A q \in Procs : \A r \in Held(proc[q]) : r.n <= issuer.given + 1
      BY <1>6, <2>1, <2>3 DEF NumbersOK
    <3>2. r0.n <= issuer.given + 1
      BY <1>6
    <3> QED BY <1>4, <1>5, <3>1, <3>2
  <2>5. \A q \in Procs : /\ proc'[q].refresh # None => proc'[q].refresh.n <= issuer.given + 1
                         /\ proc'[q].api # None => proc'[q].api.n <= issuer.given + 1
    <3>1. \A q \in Procs : /\ proc'[q].refresh = proc[q].refresh
                           /\ proc'[q].api = proc[q].api
      BY <1>4
    <3>2. \A q \in Procs : proc[q].refresh \in Refresh \cup {None} /\ proc[q].api \in Refresh \cup {None}
      BY DEF IInv, TypeOK, ProcState
    <3> QED BY <1>6, <2>2, <2>3, <3>1, <3>2 DEF NumbersOK
  <2>6. \A r \in issuer'.api \cup issuer'.spent : r.n <= issuer.given + 1
    <3>1. \A r \in issuer.api \cup issuer.spent : r.n <= issuer.given + 1
      <4>1. issuer.api \cup issuer.spent \subseteq Refresh
        BY DEF IInv, IssuerOK
      <4> QED BY <1>6, <2>2, <2>3, <4>1 DEF NumbersOK
    <3>2. \A r \in R : r.n <= issuer.given + 1
      <4>1. \A r \in R : r \in Refresh
        BY <1>7 DEF RefreshOK
      <4>2. \A r \in R : r.n <= issuer.given
        BY <1>6, <1>7 DEF NumbersOK
      <4> QED BY <2>2, <2>3, <4>1, <4>2
    <3> QED BY <3>1, <3>2
  <2>7. \A n \in Names : ctxs'[n] # None => ctxs'[n].auth.refresh.n <= issuer.given + 1
    <3>1. \A n \in Names : ctxs[n] # None => ctxs[n].auth.refresh \in Refresh
      BY DEF IInv, Named, TokenOf, RefreshOK
    <3> QED BY <1>6, <2>2, <2>3, <3>1 DEF NumbersOK
  <2>8. \A r \in issuer'.spent : Rotates(r)
    BY <1>6, <1>7 DEF NumbersOK
  <2>9. \A q \in Procs : proc'[q].ctx # None => proc'[q].ctx.auth.refresh.n <= issuer.given + 1
    <3>1. \A q \in Procs : proc'[q].ctx = proc[q].ctx
      BY <1>4
    <3>2. \A q \in Procs : proc[q].ctx # None => proc[q].ctx.auth.refresh \in Refresh
      BY DEF IInv, TypeOK, ProcState, Context, Token
    <3> QED BY <1>6, <2>2, <2>3, <3>1, <3>2 DEF NumbersOK
  <2> QED BY <2>4, <2>5, <2>6, <2>7, <2>8, <2>9 DEF NumbersOK, Rotates
<1>11. ASSUME ~ crossed' PROVE FreshOK'
  <2>1. FreshOK
    BY <1>11 DEF IInv
  <2>2. ASSUME NEW q \in Procs, NEW r \in Held(proc'[q]), Rotates(r)
        PROVE  /\ r \notin issuer'.api \cup issuer'.spent
               /\ \A n \in Names : ctxs[n] # None => ctxs[n].auth.refresh # r
               /\ \A o \in Procs : proc'[o].refresh # r /\ proc'[o].api # r /\ (o # q => r \notin Held(proc'[o]))
    <3>1. \A o \in Procs : proc'[o].refresh = proc[o].refresh /\ proc'[o].api = proc[o].api
      BY <1>4
    <3>2. CASE r \in Held(proc[q])
      <4>1. /\ r \notin issuer.api \cup issuer.spent
            /\ \A n \in Names : ctxs[n] # None => ctxs[n].auth.refresh # r
            /\ \A o \in Procs : proc[o].refresh # r /\ proc[o].api # r /\ (o # q => r \notin Held(proc[o]))
        BY <2>1, <2>2, <3>2 DEF FreshOK
      <4>2. r # r0
        BY <1>9, <3>2
      <4>3. \A o \in Procs : o # q => r \notin Held(proc'[o])
        BY <1>4, <1>5, <4>1, <4>2
      <4> QED BY <1>7, <3>1, <4>1, <4>3
    <3>3. CASE r \notin Held(proc[q])
      <4>1. q = p /\ r = r0
        BY <1>4, <1>5, <2>2, <3>3
      <4>2. r \notin R
        BY <1>7, <1>9, <4>1
      <4>3. \A o \in Procs : o # q => proc'[o] = proc[o]
        BY <1>4, <4>1
      <4> QED BY <1>9, <3>1, <4>1, <4>2, <4>3
    <3> QED BY <3>2, <3>3
  <2>3. ASSUME NEW n \in Names, ctxs[n] # None, Rotates(ctxs[n].auth.refresh)
        PROVE  /\ ctxs[n].auth.refresh \notin issuer'.api
               /\ \A q \in Procs : /\ proc'[q].api # ctxs[n].auth.refresh
                                   /\ proc'[q].kind # "token" => proc'[q].refresh # ctxs[n].auth.refresh
    <3>1. \A o \in Procs : proc'[o].refresh = proc[o].refresh /\ proc'[o].api = proc[o].api /\ proc'[o].kind = proc[o].kind
      BY <1>4
    <3> QED BY <2>1, <2>3, <3>1 DEF FreshOK
  <2> QED BY <2>2, <2>3 DEF FreshOK, Rotates
<1>12. ASSUME ~ crossed' PROVE Pending'
  <2>1. FreshOK /\ Pending
    BY <1>12 DEF IInv
  <2>2. SUFFICES ASSUME NEW n \in Names, ctxs[n] # None, ctxs[n].auth.refresh \in issuer.spent \cup R
                 PROVE  \E q \in Procs : Renewing(q, n)'
    BY DEF Pending
  <2>3. CASE ctxs[n].auth.refresh \in issuer.spent
    <3>1. PICK q \in Procs : Renewing(q, n)
      BY <2>1, <2>2, <2>3 DEF Pending
    <3>2. q # p
      BY <3>1 DEF Renewing
    <3> QED BY <1>4, <3>1, <3>2 DEF Renewing
  <2>4. CASE ctxs[n].auth.refresh \notin issuer.spent
    <3>. DEFINE r == ctxs[n].auth.refresh
    <3>1. r = proc[p].refresh /\ Rotates(r) /\ proc[p].pc = "refresh" /\ u.pc = "granted"
      BY <2>2, <2>4
    <3>2. proc[p].kind = "token"
      BY <2>1, <2>2, <3>1 DEF FreshOK
    <3>3. Named(n, ctxs[n])
      BY <2>2 DEF IInv
    <3>4. Coherent(proc[p]) /\ proc[p] \in ProcState
      BY DEF IInv, TypeOK
    <3>5. /\ proc[p].ctx # None /\ Named(proc[p].name, proc[p].ctx) /\ r = proc[p].ctx.auth.refresh
          /\ proc[p].name # None
      BY <3>1, <3>2, <3>4 DEF Coherent
    <3>6. proc[p].name \in Names
      BY <3>4, <3>5 DEF ProcState
    <3>7. n = proc[p].name
      <4>1. \A m \in Names : \A c : Named(m, c) /\ c.auth.refresh = r =>
              /\ m \in Orgs => r.issuer = "csp" /\ r.org = m
              /\ m = "tpsm" => r.issuer = "uaa"
              /\ m # "tmc"
        BY <3>1 DEF Named, TokenOf, Rotates
      <4>2. \A m \in Names : m \in Orgs \/ m = "tpsm" \/ m = "tmc"
        BY DEF Names
      <4> QED BY <2>2, <3>3, <3>5, <3>6, <4>1, <4>2
    <3> QED BY <1>4, <3>1, <3>2, <3>7 DEF Renewing
  <2> QED BY <2>3, <2>4
<1> QED BY <1>1, <1>2, <1>3, <1>10, <1>11, <1>12 DEF IInv

\* A token of a context at the public issuer is for the organization that names it.
LEMMA ContextOrg ==
  ASSUME NEW n \in Names, NEW c, Named(n, c), c.idp = "csp", c.type = "tanzu"
  PROVE  c.org = n /\ n \in Orgs /\ c.org # None
<1>1. n \in Orgs \/ n = "tpsm" \/ n = "tmc"
  BY DEF Names
<1> QED BY <1>1, LoginAssumption DEF Named, Names

\* The code of a login is exchanged for a token.
LEMMA ExchangeStep ==
  ASSUME IInv, NEW p \in Procs, InSession(p), Exchanges(p), NEW h \in Session, SetSess(p, h),
         h.token \in {Sess(p).token, Granted(p)}, h.got \in {Sess(p).got, Granted(p)},
         Fine(h, proc[p].pc, proc[p].tok),
         issuer' = [issuer EXCEPT !.given = issuer.given + 1],
         UNCHANGED <<config, ctxs, active, now, faults, crossed>>
  PROVE  IInv'
<1>. DEFINE s == proc[p]
            k == Granted(p)
            u == [s EXCEPT !.sess = h]
<1>1. s \in ProcState /\ Coherent(s) /\ Fine(s.sess, s.pc, s.tok)
  BY DEF IInv, TypeOK, SessionOK
<1>2. s.pc = "wait"
  BY <1>1 DEF InSession, Exchanges, Sess, Fine
<1>3. u \in ProcState /\ u.sess = h
  BY <1>1 DEF ProcState
<1>4. u.pc = s.pc /\ u.kind = s.kind /\ u.idp = s.idp /\ u.api = s.api /\ u.tls = s.tls
      /\ u.cert = s.cert /\ u.name = s.name /\ u.org = s.org /\ u.ctx = s.ctx /\ u.tok = s.tok /\ u.refresh = s.refresh
  BY <1>1 DEF ProcState
<1>5. Become(p, u) /\ SessionOK(u)
  BY <1>3, <1>4 DEF SetSess, SessionOK
<1>6. issuer.given < MaxGrants /\ s.org \in Orgs \cup {None} /\ Reaches(s.idp, s.tls)
  BY DEF Exchanges
<1>7. /\ TokenOf(s.idp, k) /\ k.refresh.n = issuer.given + 1
      /\ s.idp = "csp" /\ s.org # None => k.org = s.org
  BY <1>6, Grant
<1>. HIDE DEF u, k
<1>8. Tokens(u) \subseteq Tokens(s) \cup {k}
  BY <1>3, <1>4 DEF Tokens, Sess, k
<1>9. TokenFor(s, k)
  <2>1. ASSUME s.kind = "token", s.idp = "csp" PROVE k.org = s.ctx.org
    <3>1. s.org = s.ctx.org /\ Named(s.name, s.ctx) /\ s.ctx.idp = "csp" /\ s.ctx.type = "tanzu" /\ s.name # None
      BY <1>1, <1>2, <2>1 DEF Coherent
    <3>2. s.name \in Names
      BY <1>1, <3>1 DEF ProcState
    <3> QED BY <1>7, <2>1, <3>1, <3>2, ContextOrg
  <2> QED BY <1>7, <2>1 DEF TokenFor
<1>10. Coherent(u)
  BY <1>1, <1>2, <1>4, <1>8, <1>9, OldTokens, SessionIsCoherent
<1>11. /\ issuer'.given = issuer.given + 1 /\ issuer'.spent = issuer.spent /\ issuer'.api = issuer.api
       /\ issuer' \in [given : 0..MaxGrants, spent : SUBSET Refresh, lapsed : SUBSET Refresh, api : SUBSET Refresh]
  BY <1>6, LoginAssumption DEF IInv, IssuerOK
<1>12. ASSUME ~ crossed, FlagsAreRight PROVE VerifiedOK'
  <2>1. KnownOrg(s) /\ (s.kind = "login" /\ s.idp = "uaa" /\ Tokens(s) # {} =>
                          Reaches("uaa", IF s.tok # None THEN NoTLS ELSE s.tls))
    BY <1>12 DEF IInv, VerifiedOK
  <2>2. KnownOrg(u)
    BY <1>4, <2>1 DEF KnownOrg
  <2>3. s.tok # None => Tokens(s) # {}
    BY DEF Tokens
  <2>4. u.kind = "login" /\ u.idp = "uaa" => ReachesUnder(config, IF u.tok # None THEN NoTLS ELSE u.tls)
    BY <1>4, <1>6, <2>1, <2>3, ReachesIsUnder
  <2> QED BY <1>3, <1>5, <1>12, <2>2, <2>4, VerifiedAfter
<1>13. s.pc \notin {"granted", "set"} /\ RefreshOK(k.refresh)
  BY <1>2, <1>7 DEF TokenOf
<1>14. config' \in Config
  BY DEF IInv, TypeOK
<1>15. /\ u.kind = proc[p].kind /\ u.name = proc[p].name /\ u.api = proc[p].api /\ u.refresh = proc[p].refresh
       /\ Tokens(u) \subseteq Tokens(proc[p]) \cup {k} /\ proc[p].pc \notin {"granted", "set"} /\ u.ctx = proc[p].ctx
  BY <1>4, <1>8, <1>13
<1>. HIDE DEF s
<1>. DEFINE R == {}
<1>16. /\ R \subseteq {proc[p].refresh} /\ issuer'.spent = issuer.spent \cup R
       /\ R # {} => proc[p].pc = "refresh" /\ u.pc = "granted" /\ Rotates(proc[p].refresh)
  BY <1>11
<1>. HIDE DEF R
<1> QED BY <1>3, <1>5, <1>6, <1>7, <1>10, <1>11, <1>12, <1>13, <1>14, <1>15, <1>16, Gain

LEMMA CallbackExchangeStep == ASSUME IInv, NEW p \in Procs, NEW c \in Callbacks, CallbackExchange(p, c) PROVE IInv'
<1>. DEFINE h == Sess(p)
            k == Granted(p)
            m == [h EXCEPT !.token = k]
            b == [m EXCEPT !.used = TRUE, !.told = TRUE]
            g == [b EXCEPT !.cb[c] = "answer"]
<1>1. InSession(p) /\ h.cb[c] = "locked" /\ UNCHANGED <<config, ctxs, active, now, faults, crossed>>
  BY DEF CallbackExchange
<1>2. h \in Session /\ Fine(h, proc[p].pc, proc[p].tok)
  BY InSessionFacts
<1>3. CASE issuer' = issuer /\ SetSess(p, [h EXCEPT !.token = None, !.cb[c] = "answer"])
  BY <1>1, <1>3, CallbackFailsStep
<1>4. CASE /\ Exchanges(p) /\ issuer' = [issuer EXCEPT !.given = issuer.given + 1]
           /\ SetSess(p, [h EXCEPT !.token = Granted(p), !.used = TRUE, !.told = TRUE, !.cb[c] = "answer"])
  <2>1. SetSess(p, g)
    BY <1>4
  <2>2. k \in Token /\ k # None
    BY <1>4, Grant, LoginAssumption DEF Exchanges, TokenOf
  <2>. HIDE DEF k
  <2>3. m \in Session /\ m.cb = h.cb /\ m.token = k /\ m.got = h.got /\ m.complete = h.complete /\ m.mutex = h.mutex
        /\ m.prompt = h.prompt /\ m.prompted = h.prompted
    BY <1>2, <2>2 DEF Session
  <2>. HIDE DEF m
  <2>4. b \in Session /\ b.cb = m.cb /\ b.token = m.token /\ b.got = m.got /\ b.complete = m.complete
        /\ b.mutex = m.mutex /\ b.prompt = m.prompt /\ b.prompted = m.prompted
    <3>1. m \in Session
      BY <2>3
    <3> QED BY <3>1 DEF Session
  <2>5. g = [b EXCEPT !.cb = [b.cb EXCEPT ![c] = "answer"]]
    OBVIOUS
  <2>. HIDE DEF b, g
  <2>6. /\ g \in Session /\ \A x \in Callbacks : g.cb[x] = IF x = c THEN "answer" ELSE b.cb[x]
        /\ g.token = b.token /\ g.got = b.got /\ g.mutex = b.mutex /\ g.complete = b.complete
        /\ g.prompt = b.prompt /\ g.prompted = b.prompted
    <3>1. b \in Session
      BY <2>4
    <3> QED BY <3>1, <2>5, CbMoves
  <2>7. \A x \in Callbacks : h.cb[x] \in {"locked", "answer"} => x = c
    BY <1>1, <1>2 DEF Fine
  <2>8. \A x \in Callbacks : g.cb[x] # "locked" /\ (g.cb[x] = "answer" => x = c)
    BY <2>3, <2>4, <2>6, <2>7
  <2>9. h.mutex = c /\ ~ h.complete
    BY <1>1, <1>2, <1>4 DEF Fine, Exchanges
  <2>10. proc[p].pc \notin {"check", "close"}
    BY <1>2, <2>9 DEF Fine
  <2>11. g.token = k /\ g.got = h.got /\ g.mutex = c /\ g.prompted = h.prompted /\ g.prompt = h.prompt
    BY <2>3, <2>4, <2>6, <2>9
  <2>12. Fine(g, proc[p].pc, proc[p].tok)
    BY <1>2, <2>2, <2>8, <2>10, <2>11 DEF Fine
  <2> QED BY <1>1, <1>4, <2>1, <2>6, <2>11, <2>12, ExchangeStep DEF k
<1> QED BY <1>3, <1>4 DEF CallbackExchange

LEMMA PromptExchangeStep == ASSUME IInv, NEW p \in Procs, PromptExchange(p) PROVE IInv'
<1>. DEFINE h == Sess(p)
            k == Granted(p)
            g == [h EXCEPT !.got = k, !.used = TRUE, !.prompt = "store"]
<1>1. InSession(p) /\ h.prompt = "pasted" /\ UNCHANGED <<config, ctxs, active, now, faults, crossed>>
  BY DEF PromptExchange
<1>2. h \in Session /\ Fine(h, proc[p].pc, proc[p].tok)
  BY InSessionFacts
<1>3. CASE issuer' = issuer /\ SetSess(p, [h EXCEPT !.prompt = "store"])
  BY <1>1, <1>3, PastedFailsStep
<1>4. CASE Exchanges(p) /\ issuer' = [issuer EXCEPT !.given = issuer.given + 1] /\ SetSess(p, g)
  <2>1. SetSess(p, g)
    BY <1>4
  <2>2. k \in Token
    BY <1>4, Grant DEF Exchanges, TokenOf
  <2>. HIDE DEF k
  <2>3. g \in Session /\ g.cb = h.cb /\ g.token = h.token /\ g.got = k /\ g.complete = h.complete /\ g.mutex = h.mutex
        /\ g.prompted = h.prompted /\ g.told = h.told
    BY <1>2, <2>2 DEF Session
  <2>. HIDE DEF g
  <2>4. Fine(g, proc[p].pc, proc[p].tok)
    BY <1>1, <1>2, <2>3 DEF Fine
  <2> QED BY <1>1, <1>4, <2>1, <2>3, <2>4, ExchangeStep DEF k
<1> QED BY <1>3, <1>4 DEF PromptExchange

\* A login with a refresh token.
LEMMA RefreshedStep ==
  ASSUME IInv, NEW p \in Procs, proc[p].pc = "refresh", Accepted(proc[p].refresh), Reaches(proc[p].idp, proc[p].tls),
         Renews(proc[p].refresh), Become(p, [proc[p] EXCEPT !.pc = "granted", !.tok = Renewed(proc[p].refresh)]),
         config' = (IF proc[p].suppress THEN updateCertMap(config, proc[p].tls) ELSE config),
         UNCHANGED <<ctxs, active, now, faults, crossed>>
  PROVE  IInv'
<1>. DEFINE s == proc[p]
            r == s.refresh
            k == Renewed(r)
            u == [s EXCEPT !.pc = "granted", !.tok = k]
<1>1. s \in ProcState /\ Coherent(s) /\ SessionOK(s)
  BY DEF IInv, TypeOK
<1>2. s.kind \in {"login", "token"}
  BY <1>1, KindsAt
<1>3. /\ r # None /\ RefreshOK(r) /\ r.issuer = s.idp /\ (s.kind = "login" => s.suppress) /\ s.tok = None
      /\ s.sess = NoSession /\ s.tls \in TLSOptions \cup {NoTLS}
      /\ s.kind = "token" => /\ r = s.ctx.auth.refresh /\ s.ctx # None /\ Named(s.name, s.ctx)
                             /\ s.ctx.idp = s.idp /\ s.ctx.type = "tanzu" /\ s.name # None
                             /\ s.idp = "csp" => s.org = s.ctx.org /\ s.ctx.kind # "api-token"
  BY <1>1 DEF Coherent
<1>. HIDE DEF r
<1>4. TokenOf(s.idp, k) /\ k.org = r.org
  <2>1. ~ Rotates(r) \/ issuer.given < MaxGrants
    BY DEF Renews, Rotates, r
  <2> QED BY <1>3, <2>1, Renewal
<1>5. k \in Token /\ k # None
  BY <1>4, LoginAssumption DEF TokenOf
<1>6. Become(p, u)
  BY DEF r
<1>. HIDE DEF k
<1>7. u \in ProcState /\ u.pc = "granted" /\ u.tok = k /\ SameSession(u, s) /\ u.refresh = s.refresh
      /\ u.name = s.name /\ u.ctx = s.ctx
  <2>1. "granted" \in PCs
    BY DEF PCs
  <2>2. u \in ProcState /\ u.pc = "granted" /\ u.tok = k
    BY <1>1, <1>5, <2>1 DEF ProcState
  <2>3. SameSession(u, s) /\ u.refresh = s.refresh /\ u.name = s.name /\ u.ctx = s.ctx
    BY <1>1 DEF ProcState, SameSession
  <2> QED BY <2>2, <2>3
<1>. HIDE DEF u
<1>8. Coherent(u) /\ SessionOK(u) /\ Tokens(u) = {k} /\ Held(u) = {k.refresh}
  <2>1. u.kind = "token" /\ u.idp = "csp" => k.org = u.ctx.org /\ u.ctx.kind # "api-token"
    <3>1. SUFFICES ASSUME s.kind = "token", s.idp = "csp" PROVE k.org = s.ctx.org /\ s.ctx.kind # "api-token"
      BY <1>7 DEF SameSession
    <3>2. s.name \in Names
      BY <1>1, <1>3, <3>1 DEF ProcState
    <3>3. s.ctx.org = s.name /\ s.name \in Orgs
      BY <1>3, <3>1, <3>2, ContextOrg
    <3>4. s.ctx.auth.org = s.ctx.org /\ r.org = s.ctx.auth.org
      BY <1>3, <3>1, <3>3 DEF Named, TokenOf
    <3> QED BY <1>3, <1>4, <3>1, <3>4
  <2>2. u.api # None => /\ RefreshOK(u.api) /\ u.api.issuer = u.idp /\ (u.idp = "csp" => u.api.n = 0)
                        /\ u.kind \in {"login", "tmc"}
    BY <1>1, <1>7 DEF Coherent, SameSession
  <2>3. ~ (u.api # None /\ u.idp = "csp")
    BY <1>1, <1>7 DEF Coherent, SameSession
  <2> QED BY <1>2, <1>3, <1>4, <1>5, <1>7, <2>1, <2>2, <2>3, GrantedIsCoherent DEF SameSession
<1>9. config' \in Config
  <2>1. config \in Config /\ s.tls \in [ca : CAs \cup {None}, skip : BOOLEAN]
    BY <1>1 DEF IInv, TypeOK, ProcState
  <2> QED BY <2>1, CertMapType
<1>10. ASSUME ~ crossed, FlagsAreRight PROVE VerifiedOK'
  <2>1. KnownOrg(s)
    BY <1>10 DEF IInv, VerifiedOK
  <2>2. KnownOrg(u)
    BY <1>7, <2>1 DEF KnownOrg, SameSession
  <2>3. config' = config \/ config' = updateCertMap(config, s.tls)
    OBVIOUS
  <2>4. ASSUME u.kind = "login", u.idp = "uaa" PROVE ReachesUnder(config', NoTLS)
    <3>1. s.kind = "login" /\ s.idp = "uaa"
      BY <1>7, <2>4 DEF SameSession
    <3>2. config' = updateCertMap(config, s.tls) /\ ReachesUnder(config, s.tls)
      BY <1>3, <3>1, ReachesIsUnder
    <3>3. config \in Config
      BY DEF IInv, TypeOK
    <3>4. /\ s.tls # NoTLS => ReachesUnder(updateCertMap(config, s.tls), NoTLS)
          /\ ReachesUnder(config, s.tls) => ReachesUnder(updateCertMap(config, s.tls), s.tls)
      BY <1>3, <1>10, <3>3, CertMapReaches
    <3> QED BY <3>2, <3>4
  <2> QED BY <1>5, <1>6, <1>7, <1>10, <2>2, <2>3, <2>4, VerifiedAfter
<1>11. CASE ~ Rotates(r)
  <2>1. issuer' = issuer /\ k.refresh = r
    BY <1>3, <1>11, Renewal DEF Renews, Rotates, r, k
  <2>2. r.n <= issuer.given
    BY <1>3 DEF IInv, NumbersOK, r
  <2>3. Quiet(p, u)
    BY <1>7, <1>8, <1>11, <2>1, <2>2 DEF Quiet, SameSession
  <2>4. StillRenews(p, u)
    BY DEF StillRenews, Renewing
  <2>5. faults' \in Nat /\ crossed' \in BOOLEAN /\ (crossed => crossed')
    BY DEF IInv
  <2> QED BY <1>6, <1>7, <1>8, <1>9, <1>10, <2>1, <2>3, <2>4, <2>5, Keep
<1>12. CASE Rotates(r)
  <2>1. issuer.given < MaxGrants /\ issuer' = [issuer EXCEPT !.given = issuer.given + 1, !.spent = issuer.spent \cup {r}]
    BY <1>12 DEF Renews, Rotates, r
  <2>2. RefreshOK(k.refresh) /\ k.refresh.n = issuer.given + 1
    BY <1>3, <1>12, <2>1, Renewal DEF TokenOf, k
  <2>3. r \in Refresh
    BY <1>3 DEF RefreshOK
  <2>4. /\ issuer'.given = issuer.given + 1 /\ issuer'.spent = issuer.spent \cup {r} /\ issuer'.api = issuer.api
        /\ issuer' \in [given : 0..MaxGrants, spent : SUBSET Refresh, lapsed : SUBSET Refresh, api : SUBSET Refresh]
    <3>. DEFINE g == issuer.given + 1
                t == issuer.spent \cup {r}
    <3>1. issuer \in [given : 0..MaxGrants, spent : SUBSET Refresh, lapsed : SUBSET Refresh, api : SUBSET Refresh]
      BY DEF IInv, IssuerOK
    <3>2. g \in 0..MaxGrants /\ t \in SUBSET Refresh
      BY <2>1, <2>3, <3>1, LoginAssumption
    <3>3. issuer' = [issuer EXCEPT !.given = g, !.spent = t]
      BY <2>1
    <3>. HIDE DEF g, t
    <3>4. issuer'.given = g /\ issuer'.spent = t /\ issuer'.api = issuer.api
          /\ issuer' \in [given : 0..MaxGrants, spent : SUBSET Refresh, lapsed : SUBSET Refresh, api : SUBSET Refresh]
      BY <3>1, <3>2, <3>3
    <3> QED BY <3>4 DEF g, t
  <2>. DEFINE R == {r}
  <2>5. /\ R \subseteq {proc[p].refresh} /\ issuer'.spent = issuer.spent \cup R
        /\ R # {} => proc[p].pc = "refresh" /\ u.pc = "granted" /\ Rotates(proc[p].refresh)
    BY <1>7, <1>12, <2>4 DEF r
  <2>6. Tokens(u) \subseteq Tokens(proc[p]) \cup {k} /\ proc[p].pc \notin {"granted", "set"}
    BY <1>8
  <2>7. u.kind = proc[p].kind /\ u.name = proc[p].name /\ u.api = proc[p].api /\ u.refresh = proc[p].refresh
        /\ u.ctx = proc[p].ctx
    BY <1>7 DEF SameSession
  <2>. HIDE DEF R, s
  <2> QED BY <1>6, <1>7, <1>8, <1>9, <1>10, <2>1, <2>2, <2>4, <2>5, <2>6, <2>7, Gain
<1> QED BY <1>11, <1>12

LEMMA DoLoginStep == ASSUME IInv, NEW p \in Procs, DoLogin(p) PROVE IInv'
<1>1. proc[p].pc = "refresh" /\ UNCHANGED <<ctxs, active, now, faults, crossed>>
  BY DEF DoLogin, At
<1>2. proc[p].kind # "tmc" /\ (proc[p].api # None => proc[p].idp = "uaa")
  <2>1. Coherent(proc[p]) /\ proc[p].idp \in {"csp", "uaa"}
    BY DEF IInv, TypeOK, ProcState, Idps
  <2>2. proc[p].kind # "tmc"
    BY <1>1, <2>1, KindsAt
  <2> QED BY <1>1, <2>1, <2>2 DEF Coherent
<1>3. CASE UNCHANGED <<config, issuer>> /\ Return(p)
  BY <1>1, <1>3, ReturnKeeps
<1>4. CASE UNCHANGED <<config, issuer>> /\ Goto(p, "listen")
  BY <1>1, <1>2, <1>4, GotoListen
<1>5. CASE /\ Accepted(proc[p].refresh) /\ Reaches(proc[p].idp, proc[p].tls) /\ Renews(proc[p].refresh)
           /\ Become(p, [proc[p] EXCEPT !.pc = "granted", !.tok = Renewed(proc[p].refresh)])
           /\ config' = IF proc[p].suppress THEN updateCertMap(config, proc[p].tls) ELSE config
  BY <1>1, <1>5, RefreshedStep
<1> QED BY <1>3, <1>4, <1>5 DEF DoLogin

\* The browser is opened, with a prompt or not.
LEMMA browserLoginStep == ASSUME IInv, NEW p \in Procs, browserLogin(p) PROVE IInv'
<1>. DEFINE s == proc[p]
<1>1. s \in ProcState /\ Coherent(s) /\ s.pc = "listen" /\ UNCHANGED <<config, ctxs, active, issuer, now, faults, crossed>>
  BY DEF IInv, TypeOK, browserLogin, At, OnlyProc
<1>2. CASE Return(p)
  BY <1>1, <1>2, ReturnKeeps
<1>3. ASSUME NEW prompt \in Prompts, Become(p, [s EXCEPT !.pc = "wait", !.sess = [NoSession EXCEPT !.prompt = prompt]])
      PROVE  IInv'
  <2>. DEFINE h == [NoSession EXCEPT !.prompt = prompt]
              u == [s EXCEPT !.pc = "wait", !.sess = h]
  <2>1. prompt \in {"off", "reading"}
    BY LoginAssumption
  <2>2. NoSession \in Session /\ NoSession.token = None /\ NoSession.got = None /\ ~ NoSession.told
        /\ \A c \in Callbacks : NoSession.cb[c] = "none"
    BY IdleType DEF NoSession
  <2>3. h \in Session /\ h.prompt = prompt /\ h.token = NoSession.token /\ h.got = NoSession.got /\ h.cb = NoSession.cb
        /\ h.told = NoSession.told
    BY <2>1, IdleType DEF Session
  <2>4. Become(p, u)
    BY <1>3
  <2>. HIDE DEF h
  <2>5. u \in ProcState /\ u.pc = "wait" /\ u.sess = h
    <3>1. "wait" \in PCs
      BY DEF PCs
    <3> QED BY <1>1, <2>3, <3>1 DEF ProcState
  <2>6. u.kind = s.kind /\ u.idp = s.idp /\ u.api = s.api /\ u.tls = s.tls
        /\ u.cert = s.cert /\ u.name = s.name /\ u.org = s.org /\ u.ctx = s.ctx /\ u.tok = s.tok /\ u.refresh = s.refresh
    BY <1>1 DEF ProcState
  <2>. HIDE DEF u
  <2>7. s.tok = None
    BY <1>1 DEF Coherent
  <2>8. Tokens(u) = {}
    BY <2>2, <2>3, <2>5, <2>6, <2>7 DEF Tokens
  <2>9. Coherent(u)
    BY <1>1, <2>5, <2>6, <2>8, SessionIsCoherent
  <2>10. SessionOK(u)
    BY <2>1, <2>2, <2>3, <2>5 DEF SessionOK, Fine
  <2>11. Quiet(p, u)
    BY <2>6, <2>8 DEF Quiet, Held
  <2>12. StillRenews(p, u)
    BY <1>1 DEF StillRenews, Renewing
  <2>13. ~ crossed' /\ FlagsAreRight => Verified(u)
    <3>1. ~ crossed' /\ FlagsAreRight => KnownOrg(s)
      BY <1>1 DEF IInv, VerifiedOK
    <3> QED BY <2>5, <2>6, <2>8, <3>1 DEF Verified, KnownOrg
  <2> QED BY <1>1, <2>4, <2>5, <2>9, <2>10, <2>11, <2>12, <2>13, KeepAll
<1> QED BY <1>2, <1>3 DEF browserLogin

\* The main goroutine moves on.
LEMMA MainMoves ==
  ASSUME IInv, NEW p \in Procs, InSession(p), NEW u \in ProcState, Become(p, u),
         u.pc \in {"check", "close"}, Sess(p).complete,
         u.pc = "check" => Sess(p).token # None \/ Sess(p).prompted,
         u.pc = "close" /\ Sess(p).told /\ ~ Sess(p).prompted => u.tok # None,
         u.sess = proc[p].sess, u.kind = proc[p].kind, u.idp = proc[p].idp, u.api = proc[p].api, u.tls = proc[p].tls,
         u.cert = proc[p].cert, u.name = proc[p].name, u.org = proc[p].org, u.ctx = proc[p].ctx,
         u.refresh = proc[p].refresh, u.tok \in {proc[p].tok, proc[p].sess.token},
         proc[p].tok # None => u.tok # None,
         u.tok # None /\ proc[p].tok = None => config' = updateCertMap(config, proc[p].tls),
         UNCHANGED <<ctxs, active, issuer, now, faults, crossed>>,
         config' = config \/ config' = updateCertMap(config, proc[p].tls)
  PROVE  IInv'
<1>. DEFINE s == proc[p]
<1>1. s \in ProcState /\ Coherent(s) /\ Fine(s.sess, s.pc, s.tok) /\ s.pc \in {"wait", "check", "close"}
  BY DEF IInv, TypeOK, SessionOK, InSession
<1>2. Tokens(u) \subseteq Tokens(s)
  BY DEF Tokens
<1>3. Coherent(u)
  BY <1>1, <1>2, OldTokens, SessionIsCoherent
<1>4. SessionOK(u)
  <2>1. Fine(s.sess, u.pc, u.tok)
    BY <1>1 DEF Fine, Sess
  <2> QED BY <2>1 DEF SessionOK
<1>5. Quiet(p, u)
  BY <1>2 DEF Quiet, Held
<1>6. StillRenews(p, u)
  BY <1>1 DEF StillRenews, Renewing
<1>7. config' \in Config
  <2>1. config \in Config /\ s.tls \in [ca : CAs \cup {None}, skip : BOOLEAN]
    BY <1>1 DEF IInv, TypeOK, ProcState
  <2> QED BY <2>1, CertMapType
<1>8. ASSUME ~ crossed, FlagsAreRight PROVE VerifiedOK'
  <2>1. KnownOrg(s) /\ (s.kind = "login" /\ s.idp = "uaa" /\ Tokens(s) # {} =>
                          Reaches("uaa", IF s.tok # None THEN NoTLS ELSE s.tls))
    BY <1>8 DEF IInv, VerifiedOK
  <2>2. KnownOrg(u)
    BY <2>1 DEF KnownOrg
  <2>3. config \in Config /\ s.tls \in TLSOptions \cup {NoTLS}
    BY <1>1 DEF IInv, TypeOK, Coherent
  <2>4. /\ s.tls # NoTLS => ReachesUnder(updateCertMap(config, s.tls), NoTLS)
        /\ \A t \in TLSOptions \cup {NoTLS} : ReachesUnder(config, t) => ReachesUnder(updateCertMap(config, s.tls), t)
    BY <1>8, <2>3, CertMapReaches
  <2>5. ASSUME u.kind = "login", u.idp = "uaa", Tokens(u) # {}
        PROVE  ReachesUnder(config', IF u.tok # None THEN NoTLS ELSE u.tls)
    <3>1. ReachesUnder(config, IF s.tok # None THEN NoTLS ELSE s.tls)
      BY <1>2, <2>1, <2>5, ReachesIsUnder
    <3>2. CASE s.tok # None
      BY <2>3, <2>4, <3>1, <3>2
    <3>3. CASE s.tok = None /\ u.tok = None
      BY <2>3, <2>4, <3>1, <3>3
    <3>4. CASE s.tok = None /\ u.tok # None
      BY <2>3, <2>4, <3>1, <3>4
    <3> QED BY <3>2, <3>3, <3>4
  <2> QED BY <1>8, <2>2, <2>5, VerifiedAfter
<1>9. faults' \in Nat /\ crossed' \in BOOLEAN /\ (crossed => crossed')
  BY DEF IInv
<1> QED BY <1>3, <1>4, <1>5, <1>6, <1>7, <1>8, <1>9, Keep

LEMMA ExchangeCompletesStep == ASSUME IInv, NEW p \in Procs, ExchangeCompletes(p) PROVE IInv'
<1>. DEFINE s == proc[p]
            x == IF Sess(p).token = None THEN "close" ELSE "check"
            u == [s EXCEPT !.pc = x]
<1>1. /\ s \in ProcState /\ s.pc = "wait" /\ Sess(p).complete /\ Become(p, u)
      /\ UNCHANGED <<config, ctxs, active, issuer, now, faults, crossed>>
  BY DEF IInv, TypeOK, ExchangeCompletes, At, OnlyProc, Goto
<1>2. InSession(p) /\ Fine(Sess(p), s.pc, s.tok)
  BY <1>1 DEF IInv, SessionOK, Sess, InSession
<1>3. x \in {"check", "close"} /\ x \in PCs /\ (x = "check" => Sess(p).token # None)
      /\ (x = "close" => Sess(p).token = None)
  BY DEF PCs
<1>. HIDE DEF x
<1>4. u \in ProcState /\ u.pc = x /\ Same(u, s)
  BY <1>1, <1>3, GotoFacts
<1>. HIDE DEF u
<1>5. x = "close" => ~ (Sess(p).told /\ ~ Sess(p).prompted)
  BY <1>2, <1>3 DEF Fine
<1> QED BY <1>1, <1>2, <1>3, <1>4, <1>5, MainMoves DEF Same, SameSession

LEMMA ReadTokenStep == ASSUME IInv, NEW p \in Procs, ReadToken(p) PROVE IInv'
<1>. DEFINE s == proc[p]
            k == Sess(p).token
            u == [s EXCEPT !.pc = "close", !.tok = k]
<1>1. s \in ProcState /\ Coherent(s) /\ s.pc = "check" /\ UNCHANGED <<ctxs, active, issuer, now, faults, crossed>>
  BY DEF IInv, TypeOK, ReadToken, At
<1>2. CASE Return(p) /\ config' = config
  BY <1>1, <1>2, ReturnKeeps
<1>3. CASE k # None /\ Become(p, u) /\ config' = updateCertMap(config, s.tls)
  <2>1. InSession(p) /\ Fine(Sess(p), s.pc, s.tok) /\ k \in Token \cup {None} /\ k = s.sess.token
    BY <1>1, InSessionFacts DEF InSession, Session, Sess
  <2>2. k # None /\ Become(p, u) /\ config' = updateCertMap(config, s.tls)
    BY <1>3
  <2>. HIDE DEF k
  <2>3. u \in ProcState /\ u.pc = "close" /\ u.tok = k
    <3>1. "close" \in PCs
      BY DEF PCs
    <3> QED BY <1>1, <2>1, <3>1 DEF ProcState
  <2>4. u.kind = s.kind /\ u.idp = s.idp /\ u.api = s.api /\ u.tls = s.tls /\ u.sess = s.sess
        /\ u.cert = s.cert /\ u.name = s.name /\ u.org = s.org /\ u.ctx = s.ctx /\ u.refresh = s.refresh
    BY <1>1 DEF ProcState
  <2>. HIDE DEF u
  <2>5. Sess(p).complete
    BY <1>1, <2>1 DEF Fine
  <2> QED BY <1>1, <2>1, <2>2, <2>3, <2>4, <2>5, MainMoves
<1> QED BY <1>2, <1>3 DEF ReadToken

LEMMA CloseSessionStep == ASSUME IInv, NEW p \in Procs, CloseSession(p) PROVE IInv'
<1>. DEFINE s == proc[p]
            u == [s EXCEPT !.pc = "granted", !.sess = NoSession]
<1>1. s \in ProcState /\ Coherent(s) /\ s.pc = "close" /\ UNCHANGED <<config, ctxs, active, issuer, now, faults, crossed>>
  BY DEF IInv, TypeOK, CloseSession, At, OnlyProc
<1>2. CASE Return(p)
  BY <1>1, <1>2, ReturnKeeps
<1>3. CASE s.tok # None /\ Become(p, u)
  <2>1. s.tok # None /\ Become(p, u)
    BY <1>3
  <2>2. u \in ProcState /\ u.pc = "granted" /\ u.sess = NoSession
    <3>1. "granted" \in PCs /\ NoSession \in Session /\ s \in ProcState
      BY <1>1, IdleType DEF PCs
    <3>. HIDE DEF s
    <3> QED BY <3>1 DEF ProcState
  <2>3. u.kind = s.kind /\ u.idp = s.idp /\ u.api = s.api /\ u.tls = s.tls /\ u.tok = s.tok
        /\ u.cert = s.cert /\ u.name = s.name /\ u.org = s.org /\ u.ctx = s.ctx /\ u.refresh = s.refresh
    BY <1>1 DEF ProcState
  <2>. HIDE DEF u
  <2>4. s.kind \in {"login", "token", "apitoken"}
    BY <1>1, KindsAt
  <2>5. s.tok \in Tokens(s)
    BY <2>1 DEF Tokens
  <2>6. TokenOf(s.idp, s.tok) /\ s.tls \in TLSOptions \cup {NoTLS} /\ (s.kind = "apitoken" => s.idp = "uaa")
        /\ (s.api # None => /\ RefreshOK(s.api) /\ s.api.issuer = s.idp /\ (s.idp = "csp" => s.api.n = 0)
                            /\ s.kind \in {"login", "tmc"})
        /\ ~ (s.api # None /\ s.idp = "csp")
    BY <1>1, <2>5 DEF Coherent
  <2>7. s.kind = "token" =>
           /\ s.name # None /\ s.ctx # None /\ Named(s.name, s.ctx) /\ s.ctx.idp = s.idp /\ s.ctx.type = "tanzu"
           /\ s.idp = "csp" => s.tok.org = s.ctx.org /\ s.ctx.kind # "api-token"
    BY <1>1, <2>5 DEF Coherent
  <2>8. Coherent(u) /\ SessionOK(u) /\ Tokens(u) = {u.tok} /\ Held(u) = {u.tok.refresh}
    BY <2>1, <2>2, <2>3, <2>4, <2>6, <2>7, GrantedIsCoherent
  <2>9. s.tok.refresh \in Held(s)
    BY <2>5 DEF Held
  <2>10. Quiet(p, u)
    BY <2>3, <2>8, <2>9 DEF Quiet
  <2>11. StillRenews(p, u)
    BY <1>1 DEF StillRenews, Renewing
  <2>12. ~ crossed' /\ FlagsAreRight => Verified(u)
    <3>1. ~ crossed' /\ FlagsAreRight => Verified(s)
      BY <1>1 DEF IInv, VerifiedOK, Verified
    <3>2. KnownOrg(s) => KnownOrg(u)
      BY <2>2, <2>3 DEF KnownOrg
    <3> QED BY <2>1, <2>3, <2>5, <3>1, <3>2 DEF Verified
  <2> QED BY <1>1, <2>1, <2>2, <2>8, <2>10, <2>11, <2>12, KeepAll
<1> QED BY <1>2, <1>3 DEF CloseSession

-----------------------------------------------------------------------------
(* From the token to the configuration *)

\* A process with a context that it made of its token.
LEMMA ContextIsCoherent ==
  ASSUME NEW s, Coherent(s), s.pc \in {"granted", "metadata"},
         NEW u, u.kind = s.kind, u.idp = s.idp, u.api = s.api, u.tls = s.tls, u.cert = s.cert, u.sess = s.sess, u.tok = s.tok,
         u.pc \in {"metadata", "add", "set"}, u.pc \in Reachable(u.kind), u.kind = "tmc" => u.name = "tmc",
         u.ctx # None, u.name # None, Named(u.name, u.ctx), u.ctx.auth = u.tok, u.pc = "metadata" => u.name # "tmc",
         u.kind = "token" => u.ctx.idp = u.idp /\ u.ctx.type = "tanzu" /\ u.ctx.org = s.ctx.org /\ u.ctx.kind = s.ctx.kind
  PROVE  Coherent(u) /\ SessionOK(u) /\ Tokens(u) = Tokens(s) /\ Held(u) = Held(s)
<1>1. Tokens(u) = Tokens(s)
  BY DEF Tokens
<1>2. Held(u) = Held(s)
  BY <1>1 DEF Held
<1>3. s.sess = NoSession /\ s.tok # None
  BY DEF Coherent
<1>4. /\ NoSession.token = None /\ NoSession.got = None /\ ~ NoSession.told /\ NoSession.prompt = "off"
      /\ \A c \in Callbacks : NoSession.cb[c] = "none"
  BY DEF NoSession
<1>5. SessionOK(u)
  BY <1>3, <1>4 DEF SessionOK, Fine
<1>6. /\ u.pc # "idle" /\ u.pc # "certset" /\ u.pc # "refresh" /\ u.pc # "get" /\ u.kind # "certupdate"
      /\ ~ (u.pc \in {"endpoint", "get", "refresh", "listen"})
      /\ ~ (u.pc \in {"refresh", "listen", "wait", "check", "close"})
      /\ u.kind \in {"login", "token", "apitoken", "tmc"} /\ (u.pc = "set" => u.kind = "token")
  <2>1. s.kind \in {"login", "token", "apitoken", "tmc"}
    BY KindsAt
  <2>2. "set" \notin Reachable("login") /\ "set" \notin Reachable("tmc") /\ "set" \notin Reachable("apitoken")
    BY DEF Reachable
  <2> QED BY <2>1, <2>2
<1>7. u.api # None => u.kind \in {"login", "tmc"}
  BY DEF Coherent
<1>8. u.kind = "token" => /\ u.idp = "csp" => /\ \A t \in Tokens(u) : t.org = u.ctx.org
                                              /\ u.ctx.kind = "api-token" => \A t \in Tokens(u) : t.refresh.n = 0
  BY <1>1 DEF Coherent
<1>9. u.api # None /\ u.idp = "csp" => u.pc \in {"endpoint", "granted", "metadata", "add"} /\ \A t \in Tokens(u) : t.refresh.n = 0
  BY <1>1, <1>6, <1>7 DEF Coherent
<1>10. /\ u.tls \in TLSOptions \cup {NoTLS}
       /\ u.kind = "tmc" => u.idp = "csp" /\ u.api # None
       /\ u.kind = "apitoken" => u.idp = "uaa"
       /\ u.api # None => RefreshOK(u.api) /\ u.api.issuer = u.idp /\ (u.idp = "csp" => u.api.n = 0)
       /\ \A t \in Tokens(u) : TokenOf(u.idp, t)
       /\ u.sess = NoSession /\ u.tok # None
  BY <1>1, <1>3 DEF Coherent
<1>11. Coherent(u)
  BY <1>6, <1>7, <1>8, <1>9, <1>10 DEF Coherent
<1> QED BY <1>1, <1>2, <1>5, <1>11

\* One such step.
LEMMA ContextStep ==
  ASSUME IInv, NEW p \in Procs, proc[p].pc \in {"granted", "metadata"},
         NEW u \in ProcState, Become(p, u), UNCHANGED <<config, ctxs, active, issuer, now, faults, crossed>>,
         u.kind = proc[p].kind, u.idp = proc[p].idp, u.api = proc[p].api, u.tls = proc[p].tls, u.cert = proc[p].cert,
         u.sess = proc[p].sess, u.tok = proc[p].tok, u.refresh = proc[p].refresh,
         u.pc \in {"metadata", "add", "set"}, u.pc \in Reachable(u.kind), u.kind = "tmc" => u.name = "tmc",
         u.ctx # None, u.name # None, Named(u.name, u.ctx), u.ctx.auth = u.tok, u.pc = "metadata" => u.name # "tmc",
         u.kind = "token" => /\ u.ctx.idp = u.idp /\ u.ctx.type = "tanzu" /\ u.ctx.org = proc[p].ctx.org
                             /\ u.ctx.kind = proc[p].ctx.kind /\ u.name = proc[p].name /\ u.pc = "set",
         ~ crossed /\ FlagsAreRight => u.ctx.org # None
  PROVE  IInv'
<1>1. Coherent(proc[p])
  BY DEF IInv
<1>2. Coherent(u) /\ SessionOK(u) /\ Tokens(u) = Tokens(proc[p]) /\ Held(u) = Held(proc[p])
  BY <1>1, ContextIsCoherent
<1>3. Quiet(p, u)
  <2>0. u.tok # None
    BY <1>1 DEF Coherent
  <2>1. u.tok \in Tokens(u)
    BY <2>0 DEF Tokens
  <2>2. u.ctx.auth.refresh \in Held(proc[p])
    BY <1>2, <2>1 DEF Held
  <2> QED BY <1>2, <2>2 DEF Quiet
<1>4. StillRenews(p, u)
  BY DEF StillRenews, Renewing
<1>5. ~ crossed' /\ FlagsAreRight => Verified(u)
  <2>1. SUFFICES ASSUME ~ crossed, FlagsAreRight PROVE Verified(u)
    OBVIOUS
  <2>2. Verified(proc[p])
    BY <2>1 DEF IInv, VerifiedOK, Verified
  <2>3. KnownOrg(u)
    BY <2>1 DEF KnownOrg
  <2> QED BY <1>2, <2>2, <2>3 DEF Verified
<1> QED BY <1>2, <1>3, <1>4, <1>5, KeepAll

LEMMA GetTokenStep == ASSUME IInv, NEW p \in Procs, GetToken(p) PROVE IInv'
<1>. DEFINE s == proc[p]
            k == s.tok
            d == [s.ctx EXCEPT !.auth = k]
            u == [s EXCEPT !.pc = "set", !.ctx = d]
<1>1. s \in ProcState /\ Coherent(s) /\ s.pc = "granted" /\ s.kind = "token" /\ Become(p, u)
      /\ UNCHANGED <<config, ctxs, active, issuer, now, faults, crossed>>
  BY DEF IInv, TypeOK, GetToken, At, OnlyProc
<1>2. k # None /\ k \in Tokens(s)
  BY <1>1 DEF Coherent, Tokens
<1>3. /\ TokenOf(s.idp, k) /\ s.ctx # None /\ Named(s.name, s.ctx) /\ s.ctx.idp = s.idp /\ s.ctx.type = "tanzu" /\ s.name # None
      /\ s.idp = "csp" => k.org = s.ctx.org /\ (s.ctx.kind = "api-token" => k.refresh.n = 0)
  BY <1>1, <1>2 DEF Coherent
<1>. HIDE DEF k
<1>4. d \in Context /\ d.auth = k /\ d.type = s.ctx.type /\ d.idp = s.ctx.idp /\ d.org = s.ctx.org /\ d.kind = s.ctx.kind
  <2>1. s.ctx \in Context /\ k \in Token
    BY <1>3 DEF Named, TokenOf
  <2> QED BY <2>1 DEF Context
<1>5. d # None
  BY <1>4, LoginAssumption
<1>. HIDE DEF d
<1>6. Named(s.name, d)
  BY <1>3, <1>4 DEF Named
<1>7. u \in ProcState /\ u.pc = "set" /\ u.ctx = d
  <2>1. "set" \in PCs
    BY DEF PCs
  <2> QED BY <1>1, <1>4, <2>1 DEF ProcState
<1>8. u.kind = s.kind /\ u.idp = s.idp /\ u.api = s.api /\ u.tls = s.tls /\ u.tok = s.tok /\ u.sess = s.sess
      /\ u.cert = s.cert /\ u.name = s.name /\ u.refresh = s.refresh
  BY <1>1 DEF ProcState
<1>. HIDE DEF u
<1>9. u.pc \in Reachable(u.kind)
  BY <1>1, <1>7, <1>8, PointsOf
<1>10. ~ crossed /\ FlagsAreRight => s.ctx.org # None
  BY <1>1, <1>3 DEF IInv, VerifiedOK, KnownOrg
<1>11. u.ctx.auth = u.tok
  BY <1>4, <1>7, <1>8 DEF k
<1> QED BY <1>1, <1>3, <1>4, <1>5, <1>6, <1>7, <1>8, <1>9, <1>10, <1>11, ContextStep

\* The context of a login belongs under its name.
LEMMA LoginContext ==
  ASSUME IInv, NEW p \in Procs, proc[p].pc = "granted", proc[p].kind \in {"login", "tmc"},
         NEW n, n = (IF proc[p].kind = "tmc" THEN "tmc" ELSE prepareTanzuContextName(proc[p].idp, proc[p].tok.org)),
         NEW c, c = AuthenticatedContext(proc[p])
  PROVE  /\ c \in Context /\ c # None /\ c.auth = proc[p].tok /\ Named(n, c)
         /\ n \in Names /\ n # None /\ (proc[p].kind = "login" => n # "tmc")
         /\ ~ crossed /\ FlagsAreRight => c.org # None
<1>. DEFINE s == proc[p]
            k == s.tok
<1>1. s \in ProcState /\ Coherent(s) /\ s.idp \in {"csp", "uaa"}
  BY DEF IInv, TypeOK, ProcState, Idps
<1>2. k # None /\ k \in Tokens(s)
  BY <1>1 DEF Coherent, Tokens
<1>3. /\ TokenOf(s.idp, k) /\ k \in Token /\ RefreshOK(k.refresh) /\ k.refresh.org = k.org /\ k.refresh.issuer = s.idp
      /\ s.kind = "tmc" => s.idp = "csp" /\ s.api # None
      /\ s.api # None /\ s.idp = "csp" => k.refresh.n = 0
  BY <1>1, <1>2 DEF Coherent, TokenOf
<1>4. s.idp = "csp" => k.org \in Orgs
  BY <1>3 DEF RefreshOK
<1>5. getSelfManagedOrg \in {SelfManaged, None}
  BY DEF getSelfManagedOrg
<1>6. /\ c.type = (IF s.kind = "tmc" THEN "mission-control" ELSE "tanzu") /\ c.idp = s.idp
      /\ c.org = (IF s.idp = "uaa" THEN getSelfManagedOrg ELSE k.org)
      /\ c.kind = (IF s.api = None THEN "id-token" ELSE "api-token") /\ c.auth = k
  BY DEF AuthenticatedContext
<1>7. c \in Context
  BY <1>1, <1>3, <1>4, <1>5 DEF AuthenticatedContext, Context, Idps
<1>8. n \in Names /\ (s.kind = "login" => n # "tmc") /\ (s.kind = "tmc" => n = "tmc")
      /\ (s.kind = "login" /\ s.idp = "uaa" => n = "tpsm") /\ (s.kind = "login" /\ s.idp = "csp" => n = k.org)
  BY <1>1, <1>4, LoginAssumption DEF prepareTanzuContextName, Names
<1>9. Named(n, c)
  <2>1. "tpsm" \notin Orgs /\ "tmc" \notin Orgs
    BY LoginAssumption
  <2>2. TokenOf(c.idp, c.auth)
    BY <1>3, <1>6
  <2>3. CASE s.kind = "tmc"
    <3>1. n = "tmc" /\ c.idp = "csp" /\ c.type = "mission-control" /\ c.org = k.org /\ c.kind = "api-token" /\ k.refresh.n = 0
      BY <1>3, <1>6, <1>8, <2>3
    <3> QED BY <1>6, <1>7, <2>1, <2>2, <3>1 DEF Named
  <2>4. CASE s.kind = "login" /\ s.idp = "csp"
    <3>1. n = k.org /\ n \in Orgs /\ c.idp = "csp" /\ c.org = k.org /\ (c.kind = "api-token" => k.refresh.n = 0)
      BY <1>3, <1>4, <1>6, <1>8, <2>4
    <3> QED BY <1>6, <1>7, <2>1, <2>2, <3>1 DEF Named
  <2>5. CASE s.kind = "login" /\ s.idp = "uaa"
    <3>1. n = "tpsm" /\ c.idp = "uaa"
      BY <1>6, <1>8, <2>5
    <3> QED BY <1>7, <2>1, <2>2, <3>1 DEF Named
  <2> QED BY <1>1, <2>3, <2>4, <2>5
<1>10. ASSUME ~ crossed, FlagsAreRight PROVE c.org # None
  <2>1. CASE s.idp = "csp"
    BY <1>4, <1>6, <2>1, LoginAssumption DEF Names
  <2>2. CASE s.idp = "uaa"
    <3>1. s.kind = "login"
      BY <1>3, <2>2
    <3>2. Reaches("uaa", NoTLS)
      BY <1>2, <1>10, <2>2, <3>1 DEF IInv, VerifiedOK
    <3> QED BY <1>6, <2>2, <3>2, LoginAssumption DEF getSelfManagedOrg
  <2> QED BY <1>1, <2>1, <2>2
<1>11. n # None /\ c # None
  BY <1>7, <1>8, LoginAssumption
<1> QED BY <1>6, <1>7, <1>8, <1>9, <1>10, <1>11

LEMMA globalLoginStep == ASSUME IInv, NEW p \in Procs, globalLogin(p) PROVE IInv'
<1>. DEFINE s == proc[p]
            d == AuthenticatedContext(s)
            u == [s EXCEPT !.pc = "add", !.ctx = d]
<1>1. s \in ProcState /\ Coherent(s) /\ s.pc = "granted" /\ s.kind = "tmc" /\ Become(p, u)
      /\ UNCHANGED <<config, ctxs, active, issuer, now, faults, crossed>>
  BY DEF IInv, TypeOK, globalLogin, At, OnlyProc
<1>2. s.name = "tmc"
  BY <1>1 DEF Coherent
<1>3. /\ d \in Context /\ d # None /\ d.auth = s.tok /\ Named("tmc", d) /\ "tmc" # None
      /\ ~ crossed /\ FlagsAreRight => d.org # None
  BY <1>1, LoginContext
<1>. HIDE DEF d
<1>4. u \in ProcState /\ u.pc = "add" /\ u.ctx = d
  <2>1. "add" \in PCs
    BY DEF PCs
  <2> QED BY <1>1, <1>3, <2>1 DEF ProcState
<1>5. u.kind = s.kind /\ u.idp = s.idp /\ u.api = s.api /\ u.tls = s.tls /\ u.tok = s.tok /\ u.sess = s.sess
      /\ u.cert = s.cert /\ u.name = s.name /\ u.refresh = s.refresh
  BY <1>1 DEF ProcState
<1>. HIDE DEF u
<1>6. u.pc \in Reachable(u.kind)
  BY <1>1, <1>4, <1>5, PointsOf
<1> QED BY <1>1, <1>2, <1>3, <1>4, <1>5, <1>6, ContextStep

LEMMA globalTanzuLoginStep == ASSUME IInv, NEW p \in Procs, globalTanzuLogin(p) PROVE IInv'
<1>. DEFINE s == proc[p]
            d == AuthenticatedContext(s)
            n == prepareTanzuContextName(s.idp, s.tok.org)
            u == [s EXCEPT !.pc = "metadata", !.ctx = d, !.name = n]
<1>1. s \in ProcState /\ s.pc = "granted" /\ s.kind = "login" /\ Become(p, u)
      /\ UNCHANGED <<config, ctxs, active, issuer, now, faults, crossed>>
  BY DEF IInv, TypeOK, globalTanzuLogin, At, OnlyProc
<1>2. /\ d \in Context /\ d # None /\ d.auth = s.tok /\ Named(n, d) /\ n \in Names /\ n # None /\ n # "tmc"
      /\ ~ crossed /\ FlagsAreRight => d.org # None
  BY <1>1, LoginContext
<1>. HIDE DEF d, n
<1>3. u \in ProcState /\ u.pc = "metadata" /\ u.ctx = d /\ u.name = n
  <2>1. "metadata" \in PCs
    BY DEF PCs
  <2> QED BY <1>1, <1>2, <2>1 DEF ProcState
<1>4. u.kind = s.kind /\ u.idp = s.idp /\ u.api = s.api /\ u.tls = s.tls /\ u.tok = s.tok /\ u.sess = s.sess
      /\ u.cert = s.cert /\ u.refresh = s.refresh
  BY <1>1 DEF ProcState
<1>. HIDE DEF u
<1>5. u.pc \in Reachable(u.kind)
  BY <1>1, <1>3, <1>4, PointsOf
<1> QED BY <1>1, <1>2, <1>3, <1>4, <1>5, ContextStep

LEMMA updateTanzuContextMetadataStep == ASSUME IInv, NEW p \in Procs, updateTanzuContextMetadata(p) PROVE IInv'
<1>. DEFINE s == proc[p]
            old == ctxs[s.name]
            d == IF old = None THEN s.ctx ELSE [s.ctx EXCEPT !.org = old.org]
            u == [s EXCEPT !.pc = "add", !.ctx = d]
<1>1. s \in ProcState /\ Coherent(s) /\ s.pc = "metadata" /\ Become(p, u)
      /\ UNCHANGED <<config, ctxs, active, issuer, now, faults, crossed>>
  BY DEF IInv, TypeOK, updateTanzuContextMetadata, At, OnlyProc
<1>2. s.kind = "login" /\ s.ctx # None /\ s.name # None /\ Named(s.name, s.ctx) /\ s.ctx.auth = s.tok /\ s.name # "tmc"
  BY <1>1, KindsAt DEF Coherent
<1>3. s.name \in Names /\ s.ctx \in Context /\ (old # None => Named(s.name, old))
  BY <1>1, <1>2 DEF ProcState, IInv, Named
<1>4. /\ d \in Context /\ d.auth = s.tok /\ Named(s.name, d)
      /\ ~ crossed /\ FlagsAreRight => d.org # None
  <2>1. CASE old = None
    <3>1. d = s.ctx
      BY <2>1
    <3>2. ~ crossed /\ FlagsAreRight => s.ctx.org # None
      BY <1>1, <1>2 DEF IInv, VerifiedOK, KnownOrg
    <3> QED BY <1>2, <1>3, <3>1, <3>2
  <2>2. CASE old # None
    <3>. DEFINE o == old.org
    <3>1. o \in Orgs \cup {SelfManaged, None} /\ (s.name \in Orgs => o = s.name) /\ d = [s.ctx EXCEPT !.org = o]
      BY <1>3, <2>2 DEF Named, Context
    <3>2. ~ crossed /\ FlagsAreRight => o # None
      BY <1>3, <2>2 DEF IInv, VerifiedOK
    <3>. HIDE DEF o, d
    <3>3. d \in Context /\ d.auth = s.ctx.auth /\ d.type = s.ctx.type /\ d.idp = s.ctx.idp /\ d.org = o /\ d.kind = s.ctx.kind
      BY <1>3, <3>1 DEF Context
    <3>4. Named(s.name, d)
      BY <1>2, <3>1, <3>3 DEF Named
    <3> QED BY <1>2, <3>2, <3>3, <3>4
  <2> QED BY <2>1, <2>2
<1>5. d # None
  BY <1>4, LoginAssumption
<1>. HIDE DEF d
<1>6. u \in ProcState /\ u.pc = "add" /\ u.ctx = d
  <2>1. "add" \in PCs
    BY DEF PCs
  <2> QED BY <1>1, <1>4, <2>1 DEF ProcState
<1>7. u.kind = s.kind /\ u.idp = s.idp /\ u.api = s.api /\ u.tls = s.tls /\ u.tok = s.tok /\ u.sess = s.sess
      /\ u.cert = s.cert /\ u.name = s.name /\ u.refresh = s.refresh
  BY <1>1 DEF ProcState
<1>. HIDE DEF u
<1>8. u.pc \in Reachable(u.kind)
  BY <1>2, <1>6, <1>7, PointsOf
<1> QED BY <1>1, <1>2, <1>4, <1>5, <1>6, <1>7, <1>8, ContextStep

LEMMA GetOrgNameFailsStep == ASSUME IInv, NEW p \in Procs, GetOrgNameFails(p) PROVE IInv'
<1>1. Return(p) /\ proc[p].kind = "login" /\ UNCHANGED <<config, ctxs, active, issuer, now, faults, crossed>>
  BY DEF GetOrgNameFails, OnlyProc
<1> QED BY <1>1, ReturnKeeps

\* What api-token create shows is nobody else's.
LEMMA ShowAPITokenStep == ASSUME IInv, NEW p \in Procs, ShowAPIToken(p) PROVE IInv'
<1>. DEFINE s == proc[p]
            r0 == s.tok.refresh
<1>1. s \in ProcState /\ Coherent(s) /\ s.pc = "granted" /\ s.kind = "apitoken" /\ Become(p, Idle)
      /\ issuer' = [issuer EXCEPT !.api = issuer.api \cup {r0}] /\ UNCHANGED <<config, ctxs, active, now, faults, crossed>>
  BY DEF IInv, TypeOK, ShowAPIToken, At, Return
<1>2. s.tok # None /\ s.tok \in Tokens(s) /\ s.idp = "uaa"
  BY <1>1 DEF Coherent, Tokens
<1>3. TokenOf("uaa", s.tok)
  BY <1>1, <1>2 DEF Coherent
<1>4. RefreshOK(r0) /\ r0.issuer = "uaa" /\ r0 \in Refresh /\ r0 \in Held(s)
  BY <1>2, <1>3 DEF TokenOf, RefreshOK, Held
<1>. HIDE DEF r0
<1>5. /\ issuer'.given = issuer.given /\ issuer'.spent = issuer.spent /\ issuer'.api = issuer.api \cup {r0}
      /\ issuer' \in [given : 0..MaxGrants, spent : SUBSET Refresh, lapsed : SUBSET Refresh, api : SUBSET Refresh]
  BY <1>1, <1>4 DEF IInv, IssuerOK
<1>6. IssuerOK'
  BY <1>4, <1>5 DEF IInv, IssuerOK
<1>7. \A q \in Procs : proc'[q] = IF q = p THEN Idle ELSE proc[q]
  BY <1>1, Becomes DEF IInv
<1>8. Idle \in ProcState /\ Coherent(Idle) /\ SessionOK(Idle) /\ Held(Idle) = {} /\ Tokens(Idle) = {} /\ KnownOrg(Idle)
      /\ Idle.refresh = None /\ Idle.api = None /\ Idle.ctx = None /\ Idle.kind = "none"
  BY IdleType, IdleIsCoherent DEF Idle
<1>9. proc' \in [Procs -> ProcState] /\ \A q \in Procs : Coherent(proc'[q]) /\ SessionOK(proc'[q])
  BY <1>1, <1>8, KeepLocal
<1>10. TypeOK'
  BY <1>1, <1>9 DEF IInv, TypeOK
<1>11. NumbersOK'
  <2>1. NumbersOK /\ r0.n <= issuer.given
    BY <1>4 DEF IInv, NumbersOK
  <2>2. \A q \in Procs : /\ \A r \in Held(proc'[q]) : r.n <= issuer.given
                         /\ proc'[q].refresh # None => proc'[q].refresh.n <= issuer.given
                         /\ proc'[q].api # None => proc'[q].api.n <= issuer.given
                         /\ proc'[q].ctx # None => proc'[q].ctx.auth.refresh.n <= issuer.given
    BY <1>7, <1>8, <2>1 DEF NumbersOK
  <2> QED BY <1>1, <1>5, <2>1, <2>2 DEF NumbersOK
<1>12. ASSUME ~ crossed' PROVE FreshOK'
  <2>1. FreshOK
    BY <1>1, <1>12 DEF IInv
  <2>2. \A q \in Procs : Held(proc'[q]) \subseteq Held(proc[q])
    BY <1>7, <1>8
  <2>3. r0 # None
    BY <1>4, LoginAssumption
  <2>4. ASSUME NEW q \in Procs, NEW r \in Held(proc'[q]), Rotates(r)
        PROVE  /\ r \notin issuer'.api \cup issuer'.spent
               /\ \A n \in Names : ctxs[n] # None => ctxs[n].auth.refresh # r
               /\ \A o \in Procs : proc'[o].refresh # r /\ proc'[o].api # r /\ (o # q => r \notin Held(proc'[o]))
    <3>1. q # p /\ r \in Held(proc[q])
      BY <1>7, <1>8, <2>4
    <3>2. /\ r \notin issuer.api \cup issuer.spent
          /\ \A n \in Names : ctxs[n] # None => ctxs[n].auth.refresh # r
          /\ \A o \in Procs : proc[o].refresh # r /\ proc[o].api # r /\ (o # q => r \notin Held(proc[o]))
      BY <2>1, <2>4, <3>1 DEF FreshOK
    <3>3. r # r0
      BY <1>4, <3>1, <3>2
    <3>4. r # None
      <4>1. PICK x \in Tokens(proc[q]) : r = x.refresh
        BY <3>1 DEF Held
      <4>2. RefreshOK(r)
        BY <4>1 DEF IInv, Coherent, TokenOf
      <4> QED BY <4>2, LoginAssumption DEF RefreshOK
    <3>5. \A o \in Procs : proc'[o].refresh # r /\ proc'[o].api # r
      BY <1>7, <1>8, <3>2, <3>4
    <3> QED BY <1>5, <2>2, <3>2, <3>3, <3>5
  <2>5. ASSUME NEW n \in Names, ctxs[n] # None, Rotates(ctxs[n].auth.refresh)
        PROVE  /\ ctxs[n].auth.refresh \notin issuer'.api
               /\ \A q \in Procs : /\ proc'[q].api # ctxs[n].auth.refresh
                                   /\ proc'[q].kind # "token" => proc'[q].refresh # ctxs[n].auth.refresh
    <3>. DEFINE r == ctxs[n].auth.refresh
    <3>1. /\ r \notin issuer.api
          /\ \A q \in Procs : proc[q].api # r /\ (proc[q].kind # "token" => proc[q].refresh # r)
      BY <2>1, <2>5 DEF FreshOK
    <3>2. r # r0
      BY <1>4, <2>1, <2>5 DEF FreshOK
    <3>3. r # None
      <4>1. Named(n, ctxs[n])
        BY <2>5 DEF IInv
      <4>2. RefreshOK(r)
        BY <4>1 DEF Named, TokenOf
      <4> QED BY <4>2, LoginAssumption DEF RefreshOK
    <3>. HIDE DEF r
    <3>4. \A q \in Procs : proc'[q].api # r /\ (proc'[q].kind # "token" => proc'[q].refresh # r)
      BY <1>7, <1>8, <3>1, <3>3
    <3> QED BY <1>5, <3>1, <3>2, <3>4 DEF r
  <2> QED BY <1>1, <2>4, <2>5 DEF FreshOK, Rotates
<1>13. ASSUME ~ crossed' PROVE Pending'
  <2>1. Pending
    BY <1>1, <1>13 DEF IInv
  <2>2. \A n \in Names, q \in Procs : Renewing(q, n) => Renewing(q, n)'
    BY <1>1, <1>7 DEF Renewing
  <2> QED BY <1>1, <1>5, <2>1, <2>2 DEF Pending
<1>14. ASSUME ~ crossed', FlagsAreRight PROVE VerifiedOK'
  BY <1>1, <1>8, <1>14, VerifiedAfter
<1>15. now' \in Nat /\ faults' \in Nat /\ crossed' \in BOOLEAN /\ \A n \in Names : ctxs'[n] # None => Named(n, ctxs'[n])
  BY <1>1 DEF IInv
<1> QED BY <1>6, <1>9, <1>10, <1>11, <1>12, <1>13, <1>14, <1>15 DEF IInv

\* A context is stored: one that a login or a renewal made of its token, or one with
\* the token that is there.
LEMMA StoreStep ==
  ASSUME IInv, NEW p \in Procs, proc[p].pc \in {"add", "set"},
         NEW n, n = proc[p].name, NEW c, c = proc[p].ctx, ctxs' = [ctxs EXCEPT ![n] = c], Return(p),
         active' \in {active, n}, crossed' \in BOOLEAN, crossed => crossed', UNCHANGED <<config, issuer, now, faults>>,
         proc[p].kind = "resource" /\ ~ crossed' => ctxs[n] # None /\ ctxs[n].auth = c.auth
  PROVE  IInv'
<1>. DEFINE s == proc[p]
            r0 == c.auth.refresh
<1>1. s \in ProcState /\ Coherent(s) /\ s.kind \in {"login", "tmc", "token", "resource"}
  BY KindsAt DEF IInv, TypeOK
<1>2. c # None /\ n # None /\ Named(n, c) /\ (s.kind # "resource" => c.auth = s.tok /\ s.tok # None)
  <2>1. s.pc = "set" /\ s.kind # "resource" => s.kind = "token"
    BY <1>1, KindsAt
  <2>2. c # None /\ n # None /\ Named(n, c)
    BY <1>1 DEF Coherent
  <2>3. s.pc = "add" \/ (s.pc = "set" /\ s.kind = "token") => c.auth = s.tok /\ s.tok # None
    BY <1>1 DEF Coherent
  <2> QED BY <2>1, <2>2, <2>3
<1>3. n \in Names /\ c \in Context
  BY <1>1, <1>2 DEF ProcState, Named
<1>4. \A m \in Names : ctxs'[m] = IF m = n THEN c ELSE ctxs[m]
  BY <1>3 DEF IInv, TypeOK
<1>5. s.kind # "resource" => r0 \in Held(s)
  <2>1. s.kind # "resource" => s.tok \in Tokens(s)
    BY <1>2 DEF Tokens
  <2> QED BY <1>2, <2>1 DEF Held
<1>6. r0.n <= issuer.given
  BY <1>2 DEF IInv, NumbersOK
<1>7. \A q \in Procs : proc'[q] = IF q = p THEN Idle ELSE proc[q]
  BY Becomes DEF IInv, Return
<1>8. Idle \in ProcState /\ Coherent(Idle) /\ SessionOK(Idle) /\ Held(Idle) = {} /\ Tokens(Idle) = {} /\ KnownOrg(Idle)
      /\ Idle.refresh = None /\ Idle.api = None /\ Idle.ctx = None /\ Idle.kind = "none" /\ Idle.pc = "idle"
  BY IdleType, IdleIsCoherent DEF Idle
<1>9. proc' \in [Procs -> ProcState] /\ \A q \in Procs : Coherent(proc'[q]) /\ SessionOK(proc'[q])
  BY <1>8, KeepLocal DEF Return
<1>10. TypeOK'
  BY <1>3, <1>9 DEF IInv, TypeOK
<1>11. \A m \in Names : ctxs'[m] # None => Named(m, ctxs'[m])
  BY <1>2, <1>4 DEF IInv
<1>. HIDE DEF r0
<1>12. NumbersOK'
  <2>1. NumbersOK
    BY DEF IInv
  <2>2. \A q \in Procs : /\ \A r \in Held(proc'[q]) : r.n <= issuer.given
                         /\ proc'[q].refresh # None => proc'[q].refresh.n <= issuer.given
                         /\ proc'[q].api # None => proc'[q].api.n <= issuer.given
                         /\ proc'[q].ctx # None => proc'[q].ctx.auth.refresh.n <= issuer.given
    BY <1>7, <1>8, <2>1 DEF NumbersOK
  <2>3. \A m \in Names : ctxs'[m] # None => ctxs'[m].auth.refresh.n <= issuer.given
    BY <1>4, <1>6, <2>1 DEF NumbersOK, r0
  <2> QED BY <2>1, <2>2, <2>3 DEF NumbersOK
\* The refresh token of a context is the one that was there, or the one of p.
<1>13. \A m \in Names : ctxs'[m] # None /\ ~ crossed' =>
         \/ ctxs[m] # None /\ ctxs'[m].auth.refresh = ctxs[m].auth.refresh /\ (m = n => s.kind = "resource")
         \/ m = n /\ s.kind # "resource" /\ ctxs'[m].auth.refresh = r0
  BY <1>4 DEF r0
<1>14. ASSUME ~ crossed' PROVE FreshOK'
  <2>1. FreshOK
    BY <1>14 DEF IInv
  <2>2. \A q \in Procs : Held(proc'[q]) \subseteq Held(proc[q])
    BY <1>7, <1>8
  <2>3. ASSUME NEW q \in Procs, NEW r \in Held(proc'[q]), Rotates(r)
        PROVE  /\ r \notin issuer.api \cup issuer.spent
               /\ \A m \in Names : ctxs'[m] # None => ctxs'[m].auth.refresh # r
               /\ \A o \in Procs : proc'[o].refresh # r /\ proc'[o].api # r /\ (o # q => r \notin Held(proc'[o]))
    <3>1. q # p /\ r \in Held(proc[q])
      BY <1>7, <1>8, <2>3
    <3>2. /\ r \notin issuer.api \cup issuer.spent
          /\ \A m \in Names : ctxs[m] # None => ctxs[m].auth.refresh # r
          /\ \A o \in Procs : proc[o].refresh # r /\ proc[o].api # r /\ (o # q => r \notin Held(proc[o]))
      BY <2>1, <2>3, <3>1 DEF FreshOK
    <3>3. s.kind # "resource" => r # r0
      BY <1>5, <3>1, <3>2
    <3>4. r # None
      <4>1. PICK x \in Tokens(proc[q]) : r = x.refresh
        BY <3>1 DEF Held
      <4>2. RefreshOK(r)
        BY <4>1 DEF IInv, Coherent, TokenOf
      <4> QED BY <4>2, LoginAssumption DEF RefreshOK
    <3>5. \A o \in Procs : proc'[o].refresh # r /\ proc'[o].api # r
      BY <1>7, <1>8, <3>2, <3>4
    <3>6. \A m \in Names : ctxs'[m] # None => ctxs'[m].auth.refresh # r
      BY <1>13, <1>14, <3>2, <3>3
    <3> QED BY <2>2, <3>2, <3>5, <3>6
  <2>4. ASSUME NEW m \in Names, ctxs'[m] # None, Rotates(ctxs'[m].auth.refresh)
        PROVE  /\ ctxs'[m].auth.refresh \notin issuer.api
               /\ \A q \in Procs : /\ proc'[q].api # ctxs'[m].auth.refresh
                                   /\ proc'[q].kind # "token" => proc'[q].refresh # ctxs'[m].auth.refresh
    <3>. DEFINE r == ctxs'[m].auth.refresh
    <3>1. /\ r \notin issuer.api
          /\ \A q \in Procs : proc[q].api # r /\ (proc[q].kind # "token" => proc[q].refresh # r)
      <4>1. CASE ctxs[m] # None /\ r = ctxs[m].auth.refresh
        BY <2>1, <2>4, <4>1 DEF FreshOK
      <4>2. CASE s.kind # "resource" /\ r = r0
        BY <1>5, <2>1, <2>4, <4>2 DEF FreshOK
      <4> QED BY <1>13, <1>14, <2>4, <4>1, <4>2
    <3>2. r # None
      <4>1. Named(m, ctxs'[m])
        BY <1>11, <2>4
      <4>2. RefreshOK(r)
        BY <4>1 DEF Named, TokenOf
      <4> QED BY <4>2, LoginAssumption DEF RefreshOK
    <3>. HIDE DEF r
    <3>3. \A q \in Procs : proc'[q].api # r /\ (proc'[q].kind # "token" => proc'[q].refresh # r)
      BY <1>7, <1>8, <3>1, <3>2
    <3> QED BY <3>1, <3>3 DEF r
  <2> QED BY <2>3, <2>4 DEF FreshOK, Rotates
<1>15. ASSUME ~ crossed' PROVE Pending'
  <2>1. FreshOK /\ Pending
    BY <1>15 DEF IInv
  <2>2. SUFFICES ASSUME NEW m \in Names, ctxs'[m] # None, ctxs'[m].auth.refresh \in issuer.spent
                 PROVE  \E q \in Procs : Renewing(q, m)'
    BY DEF Pending
  <2>3. CASE ctxs[m] # None /\ ctxs'[m].auth.refresh = ctxs[m].auth.refresh /\ (m = n => s.kind = "resource")
    <3>1. PICK q \in Procs : Renewing(q, m)
      BY <2>1, <2>2, <2>3 DEF Pending
    <3>2. q # p
      BY <2>3, <3>1 DEF Renewing
    <3> QED BY <1>7, <3>1, <3>2 DEF Renewing
  <2>4. CASE s.kind # "resource" /\ ctxs'[m].auth.refresh = r0
    <3>1. Rotates(r0)
      BY <2>2, <2>4 DEF IInv, NumbersOK
    <3>2. r0 \notin issuer.spent
      BY <1>5, <2>1, <2>4, <3>1 DEF FreshOK
    <3> QED BY <2>2, <2>4, <3>2
  <2> QED BY <1>13, <1>15, <2>2, <2>3, <2>4
<1>16. ASSUME ~ crossed', FlagsAreRight PROVE VerifiedOK'
  <2>1. VerifiedOK
    BY <1>16 DEF IInv
  <2>2. c.org # None
    BY <1>1, <1>2, <2>1, KindsAt DEF VerifiedOK, KnownOrg
  <2>3. \A m \in Names : ctxs'[m] # None => ctxs'[m].org # None
    BY <1>4, <2>1, <2>2 DEF VerifiedOK
  <2>4. ASSUME NEW q \in Procs
        PROVE  /\ KnownOrg(proc'[q])
               /\ proc'[q].kind = "login" /\ proc'[q].idp = "uaa" /\ Tokens(proc'[q]) # {} =>
                    Reaches("uaa", IF proc[q].tok # None THEN NoTLS ELSE proc[q].tls)'
    <3>1. CASE q = p
      BY <1>7, <1>8, <3>1
    <3>2. CASE q # p
      <4>1. proc'[q] = proc[q]
        BY <1>7, <3>2
      <4>2. Reaches("uaa", IF proc[q].tok # None THEN NoTLS ELSE proc[q].tls)'
              = ReachesUnder(config, IF proc[q].tok # None THEN NoTLS ELSE proc[q].tls)
        BY <4>1 DEF Reaches, ReachesUnder
      <4> QED BY <2>1, <4>1, <4>2, ReachesIsUnder DEF VerifiedOK
    <3> QED BY <3>1, <3>2
  <2> QED BY <2>3, <2>4 DEF VerifiedOK
<1>17. now' \in Nat /\ faults' \in Nat /\ IssuerOK'
  BY DEF IInv, IssuerOK
<1> QED BY <1>9, <1>10, <1>11, <1>12, <1>14, <1>15, <1>16, <1>17 DEF IInv

LEMMA AddContextStep == ASSUME IInv, NEW p \in Procs, AddContext(p) PROVE IInv'
<1>1. /\ proc[p].pc = "add" /\ ctxs' = [ctxs EXCEPT ![proc[p].name] = proc[p].ctx] /\ Return(p)
      /\ active' \in {active, proc[p].name} /\ UNCHANGED <<config, issuer, now, faults, crossed>>
  BY DEF AddContext, At
<1>2. proc[p].kind # "resource"
  BY <1>1, KindsAt DEF IInv
<1>3. crossed' \in BOOLEAN /\ (crossed => crossed')
  BY <1>1 DEF IInv
<1> QED BY <1>1, <1>2, <1>3, StoreStep

LEMMA SetContextStep == ASSUME IInv, NEW p \in Procs, SetContext(p) PROVE IInv'
<1>. DEFINE n == proc[p].name
            c == proc[p].ctx
<1>1. /\ proc[p].pc = "set" /\ ctxs' = [ctxs EXCEPT ![n] = c] /\ Return(p)
      /\ active' = active /\ UNCHANGED <<config, issuer, now, faults>>
      /\ crossed' = (crossed \/ (proc[p].kind = "resource" /\ (ctxs[n] = None \/ ctxs[n].auth # c.auth)))
  BY DEF SetContext, At
<1>2. crossed' \in BOOLEAN /\ (crossed => crossed')
  BY <1>1 DEF IInv
<1>3. proc[p].kind = "resource" /\ ~ crossed' => ctxs[n] # None /\ ctxs[n].auth = c.auth
  BY <1>1 DEF IInv
<1>. HIDE DEF n, c
<1>4. n = proc[p].name /\ c = proc[p].ctx
  BY DEF n, c
<1> QED BY <1>1, <1>2, <1>3, <1>4, StoreStep

-----------------------------------------------------------------------------
(* Time and faults *)

LEMMA TickStep == ASSUME IInv, Tick PROVE IInv'
<1>1. now' = now + 1 /\ UNCHANGED <<config, ctxs, active, issuer, proc, faults, crossed>>
  BY DEF Tick
<1>2. now' \in Nat
  BY <1>1 DEF IInv
<1>3. TypeOK' /\ IssuerOK'
  BY <1>1 DEF IInv, TypeOK, IssuerOK
<1>4. NumbersOK' /\ (FreshOK => FreshOK') /\ (Pending => Pending')
  <2>1. NumbersOK'
    BY <1>1 DEF IInv, NumbersOK, Rotates
  <2>2. FreshOK => FreshOK'
    BY <1>1 DEF FreshOK, Rotates
  <2>3. Pending => Pending'
    BY <1>1 DEF Pending, Renewing
  <2> QED BY <2>1, <2>2, <2>3
<1>5. VerifiedOK => VerifiedOK'
  BY <1>1 DEF VerifiedOK, Reaches
<1> QED BY <1>1, <1>2, <1>3, <1>4, <1>5 DEF IInv

LEMMA LapseStep == ASSUME IInv, Lapse PROVE IInv'
<1>1. UNCHANGED <<config, ctxs, active, proc, now, crossed>> /\ faults' = faults + 1
  BY DEF Lapse, Fault
<1>2. PICK n \in Names : /\ ctxs[n] # None
                         /\ issuer' = [issuer EXCEPT !.lapsed = issuer.lapsed \cup {ctxs[n].auth.refresh}]
  BY DEF Lapse
<1>. DEFINE r == ctxs[n].auth.refresh
<1>3. r \in Refresh
  BY <1>2 DEF IInv, Named, TokenOf, RefreshOK
<1>4. issuer' = [issuer EXCEPT !.lapsed = issuer.lapsed \cup {r}]
  BY <1>2
<1>. HIDE DEF r
<1>5. /\ issuer'.given = issuer.given /\ issuer'.spent = issuer.spent /\ issuer'.api = issuer.api
      /\ issuer' \in [given : 0..MaxGrants, spent : SUBSET Refresh, lapsed : SUBSET Refresh, api : SUBSET Refresh]
  BY <1>3, <1>4 DEF IInv, IssuerOK
<1>6. TypeOK' /\ IssuerOK' /\ faults' \in Nat
  <2>1. TypeOK'
    BY <1>1 DEF IInv, TypeOK
  <2>2. IssuerOK'
    BY <1>5 DEF IInv, IssuerOK
  <2>3. faults' \in Nat
    BY <1>1 DEF IInv
  <2> QED BY <2>1, <2>2, <2>3
<1>7. NumbersOK' /\ (FreshOK => FreshOK') /\ (Pending => Pending')
  <2>1. NumbersOK'
    BY <1>1, <1>5 DEF IInv, NumbersOK, Rotates
  <2>2. FreshOK => FreshOK'
    BY <1>1, <1>5 DEF FreshOK, Rotates
  <2>3. Pending => Pending'
    BY <1>1, <1>5 DEF Pending, Renewing
  <2> QED BY <2>1, <2>2, <2>3
<1>8. VerifiedOK => VerifiedOK'
  BY <1>1 DEF VerifiedOK, Reaches
<1> QED BY <1>1, <1>6, <1>7, <1>8 DEF IInv

LEMMA FaultStep == ASSUME IInv, NEW p \in Procs, Crash(p) \/ Fail(p) PROVE IInv'
<1>1. Return(p) /\ crossed' = TRUE /\ faults' = faults + 1 /\ UNCHANGED <<config, ctxs, active, issuer, now>>
  BY DEF Crash, Fail, Fault
<1> QED BY <1>1, ReturnKeeps

-----------------------------------------------------------------------------
(* The invariant holds *)

LEMMA EarlierIsNamed ==
  ASSUME NEW n \in Orgs \cup {"tpsm"}
  PROVE  /\ Named(n, EarlierContext(n)) /\ EarlierContext(n) # None /\ EarlierContext(n).auth.refresh.n = 1
         /\ EarlierContext(n).org # None
<1>. DEFINE idp == IF n = "tpsm" THEN "uaa" ELSE "csp"
            org == IF n = "tpsm" THEN SelfManaged ELSE n
            ref == [issuer |-> idp, org |-> org, n |-> 1]
            tok == [org |-> org, exp |-> Life, refresh |-> ref]
            c == EarlierContext(n)
<1>1. idp \in Idps /\ org \in Orgs \cup {SelfManaged} /\ 1 \in 0..MaxGrants /\ Life \in Int
  BY LoginAssumption DEF Idps
<1>2. /\ "tpsm" \notin Orgs /\ "tmc" \notin Orgs /\ (n # "tpsm" => n \in Orgs) /\ org # None
  BY LoginAssumption DEF Names
<1>3. (idp = "csp" => org \in Orgs /\ org = n /\ n # "tpsm") /\ (idp = "uaa" => org = SelfManaged /\ n = "tpsm")
  BY <1>2
<1>. HIDE DEF idp, org
<1>4. ref \in Refresh
  BY <1>1 DEF Refresh
<1>5. ref.issuer = idp /\ ref.org = org /\ ref.n = 1
  OBVIOUS
<1>. HIDE DEF ref
<1>6. tok \in Token /\ tok.org = org /\ tok.refresh = ref
  BY <1>1, <1>4 DEF Token
<1>. HIDE DEF tok
<1>7. TokenOf(idp, tok)
  BY <1>3, <1>4, <1>5, <1>6 DEF TokenOf, RefreshOK
<1>8. c = [type |-> "tanzu", idp |-> idp, org |-> org, kind |-> "id-token", auth |-> tok]
  BY DEF EarlierContext, idp, org, tok, ref
<1>. HIDE DEF c
<1>9. c \in Context /\ c.type = "tanzu" /\ c.idp = idp /\ c.org = org /\ c.kind = "id-token" /\ c.auth = tok
  BY <1>1, <1>6, <1>8 DEF Context
<1>10. idp \in {"csp", "uaa"} /\ n # "tmc"
  BY <1>1, <1>2 DEF Idps
<1>11. Named(n, c)
  BY <1>2, <1>3, <1>6, <1>7, <1>9, <1>10 DEF Named
<1>12. c # None
  BY <1>9, LoginAssumption
<1> QED BY <1>2, <1>5, <1>6, <1>9, <1>11, <1>12 DEF c

LEMMA InitIInv == Init => IInv
<1>. SUFFICES ASSUME Init PROVE IInv
  OBVIOUS
<1>1. PICK logged \in Earlier : /\ ctxs = [n \in Names |-> IF n \in logged THEN EarlierContext(n) ELSE None]
                                /\ active \in IF logged = {} THEN {None} ELSE logged
  BY DEF Init
<1>2. logged \subseteq Orgs \cup {"tpsm"} /\ logged \subseteq Names
  BY LoginAssumption DEF Names
<1>3. \A n \in Names : ctxs[n] # None => n \in logged /\ ctxs[n] = EarlierContext(n)
  BY <1>1
<1>4. \A n \in Names : ctxs[n] # None => Named(n, ctxs[n]) /\ ctxs[n].auth.refresh.n = 1 /\ ctxs[n].org # None
  BY <1>2, <1>3, EarlierIsNamed
<1>5. /\ proc = [p \in Procs |-> Idle] /\ config = EmptyConfig /\ now = 0 /\ faults = 0 /\ crossed = FALSE
      /\ issuer = [given |-> 1, spent |-> {}, lapsed |-> {}, api |-> {[issuer |-> "csp", org |-> o, n |-> 0] : o \in APIOrgs}]
  BY DEF Init
<1>6. Idle \in ProcState /\ Coherent(Idle) /\ SessionOK(Idle) /\ Held(Idle) = {} /\ Tokens(Idle) = {} /\ KnownOrg(Idle)
      /\ Idle.refresh = None /\ Idle.api = None /\ Idle.ctx = None
  BY IdleType, IdleIsCoherent DEF Idle
<1>7. \A p \in Procs : proc[p] = Idle
  BY <1>5
<1>8. TypeOK
  <2>1. config \in Config
    BY <1>5, ConfigurationAssumption DEF EmptyConfig, Config
  <2>2. ctxs \in [Names -> Context \cup {None}]
    <3>1. \A n \in logged : EarlierContext(n) \in Context
      BY <1>2, EarlierIsNamed DEF Named
    <3> QED BY <1>1, <3>1
  <2>3. active \in Names \cup {None}
    BY <1>1, <1>2
  <2>4. proc \in [Procs -> ProcState]
    BY <1>5, <1>6
  <2> QED BY <2>1, <2>2, <2>3, <2>4 DEF TypeOK
<1>9. IssuerOK /\ issuer.given = 1 /\ issuer.spent = {} /\ \A r \in issuer.api : r.n = 0
  <2>. DEFINE api == {[issuer |-> "csp", org |-> o, n |-> 0] : o \in APIOrgs}
  <2>1. \A r \in api : r \in Refresh /\ RefreshOK(r) /\ r.n = 0
    <3>1. SUFFICES ASSUME NEW o \in APIOrgs, NEW r, r = [issuer |-> "csp", org |-> o, n |-> 0]
                   PROVE  r \in Refresh /\ RefreshOK(r) /\ r.n = 0
      OBVIOUS
    <3>2. o \in Orgs /\ 0 \in 0..MaxGrants
      BY LoginAssumption
    <3>3. r \in Refresh /\ r.issuer = "csp" /\ r.org = o /\ r.n = 0
      BY <3>1, <3>2 DEF Refresh, Idps
    <3> QED BY <3>2, <3>3 DEF RefreshOK
  <2>. HIDE DEF api
  <2>2. issuer.api = api /\ issuer.given = 1 /\ issuer.spent = {}
    BY <1>5 DEF api
  <2>3. issuer \in [given : 0..MaxGrants, spent : SUBSET Refresh, lapsed : SUBSET Refresh, api : SUBSET Refresh]
    <3>1. api \in SUBSET Refresh /\ 1 \in 0..MaxGrants
      BY <2>1, LoginAssumption
    <3> QED BY <1>5, <3>1 DEF api
  <2> QED BY <2>1, <2>2, <2>3 DEF IssuerOK
<1>10. NumbersOK
  BY <1>4, <1>6, <1>7, <1>9 DEF NumbersOK
<1>11. FreshOK
  <2>1. \A n \in Names : ctxs[n] # None => ctxs[n].auth.refresh \notin issuer.api /\ ctxs[n].auth.refresh # None
    BY <1>4, <1>9, LoginAssumption DEF Named, TokenOf, RefreshOK
  <2> QED BY <1>6, <1>7, <2>1 DEF FreshOK
<1>12. Pending
  BY <1>9 DEF Pending
<1>13. VerifiedOK
  BY <1>4, <1>6, <1>7 DEF VerifiedOK
<1>14. now \in Nat /\ faults \in Nat /\ crossed \in BOOLEAN
  BY <1>5
<1> QED BY <1>4, <1>6, <1>7, <1>8, <1>9, <1>10, <1>11, <1>12, <1>13, <1>14 DEF IInv

LEMMA BeginSteps == ASSUME IInv, NEW p \in Procs, Begin(p) PROVE IInv'
BY BeginLoginStep, BeginTMCStep, BeginOnContextStep, createAPITokenStep, BeginCertAddStep, BeginCertUpdateStep,
   BeginCertDeleteStep, ConfigureStep DEF Begin

LEMMA StepSteps == ASSUME IInv, NEW p \in Procs, Step(p) PROVE IInv'
BY doCSPAuthenticationStep, doUAAAuthenticationStep, getTokenStep, DoLoginStep, browserLoginStep, GetTokenStep,
   ShowAPITokenStep, globalLoginStep, globalTanzuLoginStep, GetOrgNameFailsStep, updateTanzuContextMetadataStep,
   AddContextStep, SetContextStep, CertDeleteStep, CertSetStep DEF Step

LEMMA HandlerSteps == ASSUME IInv, NEW p \in Procs, Handler(p) PROVE IInv'
BY callbackHandlerStep, CallbackExchangeStep, CallbackDoneStep, PromptExchangeStep, PromptStoreStep,
   PromptCancelledStep, ExchangeCompletesStep, ReadTokenStep, CloseSessionStep DEF Handler

LEMMA OutsideSteps == ASSUME IInv, NEW p \in Procs, Outside(p) PROVE IInv'
BY BrowserCallsStep, UserPastesStep, PromptEndsStep DEF Outside

LEMMA StutterStep == ASSUME IInv, UNCHANGED vars PROVE IInv'
<1>1. UNCHANGED <<config, ctxs, active, issuer, proc, now, faults, crossed>>
  BY DEF vars
<1>2. TypeOK' /\ IssuerOK'
  BY <1>1 DEF IInv, TypeOK, IssuerOK
<1>3. NumbersOK'
  BY <1>1 DEF IInv, NumbersOK, Rotates
<1>4. FreshOK => FreshOK'
  BY <1>1 DEF FreshOK, Rotates
<1>5. Pending => Pending'
  BY <1>1 DEF Pending, Renewing
<1>6. VerifiedOK => VerifiedOK'
  BY <1>1 DEF VerifiedOK, Reaches
<1> QED BY <1>1, <1>2, <1>3, <1>4, <1>5, <1>6 DEF IInv

LEMMA NextIInv == IInv /\ [Next]_vars => IInv'
<1>. SUFFICES ASSUME IInv, [Next]_vars PROVE IInv'
  OBVIOUS
<1>1. CASE \E p \in Procs : Begin(p) \/ Step(p) \/ Handler(p) \/ Outside(p) \/ Crash(p) \/ Fail(p)
  BY <1>1, BeginSteps, StepSteps, HandlerSteps, OutsideSteps, FaultStep
<1>2. CASE Tick
  BY <1>2, TickStep
<1>3. CASE Lapse
  BY <1>3, LapseStep
<1>4. CASE UNCHANGED vars
  BY <1>4, StutterStep
<1> QED BY <1>1, <1>2, <1>3, <1>4 DEF Next

LEMMA AlwaysIInv == Spec => []IInv
BY InitIInv, NextIInv, PTL DEF Spec

-----------------------------------------------------------------------------
(* Theorems *)

\* The settings, the contexts and the handlers have their shape, whatever commands,
\* browsers and users do.
THEOREM LoginTyped == Spec => []TypeOK
<1>1. IInv => TypeOK
  BY DEF IInv
<1> QED BY <1>1, AlwaysIInv, PTL

\* A context of the public issuer holds a token of its own organization
\* (csp.GetTokens, updateTanzuContextMetadata).
THEOREM ContextsKeepOrganization == Spec => []TokensStayInOrg
<1>1. IInv => TokensStayInOrg
  <2>. SUFFICES ASSUME IInv, NEW n \in Names, ctxs[n] # None, ctxs[n].idp = "csp" PROVE ctxs[n].org = ctxs[n].auth.org
    BY DEF TokensStayInOrg
  <2>1. Named(n, ctxs[n]) /\ (n \in Orgs \/ n = "tpsm" \/ n = "tmc")
    BY DEF IInv, Names
  <2> QED BY <2>1 DEF Named
<1> QED BY <1>1, AlwaysIInv, PTL

\* Commands that renew the same context at the same time do not leave it with a
\* refresh token that was used up (getToken, DoLogin).
THEOREM RenewalsAreNotLost == Spec => []StoredRefreshWorks
<1>1. IInv => StoredRefreshWorks
  <2>. SUFFICES ASSUME IInv, \A p \in Procs : At(p, "idle"), ~ crossed, NEW n \in Names, ctxs[n] # None
                PROVE  ctxs[n].auth.refresh \notin issuer.spent
    BY DEF StoredRefreshWorks
  <2>1. Pending
    BY DEF IInv
  <2>2. \A p \in Procs : ~ Renewing(p, n)
    BY DEF At, Renewing
  <2> QED BY <2>1, <2>2 DEF Pending
<1> QED BY <1>1, AlwaysIInv, PTL

\* If a CA that users name is the issuer's, a login learns the organization of the
\* self-managed platform, with whatever flags the issuer was verified (updateCertMap,
\* getSelfManagedOrg).
THEOREM PlatformIsLearned == ASSUME FlagsAreRight PROVE Spec => []OrganizationKnown
<1>1. IInv => OrganizationKnown
  BY DEF IInv, VerifiedOK, OrganizationKnown
<1> QED BY <1>1, AlwaysIInv, PTL

\* What another process does leaves a session alone.
LEMMA ElsewhereStays ==
  ASSUME IInv, NEW p \in Procs, NEW q \in Procs, q # p, NEW s, Become(q, s), InSession(p)
  PROVE  InSession(p)'
<1>1. proc'[p] = proc[p]
  BY Becomes DEF IInv
<1> QED BY <1>1 DEF InSession

\* What a process does is to become something, or nothing.
LEMMA OneProcess ==
  ASSUME NEW p, Begin(p) \/ Step(p) \/ Handler(p) \/ Outside(p) \/ Crash(p) \/ Fail(p)
  PROVE  proc' = proc \/ \E s : Become(p, s)
<1>1. CASE Begin(p)
  BY <1>1 DEF Begin, BeginLogin, BeginTMC, BeginOnContext, createAPIToken, BeginCertAdd, BeginCertUpdate,
              BeginCertDelete, Configure, Start
<1>2. CASE Step(p)
  BY <1>2 DEF Step, doCSPAuthentication, doUAAAuthentication, getToken, DoLogin, browserLogin, GetToken, ShowAPIToken,
              globalLogin, globalTanzuLogin, GetOrgNameFails, updateTanzuContextMetadata, AddContext, SetContext,
              CertDelete, CertSet, Goto, Return
<1>3. CASE Handler(p)
  BY <1>3 DEF Handler, callbackHandler, CallbackExchange, CallbackDone, PromptExchange, PromptStore, PromptCancelled,
              ExchangeCompletes, ReadToken, CloseSession, SetSess, Goto, Return
<1>4. CASE Outside(p)
  BY <1>4 DEF Outside, BrowserCalls, UserPastes, PromptFails, SetSess
<1>5. CASE Crash(p) \/ Fail(p)
  BY <1>5 DEF Crash, Fail, Return
<1> QED BY <1>1, <1>2, <1>3, <1>4, <1>5

LEMMA SessionGoesOn ==
  ASSUME IInv, NEW p \in Procs, InSession(p), NEW h, SetSess(p, h)
  PROVE  InSession(p)'
<1>1. proc[p] \in ProcState /\ proc'[p] = [proc[p] EXCEPT !.sess = h]
  BY Becomes DEF IInv, TypeOK, SetSess
<1>2. proc'[p].pc = proc[p].pc
  BY <1>1 DEF ProcState
<1> QED BY <1>2 DEF InSession

LEMMA OwnSteps ==
  ASSUME IInv, NEW p \in Procs, InSession(p), Sess(p).told, ~ Sess(p).prompted,
         Begin(p) \/ Step(p) \/ Handler(p) \/ Outside(p) \/ Crash(p) \/ Fail(p)
  PROVE  InSession(p)' \/ At(p, "granted")' \/ faults' # faults
<1>. DEFINE s == proc[p]
<1>0. s \in ProcState /\ s.pc \in {"wait", "check", "close"} /\ Fine(Sess(p), s.pc, s.tok)
  BY InSessionFacts DEF InSession
<1>1. CASE Begin(p)
  <2>1. proc' = proc
    BY <1>0, <1>1 DEF Begin, BeginLogin, BeginTMC, BeginOnContext, createAPIToken, BeginCertAdd, BeginCertUpdate,
                BeginCertDelete, Configure, Start, At
  <2> QED BY <2>1 DEF InSession
<1>2. CASE Step(p)
  BY <1>0, <1>2 DEF Step, doCSPAuthentication, doUAAAuthentication, getToken, DoLogin, browserLogin, GetToken, ShowAPIToken,
              globalLogin, globalTanzuLogin, GetOrgNameFails, updateTanzuContextMetadata, AddContext, SetContext,
              CertDelete, CertSet, At
<1>3. CASE Handler(p)
  <2>1. CASE \E h : SetSess(p, h)
    BY <2>1, SessionGoesOn
  <2>2. CASE ExchangeCompletes(p)
    <3>. DEFINE x == IF Sess(p).token = None THEN "close" ELSE "check"
    <3>1. proc'[p] = [s EXCEPT !.pc = x] /\ x \in {"check", "close"}
      BY <2>2, Becomes DEF IInv, ExchangeCompletes, Goto
    <3>. HIDE DEF x
    <3>2. proc'[p].pc = x
      BY <1>0, <3>1 DEF ProcState
    <3> QED BY <3>1, <3>2 DEF InSession
  <2>3. CASE ReadToken(p)
    <3>. DEFINE k == Sess(p).token
    <3>1. k # None
      BY <1>0, <2>3 DEF ReadToken, At, Fine
    <3>2. proc'[p] = [s EXCEPT !.pc = "close", !.tok = k]
      BY <2>3, <3>1, Becomes DEF IInv, ReadToken
    <3>. HIDE DEF k
    <3>3. proc'[p].pc = "close"
      BY <1>0, <3>2 DEF ProcState
    <3> QED BY <3>3 DEF InSession
  <2>4. CASE CloseSession(p)
    <3>1. s.tok # None
      BY <1>0, <2>4 DEF CloseSession, At, Fine
    <3>2. proc'[p] = [s EXCEPT !.pc = "granted", !.sess = NoSession]
      BY <2>4, <3>1, Becomes DEF IInv, CloseSession
    <3>3. proc'[p].pc = "granted"
      BY <1>0, <3>2 DEF ProcState
    <3> QED BY <3>3 DEF At
  <2> QED BY <1>3, <2>1, <2>2, <2>3, <2>4
        DEF Handler, callbackHandler, CallbackExchange, CallbackDone, PromptExchange, PromptStore, PromptCancelled
<1>4. CASE Outside(p)
  <2>1. \E h : SetSess(p, h)
    BY <1>4 DEF Outside, BrowserCalls, UserPastes, PromptFails
  <2> QED BY <2>1, SessionGoesOn
<1>5. CASE Crash(p) \/ Fail(p)
  <2>1. faults' = faults + 1 /\ faults \in Nat
    BY <1>5 DEF Crash, Fail, Fault, IInv
  <2> QED BY <2>1
<1> QED BY <1>1, <1>2, <1>3, <1>4, <1>5

\* A browser that was told that the login succeeded was told the truth, unless the prompt
\* got a code as well or failed, or the process was cut short (callbackHandler).
THEOREM BrowserIsToldTheTruth == Spec => LoginKeepsToken
<1>. DEFINE Truth(p) == InSession(p) /\ Sess(p).told /\ ~ Sess(p).prompted /\ ~ InSession(p)' =>
                          At(p, "granted")' \/ faults' # faults
<1>1. ASSUME IInv, Next, NEW p \in Procs PROVE Truth(p)
  <2>. SUFFICES ASSUME InSession(p), Sess(p).told, ~ Sess(p).prompted
                PROVE  InSession(p)' \/ At(p, "granted")' \/ faults' # faults
    OBVIOUS
  <2>1. ASSUME NEW q \in Procs, Begin(q) \/ Step(q) \/ Handler(q) \/ Outside(q) \/ Crash(q) \/ Fail(q)
        PROVE  InSession(p)' \/ At(p, "granted")' \/ faults' # faults
    <3>1. CASE q = p
      BY <1>1, <2>1, <3>1, OwnSteps
    <3>2. CASE q # p /\ proc' = proc
      BY <3>2 DEF InSession
    <3>3. CASE q # p /\ \E s : Become(q, s)
      BY <1>1, <3>3, ElsewhereStays
    <3> QED BY <2>1, <3>1, <3>2, <3>3, OneProcess
  <2>2. CASE Tick \/ Lapse
    BY <2>2 DEF Tick, Lapse, InSession
  <2> QED BY <1>1, <2>1, <2>2 DEF Next
<1>2. IInv /\ [Next]_vars => [\A p \in Procs : Truth(p)]_vars
  BY <1>1
<1>3. [][\A p \in Procs : Truth(p)]_vars => LoginKeepsToken
  BY DEF LoginKeepsToken
<1> QED BY <1>2, <1>3, AlwaysIInv, PTL DEF Spec

==============================================================================
