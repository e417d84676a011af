-------------------------------- MODULE Login --------------------------------
(***************************************************************************)
(* Authentication (pkg/auth, and its callers in pkg/command): `tanzu       *)
(* login`, `context create` of a tanzu or a mission-control context,       *)
(* `context get-token`, which kubectl runs beside every other command, and *)
(* `api-token create`.  A login with an API or a refresh token asks the    *)
(* issuer; an interactive one opens a browser and waits for a callback of  *)
(* it or for a pasted code, whichever comes first, in goroutines that      *)
(* share the handler.  The tokens end up in the context, in the CLI        *)
(* configuration.  Beside them run the commands that change the            *)
(* configuration (module Configuration).  What logins do to kubeconfig     *)
(* files is in module Contexts.                                            *)
(***************************************************************************)
EXTENDS Configuration, FiniteSets

CONSTANTS
  Procs,        \* CLI processes
  Orgs,         \* organizations of the user at the public issuer (CSP)
  APIOrgs,      \* those for which the user has an API token
  DefaultOrg,   \* the one a login gets when it asks for none
  OrgVariable,  \* TANZU_CLI_CLOUD_SERVICES_ORGANIZATION_ID
  IssuerCA,     \* the CA of the self-managed issuer's (UAA) certificate, or None
  Rotating,     \* issuers that replace a refresh token when it is used
  Callbacks,    \* callbacks of a browser to one login, numbered
  Prompts,      \* with a terminal the user is prompted for a code: subset of {"off", "reading"}
  Earlier,      \* sets of contexts that earlier logins may have left
  FixedPort,    \* TANZU_CLI_OAUTH_LOCAL_LISTENER_PORT is set: every login listens there
  TLSOptions,   \* TLS flags of a login: records [ca, skip]
  CertFlags,    \* flags of config cert: those that users give
  Kinds,        \* the commands that are run
  MaxOps,       \* how many: a bound
  MaxGrants,    \* refresh tokens that issuers give out: a bound
  MaxNow,       \* a bound on time
  Life,         \* how long an access token is good
  Faults,       \* subset of {"crash", "fail", "lapse"}
  MaxFaults     \* how many faults: a bound

Idps == {"csp", "uaa"}
SelfManaged == "self-managed"
Commands == {"login", "tmc", "token", "resource", "apitoken", "certadd", "certupdate", "certdelete",
             "config"}

\* The context of a CSP login is named after its organization; there is one
\* self-managed platform, and one mission-control context.
prepareTanzuContextName(idp, org) == IF idp = "uaa" THEN "tpsm" ELSE org
Names == Orgs \cup {"tpsm", "tmc"}

\* A refresh token; number 0 is an API token that the user made at the CSP console.
Refresh == [issuer : Idps, org : Orgs \cup {SelfManaged}, n : 0..MaxGrants]

\* What an issuer returns (Token), and what a context keeps of it (GlobalServerAuth).
Token == [org : Orgs \cup {SelfManaged}, exp : Int, refresh : Refresh]
Context ==
  [type : {"tanzu", "mission-control"},
   idp  : Idps,
   org  : Orgs \cup {SelfManaged, None},    \* in the metadata of the context
   kind : {"api-token", "id-token"},
   auth : Token]

NoTLS == [ca |-> None, skip |-> FALSE]
NoShell == [v \in Variables |-> None]

ASSUME LoginAssumption ==
  /\ DefaultOrg \in Orgs /\ APIOrgs \subseteq Orgs /\ OrgVariable \in Variables /\ Orgs \subseteq Values
  /\ SelfManaged \notin Orgs /\ {"tpsm", "tmc"} \cap Orgs = {}
  /\ Earlier \subseteq SUBSET (Orgs \cup {"tpsm"})
  /\ IssuerCA \in CAs \cup {None} /\ Rotating \subseteq Idps
  /\ TLSOptions \subseteq [ca : CAs \cup {None}, skip : BOOLEAN]
  /\ CertFlags \subseteq Cert /\ FixedPort \in BOOLEAN /\ Prompts \subseteq {"off", "reading"}
  /\ \A t \in TLSOptions : ~ (t.skip /\ t.ca # None)
  /\ Kinds \subseteq Commands
  /\ {MaxOps, MaxGrants, MaxNow, Life, MaxFaults} \subseteq Nat /\ MaxGrants > 0
  /\ None \notin Names /\ None \notin Callbacks /\ None # SelfManaged
  /\ None \notin Refresh /\ None \notin Token /\ None \notin Context

-----------------------------------------------------------------------------
VARIABLES
  config,  \* the settings in the CLI configuration
  ctxs,    \* its contexts
  active,  \* the active tanzu context
  issuer,  \* the issuers: refresh tokens given, used up and lapsed, and API tokens of the user
  proc,    \* the processes
  now,     \* time
  ops,     \* commands run, and what users and browsers do beyond one callback
  faults,  \* faults so far
  crossed  \* a command was cut short, or changed what another one was using

vars == <<config, ctxs, active, issuer, proc, now, ops, faults, crossed>>

PCs == {"idle", "endpoint", "get", "refresh", "listen", "wait", "check", "close", "granted", "metadata",
        "add", "set", "certset", "certdelete"}

\* The login handler during a login with a browser.
Session ==
  [token    : Token \cup {None},      \* h.token
   complete : BOOLEAN,                \* h.tokenExchange is cancelled
   mutex    : Callbacks \cup {None},  \* h.callbackHandlerMutex
   cb       : [Callbacks -> {"none", "good", "bad", "locked", "answer", "done"}],
   prompt   : {"off", "reading", "pasted", "store", "done"},
   got      : Token \cup {None},      \* what a pasted code was exchanged for
   used     : BOOLEAN,                \* the authorization code was exchanged
   prompted : BOOLEAN,                \* the prompt got a code, or failed by itself
   told     : BOOLEAN]                \* the browser was told that the login succeeded

NoSession ==
  [token |-> None, complete |-> FALSE, mutex |-> None, cb |-> [c \in Callbacks |-> "none"],
   prompt |-> "off", got |-> None, used |-> FALSE, prompted |-> FALSE, told |-> FALSE]

ProcState ==
  [pc       : PCs,
   kind     : Commands \cup {"none"},
   name     : Names \cup {None},
   idp      : Idps,
   api      : Refresh \cup {None},    \* TANZU_API_TOKEN
   tls      : [ca : CAs \cup {None}, skip : BOOLEAN],
   org      : Values \cup {None},     \* the organization to log in to
   refresh  : Refresh \cup {None},    \* h.refreshToken
   suppress : BOOLEAN,                \* h.suppressInteractive
   tok      : Token \cup {None},      \* what the login returned
   ctx      : Context \cup {None},
   cert     : Cert \cup {None},
   sess     : Session]

Idle ==
  [pc |-> "idle", kind |-> "none", name |-> None, idp |-> "csp", api |-> None, tls |-> NoTLS,
   org |-> None, refresh |-> None, suppress |-> FALSE, tok |-> None, ctx |-> None,
   cert |-> None, sess |-> NoSession]

\* What a login with the browser left, with the first refresh token of its issuer.
EarlierContext(n) ==
  LET idp == IF n = "tpsm" THEN "uaa" ELSE "csp"
      org == IF n = "tpsm" THEN SelfManaged ELSE n
  IN [type |-> "tanzu", idp |-> idp, org |-> org, kind |-> "id-token",
      auth |-> [org |-> org, exp |-> Life, refresh |-> [issuer |-> idp, org |-> org, n |-> 1]]]

Init ==
  /\ config = EmptyConfig
  /\ \E logged \in Earlier :
       /\ ctxs = [n \in Names |-> IF n \in logged THEN EarlierContext(n) ELSE None]
       /\ active \in IF logged = {} THEN {None} ELSE logged
  /\ issuer = [given |-> 1, spent |-> {}, lapsed |-> {},
               api |-> {[issuer |-> "csp", org |-> o, n |-> 0] : o \in APIOrgs}]
  /\ proc = [p \in Procs |-> Idle]
  /\ now = 0 /\ ops = 0 /\ faults = 0
  /\ crossed = FALSE

-----------------------------------------------------------------------------
(* Tokens *)

\* Go's integer division truncates.
Half(d) == IF d >= 0 THEN d \div 2 ELSE - ((- d) \div 2)
IsExpired(exp) == exp - Half(exp - now) < now

Accepted(r) == r \notin issuer.spent \cup issuer.lapsed

\* Whether the issuer's certificate is accepted.
Reaches(idp, tls) ==
  LET t == GetTLSConfig(config, tls) IN idp = "csp" \/ t.skip \/ IssuerCA \in {None, t.ca}

\* A refresh token gets an access token, and at some issuers a new refresh token.
Renewed(r) ==
  [org |-> r.org, exp |-> now + Life,
   refresh |-> IF r.n > 0 /\ r.issuer \in Rotating THEN [r EXCEPT !.n = issuer.given + 1] ELSE r]
Renews(r) ==
  IF r.n > 0 /\ r.issuer \in Rotating
  THEN /\ issuer.given < MaxGrants
       /\ issuer' = [issuer EXCEPT !.given = issuer.given + 1, !.spent = issuer.spent \cup {r}]
  ELSE UNCHANGED issuer

\* What the code of a login is exchanged for: a token of the organization asked for.
Granted(p) ==
  LET o == CASE proc[p].idp = "uaa" -> SelfManaged
             [] proc[p].idp = "csp" /\ proc[p].org # None -> proc[p].org
             [] OTHER -> DefaultOrg
  IN [org |-> o, exp |-> now + Life,
      refresh |-> [issuer |-> proc[p].idp, org |-> o, n |-> issuer.given + 1]]

-----------------------------------------------------------------------------
(* Commands *)

At(p, pc) == proc[p].pc = pc
Become(p, s) == proc' = [proc EXCEPT ![p] = s]
Goto(p, pc) == Become(p, [proc[p] EXCEPT !.pc = pc])
Return(p) == Become(p, Idle)
OnlyProc == UNCHANGED <<config, ctxs, active, issuer, now, ops, faults, crossed>>

Start(p, kind, s) ==
  /\ At(p, "idle") /\ ops < MaxOps /\ kind \in Kinds
  /\ ops' = ops + 1
  /\ Become(p, IF s = Idle THEN Idle ELSE [s EXCEPT !.kind = kind])
  /\ UNCHANGED <<config, ctxs, active, issuer, now, faults, crossed>>

\* login and context create: an API token in the environment, or a browser.  At CSP
\* the organization is that of the shell or else of the configuration; only the
\* self-managed issuer is given the TLS flags.
BeginLogin(p) ==
  \E idp \in Idps, tls \in TLSOptions, o \in Orgs \cup {None} :
  \E api \in {None} \cup {r \in issuer.api : r.issuer = idp} :
    /\ idp = "csp" => tls = NoTLS
    /\ idp = "uaa" \/ api # None => o = None
    /\ LET env == ConfigureEnvVariables(config, [NoShell EXCEPT ![OrgVariable] = o]) IN
       Start(p, "login", [Idle EXCEPT !.pc = "endpoint", !.idp = idp, !.tls = tls, !.api = api,
                             !.org = IF idp = "csp" /\ api = None THEN env[OrgVariable] ELSE None])

\* A mission-control context takes an API token, from the environment or a prompt.
BeginTMC(p) ==
  \E r \in {r \in issuer.api : r.issuer = "csp"} :
    Start(p, "tmc", [Idle EXCEPT !.pc = "endpoint", !.name = "tmc", !.api = r])

BeginOnContext(p) ==
  \E k \in {"token", "resource"}, n \in Names :
    Start(p, k, [Idle EXCEPT !.pc = "get", !.name = n])

\* api-token create logs in to the issuer of the active self-managed context.
createAPIToken(p) ==
  Start(p, "apitoken", IF active = "tpsm" THEN [Idle EXCEPT !.pc = "listen", !.idp = "uaa"] ELSE Idle)

\* Endpoints that the environment sets, of {"hub", "tmc", "ucp"}; when it sets them
\* all nothing else is looked at, and a self-managed platform has no endpoint to
\* authenticate at.
configureTanzuPlatformServiceEndpoints(idp, env) ==
  LET from(s) == IF s \in env THEN "env" ELSE idp IN
  CASE env = {"hub", "tmc", "ucp"} ->
         [hub |-> "env", tmc |-> "env", ucp |-> "env", auth |-> None]
    [] env # {"hub", "tmc", "ucp"} /\ idp = "csp" ->
         [hub |-> from("hub"), tmc |-> from("tmc"), ucp |-> from("ucp"), auth |-> None]
    [] OTHER -> [hub |-> idp, tmc |-> idp, ucp |-> idp, auth |-> idp]

\* doCSPAuthentication and globalLogin: with an API token, or with the browser.
doCSPAuthentication(p) ==
  /\ At(p, "endpoint") /\ proc[p].idp = "csp"
  /\ LET s == proc[p] IN
     \/ /\ s.api # None /\ Accepted(s.api)
        /\ Become(p, [s EXCEPT !.pc = "granted", !.tok = Renewed(s.api)])
     \/ /\ s.api # None /\ ~ Accepted(s.api)
        /\ Return(p)
     \/ /\ s.api = None
        /\ Goto(p, "listen")
  /\ OnlyProc

\* doUAAAuthentication: likewise, if the platform has an endpoint for it.
doUAAAuthentication(p) ==
  /\ At(p, "endpoint") /\ proc[p].idp = "uaa"
  /\ LET s == proc[p] IN
     \E env \in {{}, {"hub"}, {"hub", "tmc", "ucp"}} :
       LET auth == configureTanzuPlatformServiceEndpoints("uaa", env).auth IN
       \/ /\ auth = None
          /\ Return(p)
       \/ /\ auth # None /\ s.api # None
          /\ Become(p, [s EXCEPT !.pc = "refresh", !.refresh = s.api, !.suppress = TRUE])
       \/ /\ auth # None /\ s.api = None
          /\ Goto(p, "listen")
  /\ OnlyProc

\* How the token of a context is renewed.  At CSP an API token gets another access
\* token, or nothing; a refresh token is for the organization of the context.
cspGetTokens_AnyOrg(p, c) ==
  IF c.kind = "api-token"
  THEN IF Accepted(c.auth.refresh)
       THEN [proc[p] EXCEPT !.pc = "granted", !.ctx = c, !.tok = Renewed(c.auth.refresh)]
       ELSE Idle
  ELSE [proc[p] EXCEPT !.pc = "refresh", !.ctx = c, !.idp = "csp", !.refresh = c.auth.refresh]
cspGetTokens(p, c) ==
  IF c.kind = "api-token"
  THEN IF Accepted(c.auth.refresh)
       THEN [proc[p] EXCEPT !.pc = "granted", !.ctx = c, !.tok = Renewed(c.auth.refresh)]
       ELSE Idle
  ELSE [proc[p] EXCEPT !.pc = "refresh", !.ctx = c, !.idp = "csp", !.refresh = c.auth.refresh,
                       !.org = c.auth.org]

uaaGetTokens(p, c) ==
  [proc[p] EXCEPT !.pc = "refresh", !.ctx = c, !.idp = "uaa", !.refresh = c.auth.refresh,
                  !.suppress = c.kind = "api-token"]

\* config.GetContext, and what get-token and update tanzu-active-resource make of it.
getToken(p) ==
  /\ At(p, "get")
  /\ LET c == ctxs[proc[p].name] IN
     Become(p, CASE c = None \/ (c # None /\ c.type # "tanzu") -> Idle
                 [] c # None /\ c.type = "tanzu" /\ proc[p].kind = "resource" ->
                      [proc[p] EXCEPT !.pc = "set", !.ctx = c]
                 [] c # None /\ c.type = "tanzu" /\ proc[p].kind = "token" /\ ~ IsExpired(c.auth.exp) ->
                      Idle
                 [] OTHER -> IF c.idp = "csp" THEN cspGetTokens(p, c) ELSE uaaGetTokens(p, c))
  /\ OnlyProc

-----------------------------------------------------------------------------
(* The login handler *)

\* Flags that a login succeeded with are kept for the issuer's host.
updateCertMap_OnlyNew(cfg, tls) ==
  LET c == [ca |-> tls.ca, skip |-> IF tls.skip THEN "true" ELSE "false", insecure |-> None] IN
  IF tls = NoTLS \/ cfg.cert # None THEN cfg ELSE SetCert(cfg, c)
updateCertMap(cfg, tls) ==
  LET c == [ca |-> tls.ca, skip |-> IF tls.skip THEN "true" ELSE "false",
            insecure |-> IF cfg.cert = None THEN None ELSE cfg.cert.insecure]
  IN IF tls = NoTLS \/ (cfg.cert # None /\ cfg.cert.ca = c.ca /\ cfg.cert.skip = c.skip) THEN cfg
     ELSE SetCert(cfg, c)

\* DoLogin with a refresh token.  When it is not accepted, a login that may
\* interact goes on with the browser.
DoLogin(p) ==
  /\ At(p, "refresh")
  /\ LET s == proc[p] IN
     \/ /\ Accepted(s.refresh) /\ Reaches(s.idp, s.tls)
        /\ Renews(s.refresh)
        /\ Become(p, [s EXCEPT !.pc = "granted", !.tok = Renewed(s.refresh)])
        /\ config' = IF s.suppress THEN updateCertMap(config, s.tls) ELSE config
     \/ /\ ~ (Accepted(s.refresh) /\ Reaches(s.idp, s.tls))
        /\ IF s.suppress THEN Return(p) ELSE Goto(p, "listen")
        /\ UNCHANGED <<config, issuer>>
  /\ UNCHANGED <<ctxs, active, now, ops, faults, crossed>>

InSession(p) == proc[p].pc \in {"wait", "check", "close"}

\* The listener may fail to start.  Without a terminal that is an error; with one,
\* which a user could paste the code at, the address of no listener is asked for
\* and the process panics.
browserLogin(p) ==
  /\ At(p, "listen")
  /\ \/ Return(p)
     \/ \E prompt \in Prompts :
        /\ ~ (FixedPort /\ \E q \in Procs : InSession(q))
        /\ Become(p, [proc[p] EXCEPT !.pc = "wait",
                      !.sess = [NoSession EXCEPT !.prompt = prompt]])
  /\ OnlyProc

Sess(p) == proc[p].sess
SetSess(p, h) == Become(p, [proc[p] EXCEPT !.sess = h])

\* The browser calls back, once or more, with the code of the login or without.
BrowserCalls(p, c) ==
  /\ InSession(p) /\ Sess(p).cb[c] = "none"
  /\ \A b \in Callbacks : b < c => Sess(p).cb[b] # "none"
  /\ c = 1 \/ ops < MaxOps
  /\ ops' = IF c = 1 THEN ops ELSE ops + 1
  /\ \E kind \in {"good", "bad"} : SetSess(p, [Sess(p) EXCEPT !.cb[c] = kind])
  /\ UNCHANGED <<config, ctxs, active, issuer, now, faults, crossed>>

\* callbackHandler: one callback at a time; when there is a token it is over.
callbackHandler_NoCheck(p, c) ==
  /\ InSession(p) /\ Sess(p).cb[c] \in {"good", "bad"} /\ Sess(p).mutex = None
  /\ SetSess(p, [Sess(p) EXCEPT !.mutex = c, !.cb[c] = IF Sess(p).cb[c] = "good" THEN "locked" ELSE "answer"])
  /\ OnlyProc
callbackHandler(p, c) ==
  /\ InSession(p) /\ Sess(p).cb[c] \in {"good", "bad"} /\ Sess(p).mutex = None
  /\ LET h == Sess(p) IN
     SetSess(p, IF h.token # None THEN [h EXCEPT !.cb[c] = "done"]
                ELSE [h EXCEPT !.mutex = c, !.cb[c] = IF h.cb[c] = "good" THEN "locked" ELSE "answer"])
  /\ OnlyProc

\* getTokenUsingAuthCode: a code is good once, and not after the context is cancelled.
\* The issuer gives tokens of the user's organizations only.
Exchanges(p) ==
  /\ ~ Sess(p).used /\ ~ Sess(p).complete /\ Reaches(proc[p].idp, proc[p].tls)
  /\ proc[p].org \in Orgs \cup {None}
  /\ issuer.given < MaxGrants

\* h.token is what the exchange returned, nil if it failed.
CallbackExchange(p, c) ==
  /\ InSession(p) /\ Sess(p).cb[c] = "locked"
  /\ LET h == Sess(p) IN
     \/ /\ Exchanges(p)
        /\ issuer' = [issuer EXCEPT !.given = issuer.given + 1]
        /\ SetSess(p, [h EXCEPT !.token = Granted(p), !.used = TRUE, !.told = TRUE, !.cb[c] = "answer"])
     \/ /\ UNCHANGED issuer
        /\ SetSess(p, [h EXCEPT !.token = None, !.cb[c] = "answer"])
  /\ UNCHANGED <<config, ctxs, active, now, ops, faults, crossed>>

CallbackDone_Forgets(p, c) ==
  /\ InSession(p) /\ Sess(p).cb[c] = "answer"
  /\ SetSess(p, [Sess(p) EXCEPT !.complete = Sess(p).told, !.mutex = None, !.cb[c] = "done"])
  /\ OnlyProc
\* The deferred calls: the exchange is complete, whatever came of it.
CallbackDone(p, c) ==
  /\ InSession(p) /\ Sess(p).cb[c] = "answer"
  /\ SetSess(p, [Sess(p) EXCEPT !.complete = TRUE, !.mutex = None, !.cb[c] = "done"])
  /\ OnlyProc

\* The user pastes a code at the prompt of promptAndLoginWithAuthCode.
UserPastes(p) ==
  /\ InSession(p) /\ Sess(p).prompt = "reading" /\ ops < MaxOps
  /\ ops' = ops + 1
  /\ SetSess(p, [Sess(p) EXCEPT !.prompt = "pasted", !.prompted = TRUE])
  /\ UNCHANGED <<config, ctxs, active, issuer, now, faults, crossed>>

PromptExchange(p) ==
  /\ InSession(p) /\ Sess(p).prompt = "pasted"
  /\ LET h == Sess(p) IN
     \/ /\ Exchanges(p)
        /\ issuer' = [issuer EXCEPT !.given = issuer.given + 1]
        /\ SetSess(p, [h EXCEPT !.got = Granted(p), !.used = TRUE, !.prompt = "store"])
     \/ /\ UNCHANGED issuer
        /\ SetSess(p, [h EXCEPT !.prompt = "store"])
  /\ UNCHANGED <<config, ctxs, active, now, ops, faults, crossed>>

\* The goroutine of the prompt sets h.token, without the mutex, and completes.
PromptStore(p) ==
  /\ InSession(p) /\ Sess(p).prompt = "store"
  /\ SetSess(p, [Sess(p) EXCEPT !.token = Sess(p).got, !.complete = TRUE, !.prompt = "done"])
  /\ OnlyProc

\* The input of the prompt ends, or cannot be read: the goroutine completes the
\* exchange all the same, and the main one finds a token or none.
PromptFails(p) ==
  /\ InSession(p) /\ Sess(p).prompt = "reading" /\ ops < MaxOps
  /\ ops' = ops + 1
  /\ SetSess(p, [Sess(p) EXCEPT !.prompt = "done", !.complete = TRUE, !.prompted = TRUE])
  /\ UNCHANGED <<config, ctxs, active, issuer, now, faults, crossed>>

\* The prompt ends when the exchange is complete.
PromptCancelled(p) ==
  /\ InSession(p) /\ Sess(p).prompt = "reading" /\ Sess(p).complete
  /\ SetSess(p, [Sess(p) EXCEPT !.prompt = "done"])
  /\ OnlyProc

\* The main goroutine: the exchange is complete, and there is a token or not.
ExchangeCompletes(p) ==
  /\ At(p, "wait") /\ Sess(p).complete
  /\ Goto(p, IF Sess(p).token = None THEN "close" ELSE "check")
  /\ OnlyProc

\* It reads h.token again.
ReadToken(p) ==
  /\ At(p, "check")
  /\ IF Sess(p).token = None
     THEN Return(p) /\ UNCHANGED config
     ELSE /\ Become(p, [proc[p] EXCEPT !.pc = "close", !.tok = Sess(p).token])
          /\ config' = updateCertMap(config, proc[p].tls)
  /\ UNCHANGED <<ctxs, active, issuer, now, ops, faults, crossed>>

\* The deferred wait for the prompt, and the shutdown of the listener.
CloseSession(p) ==
  /\ At(p, "close") /\ Sess(p).prompt \in {"off", "done"}
  /\ IF proc[p].tok = None THEN Return(p)
     ELSE Become(p, [proc[p] EXCEPT !.pc = "granted", !.sess = NoSession])
  /\ OnlyProc

-----------------------------------------------------------------------------
(* The context *)

\* The organization of a self-managed platform is asked for at the platform, which
\* verifies it as the configuration says; unanswered, it stays empty.
getSelfManagedOrg == IF Reaches("uaa", NoTLS) THEN SelfManaged ELSE None

\* What a login makes of its token; the claims are parsed from it.
AuthenticatedContext(s) ==
  [type |-> IF s.kind = "tmc" THEN "mission-control" ELSE "tanzu", idp |-> s.idp,
   org |-> IF s.idp = "uaa" THEN getSelfManagedOrg ELSE s.tok.org,
   kind |-> IF s.api = None THEN "id-token" ELSE "api-token", auth |-> s.tok]

\* get-token puts the token into the context that it read.
GetToken(p) ==
  /\ At(p, "granted") /\ proc[p].kind = "token"
  /\ Become(p, [proc[p] EXCEPT !.pc = "set", !.ctx = [proc[p].ctx EXCEPT !.auth = proc[p].tok]])
  /\ OnlyProc

\* api-token create shows the refresh token to the user.
ShowAPIToken(p) ==
  /\ At(p, "granted") /\ proc[p].kind = "apitoken"
  /\ Return(p)
  /\ issuer' = [issuer EXCEPT !.api = issuer.api \cup {proc[p].tok.refresh}]
  /\ UNCHANGED <<config, ctxs, active, now, ops, faults, crossed>>

globalLogin(p) ==
  /\ At(p, "granted") /\ proc[p].kind = "tmc"
  /\ Become(p, [proc[p] EXCEPT !.pc = "add", !.ctx = AuthenticatedContext(proc[p])])
  /\ OnlyProc

globalTanzuLogin(p) ==
  /\ At(p, "granted") /\ proc[p].kind = "login"
  /\ Become(p, [proc[p] EXCEPT !.pc = "metadata", !.ctx = AuthenticatedContext(proc[p]),
                !.name = prepareTanzuContextName(proc[p].idp, proc[p].tok.org)])
  /\ OnlyProc

\* At CSP the name of the organization is asked for; without it there is no context.
GetOrgNameFails(p) ==
  /\ At(p, "granted") /\ proc[p].kind = "login" /\ proc[p].idp = "csp"
  /\ Return(p)
  /\ OnlyProc

\* A login to a context that exists keeps the metadata of it.
updateTanzuContextMetadata(p) ==
  /\ At(p, "metadata")
  /\ LET old == ctxs[proc[p].name] IN
     Become(p, [proc[p] EXCEPT !.pc = "add",
                !.ctx = IF old = None THEN proc[p].ctx ELSE [proc[p].ctx EXCEPT !.org = old.org]])
  /\ OnlyProc

AddContext(p) ==
  /\ At(p, "add")
  /\ ctxs' = [ctxs EXCEPT ![proc[p].name] = proc[p].ctx]
  /\ active' = IF proc[p].kind = "tmc" THEN active ELSE proc[p].name
  /\ Return(p)
  /\ UNCHANGED <<config, issuer, now, ops, faults, crossed>>

SetContext_KeepsRefresh(p) ==
  /\ At(p, "set")
  /\ LET n == proc[p].name
         c == proc[p].ctx
     IN /\ ctxs' = [ctxs EXCEPT ![n] = IF ctxs[n] = None THEN c
                                       ELSE [c EXCEPT !.auth.refresh = ctxs[n].auth.refresh]]
        /\ crossed' = (crossed \/ (proc[p].kind = "resource" /\ (ctxs[n] = None \/ ctxs[n].auth # c.auth)))
  /\ Return(p)
  /\ UNCHANGED <<config, active, issuer, now, ops, faults>>
\* get-token and update tanzu-active-resource store the context they read.
SetContext(p) ==
  /\ At(p, "set")
  /\ LET n == proc[p].name
         c == proc[p].ctx
     IN /\ ctxs' = [ctxs EXCEPT ![n] = c]
        /\ crossed' = (crossed \/ (proc[p].kind = "resource" /\ (ctxs[n] = None \/ ctxs[n].auth # c.auth)))
  /\ Return(p)
  /\ UNCHANGED <<config, active, issuer, now, ops, faults>>

-----------------------------------------------------------------------------
(* The configuration *)

\* A change of how certificates are verified, perhaps under a login.
ChangeCert(new) ==
  /\ config' = new
  /\ crossed' = (crossed \/ \E q \in Procs : proc[q].kind \in {"login", "apitoken", "token"})

\* config cert add, for a host that has no entry.
BeginCertAdd(p) ==
  \E f \in CertFlags \cap AddFlags :
    Start(p, "certadd", IF config.cert # None THEN Idle
                        ELSE [Idle EXCEPT !.pc = "certset", !.cert = f])

\* config cert update replaces the entry of a host; config cert delete removes it.
BeginCertUpdate(p) ==
  \E f \in CertFlags \cap UpdateFlags :
    Start(p, "certupdate", IF config.cert = None THEN Idle
                           ELSE [Idle EXCEPT !.pc = "certdelete",
                                             !.cert = updateCert(config.cert, f)])
BeginCertDelete(p) == Start(p, "certdelete", [Idle EXCEPT !.pc = "certdelete"])

CertDelete(p) ==
  /\ At(p, "certdelete")
  /\ ChangeCert(DeleteCert(config))
  /\ IF proc[p].kind = "certupdate" THEN Goto(p, "certset") ELSE Return(p)
  /\ UNCHANGED <<ctxs, active, issuer, now, ops, faults>>

CertSet(p) ==
  /\ At(p, "certset")
  /\ ChangeCert(SetCert(config, proc[p].cert))
  /\ Return(p)
  /\ UNCHANGED <<ctxs, active, issuer, now, ops, faults>>

\* config set, unset and init, and ceip-participation set, each one change.
Configure(p) ==
  /\ At(p, "idle") /\ ops < MaxOps /\ "config" \in Kinds
  /\ \/ \E v \in Variables, x \in Values : config' = SetConfiguration(config, v, x)
     \/ \E v \in Variables : config' = UnsetConfiguration(config, v)
     \/ \E f \in Features, b \in BOOLEAN : config' = SetFeature(config, f, b)
     \/ \E f \in Features : config' = UnsetFeature(config, f)
     \/ config' = InitConfig(config)
     \/ \E b \in BOOLEAN : config' = SetCEIPOptIn(config, b)
  /\ ops' = ops + 1
  /\ UNCHANGED <<ctxs, active, issuer, proc, now, faults, crossed>>

-----------------------------------------------------------------------------
(* Faults *)

Tick ==
  /\ now < MaxNow
  /\ now' = now + 1
  /\ UNCHANGED <<config, ctxs, active, issuer, proc, ops, faults, crossed>>

Fault(kind) == kind \in Faults /\ faults < MaxFaults /\ faults' = faults + 1

\* A refresh token that a context holds is no longer good.
Lapse ==
  /\ Fault("lapse")
  /\ \E n \in Names :
       /\ ctxs[n] # None
       /\ issuer' = [issuer EXCEPT !.lapsed = issuer.lapsed \cup {ctxs[n].auth.refresh}]
  /\ UNCHANGED <<config, ctxs, active, proc, now, ops, crossed>>

\* A process is killed; interruptHandler ends a login so.
Crash(p) ==
  /\ Fault("crash") /\ ~ At(p, "idle")
  /\ Return(p)
  /\ crossed' = TRUE
  /\ UNCHANGED <<config, ctxs, active, issuer, now, ops>>

\* A token that cannot be parsed, or a configuration that cannot be written.
Fail(p) ==
  /\ Fault("fail") /\ proc[p].pc \in {"granted", "add", "set", "certset", "certdelete"}
  /\ Return(p)
  /\ crossed' = TRUE
  /\ UNCHANGED <<config, ctxs, active, issuer, now, ops>>

-----------------------------------------------------------------------------
(* Specification *)

\* Steps of a login with the browser that its goroutines take by themselves.
Handler(p) ==
  \/ \E c \in Callbacks : callbackHandler(p, c) \/ CallbackExchange(p, c) \/ CallbackDone(p, c)
  \/ PromptExchange(p) \/ PromptStore(p) \/ PromptCancelled(p)
  \/ ExchangeCompletes(p) \/ ReadToken(p) \/ CloseSession(p)

Begin(p) ==
  \/ BeginLogin(p) \/ BeginTMC(p) \/ BeginOnContext(p) \/ createAPIToken(p)
  \/ BeginCertAdd(p) \/ BeginCertUpdate(p) \/ BeginCertDelete(p)
  \/ Configure(p)

Step(p) ==
  \/ doCSPAuthentication(p) \/ doUAAAuthentication(p) \/ getToken(p) \/ DoLogin(p) \/ browserLogin(p)
  \/ GetToken(p) \/ ShowAPIToken(p) \/ globalLogin(p) \/ globalTanzuLogin(p) \/ GetOrgNameFails(p)
  \/ updateTanzuContextMetadata(p) \/ AddContext(p) \/ SetContext(p)
  \/ CertDelete(p) \/ CertSet(p)

Outside(p) == (\E c \in Callbacks : BrowserCalls(p, c)) \/ UserPastes(p) \/ PromptFails(p)

Next ==
  \/ \E p \in Procs : Begin(p) \/ Step(p) \/ Handler(p) \/ Outside(p) \/ Crash(p) \/ Fail(p)
  \/ Tick
  \/ Lapse

Spec == Init /\ [][Next]_vars

\* The goroutines of a login that can go on do; browsers and users need not, nor does
\* time pass.
FairSpec == Spec /\ \A p \in Procs : WF_vars(Handler(p))

-----------------------------------------------------------------------------
(* Properties *)

\* The settings, the contexts and the handlers have their shape.
TypeOK ==
  /\ config \in Config
  /\ ctxs \in [Names -> Context \cup {None}]
  /\ active \in Names \cup {None}
  /\ proc \in [Procs -> ProcState]

\* A browser that was told that the login succeeded was told the truth: however its
\* callbacks interleave with the main goroutine, the login does not end without the
\* token (callbackHandler).  The goroutine of promptAndLoginWithAuthCode does not take
\* the mutex: a code pasted as well may take the token away, and a prompt that fails
\* by itself may complete the exchange before a callback has stored its token.
LoginKeepsToken ==
  [][\A p \in Procs :
       InSession(p) /\ Sess(p).told /\ ~ Sess(p).prompted /\ ~ InSession(p)' =>
         At(p, "granted")' \/ faults' # faults]_vars

\* A login that got a callback or a pasted code, or whose prompt failed, comes to an end
\* (tokenExchangeComplete, and the wait for the prompt).
LoginEnds ==
  \A p \in Procs :
    (InSession(p) /\ (Sess(p).prompted \/ \E c \in Callbacks : Sess(p).cb[c] # "none"))
      ~> ~ InSession(p)

\* The token of a context of a public issuer is one of the organization of the
\* context, also when its refresh token lapsed and the user had to log in again
\* (csp.GetTokens, updateTanzuContextMetadata).
TokensStayInOrg ==
  \A n \in Names : ctxs[n] # None /\ ctxs[n].idp = "csp" => ctxs[n].org = ctxs[n].auth.org

\* When no command was cut short or stored a context over a newer one, no context is
\* left with a refresh token that was used up, however many commands renewed it at
\* the same time (getToken).
StoredRefreshWorks ==
  (\A p \in Procs : At(p, "idle")) /\ ~ crossed =>
    \A n \in Names : ctxs[n] # None => ctxs[n].auth.refresh \notin issuer.spent

\* The flags that a login verified the issuer with are there for the requests that
\* do not get them: a login learns the organization of the platform
\* (updateCertMap, getSelfManagedOrg).
OrganizationKnown ==
  ~ crossed => \A n \in Names : ctxs[n] # None => ctxs[n].org # None

=============================================================================
