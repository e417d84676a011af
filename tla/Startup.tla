------------------------------- MODULE Startup -------------------------------
(***************************************************************************)
(* What the CLI does around every command (pkg/command/root.go and         *)
(* pkg/config/init.go): contexts and servers are synchronized, contexts    *)
(* are updated once to a new issuer and new endpoints, initializers run    *)
(* after an upgrade, the agreement is asked for, essential plugins are     *)
(* installed and, after the command, a newer version is recommended.       *)
(* What was done is remembered in the data store (pkg/datastore), a file   *)
(* behind a lock; contexts live in a configuration that each call reads    *)
(* and writes under a lock of its own (tanzu-plugin-runtime).              *)
(***************************************************************************)
EXTENDS RecommendedVersion, FiniteSets

CONSTANTS
  Procs,      \* CLI processes
  NoProc,
  TanzuCtxs,  \* contexts of the types tanzu and mission-control
  K8sCtxs,    \* contexts of the type kubernetes
  Kinds,      \* the commands run
  Faults,     \* subset of {"crash", "writefail", "setfail"}
  MaxFaults,  \* how many of them happen: a bound
  MaxRuns,    \* how many commands are run: a bound
  Torn,       \* a data store that cannot be decoded
  Current,    \* the version of this CLI
  Lists       \* lists of recommended versions that the central configuration may have

Ctxs == TanzuCtxs \cup K8sCtxs
Commands == {"__complete", "completion", "version", "context current", "context get-token",
             "pinniped-auth", "config set", "config eula accept", "config eula show",
             "ceip-participation set", "plugin clean", "plugin source", "login", "other"}

ASSUME StartupAssumption ==
  /\ NoProc \notin Procs /\ TanzuCtxs \cap K8sCtxs = {}
  /\ Kinds \subseteq Commands
  /\ MaxFaults \in Nat /\ MaxRuns \in Nat
  /\ Current \in Version /\ Lists \subseteq SUBSET Version

\* The contents of the data store.  A key that is not there reads as the zero
\* value: never, not updated, no version.
StoreType == [shas     : SUBSET SUBSET Ctxs, \* the servers at the last synchronization, {}: never
              issuers  : BOOLEAN,            \* isCLIContextsUpdatedToTCSPIssuers
              endpoint : BOOLEAN,            \* existingEndpointUpdateVersion is the requested one
              last     : BOOLEAN,            \* lastExecutedCLIVersion is this one
              check    : BOOLEAN]            \* lastVersionCheck
\* What cannot be decoded is none of them.
ASSUME TornAssumption == Torn \notin StoreType

NoContent == [shas |-> {}, issuers |-> FALSE, endpoint |-> FALSE, last |-> FALSE, check |-> FALSE]

ContextType == [issuer : {"vcsp", "tcsp"}, endpoint : {"old", "new"}, token : {"valid", "invalid"}]

VARIABLES
  store,    \* the data store
  dsLock,   \* who holds its write lock
  ctx,      \* the known contexts
  servers,  \* those with a server, for plugins that know no contexts
  eula,     \* status of the agreement and whether the current version was accepted
  source,   \* the default discovery source: the image of before 1.3, or the new one
  old13,    \* the feature flag that a CLI before 1.3 leaves
  central,  \* central_config.yaml is in the cache
  run,      \* the state of each process
  seen      \* what happened so far

vars == <<store, dsLock, ctx, servers, eula, source, old13, central, run, seen>>
config == <<ctx, servers, eula, source, old13, central>>

PCs == {"idle", "sync", "issuer", "endpoint", "contexts", "source", "central", "last", "flag",
        "eula", "eulaversion", "essentials", "command", "notice", "print", "set", "truncated"}

\* A process: the contexts it read and still has to store, the value it sets
\* in the data store and where it goes on.
RunState == [pc   : PCs,
             kind : Commands,
             copy : [Ctxs -> ContextType],
             todo : SUBSET Ctxs,
             ok   : BOOLEAN,
             key  : {"shas", "issuers", "endpoint", "last", "check"},
             then : PCs,
             content : StoreType]

\* seen.overlap: two commands ran at the same time; lost: the data store lost
\* its content; failed: a context could not be stored; agreed: the user
\* accepted the current agreement; installed: essential plugins were installed;
\* logins: contexts logged in to.
SeenType == [overlap : BOOLEAN, lost : BOOLEAN, failed : BOOLEAN, agreed : BOOLEAN,
             installed : BOOLEAN, logins : SUBSET Ctxs,
             faults : Nat, runs : Nat]

\* The type invariant.
StartupTypeOK ==
  /\ store \in StoreType \cup {Torn}
  /\ dsLock \in Procs \cup {NoProc}
  /\ ctx \in [Ctxs -> ContextType]
  /\ servers \subseteq Ctxs
  /\ eula \in [status : {"unset", "shown", "accepted"}, current : BOOLEAN]
  /\ source \in {"old", "new"}
  /\ old13 \in BOOLEAN /\ central \in BOOLEAN
  /\ run \in [Procs -> RunState]
  /\ seen \in SeenType

Old == [issuer |-> "vcsp", endpoint |-> "old", token |-> "valid"]
Idle == [pc |-> "idle", kind |-> "other", copy |-> [c \in Ctxs |-> Old], todo |-> {}, ok |-> TRUE,
         key |-> "last", then |-> "idle", content |-> NoContent]

\* What a CLI before 1.3 left: an agreement of an older version, the old image and
\* a cache without central configuration; or a new installation, in which the
\* cache may have been filled by a command that skips all this.
StartupInit ==
  /\ store = NoContent /\ dsLock = NoProc
  /\ ctx = [c \in Ctxs |-> Old]
  /\ servers = {}
  /\ \/ old13 = TRUE /\ source = "old" /\ eula = [status |-> "accepted", current |-> FALSE]
     \/ old13 = FALSE /\ source = "new" /\ eula = [status |-> "unset", current |-> FALSE]
  /\ central \in {FALSE, ~old13}
  /\ run = [p \in Procs |-> Idle]
  /\ seen = [overlap |-> FALSE, lost |-> FALSE, failed |-> FALSE, agreed |-> FALSE,
             installed |-> FALSE, logins |-> {}, faults |-> 0, runs |-> 0]

At(p, pc) == run[p].pc = pc
Become(p, state) == run' = [run EXCEPT ![p] = state]
GoTo(p, pc) == Become(p, [run[p] EXCEPT !.pc = pc])

\* The next phase, with nothing kept of the last one.
Proceed(p, pc) == Become(p, [Idle EXCEPT !.kind = run[p].kind, !.pc = pc])

Fault(kind) == kind \in Faults /\ seen.faults < MaxFaults

-----------------------------------------------------------------------------
(* The data store *)

\* GetDataStoreValue waits for the lock, also for one of its own process.
\* Contents that cannot be decoded are an error, which every caller takes for a
\* key that is not there.
CanRead == dsLock = NoProc
Content == IF store = Torn THEN NoContent ELSE store

\* SetDataStoreValue is called; what was read for its value is not needed any more.
SetDataStoreValue(p, key, then) ==
  Become(p, [Idle EXCEPT !.kind = run[p].kind, !.pc = "set", !.key = key, !.then = then])

\* The value is put into an empty map.
LockStore_Afresh(p) ==
  /\ At(p, "set") /\ dsLock = NoProc
  /\ dsLock' = p
  /\ Become(p, [run[p] EXCEPT !.pc = "truncated", !.content = NoContent])
  /\ store' = NoContent
  /\ UNCHANGED <<config, seen>>
\* Its first half: the lock, the contents under it, and the file truncated.  The
\* lock is not released when the contents cannot be decoded.
LockStore(p) ==
  /\ At(p, "set") /\ dsLock = NoProc
  /\ dsLock' = p
  /\ IF store = Torn THEN GoTo(p, run[p].then) /\ UNCHANGED store
     ELSE /\ Become(p, [run[p] EXCEPT !.pc = "truncated", !.content = store])
          /\ store' = NoContent
  /\ UNCHANGED <<config, seen>>

Value(p) == IF run[p].key = "shas" THEN {servers} ELSE TRUE

\* The lock stays after a write that failed.
saveAndClose_Leaks(p) ==
  /\ At(p, "truncated")
  /\ \/ /\ store' = [run[p].content EXCEPT ![run[p].key] = Value(p)]
        /\ dsLock' = NoProc
        /\ UNCHANGED seen
     \/ /\ Fault("writefail")
        /\ store' = NoContent
        /\ seen' = [seen EXCEPT !.lost = TRUE, !.faults = seen.faults + 1]
        /\ UNCHANGED dsLock
  /\ Proceed(p, run[p].then)
  /\ UNCHANGED <<config>>
\* saveAndClose writes the file after truncating it; a write may fail half way.
saveAndClose(p) ==
  /\ At(p, "truncated")
  /\ \/ /\ store' = [run[p].content EXCEPT ![run[p].key] = Value(p)]
        /\ UNCHANGED seen
     \/ /\ Fault("writefail")
        /\ store' = Torn
        /\ seen' = [seen EXCEPT !.lost = TRUE, !.faults = seen.faults + 1]
  /\ dsLock' = NoProc
  /\ Proceed(p, run[p].then)
  /\ UNCHANGED <<config>>

-----------------------------------------------------------------------------
(* Updates of all contexts *)

\* The process reads the contexts and stores them one by one.
UpdateAll(p, which, key, then) ==
  Become(p, [run[p] EXCEPT !.pc = "contexts", !.copy = ctx, !.todo = which, !.ok = TRUE,
                           !.key = key, !.then = then])

\* SyncContextsAndServers stores the contexts again when they or the servers
\* changed since the last time, which gives each a server.
SyncContextsAndServers(p) ==
  /\ At(p, "sync") /\ CanRead
  /\ IF Content.shas = {servers} THEN GoTo(p, "issuer") ELSE UpdateAll(p, Ctxs, "shas", "issuer")
  /\ UNCHANGED <<store, dsLock, config, seen>>

\* Every context is updated, whatever its issuer.
isEligibleForTCSPIssuerUpdate_Any(c) == c \in TanzuCtxs
isEligibleForTCSPIssuerUpdate(c) == c \in TanzuCtxs /\ ctx[c].issuer = "vcsp"

updateConfigWithTanzuCSPIssuer(p) ==
  /\ At(p, "issuer") /\ CanRead
  /\ IF ~central \/ Content.issuers THEN GoTo(p, "endpoint")
     ELSE UpdateAll(p, {c \in Ctxs : isEligibleForTCSPIssuerUpdate(c)}, "issuers", "endpoint")
  /\ UNCHANGED <<store, dsLock, config, seen>>

updateConfigWithTanzuPlatformEndpointChanges(p) ==
  /\ At(p, "endpoint") /\ CanRead
  /\ IF ~central \/ Content.endpoint THEN GoTo(p, "source")
     ELSE UpdateAll(p, TanzuCtxs, "endpoint", "source")
  /\ UNCHANGED <<store, dsLock, config, seen>>

\* What becomes of a context that was read as c: the id-token of an old issuer
\* is made invalid so that a new login is started.
Updated(key, c) ==
  CASE key = "shas"     -> c
    [] key = "issuers"  -> [c EXCEPT !.issuer = "tcsp", !.token = "invalid"]
    [] key = "endpoint" -> [c EXCEPT !.endpoint = "new"]

\* config.SetContext replaces the context by the copy.  After a failure the
\* others are stored all the same, except in the synchronization.
StoreContext(p) ==
  /\ At(p, "contexts")
  /\ \E c \in run[p].todo :
       \/ /\ ctx' = [ctx EXCEPT ![c] = Updated(run[p].key, run[p].copy[c])]
          /\ servers' = IF c \in K8sCtxs THEN servers \cup {c} ELSE servers
          /\ Become(p, [run[p] EXCEPT !.todo = run[p].todo \ {c}])
          /\ UNCHANGED seen
       \/ /\ Fault("setfail")
          /\ Become(p, [run[p] EXCEPT !.ok = FALSE,
                          !.todo = IF run[p].key = "shas" THEN {} ELSE run[p].todo \ {c}])
          /\ seen' = [seen EXCEPT !.failed = TRUE, !.faults = seen.faults + 1]
          /\ UNCHANGED <<ctx, servers>>
  /\ UNCHANGED <<store, dsLock, eula, source, old13, central>>

\* The update is recorded although a context could not be stored.
UpdateDone_Always(p) ==
  /\ At(p, "contexts") /\ run[p].todo = {}
  /\ SetDataStoreValue(p, run[p].key, run[p].then)
  /\ UNCHANGED <<store, dsLock, config, seen>>
UpdateDone(p) ==
  /\ At(p, "contexts") /\ run[p].todo = {}
  /\ IF run[p].ok THEN SetDataStoreValue(p, run[p].key, run[p].then)
     ELSE Proceed(p, run[p].then)
  /\ UNCHANGED <<store, dsLock, config, seen>>

-----------------------------------------------------------------------------
(* Before the command *)

\* The commands that skip a part: the lists of root.go, by prefix.
Quiet == {"__complete", "completion", "version", "context current", "context get-token"}
shouldSkipGlobalInit(kind) == kind \in Quiet
shouldSkipVersionCheck(kind) == kind \in Quiet \cup {"pinniped-auth"}
shouldSkipPrompts(kind) ==
  kind \in Quiet \cup {"pinniped-auth", "config set", "config eula accept", "config eula show",
                      "ceip-participation set"}
\* The list before the commands about the agreement were added.
shouldSkipEssentialPlugins_NotEULA(kind) ==
  kind \in Quiet \cup {"pinniped-auth", "config set", "ceip-participation set",
                      "plugin clean", "plugin source"}
shouldSkipEssentialPlugins(kind) == shouldSkipPrompts(kind) \/ kind \in {"plugin clean", "plugin source"}

AfterInit(kind) == IF shouldSkipPrompts(kind) THEN "essentials" ELSE "eula"

\* The older CLI is recognized by the version recorded, which comes first.
updatePluginDiscoverySource_Late(p) ==
  /\ At(p, "source")
  /\ source' = IF old13 /\ ~ shouldSkipGlobalInit(run[p].kind) /\ Content.last THEN "new" ELSE source
  /\ GoTo(p, IF shouldSkipGlobalInit(run[p].kind) THEN AfterInit(run[p].kind) ELSE "central")
  /\ UNCHANGED <<store, dsLock, ctx, servers, eula, old13, central, seen>>
\* After an upgrade from a CLI before 1.3 the default source gets the new image,
\* unless the user changed it.  An error is logged.
updatePluginDiscoverySource(p) ==
  /\ At(p, "source")
  /\ \/ /\ source' = IF old13 /\ ~ shouldSkipGlobalInit(run[p].kind) THEN "new" ELSE source
        /\ UNCHANGED seen
     \/ /\ old13 /\ ~ shouldSkipGlobalInit(run[p].kind) /\ Fault("setfail")
        /\ seen' = [seen EXCEPT !.failed = TRUE, !.faults = seen.faults + 1]
        /\ UNCHANGED source
  /\ GoTo(p, IF shouldSkipGlobalInit(run[p].kind) THEN AfterInit(run[p].kind) ELSE "central")
  /\ UNCHANGED <<store, dsLock, ctx, servers, eula, old13, central>>

\* The last initializer downloads the inventory if it came without central
\* configuration; without a network it is tried again next time.
PerformInitializations(p) ==
  /\ At(p, "central")
  /\ central' \in {central, TRUE}
  /\ GoTo(p, "last")
  /\ UNCHANGED <<store, dsLock, ctx, servers, eula, source, old13, seen>>

\* The version is recorded after the initializers, whether they succeeded or not.
SetLastExecutedCLIVersion(p) ==
  /\ At(p, "last") /\ CanRead
  /\ IF Content.last THEN GoTo(p, "flag") ELSE SetDataStoreValue(p, "last", "flag")
  /\ UNCHANGED <<store, dsLock, config, seen>>

\* Last, the flag of the older CLI is removed.
DeleteFeature(p) ==
  /\ At(p, "flag")
  /\ old13' = FALSE
  /\ GoTo(p, AfterInit(run[p].kind))
  /\ UNCHANGED <<store, dsLock, ctx, servers, eula, source, central, seen>>

IsCompatibleEULAAccepted == eula.current

\* ConfigureEULA asks unless the current agreement was accepted, and stores the
\* status before the version; without agreement the command ends here.
ConfigureEULA(p) ==
  LET shows == At(p, "command") /\ run[p].kind = "config eula show"
      asks  == shows \/ ~(eula.status = "accepted" /\ IsCompatibleEULAAccepted)
  IN /\ At(p, "eula") \/ shows
     /\ \/ /\ asks
           /\ eula' = [eula EXCEPT !.status = "accepted"]
           /\ seen' = [seen EXCEPT !.agreed = TRUE]
           /\ GoTo(p, "eulaversion")
        \/ /\ asks
           /\ eula' = [eula EXCEPT !.status = "shown"]
           /\ GoTo(p, IF shows THEN "notice" ELSE "idle")
           /\ UNCHANGED seen
        \/ /\ ~asks
           /\ GoTo(p, "essentials")
           /\ UNCHANGED <<eula, seen>>
     /\ UNCHANGED <<store, dsLock, ctx, servers, source, old13, central>>

UpdateEULAAcceptance(p) ==
  /\ At(p, "eulaversion")
  /\ eula' = [eula EXCEPT !.current = TRUE]
  /\ GoTo(p, IF run[p].kind \in {"config eula show", "config eula accept"} THEN "notice" ELSE "essentials")
  /\ UNCHANGED <<store, dsLock, ctx, servers, source, old13, central, seen>>

installEssentialPlugins(p) ==
  /\ At(p, "essentials")
  /\ seen' = [seen EXCEPT !.installed = seen.installed \/ ~ shouldSkipEssentialPlugins(run[p].kind)]
  /\ GoTo(p, "command")
  /\ UNCHANGED <<store, dsLock, config>>

-----------------------------------------------------------------------------
(* The command and what follows *)

\* Any command but `config eula`.  login stores a new token of the new issuer, which
\* the central configuration names and GetCSPMetadata defaults to without one.
\* After an error nothing follows.
Execute(p) ==
  /\ At(p, "command") /\ run[p].kind \notin {"config eula show", "config eula accept"}
  /\ \/ /\ run[p].kind = "login"
        /\ \E c \in TanzuCtxs :
             /\ ctx' = [ctx EXCEPT ![c].token = "valid", ![c].issuer = "tcsp"]
             /\ seen' = [seen EXCEPT !.logins = seen.logins \cup {c}]
        /\ GoTo(p, "notice")
     \/ /\ run[p].kind # "login"
        /\ GoTo(p, "notice")
        /\ UNCHANGED <<ctx, seen>>
     \/ GoTo(p, "idle") /\ UNCHANGED <<ctx, seen>>
  /\ UNCHANGED <<store, dsLock, servers, eula, source, old13, central>>

\* `config eula accept`
AcceptEULA(p) ==
  /\ At(p, "command") /\ run[p].kind = "config eula accept"
  /\ eula' = [eula EXCEPT !.status = "accepted"]
  /\ seen' = [seen EXCEPT !.agreed = TRUE]
  /\ GoTo(p, "eulaversion")
  /\ UNCHANGED <<store, dsLock, ctx, servers, source, old13, central>>

\* shouldCheckVersion: the user may disable it, and a recorded check counts for a
\* while.  Without central configuration there is nothing to recommend.
shouldCheckVersion(p) ==
  /\ At(p, "notice") /\ CanRead
  /\ \E disabled, elapsed \in BOOLEAN :
       LET due == ~ disabled /\ (~ Content.check \/ elapsed) IN
       GoTo(p, IF ~ shouldSkipVersionCheck(run[p].kind) /\ central /\ due THEN "print" ELSE "idle")
  /\ UNCHANGED <<store, dsLock, config, seen>>

\* A recommendation is printed and its time recorded; a list that cannot be sorted
\* has none.
printVersionRecommendations(p) ==
  /\ At(p, "print")
  /\ \/ \E listed \in Lists :
          /\ Recommendations(listed, Current) # {}
          /\ SetDataStoreValue(p, "check", "idle")
     \/ /\ \E listed \in Lists : Recommendations(listed, Current) = {}
        /\ GoTo(p, "idle")
  /\ UNCHANGED <<store, dsLock, config, seen>>

-----------------------------------------------------------------------------
\* When a process ends the system drops its locks.
Ended(p) == At(p, "idle")
Start(p) ==
  /\ Ended(p) /\ seen.runs < MaxRuns
  /\ dsLock # p
  /\ \E kind \in Kinds : Become(p, [Idle EXCEPT !.kind = kind, !.pc = "sync"])
  /\ seen' = [seen EXCEPT !.runs = seen.runs + 1,
                !.overlap = seen.overlap \/ \E q \in Procs \ {p} : ~Ended(q)]
  /\ UNCHANGED <<store, dsLock, config>>

Exit(p) ==
  /\ Ended(p) /\ dsLock = p
  /\ dsLock' = NoProc
  /\ UNCHANGED <<store, config, run, seen>>

\* An interruption between truncating and writing the data store empties it.
Crash(p) ==
  /\ ~Ended(p) /\ Fault("crash")
  /\ Become(p, Idle)
  /\ dsLock' = IF dsLock = p THEN NoProc ELSE dsLock
  /\ seen' = [seen EXCEPT !.faults = seen.faults + 1, !.lost = seen.lost \/ At(p, "truncated")]
  /\ UNCHANGED <<store, config>>

Step(p) ==
  \/ SyncContextsAndServers(p) \/ updateConfigWithTanzuCSPIssuer(p)
  \/ updateConfigWithTanzuPlatformEndpointChanges(p) \/ StoreContext(p) \/ UpdateDone(p)
  \/ updatePluginDiscoverySource(p) \/ PerformInitializations(p) \/ SetLastExecutedCLIVersion(p) \/ DeleteFeature(p)
  \/ ConfigureEULA(p) \/ UpdateEULAAcceptance(p) \/ installEssentialPlugins(p)
  \/ Execute(p) \/ AcceptEULA(p) \/ shouldCheckVersion(p) \/ printVersionRecommendations(p)
  \/ LockStore(p) \/ saveAndClose(p) \/ Exit(p)

StartupNext == \E p \in Procs : Start(p) \/ Step(p) \/ Crash(p)

\* A command that was started goes on.
StartupSpec == StartupInit /\ [][StartupNext]_vars /\ \A p \in Procs : WF_vars(Step(p))

-----------------------------------------------------------------------------
(* Properties *)

\* The contents of the data store as the process in the middle of a change found them.
Committed ==
  IF \E p \in Procs : At(p, "truncated") THEN run[CHOOSE p \in Procs : At(p, "truncated")].content
  ELSE store

\* Commands that record different things at the same time keep each other's keys:
\* what was recorded stays recorded (SetDataStoreValue), unless a crash or a failed
\* write empties the data store.
KeysAreKept ==
  [][~seen'.lost => \A k \in DOMAIN NoContent : Committed[k] # NoContent[k] => Committed'[k] # NoContent[k]]_vars

\* Every command ends, as long as the data store can be decoded.
CommandsEnd == \A p \in Procs : ~Ended(p) ~> (Ended(p) \/ store = Torn)

\* The one-time updates are complete when they are recorded: after crashes and
\* contexts that could not be stored, no context is left with the old issuer or
\* endpoint (commands one at a time).
UpdatesAreComplete ==
  ~seen.overlap /\ store # Torn =>
    /\ Committed.issuers => \A c \in TanzuCtxs : ctx[c].issuer = "tcsp"
    /\ Committed.endpoint => \A c \in TanzuCtxs : ctx[c].endpoint = "new"

\* A repeated update does not undo a login: after crashes and a lost data store
\* the token of a context that was logged in to with the new issuer is not made
\* invalid (commands one at a time).
LoginsSurviveUpdates ==
  ~seen.overlap => \A c \in seen.logins : ctx[c].token = "valid"

\* The move to the new source is not skipped: once the mark of the older CLI is
\* gone the source is the new one, however commands crash or overlap in between.
SourceIsMigrated == ~old13 /\ ~seen.failed => source = "new"

\* Essential plugins are installed only after the user accepted the current
\* agreement, by whatever commands (shouldSkipPrompts and
\* shouldSkipEssentialPlugins are separate lists).
EssentialsNeedAgreement == seen.installed => seen.agreed
=============================================================================
