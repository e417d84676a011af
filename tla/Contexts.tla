------------------------------ MODULE Contexts ------------------------------
(***************************************************************************)
(* CLI contexts (pkg/command/context.go, login.go) and the kubeconfig      *)
(* entries that belong to them (pkg/auth/utils/kubeconfig, pkg/auth/tanzu, *)
(* pkg/auth/tkg).  A context lives in two files: its record in the CLI     *)
(* configuration, changed by calls of tanzu-plugin-runtime that lock the   *)
(* file, and a kube context in a kubeconfig file, changed by reading the   *)
(* whole file and writing it back with no lock.  A command changes both,   *)
(* one after the other.                                                    *)
(***************************************************************************)
EXTENDS Integers, FiniteSets

CONSTANTS
  Procs,        \* CLI processes
  Names,        \* context names
  LoginNames,   \* those that prepareTanzuContextName makes for `tanzu login`
  Orgs,         \* endpoints of organizations of the Tanzu Platform
  Resources,    \* active resources of a tanzu context: projects, spaces...
  Org,          \* the one that stands for the whole organization
  Clusters,     \* kube contexts of clusters, in the user's kubeconfig
  UserClusters, \* those the user put there
  Certs,        \* CA certificates
  Requests,     \* contexts that `context create` is asked for
  TLSOptions,   \* TLS flags of login: records [ca, skip]
  StableModes,  \* values of TANZU_CLI_USE_STABLE_KUBE_CONTEXT_NAME
  SkipSync,     \* TANZU_CLI_SKIP_UPDATE_KUBECONFIG_ON_CONTEXT_USE
  Kinds,        \* the commands that are run
  MaxOps,       \* how many: a bound
  Faults,       \* subset of {"crash", "fail"}
  MaxFaults,    \* how many faults: a bound
  None          \* no value

Commands == {"create", "login", "use", "unset", "delete", "resource", "token"}
Types == {"kubernetes", "mission-control", "tanzu"}
Files == {"tanzu", "user"}

\* Names of kube contexts.  <<n, r>> is tanzu-cli-<n>:<r>, <<n, Org>> tanzu-cli-<n>.
Kubes == (Names \X Resources) \cup Clusters

\* A cluster entry of a kubeconfig.  It is always named by one kube context.
Servers == (Orgs \X Resources) \cup Clusters
Cluster == [server : Servers, ca : Certs \cup {None}, skip : BOOLEAN]

KubeConfig ==
  [contexts : [Kubes -> Cluster \cup {None}],
   users    : SUBSET (Names \cup Clusters),
   current  : Kubes \cup {None}]

\* A context: res is None while the metadata has no project, space or cluster
\* group; pinniped marks a kube context that the CLI made from an endpoint.
Context ==
  [type     : Types,
   endpoint : Orgs \cup {None},
   res      : Resources \cup {None},
   kube     : Kubes \cup {None},
   pinniped : BOOLEAN]

Request == [name : Names, ctx : Context, tls : [ca : Certs \cup {None}, skip : BOOLEAN]]

ASSUME ConstantsAssumption ==
  /\ LoginNames \subseteq Names /\ UserClusters \subseteq Clusters /\ Org \in Resources
  /\ Clusters \cap ((Names \X Resources) \cup Names \cup (Orgs \X Resources)) = {}
  /\ None \notin Names \cup Orgs \cup Resources \cup Kubes \cup Certs
  /\ None \notin KubeConfig /\ None \notin Context /\ None \notin Cluster
  /\ TLSOptions \subseteq [ca : Certs \cup {None}, skip : BOOLEAN]
  /\ StableModes \subseteq BOOLEAN /\ SkipSync \in BOOLEAN
  /\ Kinds \subseteq Commands
  /\ MaxOps \in Nat /\ MaxFaults \in Nat

\* What the ways of creating a context start from (createContextWith...).
ASSUME RequestsAssumption ==
  /\ Requests \subseteq Request
  /\ \A q \in Requests : LET c == q.ctx IN
       /\ c.res = None
       /\ c.type = "kubernetes" => c.kube \in Clusters /\ c.endpoint = None
       /\ c.type # "kubernetes" => c.kube = None /\ ~ c.pinniped
       /\ c.type = "tanzu" <=> c.endpoint # None

-----------------------------------------------------------------------------
VARIABLES
  ctxs,    \* the known contexts
  active,  \* the current context of each type
  kfile,   \* the kubeconfig files; None: it does not exist
  proc,    \* the state of each process
  ops,     \* commands run
  faults   \* faults so far

vars == <<ctxs, active, kfile, proc, ops, faults>>

PCs == {"idle", "check", "metadata", "get", "merge", "mergewrite", "version", "add",
        "sync", "syncwrite", "update", "updatewrite", "set", "activate", "unset",
        "remove", "kubedelete", "kubedeletewrite"}

\* A command: its arguments, the context and the kubeconfig it holds in memory.
ProcState ==
  [pc     : PCs,
   kind   : Commands \cup {"none"},
   name   : Names \cup {None},
   type   : Types,
   res    : Resources,
   tls    : [ca : Certs \cup {None}, skip : BOOLEAN],
   stable : BOOLEAN,
   ctx    : Context,
   cfg    : KubeConfig \cup {None},
   result : {"ok", "unsaved", "error", "crashed"}]

NoContext == [type |-> "tanzu", endpoint |-> None, res |-> None, kube |-> None,
              pinniped |-> FALSE]
NoTLS == [ca |-> None, skip |-> FALSE]
Idle ==
  [pc |-> "idle", kind |-> "none", name |-> None, type |-> "tanzu", res |-> Org,
   tls |-> NoTLS, stable |-> FALSE, ctx |-> NoContext, cfg |-> None, result |-> "ok"]

\* The type invariant.
TypeOK ==
  /\ ctxs \in [Names -> Context \cup {None}]
  /\ active \in [Types -> Names \cup {None}]
  /\ kfile \in [Files -> KubeConfig \cup {None}]
  /\ proc \in [Procs -> ProcState]
  /\ ops \in 0..MaxOps
  /\ faults \in 0..MaxFaults

\* No context; a user's kubeconfig with the user's own clusters.
Init ==
  /\ ctxs = [n \in Names |-> None]
  /\ active = [t \in Types |-> None]
  /\ kfile = [f \in Files |->
       IF f = "tanzu" THEN None
       ELSE [contexts |-> [k \in Kubes |->
                             IF k \in UserClusters THEN [server |-> k, ca |-> None, skip |-> FALSE]
                             ELSE None],
             users |-> UserClusters, current |-> None]]
  /\ proc = [p \in Procs |-> Idle]
  /\ ops = 0
  /\ faults = 0

-----------------------------------------------------------------------------
(* The CLI configuration: calls of tanzu-plugin-runtime *)

ContextExists(n) == ctxs[n] # None

\* config.SetContext updates the fields of the context that are set.
Stored(n, c) ==
  [c EXCEPT !.res = IF ContextExists(n) /\ c.res = None THEN ctxs[n].res ELSE c.res]

SetContext(n, c) == ctxs' = [ctxs EXCEPT ![n] = Stored(n, c)]

\* The active contexts once n of type t is: kubernetes and tanzu exclude each other.
Activated(n, t) ==
  [s \in Types |->
     CASE s = t -> n
       [] s # t /\ {s, t} = {"kubernetes", "tanzu"} -> None
       [] OTHER -> active[s]]

-----------------------------------------------------------------------------
(* Kubeconfig files *)

FileOf(c) == IF c.type = "tanzu" THEN "tanzu" ELSE "user"
UserOf(k) == IF k \in Clusters THEN k ELSE k[1]
NoKubes == [k \in Kubes |-> None]

\* mergo.Merge fills what is empty and keeps the rest.
Filled(old, new) ==
  IF old = None THEN new
  ELSE [server |-> old.server,
        ca     |-> IF old.ca = None THEN new.ca ELSE old.ca,
        skip   |-> old.skip \/ new.skip]

MergeKubeConfigWithoutSwitchContext(cfg, k, cluster) ==
  IF cfg = None
  THEN [contexts |-> [NoKubes EXCEPT ![k] = cluster], users |-> {UserOf(k)}, current |-> k]
  ELSE [contexts |-> [cfg.contexts EXCEPT ![k] = Filled(cfg.contexts[k], cluster)],
        users    |-> cfg.users \cup {UserOf(k)},
        current  |-> cfg.current]

SetCurrentContext(cfg, k) == [cfg EXCEPT !.current = k]

DeleteContextFromKubeConfig_KeepsCurrent(cfg, k) ==
  [contexts |-> [cfg.contexts EXCEPT ![k] = None], users |-> cfg.users \ {UserOf(k)},
   current  |-> cfg.current]
DeleteContextFromKubeConfig(cfg, k) ==
  [contexts |-> [cfg.contexts EXCEPT ![k] = None],
   users    |-> cfg.users \ {UserOf(k)},
   current  |-> IF cfg.current = k THEN None ELSE cfg.current]

\* The cluster entry of k with another server.
Moved(cfg, k, server) == [cfg.contexts[k] EXCEPT !.server = server]

updateContextInPlace(cfg, k, server) ==
  [cfg EXCEPT !.contexts = [cfg.contexts EXCEPT ![k] = Moved(cfg, k, server)]]

updateContextWithNewName_KeepsCurrent(cfg, k, new, server) ==
  [contexts |-> [cfg.contexts EXCEPT ![k] = None, ![new] = Moved(cfg, k, server)],
   users    |-> cfg.users,
   current  |-> cfg.current]
updateContextWithNewName(cfg, k, new, server) ==
  [contexts |-> [cfg.contexts EXCEPT ![k] = None, ![new] = Moved(cfg, k, server)],
   users    |-> cfg.users,
   current  |-> IF cfg.current = k THEN new ELSE cfg.current]

\* The resource that the metadata of a context names.
ActiveResource(c) == IF c.res = None THEN Org ELSE c.res
prepareClusterServerURL(c) == <<c.endpoint, ActiveResource(c)>>
prepareKubeContextName(n, c) == <<n, ActiveResource(c)>>

Loaded(c) == kfile[FileOf(c)]
HasKube(cfg, k) == cfg # None /\ cfg.contexts[k] # None

-----------------------------------------------------------------------------
(* Steps of a command *)

Become(p, s) == proc' = [proc EXCEPT ![p] = s]
Goto(p, pc) == Become(p, [proc[p] EXCEPT !.pc = pc])
\* A command that is over forgets what it held in memory.
Ended(s, result) == [s EXCEPT !.pc = "idle", !.result = result, !.ctx = NoContext, !.cfg = None]
Return(p, result) == Become(p, Ended(proc[p], result))
At(p, pc) == proc[p].pc = pc
LeavesConfig == UNCHANGED <<ctxs, active>>

Begin(p) ==
  /\ At(p, "idle") /\ ops < MaxOps
  /\ ops' = ops + 1
  /\ \/ /\ "create" \in Kinds
        /\ \E q \in Requests, b \in StableModes :
             Become(p, [Idle EXCEPT !.pc = "check", !.kind = "create", !.name = q.name,
                                    !.ctx = q.ctx, !.tls = q.tls, !.stable = b])
     \/ /\ "login" \in Kinds
        /\ \E n \in LoginNames, o \in Orgs, t \in TLSOptions, b \in StableModes :
             Become(p, [Idle EXCEPT !.pc = "metadata", !.kind = "login", !.name = n, !.tls = t,
                                    !.ctx = [NoContext EXCEPT !.endpoint = o], !.stable = b])
     \/ \E k \in Kinds \cap {"use", "delete", "token"}, n \in Names :
          Become(p, [Idle EXCEPT !.pc = "get", !.kind = k, !.name = n])
     \/ /\ "resource" \in Kinds
        /\ \E n \in Names, r \in Resources, b \in StableModes :
             Become(p, [Idle EXCEPT !.pc = "get", !.kind = "resource", !.name = n, !.res = r,
                                    !.stable = b])
     \/ /\ "unset" \in Kinds
        /\ \E t \in Types :
             /\ active[t] # None
             /\ Become(p, [Idle EXCEPT !.pc = "unset", !.kind = "unset", !.name = active[t],
                                       !.type = t])
  /\ UNCHANGED <<ctxs, active, kfile, faults>>

\* The way a context is created, after its name was checked.
AfterCheck(c) ==
  CASE c.type = "tanzu" -> "metadata"
    [] c.type = "kubernetes" /\ c.pinniped -> "merge"
    [] c.type = "kubernetes" /\ ~ c.pinniped -> "version"
    [] OTHER -> "add"

\* context create refuses a name that exists.
CheckName(p) ==
  /\ At(p, "check")
  /\ IF ContextExists(proc[p].name) THEN Return(p, "error") ELSE Goto(p, AfterCheck(proc[p].ctx))
  /\ LeavesConfig /\ UNCHANGED <<kfile, ops, faults>>

updateTanzuContextMetadata_Forgets(p) ==
  /\ At(p, "metadata") /\ Goto(p, "merge")
  /\ LeavesConfig /\ UNCHANGED <<kfile, ops, faults>>
\* A login to a context that exists keeps its active resource.
updateTanzuContextMetadata(p) ==
  /\ At(p, "metadata")
  /\ LET n == proc[p].name IN
     Become(p, [proc[p] EXCEPT !.pc = "merge",
                !.ctx = [proc[p].ctx EXCEPT !.res = IF ContextExists(n) THEN ctxs[n].res ELSE None]])
  /\ LeavesConfig /\ UNCHANGED <<kfile, ops, faults>>

\* The kube context of a new context: GetTanzuKubeconfig, GetPinnipedKubeconfig.
NewKube(p) == IF proc[p].ctx.pinniped THEN proc[p].ctx.kube ELSE <<proc[p].name, Org>>
NewCluster(p) ==
  [server |-> IF proc[p].ctx.pinniped THEN proc[p].ctx.kube ELSE <<proc[p].ctx.endpoint, Org>>,
   ca |-> proc[p].tls.ca, skip |-> proc[p].tls.skip]

MergeKube(p) ==
  /\ At(p, "merge")
  /\ Become(p, [proc[p] EXCEPT !.pc = "mergewrite",
                !.cfg = MergeKubeConfigWithoutSwitchContext(Loaded(proc[p].ctx), NewKube(p), NewCluster(p)),
                !.ctx = [proc[p].ctx EXCEPT !.kube = NewKube(p)]])
  /\ LeavesConfig /\ UNCHANGED <<kfile, ops, faults>>

\* clientcmd.WriteToFile of what was loaded and changed, then on to pc.
WriteKube(p, pc) ==
  /\ kfile' = [kfile EXCEPT ![FileOf(proc[p].ctx)] = proc[p].cfg]
  /\ IF pc = "idle" THEN Return(p, "ok") ELSE Goto(p, pc)
  /\ LeavesConfig /\ UNCHANGED <<ops, faults>>

WriteMerged(p) ==
  /\ At(p, "mergewrite")
  /\ WriteKube(p, IF proc[p].ctx.pinniped THEN "version" ELSE "add")

\* GetServerKubernetesVersion needs the kube context; the cluster may be out of reach.
GetServerKubernetesVersion(p) ==
  /\ At(p, "version")
  /\ \/ HasKube(Loaded(proc[p].ctx), proc[p].ctx.kube) /\ Goto(p, "add")
     \/ Return(p, "error")
  /\ LeavesConfig /\ UNCHANGED <<kfile, ops, faults>>

\* Whether the kube context becomes current, and what comes after.
NeedsSync(c) == c.kube # None /\ ~ SkipSync
AfterSync_NoUpdate(kind) == IF kind = "use" THEN "activate" ELSE "idle"
AfterSync(kind) == CASE kind = "login" -> "update" [] kind = "use" -> "activate" [] OTHER -> "idle"

AddContext(p) ==
  /\ At(p, "add")
  /\ SetContext(proc[p].name, proc[p].ctx)
  /\ active' = Activated(proc[p].name, proc[p].ctx.type)
  /\ LET next == IF NeedsSync(proc[p].ctx) THEN "sync" ELSE AfterSync(proc[p].kind) IN
     IF next = "idle" THEN Return(p, "ok") ELSE Goto(p, next)
  /\ UNCHANGED <<kfile, ops, faults>>

\* config.GetContext, and what a command checks of the context it got.
GetContext(p) ==
  /\ At(p, "get")
  /\ LET n == proc[p].name
         c == ctxs[n]
         k == proc[p].kind
     IN \/ /\ ~ ContextExists(n)
           /\ Return(p, "error")
        \/ /\ ContextExists(n) /\ k = "use"
           /\ Become(p, [proc[p] EXCEPT !.ctx = c,
                         !.pc = IF NeedsSync(c) THEN "sync" ELSE "activate"])
        \/ /\ ContextExists(n) /\ k = "delete"
           /\ Become(p, [proc[p] EXCEPT !.ctx = c, !.pc = "remove"])
        \/ /\ ContextExists(n) /\ k \in {"resource", "token"} /\ c.type # "tanzu"
           /\ Return(p, "error")
        \/ /\ ContextExists(n) /\ k = "resource" /\ c.type = "tanzu"
           /\ Become(p, [proc[p] EXCEPT !.ctx = [c EXCEPT !.res = proc[p].res], !.pc = "update"])
        \/ /\ ContextExists(n) /\ k = "token" /\ c.type = "tanzu"
           \* the token is still good, or it is refreshed and stored with the context
           /\ \/ Return(p, "ok")
              \/ Become(p, [proc[p] EXCEPT !.ctx = c, !.pc = "set"])
  /\ LeavesConfig /\ UNCHANGED <<kfile, ops, faults>>

syncCurrentKubeContext(p) ==
  /\ At(p, "sync")
  /\ LET c == proc[p].ctx IN
     IF HasKube(Loaded(c), c.kube)
     THEN Become(p, [proc[p] EXCEPT !.pc = "syncwrite", !.cfg = SetCurrentContext(Loaded(c), c.kube)])
     ELSE Return(p, "error")
  /\ LeavesConfig /\ UNCHANGED <<kfile, ops, faults>>

WriteSynced(p) ==
  /\ At(p, "syncwrite")
  /\ WriteKube(p, AfterSync(proc[p].kind))

\* Without the kube context `update tanzu-active-resource` fails; login drops the error.
updateTanzuContextKubeconfig(p) ==
  /\ At(p, "update")
  /\ LET c   == proc[p].ctx
         cfg == Loaded(c)
         new == prepareKubeContextName(proc[p].name, c)
         url == prepareClusterServerURL(c)
     IN IF ~ HasKube(cfg, c.kube)
        THEN Return(p, IF proc[p].kind = "login" THEN "ok" ELSE "error")
        ELSE Become(p, [proc[p] EXCEPT
               !.pc  = "updatewrite",
               !.cfg = IF proc[p].stable THEN updateContextInPlace(cfg, c.kube, url)
                       ELSE updateContextWithNewName(cfg, c.kube, new, url),
               !.ctx = [c EXCEPT !.kube = IF proc[p].stable THEN c.kube ELSE new]])
  /\ LeavesConfig /\ UNCHANGED <<kfile, ops, faults>>

WriteUpdated(p) == At(p, "updatewrite") /\ WriteKube(p, "set")

SaveContext(p) ==
  /\ At(p, "set")
  /\ SetContext(proc[p].name, proc[p].ctx)
  /\ Return(p, "ok")
  /\ UNCHANGED <<active, kfile, ops, faults>>

SetActiveContext(p) ==
  /\ At(p, "activate")
  /\ LET n == proc[p].name IN
     IF ContextExists(n)
     THEN active' = Activated(n, ctxs[n].type) /\ Return(p, "ok")
     ELSE UNCHANGED active /\ Return(p, "error")
  /\ UNCHANGED <<ctxs, kfile, ops, faults>>

\* RemoveActiveContext of the type whose active context had the name.
unsetGivenContext(p) ==
  /\ At(p, "unset")
  /\ active' = [active EXCEPT ![proc[p].type] = None]
  /\ Return(p, "ok")
  /\ UNCHANGED <<ctxs, kfile, ops, faults>>

\* RemoveContext; only kube contexts that the CLI made are cleaned up.
deleteCtx(p) ==
  /\ At(p, "remove")
  /\ LET n == proc[p].name
         c == proc[p].ctx
     IN IF ContextExists(n)
        THEN /\ ctxs' = [ctxs EXCEPT ![n] = None]
             /\ active' = [t \in Types |-> IF active[t] = n THEN None ELSE active[t]]
             /\ IF c.type = "tanzu" \/ c.pinniped THEN Goto(p, "kubedelete") ELSE Return(p, "ok")
        ELSE LeavesConfig /\ Return(p, "error")
  /\ UNCHANGED <<kfile, ops, faults>>

deleteKubeconfigContext(p) ==
  /\ At(p, "kubedelete")
  /\ LET c == proc[p].ctx IN
     IF HasKube(Loaded(c), c.kube)
     THEN Become(p, [proc[p] EXCEPT !.pc = "kubedeletewrite",
                     !.cfg = DeleteContextFromKubeConfig(Loaded(c), c.kube)])
     ELSE Return(p, "ok")
  /\ LeavesConfig /\ UNCHANGED <<kfile, ops, faults>>

WriteDeleted(p) == At(p, "kubedeletewrite") /\ WriteKube(p, "idle")

\* The command is interrupted.
Crash(p) ==
  /\ "crash" \in Faults /\ faults < MaxFaults /\ ~ At(p, "idle")
  /\ Return(p, "crashed")
  /\ faults' = faults + 1
  /\ LeavesConfig /\ UNCHANGED <<kfile, ops>>

\* A file cannot be written.  Login and delete take a kubeconfig that cannot be
\* updated for a success: they end without an error, with a change unsaved.
Fail(p) ==
  /\ "fail" \in Faults /\ faults < MaxFaults
  /\ proc[p].pc \in {"mergewrite", "add", "syncwrite", "updatewrite", "set", "activate", "unset",
                     "remove", "kubedeletewrite"}
  /\ Return(p, IF \/ At(p, "updatewrite") /\ proc[p].kind = "login"
                  \/ At(p, "kubedeletewrite")
               THEN "unsaved" ELSE "error")
  /\ faults' = faults + 1
  /\ LeavesConfig /\ UNCHANGED <<kfile, ops>>

Step(p) ==
  \/ CheckName(p)                   \/ updateTanzuContextMetadata(p)
  \/ MergeKube(p)                   \/ WriteMerged(p)
  \/ GetServerKubernetesVersion(p)  \/ AddContext(p)
  \/ GetContext(p)
  \/ syncCurrentKubeContext(p)      \/ WriteSynced(p)
  \/ updateTanzuContextKubeconfig(p) \/ WriteUpdated(p)
  \/ SaveContext(p)                 \/ SetActiveContext(p)
  \/ unsetGivenContext(p)           \/ deleteCtx(p)
  \/ deleteKubeconfigContext(p)     \/ WriteDeleted(p)

Next == \E p \in Procs : Begin(p) \/ Step(p) \/ Crash(p) \/ Fail(p)

Spec == Init /\ [][Next]_vars
-----------------------------------------------------------------------------
(* Properties *)

AtRest == \A p \in Procs : At(p, "idle")
Undisturbed == AtRest /\ faults = 0

\* The kube context of n exists with its user, and that of a tanzu context leads
\* to the organization and the resource that the context names.
Usable(n) ==
  LET c == ctxs[n]
      f == Loaded(c)
  IN /\ HasKube(f, c.kube)
     /\ UserOf(c.kube) \in f.users
     /\ c.type = "tanzu" => f.contexts[c.kube].server = prepareClusterServerURL(c)

\* Between commands every context can be used: whatever create, login, resource
\* updates and deletions did to both files, the kube context that a CLI context
\* names is there, with its user, and points at its organization and resource.
ContextsUsable ==
  Undisturbed => \A n \in Names : ctxs[n] # None /\ ctxs[n].kube # None => Usable(n)

\* Between commands kubectl and the CLI agree: the kube context of the active
\* kubernetes or tanzu context is current in its file (syncCurrentKubeContext), also
\* after it was renamed or other contexts were deleted.
ActiveIsCurrent ==
  Undisturbed => \A t \in {"kubernetes", "tanzu"} :
    LET n == active[t] IN
    n # None /\ ~ SkipSync => /\ ctxs[n] # None
                             /\ Loaded(ctxs[n]) # None
                             /\ Loaded(ctxs[n]).current = ctxs[n].kube

\* A login that ends well leaves a context that can be used and, unless SkipSync, is
\* current, whatever interrupted commands and failed writes left in both files before
\* (login's updateKubeConfigForContext and the SetContext after it).
LoginRepairs ==
  \A p \in Procs :
    At(p, "idle") /\ proc[p].kind = "login" /\ proc[p].result = "ok" =>
      LET n == proc[p].name IN
      /\ ctxs[n] # None /\ Usable(n)
      /\ SkipSync \/ Loaded(ctxs[n]).current = ctxs[n].kube

\* The current-context of a kubeconfig file names an entry of it, however commands
\* that read and write the whole file interleave, fail or are interrupted.
CurrentContextExists ==
  \A f \in Files :
    kfile[f] # None /\ kfile[f].current # None => HasKube(kfile[f], kfile[f].current)

=============================================================================
