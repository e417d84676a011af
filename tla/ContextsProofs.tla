--------------------------- MODULE ContextsProofs ---------------------------
(***************************************************************************)
(* Proofs about Contexts for every set of processes, names, clusters,      *)
(* requests and faults: type correctness, and that the current-context of  *)
(* a kubeconfig file always names an entry of it.  And, for commands one   *)
(* at a time, that the CLI configuration and the kubeconfig files agree:   *)
(* the entry of an active context is current, every context can be used,   *)
(* and a login repairs what faults before it left.                         *)
(***************************************************************************)
EXTENDS Contexts, TLAPS

\* A kubeconfig, on disk or in the memory of a command, whose current-context exists.
Closed(cfg) == cfg # None /\ cfg.current # None => cfg.contexts[cfg.current] # None

\* A context that was stored: a tanzu context has an endpoint and a kube context.
Sound(c) ==
  /\ c.type = "tanzu" => c.endpoint \in Orgs /\ c.kube \in Kubes
  /\ c.pinniped => c.type # "tanzu" /\ c.kube \in Clusters

Holding == {"mergewrite", "version", "add", "sync", "syncwrite", "update", "updatewrite",
            "set", "activate", "remove", "kubedelete", "kubedeletewrite"}

\* What a command at pc knows of the context c that it holds.
PcSound(pc, kind, n, c) ==
  /\ pc # "idle" => n \in Names
  /\ kind = "login" => c.type = "tanzu"
  /\ c.pinniped => c.type # "tanzu" /\ c.kube \in Clusters
  /\ pc \in {"check", "metadata", "merge"} => (c.type = "tanzu" => c.endpoint \in Orgs)
  /\ pc \in {"metadata", "update"} => c.type = "tanzu"
  /\ pc = "merge" => c.type = "tanzu" \/ c.pinniped
  /\ pc \in Holding => Sound(c)
  /\ pc \in {"sync", "kubedelete"} => c.kube \in Kubes

Fine(s) == s \in ProcState /\ Closed(s.cfg) /\ PcSound(s.pc, s.kind, s.name, s.ctx)

\* The inductive invariant.
FilesInv == \A f \in Files : kfile[f] \in KubeConfig \cup {None} /\ Closed(kfile[f])
ContextsInv == \A n \in Names : ctxs[n] = None \/ (ctxs[n] \in Context /\ Sound(ctxs[n]))
ProcsInv == \A p \in Procs : Fine(proc[p])
IInv == TypeOK /\ FilesInv /\ ContextsInv /\ ProcsInv

-----------------------------------------------------------------------------
(* Kubeconfig operations *)

\* The name of a user is a context name or a cluster.
LEMMA UserType == ASSUME NEW k \in Kubes PROVE UserOf(k) \in Names \cup Clusters
  BY DEF UserOf, Kubes

\* Merging an entry (MergeKubeConfigWithoutSwitchContext) keeps a file closed.
LEMMA MergeClosed ==
  ASSUME NEW cfg \in KubeConfig \cup {None}, Closed(cfg), NEW k \in Kubes, NEW e \in Cluster
  PROVE  /\ MergeKubeConfigWithoutSwitchContext(cfg, k, e) \in KubeConfig
         /\ Closed(MergeKubeConfigWithoutSwitchContext(cfg, k, e))
<1> USE ConstantsAssumption
<1>1. UserOf(k) \in Names \cup Clusters
  BY UserType
<1>2. CASE cfg = None
  <2>1. [NoKubes EXCEPT ![k] = e] \in [Kubes -> Cluster \cup {None}]
    BY DEF NoKubes
  <2>2. [NoKubes EXCEPT ![k] = e][k] # None
    BY DEF NoKubes
  <2> QED
    BY <1>1, <1>2, <2>1, <2>2 DEF MergeKubeConfigWithoutSwitchContext, KubeConfig, Closed
<1>3. CASE cfg # None
  <2>1. cfg \in KubeConfig
    BY <1>3
  <2>2. Filled(cfg.contexts[k], e) \in Cluster
    <3>1. cfg.contexts[k] \in Cluster \cup {None}
      BY <2>1 DEF KubeConfig
    <3> QED
      BY <3>1 DEF Filled, Cluster
  <2>3. [cfg.contexts EXCEPT ![k] = Filled(cfg.contexts[k], e)] \in [Kubes -> Cluster \cup {None}]
    BY <2>1, <2>2 DEF KubeConfig
  <2>4. cfg.current # None =>
          [cfg.contexts EXCEPT ![k] = Filled(cfg.contexts[k], e)][cfg.current] # None
    BY <2>1, <2>2, <1>3 DEF KubeConfig, Closed
  <2> QED
    BY <1>1, <1>3, <2>1, <2>3, <2>4 DEF MergeKubeConfigWithoutSwitchContext, KubeConfig, Closed
<1> QED
  BY <1>2, <1>3

\* Selecting an entry that exists (SetCurrentContext) keeps a file closed.
LEMMA SyncClosed ==
  ASSUME NEW cfg \in KubeConfig, NEW k \in Kubes, cfg.contexts[k] # None
  PROVE  SetCurrentContext(cfg, k) \in KubeConfig /\ Closed(SetCurrentContext(cfg, k))
  BY DEF SetCurrentContext, KubeConfig, Closed

\* Deleting an entry (DeleteContextFromKubeConfig) keeps a file closed.
LEMMA DeleteClosed ==
  ASSUME NEW cfg \in KubeConfig, Closed(cfg), NEW k \in Kubes
  PROVE  /\ DeleteContextFromKubeConfig(cfg, k) \in KubeConfig
         /\ Closed(DeleteContextFromKubeConfig(cfg, k))
<1> USE ConstantsAssumption
<1>1. [cfg.contexts EXCEPT ![k] = None] \in [Kubes -> Cluster \cup {None}]
  BY DEF KubeConfig
<1>2. cfg.current # None /\ cfg.current # k => [cfg.contexts EXCEPT ![k] = None][cfg.current] # None
  BY DEF KubeConfig, Closed
<1> QED
  BY <1>1, <1>2 DEF DeleteContextFromKubeConfig, KubeConfig, Closed

\* Both ways of changing the server of an entry (updateContextInPlace,
\* updateContextWithNewName) keep a file closed.
LEMMA UpdateClosed ==
  ASSUME NEW cfg \in KubeConfig, Closed(cfg), NEW k \in Kubes, cfg.contexts[k] # None,
         NEW new \in Kubes, NEW server \in Servers
  PROVE  /\ updateContextInPlace(cfg, k, server) \in KubeConfig
         /\ Closed(updateContextInPlace(cfg, k, server))
         /\ updateContextWithNewName(cfg, k, new, server) \in KubeConfig
         /\ Closed(updateContextWithNewName(cfg, k, new, server))
<1> USE ConstantsAssumption
<1>1. Moved(cfg, k, server) \in Cluster
  <2>1. cfg.contexts[k] \in Cluster
    BY DEF KubeConfig
  <2> QED
    BY <2>1 DEF Moved, Cluster
<1> DEFINE m1 == [cfg.contexts EXCEPT ![k] = Moved(cfg, k, server)]
           m2 == [cfg.contexts EXCEPT ![k] = None, ![new] = Moved(cfg, k, server)]
<1>2. m1 \in [Kubes -> Cluster \cup {None}] /\ m2 \in [Kubes -> Cluster \cup {None}]
  BY <1>1 DEF KubeConfig
<1>3. cfg.current # None => m1[cfg.current] # None
  BY <1>1 DEF KubeConfig, Closed
<1>4. m2[new] # None
  BY <1>1 DEF KubeConfig
<1>5. cfg.current # None /\ cfg.current # k => m2[cfg.current] # None
  BY <1>1 DEF KubeConfig, Closed
<1>6. updateContextInPlace(cfg, k, server) \in KubeConfig /\ Closed(updateContextInPlace(cfg, k, server))
  <2> HIDE DEF m2
  <2> QED BY <1>2, <1>3 DEF updateContextInPlace, KubeConfig, Closed
<1>7. /\ updateContextWithNewName(cfg, k, new, server) \in KubeConfig
      /\ Closed(updateContextWithNewName(cfg, k, new, server))
  <2> HIDE DEF m1
  <2> QED BY <1>2, <1>4, <1>5 DEF updateContextWithNewName, KubeConfig, Closed
<1> QED
  BY <1>6, <1>7

-----------------------------------------------------------------------------
(* Steps *)

\* The state of the process that moves is all that ProcsInv asks about.
LEMMA OneMoves ==
  ASSUME IInv, NEW p \in Procs, NEW s, Fine(s), proc' = [proc EXCEPT ![p] = s]
  PROVE  proc' \in [Procs -> ProcState] /\ ProcsInv'
<1>1. s \in ProcState /\ proc \in [Procs -> ProcState]
  BY DEF IInv, TypeOK, Fine
<1>2. proc' \in [Procs -> ProcState]
  BY <1>1
<1>3. \A q \in Procs : proc'[q] = IF q = p THEN s ELSE proc[q]
  BY <1>1
<1> QED
  BY <1>2, <1>3 DEF IInv, ProcsInv

\* A context that nothing is known of.
LEMMA NoContextType == NoContext \in Context
  BY DEF NoContext, Context, Types

\* A command that ends leaves nothing to be said about its memory.
LEMMA EndedFine ==
  ASSUME NEW s, Fine(s), NEW r \in {"ok", "unsaved", "error", "crashed"}
  PROVE  Fine(Ended(s, r))
<1>1. Ended(s, r) \in ProcState
  BY NoContextType DEF Ended, Fine, ProcState, PCs
<1>2. /\ Ended(s, r).cfg = None /\ Ended(s, r).pc = "idle" /\ Ended(s, r).ctx = NoContext
  BY DEF Ended, Fine, ProcState
<1> QED
  BY <1>1, <1>2 DEF Fine, Closed, PcSound, Holding, NoContext

\* Steps that only move one process keep the rest of the invariant.
LEMMA OnlyProc ==
  ASSUME IInv, proc' \in [Procs -> ProcState], ProcsInv', UNCHANGED <<ctxs, active, kfile>>,
         ops' \in 0..MaxOps, faults' \in 0..MaxFaults
  PROVE  IInv'
  BY DEF IInv, TypeOK, FilesInv, ContextsInv

\* The same for a process that returns.
LEMMA Returning ==
  ASSUME IInv, NEW p \in Procs, NEW r \in {"ok", "unsaved", "error", "crashed"}, Return(p, r)
  PROVE  proc' \in [Procs -> ProcState] /\ ProcsInv'
<1>1. Fine(proc[p])
  BY DEF IInv, ProcsInv
<1>2. Fine(Ended(proc[p], r))
  BY <1>1, EndedFine
<1> QED
  BY <1>2, OneMoves DEF Return, Become

\* The state of a process that goes to pc holding the context c and the kubeconfig cfg.
Held(s, pc, c, cfg) == [s EXCEPT !.pc = pc, !.ctx = c, !.cfg = cfg]

\* A process may go where the context it holds fits.
LEMMA HeldFine ==
  ASSUME NEW s \in ProcState, NEW pc \in PCs, NEW c \in Context,
         NEW cfg \in KubeConfig \cup {None}, Closed(cfg), PcSound(pc, s.kind, s.name, c)
  PROVE  Fine(Held(s, pc, c, cfg))
<1>1. Held(s, pc, c, cfg) \in ProcState
  BY DEF Held, ProcState
<1>2. /\ Held(s, pc, c, cfg).pc = pc /\ Held(s, pc, c, cfg).kind = s.kind
      /\ Held(s, pc, c, cfg).name = s.name /\ Held(s, pc, c, cfg).ctx = c
      /\ Held(s, pc, c, cfg).cfg = cfg
  BY DEF Held, ProcState
<1> QED
  BY <1>1, <1>2 DEF Fine

\* Two of the forms in which the steps write such a state.
LEMMA HeldForms ==
  ASSUME NEW s \in ProcState, NEW pc, NEW c
  PROVE  /\ [s EXCEPT !.pc = pc] = Held(s, pc, s.ctx, s.cfg)
         /\ [s EXCEPT !.pc = pc, !.ctx = c] = Held(s, pc, c, s.cfg)
  BY DEF Held, ProcState

\* A process that does so keeps the invariant of the processes.
LEMMA Moving ==
  ASSUME IInv, NEW p \in Procs, NEW pc \in PCs, NEW c \in Context,
         NEW cfg \in KubeConfig \cup {None}, Closed(cfg),
         PcSound(pc, proc[p].kind, proc[p].name, c), Become(p, Held(proc[p], pc, c, cfg))
  PROVE  proc' \in [Procs -> ProcState] /\ ProcsInv'
<1>1. proc[p] \in ProcState
  BY DEF IInv, TypeOK
<1>2. Fine(Held(proc[p], pc, c, cfg))
  BY <1>1, HeldFine
<1> QED
  BY <1>2, OneMoves DEF Become

\* What the invariant says of one process.
LEMMA ProcFacts ==
  ASSUME IInv, NEW p \in Procs
  PROVE  /\ proc[p] \in ProcState /\ Closed(proc[p].cfg)
         /\ proc[p].ctx \in Context /\ proc[p].cfg \in KubeConfig \cup {None}
         /\ proc[p].kind \in Commands \cup {"none"} /\ proc[p].stable \in BOOLEAN
         /\ proc[p].name \in Names \cup {None} /\ proc[p].res \in Resources
         /\ proc[p].tls \in [ca : Certs \cup {None}, skip : BOOLEAN]
         /\ proc[p].type \in Types
         /\ PcSound(proc[p].pc, proc[p].kind, proc[p].name, proc[p].ctx)
<1>1. Fine(proc[p])
  BY DEF IInv, ProcsInv
<1> QED
  BY <1>1 DEF Fine, ProcState

\* A step to pc holding the same context and kubeconfig.
LEMMA Going ==
  ASSUME IInv, NEW p \in Procs, NEW pc \in PCs, Goto(p, pc),
         PcSound(pc, proc[p].kind, proc[p].name, proc[p].ctx)
  PROVE  proc' \in [Procs -> ProcState] /\ ProcsInv'
<1>1. Become(p, Held(proc[p], pc, proc[p].ctx, proc[p].cfg))
  BY ProcFacts, HeldForms DEF Goto
<1> QED
  BY <1>1, ProcFacts, Moving

\* What the invariant says of the kubeconfig file of a context.
LEMMA LoadedFacts ==
  ASSUME IInv, NEW c
  PROVE  FileOf(c) \in Files /\ Loaded(c) \in KubeConfig \cup {None} /\ Closed(Loaded(c))
  BY DEF IInv, FilesInv, FileOf, Loaded, Files

\* Writing the kubeconfig that a process holds.
LEMMA Writing ==
  ASSUME IInv, NEW p \in Procs, NEW pc \in PCs, WriteKube(p, pc),
         pc # "idle" => PcSound(pc, proc[p].kind, proc[p].name, proc[p].ctx)
  PROVE  IInv'
<1>1. proc' \in [Procs -> ProcState] /\ ProcsInv'
  <2>1. CASE pc = "idle"
    BY <2>1, Returning DEF WriteKube
  <2>2. CASE pc # "idle"
    BY <2>2, Going DEF WriteKube
  <2> QED
    BY <2>1, <2>2
<1>2. FileOf(proc[p].ctx) \in Files /\ proc[p].cfg \in KubeConfig \cup {None} /\ Closed(proc[p].cfg)
  BY ProcFacts, LoadedFacts
<1>3. kfile' \in [Files -> KubeConfig \cup {None}] /\ FilesInv'
  BY <1>2 DEF IInv, TypeOK, FilesInv, WriteKube
<1> QED
  BY <1>1, <1>3 DEF IInv, TypeOK, ContextsInv, WriteKube, LeavesConfig

-----------------------------------------------------------------------------
(* The actions *)

\* Initially there is no context and the user's kubeconfig has no current context.
LEMMA Initially == Init => IInv
<1> SUFFICES ASSUME Init PROVE IInv
  OBVIOUS
<1> USE ConstantsAssumption
<1> DEFINE kubes == [k \in Kubes |-> IF k \in UserClusters
                                    THEN [server |-> k, ca |-> None, skip |-> FALSE] ELSE None]
<1>1. kubes \in [Kubes -> Cluster \cup {None}]
  BY DEF Cluster, Servers, Kubes
<1> HIDE DEF kubes
<1>2. [contexts |-> kubes, users |-> UserClusters, current |-> None] \in KubeConfig
  BY <1>1 DEF KubeConfig
<1>3. kfile \in [Files -> KubeConfig \cup {None}] /\ FilesInv
  <2>1. kfile = [f \in Files |-> IF f = "tanzu" THEN None
                   ELSE [contexts |-> kubes, users |-> UserClusters, current |-> None]]
    BY DEF Init, kubes
  <2> QED
    BY <2>1, <1>2 DEF FilesInv, Closed
<1>4. Idle \in ProcState
  BY NoContextType DEF Idle, ProcState, PCs, Types, NoTLS
<1>5. Fine(Idle)
  <2>1. Idle.pc = "idle" /\ Idle.kind = "none" /\ Idle.cfg = None /\ Idle.ctx = NoContext
    BY DEF Idle
  <2> QED
    BY <1>4, <2>1 DEF Fine, Closed, PcSound, Holding, NoContext
<1>6. proc \in [Procs -> ProcState] /\ ProcsInv
  BY <1>4, <1>5 DEF Init, ProcsInv
<1>7. ctxs \in [Names -> Context \cup {None}] /\ ContextsInv
  BY DEF Init, ContextsInv
<1>8. active \in [Types -> Names \cup {None}] /\ ops \in 0..MaxOps /\ faults \in 0..MaxFaults
  BY DEF Init
<1> QED
  BY <1>3, <1>6, <1>7, <1>8 DEF IInv, TypeOK

\* A command that begins holds a request, or a context without an endpoint.
LEMMA BeginStep == ASSUME IInv, NEW p \in Procs, Begin(p) PROVE IInv'
<1> USE ConstantsAssumption
<1>1. /\ UNCHANGED <<ctxs, active, kfile, faults>> /\ ops' \in 0..MaxOps
      /\ faults' \in 0..MaxFaults
  <2>1. UNCHANGED <<ctxs, active, kfile, faults>> /\ ops < MaxOps /\ ops' = ops + 1
    BY DEF Begin
  <2> QED
    BY <2>1 DEF IInv, TypeOK
<1> SUFFICES ASSUME NEW s, Fine(s), Become(p, s) PROVE IInv'
  <2>1. SUFFICES \E s : Fine(s) /\ Become(p, s)
    OBVIOUS
  <2>2. CASE \E q \in Requests, b \in StableModes :
               Become(p, [Idle EXCEPT !.pc = "check", !.kind = "create", !.name = q.name,
                                      !.ctx = q.ctx, !.tls = q.tls, !.stable = b])
    <3>1. PICK q \in Requests, b \in StableModes :
               Become(p, [Idle EXCEPT !.pc = "check", !.kind = "create", !.name = q.name,
                                      !.ctx = q.ctx, !.tls = q.tls, !.stable = b])
      BY <2>2
    <3> DEFINE t == [Idle EXCEPT !.pc = "check", !.kind = "create", !.name = q.name,
                                 !.ctx = q.ctx, !.tls = q.tls, !.stable = b]
    <3>2. /\ q.name \in Names /\ q.ctx \in Context
          /\ q.tls \in [ca : Certs \cup {None}, skip : BOOLEAN] /\ b \in BOOLEAN
      BY RequestsAssumption DEF Request
    <3>3. t \in ProcState
      BY <3>2 DEF Idle, ProcState, PCs, Types, Commands
    <3>4. t.pc = "check" /\ t.kind = "create" /\ t.name = q.name /\ t.ctx = q.ctx /\ t.cfg = None
      BY DEF Idle
    <3>5. PcSound("check", "create", q.name, q.ctx)
      BY <3>2, RequestsAssumption DEF PcSound, Context, Types, Holding
    <3>6. Fine(t)
      <4> HIDE DEF t
      <4> QED BY <3>3, <3>4, <3>5 DEF Fine, Closed
    <3> QED
      BY <3>1, <3>6
  <2>3. CASE \E n \in LoginNames, o \in Orgs, v \in TLSOptions, b \in StableModes :
               Become(p, [Idle EXCEPT !.pc = "metadata", !.kind = "login", !.name = n, !.tls = v,
                                      !.ctx = [NoContext EXCEPT !.endpoint = o], !.stable = b])
    <3>1. PICK n \in LoginNames, o \in Orgs, v \in TLSOptions, b \in StableModes :
               Become(p, [Idle EXCEPT !.pc = "metadata", !.kind = "login", !.name = n, !.tls = v,
                                      !.ctx = [NoContext EXCEPT !.endpoint = o], !.stable = b])
      BY <2>3
    <3> DEFINE c == [NoContext EXCEPT !.endpoint = o]
    <3>2. c \in Context /\ c.type = "tanzu" /\ c.endpoint = o /\ c.pinniped = FALSE
      BY DEF NoContext, Context, Types
    <3> HIDE DEF c
    <3> DEFINE t == [Idle EXCEPT !.pc = "metadata", !.kind = "login", !.name = n, !.tls = v,
                                 !.ctx = c, !.stable = b]
    <3>3. t \in ProcState
      BY <3>2 DEF Idle, ProcState, PCs, Types, Commands
    <3>4. t.pc = "metadata" /\ t.kind = "login" /\ t.name = n /\ t.ctx = c /\ t.cfg = None
      BY DEF Idle
    <3>5. PcSound("metadata", "login", n, c)
      BY <3>2 DEF PcSound, Holding
    <3>6. Fine(t)
      <4> HIDE DEF t
      <4> QED BY <3>3, <3>4, <3>5 DEF Fine, Closed
    <3> QED
      BY <3>1, <3>6 DEF c
  <2>4. CASE \E k \in Kinds \cap {"use", "delete", "token"}, n \in Names :
               Become(p, [Idle EXCEPT !.pc = "get", !.kind = k, !.name = n])
    <3>1. PICK k \in Kinds \cap {"use", "delete", "token"}, n \in Names :
               Become(p, [Idle EXCEPT !.pc = "get", !.kind = k, !.name = n])
      BY <2>4
    <3> DEFINE t == [Idle EXCEPT !.pc = "get", !.kind = k, !.name = n]
    <3>2. t \in ProcState
      BY NoContextType DEF Idle, ProcState, PCs, Types, Commands, NoTLS
    <3>3. t.pc = "get" /\ t.kind = k /\ t.name = n /\ t.ctx = NoContext /\ t.cfg = None
      BY DEF Idle
    <3>4. PcSound("get", k, n, NoContext)
      BY DEF PcSound, Holding, NoContext
    <3>5. Fine(t)
      <4> HIDE DEF t
      <4> QED BY <3>2, <3>3, <3>4 DEF Fine, Closed
    <3> QED
      BY <3>1, <3>5
  <2>5. CASE \E n \in Names, r \in Resources, b \in StableModes :
               Become(p, [Idle EXCEPT !.pc = "get", !.kind = "resource", !.name = n, !.res = r,
                                      !.stable = b])
    <3>1. PICK n \in Names, r \in Resources, b \in StableModes :
               Become(p, [Idle EXCEPT !.pc = "get", !.kind = "resource", !.name = n, !.res = r,
                                      !.stable = b])
      BY <2>5
    <3> DEFINE t == [Idle EXCEPT !.pc = "get", !.kind = "resource", !.name = n, !.res = r,
                                 !.stable = b]
    <3>2. t \in ProcState
      BY NoContextType DEF Idle, ProcState, PCs, Types, Commands, NoTLS
    <3>3. t.pc = "get" /\ t.kind = "resource" /\ t.name = n /\ t.ctx = NoContext /\ t.cfg = None
      BY DEF Idle
    <3>4. PcSound("get", "resource", n, NoContext)
      BY DEF PcSound, Holding, NoContext
    <3>5. Fine(t)
      <4> HIDE DEF t
      <4> QED BY <3>2, <3>3, <3>4 DEF Fine, Closed
    <3> QED
      BY <3>1, <3>5
  <2>6. CASE \E y \in Types :
               /\ active[y] # None
               /\ Become(p, [Idle EXCEPT !.pc = "unset", !.kind = "unset", !.name = active[y],
                                         !.type = y])
    <3>1. PICK y \in Types :
               /\ active[y] # None
               /\ Become(p, [Idle EXCEPT !.pc = "unset", !.kind = "unset", !.name = active[y],
                                         !.type = y])
      BY <2>6
    <3>2. active[y] \in Names
      BY <3>1 DEF IInv, TypeOK
    <3> DEFINE t == [Idle EXCEPT !.pc = "unset", !.kind = "unset", !.name = active[y], !.type = y]
    <3>3. t \in ProcState
      BY <3>2, NoContextType DEF Idle, ProcState, PCs, Types, Commands, NoTLS
    <3>4. t.pc = "unset" /\ t.kind = "unset" /\ t.name = active[y] /\ t.ctx = NoContext /\ t.cfg = None
      BY DEF Idle
    <3>5. PcSound("unset", "unset", active[y], NoContext)
      BY <3>2 DEF PcSound, Holding, NoContext
    <3>6. Fine(t)
      <4> HIDE DEF t
      <4> QED BY <3>3, <3>4, <3>5 DEF Fine, Closed
    <3> QED
      BY <3>1, <3>6
  <2> QED
    BY <2>2, <2>3, <2>4, <2>5, <2>6 DEF Begin
<1>2. proc' \in [Procs -> ProcState] /\ ProcsInv'
  BY OneMoves DEF Become
<1> QED
  BY <1>1, <1>2, OnlyProc

\* context create goes on with its request.
LEMMA CheckNameStep == ASSUME IInv, NEW p \in Procs, CheckName(p) PROVE IInv'
<1>1. proc' \in [Procs -> ProcState] /\ ProcsInv'
  <2>1. CASE Return(p, "error")
    BY <2>1, Returning
  <2>2. CASE Goto(p, AfterCheck(proc[p].ctx))
    <3> DEFINE c == proc[p].ctx
               pc == AfterCheck(c)
    <3>1. c \in Context /\ PcSound("check", proc[p].kind, proc[p].name, c)
      BY ProcFacts DEF CheckName, At
    <3> HIDE DEF c
    <3>2. \/ pc = "metadata" /\ c.type = "tanzu"
          \/ pc = "merge" /\ c.type # "tanzu" /\ c.pinniped
          \/ pc \in {"version", "add"} /\ c.type # "tanzu"
      BY <3>1 DEF AfterCheck, Context
    <3> HIDE DEF pc
    <3>3. pc \in PCs /\ PcSound(pc, proc[p].kind, proc[p].name, c)
      BY <3>1, <3>2 DEF PcSound, PCs, Holding, Sound
    <3> QED
      BY <2>2, <3>3, Going DEF c, pc
  <2> QED
    BY <2>1, <2>2 DEF CheckName
<1>2. UNCHANGED <<ctxs, active, kfile, ops, faults>>
  BY DEF CheckName, LeavesConfig
<1> QED
  BY <1>1, <1>2, OnlyProc DEF IInv, TypeOK

\* The resource of the stored context is a resource.
LEMMA MetadataStep == ASSUME IInv, NEW p \in Procs, updateTanzuContextMetadata(p) PROVE IInv'
<1> DEFINE n == proc[p].name
           r == IF ContextExists(n) THEN ctxs[n].res ELSE None
           c == [proc[p].ctx EXCEPT !.res = r]
<1>1. proc[p].ctx \in Context /\ PcSound("metadata", proc[p].kind, n, proc[p].ctx)
  BY ProcFacts DEF updateTanzuContextMetadata, At
<1>2. r \in Resources \cup {None}
  <2>1. n \in Names
    BY <1>1 DEF PcSound
  <2> QED
    BY <2>1 DEF IInv, TypeOK, ContextExists, Context
<1>3. c \in Context /\ c.type = proc[p].ctx.type /\ c.endpoint = proc[p].ctx.endpoint
      /\ c.kube = proc[p].ctx.kube /\ c.pinniped = proc[p].ctx.pinniped
  <2> HIDE DEF r
  <2> QED BY <1>1, <1>2 DEF Context
<1>4. Become(p, Held(proc[p], "merge", c, proc[p].cfg))
  <2>1. Become(p, [proc[p] EXCEPT !.pc = "merge", !.ctx = c])
    BY DEF updateTanzuContextMetadata
  <2> HIDE DEF c
  <2> QED BY <2>1, ProcFacts, HeldForms
<1> HIDE DEF c, n
<1>5. "merge" \in PCs /\ PcSound("merge", proc[p].kind, n, c)
  BY <1>1, <1>3 DEF PcSound, PCs, Holding
<1>6. proc' \in [Procs -> ProcState] /\ ProcsInv'
  BY <1>3, <1>4, <1>5, ProcFacts, Moving DEF n
<1>7. UNCHANGED <<ctxs, active, kfile, ops, faults>>
  BY DEF updateTanzuContextMetadata, LeavesConfig
<1> QED
  BY <1>6, <1>7, OnlyProc DEF IInv, TypeOK

\* The entry that create and login merge (GetTanzuKubeconfig, GetPinnipedKubeconfig).
LEMMA NewEntry ==
  ASSUME IInv, NEW p \in Procs, PcSound("merge", proc[p].kind, proc[p].name, proc[p].ctx)
  PROVE  NewKube(p) \in Kubes /\ NewCluster(p) \in Cluster
<1> USE ConstantsAssumption
<1> DEFINE o == proc[p].ctx
<1>1. proc[p].tls.ca \in Certs \cup {None} /\ proc[p].tls.skip \in BOOLEAN
  BY ProcFacts
<1>2. CASE o.pinniped
  BY <1>1, <1>2 DEF PcSound, NewKube, NewCluster, Kubes, Cluster, Servers
<1>3. CASE ~ o.pinniped
  <2>1. proc[p].name \in Names /\ o.endpoint \in Orgs
    BY <1>3 DEF PcSound
  <2> QED
    BY <1>1, <1>3, <2>1 DEF NewKube, NewCluster, Kubes, Cluster, Servers
<1> QED
  BY <1>2, <1>3

\* The merged kubeconfig stays closed, and the context has its kube context.
LEMMA MergeStep == ASSUME IInv, NEW p \in Procs, MergeKube(p) PROVE IInv'
<1> USE ConstantsAssumption
<1> DEFINE o == proc[p].ctx
           k == NewKube(p)
           e == NewCluster(p)
           cfg == MergeKubeConfigWithoutSwitchContext(Loaded(o), k, e)
           c == [o EXCEPT !.kube = k]
<1>1. o \in Context /\ PcSound("merge", proc[p].kind, proc[p].name, o)
  BY ProcFacts DEF MergeKube, At
<1>2. /\ k \in Kubes /\ (o.pinniped => k \in Clusters)
      /\ e \in Cluster
  BY <1>1, NewEntry DEF NewKube, PcSound
<1>3. cfg \in KubeConfig /\ Closed(cfg)
  <2>1. Loaded(o) \in KubeConfig \cup {None} /\ Closed(Loaded(o))
    BY LoadedFacts
  <2> QED
    BY <2>1, <1>2, MergeClosed
<1>4. Become(p, Held(proc[p], "mergewrite", c, cfg))
  <2>1. Become(p, [proc[p] EXCEPT !.pc = "mergewrite", !.cfg = cfg, !.ctx = c])
    BY DEF MergeKube
  <2> HIDE DEF c, cfg
  <2>2. proc[p] \in ProcState
    BY ProcFacts
  <2>3. [proc[p] EXCEPT !.pc = "mergewrite", !.cfg = cfg, !.ctx = c]
          = Held(proc[p], "mergewrite", c, cfg)
    BY <2>2 DEF Held, ProcState
  <2> QED
    BY <2>1, <2>3
<1> HIDE DEF k, e, cfg
<1>5. c \in Context /\ c.type = o.type /\ c.endpoint = o.endpoint /\ c.kube = k
      /\ c.pinniped = o.pinniped
  BY <1>1, <1>2 DEF Context
<1> HIDE DEF c, o
<1>6. "mergewrite" \in PCs /\ PcSound("mergewrite", proc[p].kind, proc[p].name, c)
  BY <1>1, <1>2, <1>5 DEF PcSound, PCs, Holding, Sound
<1>7. proc' \in [Procs -> ProcState] /\ ProcsInv'
  BY <1>3, <1>4, <1>5, <1>6, Moving
<1>8. UNCHANGED <<ctxs, active, kfile, ops, faults>>
  BY DEF MergeKube, LeavesConfig
<1> QED
  BY <1>7, <1>8, OnlyProc DEF IInv, TypeOK

\* The four writes of a kubeconfig: the context held fits where they go on.
LEMMA WriteSteps ==
  ASSUME IInv, NEW p \in Procs, WriteMerged(p) \/ WriteSynced(p) \/ WriteUpdated(p) \/ WriteDeleted(p)
  PROVE  IInv'
<1> DEFINE c == proc[p].ctx
<1>0. PcSound(proc[p].pc, proc[p].kind, proc[p].name, c)
  BY ProcFacts
<1> HIDE DEF c
<1>1. CASE WriteMerged(p)
  <2>1. PICK pc \in {"version", "add"} : WriteKube(p, pc)
    BY <1>1 DEF WriteMerged
  <2>2. pc \in PCs /\ PcSound(pc, proc[p].kind, proc[p].name, c)
    BY <1>0, <1>1, <2>1 DEF WriteMerged, At, PcSound, Holding, PCs
  <2> QED
    BY <2>1, <2>2, Writing DEF c
<1>2. CASE WriteSynced(p)
  <2> DEFINE pc == AfterSync(proc[p].kind)
  <2>1. \/ pc = "update" /\ proc[p].kind = "login"
        \/ pc = "activate"
        \/ pc = "idle"
    BY DEF AfterSync
  <2>2. WriteKube(p, pc) /\ proc[p].pc = "syncwrite"
    BY <1>2 DEF WriteSynced, At
  <2> HIDE DEF pc
  <2>3. pc \in PCs /\ (pc # "idle" => PcSound(pc, proc[p].kind, proc[p].name, c))
    BY <1>0, <2>1, <2>2 DEF PcSound, Holding, PCs
  <2> QED
    BY <2>2, <2>3, Writing DEF c
<1>3. CASE WriteUpdated(p)
  <2>1. WriteKube(p, "set") /\ proc[p].pc = "updatewrite"
    BY <1>3 DEF WriteUpdated, At
  <2>2. "set" \in PCs /\ PcSound("set", proc[p].kind, proc[p].name, c)
    BY <1>0, <2>1 DEF PcSound, Holding, PCs
  <2> QED
    BY <2>1, <2>2, Writing DEF c
<1>4. CASE WriteDeleted(p)
  <2>1. WriteKube(p, "idle") /\ "idle" \in PCs
    BY <1>4 DEF WriteDeleted, PCs
  <2> QED
    BY <2>1, Writing
<1> QED
  BY <1>1, <1>2, <1>3, <1>4

\* The version of the server changes nothing.
LEMMA VersionStep == ASSUME IInv, NEW p \in Procs, GetServerKubernetesVersion(p) PROVE IInv'
<1>1. PcSound("version", proc[p].kind, proc[p].name, proc[p].ctx)
  BY ProcFacts DEF GetServerKubernetesVersion, At
<1>2. "add" \in PCs /\ PcSound("add", proc[p].kind, proc[p].name, proc[p].ctx)
  BY <1>1 DEF PcSound, Holding, PCs
<1>3. proc' \in [Procs -> ProcState] /\ ProcsInv'
  BY <1>2, Going, Returning DEF GetServerKubernetesVersion
<1>4. UNCHANGED <<ctxs, active, kfile, ops, faults>>
  BY DEF GetServerKubernetesVersion, LeavesConfig
<1> QED
  BY <1>3, <1>4, OnlyProc DEF IInv, TypeOK

\* Storing a sound context keeps every stored context sound.
LEMMA Storing ==
  ASSUME IInv, NEW n \in Names, NEW c \in Context, Sound(c), SetContext(n, c)
  PROVE  ctxs' \in [Names -> Context \cup {None}] /\ ContextsInv'
<1> DEFINE r == IF ContextExists(n) /\ c.res = None THEN ctxs[n].res ELSE c.res
           d == [c EXCEPT !.res = r]
<1>1. ctxs \in [Names -> Context \cup {None}]
  BY DEF IInv, TypeOK
<1>2. r \in Resources \cup {None}
  BY <1>1 DEF ContextExists, Context
<1> HIDE DEF r
<1>3. d \in Context /\ d.type = c.type /\ d.endpoint = c.endpoint /\ d.kube = c.kube
      /\ d.pinniped = c.pinniped
  BY <1>2 DEF Context
<1>4. ctxs' = [ctxs EXCEPT ![n] = d]
  BY DEF SetContext, Stored, r
<1> HIDE DEF d
<1>5. Sound(d)
  BY <1>3 DEF Sound
<1>6. \A m \in Names : ctxs'[m] = IF m = n THEN d ELSE ctxs[m]
  BY <1>1, <1>4
<1> QED
  BY <1>1, <1>3, <1>4, <1>5, <1>6 DEF IInv, ContextsInv

\* Activating a context gives active names their types.
LEMMA Activating ==
  ASSUME IInv, NEW n \in Names, NEW t \in Types
  PROVE  Activated(n, t) \in [Types -> Names \cup {None}]
<1>1. active \in [Types -> Names \cup {None}]
  BY DEF IInv, TypeOK
<1>2. \A s \in Types : Activated(n, t)[s] \in Names \cup {None}
  <2> SUFFICES ASSUME NEW s \in Types PROVE Activated(n, t)[s] \in Names \cup {None}
    OBVIOUS
  <2>1. CASE s = t
    BY <2>1 DEF Activated
  <2>2. CASE s # t /\ {s, t} = {"kubernetes", "tanzu"}
    BY <2>2 DEF Activated
  <2>3. CASE s # t /\ {s, t} # {"kubernetes", "tanzu"}
    BY <2>3, <1>1 DEF Activated
  <2> QED
    BY <2>1, <2>2, <2>3
<1>3. Activated(n, t) = [s \in Types |-> Activated(n, t)[s]]
  BY DEF Activated
<1> QED
  BY <1>2, <1>3

\* AddContext stores the context that the command holds.
LEMMA AddStep == ASSUME IInv, NEW p \in Procs, AddContext(p) PROVE IInv'
<1> USE ConstantsAssumption
<1> DEFINE c == proc[p].ctx
           n == proc[p].name
           next == IF NeedsSync(c) THEN "sync" ELSE AfterSync(proc[p].kind)
<1>1. c \in Context /\ PcSound("add", proc[p].kind, n, c)
  BY ProcFacts DEF AddContext, At
<1>2. n \in Names /\ Sound(c) /\ c.type \in Types
  BY <1>1 DEF PcSound, Holding, Context
<1>3. ctxs' \in [Names -> Context \cup {None}] /\ ContextsInv'
  BY <1>1, <1>2, Storing DEF AddContext
<1>4. active' \in [Types -> Names \cup {None}]
  BY <1>2, Activating DEF AddContext
<1>5. \/ next = "sync" /\ c.kube \in Kubes
      \/ next = "update" /\ proc[p].kind = "login"
      \/ next = "activate"
      \/ next = "idle"
  BY <1>1 DEF NeedsSync, AfterSync, Context
<1>6. IF next = "idle" THEN Return(p, "ok") ELSE Goto(p, next)
  BY DEF AddContext
<1>7. UNCHANGED <<kfile, ops, faults>>
  BY DEF AddContext
<1> HIDE DEF next, c, n
<1>8. next \in PCs /\ PcSound(next, proc[p].kind, n, c)
  BY <1>1, <1>2, <1>5 DEF PcSound, Holding, PCs
<1>9. proc' \in [Procs -> ProcState] /\ ProcsInv'
  <2>1. CASE next = "idle"
    BY <2>1, <1>6, Returning
  <2>2. CASE next # "idle"
    BY <2>2, <1>6, <1>8, Going DEF c, n
  <2> QED
    BY <2>1, <2>2
<1> QED
  BY <1>3, <1>4, <1>7, <1>9 DEF IInv, TypeOK, FilesInv

\* config.GetContext returns a stored context, which is sound.
LEMMA GetStep == ASSUME IInv, NEW p \in Procs, GetContext(p) PROVE IInv'
<1> USE ConstantsAssumption
<1> DEFINE n == proc[p].name
           c == ctxs[n]
           k == proc[p].kind
<1>1. n \in Names /\ proc[p] \in ProcState /\ proc[p].res \in Resources
      /\ proc[p].cfg \in KubeConfig \cup {None} /\ Closed(proc[p].cfg)
  <2>1. PcSound("get", k, n, proc[p].ctx)
    BY ProcFacts DEF GetContext, At
  <2> QED
    BY <2>1, ProcFacts DEF PcSound
<1>2. ContextExists(n) => c \in Context /\ Sound(c)
  BY <1>1 DEF IInv, ContextsInv, ContextExists
<1>3. UNCHANGED <<ctxs, active, kfile, ops, faults>>
  BY DEF GetContext, LeavesConfig
<1> SUFFICES proc' \in [Procs -> ProcState] /\ ProcsInv'
  BY <1>3, OnlyProc DEF IInv, TypeOK
<1>4. CASE Return(p, "error") \/ Return(p, "ok")
  BY <1>4, Returning
<1>5. CASE /\ ContextExists(n) /\ k = "use"
           /\ Become(p, [proc[p] EXCEPT !.ctx = c,
                         !.pc = IF NeedsSync(c) THEN "sync" ELSE "activate"])
  <2> DEFINE pc == IF NeedsSync(c) THEN "sync" ELSE "activate"
  <2>1. Become(p, Held(proc[p], pc, c, proc[p].cfg))
    <3> HIDE DEF pc
    <3>1. [proc[p] EXCEPT !.ctx = c, !.pc = pc] = Held(proc[p], pc, c, proc[p].cfg)
      BY <1>1 DEF Held, ProcState
    <3> QED BY <1>5, <3>1 DEF pc
  <2>2. pc = "activate" \/ (pc = "sync" /\ c.kube \in Kubes)
    BY <1>2, <1>5 DEF NeedsSync, Context
  <2> HIDE DEF pc
  <2>3. pc \in PCs /\ PcSound(pc, k, n, c)
    BY <1>1, <1>2, <1>5, <2>2 DEF PcSound, Holding, PCs, Sound
  <2> QED
    BY <1>1, <1>2, <1>5, <2>1, <2>3, Moving
<1>6. CASE /\ ContextExists(n) /\ k = "delete"
           /\ Become(p, [proc[p] EXCEPT !.ctx = c, !.pc = "remove"])
  <2>1. Become(p, Held(proc[p], "remove", c, proc[p].cfg))
    <3>1. [proc[p] EXCEPT !.ctx = c, !.pc = "remove"] = Held(proc[p], "remove", c, proc[p].cfg)
      BY <1>1 DEF Held, ProcState
    <3> QED BY <1>6, <3>1
  <2>2. "remove" \in PCs /\ PcSound("remove", k, n, c)
    BY <1>1, <1>2, <1>6 DEF PcSound, Holding, PCs, Sound
  <2> QED
    BY <1>1, <1>2, <1>6, <2>1, <2>2, Moving
<1>7. CASE /\ ContextExists(n) /\ k = "resource" /\ c.type = "tanzu"
           /\ Become(p, [proc[p] EXCEPT !.ctx = [c EXCEPT !.res = proc[p].res], !.pc = "update"])
  <2> DEFINE d == [c EXCEPT !.res = proc[p].res]
  <2>1. d \in Context /\ d.type = c.type /\ d.endpoint = c.endpoint /\ d.kube = c.kube
        /\ d.pinniped = c.pinniped
    BY <1>1, <1>2, <1>7 DEF Context
  <2>2. Become(p, Held(proc[p], "update", d, proc[p].cfg))
    <3>1. Become(p, [proc[p] EXCEPT !.ctx = d, !.pc = "update"])
      BY <1>7
    <3> HIDE DEF d
    <3>2. [proc[p] EXCEPT !.ctx = d, !.pc = "update"] = Held(proc[p], "update", d, proc[p].cfg)
      BY <1>1 DEF Held, ProcState
    <3> QED BY <3>1, <3>2
  <2> HIDE DEF d
  <2>3. "update" \in PCs /\ PcSound("update", k, n, d)
    BY <1>1, <1>2, <1>7, <2>1 DEF PcSound, Holding, PCs, Sound
  <2> QED
    BY <1>1, <2>1, <2>2, <2>3, Moving
<1>8. CASE /\ ContextExists(n) /\ k = "token" /\ c.type = "tanzu"
           /\ Become(p, [proc[p] EXCEPT !.ctx = c, !.pc = "set"])
  <2>1. Become(p, Held(proc[p], "set", c, proc[p].cfg))
    <3>1. [proc[p] EXCEPT !.ctx = c, !.pc = "set"] = Held(proc[p], "set", c, proc[p].cfg)
      BY <1>1 DEF Held, ProcState
    <3> QED BY <1>8, <3>1
  <2>2. "set" \in PCs /\ PcSound("set", k, n, c)
    BY <1>1, <1>2, <1>8 DEF PcSound, Holding, PCs, Sound
  <2> QED
    BY <1>1, <1>2, <1>8, <2>1, <2>2, Moving
<1> QED
  BY <1>4, <1>5, <1>6, <1>7, <1>8 DEF GetContext

\* syncCurrentKubeContext selects an entry that it found.
LEMMA SyncStep == ASSUME IInv, NEW p \in Procs, syncCurrentKubeContext(p) PROVE IInv'
<1> DEFINE c == proc[p].ctx
           cfg == SetCurrentContext(Loaded(c), c.kube)
<1>1. c \in Context /\ PcSound("sync", proc[p].kind, proc[p].name, c) /\ proc[p] \in ProcState
  BY ProcFacts DEF syncCurrentKubeContext, At
<1>2. UNCHANGED <<ctxs, active, kfile, ops, faults>>
  BY DEF syncCurrentKubeContext, LeavesConfig
<1> SUFFICES proc' \in [Procs -> ProcState] /\ ProcsInv'
  BY <1>2, OnlyProc DEF IInv, TypeOK
<1>3. CASE Return(p, "error")
  BY <1>3, Returning
<1>4. CASE /\ HasKube(Loaded(c), c.kube)
           /\ Become(p, [proc[p] EXCEPT !.pc = "syncwrite", !.cfg = cfg])
  <2>1. cfg \in KubeConfig /\ Closed(cfg)
    <3>1. Loaded(c) \in KubeConfig /\ Loaded(c).contexts[c.kube] # None
      BY <1>4, LoadedFacts DEF HasKube
    <3>2. c.kube \in Kubes
      BY <1>1 DEF PcSound
    <3> QED
      BY <3>1, <3>2, SyncClosed
  <2> HIDE DEF cfg, c
  <2>2. Become(p, Held(proc[p], "syncwrite", c, cfg))
    <3>1. [proc[p] EXCEPT !.pc = "syncwrite", !.cfg = cfg] = Held(proc[p], "syncwrite", c, cfg)
      BY <1>1 DEF Held, ProcState, c
    <3> QED BY <1>4, <3>1
  <2>3. "syncwrite" \in PCs /\ PcSound("syncwrite", proc[p].kind, proc[p].name, c)
    BY <1>1 DEF PcSound, Holding, PCs
  <2> QED
    BY <1>1, <2>1, <2>2, <2>3, Moving
<1> QED
  BY <1>3, <1>4 DEF syncCurrentKubeContext

\* updateTanzuContextKubeconfig moves an entry that it found.
LEMMA UpdateStep == ASSUME IInv, NEW p \in Procs, updateTanzuContextKubeconfig(p) PROVE IInv'
<1> USE ConstantsAssumption
<1> DEFINE o == proc[p].ctx
           old == Loaded(o)
           new == prepareKubeContextName(proc[p].name, o)
           url == prepareClusterServerURL(o)
           cfg == IF proc[p].stable THEN updateContextInPlace(old, o.kube, url)
                  ELSE updateContextWithNewName(old, o.kube, new, url)
           c == [o EXCEPT !.kube = IF proc[p].stable THEN o.kube ELSE new]
<1>1. o \in Context /\ PcSound("update", proc[p].kind, proc[p].name, o) /\ proc[p] \in ProcState
  BY ProcFacts DEF updateTanzuContextKubeconfig, At
<1>2. /\ o.type = "tanzu" /\ o.endpoint \in Orgs /\ o.kube \in Kubes /\ proc[p].name \in Names
  BY <1>1 DEF PcSound, Holding, Sound
<1>3. UNCHANGED <<ctxs, active, kfile, ops, faults>>
  BY DEF updateTanzuContextKubeconfig, LeavesConfig
<1> SUFFICES proc' \in [Procs -> ProcState] /\ ProcsInv'
  BY <1>3, OnlyProc DEF IInv, TypeOK
<1>4. CASE Return(p, "ok") \/ Return(p, "error")
  BY <1>4, Returning
<1>5. CASE /\ HasKube(old, o.kube)
           /\ Become(p, [proc[p] EXCEPT !.pc = "updatewrite", !.cfg = cfg, !.ctx = c])
  <2>1. old \in KubeConfig /\ Closed(old) /\ old.contexts[o.kube] # None
    BY <1>5, LoadedFacts DEF HasKube
  <2>2. ActiveResource(o) \in Resources
    BY <1>1 DEF ActiveResource, Context
  <2>3. new \in Names \X Resources /\ url \in Servers
    BY <1>2, <2>2 DEF prepareKubeContextName, prepareClusterServerURL, Servers
  <2>4. new \in Kubes
    BY <2>3 DEF Kubes
  <2> HIDE DEF old, new, url
  <2>5. cfg \in KubeConfig /\ Closed(cfg)
    BY <1>2, <2>1, <2>3, <2>4, UpdateClosed
  <2>6. /\ c \in Context /\ c.type = o.type /\ c.endpoint = o.endpoint
        /\ c.pinniped = o.pinniped /\ c.kube = IF proc[p].stable THEN o.kube ELSE new
    BY <1>1, <1>2, <2>4 DEF Context
  <2> HIDE DEF c, cfg
  <2>7. Become(p, Held(proc[p], "updatewrite", c, cfg))
    <3>1. [proc[p] EXCEPT !.pc = "updatewrite", !.cfg = cfg, !.ctx = c]
            = Held(proc[p], "updatewrite", c, cfg)
      BY <1>1 DEF Held, ProcState
    <3> QED BY <1>5, <3>1
  <2>8. "updatewrite" \in PCs /\ PcSound("updatewrite", proc[p].kind, proc[p].name, c)
    BY <1>1, <1>2, <2>4, <2>6 DEF PcSound, Holding, PCs, Sound
  <2> QED
    BY <2>5, <2>6, <2>7, <2>8, Moving
<1> QED
  BY <1>4, <1>5 DEF updateTanzuContextKubeconfig

\* SetContext at the end of a command stores the sound context that it holds.
LEMMA SaveStep == ASSUME IInv, NEW p \in Procs, SaveContext(p) PROVE IInv'
<1>1. proc[p].ctx \in Context /\ PcSound("set", proc[p].kind, proc[p].name, proc[p].ctx)
  BY ProcFacts DEF SaveContext, At
<1>2. proc[p].name \in Names /\ Sound(proc[p].ctx)
  BY <1>1 DEF PcSound, Holding
<1>3. ctxs' \in [Names -> Context \cup {None}] /\ ContextsInv'
  BY <1>1, <1>2, Storing DEF SaveContext
<1>4. proc' \in [Procs -> ProcState] /\ ProcsInv'
  BY Returning DEF SaveContext
<1> QED
  BY <1>3, <1>4 DEF IInv, TypeOK, FilesInv, SaveContext

\* SetActiveContext takes the type of the context as it is stored now.
LEMMA ActivateStep == ASSUME IInv, NEW p \in Procs, SetActiveContext(p) PROVE IInv'
<1> DEFINE n == proc[p].name
<1>1. n \in Names
  <2>1. PcSound("activate", proc[p].kind, n, proc[p].ctx)
    BY ProcFacts DEF SetActiveContext, At
  <2> QED
    BY <2>1 DEF PcSound
<1>2. proc' \in [Procs -> ProcState] /\ ProcsInv'
  BY Returning DEF SetActiveContext
<1>3. active' \in [Types -> Names \cup {None}]
  <2>1. CASE ContextExists(n)
    <3>1. ctxs[n].type \in Types
      BY <1>1, <2>1 DEF IInv, ContextsInv, ContextExists, Context
    <3> QED
      BY <1>1, <2>1, <3>1, Activating DEF SetActiveContext
  <2>2. CASE ~ ContextExists(n)
    BY <2>2 DEF SetActiveContext, IInv, TypeOK
  <2> QED
    BY <2>1, <2>2
<1> QED
  BY <1>2, <1>3 DEF IInv, TypeOK, FilesInv, ContextsInv, SetActiveContext

\* RemoveActiveContext leaves one type without a current context.
LEMMA UnsetStep == ASSUME IInv, NEW p \in Procs, unsetGivenContext(p) PROVE IInv'
<1>1. proc' \in [Procs -> ProcState] /\ ProcsInv'
  BY Returning DEF unsetGivenContext
<1>2. active' \in [Types -> Names \cup {None}]
  BY DEF IInv, TypeOK, unsetGivenContext
<1> QED
  BY <1>1, <1>2 DEF IInv, TypeOK, FilesInv, ContextsInv, unsetGivenContext

\* deleteCtx goes on to the kubeconfig only with a context that names an entry.
LEMMA RemoveStep == ASSUME IInv, NEW p \in Procs, deleteCtx(p) PROVE IInv'
<1> DEFINE n == proc[p].name
           c == proc[p].ctx
<1>1. c \in Context /\ PcSound("remove", proc[p].kind, n, c)
  BY ProcFacts DEF deleteCtx, At
<1>2. n \in Names
  BY <1>1 DEF PcSound
<1>3. proc' \in [Procs -> ProcState] /\ ProcsInv'
  <2>1. CASE Return(p, "ok") \/ Return(p, "error")
    BY <2>1, Returning
  <2>2. CASE (c.type = "tanzu" \/ c.pinniped) /\ Goto(p, "kubedelete")
    <3> HIDE DEF c, n
    <3>1. "kubedelete" \in PCs /\ PcSound("kubedelete", proc[p].kind, n, c)
      BY <1>1, <2>2 DEF PcSound, Holding, PCs, Sound, Kubes
    <3> QED
      BY <2>2, <3>1, Going DEF c, n
  <2> QED
    BY <2>1, <2>2 DEF deleteCtx
<1>4. ctxs' \in [Names -> Context \cup {None}] /\ ContextsInv'
  <2>1. CASE ctxs' = [ctxs EXCEPT ![n] = None]
    BY <1>2, <2>1 DEF IInv, TypeOK, ContextsInv
  <2>2. CASE ctxs' = ctxs
    BY <2>2 DEF IInv, TypeOK, ContextsInv
  <2> QED
    BY <2>1, <2>2 DEF deleteCtx, LeavesConfig
<1>5. active' \in [Types -> Names \cup {None}]
  <2>1. CASE active' = [t \in Types |-> IF active[t] = n THEN None ELSE active[t]]
    BY <2>1 DEF IInv, TypeOK
  <2>2. CASE active' = active
    BY <2>2 DEF IInv, TypeOK
  <2> QED
    BY <2>1, <2>2 DEF deleteCtx, LeavesConfig
<1>6. UNCHANGED <<kfile, ops, faults>>
  BY DEF deleteCtx
<1> QED
  BY <1>3, <1>4, <1>5, <1>6 DEF IInv, TypeOK, FilesInv

\* deleteKubeconfigContext deletes the entry and, if it was current, the selection.
LEMMA KubeDeleteStep == ASSUME IInv, NEW p \in Procs, deleteKubeconfigContext(p) PROVE IInv'
<1> DEFINE c == proc[p].ctx
           cfg == DeleteContextFromKubeConfig(Loaded(c), c.kube)
<1>1. c \in Context /\ PcSound("kubedelete", proc[p].kind, proc[p].name, c) /\ proc[p] \in ProcState
  BY ProcFacts DEF deleteKubeconfigContext, At
<1>2. UNCHANGED <<ctxs, active, kfile, ops, faults>>
  BY DEF deleteKubeconfigContext, LeavesConfig
<1> SUFFICES proc' \in [Procs -> ProcState] /\ ProcsInv'
  BY <1>2, OnlyProc DEF IInv, TypeOK
<1>3. CASE Return(p, "ok")
  BY <1>3, Returning
<1>4. CASE /\ HasKube(Loaded(c), c.kube)
           /\ Become(p, [proc[p] EXCEPT !.pc = "kubedeletewrite", !.cfg = cfg])
  <2>1. cfg \in KubeConfig /\ Closed(cfg)
    <3>1. Loaded(c) \in KubeConfig /\ Closed(Loaded(c))
      BY <1>4, LoadedFacts DEF HasKube
    <3>2. c.kube \in Kubes
      BY <1>1 DEF PcSound
    <3> QED
      BY <3>1, <3>2, DeleteClosed
  <2> HIDE DEF cfg, c
  <2>2. Become(p, Held(proc[p], "kubedeletewrite", c, cfg))
    <3>1. [proc[p] EXCEPT !.pc = "kubedeletewrite", !.cfg = cfg]
            = Held(proc[p], "kubedeletewrite", c, cfg)
      BY <1>1 DEF Held, ProcState, c
    <3> QED BY <1>4, <3>1
  <2>3. "kubedeletewrite" \in PCs /\ PcSound("kubedeletewrite", proc[p].kind, proc[p].name, c)
    BY <1>1 DEF PcSound, Holding, PCs
  <2> QED
    BY <1>1, <2>1, <2>2, <2>3, Moving
<1> QED
  BY <1>3, <1>4 DEF deleteKubeconfigContext

\* An interrupted command and a failed write change no file.
LEMMA FaultSteps == ASSUME IInv, NEW p \in Procs, Crash(p) \/ Fail(p) PROVE IInv'
<1> USE ConstantsAssumption
<1>1. proc' \in [Procs -> ProcState] /\ ProcsInv'
  <2>1. Return(p, "unsaved") \/ Return(p, "error") \/ Return(p, "crashed")
    BY DEF Crash, Fail
  <2> QED
    BY <2>1, Returning
<1>2. UNCHANGED <<ctxs, active, kfile, ops>> /\ faults < MaxFaults /\ faults' = faults + 1
  BY DEF Crash, Fail, LeavesConfig
<1>3. ops' \in 0..MaxOps /\ faults' \in 0..MaxFaults
  BY <1>2 DEF IInv, TypeOK
<1> QED
  BY <1>1, <1>2, <1>3, OnlyProc

-----------------------------------------------------------------------------
\* The inductive invariant holds in every state: both files and the memory of every
\* command stay closed, and every stored context names what its type needs.
THEOREM ContextsInvariance == Spec => []IInv
<1>1. IInv /\ [Next]_vars => IInv'
  <2> SUFFICES ASSUME IInv, [Next]_vars PROVE IInv'
    OBVIOUS
  <2>1. CASE UNCHANGED vars
    BY <2>1 DEF vars, IInv, TypeOK, FilesInv, ContextsInv, ProcsInv
  <2>2. CASE Next
    <3>1. PICK p \in Procs : Begin(p) \/ Step(p) \/ Crash(p) \/ Fail(p)
      BY <2>2 DEF Next
    <3>2. CASE Begin(p)
      BY <3>2, BeginStep
    <3>3. CASE Step(p)
      BY <3>3, CheckNameStep, MetadataStep, MergeStep, WriteSteps, VersionStep, AddStep, GetStep,
         SyncStep, UpdateStep, SaveStep, ActivateStep, UnsetStep, RemoveStep, KubeDeleteStep
         DEF Step
    <3>4. CASE Crash(p) \/ Fail(p)
      BY <3>4, FaultSteps
    <3> QED
      BY <3>1, <3>2, <3>3, <3>4
  <2> QED
    BY <2>1, <2>2
<1> QED
  BY <1>1, Initially, PTL DEF Spec

\* Type correctness of the contexts, for every set of processes, names and requests.
THEOREM ContextsTyped == Spec => []TypeOK
<1>1. IInv => TypeOK
  BY DEF IInv
<1> QED
  BY <1>1, ContextsInvariance, PTL

\* The current-context of a kubeconfig names an entry of it, for any number of
\* commands that load and write the whole file without a lock, fail and crash.
THEOREM CurrentContextAlwaysExists == Spec => []CurrentContextExists
<1>1. IInv => CurrentContextExists
  BY DEF IInv, FilesInv, Closed, CurrentContextExists, HasKube
<1> QED
  BY <1>1, ContextsInvariance, PTL

-----------------------------------------------------------------------------
(***************************************************************************)
(* One command at a time: what relates the CLI configuration and the       *)
(* kubeconfig files.  With two commands none of it holds, since a command  *)
(* writes back what it read (see the README).                              *)
(***************************************************************************)

\* A cluster that the CLI makes an entry for is asked for under one name.  Otherwise
\* the deletion of one context takes the entry of another (context.go:1594).
OwnClusters ==
  \A q, r \in Requests : q.ctx.pinniped /\ r.ctx.kube = q.ctx.kube => r.name = q.name

\* A context n as a request or a login has it, and as it is once it has its kube context.
Asked(n, c) ==
  /\ c.type = "tanzu" => c.endpoint \in Orgs /\ ~ c.pinniped
  /\ c.type = "kubernetes" =>
       \E q \in Requests : /\ q.name = n /\ q.ctx.type = "kubernetes"
                           /\ q.ctx.kube = c.kube /\ q.ctx.pinniped = c.pinniped
  /\ c.type = "mission-control" => c.kube = None /\ ~ c.pinniped
Made(n, c) == Asked(n, c) /\ (c.type = "tanzu" => \E r \in Resources : c.kube = <<n, r>>)

\* The entry of c in a kubeconfig: there with its user, leading to its resource, current.
Ready(cfg, c) == HasKube(cfg, c.kube) /\ UserOf(c.kube) \in cfg.users
Leads(cfg, c) ==
  /\ Ready(cfg, c)
  /\ c.type = "tanzu" => cfg.contexts[c.kube].server = prepareClusterServerURL(c)
Chosen(cfg, c) == cfg # None /\ cfg.current = c.kube

\* Where each command can be.
KindAt(pc, kind) ==
  /\ pc \in {"check", "version"} => kind = "create"
  /\ pc \in {"metadata", "merge", "mergewrite", "add"} => kind \in {"create", "login"}
  /\ pc \in {"sync", "syncwrite"} => kind \in {"create", "login", "use"}
  /\ pc \in {"update", "updatewrite"} => kind \in {"login", "resource"}
  /\ pc = "set" => kind \in {"login", "resource", "token"}
  /\ pc = "activate" => kind = "use"
  /\ pc = "unset" => kind = "unset"
  /\ pc \in {"remove", "kubedelete", "kubedeletewrite"} => kind = "delete"

Origins(s) ==
  /\ KindAt(s.pc, s.kind)
  /\ s.kind = "login" => s.name \in Names
  /\ s.pc \in {"check", "metadata", "merge"} => Asked(s.name, s.ctx)
  /\ s.pc \in Holding => Made(s.name, s.ctx)

\* The kubeconfig in memory is the file with one change.
Snapshot(s) ==
  LET c   == s.ctx
      k   == ctxs[s.name].kube
      cfg == Loaded(c)
  IN /\ s.pc = "mergewrite" =>
          \E e \in Cluster :
            /\ c.type = "tanzu" => c.kube = <<s.name, Org>> /\ e.server = <<c.endpoint, Org>>
            /\ s.cfg = MergeKubeConfigWithoutSwitchContext(cfg, c.kube, e)
     /\ s.pc = "syncwrite" => HasKube(cfg, c.kube) /\ s.cfg = SetCurrentContext(cfg, c.kube)
     /\ s.pc = "updatewrite" =>
          /\ HasKube(cfg, k)
          /\ \/ c.kube = k /\ s.cfg = updateContextInPlace(cfg, k, prepareClusterServerURL(c))
             \/ s.cfg = updateContextWithNewName(cfg, k, c.kube, prepareClusterServerURL(c))
     /\ s.pc = "kubedeletewrite" =>
          HasKube(cfg, c.kube) /\ s.cfg = DeleteContextFromKubeConfig(cfg, c.kube)

\* The context in memory and the one in the CLI configuration, d.
Making == {"merge", "mergewrite", "version", "add"}
Saved == {"sync", "syncwrite", "update", "updatewrite", "set", "activate", "remove"}
Matches(s, d) ==
  /\ s.kind = "create" /\ s.pc \in Making \cup {"metadata"} => d = None
  /\ s.kind = "create" /\ s.pc \in Making \cup {"check", "metadata"} => s.ctx.res = None
  /\ s.kind = "login" /\ s.pc = "add" => s.ctx.kube = <<s.name, Org>>
  /\ s.pc \in {"kubedelete", "kubedeletewrite"} => d = None
  /\ s.pc \in Saved => d # None /\ d.type = s.ctx.type
  /\ s.pc \in {"sync", "syncwrite", "update", "activate", "remove"} => d.kube = s.ctx.kube
  /\ s.pc \in Making \cup Saved => (d # None /\ s.ctx.res = None => d.res = None)
  /\ s.pc \in {"update", "updatewrite", "set"} => s.ctx.type = "tanzu"
  /\ s.pc \in {"mergewrite", "kubedelete", "kubedeletewrite"} =>
       s.ctx.type = "tanzu" \/ s.ctx.pinniped
  /\ s.pc \in {"syncwrite", "kubedeletewrite"} => s.ctx.kube \in Kubes
  /\ s.pc = "version" => s.ctx.type = "kubernetes"

\* What a login has achieved so far in the CLI's own kubeconfig.
Repairs(s) ==
  LET n   == s.name
      d   == ctxs[n]
      cfg == kfile["tanzu"]
  IN s.kind = "login" =>
     /\ s.pc = "add" => HasKube(cfg, s.ctx.kube) /\ n \in cfg.users
     /\ s.pc \in {"sync", "syncwrite", "update", "updatewrite"} =>
          HasKube(cfg, d.kube) /\ n \in cfg.users
     /\ s.pc \in {"update", "updatewrite"} => SkipSync \/ cfg.current = d.kube
     /\ s.pc = "set" => Leads(cfg, s.ctx) /\ (SkipSync \/ cfg.current = s.ctx.kube)
     /\ s.pc = "idle" /\ s.result = "ok" =>
          /\ d # None /\ Leads(Loaded(d), d)
          /\ SkipSync \/ Loaded(d).current = d.kube

\* Entries of clusters have their user; active contexts are known.
UserEntries == \A k \in Clusters : HasKube(kfile["user"], k) => k \in kfile["user"].users
Kubed == {"kubernetes", "tanzu"}
ActiveKnown == \A t \in Kubed : active[t] # None => /\ ctxs[active[t]] # None
                                                    /\ ctxs[active[t]].type = t
StoredMade == \A n \in Names : ctxs[n] # None => Made(n, ctxs[n])

\* Without faults, only the context of the running command may be half changed.  An
\* entry for a whole organization always belongs to the context of its name, so that
\* a new context of the name never meets an old one.
Heir(s, m) ==
  IF m = s.name /\ s.pc \in {"add", "set", "kubedelete", "kubedeletewrite"} THEN s.ctx ELSE ctxs[m]
OrgEntries(s) ==
  \A m \in Names : HasKube(kfile["tanzu"], <<m, Org>>) =>
    Heir(s, m) # None /\ Heir(s, m).type = "tanzu" /\ Heir(s, m).kube = <<m, Org>>

Unsettled(s) ==
  \/ s.kind = "login" /\ s.pc \in {"sync", "syncwrite", "update", "updatewrite"}
  \/ s.pc = "set"
AllLead(s) ==
  /\ \A m \in Names : ctxs[m] # None /\ ctxs[m].kube # None /\ ~ (m = s.name /\ Unsettled(s)) =>
       Leads(Loaded(ctxs[m]), ctxs[m])
  /\ s.pc = "set" \/ (s.pc = "add" /\ s.kind = "create" /\ s.ctx.kube # None) =>
       Leads(Loaded(s.ctx), s.ctx)

Awaited(s) == s.pc \in {"sync", "syncwrite"} /\ s.kind # "use"
Switched(s) == s.pc = "activate" /\ s.ctx.kube # None
AllChosen(s) ==
  ~ SkipSync =>
    /\ \A t \in Kubed : active[t] # None /\ ~ Switched(s) =>
         IF active[t] = s.name /\ (s.pc = "set" \/ Awaited(s))
         THEN s.pc = "set" => Chosen(Loaded(s.ctx), s.ctx)
         ELSE Chosen(Loaded(ctxs[active[t]]), ctxs[active[t]])
    /\ Switched(s) => Chosen(Loaded(s.ctx), s.ctx)
    /\ Awaited(s) => \A t \in Kubed : active[t] \in {s.name, None}

Calm(s) == faults = 0 => OrgEntries(s) /\ AllLead(s) /\ AllChosen(s)

\* The inductive invariant of one process, beside IInv.
Agreed(s) ==
  /\ Origins(s) /\ Snapshot(s) /\ Matches(s, ctxs[s.name]) /\ Repairs(s)
  /\ UserEntries /\ ActiveKnown /\ StoredMade /\ Calm(s)

\* What a command that returns, or goes on, is then.
LEMMA ReturnFields ==
  ASSUME IInv, NEW p \in Procs, NEW r, Return(p, r)
  PROVE  /\ proc'[p].pc = "idle" /\ proc'[p].kind = proc[p].kind /\ proc'[p].name = proc[p].name
         /\ proc'[p].result = r /\ proc'[p].ctx = NoContext
<1>1. proc \in [Procs -> ProcState] /\ proc[p] \in ProcState
  BY DEF IInv, TypeOK
<1>2. proc'[p] = Ended(proc[p], r)
  BY <1>1 DEF Return, Become
<1> QED
  BY <1>1, <1>2 DEF Ended, ProcState

LEMMA HeldFields ==
  ASSUME IInv, NEW p \in Procs, NEW pc \in PCs, NEW c \in Context,
         NEW cfg \in KubeConfig \cup {None}, Become(p, Held(proc[p], pc, c, cfg))
  PROVE  /\ proc'[p].pc = pc /\ proc'[p].kind = proc[p].kind /\ proc'[p].name = proc[p].name
         /\ proc'[p].ctx = c /\ proc'[p].cfg = cfg
<1>1. proc \in [Procs -> ProcState] /\ proc[p] \in ProcState
  BY DEF IInv, TypeOK
<1>2. proc'[p] = Held(proc[p], pc, c, cfg)
  BY <1>1 DEF Become
<1> QED
  BY <1>1, <1>2 DEF Held, ProcState

LEMMA GotoFields ==
  ASSUME IInv, NEW p \in Procs, NEW pc, Goto(p, pc)
  PROVE  /\ proc'[p].pc = pc /\ proc'[p].kind = proc[p].kind /\ proc'[p].name = proc[p].name
         /\ proc'[p].ctx = proc[p].ctx /\ proc'[p].cfg = proc[p].cfg
<1>1. proc \in [Procs -> ProcState] /\ proc[p] \in ProcState
  BY DEF IInv, TypeOK
<1>2. proc'[p] = [proc[p] EXCEPT !.pc = pc]
  BY <1>1 DEF Goto, Become
<1> QED
  BY <1>1, <1>2 DEF ProcState

\* A command that ends leaves a state that says nothing of its memory.
LEMMA IdleSays ==
  ASSUME NEW p, proc'[p].pc = "idle", proc'[p].kind = "login" => proc'[p].name \in Names
  PROVE  Origins(proc[p])' /\ Snapshot(proc[p])' /\ Matches(proc[p], ctxs[proc[p].name])'
<1>1. Origins(proc[p])'
  BY DEF Origins, KindAt, Holding
<1>2. Snapshot(proc[p])'
  BY DEF Snapshot
<1>3. Matches(proc[p], ctxs[proc[p].name])'
  BY DEF Matches, Making, Saved
<1> QED
  BY <1>1, <1>2, <1>3

\* The files as they are agree when the command had nothing pending, or after a fault.
LEMMA EndsAgreed ==
  ASSUME IInv, NEW p \in Procs, Agreed(proc[p]), NEW r, Return(p, r),
         UNCHANGED <<ctxs, active, kfile>>, proc[p].kind = "login" => r # "ok",
         \/ faults' # 0
         \/ /\ faults' = faults /\ ~ Awaited(proc[p]) /\ ~ Unsettled(proc[p])
            /\ proc[p].pc # "activate"
            /\ \/ proc[p].pc \notin {"add", "kubedelete", "kubedeletewrite"}
               \/ proc[p].pc = "kubedelete" /\ ~ HasKube(Loaded(proc[p].ctx), proc[p].ctx.kube)
  PROVE  Agreed(proc[p])'
<1> DEFINE s == proc[p]
<1>1. /\ proc'[p].pc = "idle" /\ proc'[p].kind = s.kind /\ proc'[p].name = s.name
      /\ proc'[p].result = r
  BY ReturnFields
<1>2. /\ Origins(s) /\ Repairs(s) /\ UserEntries /\ ActiveKnown /\ StoredMade /\ Calm(s)
      /\ Matches(s, ctxs[s.name])
  BY DEF Agreed
<1>3. Origins(proc[p])' /\ Snapshot(proc[p])' /\ Matches(proc[p], ctxs[proc[p].name])'
  <2>1. proc'[p].kind = "login" => proc'[p].name \in Names
    BY <1>1, <1>2 DEF Origins
  <2> QED
    BY <1>1, <2>1, IdleSays
<1>4. Repairs(proc[p])'
  BY <1>1 DEF Repairs
<1>5. UserEntries' /\ ActiveKnown' /\ StoredMade'
  BY <1>2 DEF UserEntries, ActiveKnown, StoredMade, HasKube
<1>6. ASSUME faults' = 0 PROVE OrgEntries(proc[p])' /\ AllLead(proc[p])' /\ AllChosen(proc[p])'
  <2>1. OrgEntries(s) /\ AllLead(s) /\ AllChosen(s)
    BY <1>2, <1>6 DEF Calm
  <2>2. OrgEntries(proc[p])'
    <3> SUFFICES ASSUME NEW m \in Names, HasKube(kfile["tanzu"], <<m, Org>>)
                 PROVE  ctxs[m] # None /\ ctxs[m].type = "tanzu" /\ ctxs[m].kube = <<m, Org>>
      BY <1>1 DEF OrgEntries, Heir
    <3>1. Heir(s, m) # None /\ Heir(s, m).type = "tanzu" /\ Heir(s, m).kube = <<m, Org>>
      BY <2>1 DEF OrgEntries
    <3>2. CASE s.pc \notin {"add", "kubedelete", "kubedeletewrite"}
      <4>1. s.pc # "set"
        BY <1>6 DEF Unsettled
      <4> QED
        BY <3>1, <3>2, <4>1 DEF Heir
    <3>3. CASE s.pc = "kubedelete" /\ ~ HasKube(Loaded(s.ctx), s.ctx.kube)
      BY <3>1, <3>3 DEF Heir, Loaded, FileOf
    <3> QED
      BY <1>6, <3>2, <3>3
  <2>3. AllLead(proc[p])'
    BY <1>1, <1>6, <2>1 DEF AllLead, Unsettled, Leads, Ready, HasKube, Loaded, FileOf
  <2>4. AllChosen(proc[p])'
    BY <1>1, <1>6, <2>1 DEF AllChosen, Awaited, Switched, Unsettled, Chosen, Loaded, FileOf
  <2> QED
    BY <2>2, <2>3, <2>4
<1> QED
  BY <1>3, <1>4, <1>5, <1>6 DEF Agreed, Calm

\* A command that has nothing pending in the files.
Plain(s) ==
  /\ s.pc \notin {"add", "activate", "kubedelete", "kubedeletewrite"}
  /\ ~ Awaited(s) /\ ~ Unsettled(s)

\* Steps in memory keep what is said of the files.
LEMMA FilesStay ==
  ASSUME UserEntries, ActiveKnown, StoredMade, UNCHANGED <<ctxs, active, kfile>>
  PROVE  UserEntries' /\ ActiveKnown' /\ StoredMade'
  BY DEF UserEntries, ActiveKnown, StoredMade, HasKube

LEMMA PlainCalm ==
  ASSUME NEW p, Calm(proc[p]), Plain(proc[p]), Plain(proc[p])',
         UNCHANGED <<ctxs, active, kfile, faults>>
  PROVE  Calm(proc[p])'
<1> SUFFICES ASSUME faults = 0
             PROVE  OrgEntries(proc[p])' /\ AllLead(proc[p])' /\ AllChosen(proc[p])'
  BY DEF Calm
<1>1. OrgEntries(proc[p]) /\ AllLead(proc[p]) /\ AllChosen(proc[p])
  BY DEF Calm
<1>2. OrgEntries(proc[p])'
  BY <1>1 DEF OrgEntries, Heir, HasKube, Plain, Unsettled
<1>3. AllLead(proc[p])'
  BY <1>1 DEF AllLead, Plain, Unsettled, Leads, Ready, HasKube, Loaded, FileOf
<1>4. AllChosen(proc[p])'
  BY <1>1 DEF AllChosen, Plain, Awaited, Switched, Unsettled, Chosen, Loaded, FileOf
<1> QED
  BY <1>2, <1>3, <1>4

LEMMA SameCalm ==
  ASSUME NEW p, Calm(proc[p]), UNCHANGED <<ctxs, active, kfile, faults>>,
         proc'[p].name = proc[p].name, proc'[p].kind = proc[p].kind,
         \/ proc[p].pc = "sync" /\ proc'[p].pc = "syncwrite"
         \/ proc[p].pc = "update" /\ proc'[p].pc = "updatewrite"
         \/ proc[p].pc = "kubedelete" /\ proc'[p].pc = "kubedeletewrite" /\ proc'[p].ctx = proc[p].ctx
  PROVE  Calm(proc[p])'
<1> SUFFICES ASSUME faults = 0
             PROVE  OrgEntries(proc[p])' /\ AllLead(proc[p])' /\ AllChosen(proc[p])'
  BY DEF Calm
<1>1. OrgEntries(proc[p]) /\ AllLead(proc[p]) /\ AllChosen(proc[p])
  BY DEF Calm
<1>2. OrgEntries(proc[p])'
  BY <1>1 DEF OrgEntries, Heir, HasKube
<1>3. AllLead(proc[p])'
  BY <1>1 DEF AllLead, Unsettled, Leads, Ready, HasKube, Loaded, FileOf
<1>4. AllChosen(proc[p])'
  BY <1>1 DEF AllChosen, Awaited, Switched, Chosen, Loaded, FileOf
<1> QED
  BY <1>2, <1>3, <1>4

\* context create: the name is free, and stays so while nobody else acts.
LEMMA CheckAgreed ==
  ASSUME IInv, NEW p \in Procs, Agreed(proc[p]), CheckName(p) PROVE Agreed(proc[p])'
<1> DEFINE s == proc[p]
<1>1. /\ UNCHANGED <<ctxs, active, kfile, faults>> /\ s.pc = "check"
  BY DEF CheckName, At, LeavesConfig
<1>2. /\ Origins(s) /\ UserEntries /\ ActiveKnown /\ StoredMade /\ Calm(s)
      /\ Matches(s, ctxs[s.name]) /\ s.kind = "create"
  BY <1>1 DEF Agreed, Origins, KindAt
<1>3. CASE Return(p, "error")
  BY <1>1, <1>2, <1>3, EndsAgreed DEF Awaited, Unsettled
<1>4. CASE ~ ContextExists(s.name) /\ Goto(p, AfterCheck(s.ctx))
  <2> DEFINE next == AfterCheck(s.ctx)
  <2>1. /\ proc'[p].pc = next /\ proc'[p].kind = s.kind /\ proc'[p].name = s.name
        /\ proc'[p].ctx = s.ctx
    BY <1>4, GotoFields
  <2>2. s.ctx \in Context /\ PcSound("check", s.kind, s.name, s.ctx)
    BY <1>1, ProcFacts
  <2>3. /\ s.ctx.type = "tanzu" => next = "metadata"
        /\ s.ctx.type = "kubernetes" => next \in {"merge", "version"}
        /\ s.ctx.type = "mission-control" => next = "add"
    BY <2>2 DEF AfterCheck, Context, Types
  <2>4. s.ctx.type \in {"tanzu", "kubernetes", "mission-control"} /\ s.ctx.res = None
        /\ Asked(s.name, s.ctx)
    BY <1>1, <1>2, <2>2 DEF Context, Types, Matches, Origins, Making
  <2> HIDE DEF next
  <2>5. Origins(proc[p])'
    <3>1. next # "metadata" => Made(s.name, s.ctx)
      BY <2>3, <2>4 DEF Made
    <3> QED
      BY <1>2, <2>1, <2>3, <2>4, <3>1 DEF Origins, KindAt, Holding
  <2>6. Snapshot(proc[p])'
    BY <2>1, <2>3, <2>4 DEF Snapshot
  <2>7. Matches(proc[p], ctxs[proc[p].name])'
    BY <1>1, <1>2, <1>4, <2>1, <2>3, <2>4 DEF Matches, Making, Saved, ContextExists
  <2>8. Repairs(proc[p])'
    BY <1>2, <2>1 DEF Repairs
  <2>9. Calm(proc[p])'
    <3>1. CASE next # "add"
      BY <1>1, <1>2, <2>1, <2>3, <2>4, <3>1, PlainCalm DEF Plain, Awaited, Unsettled
    <3>2. CASE next = "add"
      <4>1. s.ctx.kube = None
        BY <2>3, <2>4, <3>2 DEF Asked
      <4> SUFFICES ASSUME faults = 0
                   PROVE  OrgEntries(proc[p])' /\ AllLead(proc[p])' /\ AllChosen(proc[p])'
        BY <1>1 DEF Calm
      <4>2. OrgEntries(s) /\ AllLead(s) /\ AllChosen(s)
        BY <1>2 DEF Calm
      <4>3. OrgEntries(proc[p])'
        BY <1>1, <1>4, <2>1, <3>2, <4>2 DEF OrgEntries, Heir, HasKube, ContextExists
      <4>4. AllLead(proc[p])'
        BY <1>1, <1>2, <2>1, <3>2, <4>1, <4>2 DEF AllLead, Unsettled, Leads, Ready, HasKube, Loaded, FileOf
      <4>5. AllChosen(proc[p])'
        BY <1>1, <1>2, <2>1, <3>2, <4>1, <4>2 DEF AllChosen, Awaited, Switched, Chosen, Loaded, FileOf
      <4> QED
        BY <4>3, <4>4, <4>5
    <3> QED
      BY <3>1, <3>2
  <2> QED
    BY <1>1, <1>2, <2>5, <2>6, <2>7, <2>8, <2>9, FilesStay DEF Agreed
<1> QED
  BY <1>3, <1>4 DEF CheckName

\* updateTanzuContextMetadata: the login holds the resource that is stored.
LEMMA MetadataAgreed ==
  ASSUME IInv, NEW p \in Procs, Agreed(proc[p]), updateTanzuContextMetadata(p)
  PROVE  Agreed(proc[p])'
<1> DEFINE s == proc[p]
           n == s.name
           c == [s.ctx EXCEPT !.res = IF ContextExists(n) THEN ctxs[n].res ELSE None]
<1>1. /\ UNCHANGED <<ctxs, active, kfile, faults>> /\ s.pc = "metadata"
      /\ Become(p, [s EXCEPT !.pc = "merge", !.ctx = c])
  BY DEF updateTanzuContextMetadata, At, LeavesConfig
<1>2. /\ Origins(s) /\ UserEntries /\ ActiveKnown /\ StoredMade /\ Calm(s)
      /\ Matches(s, ctxs[s.name]) /\ s.kind \in {"create", "login"}
  BY <1>1 DEF Agreed, Origins, KindAt
<1>3. s \in ProcState /\ s.ctx \in Context /\ PcSound("metadata", s.kind, n, s.ctx)
  BY <1>1, ProcFacts
<1>4. /\ c.type = s.ctx.type /\ c.endpoint = s.ctx.endpoint /\ c.kube = s.ctx.kube
      /\ c.pinniped = s.ctx.pinniped /\ c.res = IF ContextExists(n) THEN ctxs[n].res ELSE None
      /\ c \in Context
  <2>1. n \in Names
    BY <1>3 DEF PcSound
  <2>2. ContextExists(n) => ctxs[n].res \in Resources \cup {None}
    BY <2>1 DEF IInv, ContextsInv, ContextExists, Context
  <2> QED
    BY <1>3, <2>2 DEF Context
<1> HIDE DEF c
<1>5. /\ proc'[p].pc = "merge" /\ proc'[p].kind = s.kind /\ proc'[p].name = n
      /\ proc'[p].ctx = c
  <2>1. Become(p, Held(s, "merge", c, s.cfg))
    BY <1>1, <1>3, HeldForms
  <2>2. "merge" \in PCs /\ c \in Context /\ s.cfg \in KubeConfig \cup {None}
    BY <1>3, <1>4, ProcFacts DEF PCs
  <2> QED
    BY <2>1, <2>2, HeldFields
<1>6. Origins(proc[p])'
  <2>1. Asked(n, c)
    BY <1>1, <1>2, <1>4 DEF Origins, Asked
  <2> QED
    BY <1>2, <1>5, <2>1 DEF Origins, KindAt, Holding
<1>7. Snapshot(proc[p])'
  BY <1>5 DEF Snapshot
<1>8. Matches(proc[p], ctxs[proc[p].name])'
  <2>1. s.kind = "create" => ctxs[n] = None
    BY <1>1, <1>2 DEF Matches, Making
  <2> QED
    BY <1>1, <1>2, <1>4, <1>5, <2>1 DEF Matches, Making, Saved, ContextExists
<1>9. Repairs(proc[p])'
  BY <1>5 DEF Repairs
<1>10. Calm(proc[p])'
  BY <1>1, <1>2, <1>5, PlainCalm DEF Plain, Awaited, Unsettled
<1> QED
  BY <1>1, <1>2, <1>6, <1>7, <1>8, <1>9, <1>10, FilesStay DEF Agreed

\* The kubeconfig with the new entry is the file with the entry merged.
LEMMA MergeAgreed ==
  ASSUME IInv, NEW p \in Procs, Agreed(proc[p]), MergeKube(p) PROVE Agreed(proc[p])'
<1> DEFINE s == proc[p]
           n == s.name
           k == NewKube(p)
           e == NewCluster(p)
           cfg == MergeKubeConfigWithoutSwitchContext(Loaded(s.ctx), k, e)
           c == [s.ctx EXCEPT !.kube = k]
<1>1. /\ UNCHANGED <<ctxs, active, kfile, faults>> /\ s.pc = "merge"
      /\ Become(p, [s EXCEPT !.pc = "mergewrite", !.cfg = cfg, !.ctx = c])
  BY DEF MergeKube, At, LeavesConfig
<1>2. /\ Origins(s) /\ UserEntries /\ ActiveKnown /\ StoredMade /\ Calm(s)
      /\ Matches(s, ctxs[s.name]) /\ s.kind \in {"create", "login"}
  BY <1>1 DEF Agreed, Origins, KindAt
<1>3. s \in ProcState /\ s.ctx \in Context /\ PcSound("merge", s.kind, n, s.ctx)
      /\ proc \in [Procs -> ProcState] /\ Asked(n, s.ctx)
  BY <1>1, <1>2, ProcFacts DEF IInv, TypeOK, Origins
<1>4. /\ k \in Kubes /\ e \in Cluster
      /\ s.ctx.type = "tanzu" => k = <<n, Org>> /\ e.server = <<s.ctx.endpoint, Org>>
      /\ s.ctx.type # "tanzu" => k = s.ctx.kube
  <2>1. k \in Kubes /\ e \in Cluster
    BY <1>3, NewEntry
  <2>2. s.ctx.type = "tanzu" <=> ~ s.ctx.pinniped
    BY <1>3 DEF PcSound
  <2> QED
    BY <2>1, <2>2 DEF NewKube, NewCluster
<1> HIDE DEF k, e
<1>5. /\ c.type = s.ctx.type /\ c.endpoint = s.ctx.endpoint /\ c.kube = k
      /\ c.pinniped = s.ctx.pinniped /\ c.res = s.ctx.res
  BY <1>3 DEF Context
<1> HIDE DEF c, cfg
<1>6. /\ proc'[p].pc = "mergewrite" /\ proc'[p].kind = s.kind /\ proc'[p].name = n
      /\ proc'[p].ctx = c /\ proc'[p].cfg = cfg
  <2>1. proc'[p] = [s EXCEPT !.pc = "mergewrite", !.cfg = cfg, !.ctx = c]
    BY <1>1, <1>3 DEF Become
  <2> QED
    BY <1>3, <2>1 DEF ProcState
<1>7. Origins(proc[p])'
  <2>1. Made(n, c)
    <3>1. Asked(n, c)
      BY <1>3, <1>4, <1>5 DEF Asked
    <3>2. Org \in Resources
      BY ConstantsAssumption
    <3> QED
      BY <1>4, <1>5, <3>1, <3>2 DEF Made
  <2> QED
    BY <1>2, <1>6, <2>1 DEF Origins, KindAt, Holding
<1>8. Snapshot(proc[p])'
  <2>1. Loaded(c) = Loaded(s.ctx) /\ UNCHANGED kfile
    BY <1>1, <1>5 DEF Loaded, FileOf
  <2>2. cfg = MergeKubeConfigWithoutSwitchContext(Loaded(c), k, e)
    BY <2>1 DEF cfg
  <2>3. Loaded(proc[p].ctx)' = Loaded(c)
    BY <1>6, <2>1 DEF Loaded, FileOf
  <2> QED
    BY <1>4, <1>5, <1>6, <2>2, <2>3 DEF Snapshot
<1>9. Matches(proc[p], ctxs[proc[p].name])'
  <2>1. c.type = "tanzu" \/ c.pinniped
    BY <1>3, <1>5 DEF PcSound
  <2> QED
    BY <1>1, <1>2, <1>5, <1>6, <2>1 DEF Matches, Making, Saved
<1>10. Repairs(proc[p])'
  BY <1>6 DEF Repairs
<1>11. Calm(proc[p])'
  BY <1>1, <1>2, <1>6, PlainCalm DEF Plain, Awaited, Unsettled
<1> QED
  BY <1>1, <1>2, <1>7, <1>8, <1>9, <1>10, <1>11, FilesStay DEF Agreed

\* GetServerKubernetesVersion found the entry of the context, which has its user.
LEMMA VersionAgreed ==
  ASSUME IInv, NEW p \in Procs, Agreed(proc[p]), GetServerKubernetesVersion(p)
  PROVE  Agreed(proc[p])'
<1> DEFINE s == proc[p]
           c == s.ctx
<1>1. /\ UNCHANGED <<ctxs, active, kfile, faults>> /\ s.pc = "version"
  BY DEF GetServerKubernetesVersion, At, LeavesConfig
<1>2. /\ Origins(s) /\ UserEntries /\ ActiveKnown /\ StoredMade /\ Calm(s)
      /\ Matches(s, ctxs[s.name]) /\ s.kind = "create"
  BY <1>1 DEF Agreed, Origins, KindAt
<1>3. CASE Return(p, "error")
  BY <1>1, <1>2, <1>3, EndsAgreed DEF Awaited, Unsettled
<1>4. CASE HasKube(Loaded(c), c.kube) /\ Goto(p, "add")
  <2>1. /\ proc'[p].pc = "add" /\ proc'[p].kind = s.kind /\ proc'[p].name = s.name
        /\ proc'[p].ctx = c
    BY <1>4, GotoFields
  <2>2. Made(s.name, c) /\ ctxs[s.name] = None /\ c.res = None
    BY <1>1, <1>2 DEF Origins, Holding, Matches, Making
  <2>3. Origins(proc[p])'
    BY <1>2, <2>1, <2>2 DEF Origins, KindAt, Holding
  <2>4. Snapshot(proc[p])'
    BY <2>1 DEF Snapshot
  <2>5. Matches(proc[p], ctxs[proc[p].name])'
    BY <1>1, <1>2, <2>1, <2>2 DEF Matches, Making, Saved
  <2>6. Repairs(proc[p])'
    BY <1>2, <2>1 DEF Repairs
  <2>7. Calm(proc[p])'
    <3> SUFFICES ASSUME faults = 0
                 PROVE  OrgEntries(proc[p])' /\ AllLead(proc[p])' /\ AllChosen(proc[p])'
      BY <1>1 DEF Calm
    <3>1. OrgEntries(s) /\ AllLead(s) /\ AllChosen(s)
      BY <1>2 DEF Calm
    <3>2. OrgEntries(proc[p])'
      BY <1>1, <2>1, <2>2, <3>1 DEF OrgEntries, Heir, HasKube
    <3>3. Leads(Loaded(c), c)
      <4>1. c.type = "kubernetes" /\ c.kube \in Clusters
        <5>1. c.type = "kubernetes"
          BY <1>1, <1>2 DEF Matches
        <5> QED
          BY <2>2, <5>1, RequestsAssumption DEF Made, Asked
      <4>2. UserOf(c.kube) = c.kube /\ Loaded(c) = kfile["user"]
        BY <4>1 DEF UserOf, Loaded, FileOf
      <4> QED
        BY <1>2, <1>4, <4>1, <4>2 DEF UserEntries, Leads, Ready
    <3>4. AllLead(proc[p])'
      BY <1>1, <1>2, <2>1, <3>1, <3>3 DEF AllLead, Unsettled, Leads, Ready, HasKube, Loaded, FileOf
    <3>5. AllChosen(proc[p])'
      BY <1>1, <1>2, <2>1, <3>1 DEF AllChosen, Awaited, Switched, Chosen, Loaded, FileOf
    <3> QED
      BY <3>2, <3>4, <3>5
  <2> QED
    BY <1>1, <1>2, <2>3, <2>4, <2>5, <2>6, <2>7, FilesStay DEF Agreed
<1> QED
  BY <1>3, <1>4 DEF GetServerKubernetesVersion

\* A kube context of the CLI is a name.
LEMMA MadeKube ==
  ASSUME NEW n \in Names, NEW c, Made(n, c), c.type = "tanzu"
  PROVE  c.kube \in Kubes /\ c.kube # None /\ UserOf(c.kube) = n /\ FileOf(c) = "tanzu"
<1>1. PICK r \in Resources : c.kube = <<n, r>>
  BY DEF Made
<1>2. c.kube \in Names \X Resources /\ c.kube[1] = n
  BY <1>1
<1>3. c.kube \in Kubes /\ c.kube \notin Clusters
  BY <1>2, ConstantsAssumption DEF Kubes
<1> QED
  BY <1>2, <1>3, ConstantsAssumption DEF UserOf, FileOf

\* config.GetContext: the command holds the context that is stored.
LEMMA GetAgreed ==
  ASSUME IInv, NEW p \in Procs, Agreed(proc[p]), GetContext(p) PROVE Agreed(proc[p])'
<1> DEFINE s == proc[p]
           n == s.name
           c == ctxs[n]
<1>1. /\ UNCHANGED <<ctxs, active, kfile, faults>> /\ s.pc = "get"
  BY DEF GetContext, At, LeavesConfig
<1>2. /\ Origins(s) /\ UserEntries /\ ActiveKnown /\ StoredMade /\ Calm(s)
  BY DEF Agreed
<1>3. s \in ProcState /\ proc \in [Procs -> ProcState] /\ n \in Names
  <2>1. PcSound("get", s.kind, n, s.ctx)
    BY <1>1, ProcFacts
  <2> QED
    BY <2>1, ProcFacts DEF PcSound, IInv, TypeOK
<1>4. ContextExists(n) => c # None /\ c \in Context /\ Made(n, c)
  BY <1>2, <1>3 DEF ContextExists, StoredMade, IInv, ContextsInv
<1>5. CASE Return(p, "error") \/ (s.kind = "token" /\ Return(p, "ok"))
  BY <1>1, <1>5, EndsAgreed DEF Awaited, Unsettled
<1>6. CASE /\ ContextExists(n) /\ s.kind = "use"
           /\ Become(p, [s EXCEPT !.ctx = c, !.pc = IF NeedsSync(c) THEN "sync" ELSE "activate"])
  <2> DEFINE pc == IF NeedsSync(c) THEN "sync" ELSE "activate"
  <2>1. pc = "sync" \/ (pc = "activate" /\ (c.kube = None \/ SkipSync))
    BY ConstantsAssumption DEF NeedsSync
  <2> HIDE DEF pc, c
  <2>2. proc'[p] = [s EXCEPT !.ctx = c, !.pc = pc]
    BY <1>3, <1>6 DEF Become, pc
  <2>3. /\ proc'[p].pc = pc /\ proc'[p].kind = s.kind /\ proc'[p].name = n /\ proc'[p].ctx = c
    BY <1>3, <2>2 DEF ProcState
  <2>4. Origins(proc[p])'
    BY <1>3, <1>4, <1>6, <2>1, <2>3 DEF Origins, KindAt, Holding
  <2>5. Snapshot(proc[p])'
    BY <2>1, <2>3 DEF Snapshot
  <2>6. Matches(proc[p], ctxs[proc[p].name])'
    <3>1. ctxs'[proc'[p].name] = c
      BY <1>1, <2>3 DEF c
    <3> QED
      BY <1>4, <1>6, <2>1, <2>3, <3>1 DEF Matches, Making, Saved
  <2>7. Repairs(proc[p])'
    BY <1>6, <2>3 DEF Repairs
  <2>8. Calm(proc[p])'
    <3>1. CASE pc = "sync"
      BY <1>1, <1>2, <1>6, <2>3, <3>1, PlainCalm DEF Plain, Awaited, Unsettled
    <3>2. CASE pc = "activate"
      <4> SUFFICES ASSUME faults = 0
                   PROVE  OrgEntries(proc[p])' /\ AllLead(proc[p])' /\ AllChosen(proc[p])'
        BY <1>1 DEF Calm
      <4>1. OrgEntries(s) /\ AllLead(s) /\ AllChosen(s)
        BY <1>2 DEF Calm
      <4>2. OrgEntries(proc[p])'
        BY <1>1, <2>3, <3>2, <4>1 DEF OrgEntries, Heir, HasKube
      <4>3. AllLead(proc[p])'
        BY <1>1, <1>6, <2>3, <3>2, <4>1 DEF AllLead, Unsettled, Leads, Ready, HasKube, Loaded, FileOf
      <4>4. AllChosen(proc[p])'
        BY <1>1, <1>6, <2>1, <2>3, <3>2, <4>1 DEF AllChosen, Awaited, Switched, Chosen, Loaded, FileOf
      <4> QED
        BY <4>2, <4>3, <4>4
    <3> QED
      BY <2>1, <3>1, <3>2
  <2> QED
    BY <1>1, <1>2, <2>4, <2>5, <2>6, <2>7, <2>8, FilesStay DEF Agreed
<1>7. CASE ContextExists(n) /\ s.kind = "delete" /\ Become(p, [s EXCEPT !.ctx = c, !.pc = "remove"])
  <2> HIDE DEF c
  <2>2. proc'[p] = [s EXCEPT !.ctx = c, !.pc = "remove"]
    BY <1>3, <1>7 DEF Become
  <2>3. /\ proc'[p].pc = "remove" /\ proc'[p].kind = s.kind /\ proc'[p].name = n /\ proc'[p].ctx = c
    BY <1>3, <2>2 DEF ProcState
  <2>4. Origins(proc[p])'
    BY <1>3, <1>4, <1>7, <2>3 DEF Origins, KindAt, Holding
  <2>5. Snapshot(proc[p])'
    BY <2>3 DEF Snapshot
  <2>6. Matches(proc[p], ctxs[proc[p].name])'
    <3>1. ctxs'[proc'[p].name] = c
      BY <1>1, <2>3 DEF c
    <3> QED
      BY <1>4, <1>7, <2>3, <3>1 DEF Matches, Making, Saved
  <2>7. Repairs(proc[p])'
    BY <1>7, <2>3 DEF Repairs
  <2>8. Calm(proc[p])'
    BY <1>1, <1>2, <1>7, <2>3, PlainCalm DEF Plain, Awaited, Unsettled
  <2> QED
    BY <1>1, <1>2, <2>4, <2>5, <2>6, <2>7, <2>8, FilesStay DEF Agreed
<1>8. CASE /\ ContextExists(n) /\ s.kind = "resource" /\ c.type = "tanzu"
           /\ Become(p, [s EXCEPT !.ctx = [c EXCEPT !.res = s.res], !.pc = "update"])
  <2> DEFINE d == [c EXCEPT !.res = s.res]
  <2>1. /\ d.type = c.type /\ d.endpoint = c.endpoint /\ d.kube = c.kube
        /\ d.pinniped = c.pinniped /\ d.res # None
    BY <1>3, <1>4, <1>8, ConstantsAssumption DEF Context, ProcState
  <2>2. proc'[p] = [s EXCEPT !.ctx = d, !.pc = "update"]
    BY <1>3, <1>8 DEF Become
  <2> HIDE DEF c, d
  <2>3. /\ proc'[p].pc = "update" /\ proc'[p].kind = s.kind /\ proc'[p].name = n /\ proc'[p].ctx = d
    BY <1>3, <2>2 DEF ProcState
  <2>4. Origins(proc[p])'
    <3>1. Made(n, d)
      BY <1>4, <1>8, <2>1 DEF Made, Asked
    <3> QED
      BY <1>3, <1>8, <2>3, <3>1 DEF Origins, KindAt, Holding
  <2>5. Snapshot(proc[p])'
    BY <2>3 DEF Snapshot
  <2>6. Matches(proc[p], ctxs[proc[p].name])'
    <3>1. ctxs'[proc'[p].name] = c
      BY <1>1, <2>3 DEF c
    <3> QED
      BY <1>4, <1>8, <2>1, <2>3, <3>1 DEF Matches, Making, Saved
  <2>7. Repairs(proc[p])'
    BY <1>8, <2>3 DEF Repairs
  <2>8. Calm(proc[p])'
    BY <1>1, <1>2, <1>8, <2>3, PlainCalm DEF Plain, Awaited, Unsettled
  <2> QED
    BY <1>1, <1>2, <2>4, <2>5, <2>6, <2>7, <2>8, FilesStay DEF Agreed
<1>9. CASE /\ ContextExists(n) /\ s.kind = "token" /\ c.type = "tanzu"
           /\ Become(p, [s EXCEPT !.ctx = c, !.pc = "set"])
  <2>1. c = ctxs[n] /\ c.kube # None
    BY <1>3, <1>4, <1>9, MadeKube
  <2> HIDE DEF c
  <2>2. proc'[p] = [s EXCEPT !.ctx = c, !.pc = "set"]
    BY <1>3, <1>9 DEF Become
  <2>3. /\ proc'[p].pc = "set" /\ proc'[p].kind = s.kind /\ proc'[p].name = n /\ proc'[p].ctx = c
    BY <1>3, <2>2 DEF ProcState
  <2>4. Origins(proc[p])'
    BY <1>3, <1>4, <1>9, <2>3 DEF Origins, KindAt, Holding
  <2>5. Snapshot(proc[p])'
    BY <2>3 DEF Snapshot
  <2>6. Matches(proc[p], ctxs[proc[p].name])'
    <3>1. ctxs'[proc'[p].name] = c
      BY <1>1, <2>3 DEF c
    <3> QED
      BY <1>4, <1>9, <2>3, <3>1 DEF Matches, Making, Saved
  <2>7. Repairs(proc[p])'
    BY <1>9, <2>3 DEF Repairs
  <2>8. Calm(proc[p])'
    <3> SUFFICES ASSUME faults = 0
                 PROVE  OrgEntries(proc[p])' /\ AllLead(proc[p])' /\ AllChosen(proc[p])'
      BY <1>1 DEF Calm
    <3>1. OrgEntries(s) /\ AllLead(s) /\ AllChosen(s)
      BY <1>2 DEF Calm
    <3>2. OrgEntries(proc[p])'
      BY <1>1, <2>1, <2>3, <3>1 DEF OrgEntries, Heir, HasKube
    <3>3. Leads(Loaded(c), c)
      BY <1>1, <1>3, <1>4, <1>9, <2>1, <3>1 DEF AllLead, Unsettled
    <3>4. AllLead(proc[p])'
      BY <1>1, <1>9, <2>3, <3>1, <3>3 DEF AllLead, Unsettled, Leads, Ready, HasKube, Loaded, FileOf
    <3>5. AllChosen(proc[p])'
      BY <1>1, <1>9, <2>1, <2>3, <3>1 DEF AllChosen, Awaited, Switched, Chosen, Loaded, FileOf
    <3> QED
      BY <3>2, <3>4, <3>5
  <2> QED
    BY <1>1, <1>2, <2>4, <2>5, <2>6, <2>7, <2>8, FilesStay DEF Agreed
<1> QED
  BY <1>5, <1>6, <1>7, <1>8, <1>9 DEF GetContext

\* syncCurrentKubeContext finds the entry of a context that was just created or logged
\* in to; with `use` it may be gone after a fault.
LEMMA SyncAgreed ==
  ASSUME IInv, NEW p \in Procs, Agreed(proc[p]), syncCurrentKubeContext(p)
  PROVE  Agreed(proc[p])'
<1> DEFINE s == proc[p]
           n == s.name
           c == s.ctx
           cfg == SetCurrentContext(Loaded(c), c.kube)
<1>1. /\ UNCHANGED <<ctxs, active, kfile, faults>> /\ s.pc = "sync"
  BY DEF syncCurrentKubeContext, At, LeavesConfig
<1>2. /\ Origins(s) /\ UserEntries /\ ActiveKnown /\ StoredMade /\ Calm(s)
      /\ Matches(s, ctxs[n]) /\ Repairs(s) /\ s.kind \in {"create", "login", "use"}
  BY <1>1 DEF Agreed, Origins, KindAt
<1>3. /\ s \in ProcState /\ proc \in [Procs -> ProcState] /\ n \in Names /\ c.kube \in Kubes
      /\ s.kind = "login" => c.type = "tanzu"
  <2>1. PcSound("sync", s.kind, n, c)
    BY <1>1, ProcFacts
  <2> QED
    BY <2>1, ProcFacts DEF PcSound, IInv, TypeOK
<1>4. ctxs[n] # None /\ ctxs[n].kube = c.kube /\ ctxs[n].type = c.type
  BY <1>1, <1>2 DEF Matches, Saved
<1>5. CASE ~ HasKube(Loaded(c), c.kube) /\ Return(p, "error")
  <2>1. s.kind # "login"
    BY <1>1, <1>2, <1>3, <1>4, <1>5 DEF Repairs, Loaded, FileOf
  <2>2. s.kind = "create" => faults # 0
    <3> SUFFICES ASSUME s.kind = "create", faults = 0 PROVE FALSE
      OBVIOUS
    <3>1. Leads(Loaded(ctxs[n]), ctxs[n])
      <4>1. ctxs[n].kube # None
        BY <1>3, <1>4, ConstantsAssumption
      <4> QED
        BY <1>1, <1>2, <1>3, <1>4, <4>1 DEF Calm, AllLead, Unsettled
    <3> QED
      BY <1>4, <1>5, <3>1 DEF Leads, Ready, Loaded, FileOf
  <2>3. \/ faults' # 0
        \/ /\ faults' = faults /\ ~ Awaited(s) /\ ~ Unsettled(s) /\ s.pc # "activate"
           /\ s.pc \notin {"add", "kubedelete", "kubedeletewrite"}
    BY <1>1, <1>2, <2>1, <2>2 DEF Awaited, Unsettled
  <2> QED
    BY <1>1, <1>5, <2>3, EndsAgreed
<1>6. CASE /\ HasKube(Loaded(c), c.kube)
           /\ Become(p, [s EXCEPT !.pc = "syncwrite", !.cfg = cfg])
  <2> HIDE DEF cfg
  <2>1. proc'[p] = [s EXCEPT !.pc = "syncwrite", !.cfg = cfg]
    BY <1>3, <1>6 DEF Become
  <2>2. /\ proc'[p].pc = "syncwrite" /\ proc'[p].kind = s.kind /\ proc'[p].name = n
        /\ proc'[p].ctx = c /\ proc'[p].cfg = cfg
    BY <1>3, <2>1 DEF ProcState
  <2>3. Origins(proc[p])'
    BY <1>1, <1>2, <1>3, <2>2 DEF Origins, KindAt, Holding
  <2>4. Snapshot(proc[p])'
    <3>1. Loaded(proc[p].ctx)' = Loaded(c)
      BY <1>1, <2>2 DEF Loaded, FileOf
    <3> QED
      BY <1>6, <2>2, <3>1 DEF Snapshot, cfg, HasKube
  <2>5. Matches(proc[p], ctxs[proc[p].name])'
    BY <1>1, <1>2, <1>3, <2>2 DEF Matches, Making, Saved
  <2>6. Repairs(proc[p])'
    BY <1>1, <1>2, <2>2 DEF Repairs, HasKube
  <2>7. Calm(proc[p])'
    BY <1>1, <1>2, <2>2, SameCalm
  <2> QED
    BY <1>1, <1>2, <2>3, <2>4, <2>5, <2>6, <2>7, FilesStay DEF Agreed
<1> QED
  BY <1>5, <1>6 DEF syncCurrentKubeContext

\* updateTanzuContextKubeconfig always finds the entry of a login.
LEMMA UpdateAgreed ==
  ASSUME IInv, NEW p \in Procs, Agreed(proc[p]), updateTanzuContextKubeconfig(p)
  PROVE  Agreed(proc[p])'
<1> DEFINE s == proc[p]
           n == s.name
           o == s.ctx
           old == Loaded(o)
           new == prepareKubeContextName(n, o)
           url == prepareClusterServerURL(o)
           cfg == IF s.stable THEN updateContextInPlace(old, o.kube, url)
                  ELSE updateContextWithNewName(old, o.kube, new, url)
           c == [o EXCEPT !.kube = IF s.stable THEN o.kube ELSE new]
<1>1. /\ UNCHANGED <<ctxs, active, kfile, faults>> /\ s.pc = "update"
  BY DEF updateTanzuContextKubeconfig, At, LeavesConfig
<1>2. /\ Origins(s) /\ UserEntries /\ ActiveKnown /\ StoredMade /\ Calm(s)
      /\ Matches(s, ctxs[n]) /\ Repairs(s) /\ s.kind \in {"login", "resource"}
  BY <1>1 DEF Agreed, Origins, KindAt
<1>3. /\ s \in ProcState /\ proc \in [Procs -> ProcState] /\ n \in Names
      /\ o.type = "tanzu" /\ o \in Context
  <2>1. PcSound("update", s.kind, n, o)
    BY <1>1, ProcFacts
  <2> QED
    BY <2>1, ProcFacts DEF PcSound, IInv, TypeOK
<1>4. ctxs[n] # None /\ ctxs[n].kube = o.kube /\ ctxs[n].type = o.type /\ Made(n, o)
  BY <1>1, <1>2 DEF Matches, Saved, Origins, Holding
<1>5. CASE ~ HasKube(old, o.kube) /\ Return(p, IF s.kind = "login" THEN "ok" ELSE "error")
  <2>1. s.kind # "login"
    BY <1>1, <1>2, <1>3, <1>4, <1>5 DEF Repairs, Loaded, FileOf
  <2>2. Return(p, "error") /\ s.kind = "resource"
    BY <1>2, <1>5, <2>1
  <2> QED
    BY <1>1, <2>2, EndsAgreed DEF Awaited, Unsettled
<1>6. CASE /\ HasKube(old, o.kube)
           /\ Become(p, [s EXCEPT !.pc = "updatewrite", !.cfg = cfg, !.ctx = c])
  <2>1. /\ c.type = o.type /\ c.endpoint = o.endpoint /\ c.pinniped = o.pinniped /\ c.res = o.res
        /\ c.kube = IF s.stable THEN o.kube ELSE new
    BY <1>3 DEF Context
  <2>2. proc'[p] = [s EXCEPT !.pc = "updatewrite", !.cfg = cfg, !.ctx = c]
    BY <1>3, <1>6 DEF Become
  <2>3. Made(n, c)
    <3>1. ActiveResource(o) \in Resources
      BY <1>3, ConstantsAssumption DEF ActiveResource, Context
    <3>2. \E r \in Resources : c.kube = <<n, r>>
      BY <1>3, <1>4, <2>1, <3>1 DEF Made, prepareKubeContextName
    <3> QED
      BY <1>3, <1>4, <2>1, <3>2 DEF Made, Asked
  <2>4. /\ Loaded(c) = old /\ prepareClusterServerURL(c) = url
    BY <2>1 DEF Loaded, FileOf, prepareClusterServerURL, ActiveResource
  <2> HIDE DEF c
  <2>5. \/ c.kube = o.kube /\ cfg = updateContextInPlace(old, o.kube, url)
        \/ cfg = updateContextWithNewName(old, o.kube, c.kube, url)
    BY <2>1
  <2> HIDE DEF cfg, new, url, old
  <2>6. /\ proc'[p].pc = "updatewrite" /\ proc'[p].kind = s.kind /\ proc'[p].name = n
        /\ proc'[p].ctx = c /\ proc'[p].cfg = cfg
    BY <1>3, <2>2 DEF ProcState
  <2>7. Origins(proc[p])'
    BY <1>2, <1>3, <2>3, <2>6 DEF Origins, KindAt, Holding
  <2>8. Snapshot(proc[p])'
    <3>1. Loaded(proc[p].ctx)' = old /\ prepareClusterServerURL(proc[p].ctx)' = url
      BY <1>1, <2>4, <2>6 DEF Loaded, FileOf, prepareClusterServerURL, ActiveResource
    <3>2. ctxs'[proc'[p].name].kube = o.kube
      BY <1>1, <1>4, <2>6
    <3> QED
      BY <1>6, <2>5, <2>6, <3>1, <3>2 DEF Snapshot, HasKube
  <2>9. Matches(proc[p], ctxs[proc[p].name])'
    BY <1>1, <1>2, <1>3, <2>1, <2>6 DEF Matches, Making, Saved
  <2>10. Repairs(proc[p])'
    BY <1>1, <1>2, <2>6 DEF Repairs, HasKube
  <2>11. Calm(proc[p])'
    BY <1>1, <1>2, <2>6, SameCalm
  <2> QED
    BY <1>1, <1>2, <2>7, <2>8, <2>9, <2>10, <2>11, FilesStay DEF Agreed
<1> QED
  BY <1>5, <1>6 DEF updateTanzuContextKubeconfig

\* deleteKubeconfigContext leaves the file alone only if the entry is not there.
LEMMA KubeDeleteAgreed ==
  ASSUME IInv, NEW p \in Procs, Agreed(proc[p]), deleteKubeconfigContext(p)
  PROVE  Agreed(proc[p])'
<1> DEFINE s == proc[p]
           n == s.name
           c == s.ctx
           cfg == DeleteContextFromKubeConfig(Loaded(c), c.kube)
<1>1. /\ UNCHANGED <<ctxs, active, kfile, faults>> /\ s.pc = "kubedelete"
  BY DEF deleteKubeconfigContext, At, LeavesConfig
<1>2. /\ Origins(s) /\ UserEntries /\ ActiveKnown /\ StoredMade /\ Calm(s)
      /\ Matches(s, ctxs[n]) /\ s.kind = "delete"
  BY <1>1 DEF Agreed, Origins, KindAt
<1>3. s \in ProcState /\ proc \in [Procs -> ProcState] /\ c.kube \in Kubes
  <2>1. PcSound("kubedelete", s.kind, n, c)
    BY <1>1, ProcFacts
  <2> QED
    BY <2>1, ProcFacts DEF IInv, TypeOK, PcSound
<1>4. CASE ~ HasKube(Loaded(c), c.kube) /\ Return(p, "ok")
  BY <1>1, <1>2, <1>4, EndsAgreed DEF Awaited, Unsettled
<1>5. CASE /\ HasKube(Loaded(c), c.kube)
           /\ Become(p, [s EXCEPT !.pc = "kubedeletewrite", !.cfg = cfg])
  <2> HIDE DEF cfg
  <2>1. proc'[p] = [s EXCEPT !.pc = "kubedeletewrite", !.cfg = cfg]
    BY <1>3, <1>5 DEF Become
  <2>2. /\ proc'[p].pc = "kubedeletewrite" /\ proc'[p].kind = s.kind /\ proc'[p].name = n
        /\ proc'[p].ctx = c /\ proc'[p].cfg = cfg
    BY <1>3, <2>1 DEF ProcState
  <2>3. Origins(proc[p])'
    BY <1>1, <1>2, <2>2 DEF Origins, KindAt, Holding
  <2>4. Snapshot(proc[p])'
    <3>1. Loaded(proc[p].ctx)' = Loaded(c)
      BY <1>1, <2>2 DEF Loaded, FileOf
    <3> QED
      BY <1>5, <2>2, <3>1 DEF Snapshot, cfg, HasKube
  <2>5. Matches(proc[p], ctxs[proc[p].name])'
    BY <1>1, <1>2, <1>3, <2>2 DEF Matches, Making, Saved
  <2>6. Repairs(proc[p])'
    BY <1>2, <2>2 DEF Repairs
  <2>7. Calm(proc[p])'
    BY <1>1, <1>2, <2>2, SameCalm
  <2> QED
    BY <1>1, <1>2, <2>3, <2>4, <2>5, <2>6, <2>7, FilesStay DEF Agreed
<1> QED
  BY <1>4, <1>5 DEF deleteKubeconfigContext

-----------------------------------------------------------------------------
(* What the kubeconfig operations do to the entries *)

LEMMA MergeEffect ==
  ASSUME NEW cfg \in KubeConfig \cup {None}, NEW k \in Kubes, NEW e \in Cluster,
         NEW new, new = MergeKubeConfigWithoutSwitchContext(cfg, k, e)
  PROVE  /\ HasKube(new, k) /\ UserOf(k) \in new.users
         /\ ~ HasKube(cfg, k) => new.contexts[k] = e
         /\ HasKube(cfg, k) => new.contexts[k].server = cfg.contexts[k].server
         /\ \A j \in Kubes \ {k} : HasKube(new, j) <=> HasKube(cfg, j)
         /\ \A j \in Kubes \ {k} : HasKube(cfg, j) => new.contexts[j] = cfg.contexts[j]
         /\ cfg # None => new.current = cfg.current /\ cfg.users \subseteq new.users
<1> USE ConstantsAssumption
<1>1. CASE cfg = None
  <2> DEFINE ks == [NoKubes EXCEPT ![k] = e]
  <2>1. ks[k] = e /\ \A j \in Kubes \ {k} : ks[j] = None
    BY DEF NoKubes
  <2>2. new = [contexts |-> ks, users |-> {UserOf(k)}, current |-> k]
    BY <1>1 DEF MergeKubeConfigWithoutSwitchContext
  <2> HIDE DEF ks
  <2>3. new.contexts = ks /\ new.users = {UserOf(k)} /\ new # None
    <3>1. ks \in [Kubes -> Cluster \cup {None}]
      BY DEF ks, NoKubes
    <3>2. new \in KubeConfig
      BY <2>2, <3>1, UserType DEF KubeConfig
    <3>3. new # None
      BY <3>2
    <3>4. new.contexts = ks /\ new.users = {UserOf(k)}
      BY <2>2
    <3> QED
      BY <3>3, <3>4
  <2> QED
    BY <1>1, <2>1, <2>3 DEF HasKube
<1>2. CASE cfg # None
  <2> DEFINE ks == [cfg.contexts EXCEPT ![k] = Filled(cfg.contexts[k], e)]
  <2>1. cfg.contexts \in [Kubes -> Cluster \cup {None}] /\ cfg \in KubeConfig
    BY <1>2 DEF KubeConfig
  <2>2. ks[k] = Filled(cfg.contexts[k], e) /\ \A j \in Kubes \ {k} : ks[j] = cfg.contexts[j]
    BY <2>1
  <2>3. Filled(cfg.contexts[k], e) \in Cluster
    BY <2>1 DEF Filled, Cluster
  <2>4. /\ cfg.contexts[k] = None => Filled(cfg.contexts[k], e) = e
        /\ cfg.contexts[k] # None => Filled(cfg.contexts[k], e).server = cfg.contexts[k].server
    BY DEF Filled
  <2>5. ks \in [Kubes -> Cluster \cup {None}]
    BY <2>1, <2>3
  <2>6. new = [contexts |-> ks, users |-> cfg.users \cup {UserOf(k)}, current |-> cfg.current]
    BY <1>2 DEF MergeKubeConfigWithoutSwitchContext
  <2> HIDE DEF ks
  <2>7. /\ new.contexts = ks /\ new.users = cfg.users \cup {UserOf(k)} /\ new # None
        /\ new.current = cfg.current
    <3>1. new \in KubeConfig
      BY <2>1, <2>5, <2>6, UserType DEF KubeConfig
    <3> QED
      BY <2>6, <3>1
  <2> QED
    BY <1>2, <2>2, <2>3, <2>4, <2>7 DEF HasKube
<1> QED
  BY <1>1, <1>2

LEMMA SyncEffect ==
  ASSUME NEW cfg \in KubeConfig, NEW k \in Kubes, NEW new, new = SetCurrentContext(cfg, k)
  PROVE  new # None /\ new.contexts = cfg.contexts /\ new.users = cfg.users /\ new.current = k
<1>1. new \in KubeConfig
  BY DEF SetCurrentContext, KubeConfig
<1> QED
  BY <1>1, ConstantsAssumption DEF SetCurrentContext, KubeConfig

LEMMA DeleteEffect ==
  ASSUME NEW cfg \in KubeConfig, NEW k \in Kubes,
         NEW new, new = DeleteContextFromKubeConfig(cfg, k)
  PROVE  /\ new # None /\ new.contexts[k] = None /\ new.users = cfg.users \ {UserOf(k)}
         /\ \A j \in Kubes \ {k} : new.contexts[j] = cfg.contexts[j]
         /\ cfg.current # k => new.current = cfg.current
<1> USE ConstantsAssumption
<1> DEFINE ks == [cfg.contexts EXCEPT ![k] = None]
<1>1. ks \in [Kubes -> Cluster \cup {None}] /\ ks[k] = None
      /\ \A j \in Kubes \ {k} : ks[j] = cfg.contexts[j]
  BY DEF KubeConfig
<1>2. new = [contexts |-> ks, users |-> cfg.users \ {UserOf(k)},
             current |-> IF cfg.current = k THEN None ELSE cfg.current]
  BY DEF DeleteContextFromKubeConfig
<1> HIDE DEF ks
<1>3. new \in KubeConfig
  BY <1>1, <1>2 DEF KubeConfig
<1>4. new # None
  BY <1>3
<1>5. /\ new.contexts = ks /\ new.users = cfg.users \ {UserOf(k)}
      /\ cfg.current # k => new.current = cfg.current
  BY <1>2
<1> QED
  BY <1>1, <1>4, <1>5

\* The server of an entry, changed in place (j = k) or under a new name j.
LEMMA UpdateEffect ==
  ASSUME NEW cfg \in KubeConfig, NEW k \in Kubes, NEW j \in Kubes, NEW url \in Servers,
         cfg.contexts[k] # None, NEW new,
         \/ j = k /\ new = updateContextInPlace(cfg, k, url)
         \/ new = updateContextWithNewName(cfg, k, j, url)
  PROVE  /\ HasKube(new, j) /\ new.contexts[j].server = url /\ new.users = cfg.users
         /\ j # k => new.contexts[k] = None
         /\ \A i \in Kubes \ {j, k} : new.contexts[i] = cfg.contexts[i]
         /\ new.current = IF cfg.current = k THEN j ELSE cfg.current
<1> USE ConstantsAssumption
<1>1. Moved(cfg, k, url) \in Cluster /\ Moved(cfg, k, url).server = url
  <2>1. cfg.contexts[k] \in Cluster
    BY DEF KubeConfig
  <2> QED
    BY <2>1 DEF Moved, Cluster
<1>2. cfg.contexts \in [Kubes -> Cluster \cup {None}]
  BY DEF KubeConfig
<1>3. CASE j = k /\ new = updateContextInPlace(cfg, k, url)
  <2> DEFINE ks == [cfg.contexts EXCEPT ![k] = Moved(cfg, k, url)]
  <2>1. ks \in [Kubes -> Cluster \cup {None}] /\ ks[k] = Moved(cfg, k, url)
        /\ \A i \in Kubes \ {k} : ks[i] = cfg.contexts[i]
    BY <1>1, <1>2
  <2>2. new = [cfg EXCEPT !.contexts = ks]
    BY <1>3 DEF updateContextInPlace
  <2> HIDE DEF ks
  <2>3. new \in KubeConfig /\ new.contexts = ks /\ new.users = cfg.users /\ new.current = cfg.current
    BY <2>1, <2>2 DEF KubeConfig
  <2> QED
    BY <1>1, <1>3, <2>1, <2>3 DEF HasKube
<1>4. CASE new = updateContextWithNewName(cfg, k, j, url)
  <2> DEFINE ks == [cfg.contexts EXCEPT ![k] = None, ![j] = Moved(cfg, k, url)]
  <2>1. ks \in [Kubes -> Cluster \cup {None}] /\ ks[j] = Moved(cfg, k, url)
        /\ (j # k => ks[k] = None)
        /\ \A i \in Kubes \ {j, k} : ks[i] = cfg.contexts[i]
    BY <1>1, <1>2
  <2>2. new = [contexts |-> ks, users |-> cfg.users,
               current |-> IF cfg.current = k THEN j ELSE cfg.current]
    BY <1>4 DEF updateContextWithNewName
  <2> HIDE DEF ks
  <2>3. new \in KubeConfig
    BY <2>1, <2>2 DEF KubeConfig
  <2> QED
    BY <1>1, <2>1, <2>2, <2>3 DEF HasKube
<1> QED
  BY <1>3, <1>4

\* The kube contexts and users of different names are different, unless clusters are shared.
LEMMA KubesApart ==
  ASSUME OwnClusters, NEW n \in Names, NEW m \in Names, m # n, NEW c \in Context, NEW d \in Context,
         Made(n, c), Made(m, d), FileOf(c) = FileOf(d), c.type = "tanzu" \/ c.pinniped, d.kube # None
  PROVE  d.kube # c.kube /\ UserOf(d.kube) # UserOf(c.kube)
<1>1. CASE c.type = "tanzu"
  <2>1. d.type = "tanzu"
    BY <1>1 DEF FileOf
  <2> QED
    BY <1>1, <2>1, MadeKube
<1>2. CASE c.type # "tanzu"
  <2>1. c.type = "kubernetes" /\ c.pinniped
    BY <1>2 DEF Made, Asked, Context, Types
  <2>2. d.type = "kubernetes"
    BY <1>2 DEF FileOf, Made, Asked, Context, Types
  <2>3. PICK q \in Requests : q.name = n /\ q.ctx.type = "kubernetes" /\ q.ctx.kube = c.kube
                              /\ q.ctx.pinniped = c.pinniped
    BY <2>1 DEF Made, Asked
  <2>4. PICK r \in Requests : r.name = m /\ r.ctx.type = "kubernetes" /\ r.ctx.kube = d.kube
    BY <2>2 DEF Made, Asked
  <2>5. d.kube # c.kube
    BY <2>1, <2>3, <2>4 DEF OwnClusters
  <2>6. c.kube \in Clusters /\ d.kube \in Clusters
    BY <2>3, <2>4, RequestsAssumption
  <2> QED
    BY <2>5, <2>6 DEF UserOf
<1> QED
  BY <1>1, <1>2

-----------------------------------------------------------------------------
(* Writing a kubeconfig file *)

\* The write of a command that is alone: one file changes to what it holds.
LEMMA WriteFacts ==
  ASSUME IInv, NEW p \in Procs, NEW pc, WriteKube(p, pc)
  PROVE  /\ UNCHANGED <<ctxs, active, faults>>
         /\ FileOf(proc[p].ctx) \in Files /\ kfile'[FileOf(proc[p].ctx)] = proc[p].cfg
         /\ \A f \in Files : f # FileOf(proc[p].ctx) => kfile'[f] = kfile[f]
         /\ Loaded(proc[p].ctx) = kfile[FileOf(proc[p].ctx)]
<1>1. FileOf(proc[p].ctx) \in Files /\ kfile \in [Files -> KubeConfig \cup {None}]
  BY LoadedFacts DEF IInv, TypeOK
<1> QED
  BY <1>1 DEF WriteKube, LeavesConfig, Loaded

\* The entry merged by create is fresh; nobody else's entry is changed.
LEMMA WriteMergedAgreed ==
  ASSUME IInv, NEW p \in Procs, Agreed(proc[p]), WriteMerged(p) PROVE Agreed(proc[p])'
<1> USE ConstantsAssumption
<1> DEFINE s == proc[p]
           n == s.name
           c == s.ctx
           f == FileOf(c)
           old == Loaded(c)
           pc == IF c.pinniped THEN "version" ELSE "add"
<1>1. s.pc = "mergewrite" /\ WriteKube(p, pc)
  BY DEF WriteMerged, At
<1>2. /\ Origins(s) /\ Snapshot(s) /\ UserEntries /\ ActiveKnown /\ StoredMade /\ Calm(s)
      /\ Matches(s, ctxs[n]) /\ s.kind \in {"create", "login"}
  BY <1>1 DEF Agreed, Origins, KindAt
<1>3. /\ UNCHANGED <<ctxs, active, faults>> /\ f \in Files
      /\ kfile'[f] = s.cfg /\ \A g \in Files : g # f => kfile'[g] = kfile[g]
      /\ old = kfile[f]
  BY <1>1, WriteFacts
<1>4. /\ proc'[p].pc = pc /\ proc'[p].kind = s.kind /\ proc'[p].name = n /\ proc'[p].ctx = c
  BY <1>1, GotoFields DEF WriteKube
<1>5. /\ n \in Names /\ c \in Context /\ Made(n, c) /\ old \in KubeConfig \cup {None}
      /\ (c.pinniped => c.type = "kubernetes" /\ c.kube \in Clusters)
      /\ (~ c.pinniped => c.type = "tanzu") /\ c.kube \in Kubes
  <2>1. PcSound("mergewrite", s.kind, n, c)
    BY <1>1, ProcFacts
  <2>2. n \in Names /\ c \in Context /\ Made(n, c) /\ old \in KubeConfig \cup {None}
    BY <1>1, <1>2, <2>1, ProcFacts, LoadedFacts DEF PcSound, Origins, Holding
  <2>3. c.type = "tanzu" \/ c.pinniped
    BY <1>1, <1>2 DEF Matches
  <2>4. c.pinniped => c.type = "kubernetes" /\ c.kube \in Clusters
    BY <2>1, <2>2 DEF PcSound, Made, Asked, Context, Types
  <2>5. c.type = "tanzu" => c.kube \in Kubes
    BY <2>2, MadeKube
  <2> QED
    BY <2>2, <2>3, <2>4, <2>5 DEF Kubes
<1>6. PICK e \in Cluster :
        /\ c.type = "tanzu" => c.kube = <<n, Org>> /\ e.server = <<c.endpoint, Org>>
        /\ s.cfg = MergeKubeConfigWithoutSwitchContext(old, c.kube, e)
  BY <1>1, <1>2 DEF Snapshot
<1> DEFINE k == c.kube
           new == s.cfg
<1>7. /\ HasKube(new, k) /\ UserOf(k) \in new.users
      /\ ~ HasKube(old, k) => new.contexts[k] = e
      /\ HasKube(old, k) => new.contexts[k].server = old.contexts[k].server
      /\ \A j \in Kubes \ {k} : HasKube(new, j) <=> HasKube(old, j)
      /\ \A j \in Kubes \ {k} : HasKube(old, j) => new.contexts[j] = old.contexts[j]
      /\ old # None => new.current = old.current /\ old.users \subseteq new.users
  BY <1>5, <1>6, MergeEffect
<1> HIDE DEF pc, f, old, new, k, c
<1>8. Origins(proc[p])'
  <2>1. s.kind = "login" => c.type = "tanzu"
    <3>1. PcSound(s.pc, s.kind, n, c)
      BY ProcFacts DEF c
    <3> QED
      BY <3>1 DEF PcSound
  <2>2. pc = "add" \/ (pc = "version" /\ s.kind = "create")
    BY <1>2, <1>5, <2>1 DEF pc
  <2> QED
    BY <1>2, <1>4, <1>5, <2>2 DEF Origins, KindAt, Holding
<1>9. Snapshot(proc[p])'
  BY <1>4 DEF Snapshot, pc
<1>10. Matches(proc[p], ctxs[proc[p].name])'
  BY <1>1, <1>2, <1>3, <1>4, <1>5, <1>6 DEF Matches, Making, Saved, pc, c
<1>11. UserEntries' /\ ActiveKnown' /\ StoredMade'
  <2>1. UserEntries'
    <3>1. CASE f = "user"
      <4> SUFFICES ASSUME NEW j \in Clusters, HasKube(new, j) PROVE j \in new.users
        BY <1>3, <3>1 DEF UserEntries, HasKube, new
      <4>1. c.pinniped /\ k \in Clusters
        BY <1>5, <3>1 DEF f, FileOf, k
      <4>2. CASE j = k
        BY <1>7, <4>1, <4>2 DEF UserOf
      <4>3. CASE j # k
        <5>1. j \in Kubes
          BY DEF Kubes
        <5>2. HasKube(old, j)
          BY <1>7, <4>3, <5>1
        <5>3. old # None /\ j \in old.users
          BY <1>2, <1>3, <3>1, <5>2 DEF UserEntries, HasKube
        <5> QED
          BY <1>7, <5>3
      <4> QED
        BY <4>2, <4>3
    <3>2. CASE f # "user"
      BY <1>2, <1>3, <3>2 DEF UserEntries, HasKube, Files
    <3> QED
      BY <3>1, <3>2
  <2> QED
    BY <1>2, <1>3, <2>1 DEF ActiveKnown, StoredMade
<1>12. Repairs(proc[p])'
  <2> SUFFICES ASSUME s.kind = "login"
               PROVE  pc = "add" => HasKube(kfile'["tanzu"], k) /\ n \in kfile'["tanzu"].users
    BY <1>4 DEF Repairs, pc, k, c, HasKube
  <2> HAVE pc = "add"
  <2>1. c.type = "tanzu" /\ f = "tanzu"
    BY <1>5 DEF pc, f, FileOf
  <2>2. UserOf(k) = n
    BY <1>5, <2>1, MadeKube DEF k
  <2> QED
    BY <1>3, <1>7, <2>1, <2>2 DEF new
<1>13. Calm(proc[p])'
  <2> SUFFICES ASSUME faults = 0
               PROVE  OrgEntries(proc[p])' /\ AllLead(proc[p])' /\ AllChosen(proc[p])'
    BY <1>3 DEF Calm
  <2>1. OrgEntries(s) /\ AllLead(s) /\ AllChosen(s)
    BY <1>2 DEF Calm
  <2>2. OrgEntries(proc[p])'
    <3>1. CASE c.pinniped
      <4>1. f = "user" /\ pc = "version"
        BY <1>5, <3>1 DEF pc, f, FileOf
      <4> QED
        BY <1>1, <1>3, <1>4, <2>1, <4>1 DEF OrgEntries, Heir, HasKube, Files
    <3>2. CASE ~ c.pinniped
      <4>1. f = "tanzu" /\ pc = "add" /\ c.type = "tanzu" /\ k = <<n, Org>>
        BY <1>5, <1>6, <3>2 DEF pc, f, FileOf, k
      <4>2. ASSUME NEW m \in Names, m # n, HasKube(kfile["tanzu"], <<m, Org>>)'
            PROVE  ctxs[m] # None /\ ctxs[m].type = "tanzu" /\ ctxs[m].kube = <<m, Org>>
        <5>1. <<m, Org>> \in Kubes /\ <<m, Org>> # k
          BY <4>1, <4>2 DEF Kubes
        <5>2. HasKube(new, <<m, Org>>)
          BY <1>3, <4>1, <4>2 DEF HasKube, new
        <5>3. HasKube(old, <<m, Org>>)
          BY <1>7, <5>1, <5>2
        <5> QED
          BY <1>1, <1>3, <2>1, <4>1, <5>3 DEF OrgEntries, Heir
      <4> QED
        BY <1>3, <1>4, <1>5, <4>1, <4>2 DEF OrgEntries, Heir, k
    <3> QED
      BY <3>1, <3>2
  <2>3. ASSUME NEW d \in Context, d.kube # None, Leads(Loaded(d), d) PROVE Leads(kfile'[FileOf(d)], d)
    <3>1. CASE FileOf(d) # f
      <4>1. kfile'[FileOf(d)] = Loaded(d)
        BY <1>3, <3>1 DEF Loaded, FileOf, Files
      <4> QED
        BY <2>3, <4>1
    <3>2. CASE FileOf(d) = f
      <4>1. Loaded(d) = old /\ kfile'[FileOf(d)] = new
        BY <1>3, <3>2 DEF Loaded, new
      <4>2. old # None /\ old.contexts[d.kube] # None /\ UserOf(d.kube) \in old.users
        BY <2>3, <4>1 DEF Leads, Ready, HasKube
      <4>4. d.kube \in Kubes
        BY <2>3 DEF Context
      <4>5. HasKube(new, d.kube) /\ new.contexts[d.kube].server = old.contexts[d.kube].server
        BY <1>7, <4>2, <4>4 DEF HasKube
      <4>6. UserOf(d.kube) \in new.users
        BY <1>7, <4>2
      <4> QED
        BY <2>3, <4>1, <4>5, <4>6 DEF Leads, Ready
    <3> QED
      BY <3>1, <3>2
  <2>4. AllLead(proc[p])'
    <3>1. ASSUME NEW m \in Names, ctxs[m] # None, ctxs[m].kube # None
          PROVE  Leads(Loaded(ctxs[m]), ctxs[m])'
      <4>1. Leads(Loaded(ctxs[m]), ctxs[m])
        BY <1>1, <2>1, <3>1 DEF AllLead, Unsettled
      <4>2. ctxs[m] \in Context
        BY <3>1 DEF IInv, ContextsInv
      <4>3. Leads(kfile'[FileOf(ctxs[m])], ctxs[m])
        BY <2>3, <3>1, <4>1, <4>2
      <4> QED
        BY <1>3, <4>3 DEF Loaded
    <3>2. ASSUME pc = "add", s.kind = "create" PROVE Leads(kfile'[f], c)
      <4>1. f = "tanzu" /\ c.type = "tanzu" /\ k = <<n, Org>> /\ ctxs[n] = None /\ c.res = None
        <5>1. c.type = "tanzu"
          BY <1>5, <3>2 DEF pc
        <5>2. ctxs[n] = None /\ c.res = None
          BY <1>1, <1>2, <3>2 DEF Matches, Making, c
        <5> QED
          BY <1>6, <5>1, <5>2 DEF f, FileOf, k
      <4>2. ~ HasKube(old, k)
        BY <1>1, <1>3, <1>5, <2>1, <4>1 DEF OrgEntries, Heir
      <4>3. new.contexts[k].server = <<c.endpoint, Org>>
        BY <1>6, <1>7, <4>1, <4>2
      <4>4. prepareClusterServerURL(c) = <<c.endpoint, Org>>
        BY <4>1 DEF prepareClusterServerURL, ActiveResource
      <4> QED
        BY <1>3, <1>7, <4>3, <4>4 DEF Leads, Ready, k, new
    <3>3. pc = "add" /\ s.kind = "create" => Leads(Loaded(proc[p].ctx), proc[p].ctx)'
      BY <1>4, <3>2 DEF Loaded, f
    <3>4. pc \in {"add", "version"}
      BY DEF pc
    <3> QED
      BY <1>3, <1>4, <3>1, <3>3, <3>4 DEF AllLead
  <2>5. AllChosen(proc[p])'
    <3> SUFFICES ASSUME ~ SkipSync, NEW t \in Kubed, active[t] # None
                 PROVE  Chosen(Loaded(ctxs[active[t]]), ctxs[active[t]])'
      BY <1>3, <1>4 DEF AllChosen, Awaited, Switched, pc
    <3> DEFINE d == ctxs[active[t]]
    <3>1. Chosen(Loaded(d), d)
      BY <1>1, <2>1 DEF AllChosen, Awaited, Switched
    <3>2. Chosen(kfile'[FileOf(d)], d)
      <4>1. CASE FileOf(d) # f
        BY <1>3, <3>1, <4>1 DEF Loaded, FileOf, Files
      <4>2. CASE FileOf(d) = f
        BY <1>3, <1>7, <3>1, <4>2 DEF Loaded, Chosen, new, HasKube
      <4> QED
        BY <4>1, <4>2
    <3> QED
      BY <1>3, <3>2 DEF Loaded
  <2> QED
    BY <2>2, <2>4, <2>5
<1> QED
  BY <1>8, <1>9, <1>10, <1>11, <1>12, <1>13 DEF Agreed

\* The kube context is current, and no other context of its file is active then.
LEMMA WriteSyncedAgreed ==
  ASSUME IInv, NEW p \in Procs, Agreed(proc[p]), WriteSynced(p) PROVE Agreed(proc[p])'
<1> USE ConstantsAssumption
<1> DEFINE s == proc[p]
           n == s.name
           c == s.ctx
           f == FileOf(c)
           old == Loaded(c)
           new == s.cfg
           pc == AfterSync(s.kind)
<1>1. s.pc = "syncwrite" /\ WriteKube(p, pc)
  BY DEF WriteSynced, At
<1>2. /\ Origins(s) /\ Snapshot(s) /\ UserEntries /\ ActiveKnown /\ StoredMade /\ Calm(s)
      /\ Matches(s, ctxs[n]) /\ Repairs(s) /\ s.kind \in {"create", "login", "use"}
  BY <1>1 DEF Agreed, Origins, KindAt
<1>3. /\ UNCHANGED <<ctxs, active, faults>> /\ f \in Files
      /\ kfile'[f] = new /\ \A g \in Files : g # f => kfile'[g] = kfile[g]
      /\ old = kfile[f]
  BY <1>1, WriteFacts
<1>4. /\ s.kind = "create" => pc = "idle"
      /\ s.kind = "login" => pc = "update"
      /\ s.kind = "use" => pc = "activate"
  BY DEF AfterSync
<1>5. /\ proc'[p].pc = pc /\ proc'[p].kind = s.kind /\ proc'[p].name = n
      /\ pc # "idle" => proc'[p].ctx = c
  <2>1. CASE pc = "idle"
    BY <1>1, <2>1, ReturnFields DEF WriteKube
  <2>2. CASE pc # "idle"
    BY <1>1, <2>2, GotoFields DEF WriteKube
  <2> QED
    BY <2>1, <2>2
<1>6. /\ n \in Names /\ c \in Context /\ Made(n, c) /\ c.kube \in Kubes
      /\ ctxs[n] # None /\ ctxs[n].type = c.type /\ ctxs[n].kube = c.kube
      /\ s.kind = "login" => c.type = "tanzu"
  <2>1. PcSound("syncwrite", s.kind, n, c)
    BY <1>1, ProcFacts
  <2> QED
    BY <1>1, <1>2, <2>1, ProcFacts DEF PcSound, Origins, Holding, Matches, Saved
<1>7. old \in KubeConfig /\ HasKube(old, c.kube) /\ new = SetCurrentContext(old, c.kube)
  BY <1>1, <1>2, LoadedFacts DEF Snapshot, HasKube
<1>8. new # None /\ new.contexts = old.contexts /\ new.users = old.users /\ new.current = c.kube
  BY <1>6, <1>7, SyncEffect
<1>9. old # None
  BY <1>7 DEF HasKube
<1> HIDE DEF pc, f, old, new, c
<1>10. \A g \in Files :
         /\ kfile'[g] # None <=> kfile[g] # None
         /\ kfile[g] # None => /\ kfile'[g].contexts = kfile[g].contexts
                               /\ kfile'[g].users = kfile[g].users
  BY <1>3, <1>8, <1>9
<1>11. Origins(proc[p])'
  BY <1>2, <1>4, <1>5, <1>6 DEF Origins, KindAt, Holding
<1>12. Snapshot(proc[p])'
  BY <1>2, <1>4, <1>5 DEF Snapshot
<1>13. Matches(proc[p], ctxs[proc[p].name])'
  BY <1>1, <1>2, <1>3, <1>4, <1>5, <1>6 DEF Matches, Making, Saved, c
<1>14. UserEntries' /\ ActiveKnown' /\ StoredMade'
  <2>1. UserEntries'
    BY <1>2, <1>10 DEF UserEntries, HasKube, Files
  <2> QED
    BY <1>2, <1>3, <2>1 DEF ActiveKnown, StoredMade
<1>15. Repairs(proc[p])'
  <2>1. CASE s.kind = "login"
    <3>1. f = "tanzu" /\ pc = "update"
      BY <1>4, <1>6, <2>1 DEF f, FileOf
    <3>2. HasKube(kfile["tanzu"], ctxs[n].kube) /\ n \in kfile["tanzu"].users
      BY <1>1, <1>2, <2>1 DEF Repairs
    <3>3. /\ HasKube(kfile'["tanzu"], ctxs'[n].kube) /\ n \in kfile'["tanzu"].users
          /\ kfile'["tanzu"].current = ctxs'[n].kube
      BY <1>3, <1>6, <1>8, <1>10, <3>1, <3>2 DEF HasKube
    <3> QED
      BY <1>5, <3>1, <3>3 DEF Repairs
  <2>2. CASE s.kind # "login"
    BY <1>5, <2>2 DEF Repairs
  <2> QED
    BY <2>1, <2>2
<1>16. Calm(proc[p])'
  <2> SUFFICES ASSUME faults = 0
               PROVE  OrgEntries(proc[p])' /\ AllLead(proc[p])' /\ AllChosen(proc[p])'
    BY <1>3 DEF Calm
  <2>1. OrgEntries(s) /\ AllLead(s) /\ AllChosen(s)
    BY <1>2 DEF Calm
  <2>2. OrgEntries(proc[p])'
    BY <1>1, <1>2, <1>3, <1>4, <1>5, <1>10, <2>1 DEF OrgEntries, Heir, HasKube, Files
  <2>3. AllLead(proc[p])'
    <3>1. ASSUME NEW m \in Names, ctxs[m] # None, ctxs[m].kube # None,
                 ~ (m = n /\ Unsettled(proc[p])')
          PROVE  Leads(Loaded(ctxs[m]), ctxs[m])'
      <4>1. Leads(Loaded(ctxs[m]), ctxs[m])
        BY <1>1, <1>2, <1>4, <1>5, <2>1, <3>1 DEF AllLead, Unsettled
      <4>2. FileOf(ctxs[m]) \in Files
        BY DEF FileOf, Files
      <4> QED
        BY <1>3, <1>10, <4>1, <4>2 DEF Leads, Ready, HasKube, Loaded
    <3>2. proc'[p].pc \notin {"set", "add"}
      BY <1>2, <1>4, <1>5
    <3> QED
      BY <1>3, <1>5, <3>1, <3>2 DEF AllLead
  <2>4. AllChosen(proc[p])'
    <3> SUFFICES ASSUME ~ SkipSync
                 PROVE  /\ \A t \in Kubed : active[t] # None /\ s.kind # "use" =>
                             Chosen(Loaded(ctxs[active[t]]), ctxs[active[t]])'
                        /\ s.kind = "use" => Chosen(Loaded(proc[p].ctx), proc[p].ctx)'
      BY <1>2, <1>3, <1>4, <1>5, <1>6 DEF AllChosen, Awaited, Switched
    <3>1. ASSUME NEW t \in Kubed, active[t] # None, s.kind # "use"
          PROVE  Chosen(Loaded(ctxs[active[t]]), ctxs[active[t]])'
      <4>1. active[t] = n
        BY <1>1, <2>1, <3>1 DEF AllChosen, Awaited
      <4>2. FileOf(ctxs[n]) = f
        BY <1>6 DEF f, FileOf
      <4> QED
        BY <1>3, <1>6, <1>8, <4>1, <4>2 DEF Chosen, Loaded
    <3>2. ASSUME s.kind = "use" PROVE Chosen(Loaded(proc[p].ctx), proc[p].ctx)'
      <4>1. proc'[p].ctx = c
        BY <1>4, <1>5, <3>2
      <4> QED
        BY <1>3, <1>8, <4>1 DEF Chosen, Loaded, f
    <3> QED
      BY <3>1, <3>2
  <2> QED
    BY <2>2, <2>3, <2>4
<1> QED
  BY <1>11, <1>12, <1>13, <1>14, <1>15, <1>16 DEF Agreed

\* The entry of the context leads where the context will, under its old or new name.
LEMMA WriteUpdatedAgreed ==
  ASSUME IInv, NEW p \in Procs, Agreed(proc[p]), WriteUpdated(p) PROVE Agreed(proc[p])'
<1> USE ConstantsAssumption
<1> DEFINE s == proc[p]
           n == s.name
           c == s.ctx
           k == ctxs[n].kube
           j == c.kube
           old == kfile["tanzu"]
           new == s.cfg
           url == prepareClusterServerURL(c)
<1>1. s.pc = "updatewrite" /\ WriteKube(p, "set")
  BY DEF WriteUpdated, At
<1>2. /\ Origins(s) /\ Snapshot(s) /\ UserEntries /\ ActiveKnown /\ StoredMade /\ Calm(s)
      /\ Matches(s, ctxs[n]) /\ Repairs(s) /\ s.kind \in {"login", "resource"}
  BY <1>1 DEF Agreed, Origins, KindAt
<1>3. /\ n \in Names /\ c \in Context /\ Made(n, c) /\ c.type = "tanzu"
      /\ ctxs[n] # None /\ ctxs[n].type = "tanzu" /\ Made(n, ctxs[n])
  <2>1. PcSound("updatewrite", s.kind, n, c)
    BY <1>1, ProcFacts
  <2>2. n \in Names /\ c \in Context /\ Made(n, c) /\ c.type = "tanzu"
        /\ ctxs[n] # None /\ ctxs[n].type = "tanzu"
    BY <1>1, <1>2, <2>1, ProcFacts DEF PcSound, Origins, Holding, Matches, Saved
  <2> QED
    BY <1>2, <2>2 DEF StoredMade
<1>4. FileOf(c) = "tanzu" /\ j \in Kubes /\ UserOf(j) = n /\ k \in Kubes /\ UserOf(k) = n
      /\ k # None
  BY <1>3, MadeKube
<1>5. /\ UNCHANGED <<ctxs, active, faults>> /\ Loaded(c) = old
      /\ kfile'["tanzu"] = new /\ kfile'["user"] = kfile["user"]
  BY <1>1, <1>4, WriteFacts DEF Files
<1>6. /\ proc'[p].pc = "set" /\ proc'[p].kind = s.kind /\ proc'[p].name = n /\ proc'[p].ctx = c
  BY <1>1, GotoFields DEF WriteKube
<1>7. /\ HasKube(old, k)
      /\ \/ j = k /\ new = updateContextInPlace(old, k, url)
         \/ new = updateContextWithNewName(old, k, j, url)
  BY <1>1, <1>2, <1>5 DEF Snapshot
<1>8. old \in KubeConfig /\ url \in Servers /\ old.contexts[k] # None
  <2>1. ActiveResource(c) \in Resources
    BY <1>3 DEF ActiveResource, Context
  <2>2. c.endpoint \in Orgs
    BY <1>3 DEF Made, Asked
  <2>3. old \in KubeConfig \cup {None}
    BY DEF IInv, FilesInv, Files
  <2> QED
    BY <1>7, <2>1, <2>2, <2>3 DEF HasKube, prepareClusterServerURL, Servers
<1>9. /\ HasKube(new, j) /\ new.contexts[j].server = url /\ new.users = old.users
      /\ j # k => new.contexts[k] = None
      /\ \A i \in Kubes \ {j, k} : new.contexts[i] = old.contexts[i]
      /\ new.current = IF old.current = k THEN j ELSE old.current
  BY <1>4, <1>7, <1>8, UpdateEffect
<1> HIDE DEF c, j, old, new, url
<1>10. \A m \in Names : \A r \in Resources : m # n => <<m, r>> \in Kubes \ {j, k}
  <2> SUFFICES ASSUME NEW m \in Names, NEW r \in Resources, m # n PROVE <<m, r>> \in Kubes \ {j, k}
    OBVIOUS
  <2>1. <<m, r>> \in Names \X Resources /\ <<m, r>> \in Kubes /\ <<m, r>> \notin Clusters
    BY DEF Kubes
  <2>2. UserOf(<<m, r>>) = m
    BY <2>1 DEF UserOf
  <2> QED
    BY <1>4, <2>1, <2>2
<1>11. Origins(proc[p])'
  BY <1>2, <1>3, <1>6 DEF Origins, KindAt, Holding
<1>12. Snapshot(proc[p])'
  BY <1>6 DEF Snapshot
<1>13. Matches(proc[p], ctxs[proc[p].name])'
  BY <1>1, <1>2, <1>3, <1>5, <1>6 DEF Matches, Making, Saved, c
<1>14. UserEntries' /\ ActiveKnown' /\ StoredMade'
  BY <1>2, <1>5 DEF UserEntries, ActiveKnown, StoredMade, HasKube
<1>15. n \in old.users => Leads(kfile'["tanzu"], c)
  BY <1>4, <1>5, <1>9 DEF Leads, Ready, j, url
<1>16. Repairs(proc[p])'
  <2>1. CASE s.kind = "login"
    <3>1. n \in old.users /\ (SkipSync \/ old.current = k)
      BY <1>1, <1>2, <2>1 DEF Repairs, old
    <3> QED
      BY <1>5, <1>6, <1>9, <1>15, <3>1 DEF Repairs, j
  <2>2. CASE s.kind # "login"
    BY <1>6, <2>2 DEF Repairs
  <2> QED
    BY <2>1, <2>2
<1>17. Calm(proc[p])'
  <2> SUFFICES ASSUME faults = 0
               PROVE  OrgEntries(proc[p])' /\ AllLead(proc[p])' /\ AllChosen(proc[p])'
    BY <1>5 DEF Calm
  <2>1. OrgEntries(s) /\ AllLead(s) /\ AllChosen(s)
    BY <1>2 DEF Calm
  <2>2. OrgEntries(proc[p])'
    <3>1. ASSUME NEW m \in Names, m # n, HasKube(new, <<m, Org>>)
          PROVE  ctxs[m] # None /\ ctxs[m].type = "tanzu" /\ ctxs[m].kube = <<m, Org>>
      <4>1. HasKube(old, <<m, Org>>)
        BY <1>7, <1>9, <1>10, <3>1 DEF HasKube
      <4> QED
        BY <1>1, <2>1, <3>1, <4>1 DEF OrgEntries, Heir, old
    <3>2. ASSUME HasKube(new, <<n, Org>>) PROVE j = <<n, Org>>
      <4> SUFFICES ASSUME j # <<n, Org>> PROVE FALSE
        OBVIOUS
      <4>1. <<n, Org>> \in Kubes
        BY <1>3 DEF Kubes
      <4>2. k # <<n, Org>>
        BY <1>9, <3>2 DEF HasKube
      <4>3. HasKube(old, <<n, Org>>)
        BY <1>7, <1>9, <3>2, <4>1, <4>2 DEF HasKube
      <4> QED
        BY <1>1, <1>3, <2>1, <4>2, <4>3 DEF OrgEntries, Heir, old
    <3> QED
      BY <1>3, <1>5, <1>6, <3>1, <3>2 DEF OrgEntries, Heir, j
  <2>3. n \in old.users
    <3>1. CASE s.kind = "login"
      BY <1>1, <1>2, <3>1 DEF Repairs, old
    <3>2. CASE s.kind # "login"
      <4>1. Leads(Loaded(ctxs[n]), ctxs[n])
        BY <1>1, <1>3, <1>4, <2>1, <3>2 DEF AllLead, Unsettled
      <4> QED
        BY <1>3, <1>4, <4>1 DEF Leads, Ready, Loaded, FileOf, old
    <3> QED
      BY <3>1, <3>2
  <2>4. AllLead(proc[p])'
    <3>1. ASSUME NEW m \in Names, m # n, ctxs[m] # None, ctxs[m].kube # None
          PROVE  Leads(Loaded(ctxs[m]), ctxs[m])'
      <4>1. Leads(Loaded(ctxs[m]), ctxs[m])
        BY <1>1, <2>1, <3>1 DEF AllLead, Unsettled
      <4>2. CASE ctxs[m].type = "tanzu"
        <5>1. PICK r \in Resources : ctxs[m].kube = <<m, r>>
          BY <1>2, <3>1, <4>2 DEF StoredMade, Made
        <5>2. new.contexts[ctxs[m].kube] = old.contexts[ctxs[m].kube]
          BY <1>9, <1>10, <3>1, <5>1
        <5>3. Leads(new, ctxs[m])
          BY <1>7, <1>9, <4>1, <4>2, <5>2 DEF Leads, Ready, HasKube, Loaded, FileOf, old
        <5> QED
          BY <1>5, <4>2, <5>3 DEF Loaded, FileOf
      <4>3. CASE ctxs[m].type # "tanzu"
        BY <1>5, <4>1, <4>3 DEF Loaded, FileOf
      <4> QED
        BY <4>2, <4>3
    <3>2. Leads(Loaded(proc[p].ctx), proc[p].ctx)'
      BY <1>4, <1>5, <1>6, <1>15, <2>3 DEF Loaded
    <3> QED
      BY <1>5, <1>6, <3>1, <3>2 DEF AllLead, Unsettled
  <2>5. AllChosen(proc[p])'
    <3> SUFFICES ASSUME ~ SkipSync, NEW t \in Kubed, active[t] # None
                 PROVE  /\ active[t] = n => Chosen(Loaded(proc[p].ctx), proc[p].ctx)'
                        /\ active[t] # n => Chosen(Loaded(ctxs[active[t]]), ctxs[active[t]])'
      BY <1>5, <1>6 DEF AllChosen, Awaited, Switched
    <3> DEFINE d == ctxs[active[t]]
    <3>1. Chosen(Loaded(d), d) /\ active[t] \in Names /\ d # None
      BY <1>1, <1>2, <2>1 DEF AllChosen, Awaited, Switched, ActiveKnown, IInv, TypeOK, Kubed, Types
    <3>2. ASSUME active[t] = n PROVE Chosen(Loaded(proc[p].ctx), proc[p].ctx)'
      <4>1. old.current = k
        BY <1>3, <3>1, <3>2 DEF Chosen, Loaded, FileOf, old
      <4> QED
        BY <1>4, <1>5, <1>6, <1>9, <4>1 DEF Chosen, Loaded, HasKube, j
    <3>3. ASSUME active[t] # n PROVE Chosen(Loaded(d), d)'
      <4>1. CASE d.type = "tanzu"
        <5>1. PICK r \in Resources : d.kube = <<active[t], r>>
          BY <1>2, <3>1, <4>1 DEF StoredMade, Made
        <5>2. d.kube # k
          BY <1>10, <3>1, <3>3, <5>1
        <5> QED
          BY <1>5, <1>9, <3>1, <4>1, <5>2 DEF Chosen, Loaded, FileOf, HasKube, old
      <4>2. CASE d.type # "tanzu"
        BY <1>5, <3>1, <4>2 DEF Loaded, FileOf
      <4> QED
        BY <4>1, <4>2
    <3> QED
      BY <3>2, <3>3
  <2> QED
    BY <2>2, <2>4, <2>5
<1> QED
  BY <1>11, <1>12, <1>13, <1>14, <1>16, <1>17 DEF Agreed

\* A deleted entry was that of the context and of no other.
LEMMA WriteDeletedAgreed ==
  ASSUME OwnClusters, IInv, NEW p \in Procs, Agreed(proc[p]), WriteDeleted(p)
  PROVE  Agreed(proc[p])'
<1> USE ConstantsAssumption
<1> DEFINE s == proc[p]
           n == s.name
           c == s.ctx
           k == c.kube
           f == FileOf(c)
           old == Loaded(c)
           new == s.cfg
<1>1. s.pc = "kubedeletewrite" /\ WriteKube(p, "idle")
  BY DEF WriteDeleted, At
<1>2. /\ Origins(s) /\ Snapshot(s) /\ UserEntries /\ ActiveKnown /\ StoredMade /\ Calm(s)
      /\ Matches(s, ctxs[n]) /\ s.kind = "delete"
  BY <1>1 DEF Agreed, Origins, KindAt
<1>3. /\ n \in Names /\ c \in Context /\ Made(n, c) /\ k \in Kubes /\ ctxs[n] = None
      /\ c.type = "tanzu" \/ c.pinniped
  <2>1. PcSound("kubedeletewrite", s.kind, n, c)
    BY <1>1, ProcFacts
  <2> QED
    BY <1>1, <1>2, <2>1, ProcFacts DEF PcSound, Origins, Holding, Matches
<1>4. /\ UNCHANGED <<ctxs, active, faults>> /\ f \in Files
      /\ kfile'[f] = new /\ \A g \in Files : g # f => kfile'[g] = kfile[g]
      /\ old = kfile[f]
  BY <1>1, WriteFacts
<1>5. proc'[p].pc = "idle" /\ proc'[p].kind = s.kind /\ proc'[p].name = n
  BY <1>1, ReturnFields DEF WriteKube
<1>6. old \in KubeConfig /\ old # None /\ old.contexts[k] # None
      /\ new = DeleteContextFromKubeConfig(old, k)
  BY <1>1, <1>2, LoadedFacts DEF Snapshot, HasKube
<1>7. /\ new # None /\ new.contexts[k] = None /\ new.users = old.users \ {UserOf(k)}
      /\ \A j \in Kubes \ {k} : new.contexts[j] = old.contexts[j]
      /\ old.current # k => new.current = old.current
  BY <1>3, <1>6, DeleteEffect
<1>8. \A m \in Names : ctxs[m] # None /\ ctxs[m].kube # None /\ FileOf(ctxs[m]) = f =>
        ctxs[m].kube \in Kubes \ {k} /\ UserOf(ctxs[m].kube) # UserOf(k)
  <2> SUFFICES ASSUME NEW m \in Names, ctxs[m] # None, ctxs[m].kube # None, FileOf(ctxs[m]) = f
               PROVE  ctxs[m].kube \in Kubes \ {k} /\ UserOf(ctxs[m].kube) # UserOf(k)
    OBVIOUS
  <2>1. ctxs[m] \in Context /\ Made(m, ctxs[m]) /\ m # n
    BY <1>2, <1>3 DEF StoredMade, IInv, ContextsInv
  <2>2. ctxs[m].kube # k /\ UserOf(ctxs[m].kube) # UserOf(k)
    BY <1>3, <2>1, KubesApart
  <2> QED
    BY <2>1, <2>2 DEF Context
<1> HIDE DEF c, k, f, old, new
<1>9. Origins(proc[p])' /\ Snapshot(proc[p])' /\ Matches(proc[p], ctxs[proc[p].name])'
  BY <1>2, <1>5, IdleSays
<1>10. Repairs(proc[p])'
  BY <1>2, <1>5 DEF Repairs
<1>11. UserEntries' /\ ActiveKnown' /\ StoredMade'
  <2>1. UserEntries'
    <3>1. CASE f = "user"
      <4> SUFFICES ASSUME NEW j \in Clusters, HasKube(new, j) PROVE j \in new.users
        BY <1>4, <3>1 DEF UserEntries, HasKube
      <4>1. j \in Kubes /\ j # k
        BY <1>7 DEF HasKube, Kubes
      <4>2. j \in old.users
        BY <1>2, <1>4, <1>6, <1>7, <3>1, <4>1 DEF UserEntries, HasKube
      <4>3. k \in Clusters
        <5>1. c.type # "tanzu"
          BY <3>1 DEF f, FileOf
        <5>2. c.pinniped /\ PcSound(s.pc, s.kind, n, c)
          BY <1>3, <5>1, ProcFacts DEF c
        <5> QED
          BY <5>2 DEF PcSound, k
      <4>4. UserOf(k) = k
        BY <4>3 DEF UserOf
      <4> QED
        BY <1>7, <4>1, <4>2, <4>4
    <3>2. CASE f # "user"
      BY <1>2, <1>4, <3>2 DEF UserEntries, HasKube, Files
    <3> QED
      BY <3>1, <3>2
  <2> QED
    BY <1>2, <1>4, <2>1 DEF ActiveKnown, StoredMade
<1>12. Calm(proc[p])'
  <2> SUFFICES ASSUME faults = 0
               PROVE  OrgEntries(proc[p])' /\ AllLead(proc[p])' /\ AllChosen(proc[p])'
    BY <1>4 DEF Calm
  <2>1. OrgEntries(s) /\ AllLead(s) /\ AllChosen(s)
    BY <1>2 DEF Calm
  <2>2. OrgEntries(proc[p])'
    <3> SUFFICES ASSUME NEW m \in Names, HasKube(kfile'["tanzu"], <<m, Org>>)
                 PROVE  ctxs[m] # None /\ ctxs[m].type = "tanzu" /\ ctxs[m].kube = <<m, Org>>
      BY <1>4, <1>5 DEF OrgEntries, Heir, HasKube
    <3>1. <<m, Org>> \in Kubes
      BY DEF Kubes
    <3>2. HasKube(kfile["tanzu"], <<m, Org>>) /\ (f = "tanzu" => <<m, Org>> # k)
      <4>1. CASE f = "tanzu"
        BY <1>4, <1>6, <1>7, <3>1, <4>1 DEF HasKube
      <4>2. CASE f # "tanzu"
        BY <1>4, <4>2 DEF HasKube, Files
      <4> QED
        BY <4>1, <4>2
    <3>3. m # n
      <4> SUFFICES ASSUME m = n PROVE FALSE
        OBVIOUS
      <4>1. c.type = "tanzu" /\ k = <<m, Org>>
        BY <1>1, <2>1, <3>2 DEF OrgEntries, Heir, c, k
      <4> QED
        BY <3>2, <4>1 DEF f, FileOf
    <3> QED
      BY <2>1, <3>2, <3>3 DEF OrgEntries, Heir
  <2>3. AllLead(proc[p])'
    <3>1. ASSUME NEW m \in Names, ctxs[m] # None, ctxs[m].kube # None
          PROVE  Leads(Loaded(ctxs[m]), ctxs[m])'
      <4>1. Leads(Loaded(ctxs[m]), ctxs[m])
        BY <1>1, <1>2, <2>1, <3>1 DEF AllLead, Unsettled
      <4>2. CASE FileOf(ctxs[m]) = f
        <5>1. Leads(new, ctxs[m])
          BY <1>4, <1>6, <1>7, <1>8, <3>1, <4>1, <4>2 DEF Leads, Ready, HasKube, Loaded
        <5> QED
          BY <1>4, <4>2, <5>1 DEF Loaded
      <4>3. CASE FileOf(ctxs[m]) # f
        BY <1>4, <4>1, <4>3 DEF Loaded, FileOf, Files
      <4> QED
        BY <4>2, <4>3
    <3> QED
      BY <1>4, <1>5, <3>1 DEF AllLead
  <2>4. AllChosen(proc[p])'
    <3> SUFFICES ASSUME ~ SkipSync, NEW t \in Kubed, active[t] # None
                 PROVE  Chosen(Loaded(ctxs[active[t]]), ctxs[active[t]])'
      BY <1>4, <1>5 DEF AllChosen, Awaited, Switched
    <3> DEFINE d == ctxs[active[t]]
    <3>1. Chosen(Loaded(d), d) /\ active[t] \in Names /\ d # None /\ d.type \in Kubed
      BY <1>1, <1>2, <2>1 DEF AllChosen, Awaited, Switched, ActiveKnown, IInv, TypeOK, Kubed, Types
    <3>2. d.kube # None
      <4>1. d.type = "tanzu" => d.kube # None
        BY <1>2, <3>1, MadeKube DEF StoredMade
      <4>2. d.type = "kubernetes" => d.kube \in Clusters
        BY <1>2, <3>1, RequestsAssumption DEF StoredMade, Made, Asked
      <4> QED
        BY <3>1, <4>1, <4>2 DEF Kubed, Kubes
    <3>3. CASE FileOf(d) = f
      <4>1. d.kube # k
        BY <1>8, <3>1, <3>2, <3>3
      <4> QED
        BY <1>4, <1>7, <3>1, <3>3, <4>1 DEF Chosen, Loaded
    <3>4. CASE FileOf(d) # f
      BY <1>4, <3>1, <3>4 DEF Chosen, Loaded, FileOf, Files
    <3> QED
      BY <3>3, <3>4
  <2> QED
    BY <2>2, <2>3, <2>4
<1> QED
  BY <1>9, <1>10, <1>11, <1>12 DEF Agreed

-----------------------------------------------------------------------------
(* Changing the CLI configuration *)

\* SetContext stores the context that the command holds.
LEMMA StoresHeld ==
  ASSUME IInv, NEW p \in Procs, Agreed(proc[p]), proc[p].pc \in {"add", "set"},
         SetContext(proc[p].name, proc[p].ctx)
  PROVE  /\ proc[p].name \in Names /\ proc[p].ctx # None
         /\ ctxs'[proc[p].name] = proc[p].ctx
         /\ \A m \in Names \ {proc[p].name} : ctxs'[m] = ctxs[m]
<1> DEFINE n == proc[p].name
           c == proc[p].ctx
<1>1. n \in Names /\ c \in Context
  <2>1. PcSound(proc[p].pc, proc[p].kind, n, c)
    BY ProcFacts
  <2> QED
    BY <2>1, ProcFacts DEF PcSound
<1>2. ctxs[n] # None /\ c.res = None => ctxs[n].res = None
  BY DEF Agreed, Matches, Making, Saved
<1>3. Stored(n, c) = [c EXCEPT !.res = c.res]
  BY <1>2 DEF Stored, ContextExists
<1>4. [c EXCEPT !.res = c.res] = c
  BY <1>1 DEF Context
<1> HIDE DEF n, c
<1>5. ctxs' = [ctxs EXCEPT ![n] = c]
  BY <1>3, <1>4 DEF SetContext, n, c
<1>6. ctxs \in [Names -> Context \cup {None}]
  BY DEF IInv, TypeOK
<1> QED
  BY <1>1, <1>5, <1>6, ConstantsAssumption DEF n, c

\* The active contexts with a kube context: the one just activated, or as before.
LEMMA ActivatedIs ==
  ASSUME NEW n, NEW y \in Types, active' = Activated(n, y)
  PROVE  /\ y \in Kubed => active'[y] = n /\ \A t \in Kubed : active'[t] \in {n, None}
         /\ y = "mission-control" => \A t \in Kubed : active'[t] = active[t]
<1>1. \A t \in Types : active'[t] = CASE t = y -> n
                                      [] t # y /\ {t, y} = {"kubernetes", "tanzu"} -> None
                                      [] OTHER -> active[t]
  BY DEF Activated
<1>2. \A t \in Types : t = y => active'[t] = n
  BY <1>1
<1>3. \A t \in Types : t # y /\ {t, y} = {"kubernetes", "tanzu"} => active'[t] = None
  BY <1>1
<1>4. \A t \in Types : t # y /\ {t, y} # {"kubernetes", "tanzu"} => active'[t] = active[t]
  BY <1>1
<1>5. ASSUME y \in Kubed PROVE active'[y] = n /\ \A t \in Kubed : active'[t] \in {n, None}
  BY <1>2, <1>3, <1>5 DEF Kubed, Types
<1>6. ASSUME y = "mission-control" PROVE \A t \in Kubed : active'[t] = active[t]
  <2>1. \A t \in Kubed : t # y /\ {t, y} # {"kubernetes", "tanzu"} /\ t \in Types
    BY <1>6 DEF Kubed, Types
  <2> QED
    BY <1>4, <2>1
<1> QED
  BY <1>5, <1>6

\* A context has a kube context unless its type has none.
LEMMA MadeHasKube ==
  ASSUME NEW n \in Names, NEW c \in Context, Made(n, c)
  PROVE  c.kube # None <=> c.type \in Kubed
<1>1. c.type = "tanzu" => c.kube # None
  BY MadeKube
<1>2. c.type = "kubernetes" => c.kube \in Clusters
  BY RequestsAssumption DEF Made, Asked
<1>3. c.type = "mission-control" => c.kube = None
  BY DEF Made, Asked
<1> QED
  BY <1>1, <1>2, <1>3, ConstantsAssumption DEF Context, Types, Kubed, Kubes

\* AddContext: the new context is active, and its entry is in place.
LEMMA AddAgreed ==
  ASSUME IInv, NEW p \in Procs, Agreed(proc[p]), AddContext(p) PROVE Agreed(proc[p])'
<1> USE ConstantsAssumption
<1> DEFINE s == proc[p]
           n == s.name
           c == s.ctx
           pc == IF NeedsSync(c) THEN "sync" ELSE AfterSync(s.kind)
<1>1. /\ s.pc = "add" /\ SetContext(n, c) /\ active' = Activated(n, c.type)
      /\ IF pc = "idle" THEN Return(p, "ok") ELSE Goto(p, pc)
      /\ UNCHANGED <<kfile, faults>>
  BY DEF AddContext, At
<1>2. /\ Origins(s) /\ UserEntries /\ ActiveKnown /\ StoredMade /\ Calm(s)
      /\ Matches(s, ctxs[n]) /\ Repairs(s) /\ s.kind \in {"create", "login"}
  BY <1>1 DEF Agreed, Origins, KindAt
<1>3. /\ n \in Names /\ c # None /\ ctxs'[n] = c /\ \A m \in Names \ {n} : ctxs'[m] = ctxs[m]
  BY <1>1, StoresHeld
<1>4. /\ c \in Context /\ Made(n, c) /\ (s.kind = "login" => c.type = "tanzu")
      /\ c.type \in Types
  <2>1. PcSound("add", s.kind, n, c)
    BY <1>1, ProcFacts
  <2> QED
    BY <1>1, <1>2, <2>1, ProcFacts DEF PcSound, Origins, Holding, Context
<1>5. c.kube # None <=> c.type \in Kubed
  BY <1>3, <1>4, MadeHasKube
<1>6. /\ c.kube # None /\ ~ SkipSync => pc = "sync"
      /\ c.kube = None \/ SkipSync => pc = AfterSync(s.kind)
      /\ pc = "idle" => s.kind = "create" /\ (c.kube = None \/ SkipSync)
      /\ pc = "update" => s.kind = "login" /\ SkipSync
      /\ pc \in {"sync", "idle", "update"}
  BY <1>2, <1>4, <1>5 DEF NeedsSync, AfterSync, Kubed
<1>7. /\ proc'[p].pc = pc /\ proc'[p].kind = s.kind /\ proc'[p].name = n
      /\ pc # "idle" => proc'[p].ctx = c
  <2>1. CASE pc = "idle"
    BY <1>1, <2>1, ReturnFields
  <2>2. CASE pc # "idle"
    BY <1>1, <2>2, GotoFields
  <2> QED
    BY <2>1, <2>2
<1>8. /\ c.type \in Kubed => active'[c.type] = n /\ \A t \in Kubed : active'[t] \in {n, None}
      /\ c.type = "mission-control" => \A t \in Kubed : active'[t] = active[t]
  BY <1>1, <1>4, ActivatedIs
<1>9. c.type \in Kubed \/ c.type = "mission-control"
  BY <1>4 DEF Types, Kubed
<1>10. c.type = "mission-control" => s.kind = "create" /\ ctxs[n] = None
  BY <1>1, <1>2, <1>4 DEF Matches, Making
<1> HIDE DEF pc, c
<1>11. Origins(proc[p])'
  BY <1>2, <1>3, <1>4, <1>6, <1>7 DEF Origins, KindAt, Holding
<1>12. Snapshot(proc[p])'
  BY <1>6, <1>7 DEF Snapshot
<1>13. Matches(proc[p], ctxs[proc[p].name])'
  BY <1>2, <1>3, <1>4, <1>6, <1>7 DEF Matches, Making, Saved
<1>14. StoredMade' /\ UserEntries'
  BY <1>1, <1>2, <1>3, <1>4 DEF StoredMade, UserEntries, HasKube
<1>15. ActiveKnown'
  <2>1. CASE c.type \in Kubed
    <3>1. \A t \in Kubed : active'[t] # None => active'[t] = n
      BY <1>8, <2>1
    <3>2. \A t \in Kubed : t # c.type => active'[t] = None
      <4> SUFFICES ASSUME NEW t \in Kubed, t # c.type PROVE active'[t] = None
        OBVIOUS
      <4>1. {t, c.type} = {"kubernetes", "tanzu"} /\ t \in Types
        BY <2>1 DEF Kubed, Types
      <4> QED
        BY <1>1, <4>1 DEF Activated, c
    <3> QED
      BY <1>3, <2>1, <3>1, <3>2 DEF ActiveKnown
  <2>2. CASE c.type = "mission-control"
    <3>1. \A t \in Kubed : active[t] # None => active[t] \in Names \ {n}
      BY <1>2, <1>10, <2>2 DEF ActiveKnown, IInv, TypeOK, Kubed, Types
    <3> QED
      BY <1>2, <1>3, <1>8, <2>2, <3>1 DEF ActiveKnown
  <2> QED
    BY <1>9, <2>1, <2>2
<1>16. Repairs(proc[p])'
  <2>1. CASE s.kind = "login"
    <3>1. HasKube(kfile["tanzu"], c.kube) /\ n \in kfile["tanzu"].users
      BY <1>1, <1>2, <2>1 DEF Repairs, c
    <3>2. pc \in {"sync", "update"} /\ (pc = "update" => SkipSync)
      BY <1>6, <2>1
    <3> QED
      BY <1>1, <1>3, <1>7, <3>1, <3>2 DEF Repairs, HasKube
  <2>2. CASE s.kind # "login"
    BY <1>7, <2>2 DEF Repairs
  <2> QED
    BY <2>1, <2>2
<1>17. Calm(proc[p])'
  <2> SUFFICES ASSUME faults = 0
               PROVE  OrgEntries(proc[p])' /\ AllLead(proc[p])' /\ AllChosen(proc[p])'
    BY <1>1 DEF Calm
  <2>1. OrgEntries(s) /\ AllLead(s) /\ AllChosen(s)
    BY <1>2 DEF Calm
  <2>2. OrgEntries(proc[p])'
    <3> SUFFICES ASSUME NEW m \in Names, HasKube(kfile["tanzu"], <<m, Org>>)
                 PROVE  ctxs'[m] # None /\ ctxs'[m].type = "tanzu" /\ ctxs'[m].kube = <<m, Org>>
      BY <1>1, <1>6, <1>7 DEF OrgEntries, Heir, HasKube
    <3>1. Heir(s, m) # None /\ Heir(s, m).type = "tanzu" /\ Heir(s, m).kube = <<m, Org>>
      BY <2>1 DEF OrgEntries
    <3>2. Heir(s, m) = ctxs'[m]
      BY <1>1, <1>3 DEF Heir, c
    <3> QED
      BY <3>1, <3>2
  <2>3. AllLead(proc[p])'
    <3>1. ASSUME NEW m \in Names, ctxs'[m] # None, ctxs'[m].kube # None,
                 ~ (m = n /\ Unsettled(proc[p])')
          PROVE  Leads(Loaded(ctxs[m]), ctxs[m])'
      <4>1. CASE m # n
        <5>1. Leads(Loaded(ctxs[m]), ctxs[m])
          BY <1>3, <2>1, <3>1, <4>1 DEF AllLead
        <5> QED
          BY <1>1, <1>3, <4>1, <5>1 DEF Loaded
      <4>2. CASE m = n
        <5>1. s.kind = "create" /\ c.kube # None
          BY <1>2, <1>3, <1>6, <1>7, <3>1, <4>2 DEF Unsettled
        <5>2. Leads(Loaded(c), c)
          BY <1>1, <2>1, <5>1 DEF AllLead, c
        <5> QED
          BY <1>1, <1>3, <4>2, <5>2 DEF Loaded
      <4> QED
        BY <4>1, <4>2
    <3>2. proc'[p].pc \notin {"set", "add"}
      BY <1>6, <1>7
    <3> QED
      BY <1>7, <3>1, <3>2 DEF AllLead
  <2>4. AllChosen(proc[p])'
    <3> SUFFICES ASSUME ~ SkipSync
                 PROVE  AllChosen(proc[p])'
      BY DEF AllChosen
    <3>1. CASE c.type \in Kubed
      <4>1. pc = "sync" /\ s.kind # "use"
        BY <1>2, <1>5, <1>6, <3>1
      <4> QED
        BY <1>7, <1>8, <3>1, <4>1 DEF AllChosen, Awaited, Switched
    <3>2. CASE c.type = "mission-control"
      <4>1. pc = "idle"
        BY <1>5, <1>6, <1>10, <3>2 DEF Kubed, AfterSync
      <4>2. ASSUME NEW t \in Kubed, active'[t] # None
            PROVE  Chosen(Loaded(ctxs[active[t]]), ctxs[active[t]])'
        <5>1. active'[t] = active[t]
          BY <1>8, <3>2
        <5>2. active[t] \in Names \ {n}
          BY <1>2, <1>10, <3>2, <4>2, <5>1 DEF ActiveKnown, IInv, TypeOK, Kubed, Types
        <5>3. Chosen(Loaded(ctxs[active[t]]), ctxs[active[t]])
          BY <1>1, <2>1, <4>2, <5>1 DEF AllChosen, Awaited, Switched
        <5> QED
          BY <1>1, <1>3, <5>1, <5>2, <5>3 DEF Loaded
      <4> QED
        BY <1>7, <4>1, <4>2 DEF AllChosen, Awaited, Switched
    <3> QED
      BY <1>9, <3>1, <3>2
  <2> QED
    BY <2>2, <2>3, <2>4
<1> QED
  BY <1>11, <1>12, <1>13, <1>14, <1>15, <1>16, <1>17 DEF Agreed

\* SetContext at the end: the configuration names the entry that was updated.
LEMMA SaveAgreed ==
  ASSUME IInv, NEW p \in Procs, Agreed(proc[p]), SaveContext(p) PROVE Agreed(proc[p])'
<1> DEFINE s == proc[p]
           n == s.name
           c == s.ctx
<1>1. /\ s.pc = "set" /\ SetContext(n, c) /\ Return(p, "ok") /\ UNCHANGED <<active, kfile, faults>>
  BY DEF SaveContext, At
<1>2. /\ Origins(s) /\ UserEntries /\ ActiveKnown /\ StoredMade /\ Calm(s)
      /\ Matches(s, ctxs[n]) /\ Repairs(s)
  BY DEF Agreed
<1>3. /\ n \in Names /\ c # None /\ ctxs'[n] = c /\ \A m \in Names \ {n} : ctxs'[m] = ctxs[m]
  BY <1>1, StoresHeld
<1>4. Made(n, c) /\ c.type = "tanzu" /\ ctxs[n] # None /\ ctxs[n].type = "tanzu"
  BY <1>1, <1>2 DEF Origins, Holding, Matches, Saved
<1>5. /\ proc'[p].pc = "idle" /\ proc'[p].kind = s.kind /\ proc'[p].name = n
      /\ proc'[p].result = "ok"
  BY <1>1, ReturnFields
<1>6. FileOf(c) = "tanzu" /\ Loaded(c) = kfile["tanzu"]
  BY <1>4 DEF FileOf, Loaded
<1> HIDE DEF c
<1>7. Origins(proc[p])' /\ Snapshot(proc[p])' /\ Matches(proc[p], ctxs[proc[p].name])'
  BY <1>3, <1>5, IdleSays
<1>8. StoredMade' /\ UserEntries'
  BY <1>1, <1>2, <1>3, <1>4 DEF StoredMade, UserEntries, HasKube
<1>9. ActiveKnown'
  <2>1. \A t \in Kubed : active[t] \in Names \cup {None}
    BY DEF IInv, TypeOK, Kubed, Types
  <2> QED
    BY <1>1, <1>2, <1>3, <1>4, <2>1 DEF ActiveKnown
<1>10. Repairs(proc[p])'
  <2>1. CASE s.kind = "login"
    <3>1. Leads(kfile["tanzu"], c) /\ (SkipSync \/ kfile["tanzu"].current = c.kube)
      BY <1>1, <1>2, <2>1 DEF Repairs, c
    <3>2. Loaded(ctxs[n])' = kfile["tanzu"]
      BY <1>1, <1>3, <1>5, <1>6 DEF Loaded
    <3> QED
      BY <1>3, <1>5, <3>1, <3>2 DEF Repairs
  <2>2. CASE s.kind # "login"
    BY <1>5, <2>2 DEF Repairs
  <2> QED
    BY <2>1, <2>2
<1>11. Calm(proc[p])'
  <2> SUFFICES ASSUME faults = 0
               PROVE  OrgEntries(proc[p])' /\ AllLead(proc[p])' /\ AllChosen(proc[p])'
    BY <1>1 DEF Calm
  <2>1. OrgEntries(s) /\ AllLead(s) /\ AllChosen(s)
    BY <1>2 DEF Calm
  <2>2. OrgEntries(proc[p])'
    <3> SUFFICES ASSUME NEW m \in Names, HasKube(kfile["tanzu"], <<m, Org>>)
                 PROVE  ctxs'[m] # None /\ ctxs'[m].type = "tanzu" /\ ctxs'[m].kube = <<m, Org>>
      BY <1>1, <1>5 DEF OrgEntries, Heir, HasKube
    <3>1. Heir(s, m) # None /\ Heir(s, m).type = "tanzu" /\ Heir(s, m).kube = <<m, Org>>
      BY <2>1 DEF OrgEntries
    <3>2. Heir(s, m) = ctxs'[m]
      BY <1>1, <1>3 DEF Heir, c
    <3> QED
      BY <3>1, <3>2
  <2>3. AllLead(proc[p])'
    <3>1. ASSUME NEW m \in Names, ctxs'[m] # None, ctxs'[m].kube # None
          PROVE  Leads(Loaded(ctxs[m]), ctxs[m])'
      <4>1. CASE m # n
        <5>1. Leads(Loaded(ctxs[m]), ctxs[m])
          BY <1>3, <2>1, <3>1, <4>1 DEF AllLead
        <5> QED
          BY <1>1, <1>3, <4>1, <5>1 DEF Loaded
      <4>2. CASE m = n
        <5>1. Leads(Loaded(c), c)
          BY <1>1, <2>1 DEF AllLead, c
        <5> QED
          BY <1>1, <1>3, <4>2, <5>1 DEF Loaded
      <4> QED
        BY <4>1, <4>2
    <3> QED
      BY <1>5, <3>1 DEF AllLead
  <2>4. AllChosen(proc[p])'
    <3> SUFFICES ASSUME ~ SkipSync, NEW t \in Kubed, active[t] # None
                 PROVE  Chosen(Loaded(ctxs[active[t]]), ctxs[active[t]])'
      BY <1>1, <1>5 DEF AllChosen, Awaited, Switched
    <3>1. CASE active[t] = n
      <4>1. Chosen(Loaded(c), c)
        BY <1>1, <2>1, <3>1 DEF AllChosen, Switched, c
      <4> QED
        BY <1>1, <1>3, <3>1, <4>1 DEF Loaded
    <3>2. CASE active[t] # n
      <4>1. Chosen(Loaded(ctxs[active[t]]), ctxs[active[t]])
        BY <1>1, <2>1, <3>2 DEF AllChosen, Switched
      <4>2. active[t] \in Names
        BY DEF IInv, TypeOK, Kubed, Types
      <4> QED
        BY <1>1, <1>3, <3>2, <4>1, <4>2 DEF Loaded
    <3> QED
      BY <3>1, <3>2
  <2> QED
    BY <2>2, <2>3, <2>4
<1> QED
  BY <1>7, <1>8, <1>9, <1>10, <1>11 DEF Agreed

\* SetActiveContext after the kube context was made current.
LEMMA ActivateAgreed ==
  ASSUME IInv, NEW p \in Procs, Agreed(proc[p]), SetActiveContext(p) PROVE Agreed(proc[p])'
<1> DEFINE s == proc[p]
           n == s.name
           c == s.ctx
           d == ctxs[n]
<1>1. s.pc = "activate" /\ UNCHANGED <<ctxs, kfile, faults>>
  BY DEF SetActiveContext, At
<1>2. /\ Origins(s) /\ UserEntries /\ ActiveKnown /\ StoredMade /\ Calm(s)
      /\ Matches(s, d) /\ s.kind = "use"
  BY <1>1 DEF Agreed, Origins, KindAt
<1>3. /\ n \in Names /\ d # None /\ d.type = c.type /\ d.kube = c.kube /\ Made(n, d)
      /\ d \in Context
  <2>1. PcSound("activate", s.kind, n, c)
    BY <1>1, ProcFacts
  <2>2. n \in Names /\ d # None /\ d.type = c.type /\ d.kube = c.kube
    BY <1>1, <1>2, <2>1 DEF PcSound, Matches, Saved
  <2> QED
    BY <1>2, <2>2 DEF StoredMade, IInv, ContextsInv
<1>4. active' = Activated(n, d.type) /\ Return(p, "ok")
  BY <1>3 DEF SetActiveContext, ContextExists
<1>5. proc'[p].pc = "idle" /\ proc'[p].kind = s.kind /\ proc'[p].name = n
  BY <1>4, ReturnFields
<1>6. d.type \in Types /\ (d.kube # None <=> d.type \in Kubed)
  BY <1>3, MadeHasKube DEF Context
<1>7. /\ d.type \in Kubed => active'[d.type] = n /\ \A t \in Kubed : active'[t] \in {n, None}
      /\ d.type = "mission-control" => \A t \in Kubed : active'[t] = active[t]
  BY <1>4, <1>6, ActivatedIs
<1>8. d.type \in Kubed \/ d.type = "mission-control"
  BY <1>6 DEF Types, Kubed
<1>9. Origins(proc[p])' /\ Snapshot(proc[p])' /\ Matches(proc[p], ctxs[proc[p].name])'
  BY <1>3, <1>5, IdleSays
<1>10. StoredMade' /\ UserEntries'
  BY <1>1, <1>2 DEF StoredMade, UserEntries, HasKube
<1>11. ActiveKnown'
  <2>1. CASE d.type \in Kubed
    <3>1. \A t \in Kubed : active'[t] # None => active'[t] = n
      BY <1>7, <2>1
    <3>2. \A t \in Kubed : t # d.type => active'[t] = None
      <4> SUFFICES ASSUME NEW t \in Kubed, t # d.type PROVE active'[t] = None
        OBVIOUS
      <4>1. {t, d.type} = {"kubernetes", "tanzu"} /\ t \in Types
        BY <2>1 DEF Kubed, Types
      <4> QED
        BY <1>4, <4>1 DEF Activated
    <3> QED
      BY <1>1, <1>3, <2>1, <3>1, <3>2 DEF ActiveKnown
  <2>2. CASE d.type = "mission-control"
    BY <1>1, <1>2, <1>7, <2>2 DEF ActiveKnown
  <2> QED
    BY <1>8, <2>1, <2>2
<1>12. Repairs(proc[p])'
  BY <1>2, <1>5 DEF Repairs
<1>13. Calm(proc[p])'
  <2> SUFFICES ASSUME faults = 0
               PROVE  OrgEntries(proc[p])' /\ AllLead(proc[p])' /\ AllChosen(proc[p])'
    BY <1>1 DEF Calm
  <2>1. OrgEntries(s) /\ AllLead(s) /\ AllChosen(s)
    BY <1>2 DEF Calm
  <2>2. OrgEntries(proc[p])'
    BY <1>1, <1>5, <2>1 DEF OrgEntries, Heir, HasKube
  <2>3. AllLead(proc[p])'
    BY <1>1, <1>2, <1>5, <2>1 DEF AllLead, Unsettled, Leads, Ready, HasKube, Loaded, FileOf
  <2>4. AllChosen(proc[p])'
    <3> SUFFICES ASSUME ~ SkipSync, NEW t \in Kubed, active'[t] # None
                 PROVE  Chosen(Loaded(ctxs[active[t]]), ctxs[active[t]])'
      BY <1>5 DEF AllChosen, Awaited, Switched
    <3>1. CASE d.type \in Kubed
      <4>1. active'[t] = n
        BY <1>7, <3>1
      <4>2. Chosen(Loaded(c), c)
        BY <1>1, <1>3, <1>6, <2>1, <3>1 DEF AllChosen, Switched
      <4> QED
        BY <1>1, <1>3, <4>1, <4>2 DEF Chosen, Loaded, FileOf
    <3>2. CASE d.type = "mission-control"
      <4>1. ~ Switched(s)
        BY <1>3, <1>6, <3>2 DEF Switched, Kubed
      <4>2. Chosen(Loaded(ctxs[active[t]]), ctxs[active[t]])
        BY <1>1, <1>7, <2>1, <3>2, <4>1 DEF AllChosen, Awaited
      <4> QED
        BY <1>1, <1>7, <3>2, <4>2 DEF Loaded
    <3> QED
      BY <1>8, <3>1, <3>2
  <2> QED
    BY <2>2, <2>3, <2>4
<1> QED
  BY <1>9, <1>10, <1>11, <1>12, <1>13 DEF Agreed

\* RemoveActiveContext asks nothing of the files.
LEMMA UnsetAgreed ==
  ASSUME IInv, NEW p \in Procs, Agreed(proc[p]), unsetGivenContext(p) PROVE Agreed(proc[p])'
<1> DEFINE s == proc[p]
<1>1. /\ s.pc = "unset" /\ UNCHANGED <<ctxs, kfile, faults>> /\ Return(p, "ok")
      /\ active' = [active EXCEPT ![s.type] = None]
  BY DEF unsetGivenContext, At
<1>2. /\ Origins(s) /\ UserEntries /\ ActiveKnown /\ StoredMade /\ Calm(s) /\ s.kind = "unset"
  BY <1>1 DEF Agreed, Origins, KindAt
<1>3. proc'[p].pc = "idle" /\ proc'[p].kind = s.kind /\ proc'[p].name = s.name
  BY <1>1, ReturnFields
<1>4. \A t \in Kubed : active'[t] # None => active'[t] = active[t]
  BY <1>1 DEF IInv, TypeOK, Kubed, Types
<1>5. Origins(proc[p])' /\ Snapshot(proc[p])' /\ Matches(proc[p], ctxs[proc[p].name])'
  BY <1>2, <1>3, IdleSays
<1>6. StoredMade' /\ UserEntries' /\ ActiveKnown'
  BY <1>1, <1>2, <1>4 DEF StoredMade, UserEntries, HasKube, ActiveKnown
<1>7. Repairs(proc[p])'
  BY <1>2, <1>3 DEF Repairs
<1>8. Calm(proc[p])'
  <2> SUFFICES ASSUME faults = 0
               PROVE  OrgEntries(proc[p])' /\ AllLead(proc[p])' /\ AllChosen(proc[p])'
    BY <1>1 DEF Calm
  <2>1. OrgEntries(s) /\ AllLead(s) /\ AllChosen(s)
    BY <1>2 DEF Calm
  <2>2. OrgEntries(proc[p])'
    BY <1>1, <1>3, <2>1 DEF OrgEntries, Heir, HasKube
  <2>3. AllLead(proc[p])'
    BY <1>1, <1>2, <1>3, <2>1 DEF AllLead, Unsettled, Leads, Ready, HasKube, Loaded, FileOf
  <2>4. AllChosen(proc[p])'
    BY <1>1, <1>2, <1>3, <1>4, <2>1 DEF AllChosen, Awaited, Switched, Chosen, Loaded, FileOf
  <2> QED
    BY <2>2, <2>3, <2>4
<1> QED
  BY <1>5, <1>6, <1>7, <1>8 DEF Agreed

\* RemoveContext: the entry is left to the rest of the command.
LEMMA RemoveAgreed ==
  ASSUME IInv, NEW p \in Procs, Agreed(proc[p]), deleteCtx(p) PROVE Agreed(proc[p])'
<1> DEFINE s == proc[p]
           n == s.name
           c == s.ctx
<1>1. s.pc = "remove" /\ UNCHANGED <<kfile, faults>>
  BY DEF deleteCtx, At
<1>2. /\ Origins(s) /\ UserEntries /\ ActiveKnown /\ StoredMade /\ Calm(s)
      /\ Matches(s, ctxs[n]) /\ s.kind = "delete"
  BY <1>1 DEF Agreed, Origins, KindAt
<1>3. n \in Names /\ ctxs[n] # None /\ ctxs[n].type = c.type /\ ctxs[n].kube = c.kube /\ Made(n, c)
  <2>1. PcSound("remove", s.kind, n, c)
    BY <1>1, ProcFacts
  <2> QED
    BY <1>1, <1>2, <2>1 DEF PcSound, Matches, Saved, Origins, Holding
<1>4. /\ ctxs' = [ctxs EXCEPT ![n] = None]
      /\ active' = [t \in Types |-> IF active[t] = n THEN None ELSE active[t]]
      /\ IF c.type = "tanzu" \/ c.pinniped THEN Goto(p, "kubedelete") ELSE Return(p, "ok")
  BY <1>3 DEF deleteCtx, ContextExists
<1>5. /\ ctxs'[n] = None /\ \A m \in Names \ {n} : ctxs'[m] = ctxs[m]
      /\ \A t \in Kubed : active'[t] # None => active'[t] = active[t] /\ active[t] \in Names \ {n}
  BY <1>3, <1>4 DEF IInv, TypeOK, Kubed, Types
<1>6. /\ proc'[p].kind = s.kind /\ proc'[p].name = n
      /\ \/ proc'[p].pc = "idle" /\ c.type # "tanzu"
         \/ proc'[p].pc = "kubedelete" /\ proc'[p].ctx = c /\ (c.type = "tanzu" \/ c.pinniped)
  <2>1. CASE c.type = "tanzu" \/ c.pinniped
    BY <1>4, <2>1, GotoFields
  <2>2. CASE ~ (c.type = "tanzu" \/ c.pinniped)
    BY <1>4, <2>2, ReturnFields
  <2> QED
    BY <2>1, <2>2
<1> HIDE DEF c
<1>7. Origins(proc[p])'
  BY <1>2, <1>3, <1>6 DEF Origins, KindAt, Holding
<1>8. Snapshot(proc[p])'
  BY <1>6 DEF Snapshot
<1>9. Matches(proc[p], ctxs[proc[p].name])'
  BY <1>2, <1>5, <1>6 DEF Matches, Making, Saved
<1>10. StoredMade' /\ UserEntries' /\ ActiveKnown'
  BY <1>1, <1>2, <1>3, <1>5 DEF StoredMade, UserEntries, HasKube, ActiveKnown
<1>11. Repairs(proc[p])'
  BY <1>2, <1>6 DEF Repairs
<1>12. Calm(proc[p])'
  <2> SUFFICES ASSUME faults = 0
               PROVE  OrgEntries(proc[p])' /\ AllLead(proc[p])' /\ AllChosen(proc[p])'
    BY <1>1 DEF Calm
  <2>1. OrgEntries(s) /\ AllLead(s) /\ AllChosen(s)
    BY <1>2 DEF Calm
  <2>2. OrgEntries(proc[p])'
    <3> SUFFICES ASSUME NEW m \in Names, HasKube(kfile["tanzu"], <<m, Org>>)
                 PROVE  (Heir(proc[p], m) # None /\ Heir(proc[p], m).type = "tanzu"
                         /\ Heir(proc[p], m).kube = <<m, Org>>)'
      BY <1>1 DEF OrgEntries, HasKube
    <3>1. ctxs[m] # None /\ ctxs[m].type = "tanzu" /\ ctxs[m].kube = <<m, Org>>
      BY <1>1, <2>1 DEF OrgEntries, Heir
    <3>2. CASE m # n
      BY <1>5, <1>6, <3>1, <3>2 DEF Heir
    <3>3. CASE m = n
      <4>1. c.type = "tanzu" /\ c.kube = <<m, Org>>
        BY <1>3, <3>1, <3>3
      <4>2. c # None
        <5>1. c \in Context
          BY ProcFacts DEF c
        <5> QED
          BY <5>1, ConstantsAssumption
      <4> QED
        BY <1>6, <3>3, <4>1, <4>2 DEF Heir
    <3> QED
      BY <3>2, <3>3
  <2>3. AllLead(proc[p])'
    <3>1. ASSUME NEW m \in Names, ctxs'[m] # None, ctxs'[m].kube # None
          PROVE  Leads(Loaded(ctxs[m]), ctxs[m])'
      <4>1. m # n /\ ctxs'[m] = ctxs[m]
        BY <1>5, <3>1
      <4>2. Leads(Loaded(ctxs[m]), ctxs[m])
        BY <2>1, <3>1, <4>1 DEF AllLead
      <4> QED
        BY <1>1, <4>1, <4>2 DEF Loaded
    <3> QED
      BY <1>6, <3>1 DEF AllLead
  <2>4. AllChosen(proc[p])'
    <3> SUFFICES ASSUME ~ SkipSync, NEW t \in Kubed, active'[t] # None
                 PROVE  Chosen(Loaded(ctxs[active[t]]), ctxs[active[t]])'
      BY <1>6 DEF AllChosen, Awaited, Switched
    <3>1. active'[t] = active[t] /\ active[t] \in Names \ {n}
      BY <1>5
    <3>2. Chosen(Loaded(ctxs[active[t]]), ctxs[active[t]])
      BY <1>1, <2>1, <3>1 DEF AllChosen, Awaited, Switched
    <3> QED
      BY <1>1, <1>5, <3>1, <3>2 DEF Loaded
  <2> QED
    BY <2>2, <2>3, <2>4
<1> QED
  BY <1>7, <1>8, <1>9, <1>10, <1>11, <1>12 DEF Agreed

-----------------------------------------------------------------------------
\* A command begins with nothing pending.
LEMMA BeginAgreed ==
  ASSUME IInv, NEW p \in Procs, Agreed(proc[p]), Begin(p) PROVE Agreed(proc[p])'
<1> DEFINE s == proc[p]
<1>1. s.pc = "idle" /\ UNCHANGED <<ctxs, active, kfile, faults>>
  BY DEF Begin, At
<1>2. UserEntries /\ ActiveKnown /\ StoredMade /\ Calm(s)
  BY DEF Agreed
<1>3. proc \in [Procs -> ProcState]
  BY DEF IInv, TypeOK
<1>4. \E t : /\ proc'[p] = t
             /\ t.pc \in {"check", "metadata", "get", "unset"}
             /\ KindAt(t.pc, t.kind)
             /\ t.kind = "login" => t.name \in Names
             /\ t.pc \in {"check", "metadata"} => Asked(t.name, t.ctx)
             /\ t.pc = "metadata" => t.kind = "login"
             /\ t.pc = "check" => t.ctx.res = None
  <2>1. CASE \E q \in Requests, b \in StableModes :
               Become(p, [Idle EXCEPT !.pc = "check", !.kind = "create", !.name = q.name,
                                      !.ctx = q.ctx, !.tls = q.tls, !.stable = b])
    <3>1. PICK q \in Requests, b \in StableModes :
               Become(p, [Idle EXCEPT !.pc = "check", !.kind = "create", !.name = q.name,
                                      !.ctx = q.ctx, !.tls = q.tls, !.stable = b])
      BY <2>1
    <3> DEFINE t == [Idle EXCEPT !.pc = "check", !.kind = "create", !.name = q.name,
                                 !.ctx = q.ctx, !.tls = q.tls, !.stable = b]
    <3>2. t.pc = "check" /\ t.kind = "create" /\ t.name = q.name /\ t.ctx = q.ctx
      BY DEF Idle
    <3>3. proc'[p] = t
      BY <1>3, <3>1 DEF Become
    <3> HIDE DEF t
    <3>4. Asked(q.name, q.ctx) /\ q.ctx.res = None
      <4>1. q.ctx \in Context
        BY RequestsAssumption DEF Request
      <4>2. q.ctx.type = "tanzu" => q.ctx.endpoint \in Orgs /\ ~ q.ctx.pinniped
        BY <4>1, RequestsAssumption DEF Context
      <4>3. q.ctx.type = "mission-control" => q.ctx.kube = None /\ ~ q.ctx.pinniped
        BY RequestsAssumption
      <4> QED
        BY <4>2, <4>3, RequestsAssumption DEF Asked
    <3> QED
      BY <3>2, <3>3, <3>4 DEF KindAt
  <2>2. CASE \E n \in LoginNames, o \in Orgs, y \in TLSOptions, b \in StableModes :
               Become(p, [Idle EXCEPT !.pc = "metadata", !.kind = "login", !.name = n, !.tls = y,
                                      !.ctx = [NoContext EXCEPT !.endpoint = o], !.stable = b])
    <3>1. PICK n \in LoginNames, o \in Orgs, y \in TLSOptions, b \in StableModes :
               Become(p, [Idle EXCEPT !.pc = "metadata", !.kind = "login", !.name = n, !.tls = y,
                                      !.ctx = [NoContext EXCEPT !.endpoint = o], !.stable = b])
      BY <2>2
    <3> DEFINE c == [NoContext EXCEPT !.endpoint = o]
    <3>2. c.type = "tanzu" /\ c.endpoint = o /\ c.pinniped = FALSE
      BY DEF NoContext
    <3>3. proc'[p] = [Idle EXCEPT !.pc = "metadata", !.kind = "login", !.name = n, !.tls = y,
                                  !.ctx = c, !.stable = b]
      BY <1>3, <3>1 DEF Become
    <3> HIDE DEF c
    <3> DEFINE t == [Idle EXCEPT !.pc = "metadata", !.kind = "login", !.name = n, !.tls = y,
                                 !.ctx = c, !.stable = b]
    <3>4. t.pc = "metadata" /\ t.kind = "login" /\ t.name = n /\ t.ctx = c
      BY DEF Idle
    <3>5. proc'[p] = t
      BY <3>3
    <3> HIDE DEF t
    <3>6. Asked(n, c) /\ n \in Names
      BY <3>2, ConstantsAssumption DEF Asked
    <3> QED
      BY <3>4, <3>5, <3>6 DEF KindAt
  <2>3. CASE \E k \in Kinds \cap {"use", "delete", "token"}, n \in Names :
               Become(p, [Idle EXCEPT !.pc = "get", !.kind = k, !.name = n])
    <3>1. PICK k \in Kinds \cap {"use", "delete", "token"}, n \in Names :
               Become(p, [Idle EXCEPT !.pc = "get", !.kind = k, !.name = n])
      BY <2>3
    <3> DEFINE t == [Idle EXCEPT !.pc = "get", !.kind = k, !.name = n]
    <3>2. t.pc = "get" /\ t.kind = k /\ t.name = n
      BY DEF Idle
    <3>3. proc'[p] = t
      BY <1>3, <3>1 DEF Become
    <3> HIDE DEF t
    <3> QED
      BY <3>2, <3>3 DEF KindAt
  <2>4. CASE \E n \in Names, r \in Resources, b \in StableModes :
               Become(p, [Idle EXCEPT !.pc = "get", !.kind = "resource", !.name = n, !.res = r,
                                      !.stable = b])
    <3>1. PICK n \in Names, r \in Resources, b \in StableModes :
               Become(p, [Idle EXCEPT !.pc = "get", !.kind = "resource", !.name = n, !.res = r,
                                      !.stable = b])
      BY <2>4
    <3> DEFINE t == [Idle EXCEPT !.pc = "get", !.kind = "resource", !.name = n, !.res = r,
                                 !.stable = b]
    <3>2. t.pc = "get" /\ t.kind = "resource" /\ t.name = n
      BY DEF Idle
    <3>3. proc'[p] = t
      BY <1>3, <3>1 DEF Become
    <3> HIDE DEF t
    <3> QED
      BY <3>2, <3>3 DEF KindAt
  <2>5. CASE \E y \in Types :
               /\ active[y] # None
               /\ Become(p, [Idle EXCEPT !.pc = "unset", !.kind = "unset", !.name = active[y],
                                         !.type = y])
    <3>1. PICK y \in Types :
               /\ active[y] # None
               /\ Become(p, [Idle EXCEPT !.pc = "unset", !.kind = "unset", !.name = active[y],
                                         !.type = y])
      BY <2>5
    <3> DEFINE t == [Idle EXCEPT !.pc = "unset", !.kind = "unset", !.name = active[y], !.type = y]
    <3>2. t.pc = "unset" /\ t.kind = "unset"
      BY DEF Idle
    <3>3. proc'[p] = t
      BY <1>3, <3>1 DEF Become
    <3> HIDE DEF t
    <3> QED
      BY <3>2, <3>3 DEF KindAt
  <2> QED
    BY <2>1, <2>2, <2>3, <2>4, <2>5 DEF Begin
<1>5. Origins(proc[p])'
  BY <1>4 DEF Origins, Holding
<1>6. Snapshot(proc[p])'
  BY <1>4 DEF Snapshot
<1>7. Matches(proc[p], ctxs[proc[p].name])'
  BY <1>4 DEF Matches, Making, Saved
<1>8. Repairs(proc[p])'
  BY <1>4 DEF Repairs
<1>9. Calm(proc[p])'
  BY <1>1, <1>2, <1>4, PlainCalm DEF Plain, Awaited, Unsettled
<1> QED
  BY <1>1, <1>2, <1>5, <1>6, <1>7, <1>8, <1>9, FilesStay DEF Agreed

\* After a fault only what a login repairs is promised.
LEMMA FaultAgreed ==
  ASSUME IInv, NEW p \in Procs, Agreed(proc[p]), Crash(p) \/ Fail(p) PROVE Agreed(proc[p])'
<1>1. PICK r \in {"unsaved", "error", "crashed"} : Return(p, r)
  BY DEF Crash, Fail
<1>2. UNCHANGED <<ctxs, active, kfile>> /\ faults' = faults + 1 /\ faults \in Nat
  BY DEF Crash, Fail, LeavesConfig, IInv, TypeOK
<1> QED
  BY <1>1, <1>2, EndsAgreed

\* A stuttering step.
LEMMA StutterAgreed ==
  ASSUME NEW p, Agreed(proc[p]), UNCHANGED vars PROVE Agreed(proc[p])'
<1>1. UNCHANGED <<ctxs, active, kfile, proc, faults>>
  BY DEF vars
<1>2. Origins(proc[p])'
  BY <1>1 DEF Agreed, Origins
<1>3. Snapshot(proc[p])'
  BY <1>1 DEF Agreed, Snapshot, HasKube, Loaded, FileOf
<1>4. Matches(proc[p], ctxs[proc[p].name])'
  BY <1>1 DEF Agreed
<1>5. Repairs(proc[p])'
  BY <1>1 DEF Agreed, Repairs, HasKube, Leads, Ready, Loaded, FileOf
<1>6. Calm(proc[p])'
  <2>1. OrgEntries(proc[p]) => OrgEntries(proc[p])'
    BY <1>1 DEF OrgEntries, Heir, HasKube
  <2>2. AllLead(proc[p]) => AllLead(proc[p])'
    BY <1>1 DEF AllLead, Unsettled, Leads, Ready, HasKube, Loaded, FileOf
  <2>3. AllChosen(proc[p]) => AllChosen(proc[p])'
    BY <1>1 DEF AllChosen, Awaited, Switched, Chosen, Loaded, FileOf
  <2> QED
    BY <1>1, <2>1, <2>2, <2>3 DEF Agreed, Calm
<1> QED
  BY <1>1, <1>2, <1>3, <1>4, <1>5, <1>6, FilesStay DEF Agreed

\* Initially nothing is stored; the user's clusters have their users.
LEMMA InitiallyAgreed == ASSUME Init, NEW p \in Procs PROVE Agreed(proc[p])
<1> USE ConstantsAssumption
<1>1. proc[p] = Idle /\ ctxs = [n \in Names |-> None] /\ active = [t \in Types |-> None]
      /\ kfile["tanzu"] = None
  BY DEF Init, Files
<1>2. proc[p].pc = "idle" /\ proc[p].kind = "none"
  BY <1>1 DEF Idle
<1>3. Origins(proc[p])
  BY <1>2 DEF Origins, KindAt, Holding
<1>4. Snapshot(proc[p]) /\ Repairs(proc[p])
  BY <1>2 DEF Snapshot, Repairs
<1>5. Matches(proc[p], ctxs[proc[p].name])
  BY <1>2 DEF Matches, Making, Saved
<1>6. StoredMade /\ ActiveKnown
  BY <1>1 DEF StoredMade, ActiveKnown, Kubed, Types
<1>7. UserEntries
  <2> DEFINE ks == [k \in Kubes |-> IF k \in UserClusters
                                   THEN [server |-> k, ca |-> None, skip |-> FALSE] ELSE None]
  <2>1. kfile["user"] = [contexts |-> ks, users |-> UserClusters, current |-> None]
    BY DEF Init, Files
  <2>2. \A k \in Clusters : k \in Kubes /\ (ks[k] # None => k \in UserClusters)
    BY DEF Kubes
  <2> HIDE DEF ks
  <2>3. kfile["user"].contexts = ks /\ kfile["user"].users = UserClusters
    BY <2>1
  <2> QED
    BY <2>2, <2>3 DEF UserEntries, HasKube
<1>8. OrgEntries(proc[p]) /\ AllLead(proc[p])
  BY <1>1, <1>2 DEF OrgEntries, AllLead, HasKube
<1>9. AllChosen(proc[p])
  BY <1>1, <1>2 DEF AllChosen, Awaited, Switched, Kubed, Types
<1> QED
  BY <1>3, <1>4, <1>5, <1>6, <1>7, <1>8, <1>9 DEF Agreed, Calm

-----------------------------------------------------------------------------
\* With one process the configuration and the kubeconfig files agree in every state, up
\* to what the running command is about to do.
THEOREM FilesAgree ==
  ASSUME NEW p, Procs = {p}, OwnClusters PROVE Spec => [](IInv /\ Agreed(proc[p]))
<1>1. Init => IInv /\ Agreed(proc[p])
  BY Initially, InitiallyAgreed
<1>2. IInv /\ Agreed(proc[p]) /\ [Next]_vars => Agreed(proc[p])'
  <2> SUFFICES ASSUME IInv, Agreed(proc[p]), [Next]_vars PROVE Agreed(proc[p])'
    OBVIOUS
  <2>1. CASE UNCHANGED vars
    BY <2>1, StutterAgreed
  <2>2. CASE Begin(p)
    BY <2>2, BeginAgreed
  <2>3. CASE Step(p)
    BY <2>3, CheckAgreed, MetadataAgreed, MergeAgreed, WriteMergedAgreed, VersionAgreed, AddAgreed,
       GetAgreed, SyncAgreed, WriteSyncedAgreed, UpdateAgreed, WriteUpdatedAgreed, SaveAgreed,
       ActivateAgreed, UnsetAgreed, RemoveAgreed, KubeDeleteAgreed, WriteDeletedAgreed DEF Step
  <2>4. CASE Crash(p) \/ Fail(p)
    BY <2>4, FaultAgreed
  <2> QED
    BY <2>1, <2>2, <2>3, <2>4 DEF Next
<1> QED
  BY <1>1, <1>2, ContextsInvariance, PTL DEF Spec

\* kubectl and the CLI agree between commands: the kube context of the active context is
\* current, after any sequence of creations, logins, renames, deletions and switches.
THEOREM KubectlAgrees ==
  ASSUME NEW p, Procs = {p}, OwnClusters PROVE Spec => []ActiveIsCurrent
<1>1. IInv /\ Agreed(proc[p]) => ActiveIsCurrent
  <2> SUFFICES ASSUME IInv, Agreed(proc[p]), Undisturbed, ~ SkipSync,
                      NEW t \in {"kubernetes", "tanzu"}, active[t] # None
               PROVE  /\ ctxs[active[t]] # None /\ Loaded(ctxs[active[t]]) # None
                      /\ Loaded(ctxs[active[t]]).current = ctxs[active[t]].kube
    BY DEF ActiveIsCurrent
  <2>1. proc[p].pc = "idle" /\ faults = 0
    BY DEF Undisturbed, AtRest, At
  <2>2. AllChosen(proc[p]) /\ ActiveKnown
    BY <2>1 DEF Agreed, Calm
  <2> QED
    BY <2>1, <2>2 DEF AllChosen, ActiveKnown, Kubed, Awaited, Switched, Chosen
<1> QED
  BY <1>1, FilesAgree, PTL

\* Between commands every context can be used: its entry is there, with its user, and
\* leads to its organization and resource.
THEOREM ContextsStayUsable ==
  ASSUME NEW p, Procs = {p}, OwnClusters PROVE Spec => []ContextsUsable
<1>1. IInv /\ Agreed(proc[p]) => ContextsUsable
  <2> SUFFICES ASSUME IInv, Agreed(proc[p]), Undisturbed,
                      NEW n \in Names, ctxs[n] # None, ctxs[n].kube # None
               PROVE  Usable(n)
    BY DEF ContextsUsable
  <2>1. proc[p].pc = "idle" /\ faults = 0
    BY DEF Undisturbed, AtRest, At
  <2>2. Leads(Loaded(ctxs[n]), ctxs[n])
    BY <2>1 DEF Agreed, Calm, AllLead, Unsettled
  <2> QED
    BY <2>2 DEF Leads, Ready, Usable
<1> QED
  BY <1>1, FilesAgree, PTL

\* A login that ends well repairs its context whatever crashes and failed writes left in
\* both files before.
THEOREM LoginsRepair ==
  ASSUME NEW p, Procs = {p}, OwnClusters PROVE Spec => []LoginRepairs
<1>1. IInv /\ Agreed(proc[p]) => LoginRepairs
  <2> SUFFICES ASSUME IInv, Agreed(proc[p]), proc[p].pc = "idle", proc[p].kind = "login",
                      proc[p].result = "ok"
               PROVE  LET n == proc[p].name IN
                      /\ ctxs[n] # None /\ Usable(n)
                      /\ SkipSync \/ Loaded(ctxs[n]).current = ctxs[n].kube
    BY DEF LoginRepairs, At
  <2> DEFINE n == proc[p].name
  <2>1. /\ ctxs[n] # None /\ Leads(Loaded(ctxs[n]), ctxs[n])
        /\ SkipSync \/ Loaded(ctxs[n]).current = ctxs[n].kube
    BY DEF Agreed, Repairs
  <2> QED
    BY <2>1 DEF Leads, Ready, Usable
<1> QED
  BY <1>1, FilesAgree, PTL
=============================================================================
