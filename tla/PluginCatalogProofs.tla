------------------------- MODULE PluginCatalogProofs -------------------------
(***************************************************************************)
(* For any number of processes, plugins, contexts and operations, with     *)
(* crashes, failed writes and `plugin clean`: the catalogs stay well formed *)
(* and the locks are accounted for, and the catalog implements the store   *)
(* of InstalledPlugins, so that what readers see changes by whole          *)
(* operations only.  Where nothing fails, updates touch their own keys     *)
(* only, what a session was for is on disk when it unlocks, and what is    *)
(* listed has its binary.                                                  *)
(***************************************************************************)
EXTENDS PluginCatalog, TLAPS

-----------------------------------------------------------------------------
(* The edits of a catalog keep it a catalog and keep it well formed.        *)


\* The key of a plugin, and the keys it supersedes, are keys.
LEMMA KeysType ==
  ASSUME NEW pl \in Plugins
  PROVE  /\ KeyOf(pl) \in Keys
         /\ \A t \in {TargetUnknown, TargetGlobal, TargetK8s} :
              PluginNameTarget(pl.name, t) \in Keys
BY DEF KeyOf, PluginNameTarget, Keys, Names, Targets

\* A missing catalog.yaml decodes to a well-formed catalog.
LEMMA NewCatalog == newSharedCatalog \in Catalog /\ WellFormed(newSharedCatalog)
<1>1. NoAssociation \in PluginAssociation
  BY DEF NoAssociation, PluginAssociation
<1>2. newSharedCatalog \in Catalog
  BY <1>1 DEF newSharedCatalog, Catalog, Infos
<1>3. ASSUME NEW n \in AllContexts
      PROVE  Association(newSharedCatalog, n) = NoAssociation
  BY DEF Association, AllContexts, newSharedCatalog
<1>4. WellFormed(newSharedCatalog)
  BY <1>3 DEF WellFormed, NoAssociation
<1> QED BY <1>2, <1>4

\* The associations of a catalog are associations.
LEMMA AssociationType ==
  ASSUME NEW c \in Catalog, NEW n \in AllContexts
  PROVE  Association(c, n) \in PluginAssociation
BY DEF Association, Catalog, AllContexts

\* ContextCatalog.Upsert leaves a well-formed catalog.
LEMMA UpsertKeeps ==
  ASSUME NEW c \in Catalog, NEW pl \in Plugins
  PROVE  /\ Upsert(c, pl) \in Catalog
         /\ WellFormed(c) => WellFormed(Upsert(c, pl))
<1> DEFINE d == Upsert(c, pl)
<1>1. KeyOf(pl) \in Keys
  BY KeysType
<1>2. d \in Catalog
  <2>1. [k \in Keys |-> IF k = KeyOf(pl) THEN pl
                        ELSE IF k \in Superseded(pl) THEN NoPlugin
                        ELSE c.standAlone[k]] \in PluginAssociation
    BY DEF Catalog, PluginAssociation
  <2>2. [c.indexByPath EXCEPT ![pl] = "new"] \in [Plugins -> Infos]
    BY DEF Catalog, Infos
  <2>3. [c.indexByName EXCEPT ![KeyOf(pl)] = @ \cup {pl}] \in [Keys -> SUBSET Plugins]
    BY <1>1 DEF Catalog
  <2> QED BY <2>1, <2>2, <2>3 DEF Upsert, Catalog
<1>3. ASSUME WellFormed(c), NEW n \in AllContexts, NEW k \in Keys,
             Association(d, n)[k] # NoPlugin
      PROVE  /\ KeyOf(Association(d, n)[k]) = k
             /\ d.indexByPath[Association(d, n)[k]] # "none"
             /\ Association(d, n)[k] \in d.indexByName[k]
  <2>1. CASE n = StandAlone /\ k = KeyOf(pl)
    <3>1. Association(d, n)[k] = pl
      BY <2>1, <1>1 DEF Association, Upsert, Catalog
    <3>2. d.indexByPath[pl] = "new" /\ pl \in d.indexByName[KeyOf(pl)]
      BY <1>1 DEF Upsert, Catalog
    <3> QED BY <2>1, <3>1, <3>2
  <2>2. CASE ~(n = StandAlone /\ k = KeyOf(pl))
    <3>1. Association(d, n)[k] = Association(c, n)[k]
      BY <2>2, <1>3, DataAssumption DEF Association, Upsert, Catalog, AllContexts
    <3>2. Association(c, n)[k] \in Plugins
      BY <3>1, <1>3, AssociationType DEF PluginAssociation
    <3>3. /\ KeyOf(Association(c, n)[k]) = k
          /\ c.indexByPath[Association(c, n)[k]] # "none"
          /\ Association(c, n)[k] \in c.indexByName[k]
      BY <3>1, <1>3 DEF WellFormed
    <3>4. \A q \in Plugins : c.indexByPath[q] # "none" => d.indexByPath[q] # "none"
      BY DEF Upsert, Catalog
    <3>5. c.indexByName[k] \subseteq d.indexByName[k]
      BY <1>1 DEF Upsert, Catalog
    <3> QED BY <3>1, <3>2, <3>3, <3>4, <3>5
  <2> QED BY <2>1, <2>2
<1> QED BY <1>2, <1>3 DEF WellFormed

\* A catalog whose indexes are those of c and whose associations only lose
\* entries of c is well formed when c is.
LEMMA FewerEntries ==
  ASSUME NEW c \in Catalog, NEW d \in Catalog, WellFormed(c),
         d.indexByPath = c.indexByPath, d.indexByName = c.indexByName,
         \A n \in AllContexts, k \in Keys :
           \/ Association(d, n)[k] = NoPlugin
           \/ \E m \in AllContexts : Association(d, n)[k] = Association(c, m)[k]
  PROVE  WellFormed(d)
BY DEF WellFormed

\* ContextCatalog.Delete leaves a well-formed catalog.
LEMMA DeleteKeeps ==
  ASSUME NEW c \in Catalog, NEW n \in AllContexts, NEW key \in Keys
  PROVE  /\ Delete(c, n, key) \in Catalog
         /\ WellFormed(c) => WellFormed(Delete(c, n, key))
<1> DEFINE d == Delete(c, n, key)
<1>1. d \in Catalog /\ d.indexByPath = c.indexByPath /\ d.indexByName = c.indexByName
  BY DEF Delete, Catalog, PluginAssociation, AllContexts
<1>2. ASSUME NEW m \in AllContexts, NEW k \in Keys
      PROVE  \/ Association(d, m)[k] = NoPlugin
             \/ Association(d, m)[k] = Association(c, m)[k]
  BY DataAssumption DEF Delete, Catalog, PluginAssociation, AllContexts, Association
<1> QED BY <1>1, <1>2, FewerEntries

\* An iteration of the migration loop leaves a well-formed catalog.
LEMMA MigrateKeeps ==
  ASSUME NEW c \in Catalog, NEW ac \in Servers
  PROVE  /\ MigrateContext(c, ac) \in Catalog
         /\ WellFormed(c) => WellFormed(MigrateContext(c, ac))
<1> DEFINE d == MigrateContext(c, ac)
<1>1. d \in Catalog /\ d.indexByPath = c.indexByPath /\ d.indexByName = c.indexByName
  <2>1. [k \in Keys |-> IF c.server[ac][k] # NoPlugin
                        THEN c.server[ac][k] ELSE c.standAlone[k]] \in PluginAssociation
    BY DEF Catalog, PluginAssociation
  <2>2. [c.server EXCEPT ![ac] = NoAssociation] \in [Servers -> PluginAssociation]
    BY DEF Catalog, PluginAssociation, NoAssociation
  <2> QED BY <2>1, <2>2 DEF MigrateContext, Catalog
<1>2. ASSUME NEW m \in AllContexts, NEW k \in Keys
      PROVE  \/ Association(d, m)[k] = NoPlugin
             \/ Association(d, m)[k] = Association(c, m)[k]
             \/ Association(d, m)[k] = Association(c, ac)[k]
  BY DataAssumption DEF MigrateContext, Catalog, PluginAssociation, NoAssociation, AllContexts,
     Association
<1>3. ac \in AllContexts
  BY DEF AllContexts
<1> QED BY <1>1, <1>2, <1>3, FewerEntries

\* DeleteIncorrectPluginEntriesFromCatalog leaves a well-formed catalog.
LEMMA RemoveIncorrectKeeps ==
  ASSUME NEW c \in Catalog
  PROVE  /\ DeleteIncorrectPluginEntries(c) \in Catalog
         /\ WellFormed(c) => WellFormed(DeleteIncorrectPluginEntries(c))
<1> DEFINE d == DeleteIncorrectPluginEntries(c)
<1>0. ASSUME NEW a \in PluginAssociation
      PROVE  /\ RemoveIncorrect(c, a) \in PluginAssociation
             /\ \A k \in Keys : RemoveIncorrect(c, a)[k] \in {NoPlugin, a[k]}
  BY DEF RemoveIncorrect, PluginAssociation
<1>1. d \in Catalog /\ d.indexByPath = c.indexByPath /\ d.indexByName = c.indexByName
  BY <1>0 DEF DeleteIncorrectPluginEntries, Catalog
<1>2. ASSUME NEW m \in AllContexts
      PROVE  Association(d, m) = RemoveIncorrect(c, Association(c, m))
  BY DataAssumption DEF DeleteIncorrectPluginEntries, Catalog, AllContexts, Association
<1>3. ASSUME NEW m \in AllContexts, NEW k \in Keys
      PROVE  \/ Association(d, m)[k] = NoPlugin
             \/ Association(d, m)[k] = Association(c, m)[k]
  BY <1>0, <1>2, AssociationType
<1> QED BY <1>1, <1>3, FewerEntries

-----------------------------------------------------------------------------
(* The processes *)

SessionPCs == {"edit", "write", "unlock"}

\* What the control points of a process say about its other fields.
Coherent(s) ==
  /\ s.pc \in SessionPCs \cup {"wlock", "rlock"} => s.fd \in Inodes
  /\ s.kind \in NamesPlugin => s.plugin \in Plugins
  /\ s.pc \in {"lookup", "fetch", "binopen", "binwrite", "describe"} => s.kind \in NamesPlugin
  /\ s.sess = "upsert" => s.kind \in NamesPlugin
  /\ s.sess = "refresh" => s.plugin \in Plugins
  /\ s.sess = "migrate" => s.ctxs \subseteq ActiveContexts
  /\ WellFormed(s.cat)

ProcsCoherent == \A p \in Procs : Coherent(proc[p])
SessionsLocked == \A p \in Procs : InSession(p) => lock[proc[p].fd] = p
FilesWellFormed == \A i \in Inodes : content[i] \notin {Blank, Torn} => WellFormed(content[i])

\* The inductive invariant.
IInv ==
  /\ TypeOK
  /\ ProcsCoherent
  /\ SessionsLocked
  /\ FilesWellFormed
  /\ LocksAreAccountedFor

-----------------------------------------------------------------------------
\* The program points and sessions, without their enumeration.
LEMMA Points ==
  /\ "idle" \in PCs /\ "lookup" \in PCs /\ "listing" \in PCs /\ "wopen" \in PCs
  /\ "wlock" \in PCs /\ "edit" \in PCs /\ "write" \in PCs /\ "unlock" \in PCs
  /\ "ropen" \in PCs /\ "rlock" \in PCs /\ "fetch" \in PCs /\ "binopen" \in PCs
  /\ "binwrite" \in PCs /\ "describe" \in PCs /\ "confirm" \in PCs /\ "next" \in PCs
  /\ "cleancat" \in PCs /\ "cleanbins" \in PCs
  /\ "none" \in Sessions /\ "migrate" \in Sessions /\ "fix" \in Sessions /\ "upsert" \in Sessions
  /\ "refresh" \in Sessions /\ "delete" \in Sessions
BY DEF PCs, Sessions

LEMMA IdleState == Idle \in ProcState /\ Coherent(Idle)
<1>1. Idle \in ProcState
  BY Points, NewCatalog DEF Idle, ProcState, AllContexts
<1>2. Coherent(Idle)
  BY NewCatalog DEF Idle, Coherent, SessionPCs, NamesPlugin
<1> QED BY <1>1, <1>2

\* The parts of the type invariant.
LEMMA Types ==
  ASSUME TypeOK, NEW p \in Procs
  PROVE  /\ proc[p] \in ProcState
         /\ proc[p].cat \in Catalog
         /\ DOMAIN proc = Procs
         /\ content \in [Inodes -> Catalog \cup {Blank, Torn}]
         /\ lock \in [Inodes -> Procs \cup {NoProc}]
BY DEF TypeOK, ProcState

\* Decoding what may be decoded gives a well-formed catalog.
LEMMA DecodeWellFormed ==
  ASSUME TypeOK, FilesWellFormed, NEW i \in Inodes, content[i] # Torn
  PROVE  Decode(content[i]) \in Catalog /\ WellFormed(Decode(content[i]))
BY NewCatalog DEF Decode, TypeOK, FilesWellFormed

\* A step of one process changes its own state only.
LEMMA BecomeStep ==
  ASSUME TypeOK, NEW p \in Procs, NEW state \in ProcState, Become(p, state)
  PROVE  /\ proc' \in [Procs -> ProcState]
         /\ proc'[p] = state
         /\ \A q \in Procs \ {p} : proc'[q] = proc[q]
BY DEF TypeOK, Become

\* A step outside update sessions that leaves contents and locks alone.
LEMMA QuietStep ==
  ASSUME IInv, NEW p \in Procs, NEW state \in ProcState, Coherent(state), Become(p, state),
         state.pc \notin SessionPCs, proc[p].pc \notin SessionPCs,
         UNCHANGED <<content, lock>>,
         file' \in Inodes \cup {NoInode},
         bins' \in [Plugins -> {"absent", "partial", "ok"}],
         ops' \in [Procs -> 0..MaxOps]
  PROVE  IInv'
<1>1. /\ proc' \in [Procs -> ProcState]
      /\ proc'[p] = state
      /\ \A q \in Procs \ {p} : proc'[q] = proc[q]
  BY BecomeStep DEF IInv
<1>2. TypeOK'
  BY <1>1 DEF IInv, TypeOK
<1>3. ProcsCoherent'
  BY <1>1 DEF IInv, ProcsCoherent, Coherent
<1>4. SessionsLocked'
  BY <1>1 DEF IInv, SessionsLocked, InSession, SessionPCs
<1>5. FilesWellFormed'
  BY DEF IInv, FilesWellFormed
<1>6. LocksAreAccountedFor'
  BY <1>1 DEF IInv, LocksAreAccountedFor, InSession, SessionPCs
<1> QED BY <1>2, <1>3, <1>4, <1>5, <1>6 DEF IInv

\* A process ends and its locks go with it: an exit, a crash, a panic.
LEMMA ReleaseStep ==
  ASSUME IInv, NEW p \in Procs,
         \A q \in Procs \ {p} : proc'[q] = proc[q],
         proc'[p].pc \notin SessionPCs, Coherent(proc'[p]), proc' \in [Procs -> ProcState],
         lock' = ReleaseAll(p),
         UNCHANGED <<file, content, bins, ops>>
  PROVE  IInv'
<1>1. /\ lock' \in [Inodes -> Procs \cup {NoProc}]
      /\ \A i \in Inodes : lock'[i] # p
      /\ \A i \in Inodes, q \in Procs : lock'[i] = q => lock[i] = q
      /\ \A i \in Inodes, q \in Procs \ {p} : lock[i] = q => lock'[i] = q
  BY ConstantsAssumption DEF IInv, TypeOK, ReleaseAll
<1>2. TypeOK'
  BY <1>1 DEF IInv, TypeOK
<1>3. ProcsCoherent'
  BY DEF IInv, ProcsCoherent, Coherent
<1>4. SessionsLocked'
  <2> SUFFICES ASSUME NEW q \in Procs, proc'[q].pc \in SessionPCs
               PROVE  lock'[proc'[q].fd] = q
    BY DEF SessionsLocked, InSession, SessionPCs
  <2>1. q # p
    OBVIOUS
  <2>2. proc'[q] = proc[q] /\ proc[q].fd \in Inodes /\ lock[proc[q].fd] = q
    BY <2>1 DEF IInv, ProcsCoherent, Coherent, SessionsLocked, InSession, SessionPCs
  <2> QED BY <2>1, <2>2, <1>1
<1>5. FilesWellFormed'
  BY DEF IInv, FilesWellFormed
<1>6. LocksAreAccountedFor'
  BY <1>1 DEF IInv, LocksAreAccountedFor, InSession
<1> QED BY <1>2, <1>3, <1>4, <1>5, <1>6 DEF IInv

\* A step inside an update session, on the file the session opened.
LEMMA SessionStep ==
  ASSUME IInv, NEW p \in Procs, NEW state \in ProcState, Coherent(state), Become(p, state),
         InSession(p), state.pc \in SessionPCs, state.fd = proc[p].fd,
         NEW x \in Catalog \cup {Blank, Torn}, x \notin {Blank, Torn} => WellFormed(x),
         content' = [content EXCEPT ![proc[p].fd] = x],
         UNCHANGED <<file, lock, bins, ops>>
  PROVE  IInv'
<1>0. proc[p].fd \in Inodes /\ lock[proc[p].fd] = p
  BY DEF IInv, ProcsCoherent, Coherent, SessionsLocked, InSession, SessionPCs
<1>1. /\ proc' \in [Procs -> ProcState]
      /\ proc'[p] = state
      /\ \A q \in Procs \ {p} : proc'[q] = proc[q]
  BY BecomeStep DEF IInv
<1>2. /\ content' \in [Inodes -> Catalog \cup {Blank, Torn}]
      /\ content'[proc[p].fd] = x
      /\ \A i \in Inodes \ {proc[p].fd} : content'[i] = content[i]
  BY <1>0 DEF IInv, TypeOK
<1>3. TypeOK'
  BY <1>1, <1>2 DEF IInv, TypeOK
<1>4. ProcsCoherent'
  BY <1>1 DEF IInv, ProcsCoherent, Coherent
<1>5. SessionsLocked'
  BY <1>0, <1>1 DEF IInv, SessionsLocked, InSession
<1>6. FilesWellFormed'
  BY <1>2 DEF IInv, FilesWellFormed
<1>7. LocksAreAccountedFor'
  <2> SUFFICES ASSUME NEW i \in Inodes, NEW q \in Procs, lock[i] = q
               PROVE  (proc'[q].pc \in SessionPCs /\ proc'[q].fd = i) \/ content'[i] = Torn
    BY DEF LocksAreAccountedFor, InSession, SessionPCs
  <2>1. CASE i = proc[p].fd
    BY <2>1, <1>0, <1>1
  <2>2. CASE i # proc[p].fd
    <3>1. (proc[q].pc \in SessionPCs /\ proc[q].fd = i) \/ content[i] = Torn
      BY DEF IInv, LocksAreAccountedFor, InSession, SessionPCs
    <3> QED BY <3>1, <2>2, <1>1, <1>2
  <2> QED BY <2>1, <2>2
<1> QED BY <1>3, <1>4, <1>5, <1>6, <1>7 DEF IInv

\* The end of a session keeps the process coherent.
LEMMA AfterSessionState ==
  ASSUME IInv, NEW p \in Procs
  PROVE  /\ AfterSession(p) \in ProcState
         /\ Coherent(AfterSession(p))
         /\ AfterSession(p).pc \notin SessionPCs
<1>1. proc[p] \in ProcState /\ Coherent(proc[p])
  BY DEF IInv, TypeOK, ProcsCoherent
<1>2. Idle \in ProcState /\ Coherent(Idle) /\ Idle.pc = "idle"
  BY IdleState DEF Idle
<1>3. CASE proc[p].sess = "migrate"
  <2> DEFINE state == [proc[p] EXCEPT !.pc = "ropen", !.sess = "none", !.fd = NoInode, !.ctxs = {}]
  <2>1. AfterSession(p) = state
    BY <1>3 DEF AfterSession
  <2>2. state \in ProcState
    BY <1>1, Points DEF ProcState
  <2>3. /\ state.pc = "ropen" /\ state.sess = "none" /\ state.ctxs = {}
        /\ state.kind = proc[p].kind /\ state.plugin = proc[p].plugin /\ state.cat = proc[p].cat
    BY <1>1 DEF ProcState
  <2> HIDE DEF state
  <2> QED BY <1>1, <1>3, <2>1, <2>2, <2>3 DEF Coherent, SessionPCs, NamesPlugin
<1>4. CASE proc[p].sess = "refresh"
  <2> DEFINE state == [proc[p] EXCEPT !.pc = "next", !.fd = NoInode]
  <2>1. AfterSession(p) = state
    BY <1>4 DEF AfterSession
  <2>2. state \in ProcState
    BY <1>1, Points DEF ProcState
  <2>3. /\ state.pc = "next" /\ state.sess = proc[p].sess /\ state.ctxs = proc[p].ctxs
        /\ state.kind = proc[p].kind /\ state.plugin = proc[p].plugin /\ state.cat = proc[p].cat
    BY <1>1 DEF ProcState
  <2> HIDE DEF state
  <2> QED BY <1>1, <1>4, <2>1, <2>2, <2>3 DEF Coherent, SessionPCs, NamesPlugin
<1>5. CASE proc[p].sess = "delete" /\ proc[p].ctxs # {}
  <2> DEFINE state == [proc[p] EXCEPT !.pc = "wopen", !.fd = NoInode]
  <2>1. AfterSession(p) = state
    BY <1>5 DEF AfterSession
  <2>2. state \in ProcState
    BY <1>1, Points DEF ProcState
  <2>3. /\ state.pc = "wopen" /\ state.sess = proc[p].sess /\ state.ctxs = proc[p].ctxs
        /\ state.kind = proc[p].kind /\ state.plugin = proc[p].plugin /\ state.cat = proc[p].cat
    BY <1>1 DEF ProcState
  <2> HIDE DEF state
  <2> QED BY <1>1, <1>5, <2>1, <2>2, <2>3 DEF Coherent, SessionPCs, NamesPlugin
<1>6. CASE ~(\/ proc[p].sess \in {"migrate", "refresh"}
             \/ proc[p].sess = "delete" /\ proc[p].ctxs # {})
  BY <1>6, <1>2 DEF AfterSession, SessionPCs
<1> QED BY <1>3, <1>4, <1>5, <1>6

\* So does the use of a list.
LEMMA AfterReadState ==
  ASSUME IInv, NEW p \in Procs, NEW plugins \in SUBSET Plugins, NEW n \in AllContexts
  PROVE  /\ AfterRead(p, plugins, n) \in ProcState
         /\ Coherent(AfterRead(p, plugins, n))
         /\ AfterRead(p, plugins, n).pc \notin SessionPCs
<1>1. proc[p] \in ProcState /\ Coherent(proc[p])
  BY DEF IInv, TypeOK, ProcsCoherent
<1>2. Idle \in ProcState /\ Coherent(Idle) /\ Idle.pc = "idle"
  BY IdleState DEF Idle
<1>3. CASE proc[p].kind = "refresh" /\ plugins # {}
  <2> DEFINE state == [proc[p] EXCEPT !.pc = "next", !.fd = NoInode, !.plugs = plugins, !.left = plugins]
  <2>1. AfterRead(p, plugins, n) = state
    BY <1>3 DEF AfterRead
  <2>2. state \in ProcState
    BY <1>1, Points DEF ProcState
  <2>3. /\ state.pc = "next" /\ state.sess = proc[p].sess /\ state.ctxs = proc[p].ctxs
        /\ state.kind = proc[p].kind /\ state.plugin = proc[p].plugin /\ state.cat = proc[p].cat
    BY <1>1 DEF ProcState
  <2> HIDE DEF state
  <2> QED BY <1>1, <1>3, <2>1, <2>2, <2>3 DEF Coherent, SessionPCs, NamesPlugin
<1>4. CASE proc[p].kind = "install"
  <2> DEFINE where == IF proc[p].found THEN "wopen" ELSE "fetch"
             state == [proc[p] EXCEPT !.pc = where, !.fd = NoInode, !.sess = "upsert"]
  <2>1. AfterRead(p, plugins, n) = state
    BY <1>4 DEF AfterRead
  <2>2. where \in {"wopen", "fetch"} /\ where \in PCs
    BY Points
  <2> HIDE DEF where
  <2>3. state \in ProcState
    BY <1>1, <2>2, Points DEF ProcState
  <2>4. /\ state.pc = where /\ state.sess = "upsert" /\ state.kind = proc[p].kind
        /\ state.plugin = proc[p].plugin /\ state.cat = proc[p].cat
    BY <1>1 DEF ProcState
  <2> HIDE DEF state
  <2> QED BY <1>1, <1>4, <2>1, <2>2, <2>3, <2>4 DEF Coherent, SessionPCs, NamesPlugin
<1>5. CASE proc[p].kind = "delete"
  <2> DEFINE where == IF proc[p].ctxs \subseteq {n} THEN "confirm" ELSE "ropen"
             rest == proc[p].ctxs \ {n}
             matched == proc[p].plugs \cup {pl \in plugins : Matches(p, pl)}
             state == [proc[p] EXCEPT !.pc = where, !.fd = NoInode, !.ctxs = rest,
                                      !.plugs = matched]
  <2>1. AfterRead(p, plugins, n) = state
    BY <1>5 DEF AfterRead
  <2>2. /\ where \in {"confirm", "ropen"} /\ where \in PCs
        /\ rest \in SUBSET AllContexts /\ rest \subseteq proc[p].ctxs
        /\ matched \in SUBSET Plugins
    BY <1>1, Points DEF ProcState
  <2> HIDE DEF where, rest, matched
  <2>3. state \in ProcState
    BY <1>1, <2>2 DEF ProcState
  <2>4. /\ state.pc = where /\ state.sess = proc[p].sess /\ state.kind = proc[p].kind
        /\ state.plugin = proc[p].plugin /\ state.cat = proc[p].cat /\ state.ctxs = rest
    BY <1>1 DEF ProcState
  <2> HIDE DEF state
  <2> QED BY <1>1, <2>1, <2>2, <2>3, <2>4 DEF Coherent, SessionPCs
<1>6. CASE ~(\/ proc[p].kind \in {"install", "delete"}
             \/ proc[p].kind = "refresh" /\ plugins # {})
  BY <1>6, <1>2 DEF AfterRead, SessionPCs
<1> QED BY <1>3, <1>4, <1>5, <1>6

-----------------------------------------------------------------------------
LEMMA InitIInv == Init => IInv
<1> SUFFICES ASSUME Init PROVE IInv
  OBVIOUS
<1>0. Idle \in ProcState /\ Coherent(Idle) /\ Idle.pc = "idle"
  BY IdleState DEF Idle
<1>1. TypeOK
  <2>1. PICK c \in LegacyCatalogs :
          /\ content = [i \in Inodes |-> IF i = file THEN c ELSE Blank]
          /\ bins = [pl \in Plugins |-> IF file # NoInode /\ pl \in Associated(c)
                                         THEN "ok" ELSE "absent"]
    BY DEF Init
  <2>2. content \in [Inodes -> Catalog \cup {Blank, Torn}]
    BY <2>1, LegacyAssumption
  <2>3. bins \in [Plugins -> {"absent", "partial", "ok"}]
    BY <2>1
  <2>4. 0 \in 0..MaxOps
    BY ConstantsAssumption
  <2> QED BY <1>0, <2>2, <2>3, <2>4 DEF Init, TypeOK
<1>2. ProcsCoherent
  BY <1>0 DEF Init, ProcsCoherent
<1>3. SessionsLocked /\ LocksAreAccountedFor
  BY <1>0, ConstantsAssumption DEF Init, SessionsLocked, LocksAreAccountedFor, InSession
<1>4. FilesWellFormed
  BY LegacyAssumption DEF Init, FilesWellFormed
<1> QED BY <1>1, <1>2, <1>3, <1>4 DEF IInv

\* Steps that open or lock the file.
LEMMA OpenForUpdateStep == ASSUME IInv, NEW p \in Procs, OpenForUpdate(p) PROVE IInv'
<1>1. PICK i \in Inodes, n \in AllContexts :
        /\ IF file = NoInode
           THEN FreeInode(i) /\ file' = i /\ content' = [content EXCEPT ![i] = Blank]
           ELSE i = file /\ UNCHANGED <<file, content>>
        /\ Become(p, [proc[p] EXCEPT !.pc = "wlock", !.fd = i, !.ctx = n,
                        !.ctxs = IF proc[p].sess = "delete" THEN proc[p].ctxs \ {n}
                                 ELSE proc[p].ctxs])
  <2>1. proc[p].ctxs \subseteq AllContexts /\ StandAlone \in AllContexts
    BY DEF IInv, TypeOK, ProcState, AllContexts
  <2> QED BY <2>1 DEF OpenForUpdate, NextContexts
<1> DEFINE rest == IF proc[p].sess = "delete" THEN proc[p].ctxs \ {n} ELSE proc[p].ctxs
           state == [proc[p] EXCEPT !.pc = "wlock", !.fd = i, !.ctx = n, !.ctxs = rest]
<1>2. proc[p] \in ProcState /\ Coherent(proc[p]) /\ proc[p].pc = "wopen"
  BY DEF IInv, TypeOK, ProcsCoherent, OpenForUpdate, At
<1>3. rest \in SUBSET AllContexts /\ rest \subseteq proc[p].ctxs
  BY <1>2 DEF ProcState
<1>4. Become(p, state)
  BY <1>1
<1> HIDE DEF rest
<1>5. state \in ProcState /\ Coherent(state) /\ state.pc = "wlock"
  BY Points, <1>2, <1>3 DEF ProcState, Coherent, SessionPCs
<1> HIDE DEF state
<1>6. /\ UNCHANGED <<lock, bins, ops>> /\ file' \in Inodes
  BY <1>1 DEF OpenForUpdate
<1>7. CASE UNCHANGED content
  BY <1>2, <1>4, <1>5, <1>6, <1>7, QuietStep DEF IInv, TypeOK, SessionPCs
<1>8. CASE FreeInode(i) /\ content' = [content EXCEPT ![i] = Blank]
  <2>1. /\ proc' \in [Procs -> ProcState]
        /\ proc'[p] = state
        /\ \A q \in Procs \ {p} : proc'[q] = proc[q]
    BY <1>4, <1>5, BecomeStep DEF IInv
  <2>2. /\ content' \in [Inodes -> Catalog \cup {Blank, Torn}]
        /\ content'[i] = Blank
        /\ \A j \in Inodes \ {i} : content'[j] = content[j]
    BY <1>8 DEF IInv, TypeOK
  <2>3. TypeOK'
    BY <1>6, <2>1, <2>2 DEF IInv, TypeOK
  <2>4. ProcsCoherent'
    BY <1>5, <2>1 DEF IInv, ProcsCoherent, Coherent
  <2>5. SessionsLocked'
    BY <1>5, <1>6, <2>1 DEF IInv, SessionsLocked, InSession
  <2>6. FilesWellFormed'
    BY <2>2 DEF IInv, FilesWellFormed
  <2>7. LocksAreAccountedFor'
    <3> SUFFICES ASSUME NEW j \in Inodes, NEW q \in Procs, lock[j] = q
                 PROVE  (proc'[q].pc \in SessionPCs /\ proc'[q].fd = j) \/ content'[j] = Torn
      BY <1>6 DEF LocksAreAccountedFor, InSession, SessionPCs
    <3>1. j # i
      BY <1>8, ConstantsAssumption DEF FreeInode
    <3>2. (proc[q].pc \in SessionPCs /\ proc[q].fd = j) \/ content[j] = Torn
      BY DEF IInv, LocksAreAccountedFor, InSession, SessionPCs
    <3>3. proc[p].pc \notin SessionPCs
      BY <1>2 DEF SessionPCs
    <3> QED BY <3>1, <3>2, <3>3, <2>1, <2>2
  <2> QED BY <2>3, <2>4, <2>5, <2>6, <2>7 DEF IInv
<1> QED BY <1>1, <1>7, <1>8

\* A step that takes the free lock of the file it opened.
LEMMA LockStep ==
  ASSUME IInv, NEW p \in Procs, NEW state \in ProcState, Coherent(state), Become(p, state),
         At(p, "wlock"), lock[proc[p].fd] = NoProc,
         \/ state.pc \in SessionPCs /\ state.fd = proc[p].fd
         \/ state.pc \notin SessionPCs /\ content[proc[p].fd] = Torn,
         lock' = [lock EXCEPT ![proc[p].fd] = p],
         UNCHANGED <<file, content, bins, ops>>
  PROVE  IInv'
<1>0. proc[p].fd \in Inodes /\ proc[p].pc \notin SessionPCs
  BY DEF IInv, ProcsCoherent, Coherent, At, SessionPCs
<1>1. /\ proc' \in [Procs -> ProcState]
      /\ proc'[p] = state
      /\ \A q \in Procs \ {p} : proc'[q] = proc[q]
  BY BecomeStep DEF IInv
<1>2. /\ lock' \in [Inodes -> Procs \cup {NoProc}]
      /\ lock'[proc[p].fd] = p
      /\ \A i \in Inodes \ {proc[p].fd} : lock'[i] = lock[i]
  BY <1>0 DEF IInv, TypeOK
<1>3. TypeOK'
  BY <1>1, <1>2 DEF IInv, TypeOK
<1>4. ProcsCoherent'
  BY <1>1 DEF IInv, ProcsCoherent, Coherent
<1>5. SessionsLocked'
  <2> SUFFICES ASSUME NEW q \in Procs, proc'[q].pc \in SessionPCs
               PROVE  lock'[proc'[q].fd] = q
    BY DEF SessionsLocked, InSession, SessionPCs
  <2>1. CASE q = p
    BY <2>1, <1>1, <1>2
  <2>2. CASE q # p
    <3>1. proc[q].pc \in SessionPCs /\ proc[q].fd \in Inodes /\ lock[proc[q].fd] = q
      BY <2>2, <1>1 DEF IInv, ProcsCoherent, Coherent, SessionsLocked, InSession, SessionPCs
    <3> QED BY <3>1, <2>2, <1>1, <1>2, ConstantsAssumption
  <2> QED BY <2>1, <2>2
<1>6. FilesWellFormed'
  BY DEF IInv, FilesWellFormed
<1>7. LocksAreAccountedFor'
  <2> SUFFICES ASSUME NEW i \in Inodes, NEW q \in Procs, lock'[i] = q
               PROVE  (proc'[q].pc \in SessionPCs /\ proc'[q].fd = i) \/ content[i] = Torn
    BY DEF LocksAreAccountedFor, InSession, SessionPCs
  <2>1. CASE i = proc[p].fd
    BY <2>1, <1>1, <1>2
  <2>2. CASE i # proc[p].fd
    <3>1. (proc[q].pc \in SessionPCs /\ proc[q].fd = i) \/ content[i] = Torn
      BY <2>2, <1>2 DEF IInv, LocksAreAccountedFor, InSession, SessionPCs
    <3> QED BY <3>1, <1>0, <1>1
  <2> QED BY <2>1, <2>2
<1> QED BY <1>3, <1>4, <1>5, <1>6, <1>7 DEF IInv

\* Steps inside a session, and its end.
LEMMA SaveStep ==
  ASSUME IInv, NEW p \in Procs, At(p, "edit"), NEW c \in Catalog, WellFormed(c),
         NEW rest \in SUBSET Plugins,
         Save(p, [proc[p] EXCEPT !.cat = c, !.left = rest])
  PROVE  IInv'
<1> DEFINE state == [proc[p] EXCEPT !.cat = c, !.left = rest, !.pc = "write"]
<1>1. proc[p] \in ProcState /\ Coherent(proc[p])
  BY DEF IInv, TypeOK, ProcsCoherent
<1>2. Become(p, state)
  BY <1>1 DEF Save, ProcState
<1>3. /\ state \in ProcState /\ Coherent(state)
      /\ state.pc \in SessionPCs /\ state.fd = proc[p].fd
  BY Points, <1>1 DEF At, ProcState, Coherent, SessionPCs
<1>4. InSession(p)
  BY DEF At, InSession
<1>5. content' = [content EXCEPT ![proc[p].fd] = Blank]
  BY DEF Save
<1> HIDE DEF state
<1> QED BY <1>2, <1>3, <1>4, <1>5, SessionStep DEF Save

LEMMA WriteStep ==
  ASSUME IInv, NEW p \in Procs, At(p, "write"), AfterWrite(p),
         NEW x \in {proc[p].cat, Blank, Torn},
         content' = [content EXCEPT ![proc[p].fd] = x],
         UNCHANGED <<file, lock, bins, ops>>
  PROVE  IInv'
<1>1. proc[p] \in ProcState /\ Coherent(proc[p]) /\ InSession(p)
  BY DEF IInv, TypeOK, ProcsCoherent, At, InSession
<1>2. x \in Catalog \cup {Blank, Torn} /\ (x \notin {Blank, Torn} => WellFormed(x))
  BY <1>1 DEF ProcState, Coherent
<1>3. PICK where \in {"edit", "unlock"} : Become(p, [proc[p] EXCEPT !.pc = where])
  BY DEF AfterWrite, GoTo
<1> DEFINE state == [proc[p] EXCEPT !.pc = where]
<1>4. /\ state \in ProcState /\ Coherent(state)
      /\ state.pc \in SessionPCs /\ state.fd = proc[p].fd
  BY Points, <1>1 DEF At, ProcState, Coherent, SessionPCs
<1> QED BY <1>1, <1>2, <1>3, <1>4, SessionStep

LEMMA UnlockStep == ASSUME IInv, NEW p \in Procs, Unlock(p) PROVE IInv'
<1> DEFINE i == proc[p].fd
           state == AfterSession(p)
<1>0. i \in Inodes /\ lock[i] = p /\ proc[p].pc \in SessionPCs
  BY DEF IInv, ProcsCoherent, Coherent, SessionsLocked, InSession, Unlock, At, SessionPCs
<1>1. state \in ProcState /\ Coherent(state) /\ state.pc \notin SessionPCs
  BY AfterSessionState
<1>2. /\ proc' \in [Procs -> ProcState]
      /\ proc'[p] = state
      /\ \A q \in Procs \ {p} : proc'[q] = proc[q]
  BY <1>1, BecomeStep DEF IInv, Unlock
<1>3. /\ lock' \in [Inodes -> Procs \cup {NoProc}]
      /\ lock'[i] = NoProc
      /\ \A j \in Inodes \ {i} : lock'[j] = lock[j]
      /\ UNCHANGED <<file, content, bins, ops>>
  BY <1>0 DEF IInv, TypeOK, Unlock
<1> HIDE DEF state
<1>4. TypeOK'
  BY <1>2, <1>3 DEF IInv, TypeOK
<1>5. ProcsCoherent'
  BY <1>1, <1>2 DEF IInv, ProcsCoherent, Coherent
<1>6. SessionsLocked'
  <2> SUFFICES ASSUME NEW q \in Procs, proc'[q].pc \in SessionPCs
               PROVE  lock'[proc'[q].fd] = q
    BY DEF SessionsLocked, InSession, SessionPCs
  <2>1. q # p /\ proc'[q] = proc[q]
    BY <1>1, <1>2
  <2>2. proc[q].fd \in Inodes /\ lock[proc[q].fd] = q
    BY <2>1 DEF IInv, ProcsCoherent, Coherent, SessionsLocked, InSession, SessionPCs
  <2> QED BY <2>1, <2>2, <1>0, <1>3
<1>7. FilesWellFormed'
  BY <1>3 DEF IInv, FilesWellFormed
<1>8. LocksAreAccountedFor'
  <2> SUFFICES ASSUME NEW j \in Inodes, NEW q \in Procs, lock'[j] = q
               PROVE  (proc'[q].pc \in SessionPCs /\ proc'[q].fd = j) \/ content[j] = Torn
    BY <1>3 DEF LocksAreAccountedFor, InSession, SessionPCs
  <2>1. j # i /\ lock[j] = q
    BY <1>3, ConstantsAssumption
  <2>2. (proc[q].pc \in SessionPCs /\ proc[q].fd = j) \/ content[j] = Torn
    BY <2>1 DEF IInv, LocksAreAccountedFor, InSession, SessionPCs
  <2> QED BY <2>1, <2>2, <1>2
<1> QED BY <1>4, <1>5, <1>6, <1>7, <1>8 DEF IInv

\* The actions of a process, in groups.
LEMMA SessionActions ==
  ASSUME IInv, NEW p \in Procs,
         \/ OpenForUpdate(p) \/ LockForUpdate(p) \/ LockDecodeError(p) \/ RefreshDecodeError(p)
         \/ MigrateOne(p) \/ MigrateSave(p) \/ FixSave(p) \/ UpsertSave(p) \/ DeleteSave(p)
         \/ Write(p) \/ WriteFail(p) \/ Unlock(p)
  PROVE  IInv'
<1>1. proc[p] \in ProcState /\ Coherent(proc[p])
  BY DEF IInv, TypeOK, ProcsCoherent
<1>2. proc[p].cat \in Catalog /\ WellFormed(proc[p].cat) /\ proc[p].left \in SUBSET Plugins
  BY <1>1 DEF ProcState, Coherent
<1>3. CASE OpenForUpdate(p)
  BY <1>3, OpenForUpdateStep
<1>4. CASE LockForUpdate(p)
  <2> DEFINE c == Decode(content[proc[p].fd])
             rest == IF proc[p].sess = "delete" THEN proc[p].plugs ELSE proc[p].left
             state == [proc[p] EXCEPT !.pc = "edit", !.cat = c, !.left = rest]
  <2>1. proc[p].fd \in Inodes
    BY <1>1, <1>4 DEF LockForUpdate, At, Coherent
  <2>2. c \in Catalog /\ WellFormed(c)
    BY <2>1, <1>4, DecodeWellFormed DEF IInv, LockForUpdate
  <2>3. rest \in SUBSET Plugins
    BY <1>1 DEF ProcState
  <2>4. Become(p, state)
    BY <1>4 DEF LockForUpdate
  <2> HIDE DEF c, rest
  <2>5. /\ state \in ProcState /\ Coherent(state)
        /\ state.pc \in SessionPCs /\ state.fd = proc[p].fd
    BY Points, <1>1, <2>1, <2>2, <2>3 DEF ProcState, Coherent, SessionPCs
  <2> HIDE DEF state
  <2> QED BY <1>4, <2>4, <2>5, LockStep DEF LockForUpdate
<1>5. CASE LockDecodeError(p)
  BY <1>5, AfterSessionState, LockStep DEF LockDecodeError
<1>6. CASE RefreshDecodeError(p)
  <2>1. /\ proc' \in [Procs -> ProcState]
        /\ proc'[p] = Idle
        /\ \A q \in Procs \ {p} : proc'[q] = proc[q]
    BY <1>6, IdleState, BecomeStep DEF IInv, RefreshDecodeError, Finish
  <2>2. Idle.pc \notin SessionPCs /\ Coherent(Idle)
    BY IdleState DEF Idle, SessionPCs
  <2> QED BY <1>6, <2>1, <2>2, ReleaseStep DEF RefreshDecodeError
<1>7. CASE MigrateOne(p)
  <2>1. PICK ac \in proc[p].ctxs :
          Become(p, [proc[p] EXCEPT !.cat = MigrateContext(proc[p].cat, ac),
                                    !.ctxs = proc[p].ctxs \ {ac}])
    BY <1>7 DEF MigrateOne
  <2> DEFINE c == MigrateContext(proc[p].cat, ac)
             state == [proc[p] EXCEPT !.cat = c, !.ctxs = proc[p].ctxs \ {ac}]
  <2>2. ac \in Servers
    BY <1>1, <1>7, ConstantsAssumption DEF MigrateOne, Coherent
  <2>3. c \in Catalog /\ WellFormed(c)
    BY <1>2, <2>2, MigrateKeeps
  <2>4. Become(p, state)
    BY <2>1
  <2> HIDE DEF c
  <2>5. /\ state \in ProcState /\ Coherent(state)
        /\ state.pc \in SessionPCs /\ state.fd = proc[p].fd
    BY Points, <1>1, <1>7, <2>3 DEF MigrateOne, At, ProcState, Coherent, SessionPCs
  <2> HIDE DEF state
  <2> DEFINE x == content[proc[p].fd]
  <2>6. proc[p].fd \in Inodes /\ InSession(p)
    BY <1>1, <1>7 DEF MigrateOne, At, Coherent, SessionPCs, InSession
  <2>7. /\ x \in Catalog \cup {Blank, Torn}
        /\ x \notin {Blank, Torn} => WellFormed(x)
        /\ content' = [content EXCEPT ![proc[p].fd] = x]
    BY <1>7, <2>6 DEF MigrateOne, disk, IInv, TypeOK, FilesWellFormed
  <2> HIDE DEF x
  <2> QED BY <1>7, <2>4, <2>5, <2>6, <2>7, SessionStep DEF MigrateOne, disk
<1>8. CASE MigrateSave(p)
  <2>1. proc[p] = [proc[p] EXCEPT !.cat = proc[p].cat, !.left = proc[p].left]
    BY <1>1 DEF ProcState
  <2>2. Save(p, [proc[p] EXCEPT !.cat = proc[p].cat, !.left = proc[p].left])
    BY <1>8, <2>1 DEF MigrateSave
  <2> QED BY <1>2, <1>8, <2>2, SaveStep DEF MigrateSave
<1>9. CASE FixSave(p)
  <2> DEFINE c == DeleteIncorrectPluginEntries(proc[p].cat)
  <2>1. c \in Catalog /\ WellFormed(c)
    BY <1>2, RemoveIncorrectKeeps
  <2>2. Save(p, [proc[p] EXCEPT !.cat = c])
    BY <1>9 DEF FixSave
  <2> HIDE DEF c
  <2>3. [proc[p] EXCEPT !.cat = c] = [proc[p] EXCEPT !.cat = c, !.left = proc[p].left]
    BY <1>1 DEF ProcState
  <2> QED BY <1>2, <1>9, <2>1, <2>2, <2>3, SaveStep DEF FixSave
<1>10. CASE UpsertSave(p)
  <2> DEFINE c == Upsert(proc[p].cat, proc[p].plugin)
  <2>0. proc[p].plugin \in Plugins
    BY <1>1, <1>10 DEF UpsertSave, Coherent
  <2>1. c \in Catalog /\ WellFormed(c)
    BY <1>2, <2>0, UpsertKeeps
  <2>2. Save(p, [proc[p] EXCEPT !.cat = c])
    BY <1>10 DEF UpsertSave
  <2> HIDE DEF c
  <2>3. [proc[p] EXCEPT !.cat = c] = [proc[p] EXCEPT !.cat = c, !.left = proc[p].left]
    BY <1>1 DEF ProcState
  <2> QED BY <1>2, <1>10, <2>1, <2>2, <2>3, SaveStep DEF UpsertSave
<1>11. CASE DeleteSave(p)
  <2>1. PICK pl \in proc[p].left :
          Save(p, [proc[p] EXCEPT !.cat = Delete(proc[p].cat, proc[p].ctx, KeyOf(pl)),
                                  !.left = proc[p].left \ {pl}])
    BY <1>11 DEF DeleteSave
  <2> DEFINE c == Delete(proc[p].cat, proc[p].ctx, KeyOf(pl))
             rest == proc[p].left \ {pl}
  <2>2. KeyOf(pl) \in Keys /\ proc[p].ctx \in AllContexts /\ rest \in SUBSET Plugins
    BY <1>1, <1>2, KeysType DEF ProcState
  <2>3. c \in Catalog /\ WellFormed(c)
    BY <1>2, <2>2, DeleteKeeps
  <2> HIDE DEF c, rest
  <2>4. Save(p, [proc[p] EXCEPT !.cat = c, !.left = rest])
    BY <2>1 DEF c, rest
  <2> QED BY <1>11, <2>2, <2>3, <2>4, SaveStep DEF DeleteSave
<1>12. CASE Write(p)
  BY <1>12, WriteStep DEF Write
<1>13. CASE WriteFail(p)
  BY <1>13, WriteStep DEF WriteFail
<1>14. CASE Unlock(p)
  BY <1>14, UnlockStep
<1> QED BY <1>3, <1>4, <1>5, <1>6, <1>7, <1>8, <1>9, <1>10, <1>11, <1>12, <1>13, <1>14

LEMMA OtherActions ==
  ASSUME IInv, NEW p \in Procs,
         \/ Begin(p) \/ Exit(p) \/ Crash(p)
         \/ MigrateIfNeeded(p) \/ OpenForRead(p) \/ Read(p)
         \/ Lookup(p) \/ Fetch(p) \/ BinOpen(p) \/ BinWrite(p) \/ Describe(p)
         \/ Confirm(p) \/ RefreshNext(p) \/ CleanCatalogCache(p) \/ CleanBinaries(p)
  PROVE  IInv'
<1>0. Idle \in ProcState /\ Coherent(Idle) /\ Idle.pc \notin SessionPCs
  BY IdleState DEF Idle, SessionPCs
<1>1. proc[p] \in ProcState /\ Coherent(proc[p])
  BY DEF IInv, TypeOK, ProcsCoherent
<1>2. /\ file \in Inodes \cup {NoInode}
      /\ bins \in [Plugins -> {"absent", "partial", "ok"}]
      /\ ops \in [Procs -> 0..MaxOps]
  BY DEF IInv, TypeOK
<1>3. ASSUME NEW state \in ProcState, Coherent(state), state.pc \notin SessionPCs,
             Become(p, state), proc[p].pc \notin SessionPCs, UNCHANGED <<disk, bins, ops>>
      PROVE  IInv'
  BY <1>2, <1>3, QuietStep DEF disk
<1>4. CASE Begin(p)
  <2>1. PICK kind \in Kinds, pl \in Plugins \cup {NoPlugin} :
          /\ kind \in NamesPlugin => pl # NoPlugin
          /\ Become(p, [Idle EXCEPT !.pc = Entry[kind], !.kind = kind, !.plugin = pl,
                          !.sess = IF kind = "fix" THEN "fix" ELSE "none",
                          !.ctxs = IF kind = "delete" THEN ActiveContexts \cup {StandAlone}
                                   ELSE {}])
    BY <1>4 DEF Begin
  <2> DEFINE cs == IF kind = "delete" THEN ActiveContexts \cup {StandAlone} ELSE {}
             ss == IF kind = "fix" THEN "fix" ELSE "none"
             where == Entry[kind]
             state == [Idle EXCEPT !.pc = where, !.kind = kind, !.plugin = pl,
                                   !.sess = ss, !.ctxs = cs]
  <2>2. cs \in SUBSET AllContexts /\ ss \in {"fix", "none"}
    BY ConstantsAssumption DEF AllContexts
  <2>3. /\ where \in {"listing", "wopen", "cleancat", "lookup", "fetch", "ropen"}
        /\ where \in {"lookup", "fetch"} => kind \in NamesPlugin
    BY ConstantsAssumption DEF Operations, Entry, NamesPlugin
  <2>4. Become(p, state)
    BY <2>1
  <2> HIDE DEF cs, ss, where
  <2>5. state \in ProcState /\ Coherent(state) /\ state.pc \notin SessionPCs
    <3>0. /\ where \in PCs /\ ss \in Sessions
          /\ kind \in Kinds \cup {"none"} /\ pl \in Plugins \cup {NoPlugin}
      BY Points, <2>1, <2>2, <2>3 DEF Sessions
    <3>1. state \in ProcState
      BY <1>0, <2>2, <3>0 DEF ProcState
    <3>2. /\ state.pc = where /\ state.kind = kind /\ state.plugin = pl /\ state.sess = ss
          /\ state.cat = Idle.cat
      BY <1>0 DEF ProcState
    <3>3. WellFormed(Idle.cat)
      BY <1>0 DEF Coherent
    <3> HIDE DEF state
    <3> QED BY <2>1, <2>2, <2>3, <3>1, <3>2, <3>3 DEF Coherent, SessionPCs
  <2>6. ops' \in [Procs -> 0..MaxOps]
    <3>0. ops[p] \in 0..MaxOps /\ ops[p] < MaxOps
      BY <1>2, <1>4 DEF Begin
    <3>1. ops[p] + 1 \in 0..MaxOps
      BY <3>0, ConstantsAssumption
    <3>2. ops' = [ops EXCEPT ![p] = ops[p] + 1]
      BY <1>4 DEF Begin
    <3> QED BY <1>2, <3>1, <3>2
  <2>7. proc[p].pc \notin SessionPCs
    BY <1>4 DEF Begin, At, SessionPCs
  <2> HIDE DEF state
  <2> QED BY <1>2, <1>4, <2>4, <2>5, <2>6, <2>7, QuietStep DEF Begin, disk
<1>5. CASE Exit(p)
  <2>1. proc[p].pc \notin SessionPCs /\ proc' = proc
    BY <1>5 DEF Exit, At, SessionPCs
  <2>2. proc' \in [Procs -> ProcState] /\ Coherent(proc'[p])
    BY <2>1, <1>1 DEF IInv, TypeOK
  <2> QED BY <1>2, <1>5, <2>1, <2>2, ReleaseStep DEF Exit
<1>6. CASE Crash(p)
  <2>1. /\ proc' \in [Procs -> ProcState]
        /\ proc'[p] = Idle
        /\ \A q \in Procs \ {p} : proc'[q] = proc[q]
    BY <1>0, <1>6, BecomeStep DEF IInv, Crash, Finish
  <2> QED BY <1>0, <1>2, <1>6, <2>1, ReleaseStep DEF Crash
<1>7. CASE MigrateIfNeeded(p)
  <2>1. proc[p].pc \notin SessionPCs
    BY <1>7 DEF MigrateIfNeeded, At, SessionPCs
  <2>2. CASE ActiveContexts = {}
    BY Points, <1>1, <1>3, <1>7, <2>1, <2>2 DEF MigrateIfNeeded, ProcState, Coherent, SessionPCs
  <2>3. CASE ActiveContexts # {}
    <3> DEFINE state == [proc[p] EXCEPT !.pc = "wopen", !.sess = "migrate",
                                        !.ctxs = ActiveContexts]
    <3>1. state \in ProcState /\ Coherent(state) /\ state.pc \notin SessionPCs
      BY Points, <1>1, ConstantsAssumption
         DEF ProcState, AllContexts, Coherent, SessionPCs
    <3> QED BY <1>3, <1>7, <2>1, <2>3, <3>1 DEF MigrateIfNeeded
  <2> QED BY <2>2, <2>3
<1>8. CASE OpenForRead(p)
  <2>1. proc[p].pc \notin SessionPCs
    BY <1>8 DEF OpenForRead, At, SessionPCs
  <2>2. ReadContexts(p) \subseteq AllContexts
    BY <1>1 DEF ReadContexts, NextContexts, ProcState, AllContexts
  <2>3. CASE file = NoInode
    BY <1>3, <1>8, <2>1, <2>2, <2>3, AfterReadState DEF OpenForRead
  <2>4. CASE file # NoInode
    <3> DEFINE state == [proc[p] EXCEPT !.pc = "rlock", !.fd = file]
    <3>1. state \in ProcState /\ Coherent(state) /\ state.pc \notin SessionPCs
      BY Points, <1>1, <1>2, <2>4 DEF ProcState, Coherent, SessionPCs
    <3> QED BY <1>3, <1>8, <2>1, <2>4, <3>1 DEF OpenForRead
  <2> QED BY <2>3, <2>4
<1>9. CASE Read(p)
  <2>1. proc[p].pc \notin SessionPCs
    BY <1>9 DEF Read, At, SessionPCs
  <2>2. ReadContexts(p) \subseteq AllContexts
    BY <1>1 DEF ReadContexts, NextContexts, ProcState, AllContexts
  <2>3. PICK n \in ReadContexts(p) :
          Become(p, AfterRead(p, IF content[proc[p].fd] = Torn THEN {}
                                 ELSE List(Decode(content[proc[p].fd]), n), n))
    BY <1>9 DEF Read
  <2> DEFINE found == IF content[proc[p].fd] = Torn THEN {}
                      ELSE List(Decode(content[proc[p].fd]), n)
  <2>4. found \in SUBSET Plugins
    <3>1. proc[p].fd \in Inodes
      BY <1>1, <1>9 DEF Read, At, Coherent
    <3>2. CASE content[proc[p].fd] # Torn
      <4>1. Decode(content[proc[p].fd]) \in Catalog
        BY <3>1, <3>2, DecodeWellFormed DEF IInv
      <4>2. Association(Decode(content[proc[p].fd]), n) \in PluginAssociation
        BY <4>1, <2>2, AssociationType
      <4> QED BY <4>2 DEF List, Paths, PluginAssociation
    <3> QED BY <3>2
  <2> HIDE DEF found
  <2>5. Become(p, AfterRead(p, found, n))
    BY <2>3 DEF found
  <2> QED BY <1>3, <1>9, <2>1, <2>2, <2>4, <2>5, AfterReadState DEF Read
<1>10. CASE Lookup(p)
  <2> DEFINE state == [proc[p] EXCEPT !.pc = "listing", !.found = bins[proc[p].plugin] = "ok"]
  <2>1. state \in ProcState /\ Coherent(state) /\ state.pc \notin SessionPCs
    BY Points, <1>1 DEF ProcState, Coherent, SessionPCs
  <2> QED BY <1>3, <1>10, <2>1 DEF Lookup, At, SessionPCs
<1>11. CASE Fetch(p)
  <2>1. proc[p].pc \notin SessionPCs
    BY <1>11 DEF Fetch, At, SessionPCs
  <2> DEFINE state == [proc[p] EXCEPT !.pc = "binopen"]
  <2>2. state \in ProcState /\ Coherent(state) /\ state.pc \notin SessionPCs
    BY Points, <1>1, <1>11 DEF Fetch, At, ProcState, Coherent, SessionPCs
  <2> QED BY <1>0, <1>3, <1>11, <2>1, <2>2 DEF Fetch, GoTo, Finish
<1>12. CASE BinOpen(p)
  <2> DEFINE state == [proc[p] EXCEPT !.pc = "binwrite", !.linked = TRUE]
  <2>1. state \in ProcState /\ Coherent(state) /\ state.pc \notin SessionPCs
    BY Points, <1>1, <1>12 DEF BinOpen, At, ProcState, Coherent, SessionPCs
  <2>2. bins' \in [Plugins -> {"absent", "partial", "ok"}]
    BY <1>2, <1>12 DEF BinOpen
  <2>3. proc[p].pc \notin SessionPCs
    BY <1>12 DEF BinOpen, At, SessionPCs
  <2> QED BY <1>2, <1>12, <2>1, <2>2, <2>3, QuietStep DEF BinOpen, disk
<1>13. CASE BinWrite(p)
  <2>1. proc[p].pc \notin SessionPCs
    BY <1>13 DEF BinWrite, At, SessionPCs
  <2>2. bins' \in [Plugins -> {"absent", "partial", "ok"}]
    BY <1>2, <1>13 DEF BinWrite
  <2> DEFINE state == [proc[p] EXCEPT !.pc = "describe"]
  <2>3. state \in ProcState /\ Coherent(state) /\ state.pc \notin SessionPCs
    BY Points, <1>1, <1>13 DEF BinWrite, At, ProcState, Coherent, SessionPCs
  <2> QED BY <1>0, <1>2, <1>13, <2>1, <2>2, <2>3, QuietStep DEF BinWrite, GoTo, Finish, disk
<1>14. CASE Describe(p)
  <2>1. proc[p].pc \notin SessionPCs
    BY <1>14 DEF Describe, At, SessionPCs
  <2> DEFINE state == [proc[p] EXCEPT !.pc = "wopen", !.sess = "upsert"]
  <2>2. state \in ProcState /\ Coherent(state) /\ state.pc \notin SessionPCs
    BY Points, <1>1, <1>14 DEF Describe, At, ProcState, Coherent, SessionPCs
  <2> QED BY <1>0, <1>3, <1>14, <2>1, <2>2 DEF Describe, Finish
<1>15. CASE Confirm(p)
  <2>1. proc[p].pc \notin SessionPCs
    BY <1>15 DEF Confirm, At, SessionPCs
  <2> DEFINE cs == ActiveContexts \cup {StandAlone}
             state == [proc[p] EXCEPT !.pc = "wopen", !.sess = "delete", !.ctxs = cs]
  <2>2. cs \in SUBSET AllContexts
    BY ConstantsAssumption DEF AllContexts
  <2>3. Confirm(p) => Become(p, Idle) \/ Become(p, state)
    BY DEF Confirm, Finish
  <2> HIDE DEF cs
  <2>4. state \in ProcState /\ Coherent(state) /\ state.pc \notin SessionPCs
    <3>1. state \in ProcState
      BY Points, <1>1, <2>2 DEF ProcState
    <3>2. /\ state.pc = "wopen" /\ state.sess = "delete"
          /\ state.kind = proc[p].kind /\ state.plugin = proc[p].plugin /\ state.cat = proc[p].cat
      BY <1>1 DEF ProcState
    <3> HIDE DEF state
    <3> QED BY <1>1, <3>1, <3>2 DEF Coherent, SessionPCs
  <2> QED BY <1>0, <1>3, <1>15, <2>1, <2>3, <2>4 DEF Confirm
<1>16. CASE RefreshNext(p)
  <2>1. proc[p].pc \notin SessionPCs
    BY <1>16 DEF RefreshNext, At, SessionPCs
  <2>2. CASE Finish(p)
    BY <1>0, <1>3, <1>16, <2>1, <2>2 DEF RefreshNext, Finish
  <2>3. ASSUME NEW pl \in proc[p].left,
               Become(p, [proc[p] EXCEPT !.pc = "wopen", !.sess = "refresh", !.plugin = pl,
                                         !.left = proc[p].left \ {pl}])
        PROVE  IInv'
    <3> DEFINE state == [proc[p] EXCEPT !.pc = "wopen", !.sess = "refresh", !.plugin = pl,
                                        !.left = proc[p].left \ {pl}]
    <3>1. pl \in Plugins /\ proc[p].left \ {pl} \in SUBSET Plugins
      BY <1>1 DEF ProcState
    <3>2. state \in ProcState /\ Coherent(state) /\ state.pc \notin SessionPCs
      BY Points, <1>1, <3>1 DEF ProcState, Coherent, SessionPCs
    <3> QED BY <1>3, <1>16, <2>1, <2>3, <3>2 DEF RefreshNext
  <2>4. ASSUME NEW pl \in proc[p].left,
               Become(p, [proc[p] EXCEPT !.left = proc[p].left \ {pl},
                                         !.plugs = proc[p].plugs \ {pl}])
        PROVE  IInv'
    <3> DEFINE state == [proc[p] EXCEPT !.left = proc[p].left \ {pl},
                                        !.plugs = proc[p].plugs \ {pl}]
    <3>1. /\ proc[p].left \ {pl} \in SUBSET Plugins
          /\ proc[p].plugs \ {pl} \in SUBSET Plugins
      BY <1>1 DEF ProcState
    <3>2. state \in ProcState /\ Coherent(state) /\ state.pc \notin SessionPCs
      BY <1>1, <2>1, <3>1 DEF ProcState, Coherent
    <3> QED BY <1>3, <1>16, <2>1, <2>4, <3>2 DEF RefreshNext
  <2> QED BY <1>16, <2>2, <2>3, <2>4 DEF RefreshNext
<1>17. CASE CleanCatalogCache(p)
  <2> DEFINE state == [proc[p] EXCEPT !.pc = "cleanbins"]
  <2>1. state \in ProcState /\ Coherent(state) /\ state.pc \notin SessionPCs
    BY Points, <1>1 DEF ProcState, Coherent, SessionPCs
  <2>2. proc[p].pc \notin SessionPCs /\ file' \in Inodes \cup {NoInode}
    BY <1>17 DEF CleanCatalogCache, At, SessionPCs
  <2> QED BY <1>2, <1>17, <2>1, <2>2, QuietStep DEF CleanCatalogCache, GoTo
<1>18. CASE CleanBinaries(p)
  <2>1. ASSUME NEW q \in Procs
        PROVE  /\ proc'[q] \in ProcState /\ Coherent(proc'[q])
               /\ proc'[q].pc \in SessionPCs =>
                    proc[q].pc \in SessionPCs /\ proc'[q].fd = proc[q].fd
               /\ proc[q].pc \in SessionPCs =>
                    proc'[q].pc \in SessionPCs /\ proc'[q].fd = proc[q].fd
    <3>1. proc[q] \in ProcState /\ Coherent(proc[q])
      BY DEF IInv, TypeOK, ProcsCoherent
    <3>2. CASE q = p
      BY <1>0, <1>18, <3>2 DEF CleanBinaries, At, SessionPCs
    <3>3. CASE q # p
      <4>1. proc'[q] = [proc[q] EXCEPT !.linked = FALSE]
        BY <1>18, <3>3 DEF CleanBinaries
      <4> QED BY <3>1, <4>1 DEF ProcState, Coherent
    <3> QED BY <3>2, <3>3
  <2>2. /\ proc' \in [Procs -> ProcState]
        /\ bins' \in [Plugins -> {"absent", "partial", "ok"}]
        /\ UNCHANGED <<file, content, lock, ops>>
    <3>1. proc' = [q \in Procs |-> proc'[q]]
      BY <1>18 DEF CleanBinaries
    <3> QED BY <1>18, <2>1, <3>1 DEF CleanBinaries, disk
  <2>3. TypeOK'
    BY <2>2 DEF IInv, TypeOK
  <2>4. ProcsCoherent'
    BY <2>1 DEF ProcsCoherent, Coherent
  <2>5. SessionsLocked'
    BY <2>1, <2>2 DEF IInv, SessionsLocked, InSession, SessionPCs
  <2>6. FilesWellFormed'
    BY <2>2 DEF IInv, FilesWellFormed
  <2>7. LocksAreAccountedFor'
    BY <2>1, <2>2 DEF IInv, LocksAreAccountedFor, InSession, SessionPCs
  <2> QED BY <2>3, <2>4, <2>5, <2>6, <2>7 DEF IInv
<1> QED BY <1>4, <1>5, <1>6, <1>7, <1>8, <1>9, <1>10, <1>11, <1>12, <1>13, <1>14, <1>15, <1>16,
           <1>17, <1>18

-----------------------------------------------------------------------------
\* Every step keeps the inductive invariant.
LEMMA StepKeeps == IInv /\ [Next]_vars => IInv'
<1> SUFFICES ASSUME IInv, [Next]_vars PROVE IInv'
  OBVIOUS
<1>1. CASE UNCHANGED vars
  <2>1. UNCHANGED <<file, content, lock, bins, proc, ops>>
    BY <1>1 DEF vars, disk
  <2>2. TypeOK' /\ ProcsCoherent' /\ SessionsLocked' /\ FilesWellFormed' /\ LocksAreAccountedFor'
    BY <2>1 DEF IInv, TypeOK, ProcsCoherent, Coherent, SessionsLocked, InSession,
       FilesWellFormed, LocksAreAccountedFor
  <2> QED BY <2>2 DEF IInv
<1>2. ASSUME NEW p \in Procs, Step(p) PROVE IInv'
  BY <1>2, SessionActions, OtherActions DEF Step, Progress
<1> QED BY <1>1, <1>2 DEF Next, Terminated

\* The inductive invariant holds in every reachable state.
THEOREM Invariance == Spec => []IInv
BY InitIInv, StepKeeps, PTL DEF Spec

\* Type correctness, for every value of the constants.
THEOREM TypeCorrect == Spec => []TypeOK
<1>1. IInv => TypeOK
  BY DEF IInv
<1> QED BY <1>1, Invariance, PTL

\* Every catalog on disk or in the memory of a process files its plugins under
\* their own keys and indexes them, through crashes, failed writes and cleans:
\* ContextCatalog.List never meets a path without PluginInfo.
THEOREM CatalogsStayWellFormed == Spec => []CatalogsWellFormed
<1>1. IInv => CatalogsWellFormed
  BY DEF IInv, FilesWellFormed, ProcsCoherent, Coherent, CatalogsWellFormed
<1> QED BY <1>1, Invariance, PTL

\* A lock held outside an update session is on a file that could not be
\* decoded: the error path is the only leak.
THEOREM LocksAccounted == Spec => []LocksAreAccountedFor
<1>1. IInv => LocksAreAccountedFor
  BY DEF IInv
<1> QED BY <1>1, Invariance, PTL

-----------------------------------------------------------------------------
(* The store of InstalledPlugins.                                           *)


\* The contexts in `done` were moved to the stand-alone plugins.
Migrated(c, d, done) ==
  /\ d.server = [s \in Servers |-> IF s \in done THEN NoAssociation ELSE c.server[s]]
  /\ \A k \in Keys :
       IF \A s \in done : c.server[s][k] = NoPlugin
       THEN d.standAlone[k] = c.standAlone[k]
       ELSE d.standAlone[k] # NoPlugin /\ \E s \in done : d.standAlone[k] = c.server[s][k]

\* What a session has to have done to its catalog before it saves it; a
\* delete saves several times, each time with fewer plugins left.
Achieved(s) ==
  /\ s.sess \in {"upsert", "refresh"} =>
       /\ s.cat.standAlone[KeyOf(s.plugin)] = s.plugin
       /\ \A k \in Superseded(s.plugin) : s.cat.standAlone[k] = NoPlugin
  /\ s.sess = "fix" => \A n \in AllContexts, name \in Names : ~Doubled(Association(s.cat, n), name)
  /\ s.sess = "migrate" => \A ac \in ActiveContexts : s.cat.server[ac] = NoAssociation

Deleted(s) ==
  s.sess = "delete" =>
    /\ s.left \subseteq s.plugs
    /\ \A pl \in s.plugs \ s.left : Association(s.cat, s.ctx)[KeyOf(pl)] = NoPlugin

\* A process in a session and the file x that it has locked.
SessionOK(s, x) ==
  /\ s.pc = "edit" =>
       /\ s.sess \in {"upsert", "refresh", "fix"} => x # Torn /\ s.cat = Decode(x)
       /\ s.sess = "migrate" => x # Torn /\ Migrated(Decode(x), s.cat, ActiveContexts \ s.ctxs)
       /\ s.sess = "delete" => x \in {Blank, Torn, s.cat}
  /\ s.pc = "write" => x = Blank
  /\ s.pc \in {"write", "unlock"} => Achieved(s)
  /\ Deleted(s)
  /\ s.pc = "unlock" /\ s.sess = "delete" => s.left = {}
  /\ s.pc = "unlock" /\ "writefail" \notin Faults => x = s.cat

\* Before the lock: a migration has all active contexts to visit.
Ready(s) ==
  /\ s.sess = "migrate" /\ s.pc \in {"wopen", "wlock"} => s.ctxs = ActiveContexts
  /\ s.pc \in {"cleancat", "cleanbins"} => s.kind = "clean"

\* Without `plugin clean` a process works on the file that catalog.yaml names.
OnFile(s, f) == "clean" \notin Kinds /\ s.pc \in SessionPCs \cup {"wlock"} => s.fd = f

SessionsAgree ==
  \A p \in Procs : /\ Ready(proc[p])
                   /\ OnFile(proc[p], file)
                   /\ proc[p].pc \in SessionPCs => SessionOK(proc[p], content[proc[p].fd])

-----------------------------------------------------------------------------
\* A process in a session is the only one that writes the file it has locked.
LEMMA OthersKept ==
  ASSUME IInv, NEW p \in Procs, NEW q \in Procs \ {p}, proc[q].pc \in SessionPCs,
         \A i \in Inodes : content'[i] = content[i] \/ lock[i] = p \/ FreeInode(i)
  PROVE  content'[proc[q].fd] = content[proc[q].fd]
<1>1. proc[q].fd \in Inodes /\ lock[proc[q].fd] = q
  BY DEF IInv, ProcsCoherent, Coherent, SessionsLocked, InSession, SessionPCs
<1> QED BY <1>1 DEF FreeInode

\* A step of one process keeps what the sessions of the others rest on.
LEMMA OwnStep ==
  ASSUME IInv, SessionsAgree, NEW p \in Procs,
         \A q \in Procs \ {p} : proc'[q] = proc[q],
         \A i \in Inodes : content'[i] = content[i] \/ lock[i] = p \/ FreeInode(i),
         "clean" \notin Kinds => file' = file \/ file = NoInode,
         Ready(proc'[p]), OnFile(proc'[p], file'),
         proc'[p].pc \in SessionPCs => SessionOK(proc'[p], content'[proc'[p].fd])
  PROVE  SessionsAgree'
<1> SUFFICES ASSUME NEW q \in Procs
             PROVE  /\ Ready(proc'[q])
                    /\ OnFile(proc'[q], file')
                    /\ proc'[q].pc \in SessionPCs => SessionOK(proc'[q], content'[proc'[q].fd])
  BY DEF SessionsAgree
<1>1. CASE q = p
  BY <1>1
<1>2. CASE q # p
  <2>1. OnFile(proc[q], file) => OnFile(proc[q], file')
    BY ConstantsAssumption DEF OnFile, IInv, ProcsCoherent, Coherent, SessionPCs
  <2> QED BY <1>2, <2>1, OthersKept DEF SessionsAgree
<1> QED BY <1>1, <1>2

-----------------------------------------------------------------------------
(* What the edits of a catalog do.                                          *)

\* ContextCatalog.Upsert installs the plugin and removes what it supersedes.
LEMMA UpsertDoes ==
  ASSUME NEW c \in Catalog, NEW pl \in Plugins
  PROVE  /\ Upsert(c, pl).server = c.server
         /\ Upsert(c, pl).standAlone = [k \in Keys |-> IF k = KeyOf(pl) THEN pl
                                                       ELSE IF k \in Superseded(pl) THEN NoPlugin
                                                       ELSE c.standAlone[k]]
         /\ Upsert(c, pl).standAlone[KeyOf(pl)] = pl
         /\ \A k \in Superseded(pl) : Upsert(c, pl).standAlone[k] = NoPlugin
<1>1. /\ Upsert(c, pl).server = c.server
      /\ Upsert(c, pl).standAlone = [k \in Keys |-> IF k = KeyOf(pl) THEN pl
                                                    ELSE IF k \in Superseded(pl) THEN NoPlugin
                                                    ELSE c.standAlone[k]]
  BY DEF Upsert, Catalog
<1>2. KeyOf(pl) \in Keys /\ Superseded(pl) \subseteq Keys
  BY KeysType DEF Superseded
<1>3. \A k \in Superseded(pl) : k # KeyOf(pl)
  BY DEF Superseded, KeyOf, PluginNameTarget, TargetUnknown, TargetGlobal, TargetK8s
<1> QED BY <1>1, <1>2, <1>3

\* ContextCatalog.Delete removes one key of one context.
LEMMA DeleteFields ==
  ASSUME NEW c \in Catalog, NEW n \in AllContexts, NEW key \in Keys
  PROVE  /\ n = StandAlone =>
              /\ Delete(c, n, key).standAlone = [c.standAlone EXCEPT ![key] = NoPlugin]
              /\ Delete(c, n, key).server = c.server
         /\ n # StandAlone =>
              /\ Delete(c, n, key).standAlone = c.standAlone
              /\ Delete(c, n, key).server =
                   [c.server EXCEPT ![n] = [c.server[n] EXCEPT ![key] = NoPlugin]]
BY DEF Delete, Catalog

LEMMA DeleteDoes ==
  ASSUME NEW c \in Catalog, NEW n \in AllContexts, NEW key \in Keys
  PROVE  /\ Association(Delete(c, n, key), n)[key] = NoPlugin
         /\ \A m \in AllContexts, k \in Keys :
              m # n \/ k # key => Association(Delete(c, n, key), m)[k] = Association(c, m)[k]
<1>1. CASE n = StandAlone
  BY <1>1, DataAssumption DEF Delete, Catalog, PluginAssociation, AllContexts, Association
<1>2. CASE n # StandAlone
  BY <1>2, DataAssumption DEF Delete, Catalog, PluginAssociation, AllContexts, Association
<1> QED BY <1>1, <1>2

\* One more context is migrated.
LEMMA MigrateDoes ==
  ASSUME NEW c \in Catalog, NEW d \in Catalog, NEW done \in SUBSET Servers,
         NEW ac \in Servers \ done, Migrated(c, d, done)
  PROVE  Migrated(c, MigrateContext(d, ac), done \cup {ac})
<1> DEFINE e == MigrateContext(d, ac)
<1>1. /\ e.standAlone = [k \in Keys |-> IF d.server[ac][k] # NoPlugin
                                        THEN d.server[ac][k] ELSE d.standAlone[k]]
      /\ e.server = [d.server EXCEPT ![ac] = NoAssociation]
  BY DEF MigrateContext, Catalog
<1>2. d.server[ac] = c.server[ac] /\ d.server \in [Servers -> PluginAssociation]
  BY DEF Migrated, Catalog
<1>3. e.server = [s \in Servers |-> IF s \in done \cup {ac} THEN NoAssociation ELSE c.server[s]]
  BY <1>1, <1>2 DEF Migrated
<1>4. ASSUME NEW k \in Keys
      PROVE  IF \A s \in done \cup {ac} : c.server[s][k] = NoPlugin
             THEN e.standAlone[k] = c.standAlone[k]
             ELSE /\ e.standAlone[k] # NoPlugin
                  /\ \E s \in done \cup {ac} : e.standAlone[k] = c.server[s][k]
  <2>1. e.standAlone[k] = IF c.server[ac][k] # NoPlugin THEN c.server[ac][k] ELSE d.standAlone[k]
    BY <1>1, <1>2
  <2>2. IF \A s \in done : c.server[s][k] = NoPlugin
        THEN d.standAlone[k] = c.standAlone[k]
        ELSE d.standAlone[k] # NoPlugin /\ \E s \in done : d.standAlone[k] = c.server[s][k]
    BY DEF Migrated
  <2> HIDE DEF e
  <2>3. CASE c.server[ac][k] # NoPlugin
    BY <2>1, <2>3
  <2>4. CASE c.server[ac][k] = NoPlugin
    BY <2>1, <2>2, <2>4
  <2> QED BY <2>3, <2>4
<1> QED BY <1>3, <1>4 DEF Migrated

\* What the clean-up of overlapping root commands keeps of an association.
Unmixed(a) ==
  [k \in Keys |-> IF k[2] = TargetUnknown /\ Doubled(a, k[1]) THEN NoPlugin ELSE a[k]]

\* In a well-formed catalog the plugins that DeleteIncorrectPluginEntries finds
\* are those of the doubled names.
LEMMA RemoveDoes ==
  ASSUME NEW c \in Catalog, WellFormed(c), NEW n \in AllContexts
  PROVE  /\ RemoveIncorrect(c, Association(c, n)) = Unmixed(Association(c, n))
         /\ \A name \in Names : ~Doubled(Unmixed(Association(c, n)), name)
<1> DEFINE a == Association(c, n)
<1>1. a \in PluginAssociation
  BY AssociationType
<1>2. ASSUME NEW k \in Keys, k \in Incorrect(c, a) PROVE k[2] = TargetUnknown /\ (a[k] = NoPlugin \/ Doubled(a, k[1]))
  <2>1. PICK q \in Paths(a) : /\ q.target \in {TargetGlobal, TargetK8s}
                              /\ k = PluginNameTarget(q.name, TargetUnknown)
    BY <1>2 DEF Incorrect
  <2>2. PICK j \in Keys : a[j] = q /\ q # NoPlugin
    BY <2>1 DEF Paths
  <2>3. KeyOf(q) = j
    BY <2>2 DEF WellFormed
  <2>4. k[1] = q.name /\ k[2] = TargetUnknown /\ k = <<q.name, TargetUnknown>>
    BY <2>1 DEF PluginNameTarget
  <2> QED BY <2>1, <2>2, <2>3, <2>4 DEF Doubled, KeyOf, PluginNameTarget
<1>3. ASSUME NEW k \in Keys, k[2] = TargetUnknown, Doubled(a, k[1]) PROVE k \in Incorrect(c, a)
  <2>1. PICK t \in {TargetGlobal, TargetK8s} : a[PluginNameTarget(k[1], t)] # NoPlugin
    BY <1>3 DEF Doubled
  <2> DEFINE j == PluginNameTarget(k[1], t)
             q == a[j]
  <2>2. j \in Keys
    BY DEF Keys, Targets, PluginNameTarget
  <2>3. q \in Paths(a) /\ KeyOf(q) = j /\ c.indexByPath[q] # "none"
    BY <2>1, <2>2 DEF WellFormed, Paths
  <2>4. q.name = k[1] /\ q.target = t
    BY <2>3 DEF KeyOf, PluginNameTarget
  <2>5. k = PluginNameTarget(k[1], TargetUnknown)
    BY <1>3 DEF Keys, PluginNameTarget
  <2> HIDE DEF q
  <2> QED BY <2>1, <2>3, <2>4, <2>5 DEF Incorrect
<1>4. ASSUME NEW k \in Keys PROVE RemoveIncorrect(c, a)[k] = Unmixed(a)[k]
  BY <1>2, <1>3 DEF RemoveIncorrect, Unmixed
<1>5. RemoveIncorrect(c, a) = Unmixed(a)
  BY <1>4 DEF RemoveIncorrect, Unmixed
<1>6. ASSUME NEW name \in Names PROVE ~Doubled(Unmixed(a), name)
  <2>1. \A t \in {TargetUnknown, TargetGlobal, TargetK8s} :
          /\ PluginNameTarget(name, t) \in Keys
          /\ PluginNameTarget(name, t)[1] = name /\ PluginNameTarget(name, t)[2] = t
    BY DEF Keys, Targets, PluginNameTarget
  <2>2. TargetUnknown # TargetGlobal /\ TargetUnknown # TargetK8s
    BY DEF TargetUnknown, TargetGlobal, TargetK8s
  <2>3. \A t \in {TargetGlobal, TargetK8s} :
          Unmixed(a)[PluginNameTarget(name, t)] = a[PluginNameTarget(name, t)]
    BY <2>1, <2>2 DEF Unmixed
  <2>4. Unmixed(a)[PluginNameTarget(name, TargetUnknown)] =
          IF Doubled(a, name) THEN NoPlugin ELSE a[PluginNameTarget(name, TargetUnknown)]
    BY <2>1 DEF Unmixed
  <2> QED BY <2>3, <2>4 DEF Doubled
<1> QED BY <1>5, <1>6

\* DeleteIncorrectPluginEntries leaves no name twice.
LEMMA FixDoes ==
  ASSUME NEW c \in Catalog, WellFormed(c)
  PROVE  /\ DeleteIncorrectPluginEntries(c).standAlone = Unmixed(c.standAlone)
         /\ DeleteIncorrectPluginEntries(c).server = [s \in Servers |-> Unmixed(c.server[s])]
         /\ \A n \in AllContexts :
              /\ Association(DeleteIncorrectPluginEntries(c), n) = Unmixed(Association(c, n))
              /\ \A name \in Names :
                   ~Doubled(Association(DeleteIncorrectPluginEntries(c), n), name)
<1> DEFINE d == DeleteIncorrectPluginEntries(c)
<1>1. /\ d.standAlone = RemoveIncorrect(c, c.standAlone)
      /\ d.server = [s \in Servers |-> RemoveIncorrect(c, c.server[s])]
  BY DEF DeleteIncorrectPluginEntries, Catalog
<1>2. StandAlone \in AllContexts /\ Association(c, StandAlone) = c.standAlone
  BY DEF AllContexts, Association
<1>3. \A s \in Servers : s \in AllContexts /\ Association(c, s) = c.server[s]
  BY DataAssumption DEF AllContexts, Association
<1>4. /\ d.standAlone = Unmixed(c.standAlone)
      /\ d.server = [s \in Servers |-> Unmixed(c.server[s])]
  BY <1>1, <1>2, <1>3, RemoveDoes
<1>5. ASSUME NEW n \in AllContexts PROVE Association(d, n) = Unmixed(Association(c, n))
  BY <1>4, DataAssumption DEF Association, AllContexts
<1> QED BY <1>4, <1>5, RemoveDoes

-----------------------------------------------------------------------------
(* What readers see, as a function of the state.                            *)

Deciders(s, f) == s.fd = f /\ (s.pc = "write" \/ (s.pc = "edit" /\ s.sess = "delete"))
Plain(x) == IF x = Torn THEN newSharedCatalog ELSE Decode(x)

View(f, ct, pr) ==
  IF f = NoInode THEN newSharedCatalog
  ELSE IF \E p \in Procs : Deciders(pr[p], f) THEN pr[CHOOSE p \in Procs : Deciders(pr[p], f)].cat
  ELSE Plain(ct[f])

LEMMA VisibleIsView == Visible = View(file, content, proc) /\ Visible' = View(file', content', proc')
BY DEF Visible, View, Deciding, Deciders, At, Plain

\* One process at a time decides what readers see, since it holds the lock.
LEMMA ViewIs ==
  ASSUME NEW f, NEW ct, NEW pr, NEW lk,
         \A p \in Procs : pr[p].pc \in SessionPCs => lk[pr[p].fd] = p
  PROVE  /\ f = NoInode => View(f, ct, pr) = newSharedCatalog
         /\ \A p \in Procs : f # NoInode /\ Deciders(pr[p], f) => View(f, ct, pr) = pr[p].cat
         /\ f # NoInode /\ (\A p \in Procs : ~Deciders(pr[p], f)) => View(f, ct, pr) = Plain(ct[f])
<1>1. \A p, q \in Procs : Deciders(pr[p], f) /\ Deciders(pr[q], f) => p = q
  BY DEF Deciders, SessionPCs
<1>2. ASSUME NEW p \in Procs, f # NoInode, Deciders(pr[p], f) PROVE View(f, ct, pr) = pr[p].cat
  <2>1. (CHOOSE q \in Procs : Deciders(pr[q], f)) = p
    BY <1>1, <1>2
  <2> QED BY <1>2, <2>1 DEF View
<1>3. f # NoInode /\ (\A p \in Procs : ~Deciders(pr[p], f)) => View(f, ct, pr) = Plain(ct[f])
  BY DEF View
<1>4. f = NoInode => View(f, ct, pr) = newSharedCatalog
  BY DEF View
<1> QED BY <1>2, <1>3, <1>4

LEMMA Before ==
  ASSUME IInv
  PROVE  /\ file = NoInode => Visible = newSharedCatalog
         /\ \A p \in Procs : file # NoInode /\ Deciders(proc[p], file) => Visible = proc[p].cat
         /\ file # NoInode /\ (\A p \in Procs : ~Deciders(proc[p], file)) =>
              Visible = Plain(content[file])
<1>1. \A p \in Procs : proc[p].pc \in SessionPCs => lock[proc[p].fd] = p
  BY DEF IInv, SessionsLocked, InSession, SessionPCs
<1> QED BY <1>1, ViewIs, VisibleIsView

LEMMA After ==
  ASSUME IInv'
  PROVE  /\ file' = NoInode => Visible' = newSharedCatalog
         /\ \A p \in Procs : file' # NoInode /\ Deciders(proc'[p], file') => Visible' = proc'[p].cat
         /\ file' # NoInode /\ (\A p \in Procs : ~Deciders(proc'[p], file')) =>
              Visible' = Plain(content'[file'])
<1>1. \A p \in Procs : proc'[p].pc \in SessionPCs => lock'[proc'[p].fd] = p
  BY DEF IInv, SessionsLocked, InSession, SessionPCs
<1> QED BY <1>1, ViewIs, VisibleIsView

\* Readers see a well-formed catalog.
LEMMA VisibleType == ASSUME IInv PROVE Visible \in Catalog /\ WellFormed(Visible)
<1>1. CASE file = NoInode
  BY <1>1, Before, NewCatalog
<1>2. CASE file # NoInode /\ \E p \in Procs : Deciders(proc[p], file)
  BY <1>2, Before DEF IInv, TypeOK, ProcState, ProcsCoherent, Coherent
<1>3. CASE file # NoInode /\ \A p \in Procs : ~Deciders(proc[p], file)
  <2>1. file \in Inodes
    BY <1>3 DEF IInv, TypeOK
  <2> QED BY <1>3, <2>1, Before, NewCatalog, DecodeWellFormed DEF IInv, Plain
<1> QED BY <1>1, <1>2, <1>3

LEMMA VisibleTypeNext == ASSUME IInv' PROVE Visible' \in Catalog
<1>1. CASE file' = NoInode
  BY <1>1, After, NewCatalog
<1>2. CASE file' # NoInode /\ \E p \in Procs : Deciders(proc'[p], file')
  BY <1>2, After DEF IInv, TypeOK, ProcState
<1>3. CASE file' # NoInode /\ \A p \in Procs : ~Deciders(proc'[p], file')
  <2>1. content'[file'] \in Catalog \cup {Blank, Torn}
    BY <1>3 DEF IInv, TypeOK
  <2> QED BY <1>3, <2>1, After, NewCatalog DEF Plain, Decode
<1> QED BY <1>1, <1>2, <1>3

\* A step of a process that decides nothing before or after shows nothing.
LEMMA SameView ==
  ASSUME IInv, IInv', NEW p \in Procs, file' = file,
         file # NoInode => content'[file] = content[file],
         \A q \in Procs \ {p} : proc'[q] = proc[q],
         ~Deciders(proc[p], file), ~Deciders(proc'[p], file)
  PROVE  Visible' = Visible
<1>1. CASE file = NoInode
  BY <1>1, Before, After
<1>2. CASE file # NoInode /\ \E q \in Procs : Deciders(proc[q], file)
  <2>1. PICK q \in Procs : Deciders(proc[q], file)
    BY <1>2
  <2>2. q # p /\ proc'[q] = proc[q] /\ Deciders(proc'[q], file')
    BY <2>1
  <2> QED BY <1>2, <2>1, <2>2, Before, After
<1>3. CASE file # NoInode /\ \A q \in Procs : ~Deciders(proc[q], file)
  <2>1. \A q \in Procs : ~Deciders(proc'[q], file')
    BY <1>3
  <2> QED BY <1>3, <2>1, Before, After
<1> QED BY <1>1, <1>2, <1>3

\* How a step may change what readers see: not at all, by the save of a
\* session, or, where saves fail or the catalog is removed, to nothing.
Saves(p) ==
  /\ proc[p].pc = "edit" /\ proc'[p].pc = "write" /\ proc[p].fd = file
  /\ \/ /\ proc[p].sess \in {"upsert", "refresh"} /\ proc[p].plugin \in Plugins
        /\ Visible' = Upsert(Visible, proc[p].plugin)
     \/ /\ proc[p].sess = "delete" /\ proc[p].ctx \in AllContexts
        /\ \E pl \in proc[p].plugs :
             pl \in Plugins /\ Visible' = Delete(Visible, proc[p].ctx, KeyOf(pl))
     \/ proc[p].sess = "fix" /\ Visible' = DeleteIncorrectPluginEntries(Visible)
     \/ proc[p].sess = "migrate" /\ Migrated(Visible, Visible', ActiveContexts)

Loses == Visible' = newSharedCatalog /\ (Faults # {} \/ "clean" \in Kinds)

Shows == Visible' = Visible \/ Loses \/ \E p \in Procs : Saves(p)

\* A step outside sessions.
LEMMA OutsideStep ==
  ASSUME IInv, IInv', SessionsAgree, NEW p \in Procs,
         proc[p].pc \notin SessionPCs, proc'[p].pc \notin SessionPCs, Ready(proc'[p]),
         OnFile(proc'[p], file),
         \A q \in Procs \ {p} : proc'[q] = proc[q],
         UNCHANGED <<file, content>>
  PROVE  SessionsAgree' /\ Shows
<1>1. SessionsAgree'
  BY OwnStep
<1>2. Visible' = Visible
  BY SameView DEF Deciders, SessionPCs
<1> QED BY <1>1, <1>2 DEF Shows

-----------------------------------------------------------------------------
(* The steps of an update session.                                          *)

\* The state of a process after a step, as its fields.
LEMMA Became ==
  ASSUME TypeOK, NEW p \in Procs, NEW state, Become(p, state)
  PROVE  proc'[p] = state /\ \A q \in Procs \ {p} : proc'[q] = proc[q]
BY DEF TypeOK, Become

LEMMA LockShows ==
  ASSUME IInv, IInv', SessionsAgree, NEW p \in Procs, LockForUpdate(p)
  PROVE  SessionsAgree' /\ Shows
<1> DEFINE s == proc[p]
           x == content[proc[p].fd]
           t == proc'[p]
<1>1. s \in ProcState /\ Coherent(s) /\ s.pc = "wlock" /\ s.fd \in Inodes /\ x # Torn
  BY DEF IInv, TypeOK, ProcsCoherent, Coherent, LockForUpdate, At
<1>2. /\ t = [s EXCEPT !.pc = "edit", !.cat = Decode(x),
                       !.left = IF s.sess = "delete" THEN s.plugs ELSE s.left]
      /\ \A q \in Procs \ {p} : proc'[q] = proc[q]
      /\ UNCHANGED <<file, content>>
  BY Became DEF LockForUpdate, IInv
<1>3. /\ t.pc = "edit" /\ t.cat = Decode(x) /\ t.fd = s.fd /\ t.sess = s.sess /\ t.ctxs = s.ctxs
      /\ t.plugs = s.plugs /\ (s.sess = "delete" => t.left = s.plugs)
  BY <1>1, <1>2 DEF ProcState
<1>4. Decode(x) \in Catalog
  BY <1>1, DecodeWellFormed DEF IInv
<1>5. s.sess = "migrate" => Migrated(Decode(x), t.cat, ActiveContexts \ t.ctxs)
  <2>1. s.sess = "migrate" => t.ctxs = ActiveContexts
    BY <1>1, <1>3 DEF SessionsAgree, Ready
  <2> QED BY <1>3, <1>4, <2>1 DEF Migrated, Catalog
<1>6. Ready(t) /\ SessionOK(t, x) /\ OnFile(t, file)
  BY <1>1, <1>3, <1>5 DEF Ready, SessionOK, Deleted, Decode, OnFile, SessionsAgree
<1>7. SessionsAgree'
  BY <1>2, <1>3, <1>6, OwnStep
<1>8. Visible' = Visible
  <2>1. ~Deciders(s, file)
    BY <1>1 DEF Deciders
  <2>2. CASE ~Deciders(t, file)
    BY <1>2, <2>1, <2>2, SameView
  <2>3. CASE Deciders(t, file)
    <3>1. s.fd = file /\ file # NoInode /\ lock[file] = NoProc
      BY <1>1, <1>3, <2>3, ConstantsAssumption DEF Deciders, LockForUpdate
    <3>2. \A q \in Procs : ~Deciders(proc[q], file)
      BY <3>1, ConstantsAssumption DEF Deciders, IInv, SessionsLocked, InSession
    <3>3. Visible = Decode(x)
      BY <1>1, <3>1, <3>2, Before DEF Plain
    <3>4. Visible' = t.cat
      BY <1>2, <2>3, <3>1, After
    <3> QED BY <1>3, <3>3, <3>4
  <2> QED BY <2>2, <2>3
<1> QED BY <1>7, <1>8 DEF Shows

\* A process in a session is the one that readers wait for.
LEMMA Alone ==
  ASSUME IInv, NEW p \in Procs, proc[p].pc \in SessionPCs, proc[p].fd = file
  PROVE  /\ file \in Inodes /\ file # NoInode
         /\ \A q \in Procs \ {p} : ~Deciders(proc[q], file)
<1>1. file \in Inodes /\ lock[file] = p
  BY DEF IInv, ProcsCoherent, Coherent, SessionsLocked, InSession, SessionPCs
<1> QED BY <1>1, ConstantsAssumption
        DEF Deciders, IInv, SessionsLocked, InSession, SessionPCs

\* What a session about to save has read is what readers see.
LEMMA ReadIsVisible ==
  ASSUME IInv, SessionsAgree, NEW p \in Procs, proc[p].pc = "edit", proc[p].fd = file
  PROVE  /\ proc[p].sess \in {"upsert", "refresh", "fix", "delete"} => Visible = proc[p].cat
         /\ proc[p].sess = "migrate" => Migrated(Visible, proc[p].cat, ActiveContexts \ proc[p].ctxs)
<1>1. /\ file # NoInode
      /\ \A q \in Procs \ {p} : ~Deciders(proc[q], file)
      /\ SessionOK(proc[p], content[file])
  BY Alone DEF SessionPCs, SessionsAgree
<1>2. CASE proc[p].sess = "delete"
  BY <1>1, <1>2, Before DEF Deciders
<1>3. CASE proc[p].sess # "delete"
  <2>1. \A q \in Procs : ~Deciders(proc[q], file)
    BY <1>1, <1>3 DEF Deciders
  <2> QED BY <1>1, <1>3, <2>1, Before DEF SessionOK, Plain
<1> QED BY <1>2, <1>3

\* saveCatalogCache with the catalog c.
LEMMA SaveShows ==
  ASSUME IInv, IInv', SessionsAgree, NEW p \in Procs, At(p, "edit"), NEW c, NEW rest,
         Save(p, [proc[p] EXCEPT !.cat = c, !.left = rest]),
         Achieved([proc[p] EXCEPT !.cat = c, !.left = rest, !.pc = "write"]),
         Deleted([proc[p] EXCEPT !.cat = c, !.left = rest, !.pc = "write"])
  PROVE  /\ SessionsAgree'
         /\ proc'[p].pc = "write"
         /\ proc[p].fd # file => Visible' = Visible
         /\ proc[p].fd = file => Visible' = c
<1> DEFINE s == proc[p]
           t == proc'[p]
<1>1. s \in ProcState /\ s.pc = "edit" /\ s.fd \in Inodes /\ lock[s.fd] = p
  BY DEF IInv, TypeOK, ProcsCoherent, Coherent, At, SessionPCs, SessionsLocked, InSession
<1>2. /\ t = [s EXCEPT !.cat = c, !.left = rest, !.pc = "write"]
      /\ \A q \in Procs \ {p} : proc'[q] = proc[q]
      /\ UNCHANGED file
  BY <1>1, Became DEF Save, IInv, ProcState
<1>3. t.pc = "write" /\ t.fd = s.fd /\ t.cat = c
  BY <1>1, <1>2 DEF ProcState
<1>4. content'[s.fd] = Blank /\ \A i \in Inodes \ {s.fd} : content'[i] = content[i]
  BY <1>1 DEF Save, IInv, TypeOK
<1>5. SessionOK(t, content'[t.fd]) /\ Ready(t) /\ OnFile(t, file)
  BY <1>1, <1>2, <1>3, <1>4 DEF SessionOK, Ready, OnFile, SessionsAgree, SessionPCs
<1>6. SessionsAgree'
  BY <1>1, <1>2, <1>4, <1>5, OwnStep
<1>7. CASE s.fd # file
  <2>1. ~Deciders(s, file) /\ ~Deciders(t, file)
    BY <1>3, <1>7 DEF Deciders
  <2>2. file # NoInode => content'[file] = content[file]
    BY <1>4, <1>7 DEF IInv, TypeOK
  <2> QED BY <1>2, <1>3, <1>6, <1>7, <2>1, <2>2, SameView
<1>8. CASE s.fd = file
  <2>1. Deciders(t, file') /\ file' # NoInode
    BY <1>1, <1>2, <1>3, <1>8, ConstantsAssumption DEF Deciders
  <2> QED BY <1>3, <1>6, <1>8, <2>1, After
<1> QED BY <1>7, <1>8

LEMMA SavesShow ==
  ASSUME IInv, IInv', SessionsAgree, NEW p \in Procs,
         MigrateSave(p) \/ FixSave(p) \/ UpsertSave(p) \/ DeleteSave(p)
  PROVE  SessionsAgree' /\ Shows
<1> DEFINE s == proc[p]
           St(c, rest) == [s EXCEPT !.cat = c, !.left = rest, !.pc = "write"]
<1>1. s \in ProcState /\ Coherent(s) /\ s.pc = "edit" /\ s.cat \in Catalog /\ WellFormed(s.cat)
  BY DEF IInv, TypeOK, ProcsCoherent, Coherent, ProcState, MigrateSave, FixSave, UpsertSave,
     DeleteSave, At
<1>2. SessionOK(s, content[s.fd]) /\ s.fd \in Inodes
  BY <1>1 DEF SessionsAgree, SessionPCs, Coherent
<1>3. ASSUME NEW c, NEW rest
      PROVE  /\ St(c, rest).cat = c /\ St(c, rest).left = rest /\ St(c, rest).sess = s.sess
             /\ St(c, rest).plugin = s.plugin /\ St(c, rest).plugs = s.plugs
             /\ St(c, rest).ctx = s.ctx
  BY <1>1 DEF ProcState
<1>4. ASSUME NEW c PROVE [s EXCEPT !.cat = c] = [s EXCEPT !.cat = c, !.left = s.left]
  BY <1>1 DEF ProcState
<1>5. CASE MigrateSave(p)
  <2>1. s.sess = "migrate" /\ s.ctxs = {} /\ At(p, "edit")
    BY <1>5 DEF MigrateSave
  <2>2. s = [s EXCEPT !.cat = s.cat, !.left = s.left]
    BY <1>1 DEF ProcState
  <2>3. Save(p, [s EXCEPT !.cat = s.cat, !.left = s.left])
    BY <1>5, <2>2 DEF MigrateSave
  <2>4. Migrated(Decode(content[s.fd]), s.cat, ActiveContexts)
    BY <1>1, <1>2, <2>1 DEF SessionOK
  <2>5. Achieved(St(s.cat, s.left)) /\ Deleted(St(s.cat, s.left))
    BY <1>3, <2>1, <2>4, ConstantsAssumption DEF Achieved, Deleted, Migrated
  <2>6. SessionsAgree' /\ proc'[p].pc = "write" /\ (s.fd # file => Visible' = Visible)
        /\ (s.fd = file => Visible' = s.cat)
    BY <2>1, <2>3, <2>5, SaveShows
  <2>7. s.fd = file => Migrated(Visible, s.cat, ActiveContexts)
    BY <1>1, <2>1, ReadIsVisible
  <2> QED BY <1>1, <2>1, <2>6, <2>7 DEF Shows, Saves
<1>6. CASE FixSave(p)
  <2> DEFINE c == DeleteIncorrectPluginEntries(s.cat)
  <2>1. s.sess = "fix" /\ At(p, "edit")
    BY <1>6 DEF FixSave
  <2>2. Save(p, [s EXCEPT !.cat = c, !.left = s.left])
    BY <1>4, <1>6 DEF FixSave
  <2>3. \A n \in AllContexts, name \in Names : ~Doubled(Association(c, n), name)
    BY <1>1, FixDoes
  <2> HIDE DEF c
  <2>4. Achieved(St(c, s.left)) /\ Deleted(St(c, s.left))
    BY <1>3, <2>1, <2>3 DEF Achieved, Deleted
  <2>5. SessionsAgree' /\ proc'[p].pc = "write" /\ (s.fd # file => Visible' = Visible)
        /\ (s.fd = file => Visible' = c)
    BY <2>1, <2>2, <2>4, SaveShows
  <2>6. s.fd = file => Visible = s.cat
    BY <1>1, <2>1, ReadIsVisible
  <2> QED BY <1>1, <2>1, <2>5, <2>6 DEF Shows, Saves, c
<1>7. CASE UpsertSave(p)
  <2> DEFINE c == Upsert(s.cat, s.plugin)
  <2>1. s.sess \in {"upsert", "refresh"} /\ At(p, "edit") /\ s.plugin \in Plugins
    BY <1>1, <1>7 DEF UpsertSave, Coherent
  <2>2. Save(p, [s EXCEPT !.cat = c, !.left = s.left])
    BY <1>4, <1>7 DEF UpsertSave
  <2>3. /\ c.standAlone[KeyOf(s.plugin)] = s.plugin
        /\ \A k \in Superseded(s.plugin) : c.standAlone[k] = NoPlugin
    BY <1>1, <2>1, UpsertDoes
  <2> HIDE DEF c
  <2>4. Achieved(St(c, s.left)) /\ Deleted(St(c, s.left))
    BY <1>3, <2>1, <2>3 DEF Achieved, Deleted
  <2>5. SessionsAgree' /\ proc'[p].pc = "write" /\ (s.fd # file => Visible' = Visible)
        /\ (s.fd = file => Visible' = c)
    BY <2>1, <2>2, <2>4, SaveShows
  <2>6. s.fd = file => Visible = s.cat
    BY <1>1, <2>1, ReadIsVisible
  <2> QED BY <1>1, <2>1, <2>5, <2>6 DEF Shows, Saves, c
<1>8. CASE DeleteSave(p)
  <2>1. PICK pl \in s.left :
          Save(p, [s EXCEPT !.cat = Delete(s.cat, s.ctx, KeyOf(pl)), !.left = s.left \ {pl}])
    BY <1>8 DEF DeleteSave
  <2> DEFINE c == Delete(s.cat, s.ctx, KeyOf(pl))
             rest == s.left \ {pl}
  <2>2. /\ s.sess = "delete" /\ At(p, "edit") /\ s.ctx \in AllContexts
        /\ pl \in Plugins /\ KeyOf(pl) \in Keys /\ s.plugs \subseteq Plugins
        /\ \A q \in s.plugs : KeyOf(q) \in Keys
    BY <1>1, <1>8, KeysType DEF DeleteSave, ProcState
  <2>3. s.left \subseteq s.plugs
        /\ \A q \in s.plugs \ s.left : Association(s.cat, s.ctx)[KeyOf(q)] = NoPlugin
    BY <1>2, <2>2 DEF SessionOK, Deleted
  <2>4. \A q \in s.plugs \ rest : Association(c, s.ctx)[KeyOf(q)] = NoPlugin
    <3> SUFFICES ASSUME NEW q \in s.plugs \ rest
                 PROVE  Association(c, s.ctx)[KeyOf(q)] = NoPlugin
      OBVIOUS
    <3>0. /\ Association(c, s.ctx)[KeyOf(pl)] = NoPlugin
          /\ \A m \in AllContexts, k \in Keys : m # s.ctx \/ k # KeyOf(pl) =>
               Association(c, m)[k] = Association(s.cat, m)[k]
      BY <1>1, <2>2, DeleteDoes
    <3> HIDE DEF c
    <3>1. KeyOf(q) \in Keys /\ (q = pl \/ q \in s.plugs \ s.left)
      BY <2>2
    <3>2. CASE KeyOf(q) = KeyOf(pl)
      BY <3>0, <3>2
    <3>3. CASE KeyOf(q) # KeyOf(pl)
      <4>1. Association(c, s.ctx)[KeyOf(q)] = Association(s.cat, s.ctx)[KeyOf(q)]
        BY <2>2, <3>0, <3>1, <3>3
      <4> QED BY <2>3, <3>1, <3>3, <4>1
    <3> QED BY <3>2, <3>3
  <2>5. Save(p, [s EXCEPT !.cat = c, !.left = rest])
    BY <2>1
  <2> HIDE DEF c, rest
  <2>6. rest \subseteq s.plugs
    BY <2>3 DEF rest
  <2>7. Achieved(St(c, rest)) /\ Deleted(St(c, rest))
    BY <1>3, <2>2, <2>4, <2>6 DEF Achieved, Deleted
  <2>8. SessionsAgree' /\ proc'[p].pc = "write" /\ (s.fd # file => Visible' = Visible)
        /\ (s.fd = file => Visible' = c)
    BY <2>2, <2>5, <2>7, SaveShows
  <2>9. s.fd = file => Visible = s.cat
    BY <1>1, <2>2, ReadIsVisible
  <2> QED BY <1>1, <2>2, <2>3, <2>8, <2>9 DEF Shows, Saves, c
<1> QED BY <1>5, <1>6, <1>7, <1>8

\* The loop of the migration changes nothing but the catalog in memory.
LEMMA MigrateShows ==
  ASSUME IInv, IInv', SessionsAgree, NEW p \in Procs, MigrateOne(p)
  PROVE  SessionsAgree' /\ Shows
<1> DEFINE s == proc[p]
           x == content[proc[p].fd]
           t == proc'[p]
<1>1. /\ s \in ProcState /\ Coherent(s) /\ s.pc = "edit" /\ s.sess = "migrate" /\ s.fd \in Inodes
      /\ s.cat \in Catalog /\ s.ctxs \subseteq ActiveContexts /\ ActiveContexts \subseteq Servers
  BY ConstantsAssumption
     DEF IInv, TypeOK, ProcsCoherent, Coherent, ProcState, MigrateOne, At, SessionPCs
<1>2. PICK ac \in s.ctxs :
        Become(p, [s EXCEPT !.cat = MigrateContext(s.cat, ac), !.ctxs = s.ctxs \ {ac}])
  BY DEF MigrateOne
<1>3. /\ t = [s EXCEPT !.cat = MigrateContext(s.cat, ac), !.ctxs = s.ctxs \ {ac}]
      /\ \A q \in Procs \ {p} : proc'[q] = proc[q]
      /\ UNCHANGED <<file, content>>
  BY <1>2, Became DEF MigrateOne, IInv, disk
<1>4. /\ t.cat = MigrateContext(s.cat, ac) /\ t.ctxs = s.ctxs \ {ac} /\ t.pc = "edit"
      /\ t.sess = "migrate" /\ t.fd = s.fd
  BY <1>1, <1>3 DEF ProcState
<1>5. x # Torn /\ Migrated(Decode(x), s.cat, ActiveContexts \ s.ctxs)
  BY <1>1 DEF SessionsAgree, SessionOK, SessionPCs
<1>6. Decode(x) \in Catalog
  BY <1>1, <1>5, DecodeWellFormed DEF IInv
<1>7. Migrated(Decode(x), t.cat, ActiveContexts \ t.ctxs)
  <2>1. ActiveContexts \ t.ctxs = (ActiveContexts \ s.ctxs) \cup {ac}
    BY <1>1, <1>4
  <2>2. ac \in Servers \ (ActiveContexts \ s.ctxs) /\ ActiveContexts \ s.ctxs \in SUBSET Servers
    BY <1>1
  <2> QED BY <1>1, <1>4, <1>5, <1>6, <2>1, <2>2, MigrateDoes
<1>8. SessionOK(t, x) /\ Ready(t) /\ OnFile(t, file)
  BY <1>1, <1>4, <1>5, <1>7 DEF SessionOK, Ready, Deleted, OnFile, SessionsAgree, SessionPCs
<1>9. SessionsAgree'
  BY <1>3, <1>4, <1>8, OwnStep
<1>10. ~Deciders(s, file) /\ ~Deciders(t, file)
  BY <1>1, <1>4 DEF Deciders
<1> QED BY <1>3, <1>9, <1>10, SameView DEF Shows

\* The write after the truncation, whole or failed.
LEMMA WriteShows ==
  ASSUME IInv, IInv', SessionsAgree, NEW p \in Procs, Write(p) \/ WriteFail(p)
  PROVE  SessionsAgree' /\ Shows
<1> DEFINE s == proc[p]
           t == proc'[p]
<1>1. /\ s \in ProcState /\ Coherent(s) /\ s.pc = "write" /\ s.fd \in Inodes /\ lock[s.fd] = p
      /\ s.cat \in Catalog /\ AfterWrite(p)
      /\ UNCHANGED file
  BY DEF IInv, TypeOK, ProcsCoherent, Coherent, ProcState, Write, WriteFail, At, SessionPCs,
     SessionsLocked, InSession
<1>2. PICK x \in {s.cat, Blank, Torn} : /\ content' = [content EXCEPT ![s.fd] = x]
                                        /\ x # s.cat => "writefail" \in Faults
  BY DEF Write, WriteFail
<1>3. content'[s.fd] = x /\ \A i \in Inodes \ {s.fd} : content'[i] = content[i]
  BY <1>1, <1>2 DEF IInv, TypeOK
<1>4. PICK where \in {"edit", "unlock"} :
        /\ Become(p, [s EXCEPT !.pc = where])
        /\ where = "edit" <=> s.sess = "delete" /\ s.left # {}
  BY <1>1 DEF AfterWrite, GoTo
<1>5. t = [s EXCEPT !.pc = where] /\ \A q \in Procs \ {p} : proc'[q] = proc[q]
  BY <1>4, Became DEF IInv
<1>6. /\ t.pc = where /\ t.fd = s.fd /\ t.cat = s.cat /\ t.sess = s.sess /\ t.left = s.left
      /\ t.plugs = s.plugs /\ t.ctx = s.ctx /\ t.plugin = s.plugin
  BY <1>1, <1>5 DEF ProcState
<1>7. Achieved(s) /\ Deleted(s)
  BY <1>1 DEF SessionsAgree, SessionOK, SessionPCs
<1>8. Achieved(t) /\ Deleted(t)
  BY <1>6, <1>7 DEF Achieved, Deleted
<1>9. SessionOK(t, x) /\ Ready(t) /\ OnFile(t, file)
  BY <1>1, <1>2, <1>4, <1>6, <1>8 DEF SessionOK, Ready, OnFile, SessionsAgree, SessionPCs
<1>10. SessionsAgree'
  BY <1>1, <1>3, <1>5, <1>6, <1>9, OwnStep
<1>11. CASE s.fd # file
  <2>1. ~Deciders(s, file) /\ ~Deciders(t, file)
    BY <1>6, <1>11 DEF Deciders
  <2>2. file # NoInode => content'[file] = content[file]
    BY <1>3, <1>11 DEF IInv, TypeOK
  <2> QED BY <1>1, <1>5, <1>10, <2>1, <2>2, SameView DEF Shows
<1>12. CASE s.fd = file
  <2>1. file # NoInode /\ Visible = s.cat
    BY <1>1, <1>12, Before, ConstantsAssumption DEF Deciders
  <2>2. CASE where = "edit"
    <3>1. Deciders(t, file')
      BY <1>1, <1>4, <1>6, <1>12, <2>2 DEF Deciders
    <3> QED BY <1>1, <1>6, <1>10, <2>1, <3>1, After DEF Shows
  <2>3. CASE where = "unlock"
    <3>1. \A q \in Procs \ {p} : ~Deciders(proc[q], file)
      BY <1>1, <1>12, Alone DEF SessionPCs
    <3>2. \A q \in Procs : ~Deciders(proc'[q], file')
      <4>1. ~Deciders(t, file')
        BY <1>6, <2>3 DEF Deciders
      <4>2. file' = file /\ \A q \in Procs \ {p} : ~Deciders(proc'[q], file')
        BY <1>1, <1>5, <3>1
      <4> QED BY <4>1, <4>2
    <3>3. Visible' = Plain(x)
      BY <1>1, <1>3, <1>12, <2>1, <3>2, After
    <3>4. CASE x = s.cat
      <4>1. Plain(x) = s.cat
        BY <1>1, <3>4, ConstantsAssumption DEF Plain, Decode
      <4> QED BY <1>10, <2>1, <3>3, <4>1 DEF Shows
    <3>5. CASE x # s.cat
      <4>1. Plain(x) = newSharedCatalog /\ Faults # {}
        BY <1>2, <3>5, ConstantsAssumption DEF Plain, Decode
      <4> QED BY <1>10, <3>3, <4>1 DEF Shows, Loses
    <3> QED BY <3>4, <3>5
  <2> QED BY <2>2, <2>3
<1> QED BY <1>11, <1>12

-----------------------------------------------------------------------------
(* The other steps.                                                         *)

\* After a session no migration and no clean is under way.
LEMMA AfterSessionReady == ASSUME IInv, NEW p \in Procs 
  PROVE  Ready(AfterSession(p)) /\ AfterSession(p).pc # "wlock"
<1>1. proc[p] \in ProcState
  BY DEF IInv, TypeOK
<1>2. CASE proc[p].sess = "migrate"
  BY <1>1, <1>2 DEF AfterSession, ProcState, Ready
<1>3. CASE proc[p].sess = "refresh"
  BY <1>1, <1>3 DEF AfterSession, ProcState, Ready
<1>4. CASE proc[p].sess = "delete" /\ proc[p].ctxs # {}
  BY <1>1, <1>4 DEF AfterSession, ProcState, Ready
<1>5. CASE ~(\/ proc[p].sess \in {"migrate", "refresh"}
             \/ proc[p].sess = "delete" /\ proc[p].ctxs # {})
  BY <1>5 DEF AfterSession, Idle, Ready
<1> QED BY <1>2, <1>3, <1>4, <1>5

\* Nor after a list was read, unless one was before.
LEMMA AfterReadReady ==
  ASSUME IInv, NEW p \in Procs, NEW plugins, NEW n
  PROVE  Ready(AfterRead(p, plugins, n)) /\ AfterRead(p, plugins, n).pc # "wlock"
<1>1. proc[p] \in ProcState
  BY DEF IInv, TypeOK
<1>2. CASE proc[p].kind = "refresh" /\ plugins # {}
  BY <1>1, <1>2 DEF AfterRead, ProcState, Ready
<1>3. CASE proc[p].kind = "install"
  BY <1>1, <1>3 DEF AfterRead, ProcState, Ready
<1>4. CASE proc[p].kind = "delete"
  <2> DEFINE where == IF proc[p].ctxs \subseteq {n} THEN "confirm" ELSE "ropen"
  <2>1. where \in {"confirm", "ropen"}
    OBVIOUS
  <2>2. AfterRead(p, plugins, n).pc = where
    BY <1>1, <1>4 DEF AfterRead, ProcState
  <2> HIDE DEF where
  <2> QED BY <2>1, <2>2 DEF Ready
<1>5. CASE ~(\/ proc[p].kind \in {"install", "delete"}
             \/ proc[p].kind = "refresh" /\ plugins # {})
  BY <1>5 DEF AfterRead, Idle, Ready
<1> QED BY <1>2, <1>3, <1>4, <1>5

LEMMA UnlockShows ==
  ASSUME IInv, IInv', SessionsAgree, NEW p \in Procs, Unlock(p)
  PROVE  SessionsAgree' /\ Shows
<1>1. /\ proc'[p] = AfterSession(p)
      /\ \A q \in Procs \ {p} : proc'[q] = proc[q]
      /\ UNCHANGED <<file, content>>
  BY Became DEF Unlock, IInv
<1>2. proc[p].pc = "unlock" /\ AfterSession(p).pc \notin SessionPCs
  BY AfterSessionState DEF Unlock, At
<1>3. Ready(AfterSession(p)) /\ OnFile(AfterSession(p), file)
  BY <1>2, AfterSessionReady DEF OnFile
<1>4. SessionsAgree'
  BY <1>1, <1>2, <1>3, OwnStep
<1>5. ~Deciders(proc[p], file) /\ ~Deciders(proc'[p], file)
  BY <1>1, <1>2 DEF Deciders, SessionPCs
<1> QED BY <1>1, <1>4, <1>5, SameView DEF Shows

\* The end of a process in the middle of a session: what it had decided on is
\* there as a whole, or nothing is.
LEMMA CrashShows ==
  ASSUME IInv, IInv', SessionsAgree, NEW p \in Procs, Crash(p)
  PROVE  SessionsAgree' /\ Shows
<1> DEFINE s == proc[p]
<1>1. /\ proc'[p] = Idle
      /\ \A q \in Procs \ {p} : proc'[q] = proc[q]
      /\ UNCHANGED <<file, content>>
      /\ Faults # {}
  BY Became DEF Crash, Finish, IInv
<1>2. Idle.pc = "idle" /\ Idle.sess = "none"
  BY DEF Idle
<1>3. SessionsAgree'
  BY <1>1, <1>2, OwnStep DEF Ready, SessionPCs, OnFile
<1>4. ~Deciders(proc'[p], file)
  BY <1>1, <1>2 DEF Deciders
<1>5. CASE ~Deciders(s, file)
  BY <1>1, <1>3, <1>4, <1>5, SameView DEF Shows
<1>6. CASE Deciders(s, file)
  <2>1. s.pc \in SessionPCs /\ s.fd = file /\ (s.pc = "write" \/ s.sess = "delete")
    BY <1>6 DEF Deciders, SessionPCs
  <2>2. file # NoInode /\ \A q \in Procs \ {p} : ~Deciders(proc[q], file)
    BY <2>1, Alone
  <2>3. \A q \in Procs : ~Deciders(proc'[q], file')
    BY <1>1, <1>4, <2>2
  <2>4. Visible = s.cat /\ Visible' = Plain(content[file])
    BY <1>1, <1>6, <2>2, <2>3, Before, After
  <2>5. content[file] \in {Blank, Torn, s.cat}
    BY <1>6, <2>1 DEF SessionsAgree, SessionOK, Deciders
  <2>6. s.cat \in Catalog
    BY DEF IInv, TypeOK, ProcState
  <2>7. Plain(content[file]) \in {newSharedCatalog, s.cat}
    BY <2>5, <2>6, ConstantsAssumption DEF Plain, Decode
  <2> QED BY <1>1, <1>3, <2>4, <2>7 DEF Shows, Loses
<1> QED BY <1>5, <1>6

\* lockedfile.Edit may create the file, which readers do not notice.
LEMMA OpenShows ==
  ASSUME IInv, IInv', SessionsAgree, NEW p \in Procs, OpenForUpdate(p)
  PROVE  SessionsAgree' /\ Shows
<1> DEFINE s == proc[p]
           t == proc'[p]
<1>1. s \in ProcState /\ s.pc = "wopen"
  BY DEF IInv, TypeOK, OpenForUpdate, At
<1>2. PICK i \in Inodes : \E n \in IF s.sess = "delete" THEN NextContexts(p) ELSE {StandAlone} :
        /\ IF file = NoInode
           THEN FreeInode(i) /\ file' = i /\ content' = [content EXCEPT ![i] = Blank]
           ELSE i = file /\ UNCHANGED <<file, content>>
        /\ Become(p, [s EXCEPT !.pc = "wlock", !.fd = i, !.ctx = n,
                               !.ctxs = IF s.sess = "delete" THEN s.ctxs \ {n} ELSE s.ctxs])
  BY DEF OpenForUpdate
<1>3. PICK n : Become(p, [s EXCEPT !.pc = "wlock", !.fd = i, !.ctx = n,
                            !.ctxs = IF s.sess = "delete" THEN s.ctxs \ {n} ELSE s.ctxs])
  BY <1>2
<1> DEFINE cs == IF s.sess = "delete" THEN s.ctxs \ {n} ELSE s.ctxs
<1>4. /\ t = [s EXCEPT !.pc = "wlock", !.fd = i, !.ctx = n, !.ctxs = cs]
      /\ \A q \in Procs \ {p} : proc'[q] = proc[q]
  BY <1>3, Became DEF IInv
<1>5. s.sess = "migrate" => cs = s.ctxs
  OBVIOUS
<1> HIDE DEF cs
<1>6. t.pc = "wlock" /\ t.sess = s.sess /\ t.ctxs = cs /\ t.fd = i
  BY <1>1, <1>4 DEF ProcState
<1>7. Ready(t) /\ OnFile(t, i) /\ file' = i
  BY <1>1, <1>2, <1>5, <1>6 DEF Ready, SessionsAgree, OnFile
<1>8. CASE file # NoInode
  BY <1>1, <1>2, <1>4, <1>6, <1>7, <1>8, OutsideStep DEF SessionPCs
<1>9. CASE file = NoInode
  <2>1. FreeInode(i) /\ file' = i /\ content' = [content EXCEPT ![i] = Blank]
    BY <1>2, <1>9
  <2>2. content'[i] = Blank /\ \A j \in Inodes : content'[j] = content[j] \/ FreeInode(j)
    BY <2>1 DEF IInv, TypeOK
  <2>3. SessionsAgree'
    BY <1>4, <1>6, <1>7, <1>9, <2>2, OwnStep DEF SessionPCs
  <2>4. \A q \in Procs : ~Deciders(proc'[q], file')
    <3>1. ~Deciders(t, file')
      BY <1>6 DEF Deciders
    <3>2. \A q \in Procs \ {p} : ~Deciders(proc'[q], file')
      BY <1>4, <2>1 DEF Deciders, FreeInode
    <3> QED BY <3>1, <3>2
  <2>5. file' # NoInode
    BY <2>1, ConstantsAssumption
  <2>6. Visible = newSharedCatalog /\ Visible' = Plain(Blank)
    BY <1>9, <2>1, <2>2, <2>4, <2>5, Before, After
  <2> QED BY <2>3, <2>6, ConstantsAssumption DEF Shows, Plain, Decode
<1> QED BY <1>8, <1>9

\* `plugin clean` removes the name, whoever has the file open.
LEMMA CleanShows ==
  ASSUME IInv, IInv', SessionsAgree, NEW p \in Procs, CleanCatalogCache(p) \/ CleanBinaries(p)
  PROVE  SessionsAgree' /\ Shows
<1>1. CASE CleanCatalogCache(p)
  <2>1. proc[p].pc = "cleancat" /\ proc[p] \in ProcState
    BY <1>1 DEF CleanCatalogCache, At, IInv, TypeOK
  <2>2. /\ proc'[p] = [proc[p] EXCEPT !.pc = "cleanbins"]
        /\ \A q \in Procs \ {p} : proc'[q] = proc[q]
        /\ UNCHANGED content /\ file' = NoInode
    BY <1>1, Became DEF CleanCatalogCache, GoTo, IInv
  <2>3. proc'[p].pc = "cleanbins" /\ proc'[p].kind = proc[p].kind
    BY <2>1, <2>2 DEF ProcState
  <2>4. proc[p].kind = "clean" /\ Ready(proc'[p])
    BY <2>1, <2>3 DEF SessionsAgree, Ready
  <2>5. "clean" \in Kinds
    BY <2>1, <2>4 DEF ProcState
  <2>6. SessionsAgree'
    BY <2>2, <2>3, <2>4, <2>5, OwnStep DEF SessionPCs, OnFile
  <2> QED BY <2>2, <2>6, <2>5, After DEF Shows, Loses
<1>2. CASE CleanBinaries(p)
  <2>1. /\ proc'[p] = Idle
        /\ \A q \in Procs \ {p} : proc'[q] = [proc[q] EXCEPT !.linked = FALSE]
        /\ UNCHANGED <<file, content>>
        /\ proc[p].pc = "cleanbins"
    BY <1>2 DEF CleanBinaries, At, disk
  <2>2. Idle.pc = "idle" /\ Idle.sess = "none"
    BY DEF Idle
  <2>3. ASSUME NEW q \in Procs \ {p}
        PROVE  /\ proc'[q].pc = proc[q].pc /\ proc'[q].sess = proc[q].sess
               /\ proc'[q].fd = proc[q].fd /\ proc'[q].cat = proc[q].cat
               /\ proc'[q].left = proc[q].left /\ proc'[q].plugs = proc[q].plugs
               /\ proc'[q].ctx = proc[q].ctx /\ proc'[q].ctxs = proc[q].ctxs
               /\ proc'[q].plugin = proc[q].plugin /\ proc'[q].kind = proc[q].kind
    BY <2>1 DEF IInv, TypeOK, ProcState
  <2>4. SessionsAgree'
    <3> SUFFICES ASSUME NEW q \in Procs
                 PROVE  /\ Ready(proc'[q]) /\ OnFile(proc'[q], file')
                        /\ proc'[q].pc \in SessionPCs =>
                             SessionOK(proc'[q], content'[proc'[q].fd])
      BY DEF SessionsAgree
    <3>1. CASE q = p
      BY <2>1, <2>2, <3>1 DEF Ready, SessionPCs, OnFile
    <3>2. CASE q # p
      <4>1. Ready(proc[q]) /\ (proc[q].pc \in SessionPCs => SessionOK(proc[q], content[proc[q].fd]))
        BY DEF SessionsAgree
      <4>2. Ready(proc'[q]) /\ OnFile(proc'[q], file')
        BY <2>1, <2>3, <3>2, <4>1 DEF Ready, OnFile, SessionsAgree
      <4>3. ASSUME proc[q].pc \in SessionPCs PROVE SessionOK(proc'[q], content'[proc'[q].fd])
        <5>1. Achieved(proc[q]) => Achieved(proc'[q])
          BY <2>3, <3>2 DEF Achieved
        <5>2. Deleted(proc[q]) => Deleted(proc'[q])
          BY <2>3, <3>2 DEF Deleted
        <5> QED BY <2>1, <2>3, <3>2, <4>1, <4>3, <5>1, <5>2 DEF SessionOK
      <4> QED BY <2>3, <3>2, <4>2, <4>3
    <3> QED BY <3>1, <3>2
  <2>5. \A q \in Procs : Deciders(proc'[q], file) <=> Deciders(proc[q], file)
    BY <2>1, <2>2, <2>3 DEF Deciders
  <2>6. CASE file = NoInode
    BY <2>1, <2>4, <2>6, Before, After DEF Shows
  <2>7. CASE file # NoInode /\ \E q \in Procs : Deciders(proc[q], file)
    <3>1. PICK q \in Procs : Deciders(proc[q], file)
      BY <2>7
    <3>2. q # p
      BY <2>1, <3>1 DEF Deciders
    <3>3. Visible = proc[q].cat /\ Visible' = proc'[q].cat
      BY <2>1, <2>5, <2>7, <3>1, Before, After
    <3> QED BY <2>3, <2>4, <3>2, <3>3 DEF Shows
  <2>8. CASE file # NoInode /\ \A q \in Procs : ~Deciders(proc[q], file)
    BY <2>1, <2>4, <2>5, <2>8, Before, After DEF Shows
  <2> QED BY <2>6, <2>7, <2>8
<1> QED BY <1>1, <1>2

\* Steps that neither open, lock nor write an update session.
LEMMA QuietShows ==
  ASSUME IInv, IInv', SessionsAgree, NEW p \in Procs,
         \/ Begin(p) \/ Exit(p) \/ LockDecodeError(p) \/ RefreshDecodeError(p)
         \/ MigrateIfNeeded(p) \/ OpenForRead(p) \/ Read(p)
         \/ Lookup(p) \/ Fetch(p) \/ BinOpen(p) \/ BinWrite(p) \/ Describe(p)
         \/ Confirm(p) \/ RefreshNext(p)
  PROVE  SessionsAgree' /\ Shows
<1>0. UNCHANGED <<file, content>> /\ TypeOK /\ proc[p] \in ProcState
  BY DEF Begin, Exit, LockDecodeError, RefreshDecodeError, MigrateIfNeeded, OpenForRead, Read,
     Lookup, Fetch, BinOpen, BinWrite, Describe, Confirm, RefreshNext, disk, IInv, TypeOK
<1>1. proc[p].pc \notin SessionPCs
  BY DEF Begin, Exit, LockDecodeError, RefreshDecodeError, MigrateIfNeeded, OpenForRead, Read,
     Lookup, Fetch, BinOpen, BinWrite, Describe, Confirm, RefreshNext, At, SessionPCs
<1>2. ASSUME NEW state, Become(p, state), state.pc \notin SessionPCs, state.pc # "wlock",
             Ready(state)
      PROVE  SessionsAgree' /\ Shows
  <2>1. proc'[p] = state /\ \A q \in Procs \ {p} : proc'[q] = proc[q]
    BY <1>0, <1>2, Became
  <2> QED BY <1>0, <1>1, <1>2, <2>1, OutsideStep DEF OnFile
<1>3. Idle.pc \notin SessionPCs /\ Idle.pc # "wlock" /\ Ready(Idle)
  BY DEF Idle, Ready, SessionPCs
<1>4. CASE Finish(p)
  BY <1>2, <1>3, <1>4 DEF Finish
<1>5. ASSUME NEW where \in {"binopen", "describe"}, GoTo(p, where)
      PROVE  SessionsAgree' /\ Shows
  <2>1. [proc[p] EXCEPT !.pc = where].pc = where
    BY <1>0 DEF ProcState
  <2> QED BY <1>2, <1>5, <2>1 DEF GoTo, Ready, SessionPCs
<1>6. CASE Begin(p)
  <2>1. PICK kind \in Kinds, pl \in Plugins \cup {NoPlugin} :
          Become(p, [Idle EXCEPT !.pc = Entry[kind], !.kind = kind, !.plugin = pl,
                          !.sess = IF kind = "fix" THEN "fix" ELSE "none",
                          !.ctxs = IF kind = "delete" THEN ActiveContexts \cup {StandAlone}
                                   ELSE {}])
    BY <1>6 DEF Begin
  <2> DEFINE cs == IF kind = "delete" THEN ActiveContexts \cup {StandAlone} ELSE {}
             ss == IF kind = "fix" THEN "fix" ELSE "none"
             where == Entry[kind]
             state == [Idle EXCEPT !.pc = where, !.kind = kind, !.plugin = pl,
                                   !.sess = ss, !.ctxs = cs]
  <2>2. ss \in {"fix", "none"}
    OBVIOUS
  <2>3. /\ where \in {"listing", "wopen", "cleancat", "lookup", "fetch", "ropen"}
        /\ where = "cleancat" => kind = "clean"
    BY ConstantsAssumption DEF Operations, Entry
  <2>4. Become(p, state)
    BY <2>1
  <2> HIDE DEF cs, ss, where
  <2>5. state.pc = where /\ state.kind = kind /\ state.sess = ss
    BY IdleState DEF ProcState
  <2> HIDE DEF state
  <2> QED BY <1>2, <2>2, <2>3, <2>4, <2>5 DEF Ready, SessionPCs
<1>7. CASE Exit(p)
  <2>1. Ready(proc[p]) /\ OnFile(proc[p], file) /\ proc' = proc
    BY <1>7 DEF Exit, SessionsAgree
  <2> QED BY <1>0, <1>1, <2>1, OutsideStep
<1>8. CASE LockDecodeError(p)
  BY <1>2, <1>8, AfterSessionReady, AfterSessionState DEF LockDecodeError
<1>9. CASE RefreshDecodeError(p)
  BY <1>4, <1>9 DEF RefreshDecodeError
<1>10. CASE MigrateIfNeeded(p)
  <2>1. CASE ActiveContexts = {}
    <3>1. [proc[p] EXCEPT !.pc = "ropen"].pc = "ropen"
      BY <1>0 DEF ProcState
    <3> QED BY <1>2, <1>10, <2>1, <3>1 DEF MigrateIfNeeded, Ready, SessionPCs
  <2>2. CASE ActiveContexts # {}
    <3> DEFINE state == [proc[p] EXCEPT !.pc = "wopen", !.sess = "migrate", !.ctxs = ActiveContexts]
    <3>1. state.pc = "wopen" /\ state.ctxs = ActiveContexts
      BY <1>0 DEF ProcState
    <3>2. Become(p, state)
      BY <1>10, <2>2 DEF MigrateIfNeeded
    <3> HIDE DEF state
    <3> QED BY <1>2, <3>1, <3>2 DEF Ready, SessionPCs
  <2> QED BY <2>1, <2>2
<1>11. CASE OpenForRead(p) \/ Read(p)
  <2>1. ReadContexts(p) \subseteq AllContexts
    BY <1>0 DEF ReadContexts, NextContexts, ProcState, AllContexts
  <2>2. CASE Become(p, [proc[p] EXCEPT !.pc = "rlock", !.fd = file])
    <3>1. [proc[p] EXCEPT !.pc = "rlock", !.fd = file].pc = "rlock"
          /\ [proc[p] EXCEPT !.pc = "rlock", !.fd = file].sess = proc[p].sess
      BY <1>0 DEF ProcState
    <3>2. proc[p].sess # "migrate" \/ "rlock" \notin {"wopen", "wlock"}
      OBVIOUS
    <3> QED BY <1>2, <2>2, <3>1 DEF Ready, SessionPCs
  <2>3. ASSUME NEW plugins \in SUBSET Plugins, NEW n \in AllContexts,
               Become(p, AfterRead(p, plugins, n))
        PROVE  SessionsAgree' /\ Shows
    BY <1>2, <2>3, AfterReadReady, AfterReadState
  <2>4. CASE OpenForRead(p)
    BY <2>1, <2>2, <2>3, <2>4 DEF OpenForRead
  <2>5. CASE Read(p)
    <3>1. PICK n \in ReadContexts(p) :
            Become(p, AfterRead(p, IF content[proc[p].fd] = Torn THEN {}
                                   ELSE List(Decode(content[proc[p].fd]), n), n))
      BY <2>5 DEF Read
    <3> DEFINE found == IF content[proc[p].fd] = Torn THEN {}
                        ELSE List(Decode(content[proc[p].fd]), n)
    <3>2. found \in SUBSET Plugins
      <4>1. proc[p].fd \in Inodes
        BY <2>5 DEF Read, At, Coherent, IInv, ProcsCoherent
      <4>2. CASE content[proc[p].fd] # Torn
        <5>1. Decode(content[proc[p].fd]) \in Catalog
          BY <4>1, <4>2, DecodeWellFormed DEF IInv
        <5>2. Association(Decode(content[proc[p].fd]), n) \in PluginAssociation
          BY <5>1, <2>1, AssociationType
        <5> QED BY <5>2 DEF List, Paths, PluginAssociation
      <4> QED BY <4>2
    <3> HIDE DEF found
    <3>3. Become(p, AfterRead(p, found, n))
      BY <3>1 DEF found
    <3> QED BY <2>1, <2>3, <3>2, <3>3
  <2> QED BY <1>11, <2>4, <2>5
<1>12. CASE Lookup(p)
  <2> DEFINE b == bins[proc[p].plugin] = "ok"
             state == [proc[p] EXCEPT !.pc = "listing", !.found = b]
  <2>1. Become(p, state)
    BY <1>12 DEF Lookup
  <2> HIDE DEF b
  <2>2. state.pc = "listing"
    BY <1>0 DEF ProcState
  <2> HIDE DEF state
  <2> QED BY <1>2, <2>1, <2>2 DEF Ready, SessionPCs
<1>13. CASE Fetch(p) \/ BinWrite(p)
  BY <1>4, <1>5, <1>13 DEF Fetch, BinWrite
<1>14. CASE BinOpen(p)
  <2>1. [proc[p] EXCEPT !.pc = "binwrite", !.linked = TRUE].pc = "binwrite"
    BY <1>0 DEF ProcState
  <2> QED BY <1>2, <1>14, <2>1 DEF BinOpen, Ready, SessionPCs
<1>15. CASE Describe(p)
  <2> DEFINE state == [proc[p] EXCEPT !.pc = "wopen", !.sess = "upsert"]
  <2>1. state.pc = "wopen" /\ state.sess = "upsert"
    BY <1>0 DEF ProcState
  <2>2. Finish(p) \/ Become(p, state)
    BY <1>15 DEF Describe
  <2> HIDE DEF state
  <2> QED BY <1>2, <1>4, <2>1, <2>2 DEF Ready, SessionPCs
<1>16. CASE Confirm(p)
  <2> DEFINE cs == ActiveContexts \cup {StandAlone}
             state == [proc[p] EXCEPT !.pc = "wopen", !.sess = "delete", !.ctxs = cs]
  <2>1. Finish(p) \/ Become(p, state)
    BY <1>16 DEF Confirm
  <2> HIDE DEF cs
  <2>2. state.pc = "wopen" /\ state.sess = "delete"
    BY <1>0 DEF ProcState
  <2> HIDE DEF state
  <2> QED BY <1>2, <1>4, <2>1, <2>2 DEF Ready, SessionPCs
<1>17. CASE RefreshNext(p)
  <2>1. PICK pl : \/ Finish(p)
                  \/ Become(p, [proc[p] EXCEPT !.pc = "wopen", !.sess = "refresh", !.plugin = pl,
                                               !.left = proc[p].left \ {pl}])
                  \/ Become(p, [proc[p] EXCEPT !.left = proc[p].left \ {pl},
                                               !.plugs = proc[p].plugs \ {pl}])
    BY <1>17 DEF RefreshNext
  <2> DEFINE a == [proc[p] EXCEPT !.pc = "wopen", !.sess = "refresh", !.plugin = pl,
                                  !.left = proc[p].left \ {pl}]
             b == [proc[p] EXCEPT !.left = proc[p].left \ {pl}, !.plugs = proc[p].plugs \ {pl}]
  <2>2. proc[p].pc = "next"
    BY <1>17 DEF RefreshNext, At
  <2>3. a.pc = "wopen" /\ a.sess = "refresh" /\ b.pc = "next"
    BY <1>0, <2>2 DEF ProcState
  <2> HIDE DEF a, b
  <2>4. Finish(p) \/ Become(p, a) \/ Become(p, b)
    BY <2>1 DEF a, b
  <2> QED BY <1>2, <1>4, <2>3, <2>4 DEF Ready, SessionPCs
<1> QED BY <1>6, <1>7, <1>8, <1>9, <1>10, <1>11, <1>12, <1>13, <1>14, <1>15, <1>16, <1>17

-----------------------------------------------------------------------------
\* Every step keeps the sessions in agreement with their files and shows
\* readers a whole operation or nothing.
LEMMA EveryStep ==
  ASSUME IInv, SessionsAgree, [Next]_vars
  PROVE  IInv' /\ SessionsAgree' /\ Shows
<1>1. IInv'
  BY StepKeeps
<1>2. CASE UNCHANGED vars
  <2>1. UNCHANGED <<file, content, proc>>
    BY <1>2 DEF vars, disk
  <2>2. SessionsAgree'
    BY <2>1 DEF SessionsAgree
  <2>3. Visible' = Visible
    BY <2>1, VisibleIsView
  <2> QED BY <1>1, <2>2, <2>3 DEF Shows
<1>3. ASSUME NEW p \in Procs, Step(p) PROVE SessionsAgree' /\ Shows
  BY <1>1, <1>3, LockShows, SavesShow, MigrateShows, WriteShows, UnlockShows, CrashShows,
     OpenShows, CleanShows, QuietShows DEF Step, Progress
<1> QED BY <1>1, <1>2, <1>3 DEF Next, Terminated

LEMMA InitAgrees == Init => SessionsAgree
<1>1. Idle.pc = "idle" /\ Idle.sess = "none"
  BY DEF Idle
<1> QED BY <1>1 DEF Init, SessionsAgree, Ready, SessionPCs, OnFile

\* The sessions agree with their files in every reachable state.
LEMMA Agreement == Spec => [](IInv /\ SessionsAgree)
<1>1. IInv /\ SessionsAgree /\ [Next]_vars => (IInv /\ SessionsAgree)'
  BY EveryStep
<1> QED BY <1>1, InitIInv, InitAgrees, PTL DEF Spec

-----------------------------------------------------------------------------
(* The refinement.                                                          *)

\* The data of the store is that of the catalog.
LEMMA StoreData ==
  /\ Store!Keys = Keys /\ Store!AllContexts = AllContexts
  /\ Store!PluginAssociation = PluginAssociation /\ Store!NoAssociation = NoAssociation
  /\ \A pl : Store!KeyOf(pl) = KeyOf(pl) /\ Store!Superseded(pl) = Superseded(pl)
  /\ \A a : Store!Unambiguous(a) = Unmixed(a)
<1>1. /\ Store!Names = Names /\ Store!Targets = Targets
      /\ Store!TargetUnknown = TargetUnknown /\ Store!TargetGlobal = TargetGlobal
      /\ Store!TargetK8s = TargetK8s
  BY DEF Store!Names, Names, Store!Targets, Targets, Store!TargetUnknown, TargetUnknown,
     Store!TargetGlobal, TargetGlobal, Store!TargetK8s, TargetK8s
<1>2. Store!Keys = Keys /\ Store!AllContexts = AllContexts
  BY <1>1 DEF Store!Keys, Keys, Store!AllContexts, AllContexts
<1>3. /\ Store!PluginAssociation = PluginAssociation
      /\ Store!NoAssociation = NoAssociation
  BY <1>2 DEF Store!PluginAssociation, PluginAssociation, Store!NoAssociation, NoAssociation
<1>4. \A n, t : Store!PluginNameTarget(n, t) = PluginNameTarget(n, t)
  BY DEF Store!PluginNameTarget, PluginNameTarget
<1>5. \A pl : Store!KeyOf(pl) = KeyOf(pl)
  BY <1>4 DEF Store!KeyOf, KeyOf
<1>6. \A pl : Store!Superseded(pl) = Superseded(pl)
  BY <1>1, <1>4 DEF Store!Superseded, Superseded
<1>7. \A a, name : Store!Doubled(a, name) <=> Doubled(a, name)
  BY <1>1, <1>4 DEF Store!Doubled, Doubled
<1>8. \A a : Store!Unambiguous(a) = Unmixed(a)
  BY <1>1, <1>2, <1>7 DEF Store!Unambiguous, Unmixed
<1> QED BY <1>2, <1>3, <1>5, <1>6, <1>8

\* The save of a session is one operation of the store.
LEMMA SaveIsOperation ==
  ASSUME IInv, IInv', NEW p \in Procs, Saves(p)
  PROVE  Store!Next
<1> DEFINE v == Visible
           w == Visible'
<1>0. v \in Catalog /\ WellFormed(v)
  BY VisibleType
<1> HIDE DEF v, w
<1>1. CASE proc[p].sess \in {"upsert", "refresh"}
  <2>1. proc[p].plugin \in Plugins /\ w = Upsert(v, proc[p].plugin)
    BY <1>1 DEF Saves, v, w
  <2>2. /\ w.server = v.server
        /\ w.standAlone = [k \in Keys |-> IF k = KeyOf(proc[p].plugin) THEN proc[p].plugin
                                          ELSE IF k \in Superseded(proc[p].plugin) THEN NoPlugin
                                          ELSE v.standAlone[k]]
    BY <1>0, <2>1, UpsertDoes
  <2>3. Store!Install(proc[p].plugin)
    BY <2>2, StoreData DEF Store!Install, v, w
  <2> QED BY <2>1, <2>3 DEF Store!Next
<1>2. CASE proc[p].sess = "delete"
  <2>1. PICK pl \in Plugins : w = Delete(v, proc[p].ctx, KeyOf(pl))
    BY <1>2 DEF Saves, v, w
  <2> DEFINE n == proc[p].ctx
             key == KeyOf(pl)
  <2>2. n \in AllContexts /\ key \in Keys /\ w = Delete(v, n, key)
    BY <1>2, <2>1, KeysType DEF Saves
  <2> HIDE DEF n, key
  <2>3. /\ n = StandAlone => /\ w.standAlone = [v.standAlone EXCEPT ![key] = NoPlugin]
                             /\ w.server = v.server
        /\ n # StandAlone => /\ w.standAlone = v.standAlone
                             /\ w.server = [v.server EXCEPT ![n] = [v.server[n] EXCEPT ![key] = NoPlugin]]
    BY <1>0, <2>2, DeleteFields
  <2>4. Store!Uninstall(n, key)
    BY <2>3, StoreData DEF Store!Uninstall, v, w
  <2> QED BY <2>2, <2>4, StoreData DEF Store!Next
<1>3. CASE proc[p].sess = "fix"
  <2>1. w = DeleteIncorrectPluginEntries(v)
    BY <1>3 DEF Saves, v, w
  <2>2. /\ w.standAlone = Unmixed(v.standAlone)
        /\ w.server = [s \in Servers |-> Unmixed(v.server[s])]
    BY <1>0, <2>1, FixDoes
  <2>3. Store!Disambiguate
    BY <2>2, StoreData DEF Store!Disambiguate, v, w
  <2> QED BY <2>3 DEF Store!Next
<1>4. CASE proc[p].sess = "migrate"
  <2>1. Migrated(v, w, ActiveContexts)
    BY <1>4 DEF Saves, v, w
  <2>2. w.standAlone \in PluginAssociation
    BY VisibleTypeNext DEF w, Catalog
  <2>3. w.server = [s \in Servers |-> IF s \in ActiveContexts THEN NoAssociation ELSE v.server[s]]
    BY <2>1 DEF Migrated
  <2>4. ASSUME NEW k \in Keys
        PROVE  LET offers == {v.server[s][k] : s \in ActiveContexts} \ {NoPlugin}
               IN  IF offers = {} THEN w.standAlone[k] = v.standAlone[k]
                   ELSE w.standAlone[k] \in offers
    BY <2>1 DEF Migrated
  <2>5. DOMAIN w.standAlone = Keys
    BY <2>2 DEF PluginAssociation
  <2>6. Store!Adopt
    BY <2>3, <2>4, <2>5, StoreData DEF Store!Adopt, v, w
  <2> QED BY <2>6 DEF Store!Next
<1> QED BY <1>1, <1>2, <1>3, <1>4 DEF Saves

\* The catalog implements the store: whatever the processes do, in whatever
\* order, with crashes, failed writes and `plugin clean`, readers see a value
\* that changes by whole installs, uninstalls, migrations and clean-ups, or that
\* is emptied at once.
THEOREM StoreIsImplemented == Spec => RefinesStore
<1>1. Init => Store!Init
  <2> SUFFICES ASSUME Init PROVE Store!Init
    OBVIOUS
  <2>1. Visible \in Catalog
    BY InitIInv, VisibleType
  <2> QED BY <2>1, StoreData DEF Catalog, Store!Init
<1>2. IInv /\ SessionsAgree /\ [Next]_vars => [Store!Next]_(Store!svars)
  <2> SUFFICES ASSUME IInv, SessionsAgree, [Next]_vars
               PROVE  [Store!Next]_(Store!svars)
    OBVIOUS
  <2>1. IInv' /\ Shows
    BY EveryStep
  <2>2. CASE Visible' = Visible
    BY <2>2 DEF Store!svars
  <2>3. CASE Loses
    <3>1. Visible'.standAlone = NoAssociation /\ Visible'.server = [s \in Servers |-> NoAssociation]
      BY <2>3 DEF Loses, newSharedCatalog
    <3>2. Store!Forget
      BY <3>1, StoreData DEF Store!Forget
    <3> QED BY <3>2 DEF Store!Next
  <2>4. ASSUME NEW p \in Procs, Saves(p) PROVE Store!Next
    BY <2>1, <2>4, SaveIsOperation
  <2> QED BY <2>1, <2>2, <2>3, <2>4 DEF Shows
<1> QED BY <1>1, <1>2, Agreement, PTL DEF Spec, RefinesStore, Store!Spec

-----------------------------------------------------------------------------
(* No lost updates.                                                         *)

\* A save changes the keys that the session is about.
LEMMA SaveInScope ==
  ASSUME IInv, NEW p \in Procs, Saves(p), NEW n \in AllContexts, NEW k \in Keys,
         Association(Visible', n)[k] # Association(Visible, n)[k]
  PROVE  k \in Scope(p)
<1> DEFINE v == Visible
           w == Visible'
<1>0. v \in Catalog /\ WellFormed(v) /\ Association(w, n)[k] # Association(v, n)[k]
  BY VisibleType
<1>1. CASE proc[p].sess \in {"upsert", "refresh"}
  <2>1. proc[p].plugin \in Plugins /\ w = Upsert(v, proc[p].plugin)
    BY <1>1 DEF Saves
  <2> HIDE DEF v, w
  <2>2. /\ w.server = v.server
        /\ w.standAlone = [j \in Keys |-> IF j = KeyOf(proc[p].plugin) THEN proc[p].plugin
                                          ELSE IF j \in Superseded(proc[p].plugin) THEN NoPlugin
                                          ELSE v.standAlone[j]]
    BY <1>0, <2>1, UpsertDoes
  <2>3. k \in {KeyOf(proc[p].plugin)} \cup Superseded(proc[p].plugin)
    BY <1>0, <2>2 DEF Association
  <2> QED BY <1>1, <2>3 DEF Scope
<1>2. CASE proc[p].sess = "delete"
  <2>1. PICK pl \in proc[p].plugs : pl \in Plugins /\ w = Delete(v, proc[p].ctx, KeyOf(pl))
    BY <1>2 DEF Saves
  <2>2. proc[p].ctx \in AllContexts /\ KeyOf(pl) \in Keys
    BY <1>2, <2>1, KeysType DEF Saves
  <2> HIDE DEF v, w
  <2>3. k = KeyOf(pl)
    BY <1>0, <2>1, <2>2, DeleteDoes
  <2> QED BY <1>2, <2>1, <2>3 DEF Scope
<1>3. CASE proc[p].sess = "fix"
  <2>1. w = DeleteIncorrectPluginEntries(v)
    BY <1>3 DEF Saves
  <2> HIDE DEF v, w
  <2>2. Association(w, n) = Unmixed(Association(v, n))
    BY <1>0, <2>1, FixDoes
  <2>3. k[2] = TargetUnknown
    BY <1>0, <2>2 DEF Unmixed
  <2> QED BY <1>3, <2>3 DEF Scope
<1>4. CASE proc[p].sess = "migrate"
  <2>1. Migrated(v, w, ActiveContexts)
    BY <1>4 DEF Saves
  <2> HIDE DEF v, w
  <2>2. \E ac \in ActiveContexts : v.server[ac][k] # NoPlugin
    <3>1. CASE n = StandAlone
      BY <1>0, <2>1, <3>1 DEF Migrated, Association
    <3>2. CASE n # StandAlone
      <4>1. n \in Servers /\ w.server[n][k] # v.server[n][k]
        BY <1>0, <3>2 DEF Association, AllContexts
      <4>2. n \in ActiveContexts /\ w.server[n] = NoAssociation
        BY <2>1, <4>1 DEF Migrated
      <4> QED BY <4>1, <4>2 DEF NoAssociation
    <3> QED BY <3>1, <3>2
  <2> QED BY <1>4, <2>2 DEF Scope, v
<1> QED BY <1>1, <1>2, <1>3, <1>4 DEF Saves

\* Where no process dies or fails to write and nobody cleans, what readers see
\* changes by the saves of sessions only, each under its own keys: parallel
\* installs, deletes and migrations lose no update of each other, however many
\* processes there are.
THEOREM NoLostUpdates ==
  ASSUME Faults = {}, "clean" \notin Kinds
  PROVE  Spec => UpdatesAreIsolated
<1> DEFINE Isolated ==
      \A n \in AllContexts, k \in Keys :
        Association(Visible, n)[k] # Association(Visible, n)[k]' =>
          \E p \in Procs : /\ At(p, "edit") /\ At(p, "write")'
                           /\ proc[p].fd = file
                           /\ k \in Scope(p)
<1>1. IInv /\ SessionsAgree /\ [Next]_vars => [Isolated]_vars
  <2> SUFFICES ASSUME IInv, SessionsAgree, [Next]_vars PROVE Isolated
    OBVIOUS
  <2> SUFFICES ASSUME NEW n \in AllContexts, NEW k \in Keys,
                      Association(Visible', n)[k] # Association(Visible, n)[k]
               PROVE  \E p \in Procs : /\ At(p, "edit") /\ At(p, "write")'
                                       /\ proc[p].fd = file
                                       /\ k \in Scope(p)
    OBVIOUS
  <2>1. Shows
    BY EveryStep
  <2>2. Visible' # Visible /\ ~Loses
    BY DEF Loses
  <2>3. PICK p \in Procs : Saves(p)
    BY <2>1, <2>2 DEF Shows
  <2>4. k \in Scope(p)
    BY <2>3, SaveInScope
  <2> QED BY <2>3, <2>4 DEF Saves, At
<1>2. [][Isolated]_vars => UpdatesAreIsolated
  BY DEF UpdatesAreIsolated
<1> HIDE DEF Isolated
<1> QED BY <1>1, <1>2, Agreement, PTL DEF Spec

-----------------------------------------------------------------------------
(* What a session was for is on disk when it unlocks.                       *)

\* Where writes do not fail and nobody cleans, a session that is about to unlock
\* has done what it was for, on disk, whatever the other processes do and
\* wherever they die.
THEOREM SessionsCommit ==
  ASSUME "writefail" \notin Faults, "clean" \notin Kinds
  PROVE  Spec => []CommittedAtUnlock
<1>1. IInv /\ SessionsAgree => CommittedAtUnlock
  <2> SUFFICES ASSUME IInv, SessionsAgree, NEW p \in Procs, At(p, "unlock")
               PROVE  LET c == Decode(content[proc[p].fd]) IN
                      /\ proc[p].fd = file
                      /\ proc[p].sess \in {"upsert", "refresh"} =>
                           /\ c.standAlone[KeyOf(proc[p].plugin)] = proc[p].plugin
                           /\ \A k \in Superseded(proc[p].plugin) : c.standAlone[k] = NoPlugin
                      /\ proc[p].sess = "delete" =>
                           \A pl \in proc[p].plugs : Association(c, proc[p].ctx)[KeyOf(pl)] = NoPlugin
                      /\ proc[p].sess = "fix" =>
                           \A n \in AllContexts, name \in Names : ~Doubled(Association(c, n), name)
                      /\ proc[p].sess = "migrate" =>
                           \A ac \in ActiveContexts : c.server[ac] = NoAssociation
    BY DEF CommittedAtUnlock
  <2>1. /\ OnFile(proc[p], file) /\ SessionOK(proc[p], content[proc[p].fd])
        /\ proc[p].pc = "unlock"
    BY DEF SessionsAgree, SessionPCs, At
  <2>2. proc[p].fd = file /\ content[proc[p].fd] = proc[p].cat /\ proc[p].cat \in Catalog
    BY <2>1 DEF OnFile, SessionOK, SessionPCs, IInv, TypeOK, ProcState
  <2>3. Decode(content[proc[p].fd]) = proc[p].cat
    BY <2>2, ConstantsAssumption DEF Decode
  <2>4. Achieved(proc[p]) /\ Deleted(proc[p]) /\ (proc[p].sess = "delete" => proc[p].left = {})
    BY <2>1 DEF SessionOK
  <2> QED BY <2>2, <2>3, <2>4 DEF Achieved, Deleted
<1> QED BY <1>1, Agreement, PTL

-----------------------------------------------------------------------------
(* What is listed has its binary.                                           *)

\* The plugins whose binary is there or is being written again.
Available ==
  {pl \in Plugins : \/ bins[pl] = "ok"
                    \/ \E p \in Procs : At(p, "binwrite") /\ proc[p].plugin = pl /\ proc[p].linked}

\* A process that knows of available plugins only, and is about to catalog one.
Backed(s, av) ==
  /\ s.pc = "binwrite" => s.linked
  /\ Associated(s.cat) \subseteq av
  /\ s.pc \in {"wopen", "wlock", "edit"} /\ s.sess \in {"upsert", "refresh"} => s.plugin \in av
  /\ s.found => s.plugin \in av

AllBacked ==
  /\ \A p \in Procs : Backed(proc[p], Available)
  /\ \A i \in Inodes : content[i] \notin {Blank, Torn} => Associated(content[i]) \subseteq Available

LEMMA NothingListed == Associated(newSharedCatalog) = {}
<1>1. \A n \in AllContexts : Association(newSharedCatalog, n) = NoAssociation
  BY DEF Association, AllContexts, newSharedCatalog
<1>2. Paths(NoAssociation) = {}
  BY DEF Paths, NoAssociation
<1> QED BY <1>1, <1>2 DEF Associated

\* What a catalog lists after an edit, from where its entries come.
LEMMA ListsFrom ==
  ASSUME NEW d, NEW av,
         \A n \in AllContexts, k \in Keys :
           Association(d, n)[k] = NoPlugin \/ Association(d, n)[k] \in av
  PROVE  Associated(d) \subseteq av
BY DEF Associated, Paths

LEMMA ListsTo ==
  ASSUME NEW c, NEW av, Associated(c) \subseteq av, NEW n \in AllContexts, NEW k \in Keys
  PROVE  Association(c, n)[k] = NoPlugin \/ Association(c, n)[k] \in av
<1>1. Paths(Association(c, n)) \subseteq Associated(c)
  BY DEF Associated
<1>2. Association(c, n)[k] = NoPlugin \/ Association(c, n)[k] \in Paths(Association(c, n))
  BY DEF Paths
<1> QED BY <1>1, <1>2

LEMMA UpsertLists ==
  ASSUME NEW c \in Catalog, NEW pl \in Plugins, NEW av, Associated(c) \subseteq av, pl \in av
  PROVE  Associated(Upsert(c, pl)) \subseteq av
<1>1. ASSUME NEW n \in AllContexts, NEW k \in Keys
      PROVE  Association(Upsert(c, pl), n)[k] \in {NoPlugin, pl, Association(c, n)[k]}
  <2> DEFINE d == Upsert(c, pl)
  <2>1. /\ d.server = c.server
        /\ d.standAlone = [j \in Keys |-> IF j = KeyOf(pl) THEN pl
                                          ELSE IF j \in Superseded(pl) THEN NoPlugin
                                          ELSE c.standAlone[j]]
    BY UpsertDoes
  <2> HIDE DEF d
  <2>2. d.standAlone[k] \in {NoPlugin, pl, c.standAlone[k]}
    BY <2>1
  <2>3. Association(d, n)[k] \in {NoPlugin, pl, Association(c, n)[k]}
    BY <2>1, <2>2 DEF Association
  <2> QED BY <2>3 DEF d
<1> QED BY <1>1, ListsFrom, ListsTo

LEMMA DeleteLists ==
  ASSUME NEW c \in Catalog, NEW m \in AllContexts, NEW key \in Keys, NEW av,
         Associated(c) \subseteq av
  PROVE  Associated(Delete(c, m, key)) \subseteq av
<1>1. ASSUME NEW n \in AllContexts, NEW k \in Keys
      PROVE  Association(Delete(c, m, key), n)[k] \in {NoPlugin, Association(c, n)[k]}
  BY DeleteDoes
<1> QED BY <1>1, ListsFrom, ListsTo

LEMMA MigrateLists ==
  ASSUME NEW c \in Catalog, NEW ac \in Servers, NEW av, Associated(c) \subseteq av
  PROVE  Associated(MigrateContext(c, ac)) \subseteq av
<1>1. ac \in AllContexts
  BY DEF AllContexts
<1>2. ASSUME NEW n \in AllContexts, NEW k \in Keys
      PROVE  Association(MigrateContext(c, ac), n)[k] \in
               {NoPlugin, Association(c, n)[k], Association(c, ac)[k]}
  BY DataAssumption DEF MigrateContext, Catalog, PluginAssociation, NoAssociation, AllContexts,
     Association
<1> QED BY <1>1, <1>2, ListsFrom, ListsTo

LEMMA FixLists ==
  ASSUME NEW c \in Catalog, WellFormed(c), NEW av, Associated(c) \subseteq av
  PROVE  Associated(DeleteIncorrectPluginEntries(c)) \subseteq av
<1>1. ASSUME NEW n \in AllContexts, NEW k \in Keys
      PROVE  Association(DeleteIncorrectPluginEntries(c), n)[k] \in {NoPlugin, Association(c, n)[k]}
  <2>1. Association(DeleteIncorrectPluginEntries(c), n) = Unmixed(Association(c, n))
    BY FixDoes
  <2> QED BY <2>1 DEF Unmixed
<1> QED BY <1>1, ListsFrom, ListsTo

\* A step after which no available plugin is lost.
LEMMA BackedStep ==
  ASSUME AllBacked, NEW p \in Procs, Available \subseteq Available',
         \A q \in Procs \ {p} : proc'[q] = proc[q],
         Backed(proc'[p], Available'),
         \A i \in Inodes : \/ content'[i] = content[i]
                           \/ content'[i] \in {Blank, Torn}
                           \/ Associated(content'[i]) \subseteq Available'
  PROVE  AllBacked'
<1>1. ASSUME NEW q \in Procs PROVE Backed(proc'[q], Available')
  BY DEF AllBacked, Backed
<1>2. ASSUME NEW i \in Inodes, content'[i] \notin {Blank, Torn}
      PROVE  Associated(content'[i]) \subseteq Available'
  BY <1>2 DEF AllBacked
<1> QED BY <1>1, <1>2 DEF AllBacked

LEMMA BinariesStay ==
  ASSUME NEW p \in Procs, proc[p].pc # "binwrite", bins' = bins,
         \A q \in Procs \ {p} : proc'[q] = proc[q]
  PROVE  Available \subseteq Available'
BY DEF Available, At

\* A step of a process that is not writing a binary and no catalog either.
LEMMA BackedMove ==
  ASSUME IInv, AllBacked, NEW p \in Procs, NEW state, Become(p, state), proc[p].pc # "binwrite",
         bins' = bins,
         \A i \in Inodes : \/ content'[i] = content[i]
                           \/ content'[i] \in {Blank, Torn}
                           \/ Associated(content'[i]) \subseteq Available,
         Backed(state, Available)
  PROVE  AllBacked'
<1>1. proc'[p] = state /\ \A q \in Procs \ {p} : proc'[q] = proc[q]
  BY Became DEF IInv
<1>2. Available \subseteq Available'
  BY <1>1, BinariesStay
<1>3. Backed(proc'[p], Available')
  BY <1>1, <1>2 DEF Backed
<1> QED BY <1>1, <1>2, <1>3, BackedStep

\* The end of a session or of a read.
LEMMA AfterBacked ==
  ASSUME IInv, AllBacked, NEW p \in Procs, NEW plugins, NEW n
  PROVE  /\ Backed(Idle, Available)
         /\ Backed(AfterSession(p), Available)
         /\ Backed(AfterRead(p, plugins, n), Available)
<1> DEFINE s == proc[p]
<1>1. s \in ProcState /\ Backed(s, Available)
  BY DEF IInv, TypeOK, AllBacked
<1>2. Backed(Idle, Available)
  BY NothingListed DEF Idle, Backed
<1>3. ASSUME NEW t, t.cat = s.cat, t.found = s.found, t.plugin = s.plugin, t.pc # "binwrite",
             t.pc \in {"wopen", "wlock", "edit"} /\ t.sess \in {"upsert", "refresh"} =>
               s.found
      PROVE  Backed(t, Available)
  BY <1>1, <1>3 DEF Backed
<1>4. Backed(AfterSession(p), Available)
  <2>1. CASE s.sess = "migrate"
    <3> DEFINE t == [s EXCEPT !.pc = "ropen", !.sess = "none", !.fd = NoInode, !.ctxs = {}]
    <3>1. t.cat = s.cat /\ t.found = s.found /\ t.plugin = s.plugin /\ t.pc = "ropen"
      BY <1>1 DEF ProcState
    <3>2. AfterSession(p) = t
      BY <2>1 DEF AfterSession
    <3> HIDE DEF t
    <3> QED BY <1>3, <3>1, <3>2
  <2>2. CASE s.sess = "refresh"
    <3> DEFINE t == [s EXCEPT !.pc = "next", !.fd = NoInode]
    <3>1. t.cat = s.cat /\ t.found = s.found /\ t.plugin = s.plugin /\ t.pc = "next"
      BY <1>1 DEF ProcState
    <3>2. AfterSession(p) = t
      BY <2>2 DEF AfterSession
    <3> HIDE DEF t
    <3> QED BY <1>3, <3>1, <3>2
  <2>3. CASE s.sess = "delete" /\ s.ctxs # {}
    <3> DEFINE t == [s EXCEPT !.pc = "wopen", !.fd = NoInode]
    <3>1. t.cat = s.cat /\ t.found = s.found /\ t.plugin = s.plugin /\ t.pc = "wopen"
          /\ t.sess = "delete"
      BY <1>1, <2>3 DEF ProcState
    <3>2. AfterSession(p) = t
      BY <2>3 DEF AfterSession
    <3> HIDE DEF t
    <3> QED BY <1>3, <3>1, <3>2
  <2>4. CASE ~(\/ proc[p].sess \in {"migrate", "refresh"}
               \/ proc[p].sess = "delete" /\ proc[p].ctxs # {})
    <3>1. AfterSession(p) = Idle
      BY <2>4 DEF AfterSession
    <3> QED BY <1>2, <3>1
  <2> QED BY <2>1, <2>2, <2>3, <2>4
<1>5. Backed(AfterRead(p, plugins, n), Available)
  <2>1. CASE s.kind = "refresh" /\ plugins # {}
    <3> DEFINE t == [s EXCEPT !.pc = "next", !.fd = NoInode, !.plugs = plugins, !.left = plugins]
    <3>1. t.cat = s.cat /\ t.found = s.found /\ t.plugin = s.plugin /\ t.pc = "next"
      BY <1>1 DEF ProcState
    <3>2. AfterRead(p, plugins, n) = t
      BY <2>1 DEF AfterRead
    <3> HIDE DEF t
    <3> QED BY <1>3, <3>1, <3>2
  <2>2. CASE s.kind = "install"
    <3> DEFINE where == IF s.found THEN "wopen" ELSE "fetch"
               t == [s EXCEPT !.pc = where, !.fd = NoInode, !.sess = "upsert"]
    <3>1. AfterRead(p, plugins, n) = t
      BY <2>2 DEF AfterRead
    <3>2. where \in {"wopen", "fetch"} /\ (where = "wopen" => s.found)
      OBVIOUS
    <3> HIDE DEF where
    <3>3. t.cat = s.cat /\ t.found = s.found /\ t.plugin = s.plugin /\ t.pc = where
      BY <1>1 DEF ProcState
    <3> HIDE DEF t
    <3> QED BY <1>3, <3>1, <3>2, <3>3
  <2>3. CASE s.kind = "delete"
    <3> DEFINE where == IF s.ctxs \subseteq {n} THEN "confirm" ELSE "ropen"
               matched == s.plugs \cup {pl \in plugins : Matches(p, pl)}
               t == [s EXCEPT !.pc = where, !.fd = NoInode, !.ctxs = s.ctxs \ {n},
                              !.plugs = matched]
    <3>1. AfterRead(p, plugins, n) = t
      BY <2>3 DEF AfterRead
    <3>2. where \in {"confirm", "ropen"}
      OBVIOUS
    <3> HIDE DEF where, matched
    <3>3. t.cat = s.cat /\ t.found = s.found /\ t.plugin = s.plugin /\ t.pc = where
      BY <1>1 DEF ProcState
    <3> HIDE DEF t
    <3> QED BY <1>3, <3>1, <3>2, <3>3
  <2>4. CASE ~(\/ proc[p].kind \in {"install", "delete"}
               \/ proc[p].kind = "refresh" /\ plugins # {})
    <3>1. AfterRead(p, plugins, n) = Idle
      BY <2>4 DEF AfterRead
    <3> QED BY <1>2, <3>1
  <2> QED BY <2>1, <2>2, <2>3, <2>4
<1> QED BY <1>2, <1>4, <1>5

\* The steps on the file.
LEMMA BackedOnFile ==
  ASSUME IInv, SessionsAgree, AllBacked, NEW p \in Procs,
         \/ OpenForUpdate(p) \/ LockForUpdate(p) \/ LockDecodeError(p) \/ RefreshDecodeError(p)
         \/ MigrateOne(p) \/ MigrateSave(p) \/ FixSave(p) \/ UpsertSave(p) \/ DeleteSave(p)
         \/ Write(p) \/ Unlock(p)
  PROVE  AllBacked'
<1> DEFINE s == proc[p]
<1>1. /\ s \in ProcState /\ Coherent(s) /\ Backed(s, Available)
      /\ s.cat \in Catalog /\ WellFormed(s.cat)
  BY DEF IInv, TypeOK, ProcsCoherent, Coherent, AllBacked, ProcState
<1>2. bins' = bins /\ s.pc # "binwrite"
  BY DEF OpenForUpdate, LockForUpdate, LockDecodeError, RefreshDecodeError, MigrateOne, MigrateSave,
     FixSave, UpsertSave, DeleteSave, Save, Write, Unlock, At
<1>3. CASE OpenForUpdate(p)
  <2>1. PICK i \in Inodes : \E n \in IF s.sess = "delete" THEN NextContexts(p) ELSE {StandAlone} :
          /\ content' = [content EXCEPT ![i] = Blank] \/ UNCHANGED content
          /\ Become(p, [s EXCEPT !.pc = "wlock", !.fd = i, !.ctx = n,
                                 !.ctxs = IF s.sess = "delete" THEN s.ctxs \ {n} ELSE s.ctxs])
    BY <1>3 DEF OpenForUpdate
  <2>2. PICK n : Become(p, [s EXCEPT !.pc = "wlock", !.fd = i, !.ctx = n,
                              !.ctxs = IF s.sess = "delete" THEN s.ctxs \ {n} ELSE s.ctxs])
    BY <2>1
  <2> DEFINE cs == IF s.sess = "delete" THEN s.ctxs \ {n} ELSE s.ctxs
             t == [s EXCEPT !.pc = "wlock", !.fd = i, !.ctx = n, !.ctxs = cs]
  <2>3. Become(p, t)
    BY <2>2
  <2> HIDE DEF cs
  <2>4. /\ t.cat = s.cat /\ t.found = s.found /\ t.plugin = s.plugin /\ t.pc = "wlock"
        /\ t.sess = s.sess
    BY <1>1 DEF ProcState
  <2>5. s.pc = "wopen"
    BY <1>3 DEF OpenForUpdate, At
  <2>6. \A j \in Inodes : content'[j] = content[j] \/ content'[j] \in {Blank, Torn}
    BY <2>1 DEF IInv, TypeOK
  <2> HIDE DEF t
  <2>7. Backed(t, Available)
    BY <1>1, <2>4, <2>5 DEF Backed
  <2> QED BY <1>2, <2>3, <2>6, <2>7, BackedMove
<1>4. CASE LockForUpdate(p)
  <2> DEFINE x == content[s.fd]
             rest == IF s.sess = "delete" THEN s.plugs ELSE s.left
             t == [s EXCEPT !.pc = "edit", !.cat = Decode(x), !.left = rest]
  <2>1. Become(p, t) /\ UNCHANGED content /\ s.pc = "wlock" /\ x # Torn
    BY <1>4 DEF LockForUpdate, At
  <2> HIDE DEF rest
  <2>2. /\ t.cat = Decode(x) /\ t.found = s.found /\ t.plugin = s.plugin /\ t.pc = "edit"
        /\ t.sess = s.sess
    BY <1>1 DEF ProcState
  <2>3. Associated(Decode(x)) \subseteq Available
    <3>1. s.fd \in Inodes
      BY <1>1, <2>1 DEF Coherent
    <3> QED BY <2>1, <3>1, NothingListed DEF Decode, AllBacked
  <2> HIDE DEF t
  <2>4. Backed(t, Available)
    BY <1>1, <2>1, <2>2, <2>3 DEF Backed
  <2> QED BY <1>2, <2>1, <2>4, BackedMove
<1>5. CASE LockDecodeError(p) \/ Unlock(p)
  BY <1>2, <1>5, AfterBacked, BackedMove DEF LockDecodeError, Unlock
<1>6. CASE RefreshDecodeError(p)
  BY <1>2, <1>6, AfterBacked, BackedMove DEF RefreshDecodeError, Finish
<1>7. CASE MigrateOne(p)
  <2>1. PICK ac \in s.ctxs :
          Become(p, [s EXCEPT !.cat = MigrateContext(s.cat, ac), !.ctxs = s.ctxs \ {ac}])
    BY <1>7 DEF MigrateOne
  <2> DEFINE c == MigrateContext(s.cat, ac)
             t == [s EXCEPT !.cat = c, !.ctxs = s.ctxs \ {ac}]
  <2>2. ac \in Servers /\ s.sess = "migrate" /\ UNCHANGED content
    BY <1>1, <1>7, ConstantsAssumption DEF MigrateOne, Coherent, disk
  <2>3. Associated(c) \subseteq Available
    BY <1>1, <2>2, MigrateLists DEF Backed
  <2>4. Become(p, t)
    BY <2>1
  <2> HIDE DEF c
  <2>5. t.cat = c /\ t.found = s.found /\ t.plugin = s.plugin /\ t.pc = s.pc /\ t.sess = s.sess
    BY <1>1 DEF ProcState
  <2> HIDE DEF t
  <2>6. Backed(t, Available)
    BY <1>1, <1>2, <2>2, <2>3, <2>5 DEF Backed
  <2> QED BY <1>2, <2>2, <2>4, <2>6, BackedMove
<1>8. ASSUME NEW c, NEW rest, Save(p, [s EXCEPT !.cat = c, !.left = rest]),
             Associated(c) \subseteq Available
      PROVE  AllBacked'
  <2> DEFINE t == [s EXCEPT !.cat = c, !.left = rest, !.pc = "write"]
  <2>1. Become(p, t)
    BY <1>1, <1>8 DEF Save, ProcState
  <2>2. t.cat = c /\ t.found = s.found /\ t.plugin = s.plugin /\ t.pc = "write"
    BY <1>1 DEF ProcState
  <2>3. \A j \in Inodes : content'[j] = content[j] \/ content'[j] \in {Blank, Torn}
    BY <1>8 DEF Save, IInv, TypeOK
  <2> HIDE DEF t
  <2>4. Backed(t, Available)
    BY <1>1, <1>8, <2>2 DEF Backed
  <2> QED BY <1>2, <2>1, <2>3, <2>4, BackedMove
<1>9. ASSUME NEW c PROVE [s EXCEPT !.cat = c] = [s EXCEPT !.cat = c, !.left = s.left]
  BY <1>1 DEF ProcState
<1>10. CASE MigrateSave(p)
  <2>1. s = [s EXCEPT !.cat = s.cat, !.left = s.left]
    BY <1>1 DEF ProcState
  <2>2. Save(p, [s EXCEPT !.cat = s.cat, !.left = s.left])
    BY <1>10, <2>1 DEF MigrateSave
  <2> QED BY <1>1, <1>8, <2>2 DEF Backed
<1>11. CASE FixSave(p)
  <2> DEFINE c == DeleteIncorrectPluginEntries(s.cat)
  <2>1. Save(p, [s EXCEPT !.cat = c, !.left = s.left])
    BY <1>9, <1>11 DEF FixSave
  <2>2. Associated(c) \subseteq Available
    BY <1>1, FixLists DEF Backed
  <2> HIDE DEF c
  <2> QED BY <1>8, <2>1, <2>2
<1>12. CASE UpsertSave(p)
  <2> DEFINE c == Upsert(s.cat, s.plugin)
  <2>1. Save(p, [s EXCEPT !.cat = c, !.left = s.left])
    BY <1>9, <1>12 DEF UpsertSave
  <2>2. s.plugin \in Plugins /\ s.plugin \in Available
    BY <1>1, <1>12 DEF UpsertSave, At, Coherent, Backed
  <2>3. Associated(c) \subseteq Available
    BY <1>1, <2>2, UpsertLists DEF Backed
  <2> HIDE DEF c
  <2> QED BY <1>8, <2>1, <2>3
<1>13. CASE DeleteSave(p)
  <2>1. PICK pl \in s.left :
          Save(p, [s EXCEPT !.cat = Delete(s.cat, s.ctx, KeyOf(pl)), !.left = s.left \ {pl}])
    BY <1>13 DEF DeleteSave
  <2>2. KeyOf(pl) \in Keys /\ s.ctx \in AllContexts
    BY <1>1, KeysType DEF ProcState
  <2>3. Associated(Delete(s.cat, s.ctx, KeyOf(pl))) \subseteq Available
    BY <1>1, <2>2, DeleteLists DEF Backed
  <2> QED BY <1>8, <2>1, <2>3
<1>14. CASE Write(p)
  <2>1. PICK where \in {"edit", "unlock"} :
          /\ Become(p, [s EXCEPT !.pc = where])
          /\ where = "edit" => s.sess = "delete"
    BY <1>14 DEF Write, AfterWrite, GoTo
  <2> DEFINE t == [s EXCEPT !.pc = where]
  <2>2. t.cat = s.cat /\ t.found = s.found /\ t.plugin = s.plugin /\ t.pc = where /\ t.sess = s.sess
    BY <1>1 DEF ProcState
  <2>3. content' = [content EXCEPT ![s.fd] = s.cat]
    BY <1>14 DEF Write
  <2>4. \A j \in Inodes : content'[j] = content[j] \/ Associated(content'[j]) \subseteq Available
    BY <1>1, <2>3 DEF IInv, TypeOK, Backed
  <2>5. Become(p, t)
    BY <2>1
  <2> HIDE DEF t
  <2>6. Backed(t, Available)
    BY <1>1, <2>1, <2>2 DEF Backed
  <2> QED BY <1>2, <2>4, <2>5, <2>6, BackedMove
<1> QED BY <1>3, <1>4, <1>5, <1>6, <1>7, <1>10, <1>11, <1>12, <1>13, <1>14

\* The other steps of a run without faults and without clean.
LEMMA BackedElsewhere ==
  ASSUME IInv, SessionsAgree, AllBacked, Faults = {}, NEW p \in Procs,
         \/ Begin(p) \/ Exit(p)
         \/ MigrateIfNeeded(p) \/ OpenForRead(p) \/ Read(p)
         \/ Lookup(p) \/ Fetch(p) \/ BinOpen(p) \/ BinWrite(p) \/ Describe(p)
         \/ Confirm(p) \/ RefreshNext(p)
  PROVE  AllBacked'
<1> DEFINE s == proc[p]
<1>1. s \in ProcState /\ Coherent(s) /\ Backed(s, Available) /\ UNCHANGED content
  BY DEF IInv, TypeOK, ProcsCoherent, AllBacked, Begin, Exit, MigrateIfNeeded, OpenForRead, Read,
     Lookup, Fetch, BinOpen, BinWrite, Describe, Confirm, RefreshNext, disk
<1>2. ASSUME NEW t, Become(p, t), s.pc # "binwrite", bins' = bins, Backed(t, Available)
      PROVE  AllBacked'
  BY <1>1, <1>2, BackedMove
<1>3. ASSUME NEW t, Become(p, t), s.pc # "binwrite", bins' = bins, t.cat = s.cat, t.found = s.found,
             t.plugin = s.plugin, t.pc # "binwrite",
             t.pc \in {"wopen", "wlock", "edit"} => t.sess \notin {"upsert", "refresh"}
      PROVE  AllBacked'
  BY <1>1, <1>2, <1>3 DEF Backed
<1>4. Backed(Idle, Available)
  BY AfterBacked
<1>5. CASE Finish(p) /\ s.pc # "binwrite" /\ bins' = bins
  BY <1>2, <1>4, <1>5 DEF Finish
<1>6. CASE Begin(p)
  <2>1. PICK kind \in Kinds, pl \in Plugins \cup {NoPlugin} :
          Become(p, [Idle EXCEPT !.pc = Entry[kind], !.kind = kind, !.plugin = pl,
                          !.sess = IF kind = "fix" THEN "fix" ELSE "none",
                          !.ctxs = IF kind = "delete" THEN ActiveContexts \cup {StandAlone}
                                   ELSE {}])
    BY <1>6 DEF Begin
  <2> DEFINE cs == IF kind = "delete" THEN ActiveContexts \cup {StandAlone} ELSE {}
             ss == IF kind = "fix" THEN "fix" ELSE "none"
             where == Entry[kind]
             t == [Idle EXCEPT !.pc = where, !.kind = kind, !.plugin = pl, !.sess = ss, !.ctxs = cs]
  <2>2. ss \in {"fix", "none"}
    OBVIOUS
  <2>3. where # "binwrite"
    BY ConstantsAssumption DEF Operations, Entry
  <2>4. Become(p, t) /\ s.pc # "binwrite" /\ bins' = bins
    BY <1>6, <2>1 DEF Begin, At
  <2> HIDE DEF cs, ss, where
  <2>5. t.pc = where /\ t.sess = ss /\ t.cat = Idle.cat /\ t.found = Idle.found
    BY IdleState DEF ProcState
  <2>6. Idle.found = FALSE
    BY DEF Idle
  <2> HIDE DEF t
  <2>7. Backed(t, Available)
    BY <1>4, <2>2, <2>3, <2>5, <2>6 DEF Backed
  <2> QED BY <1>2, <2>4, <2>7
<1>7. CASE Exit(p)
  <2>1. UNCHANGED <<proc, bins>>
    BY <1>7 DEF Exit
  <2>2. Available' = Available
    BY <2>1 DEF Available, At
  <2> QED BY <1>1, <2>1, <2>2 DEF AllBacked
<1>8. CASE MigrateIfNeeded(p)
  <2> DEFINE a == [s EXCEPT !.pc = "ropen"]
             b == [s EXCEPT !.pc = "wopen", !.sess = "migrate", !.ctxs = ActiveContexts]
  <2>1. (Become(p, a) \/ Become(p, b)) /\ s.pc # "binwrite" /\ bins' = bins
    BY <1>8 DEF MigrateIfNeeded, At
  <2>2. a.cat = s.cat /\ a.found = s.found /\ a.plugin = s.plugin /\ a.pc = "ropen"
    BY <1>1 DEF ProcState
  <2>3. /\ b.cat = s.cat /\ b.found = s.found /\ b.plugin = s.plugin /\ b.pc = "wopen"
        /\ b.sess = "migrate"
    BY <1>1 DEF ProcState
  <2> HIDE DEF a, b
  <2> QED BY <1>3, <2>1, <2>2, <2>3
<1>9. CASE OpenForRead(p) \/ Read(p)
  <2> DEFINE a == [s EXCEPT !.pc = "rlock", !.fd = file]
  <2>1. (Become(p, a) \/ \E plugins, n : Become(p, AfterRead(p, plugins, n)))
        /\ s.pc # "binwrite" /\ bins' = bins
    BY <1>9 DEF OpenForRead, Read, At
  <2>2. a.cat = s.cat /\ a.found = s.found /\ a.plugin = s.plugin /\ a.pc = "rlock"
    BY <1>1 DEF ProcState
  <2> HIDE DEF a
  <2> QED BY <1>2, <1>3, <2>1, <2>2, AfterBacked
<1>10. CASE Lookup(p)
  <2> DEFINE b == bins[s.plugin] = "ok"
             t == [s EXCEPT !.pc = "listing", !.found = b]
  <2>1. Become(p, t) /\ s.pc # "binwrite" /\ bins' = bins /\ s.pc = "lookup"
    BY <1>10 DEF Lookup, At
  <2>2. s.plugin \in Plugins
    BY <1>1, <2>1 DEF Coherent
  <2>3. b => s.plugin \in Available
    BY <2>2 DEF Available
  <2> HIDE DEF b
  <2>4. t.cat = s.cat /\ t.plugin = s.plugin /\ t.pc = "listing"
    BY <1>1 DEF ProcState
  <2>5. t.found = b
    BY <1>1, Zenon DEF ProcState
  <2> HIDE DEF t
  <2>6. Backed(t, Available)
    BY <1>1, <2>3, <2>4, <2>5 DEF Backed
  <2> QED BY <1>2, <2>1, <2>6
<1>11. CASE Fetch(p)
  <2> DEFINE t == [s EXCEPT !.pc = "binopen"]
  <2>1. (Become(p, t) \/ Finish(p)) /\ s.pc # "binwrite" /\ bins' = bins
    BY <1>11 DEF Fetch, At, GoTo
  <2>2. t.cat = s.cat /\ t.found = s.found /\ t.plugin = s.plugin /\ t.pc = "binopen"
    BY <1>1 DEF ProcState
  <2> HIDE DEF t
  <2> QED BY <1>3, <1>5, <2>1, <2>2
<1>12. CASE BinOpen(p)
  <2> DEFINE t == [s EXCEPT !.pc = "binwrite", !.linked = TRUE]
  <2>1. s.pc = "binopen" /\ bins' = [bins EXCEPT ![s.plugin] = "partial"] /\ Become(p, t)
    BY <1>12 DEF BinOpen, At
  <2>2. t.cat = s.cat /\ t.found = s.found /\ t.plugin = s.plugin /\ t.pc = "binwrite"
    BY <1>1 DEF ProcState
  <2>3. t.linked
    BY <1>1, Zenon DEF ProcState
  <2>4. s.plugin \in Plugins
    BY <1>1, <2>1 DEF Coherent
  <2> HIDE DEF t
  <2>5. proc'[p] = t /\ \A q \in Procs \ {p} : proc'[q] = proc[q]
    BY <2>1, Became DEF IInv
  <2>6. \A pl \in Plugins \ {s.plugin} : bins'[pl] = bins[pl]
    BY <2>1 DEF IInv, TypeOK
  <2>7. Available \subseteq Available'
    <3> SUFFICES ASSUME NEW pl \in Available
                 PROVE  \/ bins'[pl] = "ok"
                        \/ \E q \in Procs : /\ proc'[q].pc = "binwrite" /\ proc'[q].plugin = pl
                                            /\ proc'[q].linked
      BY DEF Available, At
    <3>1. CASE pl = s.plugin
      BY <2>2, <2>3, <2>5, <3>1
    <3>2. CASE pl # s.plugin /\ bins[pl] = "ok"
      BY <2>6, <3>2 DEF Available
    <3>3. CASE \E q \in Procs : At(q, "binwrite") /\ proc[q].plugin = pl /\ proc[q].linked
      BY <2>1, <2>5, <3>3 DEF At
    <3> QED BY <3>1, <3>2, <3>3 DEF Available
  <2>8. Backed(t, Available')
    BY <1>1, <2>2, <2>3, <2>7 DEF Backed
  <2> QED BY <1>1, <2>5, <2>7, <2>8, BackedStep
<1>13. CASE BinWrite(p)
  <2> DEFINE t == [s EXCEPT !.pc = "describe"]
  <2>1. /\ s.pc = "binwrite" /\ Become(p, t)
        /\ bins' = IF s.linked THEN [bins EXCEPT ![s.plugin] = "ok"] ELSE bins
    BY <1>13 DEF BinWrite, At, GoTo
  <2>2. t.cat = s.cat /\ t.found = s.found /\ t.plugin = s.plugin /\ t.pc = "describe"
    BY <1>1 DEF ProcState
  <2>3. s.plugin \in Plugins /\ s.linked
    BY <1>1, <2>1 DEF Coherent, Backed
  <2> HIDE DEF t
  <2>4. proc'[p] = t /\ \A q \in Procs \ {p} : proc'[q] = proc[q]
    BY <2>1, Became DEF IInv
  <2>5. bins'[s.plugin] = "ok" /\ \A pl \in Plugins \ {s.plugin} : bins'[pl] = bins[pl]
    BY <2>1, <2>3 DEF IInv, TypeOK
  <2>6. Available \subseteq Available'
    BY <2>4, <2>5 DEF Available, At
  <2>7. Backed(t, Available')
    BY <1>1, <2>2, <2>6 DEF Backed
  <2> QED BY <1>1, <2>4, <2>6, <2>7, BackedStep
<1>14. CASE Describe(p)
  <2> DEFINE t == [s EXCEPT !.pc = "wopen", !.sess = "upsert"]
  <2>1. s.pc = "describe" /\ bins' = bins
    BY <1>14 DEF Describe, At
  <2>2. Finish(p) \/ (bins[s.plugin] = "ok" /\ Become(p, t))
    BY <1>14 DEF Describe
  <2>3. t.cat = s.cat /\ t.found = s.found /\ t.plugin = s.plugin /\ t.pc = "wopen"
    BY <1>1 DEF ProcState
  <2>4. s.plugin \in Plugins
    BY <1>1, <2>1 DEF Coherent
  <2> HIDE DEF t
  <2>5. bins[s.plugin] = "ok" => Backed(t, Available)
    <3>1. bins[s.plugin] = "ok" => s.plugin \in Available
      BY <2>4 DEF Available
    <3> QED BY <1>1, <2>3, <3>1 DEF Backed
  <2> QED BY <1>2, <1>5, <2>1, <2>2, <2>5
<1>15. CASE Confirm(p)
  <2> DEFINE t == [s EXCEPT !.pc = "wopen", !.sess = "delete", !.ctxs = ActiveContexts \cup {StandAlone}]
  <2>1. s.pc # "binwrite" /\ bins' = bins /\ (Finish(p) \/ Become(p, t))
    BY <1>15 DEF Confirm, At
  <2>2. /\ t.cat = s.cat /\ t.found = s.found /\ t.plugin = s.plugin /\ t.pc = "wopen"
        /\ t.sess = "delete"
    BY <1>1 DEF ProcState
  <2> HIDE DEF t
  <2> QED BY <1>3, <1>5, <2>1, <2>2
<1>16. CASE RefreshNext(p)
  <2>1. s.pc = "next" /\ bins' = bins
    BY <1>16 DEF RefreshNext, At
  <2>2. ASSUME NEW pl \in s.left, bins[pl] = "ok",
               Become(p, [s EXCEPT !.pc = "wopen", !.sess = "refresh", !.plugin = pl,
                                   !.left = s.left \ {pl}])
        PROVE  AllBacked'
    <3> DEFINE t == [s EXCEPT !.pc = "wopen", !.sess = "refresh", !.plugin = pl,
                              !.left = s.left \ {pl}]
    <3>1. t.cat = s.cat /\ t.plugin = pl /\ t.pc = "wopen"
      BY <1>1 DEF ProcState
    <3>2. pl \in Available
      BY <1>1, <2>2 DEF ProcState, Available
    <3> HIDE DEF t
    <3>3. Backed(t, Available)
      BY <1>1, <3>1, <3>2 DEF Backed
    <3> QED BY <1>2, <2>1, <2>2, <3>3 DEF t
  <2>3. ASSUME NEW pl \in s.left,
               Become(p, [s EXCEPT !.left = s.left \ {pl}, !.plugs = s.plugs \ {pl}])
        PROVE  AllBacked'
    <3> DEFINE t == [s EXCEPT !.left = s.left \ {pl}, !.plugs = s.plugs \ {pl}]
    <3>1. t.cat = s.cat /\ t.found = s.found /\ t.plugin = s.plugin /\ t.pc = "next"
      BY <1>1, <2>1 DEF ProcState
    <3>2. Become(p, t)
      BY <2>3
    <3> HIDE DEF t
    <3> QED BY <1>3, <2>1, <3>1, <3>2
  <2> QED BY <1>5, <1>16, <2>1, <2>2, <2>3 DEF RefreshNext
<1> QED BY <1>6, <1>7, <1>8, <1>9, <1>10, <1>11, <1>12, <1>13, <1>14, <1>15, <1>16

\* Where nothing fails and nobody cleans, every plugin that readers see has its
\* binary, or somebody is writing it again: the binary is in place before an
\* install updates the catalog, and nothing takes it away.
THEOREM ListedCanRun ==
  ASSUME Faults = {}, "clean" \notin Kinds
  PROVE  Spec => []ListedAreRunnable
<1>1. Init => AllBacked
  <2> SUFFICES ASSUME Init PROVE AllBacked
    OBVIOUS
  <2>1. PICK c \in LegacyCatalogs :
          /\ content = [i \in Inodes |-> IF i = file THEN c ELSE Blank]
          /\ bins = [pl \in Plugins |-> IF file # NoInode /\ pl \in Associated(c)
                                         THEN "ok" ELSE "absent"]
    BY DEF Init
  <2>2. \A q \in Procs : proc[q] = Idle
    BY DEF Init
  <2>3. Backed(Idle, Available)
    BY NothingListed DEF Idle, Backed
  <2>4. ASSUME NEW i \in Inodes, content[i] \notin {Blank, Torn}
        PROVE  Associated(content[i]) \subseteq Available
    <3>1. i = file /\ content[i] = c /\ file # NoInode
      BY <2>1, <2>4, ConstantsAssumption
    <3>2. Associated(c) \subseteq Plugins
      BY LegacyAssumption, AssociationType DEF Associated, Paths, PluginAssociation
    <3> QED BY <2>1, <3>1, <3>2 DEF Available
  <2> QED BY <2>2, <2>3, <2>4 DEF AllBacked
<1>2. IInv /\ SessionsAgree /\ AllBacked /\ [Next]_vars => AllBacked'
  <2> SUFFICES ASSUME IInv, SessionsAgree, AllBacked, [Next]_vars PROVE AllBacked'
    OBVIOUS
  <2>1. CASE UNCHANGED vars
    <3>1. UNCHANGED <<content, bins, proc>>
      BY <2>1 DEF vars, disk
    <3>2. Available' = Available
      BY <3>1 DEF Available, At
    <3> QED BY <3>1, <3>2 DEF AllBacked
  <2>2. ASSUME NEW p \in Procs, Step(p) PROVE AllBacked'
    <3>1. ~Crash(p) /\ ~WriteFail(p)
      BY DEF Crash, WriteFail
    <3>2. ~CleanCatalogCache(p) /\ ~CleanBinaries(p)
      BY DEF CleanCatalogCache, CleanBinaries, At, SessionsAgree, Ready, IInv, TypeOK, ProcState
    <3> QED BY <2>2, <3>1, <3>2, BackedOnFile, BackedElsewhere DEF Step, Progress
  <2> QED BY <2>1, <2>2 DEF Next, Terminated
<1>3. IInv /\ AllBacked => ListedAreRunnable
  <2> SUFFICES ASSUME IInv, AllBacked PROVE ListedAreRunnable
    OBVIOUS
  <2>1. Associated(Visible) \subseteq Available
    <3>1. CASE file = NoInode
      BY <3>1, Before, NothingListed
    <3>2. CASE file # NoInode /\ \E p \in Procs : Deciders(proc[p], file)
      BY <3>2, Before DEF AllBacked, Backed
    <3>3. CASE file # NoInode /\ \A p \in Procs : ~Deciders(proc[p], file)
      <4>1. file \in Inodes /\ Visible = Plain(content[file])
        BY <3>3, Before DEF IInv, TypeOK
      <4> QED BY <4>1, NothingListed DEF Plain, Decode, AllBacked
    <3> QED BY <3>1, <3>2, <3>3
  <2> QED BY <2>1 DEF ListedAreRunnable, Available
<1> QED BY <1>1, <1>2, <1>3, Agreement, PTL DEF Spec
=============================================================================
