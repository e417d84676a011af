---------------------------- MODULE StartupProofs ----------------------------
(***************************************************************************)
(* What every command does around its own work, for any number of          *)
(* processes, contexts, commands and faults: keys of the data store are    *)
(* kept, updates recorded as done are done and undo no login, the move to  *)
(* the new source is not lost, and nothing essential is installed without  *)
(* agreement.  And the recommended versions, for every finite list: what   *)
(* is recommended is newer and stays within the major version, and after   *)
(* an update to the recommended minor version the notice is not printed    *)
(* any more.                                                               *)
(***************************************************************************)
EXTENDS Startup, FiniteSetTheorems, WellFoundedInduction, TLAPS

\* Where a process goes on after it changed the data store.
Thens == {"issuer", "endpoint", "source", "flag", "idle"}

ShapeOK ==
  \A p \in Procs :
    /\ run[p].then \in Thens
    /\ At(p, "contexts") => run[p].key \in {"shas", "issuers", "endpoint"} /\ run[p].then # "flag"

\* The file is emptied under the lock only, and is undecodable only after a loss.
StoreIsGuarded ==
  /\ \A p \in Procs : At(p, "truncated") => dsLock = p
  /\ store = Torn => seen.lost

Migrated == source = "new" \/ seen.failed

\* A process that is past the move of the source moved it.
MigrationFirst ==
  /\ ~old13 => Migrated
  /\ \A p \in Procs :
       At(p, "central") \/ At(p, "last") \/ At(p, "flag")
         \/ ((At(p, "set") \/ At(p, "truncated")) /\ run[p].then = "flag") => Migrated

\* A process that is past the question has an answer, or is not asked.
AgreementFirst ==
  /\ eula.current => seen.agreed
  /\ seen.installed => seen.agreed
  /\ \A p \in Procs : At(p, "eulaversion") => seen.agreed
  /\ \A p \in Procs : At(p, "essentials") => shouldSkipPrompts(run[p].kind) \/ seen.agreed

AllTCSP == \A c \in TanzuCtxs : ctx[c].issuer = "tcsp"
AllNew == \A c \in TanzuCtxs : ctx[c].endpoint = "new"

\* What is recorded of the updates is true.
Records(content) == (content.issuers => AllTCSP) /\ (content.endpoint => AllNew)

\* An update in progress: what is left to store was not changed since it was read,
\* and what is not left is updated, unless storing it failed.
Updating(p) ==
  At(p, "contexts") =>
    /\ \A c \in run[p].todo : run[p].copy[c] = ctx[c]
    /\ run[p].key = "issuers" =>
         /\ \A c \in run[p].todo : ctx[c].issuer = "vcsp"
         /\ run[p].ok => \A c \in TanzuCtxs \ run[p].todo : ctx[c].issuer = "tcsp"
    /\ run[p].key = "endpoint" /\ run[p].ok => \A c \in TanzuCtxs \ run[p].todo : ctx[c].endpoint = "new"

\* The change of the data store that follows an update.
Recording(p) ==
  /\ At(p, "set") \/ At(p, "truncated") =>
       (run[p].key = "issuers" => AllTCSP) /\ (run[p].key = "endpoint" => AllNew)
  /\ At(p, "truncated") => Records(run[p].content)

\* Commands one at a time.
OneAtATime ==
  ~seen.overlap =>
    /\ \A p, q \in Procs : Ended(p) \/ Ended(q) \/ p = q
    /\ \A p \in Procs : Updating(p) /\ Recording(p)
    /\ store # Torn => Records(store)
    /\ \A c \in seen.logins : c \in TanzuCtxs /\ ctx[c].token = "valid" /\ ctx[c].issuer = "tcsp"

IInv == StartupTypeOK /\ ShapeOK /\ StoreIsGuarded /\ MigrationFirst /\ AgreementFirst /\ OneAtATime

-----------------------------------------------------------------------------
(* Types *)

\* The program points and keys, without their enumeration.
LEMMA Points ==
  /\ "idle" \in PCs /\ "sync" \in PCs /\ "issuer" \in PCs /\ "endpoint" \in PCs /\ "contexts" \in PCs
  /\ "source" \in PCs /\ "central" \in PCs /\ "last" \in PCs /\ "flag" \in PCs /\ "eula" \in PCs
  /\ "eulaversion" \in PCs /\ "essentials" \in PCs /\ "command" \in PCs /\ "notice" \in PCs
  /\ "print" \in PCs /\ "set" \in PCs /\ "truncated" \in PCs
  /\ "other" \in Commands
BY DEF PCs, Commands

LEMMA NoContentType == NoContent \in StoreType /\ NoContent # Torn
<1>1. NoContent \in StoreType
  BY DEF NoContent, StoreType
<1> QED BY <1>1, TornAssumption

LEMMA OldType == Old \in ContextType
BY DEF Old, ContextType

LEMMA IdleType == Idle \in RunState
BY Points, NoContentType, OldType DEF Idle, RunState

\* The state of a process and its parts.
LEMMA RunType ==
  ASSUME StartupTypeOK, NEW p \in Procs
  PROVE  /\ run[p] \in RunState
         /\ run[p].pc \in PCs /\ run[p].kind \in Commands /\ run[p].todo \subseteq Ctxs
         /\ run[p].copy \in [Ctxs -> ContextType] /\ run[p].then \in PCs /\ run[p].ok \in BOOLEAN
         /\ run[p].key \in {"shas", "issuers", "endpoint", "last", "check"}
         /\ run[p].content \in StoreType
BY DEF StartupTypeOK, RunState

\* A step of a process leaves the others alone.
LEMMA BecomeStep ==
  ASSUME StartupTypeOK, NEW p \in Procs, NEW state \in RunState, Become(p, state)
  PROVE  /\ run' \in [Procs -> RunState]
         /\ run'[p] = state
         /\ \A q \in Procs \ {p} : run'[q] = run[q]
BY DEF StartupTypeOK, Become

\* The steps that change little of a process.
LEMMA GoToStep ==
  ASSUME StartupTypeOK, NEW p \in Procs, NEW pc \in PCs, GoTo(p, pc)
  PROVE  /\ run' \in [Procs -> RunState]
         /\ run'[p].pc = pc /\ run'[p].kind = run[p].kind /\ run'[p].then = run[p].then
         /\ run'[p].key = run[p].key
         /\ \A q \in Procs \ {p} : run'[q] = run[q]
<1>1. [run[p] EXCEPT !.pc = pc] \in RunState
  BY RunType DEF RunState
<1> QED BY <1>1, BecomeStep, RunType DEF GoTo, RunState

LEMMA ProceedStep ==
  ASSUME StartupTypeOK, NEW p \in Procs, NEW pc \in PCs, Proceed(p, pc)
  PROVE  /\ run' \in [Procs -> RunState]
         /\ run'[p].pc = pc /\ run'[p].kind = run[p].kind /\ run'[p].then = "idle"
         /\ \A q \in Procs \ {p} : run'[q] = run[q]
<1>. DEFINE s == [Idle EXCEPT !.kind = run[p].kind, !.pc = pc]
<1>1. s \in RunState
  BY RunType, IdleType DEF RunState
<1>2. s.pc = pc /\ s.kind = run[p].kind /\ s.then = "idle"
  BY DEF Idle
<1>3. Become(p, s)
  BY DEF Proceed
<1>. HIDE DEF s
<1> QED BY <1>1, <1>2, <1>3, BecomeStep

LEMMA SetStep ==
  ASSUME StartupTypeOK, NEW p \in Procs, NEW then \in PCs,
         NEW key \in {"shas", "issuers", "endpoint", "last", "check"},
         SetDataStoreValue(p, key, then)
  PROVE  /\ run' \in [Procs -> RunState]
         /\ run'[p].pc = "set" /\ run'[p].kind = run[p].kind /\ run'[p].then = then
         /\ run'[p].key = key
         /\ \A q \in Procs \ {p} : run'[q] = run[q]
<1>. DEFINE s == [Idle EXCEPT !.kind = run[p].kind, !.pc = "set", !.key = key, !.then = then]
<1>1. s \in RunState
  BY RunType, IdleType, Points DEF RunState
<1>2. s.pc = "set" /\ s.kind = run[p].kind /\ s.then = then /\ s.key = key
  BY DEF Idle
<1>3. Become(p, s)
  BY DEF SetDataStoreValue
<1>. HIDE DEF s
<1> QED BY <1>1, <1>2, <1>3, BecomeStep

LEMMA UpdateAllStep ==
  ASSUME StartupTypeOK, NEW p \in Procs, NEW then \in PCs, NEW which \in SUBSET Ctxs,
         NEW key \in {"shas", "issuers", "endpoint"}, UpdateAll(p, which, key, then)
  PROVE  /\ run' \in [Procs -> RunState]
         /\ run'[p].pc = "contexts" /\ run'[p].kind = run[p].kind /\ run'[p].then = then
         /\ run'[p].copy = ctx /\ run'[p].todo = which /\ run'[p].key = key
         /\ \A q \in Procs \ {p} : run'[q] = run[q]
<1>. DEFINE s == [run[p] EXCEPT !.pc = "contexts", !.copy = ctx, !.todo = which, !.ok = TRUE,
                                !.key = key, !.then = then]
<1>1. s \in RunState /\ s.pc = "contexts" /\ s.kind = run[p].kind /\ s.then = then
      /\ s.copy = ctx /\ s.todo = which /\ s.key = key
  BY RunType, Points DEF RunState, StartupTypeOK
<1>2. Become(p, s)
  BY DEF UpdateAll
<1>. HIDE DEF s
<1> QED BY <1>1, <1>2, BecomeStep

-----------------------------------------------------------------------------
(* Steps that have in common what they leave alone *)

\* The history only grows.
Grows ==
  /\ seen' \in SeenType
  /\ seen.lost => seen'.lost
  /\ seen.failed => seen'.failed
  /\ seen.agreed => seen'.agreed
  /\ seen'.overlap = seen.overlap

\* The process goes on outside the data store and the updates of contexts.
Leaves(p) ==
  /\ run' \in [Procs -> RunState]
  /\ \A q \in Procs \ {p} : run'[q] = run[q]
  /\ run'[p].then \in Thens
  /\ run'[p].pc \notin {"contexts", "set", "truncated"}

LEMMA Grows_Same ==
  ASSUME StartupTypeOK, UNCHANGED seen
  PROVE  Grows
BY DEF StartupTypeOK, Grows

LEMMA Grows_Lost ==
  ASSUME StartupTypeOK, seen' = [seen EXCEPT !.lost = TRUE, !.faults = seen.faults + 1]
  PROVE  Grows /\ seen'.logins = seen.logins /\ seen'.installed = seen.installed /\ seen'.lost
<1>. DEFINE n == seen.faults + 1
<1>1. seen \in SeenType /\ n \in Nat /\ seen' = [seen EXCEPT !.lost = TRUE, !.faults = n]
  BY DEF StartupTypeOK, SeenType
<1>. HIDE DEF n
<1>2. seen' \in SeenType
  BY <1>1 DEF SeenType
<1> QED BY <1>1, <1>2 DEF SeenType, Grows

LEMMA Grows_Failed ==
  ASSUME StartupTypeOK, seen' = [seen EXCEPT !.failed = TRUE, !.faults = seen.faults + 1]
  PROVE  Grows /\ seen'.logins = seen.logins /\ seen'.installed = seen.installed /\ seen'.failed
<1>. DEFINE n == seen.faults + 1
<1>1. seen \in SeenType /\ n \in Nat /\ seen' = [seen EXCEPT !.failed = TRUE, !.faults = n]
  BY DEF StartupTypeOK, SeenType
<1>. HIDE DEF n
<1>2. seen' \in SeenType
  BY <1>1 DEF SeenType
<1> QED BY <1>1, <1>2 DEF SeenType, Grows

LEMMA Grows_Agreed ==
  ASSUME StartupTypeOK, seen' = [seen EXCEPT !.agreed = TRUE]
  PROVE  Grows /\ seen'.logins = seen.logins /\ seen'.installed = seen.installed /\ seen'.agreed
BY DEF StartupTypeOK, SeenType, Grows

\* A step that leaves the data store and the contexts alone.
LEMMA QuietStep ==
  ASSUME IInv, NEW p \in Procs, Leaves(p), Grows, UNCHANGED <<store, dsLock, ctx>>,
         ~Ended(p), ~At(p, "truncated"), seen'.logins = seen.logins
  PROVE  ShapeOK' /\ StoreIsGuarded' /\ OneAtATime'
<1>1. ShapeOK'
  BY DEF IInv, ShapeOK, Leaves, At
<1>2. StoreIsGuarded'
  BY DEF IInv, StoreIsGuarded, Leaves, Grows, At
<1>3. OneAtATime'
  <2>1. SUFFICES ASSUME ~seen.overlap
                 PROVE  /\ \A q, r \in Procs : Ended(q)' \/ Ended(r)' \/ q = r
                        /\ \A q \in Procs : Updating(q)' /\ Recording(q)'
                        /\ store # Torn => Records(store)'
                        /\ \A c \in seen'.logins : c \in TanzuCtxs /\ ctx[c].token = "valid" /\ ctx[c].issuer = "tcsp"
    BY DEF OneAtATime, Grows
  <2>2. \A q \in Procs \ {p} : Ended(q) /\ run'[q] = run[q]
    BY <2>1 DEF IInv, OneAtATime, Leaves
  <2>3. \A q, r \in Procs : Ended(q)' \/ Ended(r)' \/ q = r
    BY <2>2 DEF Ended, At
  <2>4. \A q \in Procs : Updating(q)' /\ Recording(q)'
    BY <2>2 DEF Ended, At, Leaves, Updating, Recording
  <2>5. (store # Torn => Records(store)') /\ \A c \in seen'.logins : c \in TanzuCtxs /\ ctx[c].token = "valid" /\ ctx[c].issuer = "tcsp"
    BY <2>1 DEF IInv, OneAtATime, Records, AllTCSP, AllNew
  <2> QED BY <2>3, <2>4, <2>5
<1> QED BY <1>1, <1>2, <1>3

\* A step that does not come to what follows the move of the source.
LEMMA NotMigrating ==
  ASSUME IInv, NEW p \in Procs, \A q \in Procs \ {p} : run'[q] = run[q], Grows,
         run'[p].pc \notin {"central", "last", "flag"},
         run'[p].pc \in {"set", "truncated"} => run'[p].then # "flag",
         UNCHANGED <<source, old13>>
  PROVE  MigrationFirst'
BY DEF IInv, MigrationFirst, Migrated, Grows, At

\* A step that does not come to what follows the question for agreement.
LEMMA NotAgreeing ==
  ASSUME IInv, NEW p \in Procs, \A q \in Procs \ {p} : run'[q] = run[q], Grows,
         run'[p].pc \notin {"eulaversion", "essentials"},
         eula'.current => eula.current, seen'.installed => seen.installed
  PROVE  AgreementFirst'
BY DEF IInv, AgreementFirst, Grows, At

\* The type of what a step does not change.
LEMMA TypeStep ==
  ASSUME StartupTypeOK, run' \in [Procs -> RunState], Grows,
         store' \in StoreType \cup {Torn}, dsLock' \in Procs \cup {NoProc},
         UNCHANGED <<ctx, servers, eula, source, old13, central>>
  PROVE  StartupTypeOK'
BY DEF StartupTypeOK, Grows

\* A step to a point that is after neither the move of the source nor the question.
LEMMA QuietOn ==
  ASSUME IInv, NEW p \in Procs, ~Ended(p), ~At(p, "truncated"), Leaves(p),
         run'[p].pc \notin {"central", "last", "flag", "eulaversion", "essentials"},
         UNCHANGED <<store, dsLock, config, seen>>
  PROVE  IInv'
<1>0. Grows /\ UNCHANGED <<ctx, servers, eula, source, old13, central, seen>>
  BY Grows_Same DEF IInv, config
<1>1. StartupTypeOK'
  BY <1>0, TypeStep DEF IInv, StartupTypeOK, Leaves
<1>2. ShapeOK' /\ StoreIsGuarded' /\ OneAtATime'
  BY <1>0, QuietStep
<1>3. MigrationFirst' /\ AgreementFirst'
  BY <1>0, NotMigrating, NotAgreeing DEF Leaves
<1> QED BY <1>1, <1>2, <1>3 DEF IInv

LEMMA QuietGoTo ==
  ASSUME IInv, NEW p \in Procs, ~Ended(p), ~At(p, "truncated"),
         NEW pc \in {"idle", "issuer", "endpoint", "source", "eula", "command", "notice", "print"},
         GoTo(p, pc),
         UNCHANGED <<store, dsLock, config, seen>>
  PROVE  IInv'
<1>1. pc \in PCs /\ run[p].then \in Thens
  BY Points DEF IInv, ShapeOK
<1>2. Leaves(p) /\ run'[p].pc = pc
  BY <1>1, GoToStep DEF IInv, Leaves
<1> QED BY <1>2, QuietOn

\* The beginning of an update of contexts.
LEMMA BeginUpdate ==
  ASSUME IInv, NEW p \in Procs, ~Ended(p), ~At(p, "truncated"),
         NEW which \in SUBSET Ctxs, NEW key \in {"shas", "issuers", "endpoint"}, NEW then \in Thens,
         then # "flag", UpdateAll(p, which, key, then),
         key = "issuers" => which = {c \in Ctxs : isEligibleForTCSPIssuerUpdate(c)},
         key = "endpoint" => which = TanzuCtxs,
         UNCHANGED <<store, dsLock, config, seen>>
  PROVE  IInv'
<1>0. Grows /\ UNCHANGED <<ctx, servers, eula, source, old13, central>>
  BY Grows_Same DEF IInv, config
<1>1. /\ run' \in [Procs -> RunState]
      /\ run'[p].pc = "contexts" /\ run'[p].kind = run[p].kind /\ run'[p].then = then
      /\ run'[p].copy = ctx /\ run'[p].todo = which /\ run'[p].key = key
      /\ \A q \in Procs \ {p} : run'[q] = run[q]
  BY UpdateAllStep DEF IInv, Thens, PCs
<1>2. StartupTypeOK'
  BY <1>0, <1>1, TypeStep DEF IInv, StartupTypeOK
<1>3. ShapeOK'
  BY <1>1 DEF IInv, ShapeOK, At
<1>4. StoreIsGuarded'
  BY <1>0, <1>1 DEF IInv, StoreIsGuarded, At
<1>5. MigrationFirst' /\ AgreementFirst'
  BY <1>0, <1>1, NotMigrating, NotAgreeing
<1>6. OneAtATime'
  <2>1. SUFFICES ASSUME ~seen.overlap
                 PROVE  /\ \A q, r \in Procs : Ended(q)' \/ Ended(r)' \/ q = r
                        /\ \A q \in Procs : Updating(q)' /\ Recording(q)'
                        /\ store # Torn => Records(store)'
                        /\ \A c \in seen'.logins : c \in TanzuCtxs /\ ctx[c].token = "valid" /\ ctx[c].issuer = "tcsp"
    BY <1>0 DEF OneAtATime, Grows
  <2>2. \A q \in Procs \ {p} : Ended(q) /\ run'[q] = run[q]
    BY <2>1, <1>1 DEF IInv, OneAtATime
  <2>3. \A q, r \in Procs : Ended(q)' \/ Ended(r)' \/ q = r
    BY <2>2 DEF Ended, At
  <2>4. \A q \in Procs \ {p} : Updating(q)' /\ Recording(q)'
    BY <2>2 DEF Ended, At, Updating, Recording
  <2>5. Updating(p)' /\ Recording(p)'
    <3>1. Recording(p)'
      BY <1>1 DEF At, Recording
    <3>2. key = "issuers" =>
            /\ \A c \in which : ctx[c].issuer = "vcsp"
            /\ \A c \in TanzuCtxs \ which : ctx[c].issuer = "tcsp"
      BY DEF isEligibleForTCSPIssuerUpdate, IInv, StartupTypeOK, ContextType, Ctxs
    <3> QED BY <1>0, <1>1, <3>1, <3>2 DEF Updating
  <2>6. (store # Torn => Records(store)') /\ \A c \in seen'.logins : c \in TanzuCtxs /\ ctx[c].token = "valid" /\ ctx[c].issuer = "tcsp"
    BY <2>1, <1>0 DEF IInv, OneAtATime, Records, AllTCSP, AllNew
  <2> QED BY <2>3, <2>4, <2>5, <2>6
<1> QED BY <1>2, <1>3, <1>4, <1>5, <1>6 DEF IInv

\* The call that records something in the data store.
LEMMA BeginSet ==
  ASSUME IInv, NEW p \in Procs, ~Ended(p), ~At(p, "truncated"),
         NEW key \in {"shas", "issuers", "endpoint", "last", "check"}, NEW then \in Thens,
         SetDataStoreValue(p, key, then),
         then = "flag" => Migrated,
         ~seen.overlap => (key = "issuers" => AllTCSP) /\ (key = "endpoint" => AllNew),
         UNCHANGED <<store, dsLock, config, seen>>
  PROVE  IInv'
<1>0. Grows /\ UNCHANGED <<ctx, servers, eula, source, old13, central>>
  BY Grows_Same DEF IInv, config
<1>1. /\ run' \in [Procs -> RunState]
      /\ run'[p].pc = "set" /\ run'[p].kind = run[p].kind /\ run'[p].then = then
      /\ run'[p].key = key
      /\ \A q \in Procs \ {p} : run'[q] = run[q]
  BY SetStep DEF IInv, Thens, PCs
<1>2. StartupTypeOK'
  BY <1>0, <1>1, TypeStep DEF IInv, StartupTypeOK
<1>3. ShapeOK'
  BY <1>1 DEF IInv, ShapeOK, At
<1>4. StoreIsGuarded'
  BY <1>0, <1>1 DEF IInv, StoreIsGuarded, At
<1>5. MigrationFirst'
  BY <1>0, <1>1 DEF IInv, MigrationFirst, Migrated, At
<1>6. AgreementFirst'
  BY <1>0, <1>1, NotAgreeing
<1>7. OneAtATime'
  <2>1. SUFFICES ASSUME ~seen.overlap
                 PROVE  /\ \A q, r \in Procs : Ended(q)' \/ Ended(r)' \/ q = r
                        /\ \A q \in Procs : Updating(q)' /\ Recording(q)'
                        /\ store # Torn => Records(store)'
                        /\ \A c \in seen'.logins : c \in TanzuCtxs /\ ctx[c].token = "valid" /\ ctx[c].issuer = "tcsp"
    BY <1>0 DEF OneAtATime, Grows
  <2>2. \A q \in Procs \ {p} : Ended(q) /\ run'[q] = run[q]
    BY <2>1, <1>1 DEF IInv, OneAtATime
  <2>3. \A q, r \in Procs : Ended(q)' \/ Ended(r)' \/ q = r
    BY <2>2 DEF Ended, At
  <2>4. \A q \in Procs \ {p} : Updating(q)' /\ Recording(q)'
    BY <2>2 DEF Ended, At, Updating, Recording
  <2>5. Updating(p)' /\ Recording(p)'
    BY <2>1, <1>0, <1>1 DEF At, Updating, Recording, AllTCSP, AllNew
  <2>6. (store # Torn => Records(store)') /\ \A c \in seen'.logins : c \in TanzuCtxs /\ ctx[c].token = "valid" /\ ctx[c].issuer = "tcsp"
    BY <2>1, <1>0 DEF IInv, OneAtATime, Records, AllTCSP, AllNew
  <2> QED BY <2>3, <2>4, <2>5, <2>6
<1> QED BY <1>2, <1>3, <1>4, <1>5, <1>6, <1>7 DEF IInv

-----------------------------------------------------------------------------
(* The data store *)

LEMMA LockStoreStep ==
  ASSUME IInv, NEW p \in Procs, LockStore(p)
  PROVE  IInv'
<1>0. Grows /\ UNCHANGED <<ctx, servers, eula, source, old13, central, seen>>
  BY Grows_Same DEF IInv, config, LockStore
<1>1. At(p, "set") /\ dsLock = NoProc /\ dsLock' = p /\ run[p].then \in Thens
  BY DEF LockStore, IInv, ShapeOK
<1>2. \A q \in Procs : ~At(q, "truncated")
  BY <1>1, StartupAssumption DEF IInv, StoreIsGuarded
<1>3. CASE store = Torn
  <2>1. GoTo(p, run[p].then) /\ UNCHANGED store
    BY <1>3 DEF LockStore
  <2>2. Leaves(p) /\ run'[p].pc = run[p].then
    BY <2>1, <1>1, GoToStep DEF IInv, Thens, PCs, Leaves
  <2>3. StartupTypeOK'
    BY <1>0, <1>1, <2>1, <2>2, TypeStep DEF IInv, StartupTypeOK, Leaves
  <2>4. ShapeOK'
    BY <2>2 DEF IInv, ShapeOK, Leaves, At
  <2>5. StoreIsGuarded'
    BY <1>0, <1>2, <2>1, <2>2 DEF IInv, StoreIsGuarded, Leaves, At
  <2>6. MigrationFirst'
    BY <1>0, <1>1, <2>2 DEF IInv, MigrationFirst, Migrated, Leaves, At, Thens
  <2>7. AgreementFirst'
    BY <1>0, <1>1, <2>2, NotAgreeing DEF Leaves, Thens
  <2>8. OneAtATime'
    <3>1. SUFFICES ASSUME ~seen.overlap PROVE OneAtATime'
      BY <1>0 DEF OneAtATime
    <3>2. \A q \in Procs \ {p} : Ended(q) /\ run'[q] = run[q]
      BY <3>1, <2>2, <1>1 DEF IInv, OneAtATime, Leaves, Ended, At
    <3>3. \A q \in Procs : Updating(q)' /\ Recording(q)'
      BY <2>2, <3>2 DEF Ended, At, Leaves, Updating, Recording
    <3> QED BY <3>1, <3>2, <3>3, <1>0, <1>3, <2>1 DEF IInv, OneAtATime, Ended, At
  <2> QED BY <2>3, <2>4, <2>5, <2>6, <2>7, <2>8 DEF IInv
<1>4. CASE store # Torn
  <2>. DEFINE s == [run[p] EXCEPT !.pc = "truncated", !.content = store]
  <2>1. Become(p, s) /\ store' = NoContent
    BY <1>4 DEF LockStore
  <2>2. s \in RunState
    BY <1>4, RunType, Points DEF IInv, RunState, StartupTypeOK
  <2>3. s.pc = "truncated" /\ s.content = store /\ s.then = run[p].then /\ s.key = run[p].key
    BY RunType DEF IInv, RunState
  <2>. HIDE DEF s
  <2>4. /\ run' \in [Procs -> RunState] /\ run'[p] = s
        /\ \A q \in Procs \ {p} : run'[q] = run[q]
    BY <2>1, <2>2, BecomeStep DEF IInv
  <2>5. StartupTypeOK'
    BY <1>0, <1>1, <2>1, <2>4, NoContentType, TypeStep DEF IInv
  <2>6. ShapeOK'
    BY <1>1, <2>3, <2>4 DEF IInv, ShapeOK, At
  <2>7. StoreIsGuarded'
    BY <1>0, <1>1, <1>2, <2>1, <2>4, NoContentType DEF IInv, StoreIsGuarded, At
  <2>8. MigrationFirst'
    BY <1>0, <1>1, <2>3, <2>4 DEF IInv, MigrationFirst, Migrated, At
  <2>9. AgreementFirst'
    BY <1>0, <2>3, <2>4, NotAgreeing
  <2>10. OneAtATime'
    <3>1. SUFFICES ASSUME ~seen.overlap PROVE OneAtATime'
      BY <1>0 DEF OneAtATime
    <3>2. \A q \in Procs \ {p} : Ended(q) /\ run'[q] = run[q]
      BY <3>1, <2>4, <1>1 DEF IInv, OneAtATime, Ended, At
    <3>3. \A q \in Procs \ {p} : Updating(q)' /\ Recording(q)'
      BY <3>2 DEF Ended, At, Updating, Recording
    <3>4. Updating(p)' /\ Recording(p)'
      BY <1>0, <1>1, <1>4, <2>3, <2>4, <3>1 DEF IInv, OneAtATime, At, Updating, Recording, Records, AllTCSP, AllNew
    <3>5. Records(store)'
      BY <2>1 DEF Records, NoContent
    <3> QED BY <3>1, <3>2, <3>3, <3>4, <3>5, <1>0, <2>1 DEF IInv, OneAtATime, Ended, At
  <2> QED BY <2>5, <2>6, <2>7, <2>8, <2>9, <2>10 DEF IInv
<1> QED BY <1>3, <1>4

\* What saveAndClose writes.
LEMMA Written ==
  ASSUME StartupTypeOK, NEW p \in Procs
  PROVE  LET content == run[p].content
             key == run[p].key
             written == [content EXCEPT ![key] = Value(p)]
         IN /\ written \in StoreType
            /\ key = "shas" => Value(p) # {}
            /\ key # "shas" => Value(p) = TRUE
            /\ key \in DOMAIN NoContent
            /\ \A k \in DOMAIN NoContent : written[k] = IF k = key THEN Value(p) ELSE content[k]
<1>. DEFINE content == run[p].content
            key == run[p].key
            v == Value(p)
            written == [content EXCEPT ![key] = v]
<1>1. content \in StoreType /\ key \in {"shas", "issuers", "endpoint", "last", "check"}
  BY RunType
<1>2. (key = "shas" => v \in SUBSET SUBSET Ctxs /\ v # {}) /\ (key # "shas" => v = TRUE)
  BY DEF Value, StartupTypeOK
<1>3. DOMAIN NoContent = {"shas", "issuers", "endpoint", "last", "check"}
  BY DEF NoContent
<1>. HIDE DEF content, key, v
<1>4. written \in StoreType
  <2>1. CASE key = "shas"
    BY <1>1, <1>2, <2>1 DEF StoreType
  <2>2. CASE key = "issuers"
    BY <1>1, <1>2, <2>2 DEF StoreType
  <2>3. CASE key = "endpoint"
    BY <1>1, <1>2, <2>3 DEF StoreType
  <2>4. CASE key = "last"
    BY <1>1, <1>2, <2>4 DEF StoreType
  <2>5. CASE key = "check"
    BY <1>1, <1>2, <2>5 DEF StoreType
  <2> QED BY <1>1, <2>1, <2>2, <2>3, <2>4, <2>5
<1>5. \A k \in DOMAIN NoContent : written[k] = IF k = key THEN v ELSE content[k]
  BY <1>1, <1>3 DEF StoreType
<1> QED BY <1>1, <1>2, <1>3, <1>4, <1>5 DEF content, key, v

LEMMA saveAndCloseStep ==
  ASSUME IInv, NEW p \in Procs, saveAndClose(p)
  PROVE  IInv'
<1>. DEFINE content == run[p].content
            key == run[p].key
            written == [content EXCEPT ![key] = Value(p)]
<1>0. UNCHANGED <<ctx, servers, eula, source, old13, central>>
  BY DEF config, saveAndClose
<1>1. At(p, "truncated") /\ dsLock = p /\ dsLock' = NoProc /\ run[p].then \in Thens
  BY DEF saveAndClose, IInv, ShapeOK, StoreIsGuarded
<1>2. \/ store' = written /\ UNCHANGED seen
      \/ store' = Torn /\ seen' = [seen EXCEPT !.lost = TRUE, !.faults = seen.faults + 1]
  BY DEF saveAndClose
<1>3. /\ written \in StoreType /\ written # Torn
      /\ written.issuers = IF key = "issuers" THEN TRUE ELSE content.issuers
      /\ written.endpoint = IF key = "endpoint" THEN TRUE ELSE content.endpoint
  BY Written, TornAssumption DEF IInv, NoContent
<1>. HIDE DEF written
<1>4. Grows /\ seen'.logins = seen.logins /\ seen'.installed = seen.installed
  BY <1>2, Grows_Same, Grows_Lost DEF IInv
<1>5. Leaves(p) /\ run'[p].pc = run[p].then
  BY <1>1, ProceedStep DEF IInv, saveAndClose, Thens, PCs, Leaves
<1>6. \A q \in Procs \ {p} : ~At(q, "truncated") /\ run'[q] = run[q]
  BY <1>1, <1>5 DEF IInv, StoreIsGuarded, Leaves
<1>7. StartupTypeOK'
  BY <1>0, <1>1, <1>2, <1>3, <1>4, <1>5, TypeStep DEF IInv, Leaves
<1>8. ShapeOK'
  BY <1>5 DEF IInv, ShapeOK, Leaves, At
<1>9. StoreIsGuarded'
  BY <1>2, <1>3, <1>5, <1>6 DEF IInv, StoreIsGuarded, StartupTypeOK, SeenType, Leaves, At
<1>10. MigrationFirst'
  BY <1>0, <1>1, <1>4, <1>5 DEF IInv, MigrationFirst, Migrated, Grows, Leaves, At, Thens
<1>11. AgreementFirst'
  BY <1>0, <1>1, <1>4, <1>5, NotAgreeing DEF Leaves, Thens
<1>12. OneAtATime'
  <2>1. SUFFICES ASSUME ~seen.overlap PROVE OneAtATime'
    BY <1>4 DEF OneAtATime, Grows
  <2>2. \A q \in Procs \ {p} : Ended(q) /\ run'[q] = run[q]
    BY <2>1, <1>1, <1>6 DEF IInv, OneAtATime, Ended, At
  <2>3. \A q, r \in Procs : Ended(q)' \/ Ended(r)' \/ q = r
    BY <2>2 DEF Ended, At
  <2>4. \A q \in Procs : Updating(q)' /\ Recording(q)'
    BY <1>5, <2>2 DEF Ended, At, Leaves, Updating, Recording
  <2>5. store' # Torn => Records(store)'
    BY <1>0, <1>1, <1>2, <1>3, <2>1 DEF IInv, OneAtATime, Recording, Records, AllTCSP, AllNew
  <2>6. \A c \in seen'.logins : c \in TanzuCtxs /\ ctx'[c].token = "valid" /\ ctx'[c].issuer = "tcsp"
    BY <1>0, <1>4, <2>1 DEF IInv, OneAtATime
  <2> QED BY <2>3, <2>4, <2>5, <2>6 DEF OneAtATime
<1> QED BY <1>7, <1>8, <1>9, <1>10, <1>11, <1>12 DEF IInv

-----------------------------------------------------------------------------
(* Updates of all contexts *)

\* Storing an update of a context that was not changed since it was read never
\* takes back the new issuer or endpoint, nor a login.
LEMMA UpdatedKeeps ==
  ASSUME NEW c \in ContextType, NEW key \in {"shas", "issuers", "endpoint"}
  PROVE  /\ Updated(key, c) \in ContextType
         /\ c.issuer = "tcsp" => Updated(key, c).issuer = "tcsp"
         /\ c.endpoint = "new" => Updated(key, c).endpoint = "new"
         /\ key = "issuers" => Updated(key, c).issuer = "tcsp"
         /\ key = "endpoint" => Updated(key, c).endpoint = "new"
         /\ key # "issuers" => Updated(key, c).token = c.token
<1>1. CASE key = "shas"
  BY <1>1 DEF Updated, ContextType
<1>2. CASE key = "issuers"
  BY <1>2 DEF Updated, ContextType
<1>3. CASE key = "endpoint"
  BY <1>3 DEF Updated, ContextType
<1> QED BY <1>1, <1>2, <1>3

LEMMA StoreContextStep ==
  ASSUME IInv, NEW p \in Procs, StoreContext(p)
  PROVE  IInv'
<1>0. At(p, "contexts") /\ UNCHANGED <<store, dsLock, eula, source, old13, central>>
  BY DEF StoreContext
<1>1. run[p].then \in Thens /\ run[p].then # "flag" /\ run[p].key \in {"shas", "issuers", "endpoint"}
  BY <1>0 DEF IInv, ShapeOK
<1>2. PICK c \in run[p].todo, s \in RunState :
        /\ Become(p, s)
        /\ s.pc = "contexts" /\ s.key = run[p].key /\ s.then = run[p].then /\ s.copy = run[p].copy
        /\ \/ /\ s.todo = run[p].todo \ {c}
              /\ ctx' = [ctx EXCEPT ![c] = Updated(run[p].key, run[p].copy[c])]
              /\ servers' = IF c \in K8sCtxs THEN servers \cup {c} ELSE servers
              /\ s.ok = run[p].ok
              /\ UNCHANGED seen
           \/ /\ s.todo \subseteq run[p].todo
              /\ UNCHANGED <<ctx, servers>>
              /\ s.ok = FALSE
              /\ seen' = [seen EXCEPT !.failed = TRUE, !.faults = seen.faults + 1]
  <2>1. PICK c \in run[p].todo :
          \/ /\ ctx' = [ctx EXCEPT ![c] = Updated(run[p].key, run[p].copy[c])]
             /\ servers' = IF c \in K8sCtxs THEN servers \cup {c} ELSE servers
             /\ Become(p, [run[p] EXCEPT !.todo = run[p].todo \ {c}])
             /\ UNCHANGED seen
          \/ /\ Become(p, [run[p] EXCEPT !.ok = FALSE,
                              !.todo = IF run[p].key = "shas" THEN {} ELSE run[p].todo \ {c}])
             /\ seen' = [seen EXCEPT !.failed = TRUE, !.faults = seen.faults + 1]
             /\ UNCHANGED <<ctx, servers>>
    BY DEF StoreContext
  <2>. DEFINE t == IF run[p].key = "shas" THEN {} ELSE run[p].todo \ {c}
              s1 == [run[p] EXCEPT !.todo = run[p].todo \ {c}]
              s2 == [run[p] EXCEPT !.ok = FALSE, !.todo = t]
  <2>2. s1 \in RunState /\ s1.pc = "contexts" /\ s1.key = run[p].key /\ s1.then = run[p].then
        /\ s1.copy = run[p].copy /\ s1.ok = run[p].ok /\ s1.todo = run[p].todo \ {c}
    BY <1>0, RunType DEF IInv, RunState, At
  <2>3. t \subseteq run[p].todo /\ t \subseteq Ctxs
    BY RunType DEF IInv
  <2>. HIDE DEF t
  <2>4. s2 \in RunState /\ s2.pc = "contexts" /\ s2.key = run[p].key /\ s2.then = run[p].then
        /\ s2.copy = run[p].copy /\ s2.ok = FALSE /\ s2.todo \subseteq run[p].todo
    BY <1>0, <2>3, RunType DEF IInv, RunState, At
  <2>5. CASE Become(p, s1) /\ ctx' = [ctx EXCEPT ![c] = Updated(run[p].key, run[p].copy[c])]
             /\ servers' = (IF c \in K8sCtxs THEN servers \cup {c} ELSE servers) /\ UNCHANGED seen
    <3>. HIDE DEF s1
    <3> QED BY <2>2, <2>5
  <2>6. CASE Become(p, s2) /\ UNCHANGED <<ctx, servers>>
             /\ seen' = [seen EXCEPT !.failed = TRUE, !.faults = seen.faults + 1]
    <3>. HIDE DEF s2
    <3> QED BY <2>4, <2>6
  <2> QED BY <2>1, <2>5, <2>6 DEF t
<1>3. c \in Ctxs /\ run[p].copy[c] \in ContextType /\ ctx[c] \in ContextType
  BY <1>2, RunType DEF IInv, StartupTypeOK
<1>4. Grows /\ seen'.logins = seen.logins /\ seen'.installed = seen.installed
  BY <1>2, Grows_Same, Grows_Failed DEF IInv
<1>5. /\ run' \in [Procs -> RunState] /\ run'[p] = s
      /\ \A q \in Procs \ {p} : run'[q] = run[q]
  BY <1>2, BecomeStep DEF IInv
<1>6. StartupTypeOK'
  <2>1. ctx' \in [Ctxs -> ContextType] /\ servers' \subseteq Ctxs
    BY <1>1, <1>2, <1>3, UpdatedKeeps DEF IInv, StartupTypeOK
  <2> QED BY <1>0, <1>4, <1>5, <2>1 DEF IInv, StartupTypeOK, Grows
<1>7. ShapeOK'
  BY <1>1, <1>2, <1>5 DEF IInv, ShapeOK, At
<1>8. StoreIsGuarded'
  BY <1>0, <1>2, <1>4, <1>5 DEF IInv, StoreIsGuarded, Grows, At
<1>9. MigrationFirst' /\ AgreementFirst'
  BY <1>0, <1>2, <1>4, <1>5, NotMigrating, NotAgreeing
<1>10. OneAtATime'
  <2>1. SUFFICES ASSUME ~seen.overlap PROVE OneAtATime'
    BY <1>4 DEF OneAtATime, Grows
  <2>2. \A q \in Procs \ {p} : Ended(q) /\ run'[q] = run[q]
    BY <2>1, <1>0, <1>5 DEF IInv, OneAtATime, Ended, At
  <2>3. \A q, r \in Procs : Ended(q)' \/ Ended(r)' \/ q = r
    BY <2>2 DEF Ended, At
  <2>4. /\ \A d \in Ctxs \ {c} : ctx'[d] = ctx[d]
        /\ \/ s.ok = FALSE /\ ctx' = ctx /\ s.todo \subseteq run[p].todo
           \/ s.ok = run[p].ok /\ ctx'[c] = Updated(run[p].key, ctx[c]) /\ s.todo = run[p].todo \ {c}
    BY <1>0, <1>2, <1>3, <2>1 DEF IInv, OneAtATime, Updating, StartupTypeOK
  <2>5. \A d \in Ctxs :
          /\ ctx[d].issuer = "tcsp" => ctx'[d].issuer = "tcsp"
          /\ ctx[d].endpoint = "new" => ctx'[d].endpoint = "new"
    BY <1>1, <1>3, <2>4, UpdatedKeeps
  <2>6. \A q \in Procs \ {p} : Updating(q)' /\ Recording(q)'
    BY <2>2 DEF Ended, At, Updating, Recording
  <2>7. Updating(p)' /\ Recording(p)'
    <3>1. Updating(p)
      BY <2>1 DEF IInv, OneAtATime
    <3>2. run[p].todo \subseteq Ctxs /\ TanzuCtxs \subseteq Ctxs
      BY RunType DEF IInv, Ctxs
    <3>3. \A d \in s.todo : s.copy[d] = ctx'[d]
      BY <1>0, <1>2, <2>4, <3>1, <3>2 DEF Updating
    <3>4. ASSUME s.key = "issuers"
          PROVE  /\ \A d \in s.todo : ctx'[d].issuer = "vcsp"
                 /\ s.ok => \A d \in TanzuCtxs \ s.todo : ctx'[d].issuer = "tcsp"
      BY <1>0, <1>2, <1>3, <2>4, <2>5, <3>1, <3>2, <3>4, UpdatedKeeps DEF Updating
    <3>5. ASSUME s.key = "endpoint", s.ok
          PROVE  \A d \in TanzuCtxs \ s.todo : ctx'[d].endpoint = "new"
      <4>1. s.ok = run[p].ok /\ ctx'[c] = Updated(run[p].key, ctx[c]) /\ s.todo = run[p].todo \ {c}
        BY <2>4, <3>5
      <4>2. ctx'[c].endpoint = "new"
        <5>1. run[p].key = "endpoint"
          BY <1>2, <3>5
        <5> QED BY <1>3, <4>1, <5>1, UpdatedKeeps
      <4>3. \A d \in TanzuCtxs \ run[p].todo : ctx[d].endpoint = "new"
        BY <1>0, <1>2, <3>1, <3>5, <4>1 DEF Updating
      <4> QED BY <2>5, <3>2, <4>1, <4>2, <4>3
    <3>6. Recording(p)'
      BY <1>2, <1>5 DEF Recording, At
    <3> QED BY <1>5, <3>3, <3>4, <3>5, <3>6 DEF Updating
  <2>8. store' # Torn => Records(store)'
    <3>1. (AllTCSP => AllTCSP') /\ (AllNew => AllNew')
      BY <2>5 DEF AllTCSP, AllNew, Ctxs
    <3> QED BY <1>0, <2>1, <3>1 DEF IInv, OneAtATime, Records
  <2>9. \A d \in seen'.logins : d \in TanzuCtxs /\ ctx'[d].token = "valid" /\ ctx'[d].issuer = "tcsp"
    <3>. SUFFICES ASSUME NEW d \in seen.logins
                  PROVE  d \in TanzuCtxs /\ ctx'[d].token = "valid" /\ ctx'[d].issuer = "tcsp"
      BY <1>4
    <3>1. d \in TanzuCtxs /\ d \in Ctxs /\ ctx[d].token = "valid" /\ ctx[d].issuer = "tcsp"
      BY <2>1 DEF IInv, OneAtATime, Ctxs
    <3>2. run[p].key = "issuers" => d # c
      BY <1>0, <1>2, <2>1, <3>1 DEF IInv, OneAtATime, Updating
    <3> QED BY <1>1, <1>3, <2>4, <2>5, <3>1, <3>2, UpdatedKeeps
  <2> QED BY <2>3, <2>6, <2>7, <2>8, <2>9 DEF OneAtATime
<1> QED BY <1>6, <1>7, <1>8, <1>9, <1>10 DEF IInv

LEMMA SyncStep ==
  ASSUME IInv, NEW p \in Procs, SyncContextsAndServers(p)
  PROVE  IInv'
<1>0. ~Ended(p) /\ ~At(p, "truncated") /\ UNCHANGED <<store, dsLock, config, seen>>
  BY DEF SyncContextsAndServers, Ended, At
<1>1. CASE GoTo(p, "issuer")
  BY <1>0, <1>1, QuietGoTo DEF Thens
<1>2. CASE UpdateAll(p, Ctxs, "shas", "issuer")
  BY <1>0, <1>2, BeginUpdate DEF Thens
<1> QED BY <1>1, <1>2 DEF SyncContextsAndServers

LEMMA updateConfigWithTanzuCSPIssuerStep ==
  ASSUME IInv, NEW p \in Procs, updateConfigWithTanzuCSPIssuer(p)
  PROVE  IInv'
<1>. DEFINE which == {c \in Ctxs : isEligibleForTCSPIssuerUpdate(c)}
<1>0. ~Ended(p) /\ ~At(p, "truncated") /\ UNCHANGED <<store, dsLock, config, seen>>
  BY DEF updateConfigWithTanzuCSPIssuer, Ended, At
<1>1. CASE GoTo(p, "endpoint")
  BY <1>0, <1>1, QuietGoTo DEF Thens
<1>2. CASE UpdateAll(p, which, "issuers", "endpoint")
  <2>1. which \in SUBSET Ctxs
    OBVIOUS
  <2> QED BY <1>0, <1>2, <2>1, BeginUpdate DEF Thens
<1> QED BY <1>1, <1>2 DEF updateConfigWithTanzuCSPIssuer

LEMMA updateConfigWithTanzuPlatformEndpointChangesStep ==
  ASSUME IInv, NEW p \in Procs, updateConfigWithTanzuPlatformEndpointChanges(p)
  PROVE  IInv'
<1>0. ~Ended(p) /\ ~At(p, "truncated") /\ UNCHANGED <<store, dsLock, config, seen>>
  BY DEF updateConfigWithTanzuPlatformEndpointChanges, Ended, At
<1>1. CASE GoTo(p, "source")
  BY <1>0, <1>1, QuietGoTo DEF Thens
<1>2. CASE UpdateAll(p, TanzuCtxs, "endpoint", "source")
  BY <1>0, <1>2, BeginUpdate DEF Thens, Ctxs
<1> QED BY <1>1, <1>2 DEF updateConfigWithTanzuPlatformEndpointChanges

LEMMA UpdateDoneStep ==
  ASSUME IInv, NEW p \in Procs, UpdateDone(p)
  PROVE  IInv'
<1>0. At(p, "contexts") /\ run[p].todo = {} /\ UNCHANGED <<store, dsLock, config, seen>>
  BY DEF UpdateDone
<1>1. ~Ended(p) /\ ~At(p, "truncated") /\ run[p].then \in Thens /\ run[p].then # "flag"
      /\ run[p].key \in {"shas", "issuers", "endpoint"}
  BY <1>0 DEF IInv, ShapeOK, Ended, At
<1>2. CASE run[p].ok
  <2>1. SetDataStoreValue(p, run[p].key, run[p].then)
    BY <1>2 DEF UpdateDone
  <2>2. ~seen.overlap => (run[p].key = "issuers" => AllTCSP) /\ (run[p].key = "endpoint" => AllNew)
    BY <1>0, <1>2 DEF IInv, OneAtATime, Updating, AllTCSP, AllNew
  <2> QED BY <1>0, <1>1, <2>1, <2>2, BeginSet
<1>3. CASE ~run[p].ok
  <2>1. Proceed(p, run[p].then)
    BY <1>3 DEF UpdateDone
  <2>2. Leaves(p) /\ run'[p].pc = run[p].then
    BY <1>1, <2>1, ProceedStep DEF IInv, Thens, PCs, Leaves
  <2> QED BY <1>0, <1>1, <2>2, QuietOn DEF Thens
<1> QED BY <1>2, <1>3

-----------------------------------------------------------------------------
(* Before the command *)

\* A step of a process from one of the points before or in the command.
LEMMA PhaseGoTo ==
  ASSUME IInv, NEW p \in Procs, ~Ended(p), ~At(p, "truncated"),
         NEW pc \in PCs \ {"contexts", "set", "truncated"}, GoTo(p, pc), Grows,
         seen'.logins = seen.logins,
         UNCHANGED <<store, dsLock, ctx, servers>>,
         eula' \in [status : {"unset", "shown", "accepted"}, current : BOOLEAN],
         source' \in {"old", "new"}, old13' \in BOOLEAN, central' \in BOOLEAN
  PROVE  /\ StartupTypeOK' /\ ShapeOK' /\ StoreIsGuarded' /\ OneAtATime'
         /\ run'[p].pc = pc /\ run'[p].kind = run[p].kind
         /\ \A q \in Procs \ {p} : run'[q] = run[q]
<1>1. /\ Leaves(p) /\ run'[p].pc = pc /\ run'[p].kind = run[p].kind
      /\ \A q \in Procs \ {p} : run'[q] = run[q]
  BY GoToStep DEF IInv, Leaves, ShapeOK
<1>2. StartupTypeOK'
  BY <1>1 DEF IInv, StartupTypeOK, Leaves, Grows
<1>3. ShapeOK' /\ StoreIsGuarded' /\ OneAtATime'
  BY <1>1, QuietStep
<1> QED BY <1>1, <1>2, <1>3

LEMMA AfterInitPoint ==
  ASSUME NEW kind
  PROVE  /\ AfterInit(kind) \in PCs \ {"contexts", "set", "truncated"}
         /\ AfterInit(kind) \in {"essentials", "eula"}
         /\ AfterInit(kind) = "essentials" => shouldSkipPrompts(kind)
BY Points DEF AfterInit

LEMMA ConfigType ==
  ASSUME StartupTypeOK
  PROVE  /\ eula \in [status : {"unset", "shown", "accepted"}, current : BOOLEAN]
         /\ source \in {"old", "new"} /\ old13 \in BOOLEAN /\ central \in BOOLEAN
BY DEF StartupTypeOK

LEMMA updatePluginDiscoverySourceStep ==
  ASSUME IInv, NEW p \in Procs, updatePluginDiscoverySource(p)
  PROVE  IInv'
<1>. DEFINE skip == shouldSkipGlobalInit(run[p].kind)
            pc == IF skip THEN AfterInit(run[p].kind) ELSE "central"
<1>0. /\ At(p, "source") /\ ~Ended(p) /\ ~At(p, "truncated") /\ GoTo(p, pc)
      /\ UNCHANGED <<store, dsLock, ctx, servers, eula, old13, central>>
  BY DEF updatePluginDiscoverySource, Ended, At
<1>1. \/ source' = (IF old13 /\ ~skip THEN "new" ELSE source) /\ UNCHANGED seen
      \/ UNCHANGED source /\ seen' = [seen EXCEPT !.failed = TRUE, !.faults = seen.faults + 1]
  BY DEF updatePluginDiscoverySource
<1>2. /\ pc \in PCs \ {"contexts", "set", "truncated"}
      /\ pc \in {"essentials", "eula", "central"}
      /\ pc = "essentials" => shouldSkipPrompts(run[p].kind)
      /\ pc = "central" => ~skip
  BY AfterInitPoint, Points
<1>. HIDE DEF pc, skip
<1>3. Grows /\ seen'.logins = seen.logins /\ seen'.installed = seen.installed /\ source' \in {"old", "new"}
  BY <1>1, Grows_Same, Grows_Failed, ConfigType DEF IInv
<1>4. /\ StartupTypeOK' /\ ShapeOK' /\ StoreIsGuarded' /\ OneAtATime'
      /\ run'[p].pc = pc /\ run'[p].kind = run[p].kind
      /\ \A q \in Procs \ {p} : run'[q] = run[q]
  BY <1>0, <1>2, <1>3, PhaseGoTo, ConfigType DEF IInv
<1>5. MigrationFirst'
  <2>1. Migrated => Migrated'
    BY <1>1, <1>3 DEF Migrated, Grows
  <2>2. ~skip => Migrated'
    BY <1>1, Grows_Failed DEF IInv, Migrated, MigrationFirst
  <2> QED BY <1>0, <1>2, <1>4, <2>1, <2>2 DEF IInv, MigrationFirst, At
<1>6. AgreementFirst'
  BY <1>0, <1>2, <1>3, <1>4 DEF IInv, AgreementFirst, Grows, At
<1> QED BY <1>4, <1>5, <1>6 DEF IInv

LEMMA PerformInitializationsStep ==
  ASSUME IInv, NEW p \in Procs, PerformInitializations(p)
  PROVE  IInv'
<1>0. /\ At(p, "central") /\ ~Ended(p) /\ ~At(p, "truncated") /\ GoTo(p, "last")
      /\ central' \in BOOLEAN
      /\ UNCHANGED <<store, dsLock, ctx, servers, eula, source, old13, seen>>
  BY ConfigType DEF PerformInitializations, Ended, At, IInv
<1>1. Grows
  BY <1>0, Grows_Same DEF IInv
<1>2. /\ StartupTypeOK' /\ ShapeOK' /\ StoreIsGuarded' /\ OneAtATime'
      /\ run'[p].pc = "last" /\ run'[p].kind = run[p].kind
      /\ \A q \in Procs \ {p} : run'[q] = run[q]
  BY <1>0, <1>1, PhaseGoTo, ConfigType, Points DEF IInv
<1>3. MigrationFirst'
  BY <1>0, <1>2 DEF IInv, MigrationFirst, Migrated, At
<1>4. AgreementFirst'
  BY <1>0, <1>1, <1>2, NotAgreeing
<1> QED BY <1>2, <1>3, <1>4 DEF IInv

LEMMA SetLastExecutedCLIVersionStep ==
  ASSUME IInv, NEW p \in Procs, SetLastExecutedCLIVersion(p)
  PROVE  IInv'
<1>0. /\ At(p, "last") /\ ~Ended(p) /\ ~At(p, "truncated") /\ Migrated
      /\ UNCHANGED <<store, dsLock, config, seen>>
  BY DEF SetLastExecutedCLIVersion, Ended, At, IInv, MigrationFirst
<1>1. CASE SetDataStoreValue(p, "last", "flag")
  BY <1>0, <1>1, BeginSet DEF Thens
<1>2. CASE GoTo(p, "flag")
  <2>1. Grows /\ UNCHANGED <<ctx, servers, eula, source, old13, central, seen>>
    BY <1>0, Grows_Same DEF IInv, config
  <2>2. /\ StartupTypeOK' /\ ShapeOK' /\ StoreIsGuarded' /\ OneAtATime'
        /\ run'[p].pc = "flag" /\ run'[p].kind = run[p].kind
        /\ \A q \in Procs \ {p} : run'[q] = run[q]
    BY <1>0, <1>2, <2>1, PhaseGoTo, ConfigType, Points DEF IInv
  <2>3. MigrationFirst'
    BY <1>0, <2>1, <2>2 DEF IInv, MigrationFirst, Migrated, At
  <2>4. AgreementFirst'
    BY <2>1, <2>2, NotAgreeing
  <2> QED BY <2>2, <2>3, <2>4 DEF IInv
<1> QED BY <1>1, <1>2 DEF SetLastExecutedCLIVersion

LEMMA DeleteFeatureStep ==
  ASSUME IInv, NEW p \in Procs, DeleteFeature(p)
  PROVE  IInv'
<1>. DEFINE pc == AfterInit(run[p].kind)
<1>0. /\ At(p, "flag") /\ ~Ended(p) /\ ~At(p, "truncated") /\ GoTo(p, pc) /\ old13' = FALSE
      /\ UNCHANGED <<store, dsLock, ctx, servers, eula, source, central, seen>>
  BY DEF DeleteFeature, Ended, At
<1>1. Grows
  BY <1>0, Grows_Same DEF IInv
<1>2. /\ pc \in PCs \ {"contexts", "set", "truncated"} /\ pc \in {"essentials", "eula"}
      /\ pc = "essentials" => shouldSkipPrompts(run[p].kind)
  BY AfterInitPoint
<1>. HIDE DEF pc
<1>3. /\ StartupTypeOK' /\ ShapeOK' /\ StoreIsGuarded' /\ OneAtATime'
      /\ run'[p].pc = pc /\ run'[p].kind = run[p].kind
      /\ \A q \in Procs \ {p} : run'[q] = run[q]
  BY <1>0, <1>1, <1>2, PhaseGoTo, ConfigType DEF IInv
<1>4. MigrationFirst'
  BY <1>0, <1>2, <1>3 DEF IInv, MigrationFirst, Migrated, At
<1>5. AgreementFirst'
  BY <1>0, <1>2, <1>3 DEF IInv, AgreementFirst, At
<1> QED BY <1>3, <1>4, <1>5 DEF IInv

\* The steps of the agreement neither know of the move nor of the data store.
LEMMA EULAStep ==
  ASSUME IInv, NEW p \in Procs, ~Ended(p), ~At(p, "truncated"),
         NEW pc \in {"idle", "eulaversion", "essentials", "notice", "command"}, GoTo(p, pc), Grows,
         seen'.logins = seen.logins,
         UNCHANGED <<store, dsLock, ctx, servers, source, old13, central>>,
         eula' \in [status : {"unset", "shown", "accepted"}, current : BOOLEAN],
         eula'.current => seen'.agreed,
         seen'.installed => seen'.agreed,
         pc = "eulaversion" => seen'.agreed,
         pc = "essentials" => seen'.agreed
  PROVE  IInv'
<1>1. pc \in PCs \ {"contexts", "set", "truncated"}
  BY Points
<1>2. /\ StartupTypeOK' /\ ShapeOK' /\ StoreIsGuarded' /\ OneAtATime'
      /\ run'[p].pc = pc /\ run'[p].kind = run[p].kind
      /\ \A q \in Procs \ {p} : run'[q] = run[q]
  BY <1>1, PhaseGoTo, ConfigType DEF IInv
<1>3. MigrationFirst'
  BY <1>2, NotMigrating
<1>4. AgreementFirst'
  BY <1>2 DEF IInv, AgreementFirst, Grows, At
<1> QED BY <1>2, <1>3, <1>4 DEF IInv

LEMMA ConfigureEULAStep ==
  ASSUME IInv, NEW p \in Procs, ConfigureEULA(p)
  PROVE  IInv'
<1>. DEFINE shows == At(p, "command") /\ run[p].kind = "config eula show"
            asks  == shows \/ ~(eula.status = "accepted" /\ IsCompatibleEULAAccepted)
            back == IF shows THEN "notice" ELSE "idle"
<1>0. /\ ~Ended(p) /\ ~At(p, "truncated")
      /\ UNCHANGED <<store, dsLock, ctx, servers, source, old13, central>>
  BY DEF ConfigureEULA, Ended, At
<1>1. /\ eula.current => seen.agreed
      /\ seen.installed => seen.agreed
      /\ eula \in [status : {"unset", "shown", "accepted"}, current : BOOLEAN]
  BY ConfigType DEF IInv, AgreementFirst
<1>2. CASE /\ eula' = [eula EXCEPT !.status = "accepted"]
           /\ seen' = [seen EXCEPT !.agreed = TRUE]
           /\ GoTo(p, "eulaversion")
  <2>1. Grows /\ seen'.logins = seen.logins /\ seen'.agreed
    BY <1>2, Grows_Agreed DEF IInv
  <2>2. eula' \in [status : {"unset", "shown", "accepted"}, current : BOOLEAN]
    BY <1>1, <1>2
  <2> QED BY <1>0, <1>2, <2>1, <2>2, EULAStep
<1>3. CASE /\ eula' = [eula EXCEPT !.status = "shown"]
           /\ GoTo(p, back)
           /\ UNCHANGED seen
  <2>1. Grows /\ back \in {"notice", "idle"}
    BY <1>3, Grows_Same DEF IInv
  <2>2. eula' \in [status : {"unset", "shown", "accepted"}, current : BOOLEAN] /\ eula'.current = eula.current
    BY <1>1, <1>3
  <2>. HIDE DEF back
  <2> QED BY <1>0, <1>1, <1>3, <2>1, <2>2, EULAStep
<1>4. CASE ~asks /\ GoTo(p, "essentials") /\ UNCHANGED <<eula, seen>>
  <2>1. Grows /\ seen.agreed
    BY <1>1, <1>4, Grows_Same DEF IInv, IsCompatibleEULAAccepted
  <2> QED BY <1>0, <1>1, <1>4, <2>1, EULAStep
<1> QED BY <1>2, <1>3, <1>4 DEF ConfigureEULA

LEMMA UpdateEULAAcceptanceStep ==
  ASSUME IInv, NEW p \in Procs, UpdateEULAAcceptance(p)
  PROVE  IInv'
<1>. DEFINE pc == IF run[p].kind \in {"config eula show", "config eula accept"} THEN "notice" ELSE "essentials"
<1>0. /\ ~Ended(p) /\ ~At(p, "truncated") /\ seen.agreed /\ GoTo(p, pc) /\ pc \in {"notice", "essentials"}
      /\ UNCHANGED <<store, dsLock, ctx, servers, source, old13, central, seen>>
  BY DEF UpdateEULAAcceptance, Ended, At, IInv, AgreementFirst
<1>1. eula' \in [status : {"unset", "shown", "accepted"}, current : BOOLEAN]
  BY ConfigType DEF IInv, UpdateEULAAcceptance
<1>2. Grows
  BY <1>0, Grows_Same DEF IInv
<1>. HIDE DEF pc
<1> QED BY <1>0, <1>1, <1>2, EULAStep

LEMMA AcceptEULAStep ==
  ASSUME IInv, NEW p \in Procs, AcceptEULA(p)
  PROVE  IInv'
<1>0. /\ ~Ended(p) /\ ~At(p, "truncated") /\ GoTo(p, "eulaversion")
      /\ seen' = [seen EXCEPT !.agreed = TRUE]
      /\ UNCHANGED <<store, dsLock, ctx, servers, source, old13, central>>
  BY DEF AcceptEULA, Ended, At
<1>1. Grows /\ seen'.logins = seen.logins /\ seen'.agreed
  BY <1>0, Grows_Agreed DEF IInv
<1>2. eula' \in [status : {"unset", "shown", "accepted"}, current : BOOLEAN]
  BY ConfigType DEF IInv, AcceptEULA
<1> QED BY <1>0, <1>1, <1>2, EULAStep

\* A command that installs essential plugins is a command that asks.
LEMMA installEssentialPluginsStep ==
  ASSUME IInv, NEW p \in Procs, installEssentialPlugins(p)
  PROVE  IInv'
<1>. DEFINE b == seen.installed \/ ~ shouldSkipEssentialPlugins(run[p].kind)
<1>0. /\ At(p, "essentials") /\ ~Ended(p) /\ ~At(p, "truncated") /\ GoTo(p, "command")
      /\ UNCHANGED <<store, dsLock, ctx, servers, eula, source, old13, central>>
      /\ seen' = [seen EXCEPT !.installed = b]
  BY DEF installEssentialPlugins, Ended, At, config
<1>1. b \in BOOLEAN /\ (b => seen.agreed)
  BY <1>0 DEF IInv, AgreementFirst, shouldSkipEssentialPlugins
<1>. HIDE DEF b
<1>2. Grows /\ seen'.logins = seen.logins /\ seen'.installed = b /\ seen'.agreed = seen.agreed
  BY <1>0, <1>1 DEF IInv, StartupTypeOK, SeenType, Grows
<1>3. eula.current => seen.agreed
  BY DEF IInv, AgreementFirst
<1> QED BY <1>0, <1>1, <1>2, <1>3, EULAStep, ConfigType DEF IInv

-----------------------------------------------------------------------------
(* The command, and the beginning and the end of a process *)

LEMMA LoginStep ==
  ASSUME IInv, NEW p \in Procs, At(p, "command"), NEW c \in TanzuCtxs,
         ctx' = [ctx EXCEPT ![c].token = "valid", ![c].issuer = "tcsp"],
         seen' = [seen EXCEPT !.logins = seen.logins \cup {c}],
         GoTo(p, "notice"),
         UNCHANGED <<store, dsLock, servers, eula, source, old13, central>>
  PROVE  IInv'
<1>0. ~Ended(p) /\ ~At(p, "truncated") /\ c \in Ctxs
  BY DEF Ended, At, Ctxs
<1>2. /\ ctx' \in [Ctxs -> ContextType]
      /\ \A d \in Ctxs \ {c} : ctx'[d] = ctx[d]
      /\ ctx'[c].token = "valid" /\ ctx'[c].issuer = "tcsp" /\ ctx'[c].endpoint = ctx[c].endpoint
  <2>1. ctx \in [Ctxs -> ContextType]
    BY DEF IInv, StartupTypeOK
  <2>. DEFINE new == [ctx[c] EXCEPT !.token = "valid", !.issuer = "tcsp"]
  <2>2. ctx[c] \in ContextType
    BY <1>0, <2>1
  <2>3. new \in ContextType /\ new.token = "valid" /\ new.issuer = "tcsp" /\ new.endpoint = ctx[c].endpoint
    BY <2>2 DEF ContextType
  <2>4. ctx' = [ctx EXCEPT ![c] = new]
    BY <1>0, <2>1, <2>2 DEF ContextType
  <2>. HIDE DEF new
  <2> QED BY <1>0, <2>1, <2>3, <2>4
<1>3. Grows /\ seen'.installed = seen.installed /\ seen'.logins = seen.logins \cup {c}
  BY <1>0 DEF IInv, StartupTypeOK, SeenType, Grows
<1>4. /\ Leaves(p) /\ run' \in [Procs -> RunState] /\ run'[p].pc = "notice"
      /\ \A q \in Procs \ {p} : run'[q] = run[q]
  BY GoToStep, Points DEF IInv, Leaves, ShapeOK
<1>5. StartupTypeOK'
  BY <1>2, <1>3, <1>4 DEF IInv, StartupTypeOK, Grows
<1>6. ShapeOK' /\ StoreIsGuarded'
  BY <1>0, <1>3, <1>4 DEF IInv, ShapeOK, StoreIsGuarded, Leaves, Grows, At
<1>7. MigrationFirst' /\ AgreementFirst'
  BY <1>3, <1>4, NotMigrating, NotAgreeing
<1>8. OneAtATime'
  <2>1. SUFFICES ASSUME ~seen.overlap PROVE OneAtATime'
    BY <1>3 DEF OneAtATime, Grows
  <2>2. \A q \in Procs \ {p} : Ended(q) /\ run'[q] = run[q]
    BY <2>1, <1>0, <1>4 DEF IInv, OneAtATime
  <2>3. \A q, r \in Procs : Ended(q)' \/ Ended(r)' \/ q = r
    BY <2>2 DEF Ended, At
  <2>4. \A q \in Procs : Updating(q)' /\ Recording(q)'
    BY <1>4, <2>2 DEF Ended, At, Updating, Recording
  <2>5. (AllTCSP => AllTCSP') /\ (AllNew => AllNew')
    BY <1>2 DEF AllTCSP, AllNew, Ctxs
  <2>6. store' # Torn => Records(store)'
    BY <2>1, <2>5 DEF IInv, OneAtATime, Records
  <2>7. \A d \in seen.logins : d \in TanzuCtxs /\ ctx'[d].token = "valid" /\ ctx'[d].issuer = "tcsp"
    BY <1>2, <2>1 DEF IInv, OneAtATime, Ctxs
  <2>8. \A d \in seen'.logins : d \in TanzuCtxs /\ ctx'[d].token = "valid" /\ ctx'[d].issuer = "tcsp"
    BY <1>2, <1>3, <2>7
  <2> QED BY <2>3, <2>4, <2>6, <2>8 DEF OneAtATime
<1> QED BY <1>5, <1>6, <1>7, <1>8 DEF IInv

LEMMA ExecuteStep ==
  ASSUME IInv, NEW p \in Procs, Execute(p)
  PROVE  IInv'
<1>0. /\ At(p, "command") /\ ~Ended(p) /\ ~At(p, "truncated")
      /\ UNCHANGED <<store, dsLock, servers, eula, source, old13, central>>
  BY DEF Execute, Ended, At
<1>1. CASE UNCHANGED <<ctx, seen>> /\ (GoTo(p, "notice") \/ GoTo(p, "idle"))
  BY <1>0, <1>1, QuietGoTo DEF config
<1>2. CASE ~UNCHANGED <<ctx, seen>>
  <2>1. PICK c \in TanzuCtxs :
          /\ ctx' = [ctx EXCEPT ![c].token = "valid", ![c].issuer = "tcsp"]
          /\ seen' = [seen EXCEPT !.logins = seen.logins \cup {c}]
          /\ GoTo(p, "notice")
    BY <1>2 DEF Execute
  <2> QED BY <1>0, <2>1, LoginStep
<1>3. CASE UNCHANGED <<ctx, seen>> /\ ~GoTo(p, "notice") /\ ~GoTo(p, "idle")
  BY <1>3 DEF Execute
<1> QED BY <1>1, <1>2, <1>3

LEMMA NoticeStep ==
  ASSUME IInv, NEW p \in Procs, shouldCheckVersion(p) \/ printVersionRecommendations(p)
  PROVE  IInv'
<1>0. ~Ended(p) /\ ~At(p, "truncated") /\ UNCHANGED <<store, dsLock, config, seen>>
  BY DEF shouldCheckVersion, printVersionRecommendations, Ended, At
<1>1. \/ \E pc \in {"print", "idle"} : GoTo(p, pc)
      \/ SetDataStoreValue(p, "check", "idle")
  <2>1. CASE shouldCheckVersion(p)
    BY <2>1 DEF shouldCheckVersion
  <2>2. CASE printVersionRecommendations(p)
    BY <2>2 DEF printVersionRecommendations
  <2> QED BY <2>1, <2>2
<1>2. CASE \E pc \in {"print", "idle"} : GoTo(p, pc)
  BY <1>0, <1>2, QuietGoTo
<1>3. CASE SetDataStoreValue(p, "check", "idle")
  BY <1>0, <1>3, BeginSet DEF Thens
<1> QED BY <1>1, <1>2, <1>3

\* A command begins: it is one at a time only if no other is running.
LEMMA StartStep ==
  ASSUME IInv, NEW p \in Procs, Start(p)
  PROVE  IInv'
<1>1. PICK kind \in Kinds : Become(p, [Idle EXCEPT !.kind = kind, !.pc = "sync"])
  BY DEF Start
<1>. DEFINE s == [Idle EXCEPT !.kind = kind, !.pc = "sync"]
            b == seen.overlap \/ \E q \in Procs \ {p} : ~Ended(q)
            n == seen.runs + 1
<1>2. s \in RunState /\ s.pc = "sync" /\ s.then = "idle"
  BY IdleType, Points, StartupAssumption DEF RunState, Idle
<1>3. Become(p, s) /\ Ended(p) /\ seen' = [seen EXCEPT !.runs = n, !.overlap = b]
      /\ UNCHANGED <<store, dsLock, ctx, servers, eula, source, old13, central>>
  BY <1>1 DEF Start, config
<1>4. b \in BOOLEAN /\ n \in Nat /\ (~b => ~seen.overlap /\ \A q \in Procs \ {p} : Ended(q))
  BY DEF IInv, StartupTypeOK, SeenType
<1>. HIDE DEF s, b, n
<1>5. /\ seen' \in SeenType /\ seen'.overlap = b
      /\ seen'.lost = seen.lost /\ seen'.failed = seen.failed /\ seen'.agreed = seen.agreed
      /\ seen'.installed = seen.installed /\ seen'.logins = seen.logins
  <2>1. seen \in SeenType
    BY DEF IInv, StartupTypeOK
  <2> QED BY <1>3, <1>4, <2>1 DEF SeenType
<1>6. /\ run' \in [Procs -> RunState] /\ run'[p].pc = "sync" /\ run'[p].then = "idle"
      /\ \A q \in Procs \ {p} : run'[q] = run[q]
  BY <1>2, <1>3, BecomeStep DEF IInv
<1>7. StartupTypeOK'
  BY <1>3, <1>5, <1>6 DEF IInv, StartupTypeOK
<1>8. ShapeOK' /\ StoreIsGuarded'
  BY <1>3, <1>5, <1>6 DEF IInv, ShapeOK, StoreIsGuarded, Thens, At
<1>9. MigrationFirst' /\ AgreementFirst'
  BY <1>3, <1>5, <1>6 DEF IInv, MigrationFirst, Migrated, AgreementFirst, At
<1>10. OneAtATime'
  <2>1. SUFFICES ASSUME ~b PROVE OneAtATime'
    BY <1>5 DEF OneAtATime
  <2>2. ~seen.overlap /\ \A q \in Procs \ {p} : Ended(q) /\ run'[q] = run[q]
    BY <2>1, <1>4, <1>6
  <2>3. \A q, r \in Procs : Ended(q)' \/ Ended(r)' \/ q = r
    BY <2>2 DEF Ended, At
  <2>4. \A q \in Procs : Updating(q)' /\ Recording(q)'
    BY <1>6, <2>2 DEF Ended, At, Updating, Recording
  <2> QED BY <1>3, <1>5, <2>2, <2>3, <2>4 DEF IInv, OneAtATime, Records, AllTCSP, AllNew
<1> QED BY <1>7, <1>8, <1>9, <1>10 DEF IInv

LEMMA ExitStep ==
  ASSUME IInv, NEW p \in Procs, Exit(p)
  PROVE  IInv'
<1>0. Ended(p) /\ dsLock = p /\ dsLock' = NoProc /\ run' = run
      /\ UNCHANGED <<store, ctx, servers, eula, source, old13, central, seen>>
  BY DEF Exit, config
<1>1. StartupTypeOK'
  BY <1>0 DEF IInv, StartupTypeOK
<1>2. ShapeOK' /\ MigrationFirst' /\ AgreementFirst'
  BY <1>0 DEF IInv, ShapeOK, MigrationFirst, Migrated, AgreementFirst, At
<1>3. StoreIsGuarded'
  BY <1>0 DEF IInv, StoreIsGuarded, Ended, At
<1>4. OneAtATime'
  BY <1>0 DEF IInv, OneAtATime, Updating, Recording, Records, AllTCSP, AllNew, Ended, At
<1> QED BY <1>1, <1>2, <1>3, <1>4 DEF IInv

\* A crash takes the process and its lock, and the store if it was just emptied.
LEMMA CrashStep ==
  ASSUME IInv, NEW p \in Procs, Crash(p)
  PROVE  IInv'
<1>. DEFINE b == seen.lost \/ At(p, "truncated")
            n == seen.faults + 1
<1>0. /\ ~Ended(p) /\ Become(p, Idle) /\ dsLock' = (IF dsLock = p THEN NoProc ELSE dsLock)
      /\ seen' = [seen EXCEPT !.faults = n, !.lost = b]
      /\ UNCHANGED <<store, ctx, servers, eula, source, old13, central>>
  BY DEF Crash, config
<1>1. b \in BOOLEAN /\ n \in Nat /\ (seen.lost => b) /\ seen \in SeenType
  BY DEF IInv, StartupTypeOK, SeenType
<1>. HIDE DEF b, n
<1>2. /\ Grows /\ seen'.logins = seen.logins /\ seen'.installed = seen.installed
  BY <1>0, <1>1 DEF SeenType, Grows
<1>3. /\ run' \in [Procs -> RunState] /\ run'[p] = Idle /\ \A q \in Procs \ {p} : run'[q] = run[q]
  BY <1>0, IdleType, BecomeStep DEF IInv
<1>4. run'[p].pc = "idle" /\ run'[p].then = "idle"
  BY <1>3 DEF Idle
<1>5. StartupTypeOK'
  BY <1>0, <1>2, <1>3, TypeStep DEF IInv, StartupTypeOK
<1>6. ShapeOK'
  BY <1>3, <1>4 DEF IInv, ShapeOK, Thens, At
<1>7. StoreIsGuarded'
  BY <1>0, <1>2, <1>3, <1>4 DEF IInv, StoreIsGuarded, Grows, At
<1>8. MigrationFirst' /\ AgreementFirst'
  BY <1>0, <1>2, <1>3, <1>4, NotMigrating, NotAgreeing
<1>9. OneAtATime'
  <2>1. SUFFICES ASSUME ~seen.overlap PROVE OneAtATime'
    BY <1>2 DEF OneAtATime, Grows
  <2>2. \A q \in Procs \ {p} : Ended(q) /\ run'[q] = run[q]
    BY <2>1, <1>0, <1>3 DEF IInv, OneAtATime
  <2>3. \A q, r \in Procs : Ended(q)' \/ Ended(r)' \/ q = r
    BY <2>2 DEF Ended, At
  <2>4. \A q \in Procs : Updating(q)' /\ Recording(q)'
    BY <1>4, <2>2 DEF Ended, At, Updating, Recording
  <2> QED BY <1>0, <1>2, <2>1, <2>3, <2>4 DEF IInv, OneAtATime, Records, AllTCSP, AllNew
<1> QED BY <1>5, <1>6, <1>7, <1>8, <1>9 DEF IInv

-----------------------------------------------------------------------------
(* The inductive invariant *)

LEMMA InitIInv == StartupInit => IInv
<1>. SUFFICES ASSUME StartupInit PROVE IInv
  OBVIOUS
<1>1. \A p \in Procs : run[p].pc = "idle" /\ run[p].then = "idle"
  BY DEF StartupInit, Idle
<1>2. StartupTypeOK
  <2>1. store \in StoreType /\ ctx \in [Ctxs -> ContextType] /\ run \in [Procs -> RunState]
    BY NoContentType, OldType, IdleType DEF StartupInit
  <2>2. seen \in SeenType
    BY DEF StartupInit, SeenType
  <2>3. /\ eula \in [status : {"unset", "shown", "accepted"}, current : BOOLEAN]
        /\ source \in {"old", "new"} /\ old13 \in BOOLEAN
    <3>1. CASE old13 = TRUE /\ source = "old" /\ eula = [status |-> "accepted", current |-> FALSE]
      BY <3>1
    <3>2. CASE old13 = FALSE /\ source = "new" /\ eula = [status |-> "unset", current |-> FALSE]
      BY <3>2
    <3> QED BY <3>1, <3>2 DEF StartupInit
  <2>4. central \in BOOLEAN
    BY <2>3 DEF StartupInit
  <2> QED BY <2>1, <2>2, <2>3, <2>4 DEF StartupInit, StartupTypeOK
<1>3. ShapeOK /\ StoreIsGuarded
  BY <1>1, NoContentType DEF StartupInit, ShapeOK, StoreIsGuarded, Thens, At
<1>4. MigrationFirst /\ AgreementFirst
  BY <1>1 DEF StartupInit, MigrationFirst, Migrated, AgreementFirst, At
<1>5. OneAtATime
  <2>1. Records(store) /\ seen.logins = {}
    BY DEF StartupInit, NoContent, Records
  <2> QED BY <1>1, <2>1 DEF OneAtATime, Updating, Recording, Ended, At
<1> QED BY <1>2, <1>3, <1>4, <1>5 DEF IInv

LEMMA NextIInv == IInv /\ [StartupNext]_vars => IInv'
<1>. SUFFICES ASSUME IInv, [StartupNext]_vars PROVE IInv'
  OBVIOUS
<1>1. ASSUME NEW p \in Procs, Start(p) PROVE IInv'
  BY <1>1, StartStep
<1>2. ASSUME NEW p \in Procs, Crash(p) PROVE IInv'
  BY <1>2, CrashStep
<1>3. ASSUME NEW p \in Procs, Step(p) PROVE IInv'
  BY <1>3, SyncStep, updateConfigWithTanzuCSPIssuerStep, updateConfigWithTanzuPlatformEndpointChangesStep,
     StoreContextStep, UpdateDoneStep, updatePluginDiscoverySourceStep, PerformInitializationsStep,
     SetLastExecutedCLIVersionStep, DeleteFeatureStep, ConfigureEULAStep, UpdateEULAAcceptanceStep,
     installEssentialPluginsStep, ExecuteStep, AcceptEULAStep, NoticeStep, LockStoreStep,
     saveAndCloseStep, ExitStep DEF Step
<1>4. CASE UNCHANGED vars
  <2>1. UNCHANGED <<store, dsLock, ctx, servers, eula, source, old13, central, run, seen>>
    BY <1>4 DEF vars
  <2>2. StartupTypeOK' /\ ShapeOK' /\ StoreIsGuarded' /\ MigrationFirst' /\ AgreementFirst'
    BY <2>1 DEF IInv, StartupTypeOK, ShapeOK, StoreIsGuarded, MigrationFirst, Migrated, AgreementFirst, At
  <2>3. OneAtATime'
    BY <2>1 DEF IInv, OneAtATime, Updating, Recording, Records, AllTCSP, AllNew, Ended, At
  <2> QED BY <2>2, <2>3 DEF IInv
<1> QED BY <1>1, <1>2, <1>3, <1>4 DEF StartupNext

LEMMA AlwaysIInv == StartupSpec => []IInv
BY InitIInv, NextIInv, PTL DEF StartupSpec

-----------------------------------------------------------------------------
(* Theorems *)

\* Every variable has its type.
THEOREM TypesAreKept == StartupSpec => []StartupTypeOK
BY AlwaysIInv, PTL DEF IInv

\* The move to the new source is not skipped (updatePluginDiscoverySource,
\* SetLastExecutedCLIVersion): the mark of an older CLI is gone only when the source is
\* the new one, for any number of commands, however they crash or overlap.
THEOREM MigrationIsNotSkipped == StartupSpec => []SourceIsMigrated
<1>1. IInv => SourceIsMigrated
  BY DEF IInv, MigrationFirst, Migrated, SourceIsMigrated
<1> QED BY <1>1, AlwaysIInv, PTL

\* Essential plugins are installed only after an agreement, for every sequence of
\* commands (shouldSkipPrompts and shouldSkipEssentialPlugins, ConfigureEULA).
THEOREM NothingEssentialUnagreed == StartupSpec => []EssentialsNeedAgreement
<1>1. IInv => EssentialsNeedAgreement
  BY DEF IInv, AgreementFirst, EssentialsNeedAgreement
<1> QED BY <1>1, AlwaysIInv, PTL

\* What was in the store when a process began to change it is what is committed.
LEMMA CommittedContent ==
  ASSUME StoreIsGuarded, NEW p \in Procs, At(p, "truncated")
  PROVE  Committed = run[p].content
<1>1. \A q \in Procs : At(q, "truncated") => q = p
  BY DEF StoreIsGuarded
<1>2. (CHOOSE q \in Procs : At(q, "truncated")) = p
  BY <1>1
<1> QED BY <1>2 DEF Committed

\* An update that is recorded as done is done (updateConfigWithTanzuCSPIssuer,
\* updateConfigWithTanzuPlatformEndpointChanges): with commands one at a time no crash,
\* failed write or failed context leaves one with the old issuer or endpoint.
THEOREM RecordedUpdatesAreDone == StartupSpec => []UpdatesAreComplete
<1>1. ASSUME IInv PROVE UpdatesAreComplete
  <2>1. SUFFICES ASSUME ~seen.overlap, store # Torn PROVE Records(Committed)
    BY DEF UpdatesAreComplete, Records, AllTCSP, AllNew
  <2>2. CASE \E p \in Procs : At(p, "truncated")
    <3>1. PICK p \in Procs : At(p, "truncated")
      BY <2>2
    <3>2. Committed = run[p].content
      BY <1>1, <3>1, CommittedContent DEF IInv
    <3> QED BY <1>1, <2>1, <3>1, <3>2 DEF IInv, OneAtATime, Recording
  <2>3. CASE ~\E p \in Procs : At(p, "truncated")
    BY <1>1, <2>1, <2>3 DEF IInv, OneAtATime, Committed
  <2> QED BY <2>2, <2>3
<1> QED BY <1>1, AlwaysIInv, PTL

\* A repeated update does not undo a login (isEligibleForTCSPIssuerUpdate): with
\* commands one at a time the token stays valid, also when the data store was lost.
THEOREM LoginsAreNotUndone == StartupSpec => []LoginsSurviveUpdates
<1>1. IInv => LoginsSurviveUpdates
  BY DEF IInv, OneAtATime, LoginsSurviveUpdates
<1> QED BY <1>1, AlwaysIInv, PTL

\* The steps that leave the data store alone leave alone what is committed.
LEMMA CommittedSame ==
  ASSUME IInv, IInv', NEW p \in Procs, UNCHANGED store, ~At(p, "truncated"),
         \A q \in Procs \ {p} : run'[q] = run[q], ~At(p, "truncated")'
  PROVE  Committed' = Committed
<1>1. CASE \E q \in Procs : At(q, "truncated")
  <2>1. PICK q \in Procs : At(q, "truncated")
    BY <1>1
  <2>2. q # p /\ At(q, "truncated")' /\ run'[q].content = run[q].content
    BY <2>1 DEF At
  <2>3. Committed = run[q].content
    BY <2>1, CommittedContent DEF IInv
  <2>4. Committed' = run'[q].content
    <3>1. \A r \in Procs : At(r, "truncated")' => r = q
      BY <2>2 DEF IInv, StoreIsGuarded
    <3>2. (CHOOSE r \in Procs : At(r, "truncated")') = q
      BY <2>2, <3>1
    <3> QED BY <2>2, <3>2 DEF Committed
  <2> QED BY <2>2, <2>3, <2>4
<1>2. CASE ~\E q \in Procs : At(q, "truncated")
  <2>1. ~\E q \in Procs : At(q, "truncated")'
    BY <1>2 DEF At
  <2> QED BY <1>2, <2>1 DEF Committed
<1> QED BY <1>1, <1>2

\* The process is and stays outside its change of the data store.
Elsewhere(p) ==
  /\ UNCHANGED store /\ ~At(p, "truncated") /\ ~At(p, "truncated")'
  /\ \A q \in Procs \ {p} : run'[q] = run[q]

LEMMA ElsewhereStep ==
  ASSUME IInv, NEW p \in Procs, Start(p) \/ Step(p), ~LockStore(p), ~saveAndClose(p)
  PROVE  Elsewhere(p)
<1>. USE DEF At, Elsewhere
<1>0. StartupTypeOK /\ run[p].then \in Thens
  BY DEF IInv, ShapeOK
<1>1. ASSUME NEW pc \in PCs \ {"truncated"}, GoTo(p, pc), UNCHANGED store, ~At(p, "truncated")
      PROVE  Elsewhere(p)
  BY <1>0, <1>1, GoToStep
<1>2. ASSUME NEW key \in {"shas", "issuers", "endpoint", "last", "check"}, NEW then \in Thens,
             SetDataStoreValue(p, key, then), UNCHANGED store, ~At(p, "truncated")
      PROVE  Elsewhere(p)
  BY <1>0, <1>2, SetStep DEF Thens, PCs
<1>3. ASSUME NEW key \in {"shas", "issuers", "endpoint"}, NEW then \in Thens, NEW which \in SUBSET Ctxs,
             UpdateAll(p, which, key, then), UNCHANGED store, ~At(p, "truncated")
      PROVE  Elsewhere(p)
  BY <1>0, <1>3, UpdateAllStep DEF Thens, PCs
<1>4. CASE SyncContextsAndServers(p)
  BY <1>1, <1>3, <1>4, Points DEF SyncContextsAndServers, Thens
<1>5. CASE updateConfigWithTanzuCSPIssuer(p)
  <2>1. {c \in Ctxs : isEligibleForTCSPIssuerUpdate(c)} \in SUBSET Ctxs
    OBVIOUS
  <2> QED BY <1>1, <1>3, <1>5, <2>1, Points DEF updateConfigWithTanzuCSPIssuer, Thens
<1>6. CASE updateConfigWithTanzuPlatformEndpointChanges(p)
  BY <1>1, <1>3, <1>6, Points DEF updateConfigWithTanzuPlatformEndpointChanges, Thens, Ctxs
<1>7. CASE StoreContext(p)
  <2>1. PICK c \in run[p].todo :
          \/ Become(p, [run[p] EXCEPT !.todo = run[p].todo \ {c}])
          \/ Become(p, [run[p] EXCEPT !.ok = FALSE,
                          !.todo = IF run[p].key = "shas" THEN {} ELSE run[p].todo \ {c}])
    BY <1>7 DEF StoreContext
  <2>. DEFINE t == IF run[p].key = "shas" THEN {} ELSE run[p].todo \ {c}
  <2>2. run'[p].pc = run[p].pc /\ \A q \in Procs \ {p} : run'[q] = run[q]
    <3>1. CASE Become(p, [run[p] EXCEPT !.todo = run[p].todo \ {c}])
      BY <1>0, <3>1, RunType DEF Become, StartupTypeOK, RunState
    <3>2. CASE Become(p, [run[p] EXCEPT !.ok = FALSE, !.todo = t])
      <4>. HIDE DEF t
      <4> QED BY <1>0, <3>2, RunType DEF Become, StartupTypeOK, RunState
    <3> QED BY <2>1, <3>1, <3>2
  <2> QED BY <1>7, <2>2 DEF StoreContext
<1>8. CASE UpdateDone(p)
  <2>1. run[p].key \in {"shas", "issuers", "endpoint"}
    BY <1>8 DEF UpdateDone, IInv, ShapeOK
  <2>2. CASE run[p].ok
    BY <1>0, <1>2, <1>8, <2>1, <2>2 DEF UpdateDone
  <2>3. CASE ~run[p].ok
    BY <1>0, <1>8, <2>3, ProceedStep DEF UpdateDone, Thens, PCs
  <2> QED BY <2>2, <2>3
<1>9. CASE updatePluginDiscoverySource(p)
  BY <1>1, <1>9, AfterInitPoint, Points DEF updatePluginDiscoverySource
<1>10. CASE PerformInitializations(p)
  BY <1>1, <1>10, Points DEF PerformInitializations
<1>11. CASE SetLastExecutedCLIVersion(p)
  BY <1>1, <1>2, <1>11, Points DEF SetLastExecutedCLIVersion, Thens
<1>12. CASE DeleteFeature(p)
  BY <1>1, <1>12, AfterInitPoint DEF DeleteFeature
<1>13. CASE ConfigureEULA(p)
  <2>1. \E pc \in {"eulaversion", "notice", "idle", "essentials"} : GoTo(p, pc)
    BY <1>13 DEF ConfigureEULA
  <2>2. UNCHANGED store /\ ~At(p, "truncated")
    BY <1>13 DEF ConfigureEULA
  <2> QED BY <1>1, <2>1, <2>2, Points
<1>14. CASE UpdateEULAAcceptance(p)
  BY <1>1, <1>14, Points DEF UpdateEULAAcceptance
<1>15. CASE installEssentialPlugins(p)
  BY <1>1, <1>15, Points DEF installEssentialPlugins
<1>16. CASE Execute(p)
  <2>1. GoTo(p, "notice") \/ GoTo(p, "idle")
    BY <1>16 DEF Execute
  <2>2. UNCHANGED store /\ ~At(p, "truncated")
    BY <1>16 DEF Execute
  <2> QED BY <1>1, <2>1, <2>2, Points
<1>17. CASE AcceptEULA(p)
  BY <1>1, <1>17, Points DEF AcceptEULA
<1>18. CASE shouldCheckVersion(p)
  <2>1. \E pc \in {"print", "idle"} : GoTo(p, pc)
    BY <1>18 DEF shouldCheckVersion
  <2>2. UNCHANGED store /\ ~At(p, "truncated")
    BY <1>18 DEF shouldCheckVersion
  <2> QED BY <1>1, <2>1, <2>2, Points
<1>19. CASE printVersionRecommendations(p)
  <2>1. GoTo(p, "idle") \/ SetDataStoreValue(p, "check", "idle")
    BY <1>19 DEF printVersionRecommendations
  <2>2. UNCHANGED store /\ ~At(p, "truncated")
    BY <1>19 DEF printVersionRecommendations
  <2> QED BY <1>1, <1>2, <2>1, <2>2, Points DEF Thens
<1>20. CASE Exit(p)
  BY <1>20 DEF Exit, Ended
<1>21. CASE Start(p)
  <2>1. PICK kind \in Kinds : Become(p, [Idle EXCEPT !.kind = kind, !.pc = "sync"])
    BY <1>21 DEF Start
  <2>2. [Idle EXCEPT !.kind = kind, !.pc = "sync"].pc = "sync"
    BY DEF Idle
  <2> QED BY <1>0, <1>21, <2>1, <2>2 DEF Start, Ended, Become, StartupTypeOK
<1> QED BY <1>4, <1>5, <1>6, <1>7, <1>8, <1>9, <1>10, <1>11, <1>12, <1>13, <1>14, <1>15, <1>16, <1>17,
           <1>18, <1>19, <1>20, <1>21 DEF Step

\* What was recorded stays recorded.
Kept == \A k \in DOMAIN NoContent : Committed[k] # NoContent[k] => Committed'[k] # NoContent[k]

\* Beginning a change of the data store commits nothing.
LEMMA LockStoreKeeps ==
  ASSUME IInv, IInv', NEW p \in Procs, LockStore(p), ~seen'.lost
  PROVE  Committed' = Committed
<1>1. store # Torn /\ dsLock = NoProc
  BY DEF IInv, StoreIsGuarded, LockStore
<1>2. ~\E q \in Procs : At(q, "truncated")
  BY <1>1, StartupAssumption DEF IInv, StoreIsGuarded
<1>3. Committed = store
  BY <1>2 DEF Committed
<1>. DEFINE s == [run[p] EXCEPT !.pc = "truncated", !.content = store]
<1>4. Become(p, s)
  BY <1>1 DEF LockStore
<1>5. s.pc = "truncated" /\ s.content = store
  BY RunType DEF IInv, RunState
<1>. HIDE DEF s
<1>6. run'[p] = s
  BY <1>4 DEF Become, IInv, StartupTypeOK
<1>7. \A q \in Procs : At(q, "truncated")' => q = p
  BY <1>5, <1>6 DEF IInv, StoreIsGuarded, At
<1>8. (CHOOSE q \in Procs : At(q, "truncated")') = p
  BY <1>5, <1>6, <1>7 DEF At
<1> QED BY <1>3, <1>5, <1>6, <1>8 DEF Committed, At

\* Its end adds its key.
LEMMA saveAndCloseKeeps ==
  ASSUME IInv, IInv', NEW p \in Procs, saveAndClose(p), ~seen'.lost
  PROVE  Kept
<1>. DEFINE written == [run[p].content EXCEPT ![run[p].key] = Value(p)]
<1>0. At(p, "truncated") /\ dsLock' = NoProc
  BY DEF saveAndClose
<1>1. store' = written
  <2>1. CASE seen' = [seen EXCEPT !.lost = TRUE, !.faults = seen.faults + 1]
    BY <2>1, Grows_Lost DEF IInv
  <2> QED BY <2>1 DEF saveAndClose
<1>2. Committed = run[p].content
  BY <1>0, CommittedContent DEF IInv
<1>3. ~\E q \in Procs : At(q, "truncated")'
  BY <1>0, StartupAssumption DEF IInv, StoreIsGuarded
<1>4. Committed' = written
  BY <1>1, <1>3 DEF Committed
<1>5. NoContent.shas = {} /\ \A k \in DOMAIN NoContent \ {"shas"} : NoContent[k] = FALSE
  BY DEF NoContent
<1>6. \A k \in DOMAIN NoContent :
        /\ k = run[p].key /\ k = "shas" => written[k] # {}
        /\ k = run[p].key /\ k # "shas" => written[k] = TRUE
        /\ k # run[p].key => written[k] = run[p].content[k]
  BY Written DEF IInv
<1>. HIDE DEF written
<1> QED BY <1>2, <1>4, <1>5, <1>6 DEF Kept

\* Commands keep each other's keys (SetDataStoreValue): what was recorded stays recorded,
\* for any number of commands at the same time, until the data store is lost.
THEOREM KeysStay == StartupSpec => KeysAreKept
<1>1. ASSUME IInv, IInv', [StartupNext]_vars, ~seen'.lost PROVE Kept
  <2>1. CASE Committed' = Committed
    BY <2>1 DEF Kept
  <2>2. ASSUME NEW p \in Procs, Start(p) \/ Step(p) PROVE Kept
    <3>1. CASE LockStore(p)
      BY <1>1, <2>1, <3>1, LockStoreKeeps
    <3>2. CASE saveAndClose(p)
      BY <1>1, <3>2, saveAndCloseKeeps
    <3>3. CASE ~LockStore(p) /\ ~saveAndClose(p)
      <4>1. Elsewhere(p)
        BY <1>1, <2>2, <3>3, ElsewhereStep
      <4> QED BY <1>1, <2>1, <4>1, CommittedSame DEF Elsewhere
    <3> QED BY <3>1, <3>2, <3>3
  <2>3. ASSUME NEW p \in Procs, Crash(p) PROVE Kept
    <3>1. ~At(p, "truncated") /\ UNCHANGED store
      BY <1>1, <2>3 DEF Crash, IInv, StartupTypeOK, SeenType
    <3>2. run'[p] = Idle /\ \A q \in Procs \ {p} : run'[q] = run[q]
      BY <1>1, <2>3 DEF Crash, Become, IInv, StartupTypeOK
    <3>3. ~At(p, "truncated")'
      BY <3>2 DEF At, Idle
    <3> QED BY <1>1, <2>1, <3>1, <3>2, <3>3, CommittedSame
  <2>4. CASE UNCHANGED vars
    <3>1. UNCHANGED <<store, run>>
      BY <2>4 DEF vars
    <3>2. Committed' = Committed
      BY <3>1 DEF Committed, At
    <3> QED BY <2>1, <3>2
  <2> QED BY <1>1, <2>2, <2>3, <2>4 DEF StartupNext
<1>2. IInv /\ IInv' /\ [StartupNext]_vars => (~seen'.lost => Kept)
  BY <1>1
<1> QED BY <1>2, AlwaysIInv, PTL DEF StartupSpec, KeysAreKept, Kept

-----------------------------------------------------------------------------
(* Recommended versions *)

\* The order of versions is strict and total up to equality.
LEMMA VersionOrder ==
  /\ \A v \in Version : ~ IsNewVersion(v, v)
  /\ \A u, v, w \in Version : IsNewVersion(u, v) /\ IsNewVersion(v, w) => IsNewVersion(u, w)
  /\ \A v, w \in Version : v = w \/ IsNewVersion(v, w) \/ IsNewVersion(w, v)
<1>1. \A v \in Version : ~ IsNewVersion(v, v)
  BY DEF Version, IsNewVersion, IsSameMajor, IsSameMinor, NewerPre
<1>2. \A u, v, w \in Version : IsNewVersion(u, v) /\ IsNewVersion(v, w) => IsNewVersion(u, w)
  BY DEF Version, IsNewVersion, IsSameMajor, IsSameMinor, NewerPre
<1>3. \A v, w \in Version : v = w \/ IsNewVersion(v, w) \/ IsNewVersion(w, v)
  <2>1. SUFFICES ASSUME NEW v \in Version, NEW w \in Version,
                        ~ IsNewVersion(v, w), ~ IsNewVersion(w, v)
                 PROVE  v = w
    OBVIOUS
  <2>2. v.major = w.major /\ v.minor = w.minor /\ v.patch = w.patch /\ v.pre = w.pre
    BY <2>1 DEF Version, IsNewVersion, IsSameMajor, IsSameMinor, NewerPre
  <2>. QED
    BY <2>2 DEF Version
<1>. QED
  BY <1>1, <1>2, <1>3

\* First returns a version of the list that none is newer than, if there is one.
LEMMA FirstIsNewest ==
  ASSUME NEW S \in SUBSET Version, NEW m \in S, \A w \in S : ~ IsNewVersion(w, m)
  PROVE  First(S) = m
<1>1. \A w \in S : ~ IsNewVersion(w, First(S))
  BY DEF First
<1>2. First(S) \in S
  BY DEF First
<1>. QED
  BY <1>1, <1>2, VersionOrder

\* A set of numbers has a least element.
LEMMA LeastNumber ==
  ASSUME NEW N \in SUBSET Nat, N # {}
  PROVE  \E n \in N : \A k \in N : n <= k
<1>1. \E n \in N : \A k \in N : ~ (<<k, n>> \in OpToRel(<, Nat))
  BY NatLessThanWellFounded, WFMin
<1>2. PICK n \in N : \A k \in N : ~ (<<k, n>> \in OpToRel(<, Nat))
  BY <1>1
<1>3. \A k \in N : ~ (k < n)
  BY <1>2 DEF OpToRel
<1> QED BY <1>3

\* A finite set of versions has a newest one: a smallest set without one would have
\* one after any of its versions is taken out.
LEMMA FiniteHasNewest ==
  ASSUME NEW S \in SUBSET Version, IsFiniteSet(S), S # {}
  PROVE  \E m \in S : \A w \in S : ~ IsNewVersion(w, m)
<1>. DEFINE HasNewest(X) == \E m \in X : \A w \in X : ~ IsNewVersion(w, m)
            Bad(n) == \E X \in SUBSET Version :
                        IsFiniteSet(X) /\ X # {} /\ Cardinality(X) = n /\ ~ HasNewest(X)
            N == {n \in Nat : Bad(n)}
<1>1. SUFFICES ASSUME ~ HasNewest(S) PROVE FALSE
  OBVIOUS
<1>2. Cardinality(S) \in N
  <2>1. Cardinality(S) \in Nat
    BY FS_CardinalityType
  <2> QED BY <1>1, <2>1
<1>3. PICK n \in N : \A k \in N : n <= k
  <2>1. N \in SUBSET Nat /\ N # {}
    BY <1>2
  <2>. HIDE DEF N
  <2> QED BY <2>1, LeastNumber
<1>4. PICK X \in SUBSET Version : IsFiniteSet(X) /\ X # {} /\ Cardinality(X) = n /\ ~ HasNewest(X)
  BY <1>3
<1>5. PICK x \in X : TRUE
  BY <1>4
<1>. DEFINE Y == X \ {x}
<1>6. IsFiniteSet(Y) /\ Cardinality(Y) = n - 1 /\ Y \in SUBSET Version
  BY <1>4, <1>5, FS_RemoveElement
<1>7. CASE Y = {}
  <2>1. \A w \in X : w = x
    BY <1>7
  <2>2. ~ IsNewVersion(x, x)
    BY <1>5, VersionOrder
  <2> QED BY <1>4, <1>5, <2>1, <2>2
<1>8. CASE Y # {}
  <2>1. HasNewest(Y)
    <3>1. n - 1 \in Nat
      BY <1>6, FS_CardinalityType
    <3>2. n - 1 \notin N
      BY <1>3, <3>1
    <3>. HIDE DEF Y
    <3> QED BY <1>6, <1>8, <3>1, <3>2
  <2>2. PICK m \in Y : \A w \in Y : ~ IsNewVersion(w, m)
    BY <2>1
  <2>3. CASE IsNewVersion(x, m)
    <3>1. \A w \in X : ~ IsNewVersion(w, x)
      BY <1>5, <2>2, <2>3, VersionOrder
    <3> QED BY <1>4, <1>5, <3>1
  <2>4. CASE ~ IsNewVersion(x, m)
    BY <1>4, <2>2, <2>4
  <2> QED BY <2>3, <2>4
<1> QED BY <1>7, <1>8

\* First as a sorted list has it: nothing, or the newest version.
LEMMA FirstOfFinite ==
  ASSUME NEW listed \in SUBSET Version, IsFiniteSet(listed), NEW S \in SUBSET listed
  PROVE  \/ S = {} /\ First(S) = NoVersion
         \/ First(S) \in S /\ First(S) # NoVersion /\ \A w \in S : ~ IsNewVersion(w, First(S))
<1>1. CASE S = {}
  BY <1>1 DEF First
<1>2. CASE S # {}
  <2>1. PICK m \in S : \A w \in S : ~ IsNewVersion(w, m)
    BY <1>2, FS_Subset, FiniteHasNewest
  <2>2. First(S) = m
    BY <2>1, FirstIsNewest
  <2>. QED
    BY <2>1, <2>2, NoVersionAssumption
<1>. QED
  BY <1>1, <1>2

\* A minor version that is recommended is the newest of its major version that the
\* user may get, and newer than the current one.
LEMMA MinorIsNewest ==
  ASSUME NEW listed \in SUBSET Version, IsFiniteSet(listed), NEW current \in Version,
         NEW m, m = findRecommendedMinorVersion(listed, current), m # NoVersion
  PROVE  /\ m \in Considered(listed, current) /\ IsSameMajor(m, current) /\ IsNewVersion(m, current)
         /\ \A w \in Considered(listed, current) : IsSameMajor(w, current) => ~ IsNewVersion(w, m)
<1>. DEFINE S == {w \in Considered(listed, current) : IsSameMajor(w, current)}
<1>1. S \in SUBSET listed
  BY DEF Considered
<1>2. m = First(S) /\ IsNewVersion(m, current)
  BY DEF findRecommendedMinorVersion, IfNewer
<1>3. First(S) \in S /\ \A w \in S : ~ IsNewVersion(w, First(S))
  BY <1>1, <1>2, FirstOfFinite
<1>. QED
  BY <1>2, <1>3

\* Likewise a recommended patch, within its minor version.
LEMMA PatchIsNewest ==
  ASSUME NEW listed \in SUBSET Version, IsFiniteSet(listed), NEW current \in Version,
         NEW m, m = findRecommendedPatchVersion(listed, current), m # NoVersion
  PROVE  /\ m \in Considered(listed, current) /\ IsSameMinor(m, current) /\ IsNewVersion(m, current)
         /\ \A w \in Considered(listed, current) : IsSameMinor(w, current) => ~ IsNewVersion(w, m)
<1>. DEFINE S == {w \in Considered(listed, current) : IsSameMinor(w, current)}
<1>1. S \in SUBSET listed
  BY DEF Considered
<1>2. m = First(S) /\ IsNewVersion(m, current)
  BY DEF findRecommendedPatchVersion, IfNewer
<1>3. First(S) \in S /\ \A w \in S : ~ IsNewVersion(w, First(S))
  BY <1>1, <1>2, FirstOfFinite
<1>. QED
  BY <1>2, <1>3

\* The notice (printVersionRecommendations) names versions of the list that are newer
\* than the current one, of the same major version, and no pre-release to somebody
\* who runs a release.
THEOREM RecommendationsAreUpdates ==
  ASSUME NEW listed \in SUBSET Version, IsFiniteSet(listed), NEW current \in Version,
         NEW r \in Recommendations(listed, current)
  PROVE  /\ r \in listed /\ IsNewVersion(r, current) /\ IsSameMajor(r, current)
         /\ IsPreRelease(r) => IsPreRelease(current)
<1>1. CASE r = findRecommendedMinorVersion(listed, current)
  BY <1>1, MinorIsNewest DEF Recommendations, Considered
<1>2. CASE r = findRecommendedPatchVersion(listed, current)
  BY <1>2, PatchIsNewest DEF Recommendations, Considered, IsSameMajor, IsSameMinor
<1>. QED
  BY <1>1, <1>2 DEF Recommendations

\* Updating ends the notices (findRecommendedMinorVersion, findRecommendedPatchVersion):
\* after an update to the recommended minor version nothing is recommended, and after
\* one to the recommended patch no patch is, also for a user who leaves a pre-release
\* and for whom the list becomes a shorter one.
THEOREM NoticesSettle ==
  ASSUME NEW listed \in SUBSET Version, IsFiniteSet(listed), NEW current \in Version
  PROVE  /\ \A m \in {findRecommendedMinorVersion(listed, current)} \ {NoVersion} :
              Recommendations(listed, m) = {}
         /\ \A p \in {findRecommendedPatchVersion(listed, current)} \ {NoVersion} :
              findRecommendedPatchVersion(listed, p) = NoVersion
<1>1. ASSUME NEW m \in {findRecommendedMinorVersion(listed, current)} \ {NoVersion}
      PROVE  Recommendations(listed, m) = {}
  <2>1. /\ m \in Considered(listed, current) /\ IsSameMajor(m, current)
        /\ \A w \in Considered(listed, current) : IsSameMajor(w, current) => ~ IsNewVersion(w, m)
    BY <1>1, MinorIsNewest
  <2>2. m \in Version /\ Considered(listed, m) \subseteq Considered(listed, current)
    BY <2>1 DEF Considered, IsPreRelease
  <2>3. findRecommendedMinorVersion(listed, m) = NoVersion
    <3>1. SUFFICES ASSUME findRecommendedMinorVersion(listed, m) # NoVersion PROVE FALSE
      OBVIOUS
    <3>2. PICK n : n = findRecommendedMinorVersion(listed, m)
      OBVIOUS
    <3>3. n \in Considered(listed, m) /\ IsSameMajor(n, m) /\ IsNewVersion(n, m)
      BY <2>2, <3>1, <3>2, MinorIsNewest
    <3>. QED
      BY <2>1, <2>2, <3>3 DEF IsSameMajor
  <2>4. findRecommendedPatchVersion(listed, m) = NoVersion
    <3>1. SUFFICES ASSUME findRecommendedPatchVersion(listed, m) # NoVersion PROVE FALSE
      OBVIOUS
    <3>2. PICK n : n = findRecommendedPatchVersion(listed, m)
      OBVIOUS
    <3>3. n \in Considered(listed, m) /\ IsSameMinor(n, m) /\ IsNewVersion(n, m)
      BY <2>2, <3>1, <3>2, PatchIsNewest
    <3>. QED
      BY <2>1, <2>2, <3>3 DEF IsSameMajor, IsSameMinor
  <2>. QED
    BY <2>3, <2>4 DEF Recommendations
<1>2. ASSUME NEW p \in {findRecommendedPatchVersion(listed, current)} \ {NoVersion}
      PROVE  findRecommendedPatchVersion(listed, p) = NoVersion
  <2>1. /\ p \in Considered(listed, current) /\ IsSameMinor(p, current)
        /\ \A w \in Considered(listed, current) : IsSameMinor(w, current) => ~ IsNewVersion(w, p)
    BY <1>2, PatchIsNewest
  <2>2. p \in Version /\ Considered(listed, p) \subseteq Considered(listed, current)
    BY <2>1 DEF Considered, IsPreRelease
  <2>3. SUFFICES ASSUME findRecommendedPatchVersion(listed, p) # NoVersion PROVE FALSE
    OBVIOUS
  <2>4. PICK n : n = findRecommendedPatchVersion(listed, p)
    OBVIOUS
  <2>5. n \in Considered(listed, p) /\ IsSameMinor(n, p) /\ IsNewVersion(n, p)
    BY <2>2, <2>3, <2>4, PatchIsNewest
  <2>. QED
    BY <2>1, <2>2, <2>5 DEF IsSameMinor
<1>. QED
  BY <1>1, <1>2
==============================================================================
