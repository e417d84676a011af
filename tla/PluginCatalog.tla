---------------------------- MODULE PluginCatalog ----------------------------
(***************************************************************************)
(* The plugin catalog (pkg/catalog) as several CLI processes use it:       *)
(* catalog.yaml with its advisory file lock, the plugin binaries, and the  *)
(* operations of pkg/pluginsupplier, pkg/pluginmanager and pkg/globalinit  *)
(* that read and update them.                                              *)
(*                                                                         *)
(* A file is an inode: catalog.yaml names at most one (file), a process    *)
(* that opened it keeps the inode it opened (fd) even if the name goes     *)
(* away, and the lock belongs to the inode.                                *)
(***************************************************************************)
EXTENDS CatalogData

CONSTANTS
  Procs,           \* CLI processes
  ActiveContexts,  \* the active ones (configlib.GetAllActiveContextsList)
  Inodes,          \* the inodes catalog.yaml may have had: a bound
  LegacyCatalogs,  \* catalogs a previous CLI may have left
  Kinds,           \* the operations processes perform
  Faults,          \* subset of {"crash", "writefail"}
  MaxOps,          \* operations per process: a bound
  NoProc, NoInode,
  Blank,           \* a file of length zero
  Torn             \* a file that yaml.Unmarshal rejects

Operations == {"list", "refresh", "fix", "clean", "install", "installTest", "delete"}

ASSUME ConstantsAssumption ==
  /\ NoProc \notin Procs
  /\ NoInode \notin Inodes
  /\ ActiveContexts \subseteq Servers
  /\ Blank \notin Catalog /\ Torn \notin Catalog /\ Blank # Torn
  /\ Kinds \subseteq Operations
  /\ MaxOps \in Nat

\* A catalog left by a previous CLI was built by Upserts.
ASSUME LegacyAssumption ==
  \A c \in LegacyCatalogs : c \in Catalog /\ WellFormed(c)

-----------------------------------------------------------------------------
VARIABLES
  file,     \* the inode catalog.yaml names
  content,  \* content of each inode
  lock,     \* the process holding the write lock of each inode
  bins,     \* the plugin binaries: "absent", "partial" or "ok"
  proc,     \* the state of each process
  ops       \* operations each process has started

disk == <<file, content, lock>>
vars == <<disk, bins, proc, ops>>

PCs == {"idle", "lookup", "listing", "wopen", "wlock", "edit", "write", "unlock", "ropen",
        "rlock", "fetch", "binopen", "binwrite", "describe", "confirm", "next", "cleancat", "cleanbins"}
Sessions == {"none", "migrate", "fix", "upsert", "refresh", "delete"}

\* The state of a process: its operation and the plugin named on the command
\* line, the catalog session with the inode it opened and the catalog in
\* memory, the loops over contexts and plugins, the binary it installs.
ProcState ==
  [pc     : PCs,
   kind   : Kinds \cup {"none"},
   plugin : Plugins \cup {NoPlugin},
   sess   : Sessions,
   fd     : Inodes \cup {NoInode},
   cat    : Catalog,
   ctx    : AllContexts,
   ctxs   : SUBSET AllContexts,         \* contexts still to visit
   plugs  : SUBSET Plugins,             \* plugins listed or matched
   left   : SUBSET Plugins,             \* those still to handle
   found  : BOOLEAN,                    \* the binary is in the plugin root
   linked : BOOLEAN]                    \* the binary written still is

Idle ==
  [pc |-> "idle", kind |-> "none", plugin |-> NoPlugin, sess |-> "none", fd |-> NoInode,
   cat |-> newSharedCatalog, ctx |-> StandAlone, ctxs |-> {}, plugs |-> {}, left |-> {},
   found |-> FALSE, linked |-> FALSE]

TypeOK ==
  /\ file \in Inodes \cup {NoInode}
  /\ content \in [Inodes -> Catalog \cup {Blank, Torn}]
  /\ lock \in [Inodes -> Procs \cup {NoProc}]
  /\ bins \in [Plugins -> {"absent", "partial", "ok"}]
  /\ proc \in [Procs -> ProcState]
  /\ ops \in [Procs -> 0..MaxOps]

Init ==
  /\ file \in Inodes \cup {NoInode}
  /\ \E c \in LegacyCatalogs :
       /\ content = [i \in Inodes |-> IF i = file THEN c ELSE Blank]
       /\ bins = [pl \in Plugins |-> IF file # NoInode /\ pl \in Associated(c)
                                      THEN "ok" ELSE "absent"]
  /\ lock = [i \in Inodes |-> NoProc]
  /\ proc = [p \in Procs |-> Idle]
  /\ ops = [p \in Procs |-> 0]

-----------------------------------------------------------------------------
(* Steps of one process *)

Become(p, state) == proc' = [proc EXCEPT ![p] = state]
At(p, where) == proc[p].pc = where
GoTo(p, where) == Become(p, [proc[p] EXCEPT !.pc = where])
Finish(p) == Become(p, Idle)

\* The locks a process holds end with the process.
ReleaseAll(p) == [i \in Inodes |-> IF lock[i] = p THEN NoProc ELSE lock[i]]

\* Bytes read from an inode, decoded; Torn has no decoding.
Decode(x) == IF x = Blank THEN newSharedCatalog ELSE x

\* An inode nobody names, has open or has locked.
FreeInode(i) ==
  /\ i # file
  /\ lock[i] = NoProc
  /\ \A p \in Procs : proc[p].fd # i

NamesPlugin == {"install", "installTest"}

\* The first program point of an operation.
Entry == [list |-> "listing", refresh |-> "listing", fix |-> "wopen", clean |-> "cleancat",
          install |-> "lookup", installTest |-> "fetch", delete |-> "ropen"]

\* A CLI process starts an operation: list any command that shows or loads
\* plugins, fix the clean-up of overlapping root commands, refresh the
\* initializer of a first run, install, installTest and delete the plugin
\* commands.  delete without a plugin is `plugin uninstall all`.
Begin(p) ==
  /\ At(p, "idle")
  /\ ops[p] < MaxOps
  /\ \E kind \in Kinds, pl \in Plugins \cup {NoPlugin} :
       /\ kind \in NamesPlugin => pl # NoPlugin
       /\ kind \notin NamesPlugin \cup {"delete"} => pl = NoPlugin
       /\ Become(p, [Idle EXCEPT !.pc = Entry[kind], !.kind = kind, !.plugin = pl,
                       !.sess = IF kind = "fix" THEN "fix" ELSE "none",
                       !.ctxs = IF kind = "delete" THEN ActiveContexts \cup {StandAlone}
                                ELSE {}])
  /\ ops' = [ops EXCEPT ![p] = @ + 1]
  /\ UNCHANGED <<disk, bins>>

\* The process exits; a lock an error path left behind goes with it.
Exit(p) ==
  /\ At(p, "idle")
  /\ \E i \in Inodes : lock[i] = p
  /\ lock' = ReleaseAll(p)
  /\ UNCHANGED <<file, content, bins, proc, ops>>

\* Ctrl+C (root.go's interruptHandle), a kill or a power failure.
Crash(p) ==
  /\ "crash" \in Faults
  /\ ~At(p, "idle")
  /\ lock' = ReleaseAll(p)
  /\ Finish(p)
  /\ UNCHANGED <<file, content, bins, ops>>

-----------------------------------------------------------------------------
(* Update sessions: NewContextCatalogUpdater .. Unlock, and the two clean-ups
   of cleanup.go, which call getCatalogCache(true) themselves *)

\* The contexts of a loop over the active contexts with "" appended: "" last.
NextContexts(p) ==
  IF proc[p].ctxs = {StandAlone} THEN {StandAlone} ELSE proc[p].ctxs \ {StandAlone}

\* lockedfile.Edit opens the file, creating it when it is missing ...
OpenForUpdate(p) ==
  /\ At(p, "wopen")
  /\ \E i \in Inodes :
     \E n \in IF proc[p].sess = "delete" THEN NextContexts(p) ELSE {StandAlone} :
       /\ IF file = NoInode
          THEN FreeInode(i) /\ file' = i /\ content' = [content EXCEPT ![i] = Blank]
          ELSE i = file /\ UNCHANGED <<file, content>>
       /\ Become(p, [proc[p] EXCEPT !.pc = "wlock", !.fd = i, !.ctx = n,
                       !.ctxs = IF proc[p].sess = "delete" THEN @ \ {n} ELSE @])
  /\ UNCHANGED <<lock, bins, ops>>

\* Mutant: the catalog is read and edited without waiting for the lock.
LockForUpdate_NoWait(p) ==
  /\ At(p, "wlock")
  /\ content[proc[p].fd] # Torn
  /\ lock' = [lock EXCEPT ![proc[p].fd] = p]
  /\ Become(p, [proc[p] EXCEPT !.pc = "edit", !.cat = Decode(content[proc[p].fd]),
                  !.left = IF proc[p].sess = "delete" THEN proc[p].plugs ELSE @])
  /\ UNCHANGED <<file, content, bins, ops>>

\* ... and waits for the write lock of what it opened; then the bytes are read
\* and decoded.
LockForUpdate(p) ==
  /\ At(p, "wlock")
  /\ lock[proc[p].fd] = NoProc
  /\ content[proc[p].fd] # Torn
  /\ lock' = [lock EXCEPT ![proc[p].fd] = p]
  /\ Become(p, [proc[p] EXCEPT !.pc = "edit", !.cat = Decode(content[proc[p].fd]),
                  !.left = IF proc[p].sess = "delete" THEN proc[p].plugs ELSE @])
  /\ UNCHANGED <<file, content, bins, ops>>

\* Where a session leads: migrate to the read of GetInstalledPlugins, a
\* refresh to the next plugin, a delete to the next context.
AfterSession(p) ==
  CASE proc[p].sess = "migrate" -> [proc[p] EXCEPT !.pc = "ropen", !.sess = "none", !.fd = NoInode,
                                                  !.ctxs = {}]
    [] proc[p].sess = "refresh" -> [proc[p] EXCEPT !.pc = "next", !.fd = NoInode]
    [] proc[p].sess = "delete" /\ proc[p].ctxs # {} ->
         [proc[p] EXCEPT !.pc = "wopen", !.fd = NoInode]
    [] OTHER -> Idle

\* A file that cannot be decoded: every caller returns or goes on without
\* closing the file, so the process keeps the lock.
LockDecodeError(p) ==
  /\ At(p, "wlock")
  /\ lock[proc[p].fd] = NoProc
  /\ content[proc[p].fd] = Torn
  /\ proc[p].sess # "refresh"
  /\ lock' = [lock EXCEPT ![proc[p].fd] = p]
  /\ Become(p, AfterSession(p))
  /\ UNCHANGED <<file, content, bins, ops>>

\* refreshPluginCatalog then calls Unlock on a nil *ContextCatalog: the process dies.
RefreshDecodeError(p) ==
  /\ At(p, "wlock")
  /\ lock[proc[p].fd] = NoProc
  /\ content[proc[p].fd] = Torn
  /\ proc[p].sess = "refresh"
  /\ lock' = ReleaseAll(p)
  /\ Finish(p)
  /\ UNCHANGED <<file, content, bins, ops>>

\* saveCatalogCache truncates the file ...
Save(p, state) ==
  /\ content' = [content EXCEPT ![proc[p].fd] = Blank]
  /\ Become(p, [state EXCEPT !.pc = "write"])
  /\ UNCHANGED <<file, lock, bins, ops>>

\* The loop of MigrateContextPluginsAsStandaloneIfNeeded: one active context.
MigrateOne(p) ==
  /\ At(p, "edit")
  /\ proc[p].sess = "migrate"
  /\ \E ac \in proc[p].ctxs :
       Become(p, [proc[p] EXCEPT !.cat = MigrateContext(@, ac), !.ctxs = @ \ {ac}])
  /\ UNCHANGED <<disk, bins, ops>>

MigrateSave(p) ==
  /\ At(p, "edit")
  /\ proc[p].sess = "migrate"
  /\ proc[p].ctxs = {}
  /\ Save(p, proc[p])

FixSave(p) ==
  /\ At(p, "edit")
  /\ proc[p].sess = "fix"
  /\ Save(p, [proc[p] EXCEPT !.cat = DeleteIncorrectPluginEntries(@)])

UpsertSave(p) ==
  /\ At(p, "edit")
  /\ proc[p].sess \in {"upsert", "refresh"}
  /\ Save(p, [proc[p] EXCEPT !.cat = Upsert(@, proc[p].plugin)])

\* One ContextCatalog.Delete of doDeletePluginsFromCatalog's inner loop.
DeleteSave(p) ==
  /\ At(p, "edit")
  /\ proc[p].sess = "delete"
  /\ \E pl \in proc[p].left :
       Save(p, [proc[p] EXCEPT !.cat = Delete(@, proc[p].ctx, KeyOf(pl)), !.left = @ \ {pl}])

AfterWrite(p) ==
  IF proc[p].sess = "delete" /\ proc[p].left # {} THEN GoTo(p, "edit") ELSE GoTo(p, "unlock")

\* ... then writes the encoded catalog.
Write(p) ==
  /\ At(p, "write")
  /\ content' = [content EXCEPT ![proc[p].fd] = proc[p].cat]
  /\ AfterWrite(p)
  /\ UNCHANGED <<file, lock, bins, ops>>

\* A full disk: nothing, or only a part, is written.  No caller gives up.
WriteFail(p) ==
  /\ "writefail" \in Faults
  /\ At(p, "write")
  /\ \E x \in {Blank, Torn} : content' = [content EXCEPT ![proc[p].fd] = x]
  /\ AfterWrite(p)
  /\ UNCHANGED <<file, lock, bins, ops>>

\* Mutant: the session ends without closing the file.
Unlock_Forgets(p) ==
  /\ At(p, "unlock")
  /\ Become(p, AfterSession(p))
  /\ UNCHANGED <<file, content, lock, bins, ops>>

Unlock(p) ==
  /\ At(p, "unlock")
  /\ lock' = [lock EXCEPT ![proc[p].fd] = NoProc]
  /\ Become(p, AfterSession(p))
  /\ UNCHANGED <<file, content, bins, ops>>

-----------------------------------------------------------------------------
(* Read sessions: NewContextCatalog *)

\* GetInstalledPlugins migrates first when some context is active.
MigrateIfNeeded(p) ==
  /\ At(p, "listing")
  /\ Become(p, IF ActiveContexts = {} THEN [proc[p] EXCEPT !.pc = "ropen"]
               ELSE [proc[p] EXCEPT !.pc = "wopen", !.sess = "migrate", !.ctxs = ActiveContexts])
  /\ UNCHANGED <<disk, bins, ops>>

\* The filter of matchPluginsForDeletion; no plugin named means all of them.
Matches(p, pl) ==
  \/ proc[p].plugin = NoPlugin
  \/ /\ pl.name = proc[p].plugin.name
     /\ proc[p].plugin.target \in {TargetUnknown, pl.target}

\* What a process does with the plugins it read; a catalog that cannot be
\* decoded ends a list or a refresh and counts as empty elsewhere.
AfterRead(p, plugins, n) ==
  CASE proc[p].kind = "refresh" /\ plugins # {} ->
         [proc[p] EXCEPT !.pc = "next", !.fd = NoInode, !.plugs = plugins, !.left = plugins]
    [] proc[p].kind = "install" ->
         [proc[p] EXCEPT !.pc = IF proc[p].found THEN "wopen" ELSE "fetch", !.fd = NoInode,
                         !.sess = "upsert"]
    [] proc[p].kind = "delete" ->
         [proc[p] EXCEPT !.pc = IF proc[p].ctxs \subseteq {n} THEN "confirm" ELSE "ropen",
                         !.fd = NoInode, !.ctxs = @ \ {n},
                         !.plugs = @ \cup {pl \in plugins : Matches(p, pl)}]
    [] OTHER -> Idle

ReadContexts(p) == IF proc[p].kind = "delete" THEN NextContexts(p) ELSE {StandAlone}

\* lockedfile.Read opens the file; a missing one is an empty catalog ...
OpenForRead(p) ==
  /\ At(p, "ropen")
  /\ IF file = NoInode
     THEN \E n \in ReadContexts(p) : Become(p, AfterRead(p, {}, n))
     ELSE Become(p, [proc[p] EXCEPT !.pc = "rlock", !.fd = file])
  /\ UNCHANGED <<disk, bins, ops>>

\* ... and reads it under the read lock, released at once.
Read(p) ==
  /\ At(p, "rlock")
  /\ lock[proc[p].fd] = NoProc
  /\ \E n \in ReadContexts(p) :
       Become(p, AfterRead(p, IF content[proc[p].fd] = Torn THEN {}
                              ELSE List(Decode(content[proc[p].fd]), n), n))
  /\ UNCHANGED <<disk, bins, ops>>

-----------------------------------------------------------------------------
(* The operations of pkg/pluginmanager and pkg/globalinit between sessions *)

\* getPluginFromCache: the binary is there and answers `info`.
Lookup(p) ==
  /\ At(p, "lookup")
  /\ Become(p, [proc[p] EXCEPT !.pc = "listing", !.found = bins[proc[p].plugin] = "ok"])
  /\ UNCHANGED <<disk, bins, ops>>

\* Mutant: the catalog is updated before the binary is in place.
Fetch_CatalogFirst(p) ==
  /\ At(p, "fetch")
  /\ Become(p, [proc[p] EXCEPT !.pc = "wopen", !.sess = "upsert"])
  /\ UNCHANGED <<disk, bins, ops>>

\* fetchAndVerifyPlugin succeeds, or the installation ends with its error.
Fetch(p) ==
  /\ At(p, "fetch")
  /\ \/ GoTo(p, "binopen")
     \/ Finish(p)
  /\ UNCHANGED <<disk, bins, ops>>

\* installAndDescribePlugin: os.WriteFile creates or truncates the binary ...
BinOpen(p) ==
  /\ At(p, "binopen")
  /\ bins' = [bins EXCEPT ![proc[p].plugin] = "partial"]
  /\ Become(p, [proc[p] EXCEPT !.pc = "binwrite", !.linked = TRUE])
  /\ UNCHANGED <<disk, ops>>

\* ... writes it, to a file `plugin clean` may have unlinked, or fails ...
BinWrite(p) ==
  /\ At(p, "binwrite")
  /\ \/ /\ bins' = IF proc[p].linked THEN [bins EXCEPT ![proc[p].plugin] = "ok"] ELSE bins
        /\ GoTo(p, "describe")
     \/ /\ "writefail" \in Faults
        /\ bins' = bins
        /\ Finish(p)
  /\ UNCHANGED <<disk, ops>>

\* ... and describePlugin runs the binary, before the catalog is updated.
Describe(p) ==
  /\ At(p, "describe")
  /\ IF bins[proc[p].plugin] = "ok"
     THEN Become(p, [proc[p] EXCEPT !.pc = "wopen", !.sess = "upsert"])
     ELSE Finish(p)
  /\ UNCHANGED <<disk, bins, ops>>

\* DeletePlugin: nothing found, several targets, or the user declines, end it.
Confirm(p) ==
  /\ At(p, "confirm")
  /\ \/ Finish(p)
     \/ /\ proc[p].plugs # {}
        /\ \/ proc[p].plugin = NoPlugin
           \/ \A q, r \in proc[p].plugs : q.target = r.target
        /\ Become(p, [proc[p] EXCEPT !.pc = "wopen", !.sess = "delete",
                        !.ctxs = ActiveContexts \cup {StandAlone}])
  /\ UNCHANGED <<disk, bins, ops>>

\* refreshPluginCatalog: the next plugin, skipped when its `info` fails.
RefreshNext(p) ==
  /\ At(p, "next")
  /\ \/ proc[p].left = {} /\ Finish(p)
     \/ \E pl \in proc[p].left :
          Become(p, IF bins[pl] = "ok"
                    THEN [proc[p] EXCEPT !.pc = "wopen", !.sess = "refresh", !.plugin = pl,
                                         !.left = @ \ {pl}]
                    ELSE [proc[p] EXCEPT !.left = @ \ {pl}, !.plugs = @ \ {pl}])
  /\ UNCHANGED <<disk, bins, ops>>

\* Clean: the catalog goes first, without its lock ...
CleanCatalogCache(p) ==
  /\ At(p, "cleancat")
  /\ file' = NoInode
  /\ GoTo(p, "cleanbins")
  /\ UNCHANGED <<content, lock, bins, ops>>

\* ... then the plugin root.
CleanBinaries(p) ==
  /\ At(p, "cleanbins")
  /\ bins' = [pl \in Plugins |-> "absent"]
  /\ proc' = [q \in Procs |-> IF q = p THEN Idle ELSE [proc[q] EXCEPT !.linked = FALSE]]
  /\ UNCHANGED <<disk, ops>>

-----------------------------------------------------------------------------
Progress(p) ==
  \/ OpenForUpdate(p) \/ LockForUpdate(p) \/ LockDecodeError(p) \/ RefreshDecodeError(p)
  \/ MigrateOne(p) \/ MigrateSave(p) \/ FixSave(p) \/ UpsertSave(p) \/ DeleteSave(p)
  \/ Write(p) \/ Unlock(p)
  \/ MigrateIfNeeded(p) \/ OpenForRead(p) \/ Read(p)
  \/ Lookup(p) \/ Fetch(p) \/ BinOpen(p) \/ BinWrite(p) \/ Describe(p)
  \/ Confirm(p) \/ RefreshNext(p) \/ CleanCatalogCache(p) \/ CleanBinaries(p) \/ Exit(p)

Step(p) == Begin(p) \/ Crash(p) \/ WriteFail(p) \/ Progress(p)

\* All processes have ended: the bound on operations is reached.
Terminated ==
  /\ \A p \in Procs : At(p, "idle") /\ ops[p] = MaxOps /\ \A i \in Inodes : lock[i] # p
  /\ UNCHANGED vars

Next == Terminated \/ \E p \in Procs : Step(p)

\* A process that can take a step goes on.  Weak fairness is enough for the
\* locks too: with MaxOps operations each, the others stop taking them.
Fairness == \A p \in Procs : WF_vars(Progress(p))

Spec == Init /\ [][Next]_vars
FairSpec == Spec /\ Fairness

-----------------------------------------------------------------------------
(* Properties *)

\* The process is between the lock and the release of an update session.
InSession(p) == proc[p].pc \in {"edit", "write", "unlock"}

\* A session that has truncated the file, or that writes it once more after a
\* deletion whether or not the write before succeeded.
Deciding(p) == proc[p].fd = file /\ (At(p, "write") \/ (At(p, "edit") /\ proc[p].sess = "delete"))

\* The catalog the next reader will see: what the holder of the lock has
\* decided on while it writes the file, else what the file says.
Visible ==
  IF file = NoInode THEN newSharedCatalog
  ELSE IF \E p \in Procs : Deciding(p) THEN proc[CHOOSE p \in Procs : Deciding(p)].cat
  ELSE IF content[file] = Torn THEN newSharedCatalog
  ELSE Decode(content[file])

\* The keys an update session is about.
Scope(p) ==
  CASE proc[p].sess \in {"upsert", "refresh"} ->
         {KeyOf(proc[p].plugin)} \cup Superseded(proc[p].plugin)
    [] proc[p].sess = "delete" -> {KeyOf(pl) : pl \in proc[p].plugs}
    [] proc[p].sess = "fix" -> {k \in Keys : k[2] = TargetUnknown}
    [] proc[p].sess = "migrate" ->
         {k \in Keys : \E ac \in ActiveContexts : Visible.server[ac][k] # NoPlugin}
    [] OTHER -> {}

\* The catalogs on disk and in the memory of the processes associate a plugin
\* only under its own key and with a PluginInfo, so ContextCatalog.List never
\* returns the zero PluginInfo for a path IndexByPath lacks: after any
\* interleaving of installs, deletes, migrations, clean-ups and crashes.
CatalogsWellFormed ==
  /\ \A i \in Inodes : content[i] \notin {Blank, Torn} => WellFormed(content[i])
  /\ \A p \in Procs : WellFormed(proc[p].cat)

\* No lost updates.  What readers see changes only by the save of an update
\* session, and only under the keys that session is about: parallel installs
\* and deletes of other plugins survive (catalog_update_parallel_test.go).
UpdatesAreIsolated ==
  [][\A n \in AllContexts, k \in Keys :
       Association(Visible, n)[k] # Association(Visible, n)[k]' =>
         \E p \in Procs : /\ At(p, "edit") /\ At(p, "write")'
                          /\ proc[p].fd = file
                          /\ k \in Scope(p)]_vars

\* When a session that finished its saves is about to unlock, the file says
\* what the session was for: the plugin installed and what it supersedes gone,
\* the matched plugins deleted, no name listed twice after the clean-up,
\* nothing left in an active context after the migration.
CommittedAtUnlock ==
  \A p \in Procs : At(p, "unlock") =>
    LET c == Decode(content[proc[p].fd]) IN
    /\ proc[p].fd = file
    /\ proc[p].sess \in {"upsert", "refresh"} =>
         /\ c.standAlone[KeyOf(proc[p].plugin)] = proc[p].plugin
         /\ \A k \in Superseded(proc[p].plugin) : c.standAlone[k] = NoPlugin
    /\ proc[p].sess = "delete" =>
         \A pl \in proc[p].plugs : Association(c, proc[p].ctx)[KeyOf(pl)] = NoPlugin
    /\ proc[p].sess = "fix" =>
         \A n \in AllContexts, name \in Names : ~Doubled(Association(c, n), name)
    /\ proc[p].sess = "migrate" => \A ac \in ActiveContexts : c.server[ac] = NoAssociation

\* A plugin readers see has its binary, or somebody is writing it again: the
\* binary is described before the catalog is updated, and `plugin clean`
\* removes the catalog before the binaries.
ListedAreRunnable ==
  \A pl \in Associated(Visible) :
    \/ bins[pl] = "ok"
    \/ \E p \in Procs : At(p, "binwrite") /\ proc[p].plugin = pl /\ proc[p].linked

\* A process holds a lock outside an update session only on a file it could not
\* decode: every other path of a session, failed saves included, unlocks.
LocksAreAccountedFor ==
  \A i \in Inodes, p \in Procs : lock[i] = p =>
    (InSession(p) /\ proc[p].fd = i) \/ content[i] = Torn

\* Every operation a process starts comes to its end.
OperationsFinish == \A p \in Procs : ~At(p, "idle") ~> At(p, "idle")

\* Readers see the atomic operations of the abstract store.
Store == INSTANCE InstalledPlugins WITH installed <- Visible.standAlone, scoped <- Visible.server
RefinesStore == Store!Spec

=============================================================================
