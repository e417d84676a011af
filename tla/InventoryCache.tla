--------------------------- MODULE InventoryCache ---------------------------
(***************************************************************************)
(* The local copy of a plugin inventory (pkg/discovery/oci_dbbacked.go):   *)
(* the database and the central configuration taken out of an OCI image,   *)
(* the file named after the image's digest that says what was downloaded   *)
(* and from where, the one named after the digest of the optional metadata *)
(* image of an air-gapped repository, and the commands that refresh and    *)
(* read them.  Nothing is locked.                                          *)
(***************************************************************************)
EXTENDS Integers, FiniteSets

CONSTANTS
  Procs,         \* CLI processes
  Images,        \* URIs the discovery source may have
  DefaultImage,  \* the one `plugin source init` configures
  Airgapped,     \* those with a metadata image
  Publishable,   \* those whose content changes while the CLI is used
  InitRegistry,  \* what the registry may hold to begin with
  MaxRev,        \* last revision of an image: a bound
  Kinds,         \* the operations processes perform
  Faults,        \* the kinds of faults that happen
  MaxFaults,     \* how many faults happen: a bound
  Missing,       \* the file does not exist
  Blank,         \* a file of length zero
  Torn           \* a file cut short or overwritten in part

\* A digest is the revision it identifies: digest.<rev> names the image,
\* metadata.digest.<rev> the metadata image, metadata.digest.none its absence.
Revs == 1..MaxRev
none == 0
\* What makes the content of a database: the image and the metadata applied.
Content == [main : Revs, meta : Revs \cup {none}]

FaultKinds == {"crash", "fail", "metafail", "configfail"}
Operations == {"list", "local", "update", "init", "daily", "invalidate", "clean", "delete"}

ASSUME ConstantsAssumption ==
  /\ DefaultImage \in Images
  /\ Airgapped \subseteq Images /\ Publishable \subseteq Images
  /\ MaxRev \in Nat \ {0} /\ MaxFaults \in Nat
  /\ Kinds \subseteq Operations /\ Faults \subseteq FaultKinds
  /\ {Missing, Blank, Torn} \cap (Content \cup Images \cup Revs) = {}
  /\ Missing # Blank /\ Missing # Torn /\ Blank # Torn

ASSUME RegistryAssumption ==
  \A r \in InitRegistry :
    /\ r \in [Images -> Content]
    /\ \A u \in Images \ Airgapped : r[u].meta = none

-----------------------------------------------------------------------------
VARIABLES
  reg,      \* what each image is in the registry
  source,   \* the image of the configured discovery source, Missing: there is none
  db,       \* plugin_inventory.db
  central,  \* central_config.yaml
  digest,   \* digest.<rev>: the URI written in it, or Missing
  metas,    \* the metadata.digest.<rev> that exist
  fresh,    \* the digest files younger than the TTL
  proc,     \* the state of each process
  faults    \* how many faults so far, of which kinds, and whose refresh they stopped half way

cache == <<db, central, digest, metas, fresh>>
vars == <<reg, source, cache, proc, faults>>

PCs == {"idle", "ttl", "digest", "glob", "check", "metadigest", "metaglob", "metacheck",
        "reuse", "verify", "download", "metadownload", "copy", "write", "config", "reset",
        "create", "metacreate", "query", "save"}

\* The state of a process: the image it discovers, the digests it resolved, the
\* digest files it found, which of them are to be created, what it downloaded.
\* via tells how it came to read the database and seen what the image was since
\* the refresh began.
ProcState ==
  [pc      : PCs,
   kind    : Operations \cup {"none"},
   image   : Images,
   main    : Revs,
   meta    : Revs \cup {none},
   found   : SUBSET (Revs \cup {none}),
   newMain : BOOLEAN,
   newMeta : BOOLEAN,
   tmp     : Content,
   via     : {"cache", "ttl", "refresh"},
   seen    : SUBSET Content]

NoContent == [main |-> 1, meta |-> none]
Idle ==
  [pc |-> "idle", kind |-> "none", image |-> DefaultImage, main |-> 1, meta |-> none,
   found |-> {}, newMain |-> FALSE, newMeta |-> FALSE, tmp |-> NoContent,
   via |-> "cache", seen |-> {}]

\* The type invariant.
TypeOK ==
  /\ reg \in [Images -> Content]
  /\ source \in Images \cup {Missing}
  /\ db \in Content \cup {Missing, Blank, Torn}
  /\ central \in Revs \cup {Missing, Torn}
  /\ digest \in [Revs -> Images \cup {Missing}]
  /\ metas \subseteq Revs \cup {none}
  /\ fresh \subseteq Revs
  /\ proc \in [Procs -> ProcState]
  /\ faults \in [count : 0..MaxFaults, kinds : SUBSET FaultKinds, half : SUBSET Images]

\* The cache starts empty, or as a CLI before 1.3 left it: without the central
\* configuration.
Init ==
  /\ reg \in InitRegistry
  /\ source \in Images
  /\ central = Missing
  /\ \/ /\ db = Missing
        /\ digest = [d \in Revs |-> Missing]
        /\ metas = {}
     \/ /\ db = reg[source]
        /\ digest = [d \in Revs |-> IF d = reg[source].main THEN source ELSE Missing]
        /\ metas = {reg[source].meta}
  /\ fresh = {}
  /\ proc = [p \in Procs |-> Idle]
  /\ faults = [count |-> 0, kinds |-> {}, half |-> {}]

-----------------------------------------------------------------------------
(* Files of the cache *)

\* filepath.Glob("digest.*")
Digests == {d \in Revs : digest[d] # Missing}

DirExists_Always == TRUE
\* The directory is made with the database and goes away with it.
DirExists == db # Missing

\* os.Create(digest.<d>), then the URI: nothing happens without the directory.
CreateDigest(d, image) ==
  IF DirExists
  THEN /\ digest' = [digest EXCEPT ![d] = image]
       /\ fresh' = fresh \cup {d}
  ELSE UNCHANGED <<digest, fresh>>

RemoveDigests(ds) ==
  /\ digest' = [d \in Revs |-> IF d \in ds THEN Missing ELSE digest[d]]
  /\ fresh' = fresh \ ds

cacheTTLExpired_AnyURI(image) == ~ \E d \in Revs : Digests = {d} /\ d \in fresh
cacheTTLExpired(image) ==
  ~ \E d \in Revs : Digests = {d} /\ digest[d] = image /\ d \in fresh

\* The files whose time stamp resetCacheTTL sets.
resetCacheTTL == IF Cardinality(Digests) = 1 THEN fresh \cup Digests ELSE fresh

-----------------------------------------------------------------------------
(* Steps of one process *)

Become(p, state) == proc' = [proc EXCEPT ![p] = state]
At(p, where) == proc[p].pc = where
GoTo(p, where) == Become(p, [proc[p] EXCEPT !.pc = where])
Finish(p) == Become(p, Idle)

\* A refresh that finds the right main digest file writes its URI there at
\* once, before it looks at the metadata and replaces the database.
Halfway(p) ==
  /\ ~proc[p].newMain
  /\ proc[p].pc \in {"metadigest", "metaglob", "metacheck", "verify", "download", "metadownload",
                     "copy", "write"}

Fault(p, kind) ==
  /\ kind \in Faults
  /\ faults.count < MaxFaults
  /\ faults' = [count |-> faults.count + 1,
                kinds |-> faults.kinds \cup {kind},
                half  |-> faults.half \cup (IF kind \in {"crash", "fail"} /\ Halfway(p)
                                           THEN {proc[p].image} ELSE {})]

\* The refresh of an image ends well.
Refreshed(p) ==
  /\ Become(p, [proc[p] EXCEPT !.pc = "query", !.via = "refresh"])
  /\ faults' = [faults EXCEPT !.half = faults.half \ {proc[p].image}]

\* The command ends with an error and leaves the cache as it is.
Fail(p) ==
  /\ Fault(p, "fail")
  /\ Finish(p)
  /\ UNCHANGED <<reg, source, cache>>

\* A command on an image starts.
Discover(p, kind, u, pc) ==
  Become(p, [Idle EXCEPT !.kind = kind, !.image = u, !.seen = {reg[u]}, !.pc = pc])

\* list is any command that reads the inventory, local one that reads the cache as
\* it is: shell completion and the search for essential plugins.
Begin(p) ==
  /\ At(p, "idle") /\ source # Missing
  /\ \/ "list" \in Kinds /\ Discover(p, "list", source, "ttl")
     \/ "local" \in Kinds /\ Discover(p, "local", source, "query")
  /\ UNCHANGED <<reg, source, cache, faults>>

\* `plugin source update` checks an image, whatever the TTL, before it is configured;
\* `plugin source init` configures the default one and then refreshes.
newUpdateDiscoverySourceCmd(p) ==
  /\ At(p, "idle") /\ "update" \in Kinds /\ source # Missing
  /\ \E u \in Images : Discover(p, "update", u, "digest")
  /\ UNCHANGED <<reg, source, cache, faults>>

newInitDiscoverySourceCmd(p) ==
  /\ At(p, "idle") /\ "init" \in Kinds
  /\ source' = DefaultImage
  /\ Discover(p, "init", DefaultImage, "digest")
  /\ UNCHANGED <<reg, cache, faults>>

\* `plugin source delete` leaves the cache alone, and the default source is not
\* configured again by other commands.
newDeleteDiscoverySourceCmd(p) ==
  /\ At(p, "idle") /\ "delete" \in Kinds /\ source # Missing
  /\ source' = Missing
  /\ UNCHANGED <<reg, cache, proc, faults>>

\* Before a command the CLI refreshes a cache that was not looked at for a day.
RefreshDatabase(p) ==
  /\ At(p, "idle") /\ source # Missing
  /\ "daily" \in Kinds
  /\ Cardinality(Digests) = 1 => Digests \cap fresh = {}
  /\ Discover(p, "daily", source, "ttl")
  /\ UNCHANGED <<reg, source, cache, faults>>

\* The initializer for a cache without central configuration.
invalidateInventoryCache(p) ==
  /\ At(p, "idle") /\ source # Missing
  /\ "invalidate" \in Kinds
  /\ central = Missing
  /\ Discover(p, "invalidate", source, "digest")
  /\ UNCHANGED <<reg, source, cache, faults>>

\* `plugin clean` removes the directory.
Clean(p) ==
  /\ At(p, "idle")
  /\ "clean" \in Kinds
  /\ db' = Missing /\ central' = Missing
  /\ RemoveDigests(Revs)
  /\ metas' = {}
  /\ UNCHANGED <<reg, source, proc, faults>>

\* fetchInventoryImage uses the cache as it is while the TTL lasts.
CheckTTL(p) ==
  /\ At(p, "ttl")
  /\ Become(p, IF cacheTTLExpired(proc[p].image)
               THEN [proc[p] EXCEPT !.pc = "digest"]
               ELSE [proc[p] EXCEPT !.pc = "query", !.via = "ttl"])
  /\ UNCHANGED <<reg, source, cache, faults>>

GetImageDigest(p) ==
  /\ At(p, "digest")
  /\ \/ /\ Become(p, [proc[p] EXCEPT !.pc = "glob", !.main = reg[proc[p].image].main])
        /\ UNCHANGED <<reg, source, cache, faults>>
     \/ Fail(p)

\* checkDigestFileExistence looks for the digest files...
Glob(p) ==
  /\ \/ At(p, "glob") /\ Become(p, [proc[p] EXCEPT !.pc = "check", !.found = Digests])
     \/ At(p, "metaglob") /\ Become(p, [proc[p] EXCEPT !.pc = "metacheck", !.found = metas])
  /\ UNCHANGED <<reg, source, cache, faults>>

\* The name of the one file found is not compared.
Unchanged_AnyDigest(p, rev) == proc[p].kind # "invalidate" /\ Cardinality(proc[p].found) = 1
\* ... and keeps the one that exists if it is the right one.
Unchanged(p, rev) == proc[p].kind # "invalidate" /\ proc[p].found = {rev}

CheckMain(p) ==
  LET same == Unchanged(p, proc[p].main)
  IN  /\ At(p, "check")
      /\ IF same THEN CreateDigest(proc[p].main, proc[p].image)
                 ELSE RemoveDigests(proc[p].found)
      /\ Become(p, [proc[p] EXCEPT !.pc = "metadigest", !.newMain = ~same, !.found = {}])
      /\ UNCHANGED <<reg, source, db, central, metas, faults>>

\* The error of an image that cannot be reached is taken for its absence.
GetMetadataDigest(p) ==
  /\ At(p, "metadigest")
  /\ \/ /\ Become(p, [proc[p] EXCEPT !.pc = "metaglob", !.meta = reg[proc[p].image].meta])
        /\ UNCHANGED faults
     \/ /\ reg[proc[p].image].meta # none
        /\ Fault(p, "metafail")
        /\ Become(p, [proc[p] EXCEPT !.pc = "metaglob", !.meta = none])
  /\ UNCHANGED <<reg, source, cache>>

CheckMeta(p) ==
  LET same == Unchanged(p, proc[p].meta)
  IN  /\ At(p, "metacheck")
      /\ metas' = IF same THEN metas ELSE metas \ proc[p].found
      /\ Become(p, [proc[p] EXCEPT !.pc = IF same /\ ~proc[p].newMain THEN "reuse" ELSE "verify",
                                   !.newMeta = ~same, !.found = {}])
      /\ UNCHANGED <<reg, source, db, central, digest, fresh, faults>>

Reuse(p) ==
  /\ At(p, "reuse")
  /\ fresh' = resetCacheTTL
  /\ Refreshed(p)
  /\ UNCHANGED <<reg, source, db, central, digest, metas>>

\* The digest files are created before the database is downloaded.
Verify_CreatesFirst(p) ==
  /\ At(p, "verify")
  /\ IF proc[p].newMain THEN CreateDigest(proc[p].main, proc[p].image)
                        ELSE UNCHANGED <<digest, fresh>>
  /\ metas' = IF proc[p].newMeta /\ DirExists THEN metas \cup {proc[p].meta} ELSE metas
  /\ GoTo(p, "download")
  /\ UNCHANGED <<reg, source, db, central, faults>>
\* An image that is not signed ends the process.
Verify(p) ==
  /\ At(p, "verify")
  /\ \/ GoTo(p, "download") /\ UNCHANGED <<reg, source, cache, faults>>
     \/ Fail(p)

Download(p) ==
  /\ At(p, "download")
  /\ \/ /\ Become(p, [proc[p] EXCEPT !.pc = "metadownload",
                                     !.tmp.main = reg[proc[p].image].main])
        /\ UNCHANGED <<reg, source, cache, faults>>
     \/ Fail(p)

\* Here too an error is taken for the absence of metadata; one in applying the
\* metadata to the database is not.
DownloadMetadata(p) ==
  /\ At(p, "metadownload")
  /\ \/ /\ Become(p, [proc[p] EXCEPT !.pc = "copy", !.tmp.meta = reg[proc[p].image].meta])
        /\ UNCHANGED <<reg, source, cache, faults>>
     \/ /\ reg[proc[p].image].meta # none
        /\ Fault(p, "metafail")
        /\ Become(p, [proc[p] EXCEPT !.pc = "copy", !.tmp.meta = none])
        /\ UNCHANGED <<reg, source, cache>>
     \/ reg[proc[p].image].meta # none /\ Fail(p)

\* utils.CopyFile truncates the database...
CopyOpen(p) ==
  /\ At(p, "copy")
  /\ db' = Blank
  /\ GoTo(p, "write")
  /\ UNCHANGED <<reg, source, central, digest, metas, fresh, faults>>

\* The error of the write is dropped.
CopyWrite_NoError(p) ==
  /\ At(p, "write")
  /\ \/ db' = (IF db = Missing THEN Missing ELSE proc[p].tmp) /\ UNCHANGED faults
     \/ Fault(p, "fail") /\ db' = (IF db = Missing THEN Missing ELSE Torn)
  /\ GoTo(p, "config")
  /\ UNCHANGED <<reg, source, central, digest, metas, fresh>>
\* ... and writes it, in one write from the beginning of the file: SQLite takes
\* the size of the database from its header and ignores what a longer database
\* written meanwhile leaves behind.  A write that fails leaves a part.  After
\* `plugin clean` the write is to a file without a name.
CopyWrite(p) ==
  /\ At(p, "write")
  /\ \/ /\ db' = IF db = Missing THEN Missing ELSE proc[p].tmp
        /\ GoTo(p, "config")
        /\ UNCHANGED faults
     \/ /\ Fault(p, "fail")
        /\ db' = IF db = Missing THEN Missing ELSE Torn
        /\ Finish(p)
  /\ UNCHANGED <<reg, source, central, digest, metas, fresh>>

\* An existing central configuration is kept.
setupCentralConfig_Once(p) ==
  /\ At(p, "config")
  /\ central' = IF DirExists /\ central = Missing THEN proc[p].tmp.main ELSE central
  /\ GoTo(p, "reset")
  /\ UNCHANGED <<reg, source, db, digest, metas, fresh, faults>>
\* The central configuration is that of the image, empty if it has none.  An
\* error in copying it is only logged.
setupCentralConfig(p) ==
  /\ At(p, "config")
  /\ \/ /\ central' = IF DirExists THEN proc[p].tmp.main ELSE central
        /\ UNCHANGED faults
     \/ DirExists /\ Fault(p, "configfail") /\ central' = Torn
  /\ GoTo(p, "reset")
  /\ UNCHANGED <<reg, source, db, digest, metas, fresh>>

Reset(p) ==
  /\ At(p, "reset")
  /\ fresh' = resetCacheTTL
  /\ GoTo(p, "create")
  /\ UNCHANGED <<reg, source, db, central, digest, metas, faults>>

CreateMain(p) ==
  /\ At(p, "create")
  /\ IF proc[p].newMain THEN CreateDigest(proc[p].main, proc[p].image)
                        ELSE UNCHANGED <<digest, fresh>>
  /\ GoTo(p, "metacreate")
  /\ UNCHANGED <<reg, source, db, central, metas, faults>>

CreateMeta(p) ==
  /\ At(p, "metacreate")
  /\ metas' = IF proc[p].newMeta /\ DirExists THEN metas \cup {proc[p].meta} ELSE metas
  /\ Refreshed(p)
  /\ UNCHANGED <<reg, source, db, central, digest, fresh>>

\* The plugins or the groups are read; an update that can read them is saved.
Query(p) ==
  /\ At(p, "query")
  /\ IF proc[p].kind = "update" /\ db \in Content THEN GoTo(p, "save") ELSE Finish(p)
  /\ UNCHANGED <<reg, source, cache, faults>>

SetCLIDiscoverySource(p) ==
  /\ At(p, "save")
  /\ source' = proc[p].image
  /\ Finish(p)
  /\ UNCHANGED <<reg, cache, faults>>

\* The user interrupts the command.
Crash(p) ==
  /\ ~At(p, "idle")
  /\ Fault(p, "crash")
  /\ Finish(p)
  /\ UNCHANGED <<reg, source, cache>>

-----------------------------------------------------------------------------
(* The environment *)

\* A new image, or new metadata, is pushed.  A revision never comes back.
Publish(u) ==
  /\ u \in Publishable
  /\ \E part \in {"main"} \cup (IF u \in Airgapped THEN {"meta"} ELSE {}) :
       /\ reg[u][part] < MaxRev
       /\ reg' = [reg EXCEPT ![u][part] = reg[u][part] + 1]
  /\ proc' = [p \in Procs |->
                IF proc[p].pc # "idle" /\ proc[p].image = u
                THEN [proc[p] EXCEPT !.seen = proc[p].seen \cup {reg'[u]}] ELSE proc[p]]
  /\ UNCHANGED <<source, cache, faults>>

Expire(d) ==
  /\ d \in fresh
  /\ fresh' = fresh \ {d}
  /\ UNCHANGED <<reg, source, db, central, digest, metas, proc, faults>>

Step(p) ==
  \/ CheckTTL(p) \/ GetImageDigest(p) \/ Glob(p) \/ CheckMain(p) \/ GetMetadataDigest(p)
  \/ CheckMeta(p) \/ Reuse(p) \/ Verify(p) \/ Download(p) \/ DownloadMetadata(p)
  \/ CopyOpen(p) \/ CopyWrite(p) \/ setupCentralConfig(p) \/ Reset(p)
  \/ CreateMain(p) \/ CreateMeta(p) \/ Query(p) \/ SetCLIDiscoverySource(p)

Start(p) ==
  \/ Begin(p) \/ newUpdateDiscoverySourceCmd(p) \/ newInitDiscoverySourceCmd(p)
  \/ newDeleteDiscoverySourceCmd(p) \/ RefreshDatabase(p) \/ invalidateInventoryCache(p) \/ Clean(p)

Next ==
  \/ \E p \in Procs : Start(p) \/ Step(p) \/ Crash(p)
  \/ \E u \in Images : Publish(u)
  \/ \E d \in Revs : Expire(d)

Spec == Init /\ [][Next]_vars

\* A command that was started is carried on.
FairSpec == Spec /\ \A p \in Procs : WF_vars(Step(p))

-----------------------------------------------------------------------------
(* Properties *)

\* No metadata image that exists was out of reach.
MetadataReached == "metafail" \notin faults.kinds
Quiet == \A p \in Procs : At(p, "idle")

\* What an image was at some moment while a process was refreshing: the image
\* and its metadata are resolved one after the other.
Mix(contents) ==
  {c \in Content : /\ \E a \in contents : a.main = c.main
                  /\ \E b \in contents : b.meta = c.meta}

\* The digest files describe the database: when they name what the registry
\* holds, checkImageCache finds nothing to do, now and until the image changes
\* again, and so the database must be the one of the registry, unless an error
\* was taken for the absence of metadata.
ValidatedCacheIsCurrent ==
  \A u \in Images :
    MetadataReached /\ Quiet /\ Digests = {reg[u].main} /\ metas = {reg[u].meta} => db = reg[u]

\* The central configuration is that of the image the database is from, unless
\* an older CLI left none or its copy failed, which is not reported: a refresh
\* that stopped between the two copies is done again (setupCentralConfig after
\* setupPluginInventory).
CentralConfigFollows ==
  Quiet /\ Cardinality(Digests) = 1 /\ Cardinality(metas) = 1 /\ db \in Content
    => \/ central \in {db.main, Missing}
       \/ central = Torn /\ "configfail" \in faults.kinds

\* A refresh that ends well leaves a database of what the image was during it.
RefreshedIsCurrent ==
  \A p \in Procs : MetadataReached /\ At(p, "query") /\ proc[p].via = "refresh" => db \in Mix(proc[p].seen)

\* A command that skips the refresh, because the cache is young enough and the
\* URI in the digest file is its own, reads a database of its own image: never
\* that of a source configured before, nor one cut short (with the exception of
\* an error taken for the absence of metadata, as above).  That fails where the
\* last refresh of the image stopped half way: the digest file has its URI and a
\* new time stamp already (checkDigestFileExistence), the database does not have
\* its metadata yet, or is being copied.
TrustedCacheIsOwn ==
  \A p \in Procs :
    MetadataReached /\ At(p, "query") /\ proc[p].via = "ttl" /\ proc[p].image \notin faults.half =>
      /\ db \in Content
      /\ db.main <= reg[proc[p].image].main
      /\ db.meta <= reg[proc[p].image].meta
      /\ proc[p].image \notin Publishable => db = reg[proc[p].image]

\* Once the registry stays the same and faults end, a cache that goes on being
\* refreshed holds the current inventory for good.
Converges ==
  ([]<>\E p \in Procs : At(p, "query") /\ proc[p].via = "refresh")
    => <>[](MetadataReached /\ source # Missing => db = reg[source])
=============================================================================
