------------------------------ MODULE Publishing ------------------------------
(***************************************************************************)
(* From a plugin's binary to an air-gapped repository: the builder plugin  *)
(* packages binaries and publishes them to the central registry, other     *)
(* builder commands publish the inventory database, `tanzu plugin          *)
(* download-bundle` saves plugins, groups and the inventory in a tar file, *)
(* and `tanzu plugin upload-bundle` copies the tar file to a private       *)
(* registry whose metadata image says what it holds.                       *)
(***************************************************************************)
EXTENDS PluginInventory

CONSTANTS
    Versions, Archs,
    Required,       \* MinOSArch: the architectures a plugin must have
    Groups, GroupVersions,
    Essentials,     \* the group that a selective bundle always asks for
    GroupMembers,   \* the member sets that group manifests list
    Publishers,     \* builder processes that change the inventory
    Kinds,          \* the commands of the run
    Overrides,      \* values of the builder's --override flag
    CentralInits,   \* registries that the run starts from
    MaxParallelism, \* GetMaxParallelism, at least 2
    MaxJobs, MaxBundles, MaxFaults, MaxFlags, \* bounds
    None

\* The tables of an inventory and of its metadata, and the registries that have an
\* inventory: a row has its image, and a member of a group has a row.
PluginRow == [plugin : Plugins, version : Versions, arch : Archs, hidden : BOOLEAN]
Member == [plugin : Plugins, version : Seq(Nat), mandatory : BOOLEAN]
GroupRow == [group : Groups, version : GroupVersions, plugin : Plugins, pversion : Seq(Nat),
             mandatory : BOOLEAN, hidden : BOOLEAN]
Database == [plugins : SUBSET PluginRow, groups : SUBSET GroupRow]
Metadata == [plugins : SUBSET (Plugins \X Versions), groups : SUBSET (Groups \X GroupVersions)]
Consistent(db, images) ==
    /\ \A r \in db.plugins : RowKey(r) \in images
    /\ \A g \in db.groups : \E r \in db.plugins :
          r.plugin = g.plugin /\ IsPrefix(g.pversion, r.version)

ASSUME PublishingAssumption ==
    /\ MaxParallelism \in Nat \ {0, 1}
    /\ Versions \subseteq Nat \X Nat /\ IsFiniteSet(Versions)
    /\ \A ms \in GroupMembers : ms \subseteq Member
    /\ Overrides \subseteq BOOLEAN
    /\ \A r \in CentralInits :
          /\ DOMAIN r = {"images", "db"}
          /\ r.db # None => r.db \in Database /\ Consistent(r.db, r.images)
    /\ None \notin Database \cup Metadata

VARIABLES
    rel,    \* the packaging and publishing of one release
    reg,    \* central registry: plugin images and the inventory image
    pub,    \* [Publishers -> the builder command it runs]
    dl,     \* the download-bundle command
    tars,   \* the bundles saved so far
    up,     \* the upload-bundle command
    priv,   \* private registry: images, inventory image, metadata image, and a
            \* history: the bundles whose upload ended
    budget  \* commands and faults left

vars == <<rel, reg, pub, dl, tars, up, priv, budget>>

Units == Plugins \X Archs
Image(u, v) == <<u[1], v, u[2]>>
Images == {Image(u, v) : u \in Units, v \in Versions}

NoRelease == [pc |-> "idle", version |-> None, unit |-> [u \in Units |-> "none"],
              tmp |-> [t \in {} |-> None], pkg |-> [u \in Units |-> None],
              err |-> FALSE, failed |-> FALSE]
NoJob == [pc |-> "idle", op |-> None, db |-> None]
NoDownload == [pc |-> "idle", groups |-> {}, entries |-> {}]
NoUpload == [pc |-> "idle", tar |-> None, todo |-> {}, meta |-> None]

Init ==
    /\ reg \in CentralInits
    /\ rel = NoRelease
    /\ pub = [b \in Publishers |-> NoJob]
    /\ dl = NoDownload
    /\ tars = {}
    /\ up = NoUpload
    /\ priv = [images |-> {}, db |-> None, meta |-> None, bundles |-> {}]
    /\ budget = [jobs |-> MaxJobs, bundles |-> MaxBundles, faults |-> MaxFaults]

\* The release is a stage of its own: it comes first and the other commands wait
\* for it (a bound on the interleavings, not a lock of the code; the others only
\* see the images that it adds).
Quiet == budget.jobs = MaxJobs /\ budget.bundles = MaxBundles
Command(kind) == kind \in Kinds /\ budget.jobs > 0 /\ rel.pc = "idle"
Spend == budget' = [budget EXCEPT !.jobs = @ - 1]
Fault == budget.faults > 0 /\ budget' = [budget EXCEPT !.faults = @ - 1]

-----------------------------------------------------------------------------
(* plugin build, build-package and publish-package.  The goroutines of a    *)
(* stage share a semaphore of MaxParallelism.                               *)

Running == {u \in Units : rel.unit[u] \in {"pushed", "sent"}}
Begin(u) == rel.unit[u] = "todo" /\ Cardinality(Running) < MaxParallelism

\* Compile, buildPlugin, buildTargets: every plugin of the release is built
\* for the chosen architectures, or the builder exits and writes no manifest.
Compile(v, archs) ==
    /\ Command("release") /\ Quiet
    /\ rel' = [NoRelease EXCEPT !.pc = "build", !.version = v,
                  !.unit = [u \in Units |-> IF u[2] \in archs THEN "todo" ELSE "none"]]
    /\ Spend
    /\ UNCHANGED <<reg, pub, dl, tars, up, priv>>

\* The tag in the temporary registry: it has no target.
TemporaryTag(u) == <<NameOf[u[1]], u[2]>>

\* generatePluginPackage pushes the binary to the temporary registry ...
GeneratePush(u) ==
    /\ rel.pc = "build" /\ Begin(u)
    /\ \/ /\ rel' = [rel EXCEPT !.unit[u] = "pushed",
                                !.tmp = (TemporaryTag(u) :> u[1]) @@ @]
          /\ UNCHANGED budget
       \/ /\ Fault
          /\ rel' = [rel EXCEPT !.unit[u] = "done", !.failed = TRUE]
    /\ UNCHANGED <<reg, pub, dl, tars, up, priv>>

\* ... and saves the image it finds under the tag as the package.
GenerateSave(u) ==
    /\ rel.pc = "build" /\ rel.unit[u] = "pushed"
    /\ rel' = [rel EXCEPT !.unit[u] = "done", !.pkg[u] = rel.tmp[TemporaryTag(u)]]
    /\ UNCHANGED <<reg, pub, dl, tars, up, priv, budget>>

Waiting == \E u \in Units : rel.unit[u] \in {"todo", "pushed", "sent"}

\* BuildPluginPackages waits for all of them and exits after a failure, before
\* it copies the manifest that publish-package follows.
BuildDone ==
    /\ rel.pc = "build" /\ ~Waiting
    /\ rel' = IF rel.failed THEN NoRelease
              ELSE [rel EXCEPT !.pc = "publish",
                      !.unit = [u \in Units |-> IF rel.pkg[u] = None THEN "none" ELSE "todo"]]
    /\ UNCHANGED <<reg, pub, dl, tars, up, priv, budget>>

\* publishPluginPackage pushes a package; the result goes to the variable err
\* of PublishPluginPackages, which the goroutines share ...
PublishPush(u) ==
    /\ rel.pc = "publish" /\ Begin(u)
    /\ \/ /\ reg' = [reg EXCEPT !.images = @ \cup {Image(u, rel.version)}]
          /\ rel' = [rel EXCEPT !.unit[u] = "sent", !.err = FALSE]
          /\ UNCHANGED budget
       \/ /\ Fault
          /\ rel' = [rel EXCEPT !.unit[u] = "sent", !.err = TRUE]
          /\ UNCHANGED reg
    /\ UNCHANGED <<pub, dl, tars, up, priv>>

\* ... and is read from it again.
PublishCheck(u) ==
    /\ rel.pc = "publish" /\ rel.unit[u] = "sent"
    /\ rel' = [rel EXCEPT !.unit[u] = "done", !.failed = @ \/ rel.err]
    /\ UNCHANGED <<reg, pub, dl, tars, up, priv, budget>>

\* The command ends; its exit status says whether a failure was noticed, and no
\* other command asks for it.
PublishDone ==
    /\ rel.pc = "publish" /\ ~Waiting
    /\ rel' = NoRelease
    /\ UNCHANGED <<reg, pub, dl, tars, up, priv, budget>>

Release ==
    \/ \E v \in Versions, archs \in {Required, Archs} : Compile(v, archs)
    \/ \E u \in Units : GeneratePush(u) \/ GenerateSave(u) \/ PublishPush(u) \/ PublishCheck(u)
    \/ BuildDone
    \/ PublishDone

-----------------------------------------------------------------------------
(* inventory init, inventory plugin and inventory plugin-group: pull the    *)
(* inventory image, change the database, push it.                           *)

Ops == [kind : {"add"}, plugin : Plugins, version : Versions, hidden : BOOLEAN]
  \cup [kind : {"activate"}, plugin : Plugins, version : Versions, hidden : BOOLEAN]
  \cup [kind : {"group"}, group : Groups, version : GroupVersions, members : GroupMembers,
        hidden : {FALSE}, described : BOOLEAN, override : Overrides, activating : BOOLEAN]
  \cup [kind : {"groupActivate"}, group : Groups, version : GroupVersions, hidden : BOOLEAN]

\* InitializeInventory: without the override flag the image must not exist.
InventoryInit(b, override) ==
    /\ Command("init") /\ pub[b].pc = "idle"
    /\ override \/ reg.db = None
    /\ pub' = [pub EXCEPT ![b] = [pc |-> "push", op |-> None, db |-> CreateSchema]]
    /\ Spend
    /\ UNCHANGED <<rel, reg, dl, tars, up, priv>>

\* getInventoryDBFile: the image must exist.
InventoryPull(b, op) ==
    /\ Command(op.kind) /\ pub[b].pc = "idle"
    /\ reg.db # None
    /\ pub' = [pub EXCEPT ![b] = [pc |-> "change", op |-> op, db |-> reg.db]]
    /\ Spend
    /\ UNCHANGED <<rel, reg, dl, tars, up, priv>>

\* Mutant: optional architectures without an image are listed.
ManifestRows_Unchecked(op) ==
    {[plugin |-> op.plugin, version |-> op.version, arch |-> a, hidden |-> op.hidden] :
       a \in Archs}

\* fetchPluginBinaryDigest and updatePluginInventoryEntry: a required
\* architecture without an image is an error, an optional one is left out.
ManifestRows(op) ==
    {[plugin |-> op.plugin, version |-> op.version, arch |-> a, hidden |-> op.hidden] :
       a \in {x \in Archs : <<op.plugin, op.version, x>> \in reg.images}}
DigestsFound(op) == \A a \in Required : <<op.plugin, op.version, a>> \in reg.images

Changed(op, db) ==
    CASE op.kind = "add" ->
           IF DigestsFound(op) THEN InsertPlugin(db, ManifestRows(op)) ELSE Failed(db)
      [] op.kind = "activate" ->
           IF DigestsFound(op) THEN SetPluginHidden(db, op.plugin, op.version, op.hidden)
           ELSE Failed(db)
      [] op.kind = "group" -> InsertPluginGroup(db, op, op.override, op.activating)
      [] op.kind = "groupActivate" -> SetGroupHidden(db, op.group, op.version, op.hidden)

\* genericInventoryUpdater, PluginGroupAdd, UpdatePluginGroupActivationState:
\* after an error nothing is pushed.
InventoryChange(b) ==
    /\ pub[b].pc = "change"
    /\ LET r == Changed(pub[b].op, pub[b].db)
       IN  pub' = [pub EXCEPT ![b] = IF r.ok THEN [@ EXCEPT !.pc = "push", !.db = r.db]
                                     ELSE NoJob]
    /\ UNCHANGED <<rel, reg, dl, tars, up, priv, budget>>

\* putInventoryDBFile: the image is replaced, whatever it is by now.
InventoryPush(b) ==
    /\ pub[b].pc = "push"
    /\ pub' = [pub EXCEPT ![b] = NoJob]
    /\ \/ reg' = [reg EXCEPT !.db = pub[b].db] /\ UNCHANGED budget
       \/ Fault /\ UNCHANGED reg
    /\ UNCHANGED <<rel, dl, tars, up, priv>>

Inventory ==
    \E b \in Publishers :
       \/ \E o \in Overrides : InventoryInit(b, o)
       \/ \E op \in Ops : InventoryPull(b, op)
       \/ InventoryChange(b)
       \/ InventoryPush(b)

-----------------------------------------------------------------------------
(* download-bundle.                                                         *)

AnyHidden(ps, v) == [plugins |-> ps, version |-> v, hidden |-> TRUE, archs |-> Archs]

\* getAllPluginGroupsAndPluginEntriesFromPluginGroupVersion: of each member
\* the recommended version only.
GroupSelection(db, g, v) ==
    GetPluginGroups(db, [groups |-> {g}, version |-> v, hidden |-> TRUE])
Trimmed(e) ==
    [e EXCEPT !.artifacts = [v \in {e.recommended} |-> e.artifacts[e.recommended]]]
\* Mutant: only the mandatory members are bundled.
MemberEntries_Mandatory(db, pgs) ==
    UNION {{Trimmed(e) : e \in GetPlugins(db, AnyHidden({m.plugin}, m.version))} :
             m \in {x \in UNION {UNION Range(pg.versions) : pg \in pgs} : x.mandatory}}
MemberEntries(db, pgs) ==
    UNION {{Trimmed(e) : e \in GetPlugins(db, AnyHidden({m.plugin}, m.version))} :
             m \in UNION {UNION Range(pg.versions) : pg \in pgs}}

\* RemoveDuplicatePluginInventoryEntries and RemoveDuplicatePluginGroups, for the
\* answers of several queries in their order: the first of the entries with one
\* name, target and recommended version stays.  One answer has no duplicates.
RemoveDuplicatePluginInventoryEntries(s) ==
    UNION {{e \in s[i] : \A j \in 1..i - 1 : \A d \in s[j] :
              <<d.plugin, d.recommended>> # <<e.plugin, e.recommended>>} : i \in DOMAIN s}
RemoveDuplicatePluginGroups(s) ==
    UNION {{e \in s[i] : \A j \in 1..i - 1 : \A d \in s[j] :
              <<d.group, d.recommended>> # <<e.group, e.recommended>>} : i \in DOMAIN s}

\* getPluginFromPluginID: an ambiguous or unknown plugin is an error.
SingleSelection(db, q) == GetPlugins(db, AnyHidden(q.plugins, q.version))
Identified(db, q) == Cardinality(SingleSelection(db, q)) = 1

\* getSelectedPluginInfo for the flags --group and --plugin: the essential
\* group is appended and may be missing, even when it was asked for.
Selection(db, gs, qs) ==
    LET Group(x) == GroupSelection(db, x[1], x[2])
        all == gs \o <<<<Essentials, Latest>>>>
        groups == [i \in DOMAIN all |-> Group(all[i])]
        singles == [i \in DOMAIN qs |-> SingleSelection(db, qs[i])]
    IN  [ok |-> /\ \A i \in DOMAIN gs : \/ Group(gs[i]) # {}
                                         \/ gs[i] = <<Essentials, Latest>>
                /\ \A i \in DOMAIN qs : Identified(db, qs[i]),
         groups |-> RemoveDuplicatePluginGroups(groups),
         entries |-> RemoveDuplicatePluginInventoryEntries(
                        <<MemberEntries(db, UNION Range(groups))>> \o singles)]

\* Without flags everything is selected, hidden or not.
EverythingSelected(db) ==
    [ok |-> TRUE,
     groups |-> GetPluginGroups(db, [groups |-> Groups, version |-> <<>>, hidden |-> TRUE]),
     entries |-> GetPlugins(db, AnyHidden(Plugins, <<>>))]

\* --refresh-configuration-only
NothingSelected == [ok |-> TRUE, groups |-> {}, entries |-> {}]

\* The values of --group and --plugin: a group or its versions 1.x; a plugin's
\* versions 1.x, or the latest version of a name.
GroupFlags == Groups \X {Latest, <<1>>}
PluginFlags == {[plugins |-> {p}, version |-> <<1>>] : p \in Plugins}
          \cup {[plugins |-> {q \in Plugins : NameOf[q] = NameOf[p]}, version |-> Latest] :
                  p \in Plugins}
          \cup {[plugins |-> {p}, version |-> v] : p \in Plugins, v \in Versions}

\* DownloadPluginBundle up to the selection, from the inventory of that moment.
DownloadSelect(sel) ==
    /\ sel.ok
    /\ dl' = [pc |-> "save", groups |-> sel.groups, entries |-> sel.entries]
    /\ budget' = [budget EXCEPT !.bundles = @ - 1]
    /\ UNCHANGED <<rel, reg, pub, tars, up, priv>>

EntryImages(e) ==
    UNION {{<<e.plugin, v, a>> : a \in e.artifacts[v]} : v \in DOMAIN e.artifacts}

\* savePluginInventoryMetadata: the identifiers of what was selected; a version
\* that two entries have violates the primary key.
Identifiers(groups, entries) ==
    [plugins |-> UNION {{<<e.plugin, v>> : v \in DOMAIN e.artifacts} : e \in entries},
     groups |-> UNION {{<<g.group, v>> : v \in DOMAIN g.versions} : g \in groups}]
IdentifiersUnique(groups, entries) ==
    /\ \A d, e \in entries :
          d.plugin = e.plugin /\ d # e => DOMAIN d.artifacts \cap DOMAIN e.artifacts = {}
    /\ \A d, e \in groups :
          d.group = e.group /\ d # e => DOMAIN d.versions \cap DOMAIN e.versions = {}

\* CopyImageToTar copies an image that the registry has.
CanCopy(images) == images \subseteq reg.images

\* downloadImagesAsTarFile, savePluginInventoryMetadata, Tarinate: the
\* inventory image is read again here.
DownloadSave ==
    /\ dl.pc = "save"
    /\ dl' = NoDownload
    /\ LET images == UNION {EntryImages(e) : e \in dl.entries}
       IN  tars' = IF CanCopy(images) /\ IdentifiersUnique(dl.groups, dl.entries)
                   THEN tars \cup {[images |-> images, db |-> reg.db,
                                    meta |-> Identifiers(dl.groups, dl.entries)]}
                   ELSE tars
    /\ UNCHANGED <<rel, reg, pub, up, priv, budget>>

\* The command fails on the way: the temporary directory is removed.
DownloadFail ==
    /\ dl.pc = "save" /\ Fault
    /\ dl' = NoDownload
    /\ UNCHANGED <<rel, reg, pub, tars, up, priv>>

Download ==
    \/ /\ "bundle" \in Kinds /\ budget.bundles > 0 /\ rel.pc = "idle"
       /\ dl.pc = "idle" /\ reg.db # None
       /\ \/ \E n, k \in 0..MaxFlags : \E gs \in [1..n -> GroupFlags], qs \in [1..k -> PluginFlags] :
                /\ n + k \in 1..MaxFlags
                /\ DownloadSelect(Selection(reg.db, gs, qs))
          \/ DownloadSelect(EverythingSelected(reg.db))
          \/ DownloadSelect(NothingSelected)
    \/ DownloadSave
    \/ DownloadFail

-----------------------------------------------------------------------------
(* upload-bundle.                                                           *)

\* The inventory image is the first of ImagesToCopy.
UploadStart(t) ==
    /\ "upload" \in Kinds /\ up.pc = "idle" /\ rel.pc = "idle"
    /\ up' = [pc |-> "inventory", tar |-> t, todo |-> t.images, meta |-> None]
    /\ UNCHANGED <<rel, reg, pub, dl, tars, priv, budget>>

UploadInventory ==
    /\ up.pc = "inventory"
    /\ priv' = [priv EXCEPT !.db = up.tar.db]
    /\ up' = [up EXCEPT !.pc = "images"]
    /\ UNCHANGED <<rel, reg, pub, dl, tars, budget>>

\* The images follow one by one, in the order that the tar file lists them.
UploadImage ==
    /\ up.pc = "images" /\ up.todo # {}
    /\ LET i == CHOOSE x \in up.todo : TRUE
       IN  /\ priv' = [priv EXCEPT !.images = @ \cup {i}]
           /\ up' = [up EXCEPT !.todo = @ \ {i}]
    /\ UNCHANGED <<rel, reg, pub, dl, tars, budget>>

\* Mutant: the metadata is published while images are missing.
UploadMerge_Early ==
    /\ up.pc = "images"
    /\ up' = [up EXCEPT !.pc = "metadata",
                !.meta = IF priv.meta = None THEN up.tar.meta
                         ELSE MergeMetadata(up.tar.meta, priv.meta)]
    /\ UNCHANGED <<rel, reg, pub, dl, tars, priv, budget>>

\* Mutant: the metadata of the registry is not merged.
UploadMerge_Replace ==
    /\ up.pc = "images" /\ up.todo = {}
    /\ up' = [up EXCEPT !.pc = "metadata", !.meta = up.tar.meta]
    /\ UNCHANGED <<rel, reg, pub, dl, tars, priv, budget>>

\* mergePluginInventoryMetadata: the bundle's metadata with that of the
\* registry; any error of the download means that there is none.
UploadMerge ==
    /\ up.pc = "images" /\ up.todo = {}
    /\ \/ /\ up' = [up EXCEPT !.pc = "metadata",
                      !.meta = IF priv.meta = None THEN up.tar.meta
                               ELSE MergeMetadata(up.tar.meta, priv.meta)]
          /\ UNCHANGED budget
       \/ /\ priv.meta # None /\ Fault
          /\ up' = [up EXCEPT !.pc = "unread", !.meta = up.tar.meta]
    /\ UNCHANGED <<rel, reg, pub, dl, tars, priv>>

\* PushImage of the metadata, the last step of an upload.  The history forgets
\* the bundles whose metadata was not read.
UploadMetadata ==
    /\ up.pc \in {"metadata", "unread"}
    /\ priv' = [priv EXCEPT !.meta = up.meta,
                            !.bundles = (IF up.pc = "unread" THEN {} ELSE @) \cup {up.tar}]
    /\ up' = NoUpload
    /\ UNCHANGED <<rel, reg, pub, dl, tars, budget>>

\* A copy fails or the command is killed; what was copied stays.
UploadFail ==
    /\ up.pc # "idle" /\ Fault
    /\ up' = NoUpload
    /\ UNCHANGED <<rel, reg, pub, dl, tars, priv>>

Upload ==
    \/ \E t \in tars : UploadStart(t)
    \/ UploadInventory
    \/ UploadImage
    \/ UploadMerge
    \/ UploadMetadata
    \/ UploadFail

Next == Release \/ Inventory \/ Download \/ Upload

Spec == Init /\ [][Next]_vars

-----------------------------------------------------------------------------
(* Properties.                                                              *)

\* Every row of the published inventory names an image of the registry:
\* `inventory plugin add` looks for the images itself, whatever publish-package
\* left out, and pushes an inventory that it read before.
RowsHaveImages ==
    reg.db # None => \A r \in reg.db.plugins : RowKey(r) \in reg.images

\* What a command line that uses the private registry lists: without a metadata
\* image the whole inventory.
Listing == IF priv.db = None THEN EmptyDB
           ELSE IF priv.meta = None THEN priv.db
           ELSE UpdateInventory(priv.db, priv.meta)

\* From the end of the first upload on, whatever the private registry lists it
\* also has: in the middle of later uploads and after those that failed, and with
\* inventories newer than the bundles.  Until then there is no metadata image, and
\* the whole inventory is listed although its images may be missing.
ListedArePresent ==
    priv.meta # None => \A r \in Listing.plugins : RowKey(r) \in priv.images

\* The inventory of the private registry knows all that its metadata names: no
\* bundle was uploaded over a later one, whose inventory it replaces.
InventoryIsRecent ==
    priv.meta # None => \A x \in priv.meta.plugins :
       \E r \in priv.db.plugins : <<r.plugin, r.version>> = x

\* Each member of a group that the private registry lists is listed too, in a
\* version that the group accepts: also in the middle of an upload and after one
\* that failed.  (The images of the listed are ListedArePresent's matter.)
GroupsAreComplete ==
    InventoryIsRecent =>
       \A g \in Listing.groups : \E r \in Listing.plugins :
          r.plugin = g.plugin /\ IsPrefix(g.pversion, r.version)

\* An inventory that has all the rows of an older one.
Covers(db, old) ==
    /\ \A r \in old.plugins : \E q \in db.plugins : RowKey(q) = RowKey(r)
    /\ \A g \in old.groups : \E h \in db.groups :
          h.group = g.group /\ h.version = g.version

\* What an upload brought stays: while the inventory of the private registry has
\* the rows of a bundle's inventory, the plugins of the bundle are listed and
\* their images are there, and its groups are listed, whatever bundles are
\* uploaded later or stop on the way.  An upload that took a failed download of
\* the metadata image for a missing image hides the bundles before it, which
\* UploadMetadata takes out of the history.
BundlesStayListed ==
    \A t \in priv.bundles : Covers(priv.db, t.db) =>
       /\ t.images \subseteq {RowKey(r) : r \in Listing.plugins} \cap priv.images
       /\ t.meta.groups \subseteq {<<g.group, g.version>> : g \in Listing.groups}

\* A package holds the binary of its plugin.  The goroutines of build-package
\* use one tag for the plugins that share a name.
PackagesAreOwn == \A u \in Units : rel.pkg[u] \in {u[1], None}
=============================================================================
