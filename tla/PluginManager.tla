---------------------------- MODULE PluginManager ----------------------------
(***************************************************************************)
(* Which plugin, of which version and from which source, the commands of   *)
(* `tanzu plugin` and `tanzu context use` install: pkg/pluginmanager with  *)
(* the plugin commands and completions of pkg/command.  Every source is an *)
(* image that its owner replaces at any time; the inventories are read     *)
(* through a cache that may be older, and a source may not answer.         *)
(*                                                                         *)
(* A plugin is a (name, target) pair; target Unknown ("" in the code)      *)
(* allows every target.  The content of a binary is the source that built  *)
(* it.  The catalog, its locking and the files of the cache have modules   *)
(* of their own (PluginCatalog, InventoryCache); here the catalog is a     *)
(* function and the cache of a source is the release that it holds.        *)
(***************************************************************************)
EXTENDS PluginInventory, Functions

CONSTANTS
    TargetOf,       \* [Plugins -> targets and Unknown]
    Unknown,        \* TargetUnknown, and the name that allows every name
    SourceSeq,      \* the discovery sources, in the order they are searched
    Configured,     \* the sources of the configuration (not of the test variable)
    Releases,       \* [sources -> the databases it publishes, in order]
    ThisArch, FallbackArch, \* of this machine and of its emulator, or None
    EssentialGroup, \* the group that every command installs
    Contexts, TypeOf, Recommended, \* contexts, their type, what their server recommends
    LocalDirs,      \* local sources: [layout, plugins]
    Requests,       \* the [name, target, version] that users ask for
    GroupRequests,  \* the [name, group, version] that users ask for
    Kinds,          \* the commands of the run
    MaxCommands,    \* bound
    None

VARIABLES
    rel,       \* [sources -> the release that the registry has]
    cache,     \* [sources -> the release in the cache, 0 for none]
    installed, \* [Plugins -> the catalog's entry or None]
    disk,      \* the binaries: <<plugin, version, content>>
    active,    \* active contexts, one of a type
    cmd,       \* the running command
    last,      \* the install or sync that just ended, for the properties
    budget

vars == <<rel, cache, installed, disk, active, cmd, last, budget>>

Sources == Range(SourceSeq)
Published == UNION {{s} \X DOMAIN Releases[s] : s \in Sources}
Inventories == {Releases[x[1]][x[2]] : x \in Published}
AllRows == UNION {db.plugins : db \in Inventories}
AllMembers == UNION {db.groups : db \in Inventories}
AllArchs == {r.arch : r \in AllRows}
Idle == [pc |-> "idle"]

\* The target that recommendations of a context without one have.
ContextTarget(c) == IF TypeOf[c] = "mission-control" THEN "mission-control" ELSE "kubernetes"

\* A plugin is a name and a target; a source publishes at least one inventory, with
\* full versions and the primary key of its groups; contexts recommend full or short
\* versions, and where a target is missing, the name with the context's is a plugin.
ASSUME PluginManagerAssumption ==
    /\ IsFiniteSet(Plugins)
    /\ Unknown \notin {"global", "kubernetes", "mission-control"} /\ \A p \in Plugins : NameOf[p] # Unknown
    /\ \A p, q \in Plugins : NameOf[p] = NameOf[q] /\ TargetOf[p] = TargetOf[q] => p = q
    /\ \A s \in Sources : 1 \in DOMAIN Releases[s] /\ Releases[s] \in Seq(Inventories)
    /\ SourceSeq \in Seq(Sources)
    /\ IsFiniteSet(AllRows) /\ \A r \in AllRows : r.version \in Nat \X Nat
    /\ IsFiniteSet(AllMembers) /\ \A m \in AllMembers : m.version \in Nat \X Nat
    /\ \A db \in Inventories : \A m, n \in db.groups :
          m.group = n.group /\ m.version = n.version /\ m.plugin = n.plugin => m = n
    /\ \A c \in Contexts :
          /\ IsFiniteSet(Recommended[c])
          /\ Recommended[c] \subseteq [plugin : Plugins, version : {v \in Seq(Nat) : Len(v) \in 1..2}]
          /\ \A r \in Recommended[c] : TargetOf[r.plugin] = Unknown =>
                \E p \in Plugins : NameOf[p] = NameOf[r.plugin] /\ TargetOf[p] = ContextTarget(c)
    /\ None \notin AllArchs \cup [Sources -> Nat]
    /\ None \notin [version : Nat \X Nat, content : Sources, discovered : Nat \X Nat]

Init ==
    /\ rel = [s \in Sources |-> 1]
    /\ cache = [s \in Sources |-> 0]
    /\ installed = [p \in Plugins |-> None]
    /\ disk = {}
    /\ active = {}
    /\ cmd = Idle
    /\ last = None
    /\ budget = MaxCommands

-----------------------------------------------------------------------------
(* Discovery.  A view gives, for each source, the database that the         *)
(* discovery reads, or None when it fails.                                  *)

\* fetchInventoryImage of every source: within its TTL the cache is used as it
\* is, after that the image is compared and downloaded, which may fail.
Answers(over) == {o \in [over -> {"cached", "refreshed", "failed"}] :
                    \A s \in over : o[s] = "cached" => cache[s] > 0}

Fetched(o) == [s \in Sources |-> IF s \in DOMAIN o /\ o[s] = "refreshed" THEN rel[s] ELSE cache[s]]

\* A database file that is not there has no rows.
Database(s, i) == IF i = 0 THEN EmptyDB ELSE Releases[s][i]

\* The releases that the answers let a discovery see.
Seen(o) == [s \in Sources |-> IF o[s] = "failed" THEN None ELSE Fetched(o)[s]]
Databases(seen) == [s \in Sources |-> IF seen[s] = None THEN None ELSE Database(s, seen[s])]
View(o) == Databases(Seen(o))

\* WithUseLocalCacheOnly
LocalView == Databases(cache)

Named(name, target) == {p \in Plugins : /\ name \in {Unknown, NameOf[p]}
                                        /\ target \in {Unknown, TargetOf[p]}}

Criteria(name, target, version, archs) ==
    [plugins |-> Named(name, target), version |-> version, hidden |-> FALSE, archs |-> archs]

\* listPluginsFromInventory: what the source at one place tells of one plugin.
Discovered(i, e) == [plugin |-> e.plugin, place |-> i, versions |-> DOMAIN e.artifacts]

\* discoverSpecificPlugins: the sources that fail are left out.
Answering(view) == {i \in DOMAIN SourceSeq : view[SourceSeq[i]] # None}
discoverSpecificPlugins(view, f) ==
    UNION {{Discovered(i, e) : e \in GetPlugins(view[SourceSeq[i]], f)} : i \in Answering(view)}

\* Plugins of one name without a target and for kubernetes are the same one.
MergeKey(p) == <<NameOf[p], IF TargetOf[p] = Unknown THEN "kubernetes" ELSE TargetOf[p]>>

\* The entries that have version v, and the source of the first of them.
Having(entries, v) == {e \in entries : v \in e.versions}
FirstSource(entries) == SourceSeq[Min({e.place : e \in entries})]

\* Mutant of Merged: the recommendation of the first source stays.
Merged_FirstRecommended(entries) ==
    LET versions == UNION {e.versions : e \in entries}
        first == CHOOSE e \in entries : \A d \in entries : e.place <= d.place
    IN  [plugin |-> first.plugin, recommended |-> Newest(first.versions),
         from |-> [v \in versions |-> FirstSource(Having(entries, v))]]

\* mergePluginEntries: the first entry is kept, with the target that it lacks
\* and with the versions that it has not; the newest version is recommended.  (The
\* entries of one key are of a plugin without a target and of one with a target, so
\* that all those with a target are of the same.)
Merged(entries) ==
    LET known == {e \in entries : TargetOf[e.plugin] # Unknown}
        versions == UNION {e.versions : e \in entries}
    IN  [plugin |-> (CHOOSE e \in IF known # {} THEN known ELSE entries : TRUE).plugin,
         recommended |-> Newest(versions),
         from |-> [v \in versions |-> FirstSource(Having(entries, v))]]

\* mergeDuplicatePlugins
mergeDuplicatePlugins(entries) ==
    {Merged({e \in entries : MergeKey(e.plugin) = k}) : k \in {MergeKey(e.plugin) : e \in entries}}

DiscoverStandalonePlugins(view, name, target, version) ==
    mergeDuplicatePlugins(
        discoverSpecificPlugins(view, Criteria(name, target, version, AllArchs)))

\* mergeGroupEntries: the first entry of a version is kept.
MergedGroup(g, entries) ==
    LET versions == UNION {DOMAIN e.versions : e \in entries}
        having(v) == {e \in entries : v \in DOMAIN e.versions}
        first(v) == CHOOSE e \in having(v) : \A d \in having(v) : e.place <= d.place
    IN  [group |-> g, recommended |-> Newest(versions),
         versions |-> [v \in versions |-> first(v).versions[v]]]

\* discoverSpecificPluginGroups: a source that fails is only warned about.
discoverSpecificPluginGroups(view, groups, version) ==
    LET f == [groups |-> groups, version |-> version, hidden |-> FALSE]
        found == UNION {{[group |-> e.group, place |-> i, versions |-> e.versions] :
                           e \in GetPluginGroups(view[SourceSeq[i]], f)} : i \in Answering(view)}
    IN  {MergedGroup(g, {e \in found : e.group = g}) : g \in {e.group : e \in found}}

\* The mandatory plugins of the group's recommended version, as requests.
MandatoryOf(pg) ==
    {[name |-> NameOf[m.plugin], target |-> TargetOf[m.plugin], version |-> m.version] :
        m \in {x \in pg.versions[pg.recommended] : x.mandatory}}

-----------------------------------------------------------------------------
(* Installing one plugin.                                                   *)

Available(view, r, arch) ==
    discoverSpecificPlugins(view, Criteria(r.name, r.target, r.version, {arch}))

\* installPlugin up to the choice: the plugin is looked up for this machine (here)
\* and, when no source has it, again for the emulated one.
Matches(here, fallbackView, r) ==
    LET found == IF here = {} /\ FallbackArch # None
                 THEN Available(fallbackView, r, FallbackArch) ELSE here
    IN  {e \in mergeDuplicatePlugins(found) : e.plugin \in Named(r.name, r.target)}

\* The one match, or the match that has exactly the requested target (none is
\* Unknown unless the request is), or None: not found or a target is missing.
Choice(matches, target) ==
    LET exact == {e \in matches : TargetOf[e.plugin] = target}
    IN  IF Cardinality(matches) = 1 THEN CHOOSE e \in matches : TRUE
        ELSE IF exact # {} THEN CHOOSE e \in exact : TRUE
        ELSE None

\* verifyPluginPreDownload and verifyPluginPostDownload: nothing arrives from a
\* registry that is not trusted, and what arrives has the digest of the source.
VerifiedDownload(source, arrives) == IF arrives = "whole" THEN source ELSE None

\* getPluginFromCache, else fetchAndVerifyPlugin: the content, or None.
FetchedBinary(p, v, source, arrives) ==
    IF <<p, v, source>> \in disk THEN source ELSE VerifiedDownload(source, arrives)

\* Mutant of Superseded: a plugin without a target stays beside its successor.
Superseded_Never(p) == {}

\* ContextCatalog.Upsert: a plugin without a target is the global or kubernetes
\* one of its name, and the one installed later takes the place of the other.
Superseded(p) ==
    LET old == {"global", "kubernetes"}
    IN  {q \in Plugins : /\ NameOf[q] = NameOf[p]
                         /\ \/ TargetOf[p] = Unknown /\ TargetOf[q] \in old
                            \/ TargetOf[q] = Unknown /\ TargetOf[p] \in old}

Upserted(catalog, p, entry) ==
    [q \in Plugins |-> IF q = p THEN entry
                       ELSE IF q \in Superseded(p) THEN None ELSE catalog[q]]

\* installOrUpgradePlugin of version v of the merged entry e: [ok, installed, disk].
Installation(e, v, content) ==
    IF content = None THEN [ok |-> FALSE, installed |-> installed, disk |-> disk]
    ELSE [ok |-> TRUE,
          installed |-> Upserted(installed, e.plugin,
              [version |-> v, content |-> content, discovered |-> e.recommended]),
          disk |-> disk \cup {<<e.plugin, v, content>>}]

\* How the sources answer a second discovery: within the TTL the ones that
\* answered are not asked again.
AnswersAfter(o) == {x \in Answers(Sources) : \A s \in Sources : o[s] = "failed" \/ x[s] = o[s]}

\* InstallStandalonePlugin of request r; the outcome is left in last'.
InstallStandalonePlugin(r) ==
    \E o \in Answers(Sources) :
      LET here == Available(View(o), r, ThisArch) IN
      \E late \in IF here = {} /\ FallbackArch # None THEN AnswersAfter(o) ELSE {o} :
        LET e == Choice(Matches(here, View(late), r), r.target)
            Outcome(ok) == [kind |-> "install", request |-> r, ok |-> ok, first |-> Seen(o),
                            seen |-> Seen(late), plugin |-> IF e = None THEN None ELSE e.plugin]
        IN  /\ cache' = Fetched(late)
            /\ \/ /\ e = None
                  /\ last' = Outcome(FALSE)
                  /\ UNCHANGED <<installed, disk>>
               \/ /\ e # None
                  /\ \E arrives \in {"whole", "altered", "nothing"} :
                       LET v == e.recommended
                           done == Installation(e, v, FetchedBinary(e.plugin, v, e.from[v], arrives))
                       IN  /\ installed' = done.installed
                           /\ disk' = done.disk
                           /\ last' = Outcome(done.ok)

-----------------------------------------------------------------------------
(* What contexts recommend.                                                 *)

\* Mutant of Resolved: short versions are left as they are.
Resolved_Never(r) == r.version

\* getMatchingRecommendedVersionOfPlugin: a short version is resolved in the
\* cache, which may be empty or old.
Resolved(r) ==
    LET found == DiscoverStandalonePlugins(LocalView, NameOf[r.plugin], TargetOf[r.plugin], r.version)
    IN  IF Cardinality(found) = 1
        THEN (CHOOSE e \in found : TRUE).recommended
        ELSE r.version

\* semver.NewVersion of a short version.
Padded(v) == IF Len(v) = 1 THEN Append(v, 0) ELSE v

\* removeOldPluginsWhenDuplicates: the first of the newest, in the server's order.
NewestOnly(recs) ==
    {CHOOSE r \in recs : /\ r.plugin = p
                         /\ \A q \in recs : q.plugin = p =>
                              ~IsNewVersion(Padded(q.version), Padded(r.version)) :
        p \in {r.plugin : r \in recs}}

\* A plugin that is recommended without a target has the target of the context.
Associated(c) ==
    {IF TargetOf[r.plugin] # Unknown THEN r
     ELSE [r EXCEPT !.plugin = CHOOSE p \in Plugins :
             NameOf[p] = NameOf[r.plugin] /\ TargetOf[p] = ContextTarget(c)] :
        r \in Recommended[c]}

\* KubernetesDiscovery: an error of the list is an error, unless the question
\* whether the resource exists failed too; then the cluster recommends nothing.
GetDiscoveredPlugins(c, crdFails, listFails) ==
    [ok |-> ~listFails \/ crdFails, plugins |-> IF listFails THEN {} ELSE Associated(c)]

\* discoverServerPluginsForGivenContexts of one context: the recommendations with
\* their versions resolved.
ServerPlugins(recs) == NewestOnly({[r EXCEPT !.version = Resolved(r)] : r \in recs})

\* setAvailablePluginsStatus: the plugins that are not installed, or were
\* installed when another version was recommended.
NeedsInstall(r) == installed[r.plugin] = None \/ installed[r.plugin].discovered # r.version

ToBeInstalled(recs) ==
    {[name |-> NameOf[r.plugin], target |-> TargetOf[r.plugin], version |-> r.version] :
        r \in {x \in ServerPlugins(recs) : NeedsInstall(x)}}

\* displayInstalledPlugins: what `tanzu plugin list` says must be synchronized.
SyncRequired ==
    \E c \in active : \E r \in ServerPlugins(Associated(c)) :
        installed[r.plugin] = None \/ installed[r.plugin].version # r.version

-----------------------------------------------------------------------------
(* Essential plugins.                                                       *)

\* The maps of installed plugins by name and target: no target is a target there.
InstalledAs(r) ==
    {p \in Plugins : NameOf[p] = r.name /\ TargetOf[p] = r.target /\ installed[p] # None}

\* isAllPluginsFromGroupInstalled, of one plugin
InstalledExactly(r) == \E p \in InstalledAs(r) : installed[p].version = r.version

\* isNewPluginVersionAvailable
Outdated(r) == \E p \in InstalledAs(r) : IsNewVersion(Padded(r.version), installed[p].version)

\* IsPluginsFromPluginGroupInstalled, from the cache: FALSE as well when the
\* group is not found, which ends the installation.
EssentialsNeeded ==
    \E pg \in discoverSpecificPluginGroups(LocalView, {EssentialGroup}, Latest) :
        \E r \in MandatoryOf(pg) : ~InstalledExactly(r) \/ Outdated(r)

-----------------------------------------------------------------------------
(* Commands.  A command has the installations left to do, and whether one   *)
(* failed; plugins of a group or of a context are installed one by one.     *)

Ops ==
    {[kind |-> k, request |-> r] : k \in Kinds \cap {"install", "local", "uninstall"}, r \in Requests}
    \cup {[kind |-> "upgrade", request |-> [r EXCEPT !.version = Latest]] :
            r \in {x \in Requests : "upgrade" \in Kinds /\ x.name # Unknown}}
    \cup {[kind |-> "group", request |-> r] : r \in {x \in GroupRequests : "group" \in Kinds}}
    \cup {[kind |-> k, context |-> c] : k \in Kinds \cap {"use", "unset"}, c \in Contexts}
    \cup {[kind |-> k] : k \in Kinds \cap {"sync", "clean", "search", "group search", "complete", "other"}}

\* shouldSkipEssentialPlugins
Skipped(op) == op.kind \in {"clean", "complete"}

\* The essential plugins come before most commands.  They do not depend on the
\* command, which is chosen when it matters.
Start ==
    /\ cmd = Idle /\ budget > 0
    /\ cmd' = [pc |-> "refresh"]
    /\ budget' = budget - 1
    /\ last' = None
    /\ UNCHANGED <<rel, cache, installed, disk, active>>

Begin(op) ==
    /\ \/ cmd.pc = "command" /\ ~Skipped(op) /\ UNCHANGED budget
       \/ cmd = Idle /\ Skipped(op) /\ budget > 0 /\ budget' = budget - 1
    /\ cmd' = [pc |-> "body", op |-> op]
    /\ last' = None
    /\ UNCHANGED <<rel, cache, installed, disk, active>>

\* The end of a command, or of one of its parts; start is what the part saw.
Finished(kind, ok, start) == last' = [kind |-> kind, ok |-> ok, start |-> start]
End(kind, ok, start) == cmd' = Idle /\ Finished(kind, ok, start)

\* The plugins of todo are installed next, for the phase and the contexts after it.
Install(phase, todo, failed, contexts, start) ==
    /\ cmd' = [pc |-> "installing", phase |-> phase, todo |-> todo,
               failed |-> failed, contexts |-> contexts, start |-> start]
    /\ last' = None

ToCommand == cmd' = [pc |-> "command"] /\ last' = None

\* installEssentialPlugins starts with RefreshDatabase of the configured sources,
\* whose errors are ignored.
RefreshDatabase ==
    /\ cmd.pc = "refresh"
    /\ \E o \in Answers(Configured) : cache' = Fetched(o)
    /\ cmd' = [cmd EXCEPT !.pc = "essentials"]
    /\ last' = None
    /\ UNCHANGED <<rel, installed, disk, active, budget>>

\* The cache tells whether plugins are missing, and only then is the group
\* looked up again and installed.
CheckEssentials ==
    /\ cmd.pc = "essentials"
    /\ IF ~EssentialsNeeded THEN ToCommand /\ UNCHANGED cache
       ELSE \E o \in Answers(Sources) :
              LET found == discoverSpecificPluginGroups(View(o), {EssentialGroup}, Latest)
              IN  /\ cache' = Fetched(o)
                  /\ IF found = {} THEN ToCommand
                     ELSE Install("essentials", MandatoryOf(CHOOSE g \in found : TRUE),
                                  FALSE, {}, Seen(o))
    /\ UNCHANGED <<rel, installed, disk, active, budget>>

\* Mutant of InstallNext: an error is not counted.
InstallNext_Uncounted ==
    /\ cmd.pc = "installing"
    /\ \E r \in cmd.todo :
         InstallStandalonePlugin(r) /\ cmd' = [cmd EXCEPT !.todo = @ \ {r}]
    /\ UNCHANGED <<rel, active, budget>>

\* One plugin of a group, of a context or of the command line.  An error is
\* counted and the others are still installed.
InstallNext ==
    /\ cmd.pc = "installing"
    /\ \E r \in cmd.todo :
         /\ InstallStandalonePlugin(r)
         /\ cmd' = [cmd EXCEPT !.todo = @ \ {r}, !.failed = @ \/ ~last'.ok]
    /\ UNCHANGED <<rel, active, budget>>

\* The essential plugins are followed by the command, whatever became of them;
\* the plugins of a context by the next context.
InstallsDone ==
    /\ cmd.pc = "installing" /\ cmd.todo = {}
    /\ IF cmd.phase = "essentials"
       THEN /\ cmd' = [pc |-> "command"]
            /\ Finished("essentials", ~cmd.failed, cmd.start)
       ELSE IF cmd.contexts # {}
       THEN cmd' = [cmd EXCEPT !.pc = "contexts"] /\ last' = None
       ELSE End(cmd.phase, ~cmd.failed, cmd.start)
    /\ UNCHANGED <<rel, cache, installed, disk, active, budget>>

Body(kind) == cmd.pc = "body" /\ cmd.op.kind = kind

\* `plugin install` of one plugin; `all` names none.
InstallOne ==
    /\ Body("install")
    /\ IF cmd.op.request.name = Unknown THEN End("one", FALSE, None)
       ELSE Install("one", {cmd.op.request}, FALSE, {}, None)
    /\ UNCHANGED <<rel, cache, installed, disk, active, budget>>

\* `plugin upgrade`: the latest version is installed, whether or not the plugin
\* was.
Upgrade ==
    /\ Body("upgrade")
    /\ Install("one", {cmd.op.request}, FALSE, {}, None)
    /\ UNCHANGED <<rel, cache, installed, disk, active, budget>>

\* `plugin install --group`: an error when the group, the plugin in it or a
\* mandatory plugin is missing.
InstallGroup ==
    /\ Body("group")
    /\ \E o \in Answers(Sources) :
         LET q == cmd.op.request
             found == discoverSpecificPluginGroups(View(o), {q.group}, q.version)
             todo == {r \in MandatoryOf(CHOOSE g \in found : TRUE) : q.name \in {Unknown, r.name}}
         IN  /\ cache' = Fetched(o)
             /\ IF found = {} \/ todo = {} THEN End("group", FALSE, None)
                ELSE Install("group", todo, FALSE, {}, None)
    /\ UNCHANGED <<rel, installed, disk, active, budget>>

\* discoverPluginsFromLocalSourceBasedOnManifestFile: one version of each plugin;
\* one missing binary is an error for all.
ManifestPlugins(dir) ==
    IF \E e \in dir.plugins : e.versions = {} THEN {}
    ELSE {[e EXCEPT !.versions = {e.recommended}] : e \in dir.plugins}

\* DiscoverPluginsFromLocalSource: the plugins of a manifest, or else those that
\* a discovery directory describes.
LocalPlugins(dir) == IF dir.layout = "discovery" THEN dir.plugins ELSE ManifestPlugins(dir)

\* InstallPluginsFromLocalSource: every match when all plugins are named, one
\* match, or the match of the exact target.
InstallLocal ==
    /\ Body("local")
    /\ \E dir \in LocalDirs :
       LET r == cmd.op.request
           matched == {e \in LocalPlugins(dir) : e.plugin \in Named(r.name, r.target)}
           chosen == IF Cardinality(matched) = 1 \/ r.name = Unknown THEN matched
                     ELSE {e \in matched : TargetOf[e.plugin] = r.target}
       IN  cmd' = [pc |-> "local", version |-> r.version, todo |-> chosen, failed |-> matched = {}]
    /\ last' = None
    /\ UNCHANGED <<rel, cache, installed, disk, active, budget>>

\* The matches one by one; the first error does not stop the others.  The binary has
\* no digest, so it is read again each time; a version that the entry has not cannot
\* be read.
InstallLocalNext ==
    /\ cmd.pc = "local"
    /\ \E e \in cmd.todo :
         LET v == IF cmd.version \in {Latest, <<>>} THEN e.recommended ELSE cmd.version
         IN  \E content \in {None} \cup (IF v \in e.versions THEN {"local"} ELSE {}) :
               LET done == Installation(e, v, content)
               IN  /\ installed' = done.installed
                   /\ disk' = done.disk
                   /\ cmd' = [cmd EXCEPT !.todo = @ \ {e}, !.failed = @ \/ ~done.ok]
    /\ last' = None
    /\ UNCHANGED <<rel, cache, active, budget>>

InstallLocalDone ==
    /\ cmd.pc = "local" /\ cmd.todo = {}
    /\ End("local", ~cmd.failed, None)
    /\ UNCHANGED <<rel, cache, installed, disk, active, budget>>

\* matchPluginsForDeletion, and the matches of DescribePlugin.
MatchedInstalled(name, target) == {p \in Named(name, target) : installed[p] # None}

\* The command refuses `all` without a target.
DeleteAccepts(name, target) == name # Unknown \/ target # Unknown

\* DeletePlugin: all plugins of a target, or the plugin of a name that is
\* installed for one target.
Deletable(name, target) ==
    LET matched == MatchedInstalled(name, target)
    IN  /\ matched # {}
        /\ name = Unknown \/ Cardinality({TargetOf[p] : p \in matched}) = 1

\* DescribePlugin: the one match, or the match of exactly this target.
Describable(name, target) ==
    LET matched == MatchedInstalled(name, target)
    IN  Cardinality(matched) = 1 \/ \E p \in matched : TargetOf[p] = target

\* The binaries stay.
Uninstall ==
    /\ Body("uninstall")
    /\ LET r == cmd.op.request
           ok == DeleteAccepts(r.name, r.target) /\ Deletable(r.name, r.target)
           matched == MatchedInstalled(r.name, r.target)
       IN  /\ installed' = [p \in Plugins |-> IF ok /\ p \in matched THEN None ELSE installed[p]]
           /\ End("uninstall", ok, None)
    /\ UNCHANGED <<rel, cache, disk, active, budget>>

Clean ==
    /\ Body("clean")
    /\ installed' = [p \in Plugins |-> None]
    /\ cache' = [s \in Sources |-> 0]
    /\ disk' = {}
    /\ End("clean", TRUE, None)
    /\ UNCHANGED <<rel, active, budget>>

\* `plugin search` only refreshes the cache.
Search ==
    /\ Body("search")
    /\ \E o \in Answers(Sources) : cache' = Fetched(o)
    /\ End("search", TRUE, None)
    /\ UNCHANGED <<rel, installed, disk, active, budget>>

\* `plugin group search` and `plugin group get`, which fails without the group.
GroupSearch ==
    /\ Body("group search")
    /\ \E o \in Answers(Sources) :
         /\ cache' = Fetched(o)
         /\ End("group search",
                discoverSpecificPluginGroups(View(o), {EssentialGroup}, Latest) # {}, None)
    /\ UNCHANGED <<rel, installed, disk, active, budget>>

\* Completing a plugin name reads the cache, and refreshes it when it is empty.
CompletePlugins ==
    /\ Body("complete")
    /\ IF DiscoverStandalonePlugins(LocalView, Unknown, Unknown, <<>>) = {}
       THEN \E o \in Answers(Sources) : cache' = Fetched(o)
       ELSE UNCHANGED cache
    /\ End("complete", TRUE, None)
    /\ UNCHANGED <<rel, installed, disk, active, budget>>

\* A command that installs nothing itself.
Other ==
    /\ Body("other")
    /\ End("other", TRUE, None)
    /\ UNCHANGED <<rel, cache, installed, disk, active, budget>>

\* `context create` and `context use` make a context the active one of its type
\* and install what it recommends, unless it is a tanzu context; `plugin sync`
\* does so for every active context.
Sync(contexts) ==
    IF contexts = {} THEN End("none", TRUE, None)
    ELSE /\ cmd' = [pc |-> "contexts", phase |-> cmd.op.kind, failed |-> FALSE,
                    contexts |-> contexts, start |-> cache]
         /\ last' = None

UseContext ==
    /\ Body("use")
    /\ active' = {c \in active : TypeOf[c] # TypeOf[cmd.op.context]} \cup {cmd.op.context}
    /\ Sync({cmd.op.context} \ {c \in Contexts : TypeOf[c] = "tanzu"})
    /\ UNCHANGED <<rel, cache, installed, disk, budget>>

UnsetContext ==
    /\ Body("unset")
    /\ active' = active \ {cmd.op.context}
    /\ End("unset", cmd.op.context \in active, None)
    /\ UNCHANGED <<rel, cache, installed, disk, budget>>

SyncPlugins ==
    /\ Body("sync")
    /\ Sync(active)
    /\ UNCHANGED <<rel, cache, installed, disk, active, budget>>

\* syncContextPlugins of the next context: the server may fail, or seem to
\* recommend nothing (start is then None, so that the properties can tell).
SyncContext ==
    /\ cmd.pc = "contexts"
    /\ \E c \in cmd.contexts, crdFails, listFails \in BOOLEAN :
         LET got == GetDiscoveredPlugins(c, crdFails, listFails)
         IN  Install(cmd.phase, ToBeInstalled(got.plugins), cmd.failed \/ ~got.ok,
                     cmd.contexts \ {c}, IF listFails THEN None ELSE cmd.start)
    /\ UNCHANGED <<rel, cache, installed, disk, active, budget>>

\* External: a source's owner publishes its next inventory.
Publish(s) ==
    /\ rel[s] < Len(Releases[s])
    /\ rel' = [rel EXCEPT ![s] = @ + 1]
    /\ last' = None
    /\ UNCHANGED <<cache, installed, disk, active, cmd, budget>>

Next ==
    \/ Start \/ \E op \in Ops : Begin(op)
    \/ RefreshDatabase \/ CheckEssentials \/ InstallNext \/ InstallsDone
    \/ InstallOne \/ Upgrade \/ InstallGroup
    \/ InstallLocal \/ InstallLocalNext \/ InstallLocalDone
    \/ Uninstall \/ Clean \/ Search \/ GroupSearch \/ CompletePlugins \/ Other
    \/ UseContext \/ UnsetContext \/ SyncPlugins \/ SyncContext
    \/ \E s \in Sources : Publish(s)

Spec == Init /\ [][Next]_vars

-----------------------------------------------------------------------------
(* Shell completion, which reads the cache only.                            *)

\* Mutant of NeedsTarget: the installed plugins are counted.
NeedsTarget_Installed(name) == Cardinality({p \in Named(name, Unknown) : installed[p] # None}) > 1

\* compCheckIfTargetFlagNeededForAllPlugins
NeedsTarget(name) == Cardinality(DiscoverStandalonePlugins(LocalView, name, Unknown, <<>>)) > 1

\* completeTargetsForAllPlugins
SuggestedTargets(name) ==
    {TargetOf[e.plugin] : e \in DiscoverStandalonePlugins(LocalView, name, Unknown, <<>>)}

\* completePluginVersions: the versions of the one plugin that is found.
SuggestedVersions(name, target) ==
    LET found == DiscoverStandalonePlugins(LocalView, name, target, <<>>)
    IN  IF Cardinality(found) = 1 THEN DOMAIN (CHOOSE e \in found : TRUE).from ELSE {}

\* completeInstalledPlugins, compCheckIfTargetFlagNeededForInstalled and
\* completeTargetsForInstalledPlugins.
InstalledNames == {NameOf[p] : p \in MatchedInstalled(Unknown, Unknown)}
InstalledNeedsTarget(name) == Cardinality(MatchedInstalled(name, Unknown)) > 1
InstalledTargets(name) == {TargetOf[p] : p \in MatchedInstalled(name, Unknown)}

\* completeGroupNames, completeGroupVersions
SuggestedGroups == discoverSpecificPluginGroups(LocalView, {m.group : m \in AllMembers}, <<>>)

\* completionAllPluginsFromGroup
SuggestedMembers(group, version) ==
    UNION {{r.name : r \in MandatoryOf(pg)} :
              pg \in discoverSpecificPluginGroups(LocalView, {group}, version)}

-----------------------------------------------------------------------------
(* Properties.                                                              *)

\* The active rows for an architecture that a database has for a request.
Offered(db, r, arch) ==
    {x \in db.plugins : /\ x.plugin \in Named(r.name, r.target) /\ x.arch = arch /\ ~x.hidden
                        /\ r.version = Latest \/ IsPrefix(r.version, x.version)}

\* The rows that the answering sources have, with the place of their source.
Rows(view, r, arch) ==
    UNION {{<<i, x>> : x \in Offered(view[SourceSeq[i]], r, arch)} : i \in Answering(view)}

\* A plugin that was installed (installPlugin) has the newest version that any
\* answering source offers this machine for the request, the emulator's only
\* when no source answered with one for this machine, and its binary is the one
\* of the first source that has this version (mergeDuplicatePlugins), unaltered.
\* Without a target there is one plugin to choose, or one without a target.
InstalledIsBest ==
    (last # None /\ last.kind = "install" /\ last.ok) =>
        LET r == last.request
            here == Rows(Databases(last.first), r, ThisArch)
            rows == IF here = {} THEN Rows(Databases(last.seen), r, FallbackArch) ELSE here
            mine == {x \in rows : MergeKey(x[2].plugin) = MergeKey(last.plugin)}
            got == installed[last.plugin]
            holders == {x[1] : x \in {y \in mine : y[2].version = got.version}}
        IN  /\ \A x \in mine : ~IsNewVersion(x[2].version, got.version)
            /\ holders # {}
            /\ got.content = SourceSeq[Min(holders)]
            /\ r.target \in {Unknown, TargetOf[last.plugin]}
            /\ r.target = Unknown => mine = rows \/ TargetOf[last.plugin] = Unknown

\* The recommendations of the active contexts agree.
ContextsAgree ==
    \A c, d \in active : \A q \in Associated(c), r \in Associated(d) :
        c = d \/ q.plugin # r.plugin \/ q = r

\* After `tanzu plugin sync` succeeded, `tanzu plugin list` does not ask for
\* another one: the two look at plugins differently (setAvailablePluginsStatus,
\* displayInstalledPlugins) but agree while the cache that resolves short
\* versions stays the same, the contexts agree and no plugin is a local build.
SyncSettles ==
    (/\ last # None /\ last.kind = "sync" /\ last.ok /\ last.start = cache
     /\ ContextsAgree
     /\ \A p \in Plugins : installed[p] # None => installed[p].content # "local")
        => ~SyncRequired

\* When the essential plugins were installed without an error and every source
\* answered, the next command with the same cache has nothing to install
\* (isAllPluginsFromGroupInstalled, isNewPluginVersionAvailable).
EssentialsSettle ==
    (last # None /\ last.kind = "essentials" /\ last.ok /\ last.start = cache)
        => ~EssentialsNeeded

\* Between commands, what the completions offer can be installed: without --target when none is
\* asked for, and each offered version exactly, when a binary of it exists for
\* this machine (completePluginVersions, compCheckIfTargetFlagNeededForAllPlugins
\* and installPlugin).
SuggestionsInstall ==
    cmd = Idle => \A name \in Range(NameOf) :
        /\ \A target \in SuggestedTargets(name) \cup (IF NeedsTarget(name) THEN {} ELSE {Unknown}) :
             \A v \in SuggestedVersions(name, target) :
               LET r == [name |-> name, target |-> target, version |-> v]
                   found == Matches(Available(LocalView, r, ThisArch), LocalView, r)
                   e == Choice(found, target)
               IN  Rows(LocalView, r, ThisArch) \cup Rows(LocalView, r, FallbackArch) # {}
                       => e \in found /\ e.recommended = v
        /\ LET r == [name |-> name, target |-> Unknown, version |-> Latest]
           IN  NeedsTarget(name)
               \/ Cardinality(Matches(Available(LocalView, r, ThisArch), LocalView, r)) <= 1
        /\ \A pg \in SuggestedGroups : \A v \in DOMAIN pg.versions :
             SuggestedMembers(pg.group, v) = {NameOf[m.plugin] : m \in {x \in pg.versions[v] : x.mandatory}}

\* Between commands, the names and targets that are completed for installed
\* plugins select one plugin, for `plugin describe` and for `plugin uninstall`
\* (DescribePlugin, DeletePlugin): an old plugin without a target, which no
\* target flag can name, never stands beside its global or kubernetes successor.
\* (Beside a plugin of another target and the same name it cannot be selected.)
SuggestionsSelect ==
    cmd = Idle => \A name \in InstalledNames :
        \A target \in IF InstalledNeedsTarget(name) THEN InstalledTargets(name) ELSE {Unknown} :
            \/ Deletable(name, target) /\ Describable(name, target)
            \/ /\ target = Unknown
               /\ ~(InstalledTargets(name) \subseteq {Unknown, "global", "kubernetes"})

=============================================================================
