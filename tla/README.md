# A TLA+ development of the Tanzu CLI

The Tanzu CLI (`pkg/`, `cmd/`) is a host for plugins.  It is a short-lived
process: every command starts one, reads files that other commands wrote, talks
to registries, clusters and the Tanzu Platform, changes those files and ends.
Nothing coordinates two processes but the files, and users, scripts, shell
completion and `kubectl` (through its credential plugin) run the CLI in
parallel.  The hard part of the program is therefore what commands do to shared
files: in which order, under which lock, and what is left when one of them is
interrupted or fails half way.  This development models that part.

All paths below are relative to `src/`.  `PROJECT.json` maps every definition to
the lines it models.

## Inventory

For each component: its state, its operations, what it interacts with, and what
makes it correct.

| component | state | operations | correct when |
|---|---|---|---|
| Plugin catalog (`pkg/catalog`) | `catalog.yaml`: indices by path and name, associations for stand-alone plugins and for servers; a file lock | open for update or for reading, Upsert, Delete, List, migration of context plugins, clean-up of wrong entries, CleanCatalogCache | no update is lost, readers see whole catalogs, indices and associations agree, no lock outlives its session |
| Plugin manager (`pkg/pluginmanager`), supplier (`pkg/pluginsupplier`), catalog initializer (`pkg/globalinit`) | plugin binaries | install, upgrade, delete, clean, list, refresh of all entries after an upgrade of the CLI | what is listed can be run; a refresh does not undo an install or a delete |
| Inventory cache (`pkg/discovery/oci_dbbacked.go`) and central configuration | database, central configuration, digest files, their age | fetch when needed, `plugin source init/update`, daily refresh, invalidation, clean | a cache that counts as current is; a source never shows the plugins of another; it converges |
| Contexts (`pkg/command/context.go`, `login.go`, `pkg/auth/utils/kubeconfig`, `pkg/auth/tanzu`, `pkg/auth/tkg`) | contexts and active contexts in the CLI configuration, two kubeconfig files | create, login, use, unset, delete, update tanzu-active-resource, get-token | both files describe the same contexts, kubectl and the CLI agree on the current one |
| Plugin inventory (`pkg/plugininventory`) | an SQLite database of plugins and groups, and the metadata of an air-gapped copy | queries by name, target, version, platform; insert, activate; merge and restriction to what a bundle brought | a query means one thing for discovery, bundles and the builder |
| Discovery and choice (`pkg/pluginmanager/manager.go`, `pkg/discovery`) | what the sources list | merge of plugins and groups from several sources, choice of version and platform, recommendations of contexts | what is installed is the best offer; what one command reports is what the next one does |
| Essential plugins (`pkg/essentials`), plugin commands and completions (`pkg/command/plugin*.go`, `completion*.go`) | none of their own | group installation before commands, install, upgrade, sync, search | installed once, upgrades followed; completions name what works |
| Data store (`pkg/datastore`) with recommended version, last version | a key-value file with a lock | Get, Set, choice of versions, once-per-period notice | writes are not lost, a notice is about something newer |
| Root command and initializers (`pkg/command/root.go`, `pkg/globalinit`, `pkg/config`) | one-time update marks, agreement | per-command checks, update of all contexts, EULA | complete when recorded, undo no login, nothing installed without agreement |
| Telemetry (`pkg/telemetry`), plugin command tree cache (`pkg/plugincmdtree`) | a metrics database behind a lock with a timeout; a file without a lock | save, send above a threshold; construct, delete, get | bounded, no lock kept, no argument readable |
| Builder plugin (`cmd/plugin/builder`), air-gapped bundles (`pkg/airgapped`) | packages, registries, the published database, tar files | build, publish, inventory commands; download, upload of images and of merged metadata | an inventory names only what its registry has; a failed upload can be repeated |
| Authentication (`pkg/auth/common`, `csp`, `uaa`, `tanzu`) | tokens, a local listener with goroutines | login with a token or a browser, renewal, API tokens | ends, with the token it promised, in the organization of the context |
| Configuration (`pkg/command/config*.go`, `cert.go`, `ceip_participation.go`) | variables, features, certificate settings, CEIP choice | set, unset, init, cert add/update/delete | the settings a login used are there for the requests after it |
| Plugin execution, registry access, signatures, cluster client, help and documentation | | single calls, input and output | |

How they interact.  Commands call the plugin manager, which calls the discovery
(inventory cache), merges what the sources list, and installs through the
catalog.  `context create` and `use` change contexts and then install the plugins
the context recommends.  `plugin clean` deletes the files of the catalog, the
binaries, the inventory cache and the command tree under everyone's feet.
`kubectl` calls `context get-token`, so that command runs beside any other.
Initializers run before the first command after an upgrade and go through the
same files.

What is hard, and where: lock sessions that are opened and closed in different
functions (`catalog.go:212-280`); truncate-then-write (`catalog.go:274`,
`oci_dbbacked.go:328`); state read before a network call and stored after it
(`context.go:1987`, `catalog_cache_init.go:52`, `oci_dbbacked.go:347`); two
files changed one after the other (`context.go:2072`); load-modify-write without
a lock (`kubeconfig.go:65`); a wait that is given up while its goroutine goes on
(`metrics_db_lock.go:98`); goroutines that share a variable (`login_handler.go:347`,
`publish-packages.go:64`, `build-packages.go:125`); errors read as absence
(`oci_dbbacked.go:318`, `plugin_bundle_upload.go:108`); an image read twice
(`plugin_bundle_download.go:309`); files deleted under a reader or a session
(`catalog.go:288`, `manager.go:1215`); errors dropped (`login.go:107`).
`PROJECT.json` lists every such place under `hazards`, with the properties that
cover it and a note where they hold only under a condition.

## Modules

| module | what it is |
|---|---|
| `CatalogData` | the catalog as a value: `Upsert`, `Delete`, migration, clean-up, `WellFormed` |
| `PluginCatalog` | processes on `catalog.yaml`, its lock and the binaries; extends `CatalogData` |
| `InstalledPlugins` | the abstract specification: what is installed, changed by whole operations |
| `InventoryCache` | processes on the cache of one inventory and its registry |
| `Contexts` | processes on the CLI configuration and the kubeconfig files |
| `RecommendedVersion` | which newer versions a list recommends to a running one |
| `Startup` | processes around every command: data store, one-time updates, agreement, notice; extends `RecommendedVersion` |
| `Telemetry` | processes on the metrics database and on the cache of command trees |
| `PluginInventory` | the inventory database as a value: queries, statements, metadata of bundles |
| `Publishing` | from binaries to an air-gapped registry; extends `PluginInventory` |
| `PluginManager` | commands that discover, choose and install plugins; extends `PluginInventory` |
| `Configuration` | the user's settings as a value |
| `Login` | processes that log in, renew tokens and change settings; extends `Configuration` |
| `MCPluginCatalog`, `MCInventoryCache`, `MCContexts`, `MCStartup`, `MCTelemetry`, `MCPublishing`, `MCPluginManager`, `MCLogin` | small instances for TLC |
| `PluginCatalogProofs`, `InventoryCacheProofs`, `ContextsProofs`, `StartupProofs`, `TelemetryProofs`, `LoginProofs`, `PublishingProofs`, `PluginManagerProofs` | theorems |

The modules meet in the values they share.  `PluginManager` takes the catalog as a
function and the cache of a source as the release it holds; what protects the
files below them is shown in `PluginCatalog` and `InventoryCache`.  `Publishing`
and `PluginManager` read and write databases with the operators of one module, so
that a change of a query shows in both.  `Contexts` has what a login does to
the kubeconfig, `Login` what it does to tokens, `Startup` what the next CLI does
to both.

A definition whose name ends in `_Something` next to one without the ending is a
wrong variant of it (a forgotten unlock, a dropped check), used to confirm that
the properties notice.

### PluginCatalog

A file is an inode: `file` is what the name `catalog.yaml` refers to, `content`
and `lock` belong to inodes.  `plugin clean` unlinks the name without taking the
lock, so a session may go on writing to an inode that nobody can reach.  A
session is open (`OpenForUpdate`), wait for the lock, read and decode
(`LockForUpdate`), edit in memory (`MigrateSave`, `FixSave`, `UpsertSave`,
`DeleteSave`, each truncating the file as `saveCatalogCache` does), write (`Write`,
or `WriteFail` leaving a torn file) and unlock.  Reading takes the same lock
shared.  A decode error keeps the lock, as the code does (`LockDecodeError`), and so
would an error of reading the open file (`catalog.go:245`), which returns the same way
and is not modelled apart; it ends the refresh initializer with a nil dereference (`RefreshDecodeError`).  Install is
lookup of the binary, download, truncating and writing the binary, running
`info`, and the session; delete matches, asks, and runs one session per match.
The operation `list` stands for every command that loads plugins, migration
included.  `installTest` is the install of a test plugin, which ignores the
binaries that exist.

`Crash` ends a process at any step and releases its locks (they are `flock`s of
`rogpeppe/go-internal/lockedfile`, an external library).

Left out: the removal of the command tree and inventory cache in `plugin clean`
(other components), `plugin uninstall all --target`, partial removal of the
plugin root (one step), changes of the active contexts during a run
(`ActiveContexts` is a constant).

`InstalledPlugins` promises that what a reader would see (`Visible`) changes only
by a whole install, uninstall, migration, clean-up or loss of the whole catalog.
`RefinesStore` is that promise for `PluginCatalog`.  A file that a failed write left
cut short reads as empty.

### InventoryCache

One action per step of `fetchInventoryImage` and the functions it calls: the TTL
check, the resolution of the digests of the image and of its metadata, the search
for digest files and what follows from it (two steps: another process may act in
between), signature check, the two downloads, opening (which truncates) and
writing the database, the central configuration, the creation of the two digest
files.  A digest is a revision number; `Publish` moves the registry to a later
revision at any moment and never back.  `seen` is a history of what the image was
since the refresh began, for the properties, and `faults.half` has the images whose
last refresh stopped half way.  `Expire` ends the TTL of a digest file.  Faults: `crash` at any step, `fail` of a network or file operation,
`metafail` (an error for the metadata image, which the code reads as absence),
`configfail` (the central configuration cannot be copied, which is only logged); a
source that cannot be saved is a `crash` before `SetCLIDiscoverySource`.  `plugin source update`, `init` and `delete` are the actions
`newUpdateDiscoverySourceCmd`, `newInitDiscoverySourceCmd` and
`newDeleteDiscoverySourceCmd` with the steps that follow; after a delete there is no
source and discovery finds nothing.

A digest file with its URI is created in one step, and the cache directory is
removed in one step.

### Contexts

`ctxs` and `active` are the CLI configuration.  `SetContext`, `AddContext`,
`SetActiveContext`, `RemoveContext` are calls of `tanzu-plugin-runtime`, which
locks its file: each is one atomic step, marked external.  `kfile` holds the
CLI's own kubeconfig (missing at first) and the user's.  The code loads such a
file, changes it in memory and writes it back without a lock: every change is two
actions, with `cfg` in the memory of the process in between.  `mergo.Merge`
(external) fills what is empty and keeps the rest (`Filled`).

A kube context of a tanzu context is the pair of the context's name and its
resource; the formatted names are injective in these.  Tokens, organization
metadata are in `Login`, the plugin installation after `create` and `use` in
`PluginManager`; prompts and listings are left out, and a failed kubeconfig write leaves the old file.  Whether kube
context names are stable (`TANZU_CLI_USE_STABLE_KUBE_CONTEXT_NAME`) is chosen per
command from `StableModes`; `SkipSync` is FALSE in the runs and arbitrary in the
proofs.

### Startup and RecommendedVersion

What runs around every command, in the order of `root.go` and `config/init.go`:
synchronization of contexts and servers, the two one-time updates of contexts,
the initializers after an upgrade, the agreement, the essential plugins, the
command, the notice.  `store` is the data store, `dsLock` its lock.  A `Set` is
wait for the lock, read and truncate (`LockStore`), write (`saveAndClose`); a store
that cannot be decoded (`Torn`) keeps its lock until the process ends (`Exit`),
as `data_store.go:112` does.  Contexts are stored one by one from the copy that was
read at the beginning.  `seen` is history for the properties.  Commands are kinds
that differ in what they skip; `login` and the agreement change state.
`DeleteDataStoreValue` has no caller.

`RecommendedVersion` is `findRecommendedMajorVersion`, `findRecommendedMinorVersion` and
`findRecommendedPatchVersion` as they pick from the list of the central configuration,
and what the notice prints of it.  A version has a major, minor and patch number
and the number of its pre-release, 0 for a release.  The list is a set, since the
code sorts it first.

### Telemetry

A command builds its metric before it runs; for a plugin the words of its command
line are kept when the plugin's cached tree has them and are dropped otherwise.
The tree file (`file`) is read, extended in memory, truncated and written without
a lock, after the plugin wrote its documentation to a directory that all commands
share (`docs`).  The metric is stored behind a lock: the rows are counted (`CountRows`)
and one is inserted (`Insert`) while it is held.  `LockTimeout` gives up the wait
at any moment, `LateLock` and `LateRelease` are the goroutine that obtains the lock
when nobody waits for it any more.  `plain` has the readable texts of the database.
The telemetry plugin (`Collect`) is external: it takes the rows or leaves them, and
may run for ever.

### PluginInventory and Publishing

A database is a set of plugin rows and a set of group rows with the primary keys
of the schema; queries are operators.  A version is `<<major, minor>>`, a requested
version a prefix of one or `Latest`.

`Publishing` follows a binary: packaged and published by goroutines under a
semaphore (`rel`), named in the published database by the inventory commands
(`pub`: the image is pulled, changed and pushed back), selected and saved with
the inventory and the metadata in a tar file (`dl`, `tars`: the image is read once
to select and once to save), and uploaded image by image to a private registry
(`up`, `priv`) whose metadata says which rows of its inventory are there
(`Listing`; without a metadata image a command line lists the whole inventory,
`oci_dbbacked.go:318`).  `priv.bundles` is a history: the bundles whose upload ended,
since the last upload that could not read the metadata.  The exit status of
`publish-package` (`rel.failed`) is kept and used by no other command.
The release is a stage before the other commands, to bound interleavings.

Taken as given: one publisher at a time (nothing in the code prevents two
from losing each other's rows, `inventory_plugin.go:282`, and no document says that
they may); a published row is not overridden (`Overrides` is `{FALSE}`) and the
manifests of groups share a plugin, so that a second manifest of a version is refused.
The registry a run starts from is one that the builder leaves (`Consistent`).  Left out: the local modes of the inventory commands
(`--plugin-inventory-db-file`, `--validate-only`), dry runs, signatures, and the
merge of plugin manifests when binaries are compiled in several runs.

### PluginManager

One command at a time, with a publisher and failing sources between its steps.
Discovery reads each source through its cache (`Answers`: cached, refreshed,
failed), merges in the order of the sources, and an installation chooses, falls
back to another architecture, downloads, checks the digest and registers.  Group
and local installs, essential plugins and `sync` install one plugin after the other
and go on after a failure.  Completions read the cache and are operators over the state.
The essential plugins do not depend on the command, so the command is chosen after
them (`Start`, then `Begin`), which keeps the state space small.

A cache without a database file reads as empty.  The order of entries within one
source is arbitrary.  Errors of the catalog after an install are logged only.
Contexts of the type tanzu are not synchronized on create and use.  The
environment variables that skip steps are not set.  Some behaviours the model
shows and no property forbids: a local install of an ambiguous name installs
nothing and reports success (`manager.go:1121`); a cluster whose CRD check and list
both fail looks like one that recommends nothing (a plugin that it recommends without
a target has the target of the context, `Associated`); plugins a context recommended
stay usable when it is no longer active, although a text of `plugin sync`
(`plugin.go:419`) says that they are available only while it is.

### Login and Configuration

`Login` has the token side of `login`, `context create`, `get-token` and `api-token
create`.  Issuers give out numbered refresh tokens, exchange them, and an issuer in
`Rotating` makes the old one useless.  A login with a browser is a session with
goroutines: callbacks under a mutex, the prompt without one, and the main one,
which waits for the exchange, reads the token and waits for the prompt.  The prompt
gets a code, is cancelled or fails by itself, which completes the exchange too.  A
browser may call back twice with the same authorization code, which the
issuer takes once.  `crossed` records that a command was cut short or wrote over
another's settings or context, for the properties that do not hold then.
`Configuration` has the settings as values; the file is of `tanzu-plugin-runtime`,
whose calls are atomic (external).

Assumptions about what is outside: the CSP gives a token of the organization
that was asked for and only of those the user is in (the instance has a configured
organization that the user is not in), an API token is its own refresh token, and a certificate is
found by the host of a URL.  Issuer URLs are two identity providers.  `ops` counts
commands and what browsers and users do beyond one callback.  Time is a counter;
a token is expired when its time is over, not, as a comment at `IsExpired` has it,
at half of its life.

## Runs

Eleven passing runs, each within four minutes on two cores:

| run | instance | shows |
|---|---|---|
| `catalog_sessions` | two processes, one operation each of all kinds but clean, catalogs of old CLIs, fairness | no lost update, what was committed is there at unlock, what is listed can be run, every operation ends |
| `catalog_faults` | the same with `plugin clean`, test plugins, crashes and failed writes anywhere | catalogs well formed; a lock outlives its session only on a file that cannot be decoded; `RefinesStore` |
| `inventory_refresh` | one process, two revisions, two faults anywhere, fairness | a refresh that ends well gives what the image was during it; the central configuration goes with the database; once faults and changes stop, the cache converges |
| `inventory_sources` | two images in every combination of digests, all source commands, two faults | a command that trusts the cache reads its own image |
| `inventory_concurrent` | two processes, a fixed image | once both are idle, a cache that counts as current is |
| `contexts` | one process, six commands of every kind, two names, both naming modes, two faults | kubectl and the CLI agree; undisturbed, every context stays usable; a login that ends well repairs its context; current-context names an entry |
| `startup` | two commands, one after the other or together, one fault, fairness | updates recorded as done are done and undo no login; the move to the new source is not skipped; nothing installed without agreement; keys are kept; commands end |
| `telemetry` | two commands of all kinds, one row allowed, one fault, fairness | bounded database, no lock kept, arguments masked, trees are those of their plugin |
| `publishing` | a release, two inventory commands, two bundles, uploads, one fault | rows have images; an air-gapped registry lists what it has, complete groups, and what earlier uploads brought |
| `plugins` | two commands of every kind, two sources of two releases, two contexts | what is installed is the best offer; sync, essential plugins and completions agree with what the next command does |
| `logins` | two commands in two processes, two callbacks and a pasted code, one fault or lapsed token, fairness | tokens stay in their organization, no used-up refresh token is kept, the organization is learnt, a login keeps its token and ends |

One run expects a violation, a disagreement of the code with its documentation
that `PROJECT.json` quotes under `findings`:

| run | what happens |
|---|---|
| `packages` | two plugins of one name are packaged through one tag; the archive of one holds the binary of the other |

The properties also show where they stop to hold.  Each of these is one
change of a property's condition or of a configuration away:

- after a refresh that found its main digest file and stopped half way: the file gets
  the new URI and a new age (`oci_dbbacked.go:408`) before the refresh succeeds, and
  until the TTL ends the database of the old source, or one that was cut short, is
  trusted as that of the new one;
- two images of which one changes during a refresh: the refresh leaves the digest
  file of the old revision beside the database of the new one, and a refresh of
  another source that is still at the old revision keeps that database (the
  theorems suppose `Steady`);
- after `metafail`: an error in reaching the metadata image is read as its absence
  (`:318`, `:356`) and the unfiltered inventory is recorded as filtered, for good;
- a publishable image, or two different ones, in `inventory_concurrent`: an older
  download, or that of the other image, overwrites a newer database and keeps its
  digest file (the theorem supposes `Mirrored`); a crash there: a command that is stopped
  in its copy leaves a blank database under the digest files of another command
  (`Uninterrupted`);
- two processes in `contexts`: two creations of one name both pass the check, and
  `get-token` writes back the context it read before a resource update, whose kube
  context is gone;
- a cluster that two contexts are created for through Pinniped: the deletion of one
  context takes the kubeconfig entry of the other (`context.go:1594`; the theorems
  suppose `OwnClusters`);
- after a failed kubeconfig update that login drops (`login.go:106`), the context is
  not usable until the next login;
- overlapping commands in `startup`: a login between the reading and the storing of
  the one-time update is undone;
- overlapping commands in `telemetry`: two plugins' documentation is mixed in one
  tree; a truncated tree file makes the next plugin command panic;
- the first upload, while it runs and after it failed: the inventory image is copied
  first (`plugin_bundle_upload.go:58`) and there is no metadata image, so the whole
  inventory is listed without its images (`ListedArePresent` begins with the metadata
  image);
- a bundle uploaded over a later one: its older inventory hides what the later one
  brought (`BundlesStayListed` asks that the inventory has the bundle's rows), and
  groups are listed whose members the older inventory does not know
  (`InventoryIsRecent`);
- a failed download of the metadata, read as its absence (`plugin_bundle_upload.go:108`):
  the bundles before are hidden until they are uploaded again (`UploadMetadata` takes
  them out of the history);
- two packages published at the same time, one of which fails: a success overwrites the
  failure (`publish-packages.go:64`) and the command says that all was published;
- two publishers and a release between their commands: the inventory of one is lost,
  its version is published again with an architecture more, and a private registry
  that has the first bundle lists that architecture without its image (the theorems
  suppose `OnePublisher`; in the model this also takes a release after the first
  command, which the bound on `Compile` excludes and the theorems do not use);
- two manifests of one group version without a common member: the second adds its
  members to the version (`sqlite_inventory.go:648`, the primary key has the member),
  and a private registry that has the first bundle lists members it has not (the
  theorem supposes `CommonMember`);
- local builds, disagreeing contexts or a cache that changed: `plugin list` asks for
  another sync;
- an essential group that names a plugin without a target and another of its name: the
  one that is installed last takes the other away, and the installation is asked for
  again although it succeeded (the theorem supposes `EssentialsFit`); the same where it
  names a plugin in a short version, which no installed version equals;
- a code pasted beside a callback: the prompt's goroutine stores its result without
  the mutex and may take the token away (`login_handler.go:459`); a prompt whose input
  ends completes the exchange (`:441`), perhaps before a callback has stored its token.
  `LoginKeepsToken` leaves out logins with either (`prompted`), `LoginEnds` does not.

Some follow from the models without a property: `mergo.Merge` without override
(`kubeconfig.go:40`) keeps the TLS options of an earlier login; the entry that
`context create` merges into the user's kubeconfig under a name that exists is
deleted with the context (`context.go:1594`); a refresh initializer that meets a
catalog it cannot decode calls `Unlock` on nil (`catalog_cache_init.go:64`); a saved
skip of verification wins over a provided CA (`login_handler.go:482`, against the
comment at 464), so a login with a CA that is not the issuer's succeeds, the CA is
saved as one that "was successfully used to authenticate" (`login_handler.go:217`)
with the skip turned off, and the organization of the platform is not learnt
(`PlatformIsLearned` supposes `FlagsAreRight`).

### Bounds

- `MaxOps`, `MaxRuns`, `MaxCommands`, `MaxJobs` and `MaxBundles` count commands.  One
  operation of each of two processes covers every pair of operations in every
  interleaving, from the empty catalog and from those old versions leave, which is
  where later operations start; the same holds for `startup`, which begins in every
  state an older CLI leaves, and `telemetry`.  Contexts need sequences: six commands
  are create or login, two resource updates, a use, a delete and a repeated create.
  Two commands in `plugins` and `publishing` are one that leaves a state (a stale
  cache, an old install, an earlier bundle) and one that meets it.
- Two plugins, one in two versions and for the unknown and global targets, are
  what superseding and migration tell apart.  One server suffices because the
  associations of servers are only ever copied to the stand-alone one.  `plugins` has
  four, for two names that are shared between targets.
- Three inodes: the one named, one unlinked and still open, and a new one.
- Two revisions: a database is either that of the current digest or an older one.
  The sources run has two images, the configured and the previous one.
- `MaxFaults` is 2 where a fault may hit the operation that repairs the first
  (`inventory_refresh`, `inventory_sources`, `contexts`), and 1 elsewhere.
- `MaxRows` 1: the limit is met by the second of two commands.
- Two callbacks: the first and any other.
- Two processes: three would need a property that relates three.

Deadlock is not checked where the bounds stop the system (`CHECK_DEADLOCK FALSE`);
in `PluginCatalog` the end of all operations is an action of its own
(`Terminated`), so a process stuck in a lock would show.

### Fairness

`PluginCatalog!FairSpec` has weak fairness for the steps of a process (`Progress`): the
operating system runs every process, and a lock that is free is granted.  Weak
fairness is enough for the lock because `MaxOps` lets other processes take it only
finitely often; for endless traffic it would be the fairness of `flock`, which
nothing promises.  `StartupSpec` is the same for `Step`.  Starting an operation and
crashing are never fair.  `InventoryCache!FairSpec` has weak fairness of the steps of a
refresh that has begun; that refreshes keep happening is the hypothesis of
`Converges`, not fairness.  `TelemetrySpec` is fair only to a process that holds the
lock, since the telemetry plugin may never end.  `Login!FairSpec` is fair only to the
goroutines of a login: browsers and users need not answer and time need not pass.

## Theorems

All proofs are checked by TLAPS, for every value of the constants under the named
assumptions: `ConstantsAssumption`, `StartupAssumption`, `TornAssumption`,
`TelemetryAssumption`, `LoginAssumption` and `ConfigurationAssumption` (constants have
their types and markers are not values), `LegacyAssumption` (an old catalog was built
by `Upsert`s), `RequestsAssumption` (what `createContextWith...` builds),
`RegistryAssumption` (only air-gapped images have metadata), `PublishingAssumption`
(versions are finitely many, and a registry that has an inventory has the images of its
rows and the members of its groups) and `PluginManagerAssumption` (a plugin is a name and a
target; sources publish finitely many rows and groups with full versions and the primary
key of `create_tables.sql`; contexts recommend finitely many plugins, each in a full or a
short version; the marker for nothing is no value).  What a theorem needs
beyond these is a hypothesis in its statement, and without each of them the
property fails, as the list above has it.

- `PluginCatalogProofs!TypeCorrect`, `CatalogsStayWellFormed`, `LocksAccounted`: for
  any number of processes, crashes, failed writes and `plugin clean` included.  The
  invariant needs more than its conclusion: a process in a session holds the lock
  of the inode it opened (`SessionsLocked`), since otherwise a save could meet
  another; the catalog in the memory of every process is well formed, and its
  control point says which of its fields are set (`Coherent`).  The first part of the
  module shows that `Upsert`, `Delete`, the migration and the clean-up keep a catalog
  well formed.
- `PluginCatalogProofs!StoreIsImplemented`: `PluginCatalog` implements `InstalledPlugins`,
  step by step, with crashes, failed writes and `plugin clean`.  A step shows nothing
  (`Visible` is unchanged), loses all, or is the write of a session, and then the
  invariant `SessionsAgree` says which operation of the store the session has done in
  memory since it locked the file (`Migrated`, `Achieved`, `Deleted`).  Where nothing
  fails and nobody cleans: `NoLostUpdates` (a step changes only keys of its own
  session), `SessionsCommit` (crashes allowed: what a session was for is on disk when it
  unlocks) and `ListedCanRun` (what is listed has its binary, by the further invariant
  `AllBacked`: a binary is there before its plugin is registered).
- `InventoryCacheProofs!CacheTyped` for any number of processes; `DigestsVouch`,
  `CentralConfigStaysWithDatabase`, `RefreshesAreCurrent`, `TrustIsJustified` for one
  command at a time (`Alone`) on images that do not change, or a single one that does
  (`Steady`), with crashes and failures of every kind anywhere.  The invariant says what
  two digest files together promise of the database (`Described`): nothing while one of
  them is missing, which is why a refresh removes them before it writes and creates
  them last; what a process knows at each step of the revisions it resolved
  (`ProcOK`); and whose database it is that a URI claims (`UriIsRight`).
- `InventoryCacheProofs!ConcurrentRefreshesAgree`: the same conclusion for any number of
  commands at the same time, where the images are one and the same and do not
  change (`Mirrored`) and no command is stopped (`Uninterrupted`).  Digest files promise
  nothing then, since any command creates them for the others; the invariant is
  instead that only one database can be written (`Shared`, `LoadsShared`), that somebody is
  about to write it while it is blank, and that no digest file outlives it.
- `ContextsProofs!ContextsTyped`, `CurrentContextAlwaysExists`: without any lock a
  command may write back a kubeconfig that is long out of date, so the file's
  invariant rests on that of every copy in memory (`Closed` for `proc[p].cfg`).  A
  command may also delete or move an entry that is gone or not its own; that is
  harmless because it looks for the entry in the same copy it then writes.  The
  entry it looks for exists as a name because a stored tanzu context always has an
  endpoint and a kube context (`Sound`), which create and login establish before
  they store it (`PcSound`).
- `ContextsProofs!KubectlAgrees`, `ContextsStayUsable`, `LoginsRepair`: for one command at
  a time and clusters that are asked for under one name (`OwnClusters`).  `Agreed` relates
  the two files in the middle of a command: which context in memory goes with which
  stored one (`Matches`), the kubeconfig in memory is the file with one change
  (`Snapshot`), and without faults every context but that of the running command has its
  entry (`AllLead`), which is current where the context is active (`AllChosen`).  An entry
  for a whole organization belongs to the stored context of its name (`OrgEntries`):
  that is what keeps `mergo.Merge`, which does not overwrite, from keeping the server
  of an earlier context.  With faults only `Repairs` is left, which follows a login
  from step to step.
- `StartupProofs!TypesAreKept`, `KeysStay`, `MigrationIsNotSkipped`,
  `NothingEssentialUnagreed` for any number of processes: the store is emptied only
  under its lock (`StoreIsGuarded`), and a process beyond a step has done it
  (`MigrationFirst`, `AgreementFirst`).  `RecordedUpdatesAreDone`, `LoginsAreNotUndone` for
  commands that do not overlap: what is left of an update was not changed since it was
  read, what is not left is updated (`Updating`), and a process that is about to record
  an update has done it (`Recording`).
- `TelemetryProofs!DatabaseIsBounded`, `LockIsExclusive`, `ArgumentsAreMasked` for any
  number of processes: who counts or inserts holds the lock, and there is room for the
  row about to be inserted (`LockedHolds`); `CachedTreesAreOwn` for commands on trees that do not overlap.
  `OnlyCommandsAreReadable` is about `parsePluginCommandPath`, a walk over the words of a
  command line, for every tree and command line.
- `LoginProofs!LoginTyped`, `ContextsKeepOrganization`, `RenewalsAreNotLost`,
  `PlatformIsLearned`, `BrowserIsToldTheTruth` for any number of processes and callbacks.
  A token comes from the issuer that was asked and goes to a context of that issuer
  and organization (`Coherent`, `Named`); a refresh token that still works is known to
  nobody but the context or the one process that is about to store it (`FreshOK`,
  `Pending`); a session that told its browser of success has the token until the main
  goroutine takes it (`SessionOK`).  `PlatformIsLearned` supposes that a CA which users
  name is the issuer's (`FlagsAreRight`).
- `StartupProofs!RecommendationsAreUpdates`, `NoticesSettle`: what the notice
  names is in the list, newer than the running version, of its major version, and a
  pre-release only for who runs one; after an update to the recommended minor
  version the notice is silent, and after one to the recommended patch no patch is
  recommended; for every finite list.  The argument is that the order of versions is
  transitive, irreflexive and total (`VersionOrder`), so that a finite list has a
  greatest element, and that the choices are the greatest of what they choose from.

- `PublishingProofs!RowsKeepImages`, for any number of publishers: the databases that
  builders have at hand are as good as the published one (`RowsKept`), since images are
  never removed.  `ListedHaveImages` (from the end of the first upload on),
  `ListedGroupsAreComplete` and `UploadedStayListed` for one publisher who overrides
  nothing.  The invariant relates four places where
  versions are named (the selection, the bundles, the upload, the private registry) to
  what is published now: a version that metadata names is published, and all its
  architectures are among the images beside the metadata (`Vouched`), all members of a
  group version are among the plugins of the metadata (`GroupVouched`).  The inventory is
  read twice by a download, and a private registry joins metadata with inventories of
  other bundles; both are harmless because what is published only grows, by
  whole versions (`Grown`), which is shown of every statement of the builder
  (`ChangeKeeps`) with the publisher working on the latest inventory (`Turns`).  What the
  queries and the selections of `download-bundle` return is shown for every database and
  any flags (`SelectionIsSelected`): versions are taken whole, and a selected group
  brings a version of each member.  For `UploadedStayListed` a bundle is whole (`Whole`:
  its inventory, read after the selection, has the rows of its images and groups), and
  merged metadata has all that the registry's has (`Merging`), so that the registry's
  names whatever a bundle of the history does (`Uploaded`).

- `PluginManagerProofs!InstalledStaysBest`, for any number of sources, releases, plugins and
  commands, failing sources and old caches included.  The proof follows an answer on
  its way.  A source tells of nothing but the rows it offers and of an equal or newer
  version of each (`Truthful`; less than all rows, because `GetPlugins` looks up only the
  latest version when a single plugin matches); so do all sources together
  (`Reflects`); merging keeps the newest version of a key and the first source that has
  it (`MergedIsBest`), which is why leaving out older versions cannot change the
  choice; and the only match, or the match of the target, is the best (`ChosenIsBest`).
  The invariant itself only adds that the caches hold releases (`Known`).
- `PluginManagerProofs!SuggestionsCanBeInstalled`: the version that a completion
  offers is the one installed when it is asked for, no target is asked for where none is needed,
  and the plugins completed for a group are those it installs; for any cache.  The same
  chain of lemmas is followed for two queries that the code makes with different
  criteria: the one of the completion, which gives all versions for all
  architectures, and the one of the installation, for one version and one architecture.
- `PluginManagerProofs!EssentialsAreSettled`: essential plugins that were installed without
  an error need not be installed again, where the mandatory plugins of the group are
  named alone and in full versions (`EssentialsFit`).  While they are installed, one
  after the other and in any order, those that are not left to do are settled
  (`EssentialsSoFar`): the installation of one gives exactly its version, and takes no
  other away because none supersedes another (`AloneStays`).
- `PluginManagerProofs!SyncsAreSettled`: after `plugin sync` succeeded, `plugin list` asks
  for no other one; a recommendation without a target has that of its context, so that
  none takes another's plugin away (`AssociatedAre`).  The invariant follows the contexts one by one: what the handled ones recommend is
  installed or left to do, and nothing else is left to do (`SyncSoFar`).  It needs that
  a cache that is what it was at the start was so all the time (`Behind`: within a
  command it only moves towards the registry, which only moves on), since each context
  resolves its short versions with the cache of its moment; and that an installed
  plugin that is no local build has the version it was recommended in (`OwnVersion`),
  because `sync` and `list` compare different fields of it.
- `PluginManagerProofs!OldPluginsStepAside`, `InstalledSelectable`: after any commands a
  plugin without a target is not installed beside its global or kubernetes successor
  (`Exclusive`, kept by `Upsert` because either replaces the other), hence the names and
  targets completed for installed plugins select one.

The provers cannot instantiate induction theorems; where a proof needs induction it
takes a least counterexample (a smallest set of versions without a greatest
element, a first word of a command line that is wrong) and refutes it.

Model-checked only: liveness (`OperationsFinish`, `Converges`, `CommandsEnd`,
`LockIsGivenBack`, `LoginEnds`), which is out of the prover's reach, and `PackagesAreOwn`,
which fails.  Every other property of the runs is stated by a theorem.

## What is not modelled

`PROJECT.json` lists every component with its status and reason.

- Plugin execution, registry and artifact access, signatures, the cluster client:
  their outcome is success or failure, which the models take as a choice.
- How plugins become commands of the root command, help, completion scripts,
  documentation and listings: they print and change nothing.
- The requests to clusters for Pinniped and supervisor settings keep no state.
- The trusted certificates of Windows are data, the fakes are for tests, and the
  builder's scaffolding writes files from templates.
- Libraries outside the repository (`tanzu-plugin-runtime`, `lockedfile`, `mergo`) and
  the issuers are modelled as the code uses them and marked external.
