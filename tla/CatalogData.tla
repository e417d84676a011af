----------------------------- MODULE CatalogData -----------------------------
(***************************************************************************)
(* The plugin catalog as a value (pkg/catalog/catalog_types.go) and the    *)
(* edits pkg/catalog makes to it in memory.                                *)
(***************************************************************************)
EXTENDS Naturals, FiniteSets

CONSTANTS
  Plugins,         \* [name, target, version]: one installation path each
  Servers,         \* contexts that may own plugins in a catalog of an old CLI
  NoPlugin,        \* no entry
  StandAlone       \* the context "" of stand-alone plugins

ASSUME DataAssumption == NoPlugin \notin Plugins /\ StandAlone \notin Servers

-----------------------------------------------------------------------------
(* The data of a catalog: catalog_types.go *)

TargetUnknown == "unknown"
TargetGlobal == "global"
TargetK8s == "kubernetes"

Names == {pl.name : pl \in Plugins}
Targets == {pl.target : pl \in Plugins} \cup {TargetUnknown, TargetGlobal, TargetK8s}
Keys == Names \X Targets

\* The name under which associations file a plugin.
PluginNameTarget(name, target) == <<name, target>>
KeyOf(pl) == PluginNameTarget(pl.name, pl.target)

PluginAssociation == [Keys -> Plugins \cup {NoPlugin}]
NoAssociation == [k \in Keys |-> NoPlugin]

\* What IndexByPath holds for a path: nothing, a PluginInfo recorded by a CLI
\* before 1.3 (no remapping data), or a complete one.
Infos == {"none", "old", "new"}

Catalog == [standAlone  : PluginAssociation,
            server      : [Servers -> PluginAssociation],
            indexByPath : [Plugins -> Infos],
            indexByName : [Keys -> SUBSET Plugins]]

newSharedCatalog ==
  [standAlone  |-> NoAssociation,
   server      |-> [s \in Servers |-> NoAssociation],
   indexByPath |-> [pl \in Plugins |-> "none"],
   indexByName |-> [k \in Keys |-> {}]]

\* The association newContextCatalog selects for a context.
Association(c, n) == IF n = StandAlone THEN c.standAlone ELSE c.server[n]

Paths(a) == {a[k] : k \in Keys} \ {NoPlugin}

\* The plugins whose PluginInfo ContextCatalog.List can return.
List(c, n) == {pl \in Paths(Association(c, n)) : c.indexByPath[pl] # "none"}

AllContexts == Servers \cup {StandAlone}
Associated(c) == UNION {Paths(Association(c, n)) : n \in AllContexts}

-----------------------------------------------------------------------------
(* Edits of a catalog in memory *)

\* The keys an upsert removes: "unknown" used to stand for global or
\* kubernetes.
Superseded(pl) ==
  IF pl.target \in {TargetGlobal, TargetK8s}
  THEN {PluginNameTarget(pl.name, TargetUnknown)}
  ELSE IF pl.target = TargetUnknown
  THEN {PluginNameTarget(pl.name, t) : t \in {TargetGlobal, TargetK8s}}
  ELSE {}

\* Mutants of Upsert: the "unknown" entry of the same name stays; the path is
\* not indexed.
Upsert_KeepsSuperseded(c, pl) ==
  [c EXCEPT !.standAlone = [c.standAlone EXCEPT ![KeyOf(pl)] = pl],
            !.indexByPath = [c.indexByPath EXCEPT ![pl] = "new"],
            !.indexByName = [c.indexByName EXCEPT ![KeyOf(pl)] = @ \cup {pl}]]
Upsert_NotIndexed(c, pl) ==
  [c EXCEPT !.standAlone = [c.standAlone EXCEPT ![KeyOf(pl)] = pl]]
\* Only stand-alone plugins are inserted: every caller passes context "".
Upsert(c, pl) ==
  [c EXCEPT
     !.standAlone  = [k \in Keys |-> IF k = KeyOf(pl) THEN pl
                                     ELSE IF k \in Superseded(pl) THEN NoPlugin
                                     ELSE c.standAlone[k]],
     !.indexByPath = [c.indexByPath EXCEPT ![pl] = "new"],
     !.indexByName = [c.indexByName EXCEPT ![KeyOf(pl)] = @ \cup {pl}]]

Delete(c, n, key) ==
  IF n = StandAlone
  THEN [c EXCEPT !.standAlone = [c.standAlone EXCEPT ![key] = NoPlugin]]
  ELSE [c EXCEPT !.server = [c.server EXCEPT ![n] = [c.server[n] EXCEPT ![key] = NoPlugin]]]

\* Mutant: the plugins of the context are copied but not removed from it.
MigrateContext_Keeps(c, ac) ==
  [c EXCEPT !.standAlone = [k \in Keys |-> IF c.server[ac][k] # NoPlugin
                                           THEN c.server[ac][k] ELSE c.standAlone[k]]]

\* One iteration of the loop of MigrateContextPluginsAsStandaloneIfNeeded.
MigrateContext(c, ac) ==
  [c EXCEPT
     !.standAlone = [k \in Keys |-> IF c.server[ac][k] # NoPlugin
                                    THEN c.server[ac][k] ELSE c.standAlone[k]],
     !.server     = [c.server EXCEPT ![ac] = NoAssociation]]

\* The "unknown" keys made redundant by a global or kubernetes plugin.
Incorrect(c, a) ==
  {PluginNameTarget(pl.name, TargetUnknown) :
     pl \in {q \in Paths(a) : /\ c.indexByPath[q] # "none"
                              /\ q.target \in {TargetGlobal, TargetK8s}}}

RemoveIncorrect(c, a) == [k \in Keys |-> IF k \in Incorrect(c, a) THEN NoPlugin ELSE a[k]]

DeleteIncorrectPluginEntries(c) ==
  [c EXCEPT !.standAlone = RemoveIncorrect(c, c.standAlone),
            !.server     = [s \in Servers |-> RemoveIncorrect(c, c.server[s])]]

-----------------------------------------------------------------------------
(* Facts about a catalog that properties speak of *)

\* Every plugin a catalog associates is filed under its own name and target,
\* and the two indexes know it.
WellFormed(c) ==
  \A n \in AllContexts, k \in Keys :
    Association(c, n)[k] # NoPlugin =>
      /\ KeyOf(Association(c, n)[k]) = k
      /\ c.indexByPath[Association(c, n)[k]] # "none"
      /\ Association(c, n)[k] \in c.indexByName[k]

\* A name is listed for the "unknown" target and for one that replaced it.
Doubled(a, name) ==
  /\ a[PluginNameTarget(name, TargetUnknown)] # NoPlugin
  /\ \E t \in {TargetGlobal, TargetK8s} : a[PluginNameTarget(name, t)] # NoPlugin

=============================================================================
