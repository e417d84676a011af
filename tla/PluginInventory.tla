--------------------------- MODULE PluginInventory ---------------------------
(***************************************************************************)
(* The plugin inventory database of pkg/plugininventory: the tables, the   *)
(* queries of the command line, and the statements of the builder.  A      *)
(* plugin stands for a name and a target, a version is <<major, minor>>, a *)
(* requested version is a prefix of a version (<<>> asks for every one) or *)
(* Latest.  A database is a record of the two tables; their primary keys   *)
(* are the (plugin, version, arch) and the (group, version, plugin).       *)
(* Vendor and publisher are part of a group's name, descriptions are left  *)
(* out, and the column RecommendedVersion is empty, as InsertPlugin leaves *)
(* it.                                                                     *)
(***************************************************************************)
EXTENDS Integers, SequencesExt, FiniteSetsExt

CONSTANTS Plugins, \* the (name, target) pairs
          NameOf   \* [Plugins -> names]: two plugins may share a name

Latest == << -1 >>

\* IsNewVersion: semantic order.
IsNewVersion(v, w) == v[1] > w[1] \/ (v[1] = w[1] /\ v[2] > w[2])

\* SortVersions and its last element.
Newest(S) == CHOOSE v \in S : \A w \in S \ {v} : IsNewVersion(v, w)

EmptyDB == [plugins |-> {}, groups |-> {}]

\* CreateSchema: the statements say IF NOT EXISTS on a file that was removed.
CreateSchema == EmptyDB

-----------------------------------------------------------------------------
(* Queries.  A filter names the plugins that its name and target allow.    *)

\* createPluginWhereClause
PluginWhere(f, r) ==
    /\ r.plugin \in f.plugins
    /\ IsPrefix(f.version, r.version)
    /\ f.hidden \/ ~r.hidden
    /\ r.arch \in f.archs

VersionsOf(rows) == {r.version : r \in rows}

\* appendPlugin: the artifacts of one plugin by version.
Artifacts(rows) == [v \in VersionsOf(rows) |-> {r.arch : r \in {m \in rows : m.version = v}}]

\* extractPluginsFromRows: one entry for each plugin, its newest version
\* recommended.
PluginEntry(rows, p) ==
    LET mine == {r \in rows : r.plugin = p}
    IN  [plugin |-> p, recommended |-> Newest(VersionsOf(mine)), artifacts |-> Artifacts(mine)]

GetPluginsFromDB(db, f) ==
    LET rows == {r \in db.plugins : PluginWhere(f, r)}
    IN  {PluginEntry(rows, p) : p \in {r.plugin : r \in rows}}

\* GetPlugins: the latest version is looked up first, unless the name is
\* ambiguous or unknown.
GetPlugins(db, f) ==
    LET all == GetPluginsFromDB(db, [f EXCEPT !.version = <<>>])
    IN  IF f.version # Latest THEN GetPluginsFromDB(db, f)
        ELSE IF Cardinality(all) # 1 THEN all
        ELSE GetPluginsFromDB(db,
               [f EXCEPT !.version = (CHOOSE e \in all : TRUE).recommended])

\* createGroupWhereClause
GroupWhere(f, r) ==
    /\ r.group \in f.groups
    /\ IsPrefix(f.version, r.version)
    /\ f.hidden \/ ~r.hidden

\* appendGroup: the plugins of one group by version.
Members(rows) ==
    [v \in VersionsOf(rows) |->
        {[plugin |-> r.plugin, version |-> r.pversion, mandatory |-> r.mandatory] :
           r \in {m \in rows : m.version = v}}]

\* extractGroupsFromRows
GroupEntry(rows, g) ==
    LET mine == {r \in rows : r.group = g}
    IN  [group |-> g, recommended |-> Newest(VersionsOf(mine)), versions |-> Members(mine)]

GetGroupsFromDB(db, f) ==
    LET rows == {r \in db.groups : GroupWhere(f, r)}
    IN  {GroupEntry(rows, g) : g \in {r.group : r \in rows}}

\* GetPluginGroups: a latest version is asked for one group only.
GetPluginGroups(db, f) ==
    LET all == GetGroupsFromDB(db, [f EXCEPT !.version = <<>>])
    IN  IF f.version # Latest THEN GetGroupsFromDB(db, f)
        ELSE IF all = {} THEN {}
        ELSE GetGroupsFromDB(db,
               [f EXCEPT !.version = (CHOOSE e \in all : TRUE).recommended])

-----------------------------------------------------------------------------
(* Statements.  Each gives [ok, db]; after an error the caller drops db.    *)

Failed(db) == [ok |-> FALSE, db |-> db]
Done(db) == [ok |-> TRUE, db |-> db]

RowKey(r) == <<r.plugin, r.version, r.arch>>

\* InsertPlugin: a row whose key the table has is an error.
InsertPlugin(db, rows) ==
    IF {RowKey(r) : r \in rows} \cap {RowKey(r) : r \in db.plugins} # {}
    THEN Failed(db)
    ELSE Done([db EXCEPT !.plugins = @ \cup rows])

\* updatePluginVersionActivationState: an update that meets no row is an error.
SetPluginHidden(db, p, v, h) ==
    LET hit == {r \in db.plugins : r.plugin = p /\ r.version = v}
    IN  IF hit = {} THEN Failed(db)
        ELSE Done([db EXCEPT !.plugins =
                    (@ \ hit) \cup {[r EXCEPT !.hidden = h] : r \in hit}])

\* InsertPluginGroup: pg is [group, version, members, hidden, described].
\* Every member must be in the database, and active unless the group
\* activates its members; a member's version that is short activates nothing,
\* which is an error.
InsertPluginGroup(db, pg, override, activating) ==
    LET known == \E r \in db.groups : r.group = pg.group /\ ~r.hidden
        kept == IF override
                THEN {r \in db.groups : ~(r.group = pg.group /\ r.version = pg.version)}
                ELSE db.groups
        activate == activating /\ ~pg.hidden
        found(m) == GetPlugins(db, [plugins |-> {m.plugin}, version |-> m.version,
                                    hidden |-> activate,
                                    archs |-> {r.arch : r \in db.plugins}]) # {}
        exact(m) == \E r \in db.plugins : r.plugin = m.plugin /\ r.version = m.version
        doubled == \E m \in pg.members, r \in kept :
                      r.group = pg.group /\ r.version = pg.version /\ r.plugin = m.plugin
        rows == {[group |-> pg.group, version |-> pg.version, plugin |-> m.plugin,
                  pversion |-> m.version, mandatory |-> m.mandatory,
                  hidden |-> pg.hidden] : m \in pg.members}
        Activated(r) == \E m \in pg.members : r.plugin = m.plugin /\ r.version = m.version
    IN  IF \/ ~pg.described /\ ~known
           \/ \E m \in pg.members : ~found(m) \/ (activate /\ ~exact(m))
           \/ doubled
        THEN Failed(db)
        ELSE Done([plugins |-> {IF activate /\ Activated(r)
                                THEN [r EXCEPT !.hidden = FALSE] ELSE r : r \in db.plugins},
                   groups |-> kept \cup rows])

\* UpdatePluginGroupActivationState: the builder names no members, so no
\* plugin is activated with the group.
SetGroupHidden(db, g, v, h) ==
    LET hit == {r \in db.groups : r.group = g /\ r.version = v}
    IN  IF hit = {} THEN Failed(db)
        ELSE Done([db EXCEPT !.groups =
                    (@ \ hit) \cup {[r EXCEPT !.hidden = h] : r \in hit}])

-----------------------------------------------------------------------------
(* The metadata database of a bundle: the identifiers that it holds.       *)

\* MergeInventoryMetadataDatabase
MergeMetadata(m, more) ==
    [plugins |-> m.plugins \cup more.plugins, groups |-> m.groups \cup more.groups]

\* UpdatePluginInventoryDatabase: what the metadata does not name is deleted.
UpdateInventory(db, m) ==
    [plugins |-> {r \in db.plugins : <<r.plugin, r.version>> \in m.plugins},
     groups |-> {r \in db.groups : <<r.group, r.version>> \in m.groups}]
=============================================================================
