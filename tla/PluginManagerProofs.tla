-------------------------- MODULE PluginManagerProofs --------------------------
(***************************************************************************)
(* Which plugins are installed and can be selected, for any number of      *)
(* plugins, sources, releases and commands: a plugin that was installed is *)
(* the best that the answering sources offer; what the completions of      *)
(* installed plugins suggest selects one plugin, and what those of         *)
(* available plugins suggest can be installed; and when the essential      *)
(* plugins were installed, or the contexts synchronized, without an error, *)
(* there is nothing left to install.                                       *)
(***************************************************************************)
EXTENDS PluginManager, FiniteSetTheorems, WellFoundedInduction, TLAPS

-----------------------------------------------------------------------------
(* The catalog: Upsert *)

\* A plugin without a target is not installed beside its global or kubernetes
\* successor.
Exclusive == \A p, q \in Plugins : installed[p] # None /\ q \in Superseded(p) => installed[q] = None

LEMMA SupersededEachOther ==
  ASSUME NEW p \in Plugins, NEW q \in Plugins, q \in Superseded(p)
  PROVE  p \in Superseded(q) /\ p # q
  BY PluginManagerAssumption DEF Superseded

\* Upsert takes away what the new plugin replaces or is replaced by.
LEMMA UpsertedIsExclusive ==
  ASSUME Exclusive, NEW e, NEW x, installed' = Upserted(installed, e, x)
  PROVE  Exclusive'
<1> SUFFICES ASSUME NEW p \in Plugins, NEW q \in Plugins, q \in Superseded(p),
                    installed'[p] # None
             PROVE  installed'[q] = None
  BY DEF Exclusive, Superseded
<1>1. p \in Superseded(q) /\ p # q
  BY SupersededEachOther
<1>2. CASE p = e
  BY <1>1, <1>2 DEF Upserted
<1>3. CASE p # e
  <2>1. installed'[p] = installed[p] /\ p \notin Superseded(e)
    BY <1>3 DEF Upserted
  <2>2. q # e
    BY <1>1, <2>1
  <2>3. installed[q] = None
    BY <2>1 DEF Exclusive
  <2> QED BY <2>2, <2>3 DEF Upserted
<1> QED BY <1>2, <1>3

LEMMA FewerAreExclusive ==
  ASSUME Exclusive, \A p \in Plugins : installed'[p] \in {None, installed[p]}
  PROVE  Exclusive'
  BY DEF Exclusive, Superseded

LEMMA InstallationIsExclusive ==
  ASSUME Exclusive, NEW e, NEW v, NEW x, installed' = Installation(e, v, x).installed
  PROVE  Exclusive'
<1>1. CASE x = None
  BY <1>1, FewerAreExclusive DEF Installation
<1>2. CASE x # None
  <2>1. installed' = Upserted(installed, e.plugin,
                       [version |-> v, content |-> x, discovered |-> e.recommended])
    BY <1>2 DEF Installation
  <2> QED BY <2>1, UpsertedIsExclusive
<1> QED BY <1>1, <1>2

\* What the steps do to the catalog.
LEMMA CatalogSteps ==
  ASSUME [Next]_vars
  PROVE  InstallNext \/ InstallLocalNext \/ \A p \in Plugins : installed'[p] \in {None, installed[p]}
<1>1. ASSUME UNCHANGED installed PROVE \A p \in Plugins : installed'[p] \in {None, installed[p]}
  BY <1>1
<1>2. CASE Uninstall
  BY <1>2 DEF Uninstall
<1>3. CASE Clean
  BY <1>3 DEF Clean
<1>4. CASE Start \/ \E op \in Ops : Begin(op)
  BY <1>1, <1>4 DEF Start, Begin
<1>5. CASE RefreshDatabase \/ CheckEssentials \/ InstallsDone
  BY <1>1, <1>5 DEF RefreshDatabase, CheckEssentials, InstallsDone
<1>6. CASE InstallOne \/ Upgrade \/ InstallGroup \/ InstallLocal \/ InstallLocalDone
  BY <1>1, <1>6 DEF InstallOne, Upgrade, InstallGroup, InstallLocal, InstallLocalDone
<1>7. CASE Search \/ GroupSearch \/ CompletePlugins \/ Other
  BY <1>1, <1>7 DEF Search, GroupSearch, CompletePlugins, Other
<1>8. CASE UseContext \/ UnsetContext \/ SyncPlugins \/ SyncContext
  BY <1>1, <1>8 DEF UseContext, UnsetContext, SyncPlugins, SyncContext
<1>9. CASE (\E s \in Sources : Publish(s)) \/ UNCHANGED vars
  BY <1>1, <1>9 DEF Publish, vars
<1> QED BY <1>2, <1>3, <1>4, <1>5, <1>6, <1>7, <1>8, <1>9 DEF Next

\* Whatever is installed, upgraded, synchronized, installed from a directory or
\* removed, a plugin without a target never stands beside the global or kubernetes
\* plugin of its name (ContextCatalog.Upsert).
THEOREM OldPluginsStepAside == Spec => []Exclusive
<1>1. Init => Exclusive
  BY DEF Init, Exclusive
<1>2. Exclusive /\ [Next]_vars => Exclusive'
  <2> SUFFICES ASSUME Exclusive, [Next]_vars PROVE Exclusive'
    OBVIOUS
  <2>1. CASE \A p \in Plugins : installed'[p] \in {None, installed[p]}
    BY <2>1, FewerAreExclusive
  <2>2. CASE InstallNext
    <3>1. PICK r \in cmd.todo : InstallStandalonePlugin(r)
      BY <2>2 DEF InstallNext
    <3>2. \/ UNCHANGED installed
          \/ \E e, v, x : installed' = Installation(e, v, x).installed
      BY <3>1 DEF InstallStandalonePlugin
    <3> QED BY <3>2, FewerAreExclusive, InstallationIsExclusive
  <2>3. CASE InstallLocalNext
    <3>1. \E e, v, x : installed' = Installation(e, v, x).installed
      BY <2>3 DEF InstallLocalNext
    <3> QED BY <3>1, InstallationIsExclusive
  <2> QED BY <2>1, <2>2, <2>3, CatalogSteps
<1> QED BY <1>1, <1>2, PTL DEF Spec


\* DeletePlugin and DescribePlugin accept a name and a target that match one plugin.
LEMMA OneSelected ==
  ASSUME NEW name, NEW target, NEW p \in Plugins, MatchedInstalled(name, target) = {p}
  PROVE  Deletable(name, target) /\ Describable(name, target)
<1>1. {TargetOf[q] : q \in MatchedInstalled(name, target)} = {TargetOf[p]}
  OBVIOUS
<1>2. Cardinality({TargetOf[p]}) = 1 /\ Cardinality({p}) = 1
  BY FS_Singleton
<1> QED BY <1>1, <1>2 DEF Deletable, Describable

\* The names and targets that are completed for installed plugins select one of
\* them for `plugin describe` and `plugin uninstall` (completeInstalledPlugins,
\* DescribePlugin, DeletePlugin), because Upsert removes the old plugin without a
\* target when its successor comes, and the other way round.
THEOREM InstalledSelectable == Spec => []SuggestionsSelect
<1>1. Exclusive => SuggestionsSelect
  <2> SUFFICES ASSUME Exclusive, NEW name \in InstalledNames,
                      NEW target \in IF InstalledNeedsTarget(name) THEN InstalledTargets(name)
                                     ELSE {Unknown}
               PROVE  \/ Deletable(name, target) /\ Describable(name, target)
                      \/ /\ target = Unknown
                         /\ ~(InstalledTargets(name) \subseteq {Unknown, "global", "kubernetes"})
    BY DEF SuggestionsSelect
  <2> DEFINE M == MatchedInstalled(name, Unknown)
  <2>1. name # Unknown /\ M # {} /\ M \subseteq Plugins
        /\ \A p \in M : NameOf[p] = name /\ installed[p] # None
    BY PluginManagerAssumption DEF InstalledNames, MatchedInstalled, Named
  <2>2. IsFiniteSet(M) /\ Cardinality(M) \in Nat
    BY <2>1, PluginManagerAssumption, FS_Subset, FS_CardinalityType
  <2>3. CASE ~InstalledNeedsTarget(name)
    <3>1. Cardinality(M) = 1
      BY <2>1, <2>2, <2>3, FS_EmptySet DEF InstalledNeedsTarget
    <3>2. PICK p : M = {p}
      BY <2>2, <3>1, FS_Singleton
    <3> QED BY <2>1, <2>3, <3>2, OneSelected
  <2>4. CASE InstalledNeedsTarget(name)
    <3>1. PICK p \in M : target = TargetOf[p]
      BY <2>4 DEF InstalledTargets
    <3>2. CASE target # Unknown
      <4>1. MatchedInstalled(name, target) = {p}
        BY <2>1, <3>1, <3>2, PluginManagerAssumption DEF MatchedInstalled, Named
      <4> QED BY <2>1, <4>1, OneSelected
    <3>3. CASE target = Unknown
      <4>1. PICK q \in M : q # p
        <5>1. Cardinality(M) > 1 /\ Cardinality({p}) = 1
          BY <2>4, FS_Singleton DEF InstalledNeedsTarget
        <5>2. M # {p}
          BY <5>1
        <5> HIDE DEF M
        <5> QED BY <3>1, <5>2
      <4>2. TargetOf[q] \in InstalledTargets(name) /\ TargetOf[q] # Unknown
        BY <2>1, <3>1, <3>3, <4>1, PluginManagerAssumption DEF InstalledTargets
      <4>3. q \notin Superseded(p)
        BY <2>1, <3>1, <4>1 DEF Exclusive
      <4>4. TargetOf[q] \notin {"global", "kubernetes"}
        BY <2>1, <3>1, <3>3, <4>1, <4>3 DEF Superseded
      <4> QED BY <3>3, <4>2, <4>4
    <3> QED BY <3>2, <3>3
  <2> QED BY <2>3, <2>4
<1> QED BY <1>1, OldPluginsStepAside, PTL


-----------------------------------------------------------------------------
(* Versions *)

LEMMA LeastNumber ==
  ASSUME NEW N \in SUBSET Nat, N # {} PROVE \E n \in N : \A k \in N : n <= k
<1>1. \E n \in N : \A k \in N : ~ (<<k, n>> \in OpToRel(<, Nat))
  BY NatLessThanWellFounded, WFMin
<1>2. PICK n \in N : \A k \in N : ~ (<<k, n>> \in OpToRel(<, Nat))
  BY <1>1
<1>3. \A k \in N : ~ (k < n)
  BY <1>2 DEF OpToRel
<1> QED
  BY <1>3

\* The versions that sources publish, the order of versions, and the newest one.
AllVersions == {x.version : x \in AllRows}

LEMMA NewerOrder ==
  ASSUME NEW u \in Nat \X Nat, NEW v \in Nat \X Nat, NEW w \in Nat \X Nat
  PROVE  /\ IsNewVersion(u, v) /\ IsNewVersion(v, w) => IsNewVersion(u, w)
         /\ u = v \/ IsNewVersion(u, v) \/ IsNewVersion(v, u)
         /\ ~IsNewVersion(u, u) /\ ~(IsNewVersion(u, v) /\ IsNewVersion(v, u))
<1>1. u[1] = v[1] /\ u[2] = v[2] => u = v
  OBVIOUS
<1> QED BY <1>1 DEF IsNewVersion

HasNewest(S) == \E v \in S : \A w \in S \ {v} : IsNewVersion(v, w)

\* A smallest set without a newest version would have one after any of its
\* versions is taken out.
LEMMA SomeIsNewest ==
  ASSUME NEW S \in SUBSET (Nat \X Nat), IsFiniteSet(S), S # {} PROVE HasNewest(S)
<1> DEFINE N == {n \in Nat : \E X \in SUBSET (Nat \X Nat) :
                   IsFiniteSet(X) /\ X # {} /\ Cardinality(X) = n /\ ~ HasNewest(X)}
<1>1. SUFFICES ASSUME ~ HasNewest(S) PROVE FALSE
  OBVIOUS
<1>2. PICK n \in N : \A k \in N : n <= k
  <2>1. N \in SUBSET Nat /\ N # {}
    BY <1>1, FS_CardinalityType
  <2> HIDE DEF N
  <2> QED BY <2>1, LeastNumber
<1>3. PICK X \in SUBSET (Nat \X Nat) :
        IsFiniteSet(X) /\ X # {} /\ Cardinality(X) = n /\ ~ HasNewest(X)
  BY <1>2
<1>4. PICK x \in X : TRUE
  BY <1>3
<1> DEFINE Y == X \ {x}
<1>5. IsFiniteSet(Y) /\ Cardinality(Y) = n - 1 /\ Y \in SUBSET (Nat \X Nat)
  BY <1>3, <1>4, FS_RemoveElement
<1>6. CASE Y = {}
  BY <1>3, <1>4, <1>6 DEF HasNewest
<1>7. CASE Y # {}
  <2>1. n - 1 \in Nat /\ n \in Nat
    BY <1>5, FS_CardinalityType
  <2>2. n - 1 \notin N
    BY <1>2, <2>1
  <2>3. HasNewest(Y)
    <3> HIDE DEF Y, HasNewest
    <3> QED BY <1>5, <1>7, <2>1, <2>2
  <2>4. PICK m \in Y : \A w \in Y \ {m} : IsNewVersion(m, w)
    BY <2>3 DEF HasNewest
  <2>5. CASE IsNewVersion(x, m)
    <3>1. \A w \in X \ {x} : IsNewVersion(x, w)
      BY <1>4, <2>4, <2>5, NewerOrder
    <3> QED BY <1>3, <1>4, <3>1 DEF HasNewest
  <2>6. CASE IsNewVersion(m, x)
    <3>1. m \in X /\ \A w \in X \ {m} : IsNewVersion(m, w)
      BY <2>4, <2>6
    <3> QED BY <1>3, <3>1 DEF HasNewest
  <2> QED BY <1>4, <2>4, <2>5, <2>6, NewerOrder
<1> QED BY <1>6, <1>7

\* What a function makes of a finite set is finite.
LEMMA FiniteImage == \A S, f : IsFiniteSet(S) => IsFiniteSet({f[x] : x \in S})
<1> SUFFICES ASSUME NEW S, IsFiniteSet(S), NEW f PROVE IsFiniteSet({f[x] : x \in S})
  OBVIOUS
<1> DEFINE T == {f[x] : x \in S}
           h == [x \in S |-> f[x]]
<1>1. h \in Surjection(S, T)
  BY DEF Surjection
<1>2. IsFiniteSet(T)
  <2> HIDE DEF T, h
  <2> QED BY <1>1, FS_Surjection
<1> QED BY <1>2

LEMMA VersionsFinite == IsFiniteSet(AllVersions) /\ AllVersions \subseteq Nat \X Nat
<1> DEFINE f == [x \in AllRows |-> x.version]
<1>1. {f[x] : x \in AllRows} = AllVersions
  BY DEF AllVersions
<1>2. IsFiniteSet({f[x] : x \in AllRows})
  <2> HIDE DEF f
  <2> QED BY PluginManagerAssumption, FiniteImage
<1>3. \A r \in AllRows : r.version \in Nat \X Nat
  BY PluginManagerAssumption
<1> QED BY <1>1, <1>2, <1>3 DEF AllVersions

\* SortVersions and its last element.
LEMMA NewestIsNewest ==
  ASSUME NEW S \in SUBSET AllVersions, S # {}
  PROVE  Newest(S) \in S /\ \A w \in S \ {Newest(S)} : IsNewVersion(Newest(S), w)
<1>1. HasNewest(S)
  BY VersionsFinite, FS_Subset, SomeIsNewest
<1> QED BY <1>1 DEF HasNewest, Newest

\* A full version as a request asks for itself only.
LEMMA FullVersions ==
  ASSUME NEW v \in Nat \X Nat
  PROVE  /\ IsPrefix(<<>>, v)
         /\ \A w \in Nat \X Nat : IsPrefix(w, v) <=> w = v
<1>1. IsPrefix(<<>>, v)
  BY DEF IsPrefix
<1>2. ASSUME NEW w \in Nat \X Nat PROVE IsPrefix(w, v) <=> w = v
  <2>1. w \in Seq(Nat) /\ v \in Seq(Nat) /\ Len(w) = 2 /\ Len(v) = 2
    <3>1. w = <<w[1], w[2]>> /\ v = <<v[1], v[2]>> /\ {w[1], w[2], v[1], v[2]} \subseteq Nat
      OBVIOUS
    <3>2. \A a, b \in Nat : <<a, b>> \in Seq(Nat) /\ Len(<<a, b>>) = 2
      OBVIOUS
    <3> QED BY <3>1, <3>2
  <2>2. SubSeq(w, 1, 2) = w /\ SubSeq(v, 1, 2) = v
    BY <2>1
  <2> QED BY <2>1, <2>2 DEF IsPrefix
<1> QED BY <1>1, <1>2


-----------------------------------------------------------------------------
(* What one source answers *)

RowsOf(db, f, p) == {y \in db.plugins : PluginWhere(f, y) /\ y.plugin = p}

\* GetPluginsFromDB has an entry for each plugin of the rows that the filter lets
\* through, with the versions of these rows.
LEMMA EntriesOfRows ==
  ASSUME NEW db, NEW f
  PROVE  /\ \A e \in GetPluginsFromDB(db, f) :
              /\ DOMAIN e.artifacts = VersionsOf(RowsOf(db, f, e.plugin))
              /\ e.recommended = Newest(DOMAIN e.artifacts)
              /\ RowsOf(db, f, e.plugin) # {}
         /\ \A x \in db.plugins : PluginWhere(f, x) =>
              \E e \in GetPluginsFromDB(db, f) : e.plugin = x.plugin
         /\ \A d, e \in GetPluginsFromDB(db, f) : d.plugin = e.plugin => d = e
<1> DEFINE rows == {x \in db.plugins : PluginWhere(f, x)}
<1>1. GetPluginsFromDB(db, f) = {PluginEntry(rows, p) : p \in {x.plugin : x \in rows}}
  BY DEF GetPluginsFromDB
<1>2. ASSUME NEW p
      PROVE  /\ PluginEntry(rows, p).plugin = p
             /\ DOMAIN PluginEntry(rows, p).artifacts = VersionsOf(RowsOf(db, f, p))
             /\ PluginEntry(rows, p).recommended = Newest(VersionsOf(RowsOf(db, f, p)))
             /\ p \in {x.plugin : x \in rows} <=> RowsOf(db, f, p) # {}
  <2>1. {y \in rows : y.plugin = p} = RowsOf(db, f, p)
    BY DEF RowsOf
  <2>2. p \in {x.plugin : x \in rows} <=> RowsOf(db, f, p) # {}
    BY DEF RowsOf
  <2> HIDE DEF rows
  <2> QED BY <2>1, <2>2 DEF PluginEntry, Artifacts
<1>3. \A x \in db.plugins : PluginWhere(f, x) => RowsOf(db, f, x.plugin) # {}
  BY DEF RowsOf
<1> HIDE DEF rows
<1> QED BY <1>1, <1>2, <1>3

\* The filter of a request and of one version.
Asked(r, arch, w) == [Criteria(r.name, r.target, r.version, {arch}) EXCEPT !.version = w]

LEMMA WhereAsked ==
  ASSUME NEW r, NEW arch, NEW w, NEW x
  PROVE  /\ PluginWhere(Asked(r, arch, w), x)
             <=> /\ x.plugin \in Named(r.name, r.target) /\ IsPrefix(w, x.version)
                 /\ ~x.hidden /\ x.arch = arch
         /\ PluginWhere(Criteria(r.name, r.target, r.version, {arch}), x)
             <=> /\ x.plugin \in Named(r.name, r.target) /\ IsPrefix(r.version, x.version)
                 /\ ~x.hidden /\ x.arch = arch
<1> DEFINE f == Asked(r, arch, w)
<1>1. /\ f.plugins = Named(r.name, r.target)
      /\ f.version = w /\ f.archs = {arch}
  BY DEF Asked, Criteria
<1>2. ~f.hidden
  BY DEF Asked, Criteria
<1> HIDE DEF f
<1>3. PluginWhere(f, x)
        <=> /\ x.plugin \in Named(r.name, r.target) /\ IsPrefix(w, x.version)
            /\ ~x.hidden /\ x.arch = arch
  BY <1>1, <1>2 DEF PluginWhere
<1>4. PluginWhere(Criteria(r.name, r.target, r.version, {arch}), x)
        <=> /\ x.plugin \in Named(r.name, r.target) /\ IsPrefix(r.version, x.version)
            /\ ~x.hidden /\ x.arch = arch
  BY DEF PluginWhere, Criteria
<1> QED BY <1>3, <1>4 DEF f


\* An answer tells of nothing but the rows O, of each plugin of O, and of an equal
\* or newer version of each row.
Truthful(G, O) ==
  /\ \A e \in G : /\ DOMAIN e.artifacts # {}
                  /\ \A v \in DOMAIN e.artifacts : \E x \in O : x.plugin = e.plugin /\ x.version = v
  /\ \A x \in O : \E e \in G :
       /\ e.plugin = x.plugin
       /\ \E v \in DOMAIN e.artifacts : v = x.version \/ IsNewVersion(v, x.version)

LEMMA AllAreTold ==
  ASSUME NEW db, NEW f, NEW O, O = {x \in db.plugins : PluginWhere(f, x)}
  PROVE  Truthful(GetPluginsFromDB(db, f), O)
<1> DEFINE G == GetPluginsFromDB(db, f)
<1>1. \A e \in G : DOMAIN e.artifacts = VersionsOf(RowsOf(db, f, e.plugin)) /\ RowsOf(db, f, e.plugin) # {}
  BY EntriesOfRows
<1>2. \A x \in O : \E e \in G : e.plugin = x.plugin
  BY EntriesOfRows
<1>3. \A p : RowsOf(db, f, p) = {x \in O : x.plugin = p}
  BY DEF RowsOf
<1> HIDE DEF G
<1>4. \A p, v : v \in VersionsOf(RowsOf(db, f, p)) <=> \E x \in O : x.plugin = p /\ x.version = v
  BY <1>3 DEF VersionsOf
<1>5. \A e \in G : \A v : v \in DOMAIN e.artifacts <=> \E x \in O : x.plugin = e.plugin /\ x.version = v
  BY <1>1, <1>4
<1>6. ASSUME NEW e \in G PROVE DOMAIN e.artifacts # {}
  <2>1. PICK x \in RowsOf(db, f, e.plugin) : TRUE
    BY <1>1
  <2> QED BY <1>3, <1>5, <2>1
<1> QED BY <1>2, <1>5, <1>6 DEF Truthful, G

\* The rows of a database that a source may answer with.
Table(db) == db.plugins \subseteq AllRows

LEMMA TableVersions ==
  ASSUME NEW db, Table(db)
  PROVE  IsFiniteSet(db.plugins) /\ \A x \in db.plugins : x.version \in AllVersions
  BY PluginManagerAssumption, FS_Subset DEF Table, AllVersions

\* GetPlugins for a request: the latest version of the only plugin that matches,
\* or all versions that match.
LEMMA SourceIsTruthful ==
  ASSUME NEW db, Table(db), NEW r, NEW arch
  PROVE  Truthful(GetPlugins(db, Criteria(r.name, r.target, r.version, {arch})), Offered(db, r, arch))
<1> DEFINE f == Criteria(r.name, r.target, r.version, {arch})
           O == Offered(db, r, arch)
           F(w) == Asked(r, arch, w)
           all == GetPluginsFromDB(db, F(<<>>))
<1>1. f.version = r.version
  BY DEF Criteria
<1>2. /\ r.version # Latest => GetPlugins(db, f) = GetPluginsFromDB(db, f)
      /\ r.version = Latest /\ Cardinality(all) # 1 => GetPlugins(db, f) = all
      /\ r.version = Latest /\ Cardinality(all) = 1 =>
           GetPlugins(db, f) = GetPluginsFromDB(db, F((CHOOSE e \in all : TRUE).recommended))
  BY <1>1 DEF GetPlugins, Asked
<1> HIDE DEF f
<1>3. CASE r.version # Latest
  <2>1. O = {x \in db.plugins : PluginWhere(f, x)}
    BY <1>3, WhereAsked DEF Offered, f
  <2>2. Truthful(GetPluginsFromDB(db, f), O)
    BY <2>1, AllAreTold
  <2> QED BY <1>2, <1>3, <2>2 DEF f
<1>4. CASE r.version = Latest
  <2>1. O = {x \in db.plugins : PluginWhere(F(<<>>), x)}
    BY <1>4, WhereAsked, TableVersions, VersionsFinite, FullVersions DEF Offered
  <2>2. Truthful(all, O)
    BY <2>1, AllAreTold
  <2>3. CASE Cardinality(all) # 1
    BY <1>2, <1>4, <2>2, <2>3 DEF f
  <2>4. CASE Cardinality(all) = 1
    <3>1. PICK e : all = {e}
      <4> DEFINE rows == {x \in db.plugins : PluginWhere(F(<<>>), x)}
                 h == [x \in db.plugins |-> PluginEntry(rows, x.plugin)]
      <4>1. IsFiniteSet({h[x] : x \in rows})
        <5>1. IsFiniteSet(rows)
          BY TableVersions, FS_Subset
        <5> HIDE DEF h, rows
        <5> QED BY <5>1, FiniteImage
      <4>2. all = {h[x] : x \in rows}
        <5>1. all = {PluginEntry(rows, p) : p \in {x.plugin : x \in rows}}
          BY DEF GetPluginsFromDB
        <5>2. \A x \in rows : h[x] = PluginEntry(rows, x.plugin)
          OBVIOUS
        <5> HIDE DEF h, rows, all
        <5> QED BY <5>1, <5>2
      <4> HIDE DEF h, rows, all
      <4> QED BY <2>4, <4>1, <4>2, FS_Singleton
    <3>2. e.recommended = Newest(DOMAIN e.artifacts)
      BY <3>1, EntriesOfRows
    <3> DEFINE n == e.recommended
    <3>3. DOMAIN e.artifacts \subseteq AllVersions /\ DOMAIN e.artifacts # {}
      BY <2>1, <2>2, <3>1, TableVersions DEF Truthful
    <3>4. n \in DOMAIN e.artifacts /\ \A w \in DOMAIN e.artifacts \ {n} : IsNewVersion(n, w)
      BY <3>2, <3>3, NewestIsNewest
    <3>5. \A x \in O : x.plugin = e.plugin /\ (n = x.version \/ IsNewVersion(n, x.version))
      <4>1. \A x \in O : x.plugin = e.plugin /\ x.version \in DOMAIN e.artifacts
        BY <2>1, <3>1, EntriesOfRows DEF VersionsOf, RowsOf
      <4> HIDE DEF O, n
      <4> QED BY <3>4, <4>1
    <3>6. PICK y \in O : y.version = n /\ y.plugin = e.plugin
      BY <2>2, <3>1, <3>4 DEF Truthful
    <3> DEFINE P == {x \in db.plugins : PluginWhere(F(n), x)}
    <3>7. P = {x \in O : x.version = n}
      <4>1. n \in Nat \X Nat /\ \A x \in db.plugins : x.version \in Nat \X Nat
        BY <3>3, <3>4, TableVersions, VersionsFinite
      <4>2. \A x \in db.plugins : /\ IsPrefix(n, x.version) <=> n = x.version
                                  /\ IsPrefix(<<>>, x.version)
        BY <4>1, FullVersions
      <4>3. \A x \in db.plugins : PluginWhere(F(n), x) <=> PluginWhere(F(<<>>), x) /\ x.version = n
        BY <4>2, WhereAsked
      <4> QED BY <2>1, <4>3
    <3>8. Truthful(GetPluginsFromDB(db, F(n)), P)
      BY AllAreTold
    <3>9. GetPlugins(db, f) = GetPluginsFromDB(db, F(n))
      BY <1>2, <1>4, <2>4, <3>1
    <3>10. Truthful(GetPluginsFromDB(db, F(n)), O)
      <4> DEFINE G == GetPluginsFromDB(db, F(n))
      <4>0. Truthful(G, P)
        BY <3>8
      <4> HIDE DEF G, P, n
      <4>1. ASSUME NEW g \in G
            PROVE  /\ DOMAIN g.artifacts # {}
                   /\ \A v \in DOMAIN g.artifacts : \E x \in O : x.plugin = g.plugin /\ x.version = v
        BY <3>7, <4>0, <4>1 DEF Truthful
      <4>2. PICK g \in G : g.plugin = y.plugin /\ n \in DOMAIN g.artifacts
        <5>1. y \in P /\ y.version \in Nat \X Nat
          BY <2>1, <3>6, <3>7, TableVersions, VersionsFinite
        <5>2. PICK g \in G : g.plugin = y.plugin /\ DOMAIN g.artifacts # {}
          BY <4>0, <5>1 DEF Truthful
        <5>3. \A v \in DOMAIN g.artifacts : v = n
          BY <3>7, <4>0, <5>2 DEF Truthful
        <5> QED BY <5>2, <5>3
      <4>3. Truthful(G, O)
        <5> HIDE DEF O
        <5> QED BY <3>5, <4>1, <4>2, <3>6 DEF Truthful
      <4> QED BY <4>3 DEF G, n
    <3> QED BY <3>9, <3>10 DEF f
  <2> QED BY <2>3, <2>4
<1> QED BY <1>3, <1>4


-----------------------------------------------------------------------------
(* What all sources answer *)

\* The entries A of all sources tell of the rows R of all sources: of each row at
\* least its plugin, at its place, in an equal or newer version.
Reflects(A, R) ==
  /\ \A e \in A : /\ e.versions # {}
                  /\ \A v \in e.versions : \E x \in R :
                       x[1] = e.place /\ x[2].plugin = e.plugin /\ x[2].version = v
  /\ \A x \in R : \E e \in A :
       /\ e.place = x[1] /\ e.plugin = x[2].plugin
       /\ \E v \in e.versions : v = x[2].version \/ IsNewVersion(v, x[2].version)

Readable(view) == \A i \in Answering(view) : Table(view[SourceSeq[i]])

LEMMA RowsOfView ==
  ASSUME NEW view, Readable(view), NEW r, NEW arch
  PROVE  \A x \in Rows(view, r, arch) :
           x[2].version \in AllVersions /\ x[2].plugin \in Named(r.name, r.target)
<1> SUFFICES ASSUME NEW i \in Answering(view), NEW x \in Offered(view[SourceSeq[i]], r, arch)
             PROVE  x.version \in AllVersions /\ x.plugin \in Named(r.name, r.target)
  BY DEF Rows
<1> QED BY TableVersions DEF Readable, Offered

\* discoverSpecificPlugins tells of the rows O[i] that each answering source i tells of.
LEMMA DiscoveredReflects ==
  ASSUME NEW view, NEW f, NEW O,
         \A i \in Answering(view) : Truthful(GetPlugins(view[SourceSeq[i]], f), O[i]),
         NEW R, R = UNION {{<<i, x>> : x \in O[i]} : i \in Answering(view)}
  PROVE  Reflects(discoverSpecificPlugins(view, f), R)
<1> DEFINE A == discoverSpecificPlugins(view, f)
           G(i) == GetPlugins(view[SourceSeq[i]], f)
<1>1. \A i \in Answering(view) : Truthful(G(i), O[i])
  OBVIOUS
<1>2. A = UNION {{Discovered(i, e) : e \in G(i)} : i \in Answering(view)}
  BY DEF discoverSpecificPlugins
<1> HIDE DEF A, G
<1>4. \A i, e : /\ Discovered(i, e).place = i /\ Discovered(i, e).plugin = e.plugin
                /\ Discovered(i, e).versions = DOMAIN e.artifacts
  BY DEF Discovered
<1>5. ASSUME NEW a \in A
      PROVE  /\ a.versions # {}
             /\ \A v \in a.versions : \E x \in R :
                  x[1] = a.place /\ x[2].plugin = a.plugin /\ x[2].version = v
  <2>1. PICK i \in Answering(view) : \E e \in G(i) : a = Discovered(i, e)
    BY <1>2, <1>5
  <2>2. PICK e \in G(i) : a = Discovered(i, e)
    BY <2>1
  <2>3. a.place = i /\ a.plugin = e.plugin /\ a.versions = DOMAIN e.artifacts
    BY <1>4, <2>2
  <2>4. /\ DOMAIN e.artifacts # {}
        /\ \A v \in DOMAIN e.artifacts : \E x \in O[i] : x.plugin = e.plugin /\ x.version = v
    BY <1>1, <2>2 DEF Truthful
  <2>5. ASSUME NEW v \in a.versions
        PROVE  \E x \in R : x[1] = a.place /\ x[2].plugin = a.plugin /\ x[2].version = v
    <3>1. PICK x \in O[i] : x.plugin = e.plugin /\ x.version = v
      BY <2>3, <2>4, <2>5
    <3>2. <<i, x>> \in R
      BY <3>1
    <3> WITNESS <<i, x>> \in R
    <3> QED BY <2>3, <3>1
  <2> QED BY <2>3, <2>4, <2>5
<1>6. ASSUME NEW x \in R
      PROVE  \E a \in A : /\ a.place = x[1] /\ a.plugin = x[2].plugin
                          /\ \E v \in a.versions : v = x[2].version \/ IsNewVersion(v, x[2].version)
  <2>1. PICK i \in Answering(view) : \E y \in O[i] : x = <<i, y>>
    BY <1>6
  <2>2. PICK y \in O[i] : x = <<i, y>>
    BY <2>1
  <2>3. PICK e \in G(i) :
          /\ e.plugin = y.plugin
          /\ \E v \in DOMAIN e.artifacts : v = y.version \/ IsNewVersion(v, y.version)
    BY <1>1, <2>2 DEF Truthful
  <2>4. Discovered(i, e) \in A
    BY <1>2, <2>3
  <2>5. x[1] = i /\ x[2] = y
    BY <2>2
  <2> QED BY <1>4, <2>3, <2>4, <2>5
<1>7. Reflects(A, R)
  BY <1>5, <1>6 DEF Reflects
<1> QED BY <1>7 DEF A

\* discoverSpecificPlugins leaves out no row of a source that answers.
LEMMA AvailableReflects ==
  ASSUME NEW view, Readable(view), NEW r, NEW arch
  PROVE  Reflects(Available(view, r, arch), Rows(view, r, arch))
<1> DEFINE f == Criteria(r.name, r.target, r.version, {arch})
           O == [i \in Answering(view) |-> Offered(view[SourceSeq[i]], r, arch)]
           R == Rows(view, r, arch)
<1>1. \A i \in Answering(view) : Truthful(GetPlugins(view[SourceSeq[i]], f), O[i])
  BY SourceIsTruthful DEF Readable
<1>2. R = UNION {{<<i, x>> : x \in O[i]} : i \in Answering(view)}
  BY DEF Rows
<1>3. Reflects(discoverSpecificPlugins(view, f), R)
  <2> HIDE DEF f, O, R
  <2> QED BY <1>1, <1>2, DiscoveredReflects
<1> QED BY <1>3 DEF Available

\* Without a request for the latest version it tells of the rows of all versions.
Listed(view, f) ==
  UNION {{<<i, x>> : x \in {y \in view[SourceSeq[i]].plugins : PluginWhere(f, y)}} : i \in Answering(view)}

LEMMA ListedReflects ==
  ASSUME NEW view, NEW f, f.version # Latest
  PROVE  Reflects(discoverSpecificPlugins(view, f), Listed(view, f))
<1> DEFINE O == [i \in Answering(view) |-> {y \in view[SourceSeq[i]].plugins : PluginWhere(f, y)}]
           R == Listed(view, f)
<1>1. ASSUME NEW i \in Answering(view) PROVE Truthful(GetPlugins(view[SourceSeq[i]], f), O[i])
  <2> DEFINE db == view[SourceSeq[i]]
  <2>1. Truthful(GetPluginsFromDB(db, f), {y \in db.plugins : PluginWhere(f, y)})
    BY AllAreTold
  <2>2. GetPlugins(db, f) = GetPluginsFromDB(db, f)
    BY DEF GetPlugins
  <2> QED BY <2>1, <2>2
<1>2. R = UNION {{<<i, x>> : x \in O[i]} : i \in Answering(view)}
  BY DEF Listed
<1> HIDE DEF O, R
<1>3. Reflects(discoverSpecificPlugins(view, f), R)
  BY <1>1, <1>2, DiscoveredReflects
<1> QED BY <1>3 DEF R

\* The merged entry m has a plugin of the entries E, and the newest version of the
\* rows `mine`, from the first source that has it.
FirstHolder(mine, v) == SourceSeq[Min({x[1] : x \in {y \in mine : y[2].version = v}})]
IsBestOf(m, E, mine) ==
  /\ \E e \in E : m.plugin = e.plugin
  /\ \A x \in mine : ~IsNewVersion(x[2].version, m.recommended)
  /\ \E x \in mine : x[2].version = m.recommended
  /\ m.from[m.recommended] = FirstHolder(mine, m.recommended)

OfKey(A, k) == {a \in A : MergeKey(a.plugin) = k}
RowsOfKey(R, k) == {x \in R : MergeKey(x[2].plugin) = k}

LEMMA MergedPlugin ==
  ASSUME NEW E, E # {} PROVE \E e \in E : Merged(E).plugin = e.plugin
<1> DEFINE known == {e \in E : TargetOf[e.plugin] # Unknown}
           among == IF known # {} THEN known ELSE E
<1>1. Merged(E).plugin = (CHOOSE e \in among : TRUE).plugin
  BY DEF Merged
<1>2. among # {} /\ among \subseteq E
  OBVIOUS
<1> HIDE DEF among
<1>3. (CHOOSE e \in among : TRUE) \in among
  BY <1>2
<1> QED BY <1>1, <1>2, <1>3

\* mergeDuplicatePlugins gives one entry for each key.
Keys(A) == {MergeKey(a.plugin) : a \in A}

LEMMA OneOfEachKey ==
  ASSUME NEW A, \A a \in A : a.plugin \in Plugins
  PROVE  /\ mergeDuplicatePlugins(A) = {Merged(OfKey(A, k)) : k \in Keys(A)}
         /\ \A k \in Keys(A) : OfKey(A, k) # {} /\ \E a \in OfKey(A, k) : Merged(OfKey(A, k)).plugin = a.plugin
         /\ \A k \in Keys(A) : MergeKey(Merged(OfKey(A, k)).plugin) = k
         /\ IsFiniteSet(mergeDuplicatePlugins(A))
<1>1. mergeDuplicatePlugins(A) = {Merged(OfKey(A, k)) : k \in Keys(A)}
  BY DEF mergeDuplicatePlugins, OfKey, Keys
<1>2. ASSUME NEW k \in Keys(A)
      PROVE  /\ OfKey(A, k) # {}
             /\ \E a \in OfKey(A, k) : Merged(OfKey(A, k)).plugin = a.plugin
             /\ MergeKey(Merged(OfKey(A, k)).plugin) = k
  <2>1. OfKey(A, k) # {}
    BY DEF OfKey, Keys
  <2>2. PICK a \in OfKey(A, k) : Merged(OfKey(A, k)).plugin = a.plugin
    BY <2>1, MergedPlugin
  <2>3. MergeKey(a.plugin) = k
    BY <2>2 DEF OfKey
  <2> QED BY <2>1, <2>2, <2>3
<1>3. IsFiniteSet(mergeDuplicatePlugins(A))
  <2> DEFINE g == [p \in Plugins |-> MergeKey(p)]
             h == [k \in Keys(A) |-> Merged(OfKey(A, k))]
             M == {h[k] : k \in Keys(A)}
  <2>1. Keys(A) \subseteq {g[p] : p \in Plugins}
    BY DEF Keys
  <2>2. IsFiniteSet({g[p] : p \in Plugins})
    <3> HIDE DEF g
    <3> QED BY FiniteImage, PluginManagerAssumption
  <2>3. IsFiniteSet(Keys(A))
    <3> HIDE DEF g
    <3> QED BY <2>1, <2>2, FS_Subset
  <2>4. mergeDuplicatePlugins(A) = M
    BY <1>1
  <2>5. IsFiniteSet(M)
    <3> HIDE DEF h
    <3> QED BY <2>3, FiniteImage
  <2> QED BY <2>4, <2>5
<1> QED BY <1>1, <1>2, <1>3

\* mergePluginEntries of the entries of one key: the newest version of all rows of
\* this key, from the first source that has it.
LEMMA MergedIsBest ==
  ASSUME NEW A, NEW R, Reflects(A, R), \A x \in R : x[2].version \in AllVersions,
         NEW k, OfKey(A, k) # {}
  PROVE  IsBestOf(Merged(OfKey(A, k)), OfKey(A, k), RowsOfKey(R, k))
<1>0. PICK E, mine, m : /\ E = OfKey(A, k) /\ mine = RowsOfKey(R, k) /\ m = Merged(E)
  OBVIOUS
<1> USE <1>0 DEF OfKey, RowsOfKey
<1> DEFINE versions == UNION {e.versions : e \in E}
           v == Newest(versions)
<1>1. versions # {} /\ \A w \in versions : \E x \in mine : x[2].version = w
  BY DEF Reflects
<1>2. versions \subseteq AllVersions
  BY <1>1
<1>3. v \in versions /\ \A w \in versions \ {v} : IsNewVersion(v, w)
  <2> HIDE DEF versions
  <2> QED BY <1>1, <1>2, NewestIsNewest
<1>4. \E e \in E : m.plugin = e.plugin
  BY MergedPlugin
<1>5. m.recommended = v /\ m.from = [w \in versions |-> FirstSource(Having(E, w))]
  BY DEF Merged
<1> HIDE DEF v
<1>6. \A x \in mine : ~IsNewVersion(x[2].version, v)
  <2> SUFFICES ASSUME NEW x \in mine PROVE ~IsNewVersion(x[2].version, v)
    OBVIOUS
  <2>1. PICK w \in versions : w = x[2].version \/ IsNewVersion(w, x[2].version)
    BY DEF Reflects
  <2>2. w \in Nat \X Nat /\ v \in Nat \X Nat /\ x[2].version \in Nat \X Nat
    BY <1>2, <1>3, VersionsFinite
  <2> HIDE DEF versions
  <2> QED BY <1>3, <2>1, <2>2, NewerOrder
<1>7. {e.place : e \in Having(E, v)} = {x[1] : x \in {y \in mine : y[2].version = v}}
  <2>1. ASSUME NEW e \in E, v \in e.versions
        PROVE  \E x \in mine : x[2].version = v /\ x[1] = e.place
    BY <2>1 DEF Reflects
  <2>2. ASSUME NEW x \in mine, x[2].version = v
        PROVE  \E e \in E : v \in e.versions /\ x[1] = e.place
    <3>1. PICK e \in E : /\ e.place = x[1]
                         /\ \E w \in e.versions : w = v \/ IsNewVersion(w, v)
      BY <2>2 DEF Reflects
    <3>2. PICK w \in e.versions : w = v \/ IsNewVersion(w, v)
      BY <3>1
    <3>3. w \in versions /\ w \in Nat \X Nat /\ v \in Nat \X Nat
      BY <1>2, <1>3, <3>1, <3>2, VersionsFinite
    <3>4. w = v
      <4> HIDE DEF versions
      <4> QED BY <1>3, <3>2, <3>3, NewerOrder
    <3> QED BY <3>1, <3>2, <3>4
  <2> QED BY <2>1, <2>2 DEF Having
<1>8. m.from[v] = FirstHolder(mine, v)
  <2>1. m.from[v] = FirstSource(Having(E, v))
    <3> HIDE DEF versions
    <3> QED BY <1>3, <1>5
  <2> QED BY <1>7, <2>1 DEF FirstSource, FirstHolder
<1>9. \E x \in mine : x[2].version = v
  BY <1>1, <1>3
<1> QED BY <1>4, <1>5, <1>6, <1>8, <1>9 DEF IsBestOf


\* What InstalledIsBest says of the plugin p with version v and content c, which was
\* chosen for request r among the rows R.
Best(R, r, p, v, c) ==
  LET mine == {x \in R : MergeKey(x[2].plugin) = MergeKey(p)}
      holders == {x[1] : x \in {y \in mine : y[2].version = v}}
  IN  /\ \A x \in mine : ~IsNewVersion(x[2].version, v)
      /\ holders # {}
      /\ c = SourceSeq[Min(holders)]
      /\ r.target \in {Unknown, TargetOf[p]}
      /\ r.target = Unknown => mine = R \/ TargetOf[p] = Unknown

\* Among finitely many matches, Choice takes one of them: the only one, or one of
\* exactly the target.
LEMMA ChoiceIsMatch ==
  ASSUME NEW matches, IsFiniteSet(matches), NEW target, Choice(matches, target) # None
  PROVE  /\ Choice(matches, target) \in matches
         /\ \/ matches = {Choice(matches, target)}
            \/ TargetOf[Choice(matches, target).plugin] = target
<1> DEFINE exact == {e \in matches : TargetOf[e.plugin] = target}
<1>1. CASE Cardinality(matches) = 1
  <2>1. PICK e : matches = {e}
    BY <1>1, FS_Singleton
  <2> QED BY <1>1, <2>1 DEF Choice
<1>2. CASE Cardinality(matches) # 1
  <2>1. exact # {} /\ Choice(matches, target) = CHOOSE e \in exact : TRUE
    BY <1>2 DEF Choice
  <2>2. (CHOOSE e \in exact : TRUE) \in exact
    <3> HIDE DEF exact
    <3> QED BY <2>1
  <2> QED BY <2>1, <2>2
<1> QED BY <1>1, <1>2

\* installPlugin chooses the best among what the sources answered.
LEMMA ChosenIsBest ==
  ASSUME NEW A, NEW R, Reflects(A, R), NEW r,
         \A x \in R : x[2].version \in AllVersions /\ x[2].plugin \in Named(r.name, r.target),
         NEW matches, matches = {m \in mergeDuplicatePlugins(A) : m.plugin \in Named(r.name, r.target)},
         NEW e, e = Choice(matches, r.target), e # None
  PROVE  /\ e.plugin \in Named(r.name, r.target)
         /\ Best(R, r, e.plugin, e.recommended, e.from[e.recommended])
<1> DEFINE K == {MergeKey(a.plugin) : a \in A}
           E(k) == OfKey(A, k)
           mine(k) == RowsOfKey(R, k)
<1>1. \A a \in A : a.plugin \in Named(r.name, r.target)
  BY DEF Reflects
<1>2. mergeDuplicatePlugins(A) = {Merged(E(k)) : k \in K}
  BY DEF mergeDuplicatePlugins, OfKey
<1>3. \A k \in K : E(k) # {}
  BY DEF OfKey
<1> HIDE DEF K
<1>4. ASSUME NEW k \in K PROVE IsBestOf(Merged(E(k)), E(k), mine(k))
  BY <1>3, MergedIsBest
<1>5. \A k \in K : MergeKey(Merged(E(k)).plugin) = k /\ Merged(E(k)).plugin \in Named(r.name, r.target)
  BY <1>1, <1>4 DEF IsBestOf, OfKey
<1>6. matches = {Merged(E(k)) : k \in K}
  BY <1>2, <1>5
<1>7. IsFiniteSet(matches)
  <2>1. \A a \in A : a.plugin \in Plugins
    BY <1>1 DEF Named
  <2> QED BY <2>1, OneOfEachKey, FS_Subset
<1>8. e \in matches /\ (matches = {e} \/ TargetOf[e.plugin] = r.target)
  BY <1>7, ChoiceIsMatch
<1>9. PICK k \in K : e = Merged(E(k))
  BY <1>6, <1>8
<1>10. k = MergeKey(e.plugin) /\ e.plugin \in Named(r.name, r.target)
  BY <1>5, <1>9
<1>11. matches = {e} => mine(k) = R
  <2>1. ASSUME matches = {e}, NEW x \in R PROVE MergeKey(x[2].plugin) = k
    <3>1. MergeKey(x[2].plugin) \in K
      BY <2>1 DEF Reflects, K
    <3>2. Merged(E(MergeKey(x[2].plugin))) = e
      BY <1>6, <2>1, <3>1
    <3> QED BY <1>5, <1>10, <3>1, <3>2
  <2> QED BY <2>1 DEF RowsOfKey
<1>12. /\ \A x \in mine(k) : ~IsNewVersion(x[2].version, e.recommended)
       /\ \E x \in mine(k) : x[2].version = e.recommended
       /\ e.from[e.recommended] = FirstHolder(mine(k), e.recommended)
  <2> HIDE DEF E, mine
  <2> QED BY <1>4, <1>9 DEF IsBestOf
<1>13. r.target \in {Unknown, TargetOf[e.plugin]}
  BY <1>10 DEF Named
<1> QED BY <1>8, <1>10, <1>11, <1>12, <1>13 DEF Best, FirstHolder, RowsOfKey

-----------------------------------------------------------------------------
(* Commands *)

\* The registries have, and the caches hold, releases of their source.
Known ==
  /\ rel \in [Sources -> Nat] /\ \A s \in Sources : rel[s] \in DOMAIN Releases[s]
  /\ cache \in [Sources -> Nat] /\ \A s \in Sources : cache[s] \in {0} \cup DOMAIN Releases[s]

LEMMA FetchedIsKnown ==
  ASSUME Known, NEW o
  PROVE  /\ Fetched(o) \in [Sources -> Nat]
         /\ \A s \in Sources : Fetched(o)[s] \in {0} \cup DOMAIN Releases[s]
  BY DEF Known, Fetched

\* What the releases in a cache, or those that the sources answered with, let be read.
Stocked(seen) == \A s \in Sources : seen[s] = None \/ seen[s] \in {0} \cup DOMAIN Releases[s]
Issued(view) == \A i \in Answering(view) : view[SourceSeq[i]] \in {EmptyDB} \cup Inventories

LEMMA ReleasesAreIssued ==
  ASSUME NEW seen, Stocked(seen)
  PROVE  Issued(Databases(seen)) /\ Readable(Databases(seen))
<1> SUFFICES ASSUME NEW i \in Answering(Databases(seen)),
                    NEW db, db = Databases(seen)[SourceSeq[i]]
             PROVE  db \in {EmptyDB} \cup Inventories /\ Table(db)
  BY DEF Readable, Issued
<1> DEFINE s == SourceSeq[i]
<1>1. s \in Sources
  BY DEF Answering, Sources, Range
<1>2. PICK n \in {0} \cup DOMAIN Releases[s] : db = Database(s, n)
  <2>1. db # None
    BY DEF Answering
  <2> HIDE DEF s
  <2> QED BY <1>1, <2>1 DEF Databases, Stocked, s
<1>3. CASE n = 0
  BY <1>2, <1>3 DEF Database, EmptyDB, Table
<1>4. CASE n # 0
  <2>1. <<s, n>> \in Published
    BY <1>1, <1>2, <1>4 DEF Published
  <2>2. Releases[s][n] \in Inventories
    BY <2>1 DEF Inventories
  <2> QED BY <1>2, <1>4, <2>2 DEF Database, Table, AllRows
<1> QED BY <1>3, <1>4

LEMMA SeenIsStocked ==
  ASSUME Known, NEW o PROVE Stocked(Seen(o))
  BY FetchedIsKnown DEF Stocked, Seen

LEMMA ViewIsReadable ==
  ASSUME Known, NEW o PROVE Readable(View(o))
  BY SeenIsStocked, ReleasesAreIssued DEF View

LEMMA LocalIsIssued ==
  ASSUME Known PROVE Issued(LocalView) /\ Readable(LocalView)
<1>1. Stocked(cache)
  BY DEF Known, Stocked
<1> QED BY <1>1, ReleasesAreIssued DEF LocalView


\* The rows among which a request is chosen: those for this machine or, when there
\* are none, those for the emulated one.
Candidates(view, fallbackView, r) ==
  IF Rows(view, r, ThisArch) = {} THEN Rows(fallbackView, r, FallbackArch)
  ELSE Rows(view, r, ThisArch)

LEMMA MatchesAreBest ==
  ASSUME NEW view, Readable(view), NEW late, Readable(late), NEW r,
         NEW e, e = Choice(Matches(Available(view, r, ThisArch), late, r), r.target), e # None
  PROVE  /\ e.plugin \in Named(r.name, r.target)
         /\ Best(Candidates(view, late, r), r, e.plugin, e.recommended, e.from[e.recommended])
<1> DEFINE here == Available(view, r, ThisArch)
           found == IF here = {} /\ FallbackArch # None
                    THEN Available(late, r, FallbackArch) ELSE here
           matches == {m \in mergeDuplicatePlugins(found) : m.plugin \in Named(r.name, r.target)}
           R == Candidates(view, late, r)
<1>1. e = Choice(matches, r.target)
  BY DEF Matches
<1>2. found # {}
  <2>1. ASSUME found = {} PROVE FALSE
    <3>1. matches = {}
      BY <2>1 DEF mergeDuplicatePlugins
    <3>2. Cardinality(matches) # 1
      BY <3>1, FS_EmptySet
    <3> QED BY <1>1, <3>1, <3>2 DEF Choice
  <2> QED BY <2>1
<1>3. Reflects(here, Rows(view, r, ThisArch))
  BY AvailableReflects
<1>4. here = {} <=> Rows(view, r, ThisArch) = {}
  BY <1>3 DEF Reflects
<1>5. Reflects(found, R)
  <2>1. CASE here = {}
    BY <1>2, <1>4, <2>1, AvailableReflects DEF Candidates
  <2>2. CASE here # {}
    BY <1>3, <1>4, <2>2 DEF Candidates
  <2> QED BY <2>1, <2>2
<1>6. \A x \in R : x[2].version \in AllVersions /\ x[2].plugin \in Named(r.name, r.target)
  BY RowsOfView DEF Candidates
<1> HIDE DEF found, R
<1> QED BY <1>1, <1>5, <1>6, ChosenIsBest DEF R

\* An installation that succeeds registers the best among the rows of the sources that
\* answered (o, and late for the emulator), with the version that was recommended; one
\* that fails changes nothing.
Registered(p, v, c) ==
  installed' = Upserted(installed, p, [version |-> v, content |-> c, discovered |-> v])
InstallEnds(r, o, late) ==
  /\ o \in Answers(Sources) /\ late \in Answers(Sources)
  /\ cache' = Fetched(late) /\ \A s \in Sources : o[s] = "failed" \/ late[s] = o[s]
  /\ last'.kind = "install" /\ last'.request = r /\ last'.ok \in BOOLEAN
  /\ last'.first = Seen(o) /\ last'.seen = Seen(late)
  /\ ~last'.ok => installed' = installed
  /\ last'.ok => \E v, c :
       /\ last'.plugin \in Named(r.name, r.target)
       /\ Best(Candidates(View(o), View(late), r), r, last'.plugin, v, c)
       /\ Registered(last'.plugin, v, c)

\* installPlugin and installOrUpgradePlugin.
LEMMA InstallOutcome ==
  ASSUME Known, NEW r, InstallStandalonePlugin(r) PROVE \E o, late : InstallEnds(r, o, late)
<1> DEFINE E(o, late) == Choice(Matches(Available(View(o), r, ThisArch), View(late), r), r.target)
           Outcome(o, late, e, ok) ==
             [kind |-> "install", request |-> r, ok |-> ok, first |-> Seen(o), seen |-> Seen(late),
              plugin |-> IF e = None THEN None ELSE e.plugin]
           Result(e, arrives) ==
             Installation(e, e.recommended,
                          FetchedBinary(e.plugin, e.recommended, e.from[e.recommended], arrives))
<1>1. PICK o \in Answers(Sources) :
        \E late \in IF Available(View(o), r, ThisArch) = {} /\ FallbackArch # None
                    THEN AnswersAfter(o) ELSE {o} :
          /\ cache' = Fetched(late)
          /\ \/ /\ E(o, late) = None
                /\ last' = Outcome(o, late, E(o, late), FALSE)
                /\ UNCHANGED <<installed, disk>>
             \/ /\ E(o, late) # None
                /\ \E arrives \in {"whole", "altered", "nothing"} :
                     /\ installed' = Result(E(o, late), arrives).installed
                     /\ disk' = Result(E(o, late), arrives).disk
                     /\ last' = Outcome(o, late, E(o, late), Result(E(o, late), arrives).ok)
  BY DEF InstallStandalonePlugin
<1>2. PICK late, e :
        /\ late \in AnswersAfter(o) \cup {o}
        /\ cache' = Fetched(late) /\ e = E(o, late)
        /\ \/ e = None /\ last' = Outcome(o, late, e, FALSE) /\ installed' = installed
           \/ /\ e # None
              /\ \E arrives \in {"whole", "altered", "nothing"} :
                   /\ installed' = Result(e, arrives).installed
                   /\ last' = Outcome(o, late, e, Result(e, arrives).ok)
  <2> HIDE DEF E, Outcome, Result
  <2> QED BY <1>1
<1>3. /\ o \in Answers(Sources) /\ late \in Answers(Sources)
      /\ \A s \in Sources : o[s] = "failed" \/ late[s] = o[s]
  BY <1>1, <1>2 DEF AnswersAfter
<1>4. \A d : /\ Outcome(o, late, e, d).ok = d /\ Outcome(o, late, e, d).kind = "install"
             /\ Outcome(o, late, e, d).request = r
             /\ Outcome(o, late, e, d).first = Seen(o) /\ Outcome(o, late, e, d).seen = Seen(late)
             /\ e # None => Outcome(o, late, e, d).plugin = e.plugin
  OBVIOUS
<1>5. CASE e = None
  <2>1. last' = Outcome(o, late, e, FALSE) /\ installed' = installed
    BY <1>2, <1>5
  <2> HIDE DEF Outcome
  <2>2. /\ ~last'.ok /\ last'.ok \in BOOLEAN /\ last'.kind = "install" /\ last'.request = r
        /\ last'.first = Seen(o) /\ last'.seen = Seen(late)
    BY <1>4, <2>1
  <2>3. InstallEnds(r, o, late)
    BY <1>2, <1>3, <2>1, <2>2 DEF InstallEnds
  <2> QED BY <2>3
<1>6. CASE e # None
  <2>1. PICK arrives \in {"whole", "altered", "nothing"} :
          /\ installed' = Result(e, arrives).installed
          /\ last' = Outcome(o, late, e, Result(e, arrives).ok)
    BY <1>2, <1>6
  <2> DEFINE v == e.recommended
             content == FetchedBinary(e.plugin, v, e.from[v], arrives)
  <2>2. /\ last'.kind = "install" /\ last'.request = r /\ last'.plugin = e.plugin
        /\ last'.first = Seen(o) /\ last'.seen = Seen(late)
        /\ last'.ok = Installation(e, v, content).ok
        /\ installed' = Installation(e, v, content).installed
    <3> HIDE DEF Outcome
    <3> QED BY <1>4, <1>6, <2>1
  <2> HIDE DEF v, content
  <2>3. CASE content = None
    <3>1. ~last'.ok /\ last'.ok \in BOOLEAN /\ installed' = installed
      BY <2>2, <2>3 DEF Installation
    <3>2. InstallEnds(r, o, late)
      BY <1>2, <1>3, <2>2, <3>1 DEF InstallEnds
    <3> QED BY <3>2
  <2>4. CASE content # None
    <3>1. content = e.from[v]
      BY <2>4 DEF FetchedBinary, VerifiedDownload, content
    <3>2. /\ e.plugin \in Named(r.name, r.target)
          /\ Best(Candidates(View(o), View(late), r), r, e.plugin, v, e.from[v])
      BY <1>2, <1>6, ViewIsReadable, MatchesAreBest DEF v
    <3>3. /\ last'.ok /\ last'.ok \in BOOLEAN
          /\ Registered(e.plugin, v, content)
      BY <2>2, <2>4 DEF Installation, Registered, v
    <3>4. \E w, c : /\ e.plugin \in Named(r.name, r.target)
                    /\ Best(Candidates(View(o), View(late), r), r, e.plugin, w, c)
                    /\ Registered(e.plugin, w, c)
      BY <3>1, <3>2, <3>3
    <3>5. InstallEnds(r, o, late)
      <4>1. last'.plugin = e.plugin
        BY <2>2
      <4> QED BY <1>2, <1>3, <2>2, <3>3, <3>4, <4>1 DEF InstallEnds
    <3> QED BY <3>5
  <2> QED BY <2>3, <2>4
<1> QED BY <1>5, <1>6

LEMMA InstallIsBest ==
  ASSUME Known, NEW r, InstallStandalonePlugin(r) PROVE InstalledIsBest'
<1>1. SUFFICES ASSUME last'.ok
      PROVE  Best(Candidates(Databases(last'.first), Databases(last'.seen), last'.request),
                  last'.request, last'.plugin, installed'[last'.plugin].version,
                  installed'[last'.plugin].content)
  BY DEF InstalledIsBest, Best, Candidates
<1>2. PICK o, late : InstallEnds(r, o, late)
  BY InstallOutcome
<1>3. PICK v, c : /\ last'.plugin \in Named(r.name, r.target)
                  /\ Best(Candidates(View(o), View(late), r), r, last'.plugin, v, c)
                  /\ Registered(last'.plugin, v, c)
  BY <1>1, <1>2 DEF InstallEnds
<1>4. installed'[last'.plugin].version = v /\ installed'[last'.plugin].content = c
  BY <1>3 DEF Upserted, Named, Registered
<1>5. last'.request = r /\ last'.first = Seen(o) /\ last'.seen = Seen(late)
  BY <1>2 DEF InstallEnds
<1> QED BY <1>3, <1>4, <1>5 DEF View

\* What the steps do to the registries and the caches.
LEMMA CacheSteps ==
  ASSUME [Next]_vars
  PROVE  \/ /\ UNCHANGED rel
            /\ \/ UNCHANGED cache
               \/ cache' = [s \in Sources |-> 0]
               \/ \E o : cache' = Fetched(o)
         \/ \E s \in Sources : Publish(s)
<1>1. CASE InstallNext
  <2>1. PICK r \in cmd.todo : InstallStandalonePlugin(r)
    BY <1>1 DEF InstallNext
  <2>2. \E o : cache' = Fetched(o)
    BY <2>1 DEF InstallStandalonePlugin
  <2> QED BY <1>1, <2>2 DEF InstallNext
<1>2. CASE RefreshDatabase \/ CheckEssentials \/ InstallGroup
  BY <1>2 DEF RefreshDatabase, CheckEssentials, InstallGroup
<1>3. CASE Search \/ GroupSearch \/ CompletePlugins \/ Clean
  BY <1>3 DEF Search, GroupSearch, CompletePlugins, Clean
<1>4. CASE Start \/ \E op \in Ops : Begin(op)
  BY <1>4 DEF Start, Begin
<1>5. CASE InstallsDone \/ InstallOne \/ Upgrade
  BY <1>5 DEF InstallsDone, InstallOne, Upgrade
<1>6. CASE InstallLocal \/ InstallLocalNext \/ InstallLocalDone
  BY <1>6 DEF InstallLocal, InstallLocalNext, InstallLocalDone
<1>7. CASE Uninstall \/ Other \/ UNCHANGED vars
  BY <1>7 DEF Uninstall, Other, vars
<1>8. CASE UseContext \/ UnsetContext \/ SyncPlugins \/ SyncContext
  BY <1>8 DEF UseContext, UnsetContext, SyncPlugins, SyncContext
<1> QED BY <1>1, <1>2, <1>3, <1>4, <1>5, <1>6, <1>7, <1>8 DEF Next

LEMMA KnownStep == ASSUME Known, [Next]_vars PROVE Known'
<1>1. CASE UNCHANGED rel /\ \E o : cache' = Fetched(o)
  BY <1>1, FetchedIsKnown DEF Known
<1>2. CASE UNCHANGED rel /\ (UNCHANGED cache \/ cache' = [s \in Sources |-> 0])
  BY <1>2 DEF Known
<1>3. ASSUME NEW s \in Sources, Publish(s) PROVE Known'
  <2>1. rel[s] \in Nat /\ rel[s] < Len(Releases[s]) /\ rel' = [rel EXCEPT ![s] = rel[s] + 1] /\ UNCHANGED cache
    BY <1>3 DEF Publish, Known
  <2>2. rel[s] + 1 \in DOMAIN Releases[s]
    <3>1. Releases[s] \in Seq(Inventories) /\ rel[s] \in DOMAIN Releases[s]
      BY PluginManagerAssumption DEF Known
    <3> QED BY <2>1, <3>1
  <2> QED BY <2>1, <2>2 DEF Known
<1> QED BY <1>1, <1>2, <1>3, CacheSteps

\* The phase of an installation is told apart from the installation of one plugin.
Phased ==
  /\ "pc" \in DOMAIN cmd
  /\ cmd.pc \in {"installing", "contexts"} => "phase" \in DOMAIN cmd /\ cmd.phase # "install"

\* Only InstallNext leaves the outcome of an installation.
Quiet == last' = None \/ last'.kind # "install"

LEMMA QuietIsBest == ASSUME Quiet PROVE InstalledIsBest'
  BY DEF Quiet, InstalledIsBest

LEMMA PhaseStep == ASSUME Phased, Next PROVE Phased' /\ (Quiet \/ InstallNext)
<1> USE DEF Quiet, Phased, Install, End, Finished, ToCommand, Idle, Body
<1>1. CASE Start \/ \E op \in Ops : Begin(op)
  BY <1>1 DEF Start, Begin
<1>2. CASE RefreshDatabase
  BY <1>2 DEF RefreshDatabase
<1>3. CASE CheckEssentials
  BY <1>3 DEF CheckEssentials
<1>4. CASE InstallNext
  BY <1>4 DEF InstallNext
<1>5. CASE InstallsDone
  BY <1>5 DEF InstallsDone
<1>6. CASE InstallOne \/ Upgrade
  BY <1>6 DEF InstallOne, Upgrade
<1>7. CASE InstallGroup
  BY <1>7 DEF InstallGroup
<1>8. CASE InstallLocal \/ InstallLocalNext \/ InstallLocalDone
  <2>1. CASE InstallLocal
    BY <2>1 DEF InstallLocal
  <2>2. CASE InstallLocalNext
    BY <2>2 DEF InstallLocalNext
  <2>3. CASE InstallLocalDone
    BY <2>3 DEF InstallLocalDone
  <2> QED BY <1>8, <2>1, <2>2, <2>3
<1>9. CASE Uninstall \/ Clean \/ Search \/ GroupSearch \/ CompletePlugins \/ Other
  <2>1. \E ok : \E kind \in {"uninstall", "clean", "search", "group search", "complete", "other"} :
          End(kind, ok, None)
    BY <1>9 DEF Uninstall, Clean, Search, GroupSearch, CompletePlugins, Other
  <2>2. PICK ok, kind :
          /\ kind \in {"uninstall", "clean", "search", "group search", "complete", "other"}
          /\ cmd' = [pc |-> "idle"] /\ last' = [kind |-> kind, ok |-> ok, start |-> None]
    BY <2>1
  <2>3. last'.kind = kind /\ kind # "install" /\ cmd'.pc = "idle" /\ "pc" \in DOMAIN cmd'
    BY <2>2
  <2> QED BY <2>3
<1>10. CASE UseContext \/ UnsetContext \/ SyncPlugins
  BY <1>10 DEF UseContext, UnsetContext, SyncPlugins, Sync
<1>11. CASE SyncContext
  BY <1>11 DEF SyncContext
<1>12. CASE \E s \in Sources : Publish(s)
  BY <1>12 DEF Publish
<1> QED BY <1>1, <1>2, <1>3, <1>4, <1>5, <1>6, <1>7, <1>8, <1>9, <1>10, <1>11, <1>12 DEF Next

\* A plugin that was installed has the newest version that any source which
\* answered has for this machine (or, without one, for its emulator), and its
\* binary comes unaltered from the first source that has this version, whatever
\* the sources publish, the caches hold and the other commands do (installPlugin,
\* mergeDuplicatePlugins, GetPlugins).
THEOREM InstalledStaysBest == Spec => []InstalledIsBest
<1> DEFINE Inv == Known /\ Phased /\ InstalledIsBest
<1>1. Init => Inv
  <2> SUFFICES ASSUME Init PROVE Inv
    OBVIOUS
  <2>1. Known
    BY PluginManagerAssumption DEF Init, Known
  <2>2. Phased
    BY DEF Init, Phased, Idle
  <2>3. InstalledIsBest
    BY DEF Init, InstalledIsBest
  <2> QED BY <2>1, <2>2, <2>3
<1>2. Inv /\ [Next]_vars => Inv'
  <2> SUFFICES ASSUME Known, Phased, InstalledIsBest, [Next]_vars
               PROVE  Known' /\ Phased' /\ InstalledIsBest'
    OBVIOUS
  <2>1. Known'
    BY KnownStep
  <2>2. CASE UNCHANGED vars
    BY <2>1, <2>2 DEF vars, Phased, InstalledIsBest
  <2>3. CASE Next
    <3>1. Phased' /\ (Quiet \/ InstallNext)
      BY <2>3, PhaseStep
    <3>2. InstallNext => InstalledIsBest'
      BY InstallIsBest DEF InstallNext
    <3> QED BY <2>1, <3>1, <3>2, QuietIsBest
  <2> QED BY <2>2, <2>3
<1>3. Inv => InstalledIsBest
  OBVIOUS
<1> QED BY <1>1, <1>2, <1>3, PTL DEF Spec

-----------------------------------------------------------------------------
(* What the completions suggest *)

LEMMA EveryVersion ==
  /\ <<>> # Latest /\ \A v \in Nat \X Nat : v # Latest
  /\ \A v \in AllVersions : v # Latest
<1>1. <<>> # Latest
  BY DEF Latest
<1>2. ASSUME NEW v \in Nat \X Nat PROVE v # Latest
  <2>1. v[1] \in Nat /\ Latest[1] = -1 /\ -1 \notin Nat
    BY DEF Latest
  <2> QED BY <2>1
<1> QED BY <1>1, <1>2, VersionsFinite

\* What is listed of a name and a target: all plugins, in all versions that match, for all
\* architectures.
AllOf(view, name, target, version) ==
  discoverSpecificPlugins(view, Criteria(name, target, version, AllArchs))

LEMMA AllOfTellsAll ==
  ASSUME NEW view, Readable(view), NEW name, NEW target, NEW version, version # Latest
  PROVE  /\ \A e \in AllOf(view, name, target, version) :
              e.plugin \in Named(name, target) /\ e.versions \subseteq AllVersions /\ e.versions # {}
         /\ \A i \in Answering(view) : \A x \in view[SourceSeq[i]].plugins :
              x.plugin \in Named(name, target) /\ ~x.hidden /\ IsPrefix(version, x.version) =>
                \E e \in AllOf(view, name, target, version) : e.plugin = x.plugin
<1> DEFINE f == Criteria(name, target, version, AllArchs)
           R == Listed(view, f)
<1>1. f.version = version /\ f.plugins = Named(name, target) /\ f.archs = AllArchs
  BY DEF Criteria
<1>2. ~f.hidden
  BY DEF Criteria
<1> HIDE DEF f
<1>3. Reflects(AllOf(view, name, target, version), R)
  BY <1>1, ListedReflects DEF AllOf, f
<1>4. ASSUME NEW i \in Answering(view), NEW x \in view[SourceSeq[i]].plugins
      PROVE  /\ x.version \in AllVersions
             /\ PluginWhere(f, x)
                  <=> x.plugin \in Named(name, target) /\ ~x.hidden /\ IsPrefix(version, x.version)
  <2>1. x \in AllRows /\ x.version \in AllVersions
    BY TableVersions DEF Readable, Table
  <2>2. x.arch \in AllArchs
    BY <2>1 DEF AllArchs
  <2> QED BY <1>1, <1>2, <2>1, <2>2 DEF PluginWhere
<1>5. \A y \in R : y[2].version \in AllVersions /\ y[2].plugin \in Named(name, target)
  BY <1>4 DEF Listed
<1>6. ASSUME NEW i \in Answering(view), NEW x \in view[SourceSeq[i]].plugins,
             x.plugin \in Named(name, target), ~x.hidden, IsPrefix(version, x.version)
      PROVE  \E e \in AllOf(view, name, target, version) : e.plugin = x.plugin
  <2>1. <<i, x>> \in R
    BY <1>4, <1>6 DEF Listed
  <2>2. <<i, x>>[2] = x
    OBVIOUS
  <2> HIDE DEF R
  <2> QED BY <1>3, <2>1, <2>2 DEF Reflects
<1>7. ASSUME NEW e \in AllOf(view, name, target, version)
      PROVE  e.plugin \in Named(name, target) /\ e.versions \subseteq AllVersions /\ e.versions # {}
  <2> HIDE DEF R
  <2> QED BY <1>3, <1>5 DEF Reflects
<1> QED BY <1>6, <1>7

\* When the listed plugins have one key, so has every plugin that is found for a request.
LEMMA OneKey ==
  ASSUME NEW view, Readable(view), NEW r,
         ~(Cardinality(mergeDuplicatePlugins(AllOf(view, r.name, r.target, <<>>))) > 1),
         NEW arch
  PROVE  \A x, y \in Rows(view, r, arch) : MergeKey(x[2].plugin) = MergeKey(y[2].plugin)
<1> DEFINE L == AllOf(view, r.name, r.target, <<>>)
           M == mergeDuplicatePlugins(L)
<1>0. <<>> # Latest
  BY EveryVersion
<1>1. \A e \in L : e.plugin \in Plugins
  BY <1>0, AllOfTellsAll DEF Named
<1>2. /\ M = {Merged(OfKey(L, k)) : k \in Keys(L)} /\ IsFiniteSet(M)
      /\ \A k \in Keys(L) : MergeKey(Merged(OfKey(L, k)).plugin) = k
  <2> HIDE DEF L
  <2> QED BY <1>1, OneOfEachKey
<1>3. ASSUME NEW k \in Keys(L), NEW j \in Keys(L) PROVE k = j
  <2>1. Merged(OfKey(L, k)) \in M /\ Merged(OfKey(L, j)) \in M
    BY <1>2
  <2>2. Cardinality(M) \in Nat /\ ~(Cardinality(M) > 1)
    BY <1>2, FS_CardinalityType
  <2> HIDE DEF M
  <2>3. Cardinality(M) = 1
    BY <1>2, <2>1, <2>2, FS_EmptySet
  <2>4. \E m : M = {m}
    BY <1>2, <2>3, FS_Singleton
  <2> HIDE DEF L
  <2> QED BY <1>2, <2>1, <2>4
<1>4. ASSUME NEW x \in Rows(view, r, arch) PROVE MergeKey(x[2].plugin) \in Keys(L)
  <2>1. PICK i \in Answering(view) : \E y \in Offered(view[SourceSeq[i]], r, arch) : x = <<i, y>>
    BY <1>4 DEF Rows
  <2>2. PICK y \in Offered(view[SourceSeq[i]], r, arch) : x = <<i, y>>
    BY <2>1
  <2>3. y \in view[SourceSeq[i]].plugins /\ y.plugin \in Named(r.name, r.target) /\ ~y.hidden
    BY <2>2 DEF Offered
  <2>4. PICK e \in L : e.plugin = y.plugin
    <3>1. IsPrefix(<<>>, y.version)
      BY <2>1, <2>3, TableVersions, VersionsFinite, FullVersions DEF Readable
    <3> QED BY <1>0, <2>3, <3>1, AllOfTellsAll
  <2>5. x[2] = y
    BY <2>2
  <2> QED BY <2>4, <2>5 DEF Keys
<1> QED BY <1>3, <1>4

\* The architecture for which a request is looked up: this one, unless no source has it.
LEMMA MatchesOfArch ==
  ASSUME NEW view, Readable(view), NEW r
  PROVE  \E arch \in {ThisArch, FallbackArch} :
           /\ Matches(Available(view, r, ThisArch), view, r)
                = {e \in mergeDuplicatePlugins(Available(view, r, arch)) : e.plugin \in Named(r.name, r.target)}
           /\ Rows(view, r, ThisArch) \cup Rows(view, r, FallbackArch) # {} => Rows(view, r, arch) # {}
<1> DEFINE here == Available(view, r, ThisArch)
<1>1. here = {} <=> Rows(view, r, ThisArch) = {}
  BY AvailableReflects DEF Reflects
<1>2. CASE here = {} /\ FallbackArch # None
  <2>1. Matches(here, view, r)
          = {e \in mergeDuplicatePlugins(Available(view, r, FallbackArch)) : e.plugin \in Named(r.name, r.target)}
    BY <1>2 DEF Matches
  <2> QED BY <1>1, <1>2, <2>1
<1>3. CASE ~(here = {} /\ FallbackArch # None)
  <2>1. Matches(here, view, r) = {e \in mergeDuplicatePlugins(here) : e.plugin \in Named(r.name, r.target)}
    BY <1>3 DEF Matches
  <2>2. ASSUME FallbackArch = None PROVE Rows(view, r, FallbackArch) = {}
    <3>1. ASSUME NEW i \in Answering(view), NEW x \in Offered(view[SourceSeq[i]], r, FallbackArch) PROVE FALSE
      <4>1. x \in AllRows /\ x.arch = FallbackArch
        BY <3>1 DEF Offered, Readable, Table
      <4>2. FallbackArch \in AllArchs
        BY <4>1 DEF AllArchs
      <4> QED BY <2>2, <4>2, PluginManagerAssumption
    <3> QED BY <3>1 DEF Rows
  <2> QED BY <1>1, <1>3, <2>1, <2>2
<1> QED BY <1>2, <1>3

\* What a request finds in a view, and the rows of its binaries for this machine.
Found(view, r) == Matches(Available(view, r, ThisArch), view, r)
Binaries(view, r) == Rows(view, r, ThisArch) \cup Rows(view, r, FallbackArch)

\* A request for plugins of one key has at most one match, and one when there is a binary,
\* with the version of a row.
LEMMA OneMatch ==
  ASSUME NEW view, Readable(view), NEW r,
         ~(Cardinality(mergeDuplicatePlugins(AllOf(view, r.name, r.target, <<>>))) > 1)
  PROVE  /\ Found(view, r) = {} \/ \E m : Found(view, r) = {m}
         /\ Binaries(view, r) # {} => Found(view, r) # {}
         /\ \A m \in Found(view, r) : \E x \in Binaries(view, r) : x[2].version = m.recommended
<1> DEFINE S == Found(view, r)
           R == Binaries(view, r)
<1>1. PICK arch \in {ThisArch, FallbackArch} :
        /\ S = {e \in mergeDuplicatePlugins(Available(view, r, arch)) : e.plugin \in Named(r.name, r.target)}
        /\ R # {} => Rows(view, r, arch) # {}
  BY MatchesOfArch DEF Found, Binaries
<1> DEFINE A == Available(view, r, arch)
           Q == Rows(view, r, arch)
<1>2. Reflects(A, Q) /\ Q \subseteq R
  BY <1>1, AvailableReflects DEF Binaries
<1>3. \A x \in Q : x[2].version \in AllVersions /\ x[2].plugin \in Named(r.name, r.target)
  BY RowsOfView
<1>4. \A x, y \in Q : MergeKey(x[2].plugin) = MergeKey(y[2].plugin)
  BY OneKey
<1> HIDE DEF A, Q
<1>5. \A a \in A : a.plugin \in Named(r.name, r.target) /\ a.plugin \in Plugins
  BY <1>2, <1>3 DEF Reflects, Named
<1>6. \A k, j \in Keys(A) : k = j
  BY <1>2, <1>4 DEF Reflects, Keys
<1>7. /\ mergeDuplicatePlugins(A) = {Merged(OfKey(A, k)) : k \in Keys(A)}
      /\ \A k \in Keys(A) : OfKey(A, k) # {} /\ \E a \in OfKey(A, k) : Merged(OfKey(A, k)).plugin = a.plugin
  BY <1>5, OneOfEachKey
<1>8. S = {Merged(OfKey(A, k)) : k \in Keys(A)}
  <2>1. \A k \in Keys(A) : Merged(OfKey(A, k)).plugin \in Named(r.name, r.target)
    BY <1>5, <1>7 DEF OfKey
  <2> QED BY <1>1, <1>7, <2>1 DEF A
<1>9. R # {} => Keys(A) # {}
  BY <1>1, <1>2 DEF Reflects, Keys, Q
<1>10. ASSUME NEW k \in Keys(A)
       PROVE  S = {Merged(OfKey(A, k))} /\ \E x \in R : x[2].version = Merged(OfKey(A, k)).recommended
  <2>1. IsBestOf(Merged(OfKey(A, k)), OfKey(A, k), RowsOfKey(Q, k))
    BY <1>2, <1>3, <1>7, MergedIsBest
  <2>2. RowsOfKey(Q, k) \subseteq R
    BY <1>2 DEF RowsOfKey
  <2>3. \E x \in R : x[2].version = Merged(OfKey(A, k)).recommended
    BY <2>1, <2>2 DEF IsBestOf
  <2> QED BY <1>6, <1>8, <2>3
<1> QED BY <1>8, <1>9, <1>10

\* completePluginVersions: an offered version is installed exactly.
LEMMA SuggestedVersionInstalls ==
  ASSUME Known, NEW name, NEW target, NEW v \in SuggestedVersions(name, target),
         NEW r, r = [name |-> name, target |-> target, version |-> v],
         NEW found, found = Found(LocalView, r), Binaries(LocalView, r) # {}
  PROVE  Choice(found, target) \in found /\ Choice(found, target).recommended = v
<1> DEFINE L == AllOf(LocalView, name, target, <<>>)
           M == mergeDuplicatePlugins(L)
           R == Binaries(LocalView, r)
<1>1. /\ Cardinality(M) = 1 /\ v \in DOMAIN (CHOOSE e \in M : TRUE).from
      /\ r.name = name /\ r.target = target /\ r.version = v
  BY DEF SuggestedVersions, DiscoverStandalonePlugins, AllOf
<1>2. Readable(LocalView)
  BY LocalIsIssued
<1>3. \A e \in L : e.plugin \in Plugins /\ e.versions \subseteq AllVersions
  BY <1>2, EveryVersion, AllOfTellsAll DEF Named
<1>4. v \in AllVersions
  <2> HIDE DEF L
  <2>1. M = {Merged(OfKey(L, k)) : k \in Keys(L)} /\ IsFiniteSet(M)
    BY <1>3, OneOfEachKey
  <2>2. PICK m : M = {m}
    BY <1>1, <2>1, FS_Singleton
  <2>3. PICK k \in Keys(L) : m = Merged(OfKey(L, k))
    BY <2>1, <2>2
  <2>4. v \in DOMAIN m.from
    BY <1>1, <2>2
  <2>5. DOMAIN m.from = UNION {e.versions : e \in OfKey(L, k)}
    BY <2>3 DEF Merged
  <2> QED BY <1>3, <2>4, <2>5 DEF OfKey
<1>5. /\ found # {} /\ (found = {} \/ \E m : found = {m})
      /\ \A m \in found : \E x \in R : x[2].version = m.recommended
  <2>1. ~(Cardinality(mergeDuplicatePlugins(AllOf(LocalView, r.name, r.target, <<>>))) > 1)
    BY <1>1
  <2>2. /\ Found(LocalView, r) = {} \/ \E m : Found(LocalView, r) = {m}
        /\ Binaries(LocalView, r) # {} => Found(LocalView, r) # {}
        /\ \A m \in Found(LocalView, r) : \E x \in Binaries(LocalView, r) : x[2].version = m.recommended
    BY <1>2, <2>1, OneMatch
  <2> QED BY <2>2
<1> HIDE DEF R
<1>6. PICK m : found = {m}
  BY <1>5
<1>7. PICK x \in R : x[2].version = m.recommended
  BY <1>5, <1>6
<1>8. x[2].version = v
  <2>1. PICK a : x \in Rows(LocalView, r, a)
    BY <1>7 DEF R, Binaries
  <2>2. x[2].version \in AllVersions
    BY <1>2, <2>1, RowsOfView
  <2>3. IsPrefix(v, x[2].version)
    <3>1. PICK i \in Answering(LocalView) : \E y \in Offered(LocalView[SourceSeq[i]], r, a) : x = <<i, y>>
      BY <2>1 DEF Rows
    <3>2. PICK y \in Offered(LocalView[SourceSeq[i]], r, a) : x = <<i, y>>
      BY <3>1
    <3>3. x[2] = y
      BY <3>2
    <3> QED BY <1>1, <1>4, <3>2, <3>3, EveryVersion DEF Offered
  <2> QED BY <1>4, <2>2, <2>3, VersionsFinite, FullVersions
<1>9. Choice(found, target) = m
  BY <1>6, FS_Singleton DEF Choice
<1> QED BY <1>6, <1>7, <1>8, <1>9

\* compCheckIfTargetFlagNeededForAllPlugins: without a need for a target, at most one
\* plugin matches the name.
LEMMA NoTargetNeeded ==
  ASSUME Known, NEW name, ~NeedsTarget(name),
         NEW r, r = [name |-> name, target |-> Unknown, version |-> Latest]
  PROVE  Cardinality(Found(LocalView, r)) <= 1
<1> DEFINE S == Found(LocalView, r)
<1>1. r.name = name /\ r.target = Unknown
  OBVIOUS
<1>2. ~(Cardinality(mergeDuplicatePlugins(AllOf(LocalView, r.name, r.target, <<>>))) > 1)
  BY <1>1 DEF NeedsTarget, DiscoverStandalonePlugins, AllOf
<1>3. S = {} \/ \E m : S = {m}
  BY <1>2, LocalIsIssued, OneMatch
<1> HIDE DEF S
<1>4. Cardinality(S) <= 1
  <2>1. CASE S = {}
    BY <2>1, FS_EmptySet
  <2>2. CASE \E m : S = {m}
    BY <2>2, FS_Singleton
  <2> QED BY <1>3, <2>1, <2>2
<1> QED BY <1>4 DEF S

-----------------------------------------------------------------------------
(* Groups *)

\* The active rows of one version of a group, and what is told of them.
MemberRows(db, g, v) == {x \in db.groups : x.group = g /\ x.version = v /\ ~x.hidden}
Told(db, g, v) ==
  {[plugin |-> x.plugin, version |-> x.pversion, mandatory |-> x.mandatory] : x \in MemberRows(db, g, v)}

\* An entry of group g with the versions that the filter's version w allows.
TellsOf(versions, db, g, w) ==
  /\ \A v \in DOMAIN versions : IsPrefix(w, v) /\ MemberRows(db, g, v) # {} /\ versions[v] = Told(db, g, v)
  /\ \A v : IsPrefix(w, v) /\ MemberRows(db, g, v) # {} => v \in DOMAIN versions

\* GetGroupsFromDB has an entry for each group of the rows that the filter lets through.
LEMMA GroupsOfRows ==
  ASSUME NEW db, NEW f, ~f.hidden
  PROVE  /\ \A e \in GetGroupsFromDB(db, f) :
              /\ e.group \in f.groups /\ DOMAIN e.versions # {}
              /\ TellsOf(e.versions, db, e.group, f.version)
         /\ \A g \in f.groups : \A v : IsPrefix(f.version, v) /\ MemberRows(db, g, v) # {} =>
              \E e \in GetGroupsFromDB(db, f) : e.group = g
<1> DEFINE rows == {x \in db.groups : GroupWhere(f, x)}
           G == {x.group : x \in rows}
<1>1. GetGroupsFromDB(db, f) = {GroupEntry(rows, g) : g \in G}
  BY DEF GetGroupsFromDB
<1>2. \A g \in G : g \in f.groups /\ \E x \in rows : x.group = g
  BY DEF GroupWhere
<1>3. \A x : x \in rows <=> /\ x \in db.groups /\ x.group \in f.groups
                            /\ IsPrefix(f.version, x.version) /\ ~x.hidden
  BY DEF GroupWhere
<1>4. ASSUME NEW g \in f.groups, NEW v, IsPrefix(f.version, v), MemberRows(db, g, v) # {} PROVE g \in G
  <2>1. PICK x \in MemberRows(db, g, v) : TRUE
    BY <1>4
  <2>2. x \in rows /\ x.group = g
    BY <1>3, <1>4, <2>1 DEF MemberRows
  <2> QED BY <2>2
<1> HIDE DEF rows, G
<1>5. ASSUME NEW g \in G
      PROVE  /\ GroupEntry(rows, g).group = g
             /\ DOMAIN GroupEntry(rows, g).versions # {}
             /\ TellsOf(GroupEntry(rows, g).versions, db, g, f.version)
  <2> DEFINE mine == {x \in rows : x.group = g}
             vs == GroupEntry(rows, g).versions
  <2>1. GroupEntry(rows, g).group = g /\ vs = Members(mine)
    BY DEF GroupEntry
  <2>2. DOMAIN Members(mine) = VersionsOf(mine)
    BY DEF Members
  <2>3. ASSUME NEW v \in VersionsOf(mine)
        PROVE  /\ IsPrefix(f.version, v) /\ MemberRows(db, g, v) # {}
               /\ Members(mine)[v] = Told(db, g, v)
    <3>1. PICK x \in mine : x.version = v
      BY <2>3 DEF VersionsOf
    <3>2. {m \in mine : m.version = v} = MemberRows(db, g, v)
      BY <1>2, <1>3, <3>1 DEF MemberRows
    <3>3. Members(mine)[v] = {[plugin |-> r.plugin, version |-> r.pversion, mandatory |-> r.mandatory] :
                                r \in {m \in mine : m.version = v}}
      BY <2>3 DEF Members
    <3> QED BY <1>3, <3>1, <3>2, <3>3 DEF Told
  <2>4. ASSUME NEW v, IsPrefix(f.version, v), MemberRows(db, g, v) # {} PROVE v \in VersionsOf(mine)
    <3>1. PICK x \in MemberRows(db, g, v) : TRUE
      BY <2>4
    <3>2. x \in mine /\ x.version = v
      BY <1>2, <1>3, <2>4, <3>1 DEF MemberRows
    <3> QED BY <3>2 DEF VersionsOf
  <2>5. VersionsOf(mine) # {}
    BY <1>2 DEF VersionsOf
  <2> HIDE DEF mine, vs
  <2>6. TellsOf(vs, db, g, f.version)
    BY <2>1, <2>2, <2>3, <2>4 DEF TellsOf
  <2> QED BY <2>1, <2>2, <2>5, <2>6 DEF vs
<1> QED BY <1>1, <1>2, <1>4, <1>5

GroupFilter(groups, version) == [groups |-> groups, version |-> version, hidden |-> FALSE]

\* The entries of the answering sources, before they are merged.
GroupsFound(view, groups, version) ==
  UNION {{[group |-> e.group, place |-> i, versions |-> e.versions] :
            e \in GetPluginGroups(view[SourceSeq[i]], GroupFilter(groups, version))} : i \in Answering(view)}

OfGroup(F, g) == {e \in F : e.group = g}

LEMMA GroupsAreMerged ==
  ASSUME NEW view, NEW groups, NEW version
  PROVE  discoverSpecificPluginGroups(view, groups, version)
           = {MergedGroup(g, OfGroup(GroupsFound(view, groups, version), g)) :
                g \in {e.group : e \in GroupsFound(view, groups, version)}}
  BY DEF discoverSpecificPluginGroups, GroupsFound, GroupFilter, OfGroup

\* Every entry tells what its source has of some of its versions.
LEMMA EntriesAreTold ==
  ASSUME NEW view, NEW groups, NEW version, NEW e \in GroupsFound(view, groups, version)
  PROVE  /\ e.place \in Answering(view) /\ e.group \in groups /\ DOMAIN e.versions # {}
         /\ \E w : /\ version # Latest => w = version
                   /\ TellsOf(e.versions, view[SourceSeq[e.place]], e.group, w)
<1> DEFINE f == GroupFilter(groups, version)
           F(w) == [f EXCEPT !.version = w]
<1>1. f.groups = groups /\ f.version = version /\ \A w : F(w).groups = groups /\ F(w).version = w
  BY DEF GroupFilter
<1>2. ~f.hidden /\ \A w : ~F(w).hidden
  BY DEF GroupFilter
<1>3. PICK i \in Answering(view) : \E d \in GetPluginGroups(view[SourceSeq[i]], f) :
        e = [group |-> d.group, place |-> i, versions |-> d.versions]
  BY DEF GroupsFound
<1> DEFINE db == view[SourceSeq[i]]
<1>4. PICK d \in GetPluginGroups(db, f) : e = [group |-> d.group, place |-> i, versions |-> d.versions]
  BY <1>3
<1>5. e.group = d.group /\ e.place = i /\ e.versions = d.versions
  BY <1>4
<1> HIDE DEF f, db
<1>6. CASE version # Latest
  <2>1. d \in GetGroupsFromDB(db, f)
    BY <1>1, <1>4, <1>6 DEF GetPluginGroups
  <2>2. d.group \in f.groups /\ DOMAIN d.versions # {} /\ TellsOf(d.versions, db, d.group, f.version)
    BY <1>2, <2>1, GroupsOfRows
  <2> QED BY <1>1, <1>3, <1>5, <1>6, <2>2 DEF db
<1>7. CASE version = Latest
  <2>1. PICK w : d \in GetGroupsFromDB(db, F(w))
    BY <1>1, <1>4, <1>7 DEF GetPluginGroups
  <2> HIDE DEF F
  <2>2. d.group \in F(w).groups /\ DOMAIN d.versions # {} /\ TellsOf(d.versions, db, d.group, F(w).version)
    BY <1>2, <2>1, GroupsOfRows
  <2> QED BY <1>1, <1>3, <1>5, <1>7, <2>2 DEF db
<1> QED BY <1>6, <1>7

\* Unless the latest version is asked for, each source's rows are told of.
LEMMA AllGroupsFound ==
  ASSUME NEW view, NEW groups, NEW version, version # Latest,
         NEW i \in Answering(view), NEW g \in groups, NEW v, IsPrefix(version, v),
         MemberRows(view[SourceSeq[i]], g, v) # {}
  PROVE  \E e \in GroupsFound(view, groups, version) :
            e.group = g /\ e.place = i /\ v \in DOMAIN e.versions
<1> DEFINE f == GroupFilter(groups, version)
           db == view[SourceSeq[i]]
<1>1. f.groups = groups /\ f.version = version
  BY DEF GroupFilter
<1>2. ~f.hidden
  BY DEF GroupFilter
<1> HIDE DEF f, db
<1>3. PICK d \in GetGroupsFromDB(db, f) : d.group = g
  BY <1>1, <1>2, GroupsOfRows DEF db
<1>4. v \in DOMAIN d.versions
  BY <1>1, <1>2, <1>3, GroupsOfRows DEF TellsOf, db
<1>5. d \in GetPluginGroups(db, f)
  BY <1>1, <1>3 DEF GetPluginGroups
<1> DEFINE e == [group |-> d.group, place |-> i, versions |-> d.versions]
<1>6. e \in GroupsFound(view, groups, version)
  BY <1>5 DEF GroupsFound, f, db
<1>7. e.group = g /\ e.place = i /\ e.versions = d.versions
  BY <1>3
<1> HIDE DEF e
<1> QED BY <1>4, <1>6, <1>7

\* mergeGroupEntries: each version is that of the first entry that has it.
LEMMA MergedGroupIsFirst ==
  ASSUME NEW g, NEW E, E # {}, \A e \in E : e.place \in Nat /\ DOMAIN e.versions # {}
  PROVE  /\ MergedGroup(g, E).group = g
         /\ DOMAIN MergedGroup(g, E).versions = UNION {DOMAIN e.versions : e \in E}
         /\ DOMAIN MergedGroup(g, E).versions # {}
         /\ MergedGroup(g, E).recommended = Newest(DOMAIN MergedGroup(g, E).versions)
         /\ \A v \in DOMAIN MergedGroup(g, E).versions : \E e \in E :
              /\ v \in DOMAIN e.versions /\ MergedGroup(g, E).versions[v] = e.versions[v]
              /\ \A d \in E : v \in DOMAIN d.versions => e.place <= d.place
<1> DEFINE versions == UNION {DOMAIN e.versions : e \in E}
           having(v) == {e \in E : v \in DOMAIN e.versions}
           first(v) == CHOOSE e \in having(v) : \A d \in having(v) : e.place <= d.place
<1>1. /\ MergedGroup(g, E).group = g /\ MergedGroup(g, E).recommended = Newest(versions)
      /\ MergedGroup(g, E).versions = [v \in versions |-> first(v).versions[v]]
  BY DEF MergedGroup
<1>2. versions # {}
  OBVIOUS
<1>3. ASSUME NEW v \in versions
      PROVE  first(v) \in having(v) /\ \A d \in having(v) : first(v).place <= d.place
  <2> DEFINE H == having(v)
             N == {e.place : e \in H}
  <2>1. H # {} /\ \A e \in H : e.place \in Nat
    BY <1>3
  <2> HIDE DEF H
  <2>2. N \in SUBSET Nat /\ N # {}
    BY <2>1
  <2>3. \E n \in N : \A k \in N : n <= k
    <3> HIDE DEF N
    <3> QED BY <2>2, LeastNumber
  <2>4. \E e \in H : \A d \in H : e.place <= d.place
    BY <2>3
  <2>5. (CHOOSE e \in H : \A d \in H : e.place <= d.place) \in H
        /\ \A d \in H : (CHOOSE e \in H : \A x \in H : e.place <= x.place).place <= d.place
    BY <2>4
  <2> QED BY <2>5 DEF H
<1> HIDE DEF first
<1>4. ASSUME NEW v \in versions
      PROVE  \E e \in E : /\ v \in DOMAIN e.versions /\ MergedGroup(g, E).versions[v] = e.versions[v]
                          /\ \A d \in E : v \in DOMAIN d.versions => e.place <= d.place
  <2>1. first(v) \in E /\ v \in DOMAIN first(v).versions
        /\ \A d \in E : v \in DOMAIN d.versions => first(v).place <= d.place
    BY <1>3
  <2>2. MergedGroup(g, E).versions[v] = first(v).versions[v]
    BY <1>1
  <2> QED BY <2>1, <2>2
<1>5. DOMAIN MergedGroup(g, E).versions = versions
  BY <1>1
<1> HIDE DEF versions
<1>6. /\ MergedGroup(g, E).recommended = Newest(DOMAIN MergedGroup(g, E).versions)
      /\ DOMAIN MergedGroup(g, E).versions # {}
  BY <1>1, <1>2, <1>5
<1> QED BY <1>1, <1>4, <1>5, <1>6 DEF versions

LEMMA PlacesAreNumbers ==
  ASSUME NEW view PROVE \A i \in Answering(view) : i \in Nat
<1>1. SourceSeq \in Seq(Sources)
  BY PluginManagerAssumption
<1> QED BY <1>1 DEF Answering

\* A discovered group: its version v is that of the first source, at place i, with a row of it.
Discloses(pg, view, v, i) ==
  /\ i \in Answering(view)
  /\ MemberRows(view[SourceSeq[i]], pg.group, v) # {}
  /\ pg.versions[v] = Told(view[SourceSeq[i]], pg.group, v)

LEMMA GroupIsTold ==
  ASSUME NEW view, NEW groups, NEW version,
         NEW pg \in discoverSpecificPluginGroups(view, groups, version)
  PROVE  /\ pg.group \in groups
         /\ DOMAIN pg.versions # {} /\ pg.recommended = Newest(DOMAIN pg.versions)
         /\ \A v \in DOMAIN pg.versions : \E i : Discloses(pg, view, v, i)
         /\ version # Latest =>
              /\ \A v \in DOMAIN pg.versions : IsPrefix(version, v)
              /\ \A v \in DOMAIN pg.versions : \E i : 
                   /\ Discloses(pg, view, v, i)
                   /\ \A j \in Answering(view) : MemberRows(view[SourceSeq[j]], pg.group, v) # {} => i <= j
<1> DEFINE F == GroupsFound(view, groups, version)
<1>1. PICK g \in {e.group : e \in F} : pg = MergedGroup(g, OfGroup(F, g))
  BY GroupsAreMerged
<1> DEFINE E == OfGroup(F, g)
<1>2. E # {} /\ pg = MergedGroup(g, E) /\ \A e \in E : e.group = g /\ e \in F
  BY <1>1 DEF OfGroup
<1> HIDE DEF E
<1>3. ASSUME NEW e \in E
      PROVE  /\ e.place \in Answering(view) /\ g \in groups /\ DOMAIN e.versions # {} /\ e.place \in Nat
             /\ \E w : /\ version # Latest => w = version
                       /\ TellsOf(e.versions, view[SourceSeq[e.place]], g, w)
  BY <1>2, EntriesAreTold, PlacesAreNumbers
<1>4. /\ pg.group = g
      /\ DOMAIN pg.versions # {} /\ pg.recommended = Newest(DOMAIN pg.versions)
      /\ \A v \in DOMAIN pg.versions : \E e \in E :
           /\ v \in DOMAIN e.versions /\ pg.versions[v] = e.versions[v]
           /\ \A d \in E : v \in DOMAIN d.versions => e.place <= d.place
  <2>1. \A e \in E : e.place \in Nat /\ DOMAIN e.versions # {}
    BY <1>3
  <2> QED BY <1>2, <2>1, MergedGroupIsFirst
<1>5. ASSUME NEW v \in DOMAIN pg.versions
      PROVE  /\ \E i : Discloses(pg, view, v, i)
             /\ version # Latest =>
                  /\ IsPrefix(version, v)
                  /\ \E i : /\ Discloses(pg, view, v, i)
                            /\ \A j \in Answering(view) :
                                 MemberRows(view[SourceSeq[j]], pg.group, v) # {} => i <= j
  <2>1. PICK e \in E : /\ v \in DOMAIN e.versions /\ pg.versions[v] = e.versions[v]
                       /\ \A d \in E : v \in DOMAIN d.versions => e.place <= d.place
    BY <1>4
  <2>2. PICK w : /\ version # Latest => w = version
                 /\ TellsOf(e.versions, view[SourceSeq[e.place]], g, w)
    BY <1>3
  <2>3. Discloses(pg, view, v, e.place)
    BY <1>3, <1>4, <2>1, <2>2 DEF Discloses, TellsOf
  <2>4. IsPrefix(w, v)
    BY <2>1, <2>2 DEF TellsOf
  <2>5. ASSUME version # Latest, NEW j \in Answering(view), MemberRows(view[SourceSeq[j]], g, v) # {}
        PROVE  e.place <= j
    <3>1. PICK d \in F : d.group = g /\ d.place = j /\ v \in DOMAIN d.versions
      BY <1>3, <2>2, <2>4, <2>5, AllGroupsFound
    <3>2. d \in E
      BY <3>1 DEF E, OfGroup
    <3> QED BY <2>1, <3>1, <3>2
  <2> QED BY <1>4, <2>2, <2>3, <2>4, <2>5
<1>6. pg.group \in groups
  BY <1>2, <1>3, <1>4
<1> QED BY <1>4, <1>5, <1>6

\* One entry of each group, and for one group at most one.
LEMMA OneGroup ==
  ASSUME NEW view, NEW g, NEW version
  PROVE  \A p, q \in discoverSpecificPluginGroups(view, {g}, version) : p = q
<1> DEFINE F == GroupsFound(view, {g}, version)
<1>1. \A e \in F : e.group = g
  BY EntriesAreTold
<1>2. discoverSpecificPluginGroups(view, {g}, version) = {MergedGroup(h, OfGroup(F, h)) : h \in {e.group : e \in F}}
  BY GroupsAreMerged
<1> HIDE DEF F
<1> QED BY <1>1, <1>2

\* The databases have full versions of groups.
LEMMA GroupVersions ==
  ASSUME NEW view, Issued(view), NEW i \in Answering(view), NEW g, NEW v,
         MemberRows(view[SourceSeq[i]], g, v) # {}
  PROVE  v \in Nat \X Nat
<1>1. PICK x \in MemberRows(view[SourceSeq[i]], g, v) : TRUE
  OBVIOUS
<1>2. x \in view[SourceSeq[i]].groups /\ x.version = v
  BY <1>1 DEF MemberRows
<1>3. x \in AllMembers
  <2>1. CASE view[SourceSeq[i]] = EmptyDB
    BY <1>2, <2>1 DEF EmptyDB
  <2>2. CASE view[SourceSeq[i]] \in Inventories
    BY <1>2, <2>2 DEF AllMembers
  <2> QED BY <2>1, <2>2 DEF Issued
<1> QED BY <1>2, <1>3, PluginManagerAssumption

\* completionAllPluginsFromGroup: the second discovery, of one version of one group, finds
\* what the first one found.
LEMMA SuggestedMembersAreMandatory ==
  ASSUME Known, NEW pg \in SuggestedGroups, NEW v \in DOMAIN pg.versions
  PROVE  SuggestedMembers(pg.group, v) = {NameOf[m.plugin] : m \in {x \in pg.versions[v] : x.mandatory}}
<1> DEFINE g == pg.group
           D == discoverSpecificPluginGroups(LocalView, {g}, v)
<1>1. Issued(LocalView)
  BY LocalIsIssued
<1>2. PICK i : /\ Discloses(pg, LocalView, v, i)
               /\ \A j \in Answering(LocalView) : MemberRows(LocalView[SourceSeq[j]], g, v) # {} => i <= j
  <2>1. PICK groups, any : any # Latest /\ pg \in discoverSpecificPluginGroups(LocalView, groups, any)
    BY EveryVersion DEF SuggestedGroups
  <2>2. \E i : /\ Discloses(pg, LocalView, v, i)
               /\ \A j \in Answering(LocalView) :
                    MemberRows(LocalView[SourceSeq[j]], pg.group, v) # {} => i <= j
    BY <2>1, GroupIsTold
  <2> QED BY <2>2
<1>3. v \in Nat \X Nat /\ v # Latest /\ IsPrefix(v, v)
  BY <1>1, <1>2, GroupVersions, EveryVersion, FullVersions DEF Discloses
<1>4. PICK q \in D : TRUE
  <2>1. PICK e \in GroupsFound(LocalView, {g}, v) : e.group = g
    BY <1>2, <1>3, AllGroupsFound DEF Discloses
  <2> QED BY <2>1, GroupsAreMerged
<1>5. D = {q}
  <2>1. \A p, r \in D : p = r
    BY OneGroup
  <2> HIDE DEF D
  <2> QED BY <1>4, <2>1
<1>6. /\ q.group = g /\ DOMAIN q.versions # {} /\ q.recommended = Newest(DOMAIN q.versions)
      /\ \A w \in DOMAIN q.versions : \E j : Discloses(q, LocalView, w, j)
      /\ \A w \in DOMAIN q.versions : IsPrefix(v, w)
      /\ \A w \in DOMAIN q.versions : \E k :
           /\ Discloses(q, LocalView, w, k)
           /\ \A j \in Answering(LocalView) : MemberRows(LocalView[SourceSeq[j]], q.group, w) # {} => k <= j
  BY <1>3, <1>4, GroupIsTold
<1> HIDE DEF g, D
<1>7. DOMAIN q.versions = {v}
  <2>1. ASSUME NEW w \in DOMAIN q.versions PROVE w = v
    <3>1. PICK j : Discloses(q, LocalView, w, j)
      BY <1>6
    <3>2. w \in Nat \X Nat
      BY <1>1, <3>1, GroupVersions DEF Discloses
    <3> QED BY <1>3, <1>6, <3>2, FullVersions
  <2> QED BY <1>6, <2>1
<1>8. q.recommended = v
  BY <1>6, <1>7 DEF Newest
<1>9. PICK k : /\ Discloses(q, LocalView, v, k)
               /\ \A j \in Answering(LocalView) : MemberRows(LocalView[SourceSeq[j]], g, v) # {} => k <= j
  BY <1>6, <1>7
<1>10. i = k
  <2>1. i \in Nat /\ k \in Nat /\ i <= k /\ k <= i
    BY <1>2, <1>6, <1>9, PlacesAreNumbers DEF Discloses, g
  <2> QED BY <2>1
<1>11. q.versions[v] = pg.versions[v]
  BY <1>2, <1>6, <1>9, <1>10 DEF Discloses, g
<1> DEFINE S == {x \in pg.versions[v] : x.mandatory}
<1>12. MandatoryOf(q) = {[name |-> NameOf[m.plugin], target |-> TargetOf[m.plugin], version |-> m.version] : m \in S}
  BY <1>8, <1>11 DEF MandatoryOf
<1> HIDE DEF S
<1>13. {r.name : r \in MandatoryOf(q)} = {NameOf[m.plugin] : m \in S}
  <2>1. ASSUME NEW m \in S PROVE \E r \in MandatoryOf(q) : r.name = NameOf[m.plugin]
    <3> DEFINE r == [name |-> NameOf[m.plugin], target |-> TargetOf[m.plugin], version |-> m.version]
    <3>1. r \in MandatoryOf(q) /\ r.name = NameOf[m.plugin]
      BY <1>12
    <3> QED BY <3>1
  <2>2. ASSUME NEW r \in MandatoryOf(q) PROVE \E m \in S : r.name = NameOf[m.plugin]
    BY <1>12
  <2> QED BY <2>1, <2>2
<1>14. SuggestedMembers(g, v) = {r.name : r \in MandatoryOf(q)}
  BY <1>5 DEF SuggestedMembers, D
<1> QED BY <1>13, <1>14 DEF S, g

\* What the completions of plugins and of groups offer can be installed from the same cache:
\* each version that is offered of a plugin, exactly and unambiguously, and each plugin of a
\* group (completePluginVersions, compCheckIfTargetFlagNeededForAllPlugins,
\* completionAllPluginsFromGroup, installPlugin), for any sources, caches and requests.
THEOREM SuggestionsCanBeInstalled == Spec => []SuggestionsInstall
<1>1. Init => Known
  BY PluginManagerAssumption DEF Init, Known
<1>2. Known /\ [Next]_vars => Known'
  BY KnownStep
<1>3. Known => SuggestionsInstall
  <2> SUFFICES ASSUME Known, NEW name \in Range(NameOf)
               PROVE
        /\ \A target \in SuggestedTargets(name) \cup (IF NeedsTarget(name) THEN {} ELSE {Unknown}) :
             \A v \in SuggestedVersions(name, target) :
               LET r == [name |-> name, target |-> target, version |-> v]
                   found == Matches(Available(LocalView, r, ThisArch), LocalView, r)
                   e == Choice(found, target)
               IN  Rows(LocalView, r, ThisArch) \cup Rows(LocalView, r, FallbackArch) # {}
                       => e \in found /\ e.recommended = v
        /\ LET r == [name |-> name, target |-> Unknown, version |-> Latest]
           IN  NeedsTarget(name)
               \/ Cardinality(Matches(Available(LocalView, r, ThisArch), LocalView, r)) <= 1
        /\ \A pg \in SuggestedGroups : \A v \in DOMAIN pg.versions :
             SuggestedMembers(pg.group, v) = {NameOf[m.plugin] : m \in {x \in pg.versions[v] : x.mandatory}}
    BY DEF SuggestionsInstall
  <2>1. ASSUME NEW target, NEW v \in SuggestedVersions(name, target),
               NEW r, r = [name |-> name, target |-> target, version |-> v],
               Binaries(LocalView, r) # {}
        PROVE  Choice(Found(LocalView, r), target) \in Found(LocalView, r)
               /\ Choice(Found(LocalView, r), target).recommended = v
    <3>1. PICK found : found = Found(LocalView, r)
      OBVIOUS
    <3> QED BY <2>1, <3>1, SuggestedVersionInstalls
  <2>2. ASSUME NEW r, r = [name |-> name, target |-> Unknown, version |-> Latest]
        PROVE  NeedsTarget(name) \/ Cardinality(Found(LocalView, r)) <= 1
    BY <2>2, NoTargetNeeded
  <2>3. ASSUME NEW pg \in SuggestedGroups, NEW v \in DOMAIN pg.versions
        PROVE  SuggestedMembers(pg.group, v) = {NameOf[m.plugin] : m \in {x \in pg.versions[v] : x.mandatory}}
    BY SuggestedMembersAreMandatory
  <2> QED BY <2>1, <2>2, <2>3 DEF Found, Binaries
<1> QED BY <1>1, <1>2, <1>3, PTL DEF Spec

-----------------------------------------------------------------------------
(* Installing plugins that are alone *)

\* The name and target of the plugin allow no other plugin: it has a target, or no
\* plugin of its name has another one.
Alone(p) == p \in Plugins /\ Named(NameOf[p], TargetOf[p]) = {p}

\* Request r asks for a full version of plugin p alone.
AsksFor(r, p) == /\ Alone(p) /\ r.name = NameOf[p] /\ r.target = TargetOf[p]
                 /\ r.version \in Nat \X Nat

LEMMA AloneStays ==
  ASSUME NEW p, Alone(p), NEW q, Alone(q) PROVE q \notin Superseded(p)
<1>1. ASSUME q \in Superseded(p) PROVE FALSE
  <2>1. NameOf[q] = NameOf[p] /\ (TargetOf[p] = Unknown \/ TargetOf[q] = Unknown) /\ TargetOf[p] # TargetOf[q]
    BY <1>1, PluginManagerAssumption DEF Superseded
  <2>2. TargetOf[p] = Unknown => q \in Named(NameOf[p], TargetOf[p])
    BY <2>1 DEF Named, Alone
  <2>3. TargetOf[q] = Unknown => p \in Named(NameOf[q], TargetOf[q])
    BY <2>1 DEF Named, Alone
  <2>4. p = q
    BY <2>1, <2>2, <2>3 DEF Alone
  <2> QED BY <2>1, <2>4
<1> QED BY <1>1

\* The rows that are candidates for a request have its version and a place.
LEMMA CandidateRows ==
  ASSUME NEW view, Readable(view), NEW late, Readable(late), NEW r,
         NEW x \in Candidates(view, late, r)
  PROVE  /\ x[1] \in Nat /\ SourceSeq[x[1]] \in Sources
         /\ x[2].version \in Nat \X Nat
         /\ r.version \in Nat \X Nat => x[2].version = r.version
<1>1. PICK arch, w : x \in Rows(w, r, arch) /\ Readable(w)
  BY DEF Candidates
<1>2. PICK i \in Answering(w) : \E y \in Offered(w[SourceSeq[i]], r, arch) : x = <<i, y>>
  BY <1>1 DEF Rows
<1>3. PICK y \in Offered(w[SourceSeq[i]], r, arch) : x = <<i, y>>
  BY <1>2
<1>4. x[1] = i /\ x[2] = y
  BY <1>3
<1>5. i \in Nat /\ SourceSeq[i] \in Sources
  BY <1>2, PlacesAreNumbers DEF Answering, Sources, Range
<1>6. x[2].version \in Nat \X Nat
  BY <1>1, RowsOfView, VersionsFinite
<1>7. ASSUME r.version \in Nat \X Nat PROVE y.version = r.version
  <2>1. IsPrefix(r.version, y.version)
    BY <1>3, <1>7, EveryVersion DEF Offered
  <2> QED BY <1>4, <1>6, <1>7, <2>1, FullVersions
<1> QED BY <1>4, <1>5, <1>6, <1>7

LEMMA MinIsLeast ==
  ASSUME NEW N \in SUBSET Nat, N # {} PROVE Min(N) \in N
<1>1. \E n \in N : \A k \in N : n <= k
  BY LeastNumber
<1> QED BY <1>1 DEF Min

\* A request for a full version of a plugin that is alone registers this version, when it
\* succeeds, and leaves the other plugins that are alone.
LEMMA AloneInstalls ==
  ASSUME Known, NEW r, NEW p, AsksFor(r, p), InstallStandalonePlugin(r), last'.ok
  PROVE  /\ installed'[p] # None /\ installed'[p].version = r.version
         /\ installed'[p].discovered = r.version /\ installed'[p].content \in Sources
         /\ \A q : Alone(q) /\ q # p => installed'[q] = installed[q]
<1>1. PICK o, late : InstallEnds(r, o, late)
  BY InstallOutcome
<1>2. PICK v, c : /\ last'.plugin \in Named(r.name, r.target)
                  /\ Best(Candidates(View(o), View(late), r), r, last'.plugin, v, c)
                  /\ Registered(last'.plugin, v, c)
  BY <1>1 DEF InstallEnds
<1>3. last'.plugin = p /\ p \in Plugins
  BY <1>2 DEF AsksFor, Alone
<1> DEFINE R == Candidates(View(o), View(late), r)
           mine == {x \in R : MergeKey(x[2].plugin) = MergeKey(p)}
           holders == {x[1] : x \in {y \in mine : y[2].version = v}}
<1>4. holders # {} /\ c = SourceSeq[Min(holders)]
  BY <1>2, <1>3 DEF Best
<1>5. \A x \in R : /\ x[1] \in Nat /\ SourceSeq[x[1]] \in Sources /\ x[2].version = r.version
  BY ViewIsReadable, CandidateRows DEF AsksFor
<1> HIDE DEF R
<1>6. v = r.version /\ holders \in SUBSET Nat /\ \A n \in holders : SourceSeq[n] \in Sources
  BY <1>4, <1>5
<1>7. c \in Sources
  <2> HIDE DEF holders
  <2> QED BY <1>4, <1>6, MinIsLeast
<1> DEFINE entry == [version |-> v, content |-> c, discovered |-> v]
<1>8. entry \in [version : Nat \X Nat, content : Sources, discovered : Nat \X Nat]
  BY <1>6, <1>7 DEF AsksFor
<1>9. entry.version = v /\ entry.discovered = v /\ entry.content = c /\ entry # None
  BY <1>8, PluginManagerAssumption
<1>10. installed' = Upserted(installed, p, entry)
  BY <1>2, <1>3 DEF Registered
<1> HIDE DEF entry
<1>11. installed'[p] = entry
  BY <1>3, <1>10 DEF Upserted
<1>12. ASSUME NEW q, Alone(q), q # p PROVE installed'[q] = installed[q]
  <2>1. q \in Plugins /\ q \notin Superseded(p)
    BY <1>12, AloneStays DEF AsksFor, Alone
  <2> QED BY <1>10, <1>12, <2>1 DEF Upserted
<1> QED BY <1>6, <1>7, <1>9, <1>11, <1>12

LEMMA FailureInstallsNothing ==
  ASSUME Known, NEW r, InstallStandalonePlugin(r)
  PROVE  last'.ok \in BOOLEAN /\ last'.kind = "install" /\ (~last'.ok => installed' = installed)
  BY InstallOutcome DEF InstallEnds

-----------------------------------------------------------------------------
(* Essential plugins *)

\* The mandatory plugins of the essential group are named alone, each with a full version.
EssentialsFit ==
  \A m \in AllMembers : m.group = EssentialGroup /\ m.mandatory => Alone(m.plugin) /\ m.pversion \in Nat \X Nat

\* The recommended version of a group is one that it has.
LEMMA RecommendedGroup ==
  ASSUME NEW view, Issued(view), NEW groups, NEW version,
         NEW pg \in discoverSpecificPluginGroups(view, groups, version)
  PROVE  pg.recommended \in DOMAIN pg.versions
<1> DEFINE V == DOMAIN pg.versions
           U == {m.version : m \in AllMembers}
           f == [m \in AllMembers |-> m.version]
<1>1. V # {} /\ pg.recommended = Newest(V) /\ \A v \in V : \E i : Discloses(pg, view, v, i)
  BY GroupIsTold
<1>2. ASSUME NEW v \in V PROVE v \in U
  <2>1. PICK i : Discloses(pg, view, v, i)
    BY <1>1
  <2>2. PICK x \in MemberRows(view[SourceSeq[i]], pg.group, v) : TRUE
    BY <2>1 DEF Discloses
  <2>3. x \in AllMembers /\ x.version = v
    <3>1. x \in view[SourceSeq[i]].groups /\ x.version = v
      BY <2>2 DEF MemberRows
    <3>2. view[SourceSeq[i]] \in {EmptyDB} \cup Inventories
      BY <2>1 DEF Discloses, Issued
    <3> QED BY <3>1, <3>2 DEF EmptyDB, AllMembers
  <2> QED BY <2>3
<1>3. IsFiniteSet(U)
  <2>1. U = {f[m] : m \in AllMembers}
    OBVIOUS
  <2> HIDE DEF f, U
  <2> QED BY <2>1, FiniteImage, PluginManagerAssumption
<1>4. U \in SUBSET (Nat \X Nat)
  BY PluginManagerAssumption
<1> HIDE DEF U, V
<1>5. V \in SUBSET (Nat \X Nat) /\ IsFiniteSet(V)
  BY <1>2, <1>3, <1>4, FS_Subset
<1>6. HasNewest(V)
  BY <1>1, <1>5, SomeIsNewest
<1> QED BY <1>1, <1>6 DEF HasNewest, Newest, V

\* The requests for the essential plugins ask for a full version of a plugin alone, and
\* no two of them for the same plugin (the primary key of the groups).
LEMMA EssentialRequests ==
  ASSUME EssentialsFit, NEW view, Issued(view),
         NEW pg \in discoverSpecificPluginGroups(view, {EssentialGroup}, Latest)
  PROVE  /\ \A r \in MandatoryOf(pg) : \E p : AsksFor(r, p)
         /\ \A q, r \in MandatoryOf(pg) : \A p : AsksFor(q, p) /\ AsksFor(r, p) => q = r
<1> DEFINE v == pg.recommended
<1>1. pg.group = EssentialGroup /\ \E i : Discloses(pg, view, v, i)
  BY GroupIsTold, RecommendedGroup
<1>2. PICK i : Discloses(pg, view, v, i)
  BY <1>1
<1> DEFINE db == view[SourceSeq[i]]
           X == {x \in MemberRows(db, EssentialGroup, v) : x.mandatory}
           Ask(x) == [name |-> NameOf[x.plugin], target |-> TargetOf[x.plugin], version |-> x.pversion]
<1>3. db \in Inventories
  <2>1. PICK x \in MemberRows(db, pg.group, v) : TRUE
    BY <1>2 DEF Discloses
  <2>2. db # EmptyDB
    BY <2>1 DEF EmptyDB, MemberRows
  <2> QED BY <1>2, <2>2 DEF Discloses, Issued
<1>4. \A x \in X : /\ x \in db.groups /\ x.group = EssentialGroup /\ x.version = v
                   /\ Alone(x.plugin) /\ x.pversion \in Nat \X Nat
  BY <1>3 DEF EssentialsFit, AllMembers, MemberRows
<1>5. \A r \in MandatoryOf(pg) : \E x \in X : r = Ask(x)
  <2>1. pg.versions[v] = Told(db, EssentialGroup, v)
    BY <1>1, <1>2 DEF Discloses
  <2>2. MandatoryOf(pg)
          = {[name |-> NameOf[m.plugin], target |-> TargetOf[m.plugin], version |-> m.version] :
               m \in {y \in Told(db, EssentialGroup, v) : y.mandatory}}
    BY <2>1 DEF MandatoryOf
  <2> SUFFICES ASSUME NEW m \in Told(db, EssentialGroup, v), m.mandatory
               PROVE  \E x \in X : [name |-> NameOf[m.plugin], target |-> TargetOf[m.plugin],
                                    version |-> m.version] = Ask(x)
    BY <2>2
  <2>3. PICK x \in MemberRows(db, EssentialGroup, v) :
          m = [plugin |-> x.plugin, version |-> x.pversion, mandatory |-> x.mandatory]
    BY DEF Told
  <2>4. m.plugin = x.plugin /\ m.version = x.pversion /\ m.mandatory = x.mandatory
    BY <2>3
  <2>5. x \in X
    BY <2>3, <2>4
  <2> QED BY <2>4, <2>5
<1> HIDE DEF X, db, v
<1>6. \A x : Ask(x).name = NameOf[x.plugin] /\ Ask(x).target = TargetOf[x.plugin] /\ Ask(x).version = x.pversion
  OBVIOUS
<1> HIDE DEF Ask
<1>7. ASSUME NEW r \in MandatoryOf(pg) PROVE \E p : AsksFor(r, p)
  <2>1. PICK x \in X : r = Ask(x)
    BY <1>5
  <2>2. AsksFor(r, x.plugin)
    BY <1>4, <1>6, <2>1 DEF AsksFor
  <2> QED BY <2>2
<1>8. ASSUME NEW q \in MandatoryOf(pg), NEW r \in MandatoryOf(pg), NEW p, AsksFor(q, p), AsksFor(r, p)
      PROVE  q = r
  <2>1. PICK x \in X : q = Ask(x)
    BY <1>5
  <2>2. PICK y \in X : r = Ask(y)
    BY <1>5
  <2>3. x.plugin = p /\ y.plugin = p
    <3>1. p \in Plugins /\ x.plugin \in Plugins /\ y.plugin \in Plugins
      BY <1>4, <1>8 DEF AsksFor, Alone
    <3>2. /\ NameOf[p] = NameOf[x.plugin] /\ TargetOf[p] = TargetOf[x.plugin]
          /\ NameOf[p] = NameOf[y.plugin] /\ TargetOf[p] = TargetOf[y.plugin]
      BY <1>6, <1>8, <2>1, <2>2 DEF AsksFor
    <3> QED BY <3>1, <3>2, PluginManagerAssumption
  <2>4. x = y
    BY <1>3, <1>4, <2>3, PluginManagerAssumption
  <2> QED BY <2>1, <2>2, <2>4
<1> QED BY <1>7, <1>8

Settled(r) == InstalledExactly(r) /\ ~Outdated(r)

LEMMA SettledAlone ==
  ASSUME NEW r, NEW p, AsksFor(r, p)
  PROVE  /\ Settled(r) <=> installed[p] # None /\ installed[p].version = r.version
         /\ Settled(r)' <=> installed'[p] # None /\ installed'[p].version = r.version
<1>1. /\ InstalledAs(r) = IF installed[p] # None THEN {p} ELSE {}
      /\ InstalledAs(r)' = IF installed'[p] # None THEN {p} ELSE {}
  <2>1. \A q \in Plugins : NameOf[q] = r.name /\ TargetOf[q] = r.target <=> q = p
    BY PluginManagerAssumption DEF AsksFor, Alone
  <2>2. p \in Plugins
    BY DEF AsksFor, Alone
  <2> QED BY <2>1, <2>2 DEF InstalledAs
<1>2. Padded(r.version) = r.version
  <2>1. r.version = <<r.version[1], r.version[2]>>
    BY DEF AsksFor
  <2>2. Len(r.version) = 2
    BY <2>1
  <2> QED BY <2>2 DEF Padded
<1>3. ~IsNewVersion(r.version, r.version)
  BY NewerOrder DEF AsksFor
<1> QED BY <1>1, <1>2, <1>3 DEF Settled, InstalledExactly, Outdated

\* The fields of a command that installs plugins, and the command that is chosen.
Shaped ==
  /\ "pc" \in DOMAIN cmd
  /\ cmd.pc = "body" => cmd.op \in Ops
  /\ cmd.pc \in {"installing", "contexts"} =>
       {"phase", "failed", "contexts", "start"} \subseteq DOMAIN cmd /\ cmd.failed \in BOOLEAN
  /\ cmd.pc = "installing" => "todo" \in DOMAIN cmd
  /\ cmd.pc = "contexts" \/ (cmd.pc = "installing" /\ cmd.contexts # {}) => cmd.phase \in {"use", "sync"}

\* The essential plugins are being installed.
InEssentials == cmd.pc = "installing" /\ cmd.phase = "essentials"

\* What the steps may do to a command, and the parts that they may end.
EssentialsMove ==
  /\ InEssentials' => CheckEssentials \/ InstallNext \/ UNCHANGED <<cmd, installed>>
  /\ last' = None \/ last'.kind # "essentials" \/ (InEssentials /\ InstallsDone) \/ InstallNext

LEMMA InstallShape ==
  ASSUME NEW phase, NEW todo, NEW failed, failed \in BOOLEAN, NEW contexts, NEW start,
         contexts # {} => phase \in {"use", "sync"},
         Install(phase, todo, failed, contexts, start)
  PROVE  /\ Shaped' /\ last' = None
         /\ cmd'.pc = "installing" /\ cmd'.phase = phase /\ cmd'.todo = todo
         /\ cmd'.failed = failed /\ cmd'.contexts = contexts /\ cmd'.start = start
<1>1. cmd' = [pc |-> "installing", phase |-> phase, todo |-> todo,
              failed |-> failed, contexts |-> contexts, start |-> start] /\ last' = None
  BY DEF Install
<1>2. /\ cmd'.pc = "installing" /\ cmd'.phase = phase /\ cmd'.todo = todo
      /\ cmd'.failed = failed /\ cmd'.contexts = contexts /\ cmd'.start = start
      /\ DOMAIN cmd' = {"pc", "phase", "todo", "failed", "contexts", "start"}
  BY <1>1
<1> QED BY <1>1, <1>2 DEF Shaped

LEMMA EndShape ==
  ASSUME NEW kind, NEW ok, NEW start, End(kind, ok, start)
  PROVE  /\ Shaped' /\ cmd'.pc = "idle"
         /\ last'.kind = kind /\ last'.ok = ok /\ last'.start = start
<1>1. cmd' = [pc |-> "idle"] /\ last' = [kind |-> kind, ok |-> ok, start |-> start]
  BY DEF End, Finished, Idle
<1>2. cmd'.pc = "idle" /\ "pc" \in DOMAIN cmd'
      /\ last'.kind = kind /\ last'.ok = ok /\ last'.start = start
  BY <1>1
<1> QED BY <1>2 DEF Shaped

\* Sync starts with the first context, unless there is none.
LEMMA SyncShape ==
  ASSUME NEW contexts, Sync(contexts), cmd.op.kind \in {"use", "sync"}
  PROVE  /\ Shaped'
         /\ \/ End("none", TRUE, None)
            \/ /\ last' = None /\ cmd'.pc = "contexts" /\ cmd'.phase = cmd.op.kind
               /\ ~cmd'.failed /\ cmd'.contexts = contexts /\ cmd'.start = cache
<1>1. CASE contexts = {}
  <2>1. End("none", TRUE, None)
    BY <1>1 DEF Sync
  <2> QED BY <2>1, EndShape
<1>2. CASE contexts # {}
  <2>1. cmd' = [pc |-> "contexts", phase |-> cmd.op.kind, failed |-> FALSE,
                contexts |-> contexts, start |-> cache] /\ last' = None
    BY <1>2 DEF Sync
  <2>2. /\ cmd'.pc = "contexts" /\ cmd'.phase = cmd.op.kind
        /\ cmd'.contexts = contexts /\ cmd'.start = cache
        /\ DOMAIN cmd' = {"pc", "phase", "failed", "contexts", "start"}
    BY <2>1
  <2>3. ~cmd'.failed /\ cmd'.failed \in BOOLEAN
    BY <2>1
  <2> QED BY <2>1, <2>2, <2>3 DEF Shaped
<1> QED BY <1>1, <1>2

LEMMA CommandShape ==
  ASSUME ToCommand PROVE Shaped' /\ cmd'.pc = "command" /\ last' = None
  BY DEF ToCommand, Shaped

LEMMA ShapeStep == ASSUME Shaped, Next PROVE Shaped' /\ EssentialsMove
<1> USE DEF EssentialsMove, InEssentials
<1>1. CASE Start
  BY <1>1 DEF Start, Shaped
<1>2. ASSUME NEW op \in Ops, Begin(op) PROVE Shaped' /\ EssentialsMove
  BY <1>2 DEF Begin, Shaped
<1>3. CASE RefreshDatabase
  BY <1>3 DEF RefreshDatabase, Shaped
<1>4. CASE CheckEssentials
  <2>1. CASE ToCommand
    BY <2>1, CommandShape
  <2>2. ASSUME NEW todo, NEW start, Install("essentials", todo, FALSE, {}, start)
        PROVE  Shaped' /\ last' = None
    BY <2>2, InstallShape
  <2> QED BY <1>4, <2>1, <2>2 DEF CheckEssentials
<1>5. CASE InstallNext
  <2>1. PICK r \in cmd.todo : cmd' = [cmd EXCEPT !.todo = @ \ {r}, !.failed = @ \/ ~last'.ok]
    BY <1>5 DEF InstallNext
  <2> QED BY <1>5, <2>1 DEF InstallNext, Shaped
<1>6. CASE InstallsDone
  <2>1. CASE cmd.phase = "essentials"
    <3>1. cmd' = [pc |-> "command"]
      BY <1>6, <2>1 DEF InstallsDone
    <3>2. Shaped' /\ cmd'.pc = "command"
      BY <3>1 DEF Shaped
    <3> QED BY <1>6, <2>1, <3>2 DEF InstallsDone
  <2>2. CASE cmd.phase # "essentials" /\ cmd.contexts # {}
    <3>1. cmd' = [cmd EXCEPT !.pc = "contexts"] /\ last' = None /\ cmd.pc = "installing"
      BY <1>6, <2>2 DEF InstallsDone
    <3> QED BY <3>1, <2>2 DEF Shaped
  <2>3. CASE cmd.phase # "essentials" /\ ~(cmd.contexts # {})
    <3>1. End(cmd.phase, ~cmd.failed, cmd.start)
      BY <1>6, <2>3 DEF InstallsDone
    <3> QED BY <2>3, <3>1, EndShape
  <2> QED BY <2>1, <2>2, <2>3
<1>7. CASE InstallOne \/ Upgrade
  <2>1. End("one", FALSE, None) \/ Install("one", {cmd.op.request}, FALSE, {}, None)
    BY <1>7 DEF InstallOne, Upgrade
  <2>2. CASE End("one", FALSE, None)
    BY <2>2, EndShape
  <2>3. CASE Install("one", {cmd.op.request}, FALSE, {}, None)
    BY <2>3, InstallShape
  <2> QED BY <2>1, <2>2, <2>3
<1>8. CASE InstallGroup
  <2>1. CASE End("group", FALSE, None)
    BY <2>1, EndShape
  <2>2. ASSUME NEW todo, Install("group", todo, FALSE, {}, None) PROVE Shaped' /\ EssentialsMove
    BY <2>2, InstallShape
  <2> QED BY <1>8, <2>1, <2>2 DEF InstallGroup
<1>9. CASE InstallLocal
  BY <1>9 DEF InstallLocal, Shaped
<1>10. CASE InstallLocalNext
  BY <1>10 DEF InstallLocalNext, Shaped
<1>11. CASE \/ InstallLocalDone \/ Uninstall \/ Clean \/ Search \/ GroupSearch
            \/ CompletePlugins \/ Other \/ UnsetContext
  <2>1. \E kind \in {"local", "uninstall", "clean", "search", "group search", "complete", "other", "unset"} :
          \E ok : End(kind, ok, None)
    BY <1>11 DEF InstallLocalDone, Uninstall, Clean, Search, GroupSearch, CompletePlugins, Other, UnsetContext
  <2> QED BY <2>1, EndShape
<1>12. CASE UseContext \/ SyncPlugins
  <2>1. PICK contexts : Sync(contexts)
    BY <1>12 DEF UseContext, SyncPlugins
  <2>2. cmd.op.kind \in {"use", "sync"}
    BY <1>12 DEF UseContext, SyncPlugins, Body
  <2>3. CASE End("none", TRUE, None)
    BY <2>3, EndShape
  <2>4. Shaped' /\ (End("none", TRUE, None) \/ (last' = None /\ cmd'.pc = "contexts"))
    BY <2>1, <2>2, SyncShape
  <2> QED BY <2>3, <2>4
<1>13. CASE SyncContext
  <2>1. PICK todo, failed, contexts, start : Install(cmd.phase, todo, failed, contexts, start) /\ failed \in BOOLEAN
    BY <1>13 DEF SyncContext
  <2>2. cmd.phase \in {"use", "sync"}
    BY <1>13 DEF SyncContext, Shaped
  <2> QED BY <2>1, <2>2, InstallShape
<1>14. CASE \E s \in Sources : Publish(s)
  BY <1>14 DEF Publish, Shaped
<1> QED BY <1>1, <1>2, <1>3, <1>4, <1>5, <1>6, <1>7, <1>8, <1>9, <1>10, <1>11, <1>12, <1>13,
           <1>14 DEF Next

\* While the essential plugins are installed without an error, those of the group that are
\* not left to do are settled.
EssentialsSoFar ==
  InEssentials =>
    /\ Stocked(cmd.start)
    /\ \A pg \in discoverSpecificPluginGroups(Databases(cmd.start), {EssentialGroup}, Latest) :
         /\ cmd.todo \subseteq MandatoryOf(pg)
         /\ ~cmd.failed => \A r \in MandatoryOf(pg) \ cmd.todo : Settled(r)

LEMMA EssentialsStep ==
  ASSUME EssentialsFit, Known, Shaped, EssentialsSoFar, Next PROVE EssentialsSoFar'
<1>1. Shaped' /\ EssentialsMove
  BY ShapeStep
<1> DEFINE Groups(seen) == discoverSpecificPluginGroups(Databases(seen), {EssentialGroup}, Latest)
<1>2. SUFFICES ASSUME InEssentials'
      PROVE  /\ Stocked(cmd'.start)
             /\ \A pg \in Groups(cmd'.start) :
                  /\ cmd'.todo \subseteq MandatoryOf(pg)
                  /\ ~cmd'.failed => \A r \in MandatoryOf(pg) \ cmd'.todo : Settled(r)'
  BY DEF EssentialsSoFar
<1> HIDE DEF Groups
<1>3. CASE CheckEssentials
  <2>1. PICK o : /\ Groups(Seen(o)) # {}
                 /\ Install("essentials", MandatoryOf(CHOOSE g \in Groups(Seen(o)) : TRUE), FALSE, {}, Seen(o))
    BY <1>2, <1>3, CommandShape DEF CheckEssentials, InEssentials, View, Groups
  <2>2. cmd'.start = Seen(o) /\ cmd'.todo = MandatoryOf(CHOOSE g \in Groups(Seen(o)) : TRUE)
    BY <2>1, InstallShape
  <2>3. \A pg \in Groups(Seen(o)) : pg = (CHOOSE g \in Groups(Seen(o)) : TRUE)
    <3>1. \A p, q \in Groups(Seen(o)) : p = q
      BY OneGroup DEF Groups
    <3> QED BY <3>1
  <2> QED BY <2>2, <2>3, SeenIsStocked
<1>4. CASE InstallNext
  <2>1. PICK r \in cmd.todo : /\ InstallStandalonePlugin(r)
                              /\ cmd' = [cmd EXCEPT !.todo = @ \ {r}, !.failed = @ \/ ~last'.ok]
    BY <1>4 DEF InstallNext
  <2>2. /\ cmd'.pc = cmd.pc /\ cmd'.phase = cmd.phase /\ cmd'.start = cmd.start
        /\ cmd'.todo = cmd.todo \ {r}
    BY <1>4, <2>1 DEF InstallNext, Shaped
  <2>3. cmd'.failed <=> cmd.failed \/ ~last'.ok
    BY <1>4, <2>1 DEF InstallNext, Shaped
  <2>4. /\ Stocked(cmd.start)
        /\ \A pg \in Groups(cmd.start) :
             /\ cmd.todo \subseteq MandatoryOf(pg)
             /\ ~cmd.failed => \A q \in MandatoryOf(pg) \ cmd.todo : Settled(q)
    BY <1>2, <2>2 DEF InEssentials, EssentialsSoFar, Groups
  <2>5. ASSUME NEW pg \in Groups(cmd.start), ~cmd'.failed, NEW q \in MandatoryOf(pg), q \notin cmd'.todo
        PROVE  Settled(q)'
    <3>1. last'.ok /\ ~cmd.failed
      BY <2>3, <2>5
    <3>2. Issued(Databases(cmd.start))
      BY <2>4, ReleasesAreIssued
    <3>3. r \in MandatoryOf(pg)
      BY <2>1, <2>4
    <3>4. /\ \A s \in MandatoryOf(pg) : \E p : AsksFor(s, p)
          /\ \A s, t \in MandatoryOf(pg) : \A p : AsksFor(s, p) /\ AsksFor(t, p) => s = t
      BY <3>2, EssentialRequests DEF Groups
    <3>5. PICK p : AsksFor(r, p)
      BY <3>3, <3>4
    <3>6. PICK p2 : AsksFor(q, p2)
      BY <3>4
    <3>7. /\ installed'[p] # None /\ installed'[p].version = r.version
          /\ \A s : Alone(s) /\ s # p => installed'[s] = installed[s]
      BY <2>1, <3>1, <3>5, AloneInstalls
    <3>8. CASE q = r
      BY <3>5, <3>7, <3>8, SettledAlone
    <3>9. CASE q # r
      <4>1. Settled(q) /\ p2 # p
        BY <2>2, <2>4, <2>5, <3>1, <3>3, <3>4, <3>5, <3>6, <3>9
      <4>2. installed'[p2] = installed[p2]
        BY <3>6, <3>7, <4>1 DEF AsksFor
      <4> QED BY <3>6, <4>1, <4>2, SettledAlone
    <3> QED BY <3>8, <3>9
  <2> QED BY <2>2, <2>4, <2>5
<1>5. CASE UNCHANGED <<cmd, installed>>
  <2>1. InEssentials
    BY <1>2, <1>5 DEF InEssentials
  <2>2. \A r : Settled(r) => Settled(r)'
    BY <1>5 DEF Settled, InstalledExactly, Outdated, InstalledAs
  <2> QED BY <1>5, <2>1, <2>2 DEF EssentialsSoFar, Groups
<1> QED BY <1>1, <1>2, <1>3, <1>4, <1>5 DEF EssentialsMove

\* InstallsDone ends the installation of the essential plugins; no other step says so.
LEMMA EssentialsEnd ==
  ASSUME Known, Shaped, EssentialsSoFar, Next PROVE EssentialsSettle'
<1>1. SUFFICES ASSUME last' # None, last'.kind = "essentials", last'.ok, last'.start = cache'
      PROVE  ~EssentialsNeeded'
  BY DEF EssentialsSettle
<1>2. ~InstallNext
  BY <1>1, FailureInstallsNothing DEF InstallNext
<1>3. InEssentials /\ InstallsDone
  BY <1>1, <1>2, ShapeStep DEF EssentialsMove
<1>4. /\ cmd.todo = {} /\ UNCHANGED <<cache, installed>>
      /\ last' = [kind |-> "essentials", ok |-> ~cmd.failed, start |-> cmd.start]
  BY <1>3 DEF InstallsDone, InEssentials, Finished
<1>5. last'.start = cmd.start
  BY <1>4
<1>6. ~cmd.failed
  BY <1>1, <1>4
<1>7. \A pg \in discoverSpecificPluginGroups(Databases(cache), {EssentialGroup}, Latest) :
        \A r \in MandatoryOf(pg) : Settled(r)
  BY <1>1, <1>3, <1>4, <1>5, <1>6 DEF EssentialsSoFar
<1> QED BY <1>4, <1>7 DEF EssentialsNeeded, LocalView, Settled, InstalledExactly, Outdated, InstalledAs

\* When all essential plugins were installed without an error, the next command finds them
\* installed in the same cache (installEssentialPlugins, isAllPluginsFromGroupInstalled):
\* installing one plugin of the group takes none of the others away, for any number of
\* them, whatever the registries publish meanwhile.  This needs a group whose mandatory
\* plugins are named alone, each with a full version: a plugin without a target beside
\* another one of its name is ambiguous and supersedes it, and a short version never
\* equals the installed one.
THEOREM EssentialsAreSettled ==
  ASSUME EssentialsFit PROVE Spec => []EssentialsSettle
<1> DEFINE Inv == Known /\ Shaped /\ EssentialsSoFar /\ EssentialsSettle
<1>1. Init => Inv
  <2> SUFFICES ASSUME Init PROVE Inv
    OBVIOUS
  <2>1. Known
    BY PluginManagerAssumption DEF Init, Known
  <2>2. Shaped /\ EssentialsSoFar
    BY DEF Init, Shaped, Idle, EssentialsSoFar, InEssentials
  <2>3. EssentialsSettle
    BY DEF Init, EssentialsSettle
  <2> QED BY <2>1, <2>2, <2>3
<1>2. Inv /\ [Next]_vars => Inv'
  <2> SUFFICES ASSUME Known, Shaped, EssentialsSoFar, EssentialsSettle, [Next]_vars
               PROVE  Known' /\ Shaped' /\ EssentialsSoFar' /\ EssentialsSettle'
    OBVIOUS
  <2>1. Known'
    BY KnownStep
  <2>2. CASE UNCHANGED vars
    <3>1. Shaped' /\ EssentialsSettle'
      BY <2>2 DEF vars, Shaped, EssentialsSettle, EssentialsNeeded, LocalView, InstalledExactly, Outdated, InstalledAs
    <3>2. EssentialsSoFar'
      BY <2>2 DEF vars, EssentialsSoFar, InEssentials, Settled, InstalledExactly, Outdated, InstalledAs
    <3> QED BY <2>1, <3>1, <3>2
  <2>3. CASE Next
    BY <2>1, <2>3, ShapeStep, EssentialsStep, EssentialsEnd
  <2> QED BY <2>2, <2>3
<1>3. Inv => EssentialsSettle
  OBVIOUS
<1> QED BY <1>1, <1>2, <1>3, PTL DEF Spec

-----------------------------------------------------------------------------
(* What contexts recommend *)

\* A recommended version, full or short.
Short == {v \in Seq(Nat) : Len(v) \in 1..2}

LEMMA ShortVersions ==
  /\ \A v \in Short : v # Latest /\ Padded(v) \in Nat \X Nat
  /\ \A v \in Nat \X Nat : v \in Short
<1>0. ASSUME NEW w \in Seq(Nat), Len(w) = 2 PROVE w \in Nat \X Nat
  <2>1. w = <<w[1], w[2]>> /\ w[1] \in Nat /\ w[2] \in Nat
    BY <1>0
  <2> QED BY <2>1
<1>1. ASSUME NEW v \in Short PROVE v # Latest /\ Padded(v) \in Nat \X Nat
  <2>1. v \in Seq(Nat) /\ Len(v) \in 1..2 /\ v[1] \in Nat
    BY DEF Short
  <2>2. v # Latest
    <3>1. Latest[1] = -1 /\ -1 \notin Nat
      BY DEF Latest
    <3> QED BY <2>1, <3>1
  <2>3. CASE Len(v) = 1
    <3>1. Append(v, 0) \in Seq(Nat)
      BY <2>1
    <3>2. Len(Append(v, 0)) = Len(v) + 1
      BY <2>1
    <3> DEFINE w == Append(v, 0)
    <3>3. w \in Seq(Nat) /\ Len(w) = 2 /\ Padded(v) = w
      BY <2>3, <3>1, <3>2 DEF Padded
    <3> HIDE DEF w
    <3>4. w \in Nat \X Nat
      BY <1>0, <3>3
    <3> QED BY <2>2, <3>3, <3>4
  <2>4. CASE Len(v) = 2
    BY <1>0, <2>1, <2>2, <2>4 DEF Padded
  <2> QED BY <2>1, <2>3, <2>4
<1>2. ASSUME NEW v \in Nat \X Nat PROVE v \in Short
  <2>1. v = <<v[1], v[2]>> /\ v[1] \in Nat /\ v[2] \in Nat
    OBVIOUS
  <2>2. \A a, b \in Nat : <<a, b>> \in Seq(Nat) /\ Len(<<a, b>>) = 2
    OBVIOUS
  <2>3. v \in Seq(Nat) /\ Len(v) = 2
    BY <2>1, <2>2
  <2> QED BY <2>3 DEF Short
<1> QED BY <1>1, <1>2

\* The local cache has an active row of plugin p that version v allows.
Stores(p, v) ==
  \E i \in Answering(LocalView) : \E x \in LocalView[SourceSeq[i]].plugins :
     x.plugin = p /\ ~x.hidden /\ IsPrefix(v, x.version)

\* getMatchingRecommendedVersionOfPlugin: the version stays, or becomes a full one; for a
\* plugin that is alone it becomes a full one when the cache has one that it allows.
LEMMA ResolvedVersion ==
  ASSUME Known, NEW r, r.version \in Short
  PROVE  /\ Resolved(r) \in AllVersions \cup {r.version}
         /\ Alone(r.plugin) /\ Stores(r.plugin, Resolved(r)) => Resolved(r) \in AllVersions
<1> DEFINE L == AllOf(LocalView, NameOf[r.plugin], TargetOf[r.plugin], r.version)
           M == mergeDuplicatePlugins(L)
<1>1. Resolved(r) = IF Cardinality(M) = 1 THEN (CHOOSE e \in M : TRUE).recommended ELSE r.version
  BY DEF Resolved, DiscoverStandalonePlugins, AllOf
<1>2. Readable(LocalView) /\ r.version # Latest
  BY LocalIsIssued, ShortVersions
<1>3. \A e \in L : e.plugin \in Named(NameOf[r.plugin], TargetOf[r.plugin])
                   /\ e.versions \subseteq AllVersions /\ e.versions # {}
  BY <1>2, AllOfTellsAll
<1>4. \A i \in Answering(LocalView) : \A x \in LocalView[SourceSeq[i]].plugins :
        x.plugin \in Named(NameOf[r.plugin], TargetOf[r.plugin]) /\ ~x.hidden /\ IsPrefix(r.version, x.version)
          => \E e \in L : e.plugin = x.plugin
  BY <1>2, AllOfTellsAll
<1> HIDE DEF L
<1>5. \A e \in L : e.plugin \in Plugins
  BY <1>3 DEF Named
<1>6. /\ M = {Merged(OfKey(L, k)) : k \in Keys(L)} /\ IsFiniteSet(M)
      /\ \A k \in Keys(L) : OfKey(L, k) # {}
  BY <1>5, OneOfEachKey
<1>7. ASSUME Cardinality(M) = 1 PROVE Resolved(r) \in AllVersions
  <2>1. PICK m : M = {m}
    <3> HIDE DEF M
    <3> QED BY <1>6, <1>7, FS_Singleton
  <2>2. PICK k \in Keys(L) : m = Merged(OfKey(L, k))
    BY <1>6, <2>1
  <2> DEFINE versions == UNION {e.versions : e \in OfKey(L, k)}
  <2>3. versions \in SUBSET AllVersions /\ versions # {}
    BY <1>3, <1>6 DEF OfKey
  <2>4. m.recommended = Newest(versions)
    BY <2>2 DEF Merged
  <2>5. Newest(versions) \in AllVersions
    <3> HIDE DEF versions
    <3> QED BY <2>3, NewestIsNewest
  <2>6. Resolved(r) = m.recommended
    BY <1>1, <1>7, <2>1
  <2> QED BY <2>4, <2>5, <2>6
<1>8. ASSUME Alone(r.plugin), Stores(r.plugin, Resolved(r)), Cardinality(M) # 1 PROVE FALSE
  <2>1. Resolved(r) = r.version /\ Named(NameOf[r.plugin], TargetOf[r.plugin]) = {r.plugin}
    BY <1>1, <1>8 DEF Alone
  <2>2. PICK e \in L : e.plugin = r.plugin
    BY <1>4, <1>8, <2>1 DEF Stores
  <2>3. Keys(L) = {MergeKey(r.plugin)}
    BY <1>3, <2>1, <2>2 DEF Keys
  <2>4. M = {Merged(OfKey(L, MergeKey(r.plugin)))}
    BY <1>6, <2>3
  <2> HIDE DEF M
  <2> QED BY <1>8, <2>4, FS_Singleton
<1>9. CASE Cardinality(M) = 1
  BY <1>7, <1>9
<1>10. CASE Cardinality(M) # 1
  BY <1>1, <1>8, <1>10
<1> QED BY <1>9, <1>10

\* The newest of finitely many recommendations of a plugin.
LEMMA NewestRecommendation ==
  ASSUME NEW recs, IsFiniteSet(recs), \A r \in recs : Padded(r.version) \in Nat \X Nat,
         NEW p \in {r.plugin : r \in recs}
  PROVE  \E r \in recs : /\ r.plugin = p
                         /\ \A q \in recs : q.plugin = p =>
                              ~IsNewVersion(Padded(q.version), Padded(r.version))
<1> DEFINE mine == {r \in recs : r.plugin = p}
           f == [r \in recs |-> Padded(r.version)]
           V == {f[r] : r \in mine}
<1>1. IsFiniteSet(mine) /\ mine # {}
  BY FS_Subset
<1>2. V \in SUBSET (Nat \X Nat) /\ V # {}
  BY <1>1
<1>3. IsFiniteSet(V)
  <2> HIDE DEF f, mine
  <2> QED BY <1>1, FiniteImage
<1>4. HasNewest(V)
  <2> HIDE DEF V
  <2> QED BY <1>2, <1>3, SomeIsNewest
<1>5. PICK v \in V : \A w \in V \ {v} : IsNewVersion(v, w)
  BY <1>4 DEF HasNewest
<1>6. PICK r \in recs : r.plugin = p /\ Padded(r.version) = v
  BY <1>5
<1>7. ASSUME NEW q \in recs, q.plugin = p PROVE ~IsNewVersion(Padded(q.version), Padded(r.version))
  <2>1. Padded(q.version) \in V
    BY <1>7
  <2>2. Padded(q.version) \in Nat \X Nat /\ v \in Nat \X Nat
    BY <1>2, <1>5, <2>1
  <2> HIDE DEF V
  <2> QED BY <1>5, <1>6, <2>1, <2>2, NewerOrder
<1> QED BY <1>6, <1>7

\* A recommendation with its version resolved.
Resolution(q) == [q EXCEPT !.version = Resolved(q)]

\* A recommendation has a target, so that its name and target allow no other plugin.
LEMMA AssociatedAre ==
  ASSUME NEW c \in Contexts
  PROVE  /\ IsFiniteSet(Associated(c))
         /\ \A q \in Associated(c) : q \in [plugin : Plugins, version : Short] /\ Alone(q.plugin)
<1> DEFINE With(r) == [r EXCEPT !.plugin = CHOOSE p \in Plugins :
                         NameOf[p] = NameOf[r.plugin] /\ TargetOf[p] = ContextTarget(c)]
           f == [r \in Recommended[c] |-> IF TargetOf[r.plugin] # Unknown THEN r ELSE With(r)]
           T == {f[r] : r \in Recommended[c]}
<1>1. Associated(c) = T
  BY DEF Associated
<1>2. IsFiniteSet(T)
  <2>1. IsFiniteSet(Recommended[c])
    BY PluginManagerAssumption
  <2> HIDE DEF f
  <2> QED BY <2>1, FiniteImage
<1>3. \A p \in Plugins : TargetOf[p] # Unknown => Alone(p)
  BY PluginManagerAssumption DEF Alone, Named
<1>4. ASSUME NEW r \in Recommended[c]
      PROVE  f[r] \in [plugin : Plugins, version : Short] /\ Alone(f[r].plugin)
  <2>1. r \in [plugin : Plugins, version : Short]
    BY PluginManagerAssumption DEF Short
  <2>2. CASE TargetOf[r.plugin] # Unknown
    BY <1>3, <2>1, <2>2
  <2>3. CASE TargetOf[r.plugin] = Unknown
    <3> DEFINE p == CHOOSE p \in Plugins : NameOf[p] = NameOf[r.plugin] /\ TargetOf[p] = ContextTarget(c)
    <3>1. p \in Plugins /\ TargetOf[p] = ContextTarget(c)
      BY <2>3, PluginManagerAssumption
    <3>2. ContextTarget(c) # Unknown
      BY PluginManagerAssumption DEF ContextTarget
    <3>3. f[r] = [r EXCEPT !.plugin = p]
      BY <2>3
    <3> HIDE DEF p, f
    <3> QED BY <1>3, <2>1, <3>1, <3>2, <3>3
  <2> QED BY <2>2, <2>3
<1> HIDE DEF f
<1> QED BY <1>1, <1>2, <1>4

\* discoverServerPluginsForGivenContexts: of each plugin, one of the recommendations.
LEMMA ServerPluginsAre ==
  ASSUME Known, NEW c \in Contexts
  PROVE  /\ \A x \in ServerPlugins(Associated(c)) :
              \E q \in Associated(c) : q.plugin = x.plugin /\ x = Resolution(q)
         /\ \A x, y \in ServerPlugins(Associated(c)) : x.plugin = y.plugin => x = y
<1> DEFINE recs == {Resolution(q) : q \in Associated(c)}
           Kept(p) == CHOOSE r \in recs : /\ r.plugin = p
                         /\ \A q \in recs : q.plugin = p =>
                              ~IsNewVersion(Padded(q.version), Padded(r.version))
<1>1. ServerPlugins(Associated(c)) = {Kept(p) : p \in {r.plugin : r \in recs}}
  BY DEF ServerPlugins, NewestOnly, Resolution
<1>2. IsFiniteSet(Associated(c)) /\ \A q \in Associated(c) : q \in [plugin : Plugins, version : Short]
  BY AssociatedAre
<1>3. ASSUME NEW q \in Associated(c)
      PROVE  /\ Resolution(q).plugin = q.plugin /\ Resolution(q).version = Resolved(q)
             /\ Padded(Resolution(q).version) \in Nat \X Nat
  <2>1. q \in [plugin : Plugins, version : Short]
    BY <1>2
  <2>2. Resolution(q).plugin = q.plugin /\ Resolution(q).version = Resolved(q) /\ q.version \in Short
    BY <2>1 DEF Resolution
  <2>3. Resolved(q) \in Short
    BY <2>2, ResolvedVersion, VersionsFinite, ShortVersions
  <2> QED BY <2>2, <2>3, ShortVersions
<1>4. IsFiniteSet(recs)
  <2> DEFINE f == [q \in Associated(c) |-> Resolution(q)]
             T == {f[q] : q \in Associated(c)}
  <2>1. recs = T
    OBVIOUS
  <2>2. IsFiniteSet(T)
    <3> HIDE DEF f
    <3> QED BY <1>2, FiniteImage
  <2> QED BY <2>1, <2>2
<1>5. \A r \in recs : Padded(r.version) \in Nat \X Nat
  BY <1>3
<1>6. \A x \in recs : \E q \in Associated(c) : q.plugin = x.plugin /\ x = Resolution(q)
  BY <1>3
<1> HIDE DEF recs
<1>7. ASSUME NEW p \in {r.plugin : r \in recs} PROVE Kept(p) \in recs /\ Kept(p).plugin = p
  <2>1. \E r \in recs : /\ r.plugin = p
                        /\ \A q \in recs : q.plugin = p =>
                             ~IsNewVersion(Padded(q.version), Padded(r.version))
    BY <1>4, <1>5, NewestRecommendation
  <2> QED BY <2>1
<1> HIDE DEF Kept
<1> QED BY <1>1, <1>6, <1>7

-----------------------------------------------------------------------------
(* Synchronization *)


\* A cache is never ahead of its registry; what is not a local build was installed in the
\* version that was recommended; active contexts exist.
Behind == \A s \in Sources : cache[s] <= rel[s]
OwnVersion == \A p \in Plugins : installed[p] # None /\ installed[p].content # "local" =>
                installed[p].discovered = installed[p].version
Existing == active \subseteq Contexts

LEMMA FetchedIsLater ==
  ASSUME Known, Behind, NEW o
  PROVE  \A s \in Sources : cache[s] <= Fetched(o)[s] /\ Fetched(o)[s] <= rel[s]
  BY DEF Known, Behind, Fetched

LEMMA BehindStep == ASSUME Known, Behind, [Next]_vars PROVE Behind'
<1>1. CASE UNCHANGED rel /\ \E o : cache' = Fetched(o)
  BY <1>1, FetchedIsLater DEF Behind
<1>2. CASE UNCHANGED rel /\ cache' = [s \in Sources |-> 0]
  BY <1>2 DEF Behind, Known
<1>3. CASE UNCHANGED rel /\ UNCHANGED cache
  BY <1>3 DEF Behind
<1>4. ASSUME NEW s \in Sources, Publish(s) PROVE Behind'
  BY <1>4 DEF Publish, Behind, Known
<1> QED BY <1>1, <1>2, <1>3, <1>4, CacheSteps

LEMMA OwnVersionStep == ASSUME Known, OwnVersion, [Next]_vars PROVE OwnVersion'
<1>1. ASSUME \A p \in Plugins : installed'[p] \in {None, installed[p]} PROVE OwnVersion'
  BY <1>1 DEF OwnVersion
<1>2. ASSUME NEW p, NEW v, NEW c, NEW d, c = "local" \/ v = d,
             installed' = Upserted(installed, p, [version |-> v, content |-> c, discovered |-> d])
      PROVE  OwnVersion'
  <2> DEFINE entry == [version |-> v, content |-> c, discovered |-> d]
  <2>1. entry.version = v /\ entry.content = c /\ entry.discovered = d
    OBVIOUS
  <2>2. installed' = Upserted(installed, p, entry)
    BY <1>2
  <2> HIDE DEF entry
  <2> SUFFICES ASSUME NEW q \in Plugins, installed'[q] # None, installed'[q].content # "local"
               PROVE  installed'[q].discovered = installed'[q].version
    BY DEF OwnVersion
  <2>3. installed'[q] = entry \/ installed'[q] = installed[q]
    BY <2>2 DEF Upserted
  <2> QED BY <1>2, <2>1, <2>3 DEF OwnVersion
<1>3. CASE InstallNext
  <2>1. PICK r \in cmd.todo : InstallStandalonePlugin(r)
    BY <1>3 DEF InstallNext
  <2>2. PICK o, late : InstallEnds(r, o, late)
    BY <2>1, InstallOutcome
  <2>3. CASE ~last'.ok
    BY <1>1, <2>2, <2>3 DEF InstallEnds
  <2>4. CASE last'.ok
    <3>1. PICK v, c : Registered(last'.plugin, v, c)
      BY <2>2, <2>4 DEF InstallEnds
    <3> QED BY <1>2, <3>1 DEF Registered
  <2> QED BY <2>3, <2>4
<1>4. CASE InstallLocalNext
  <2>1. PICK e, v, content : /\ content \in {None, "local"}
                             /\ installed' = Installation(e, v, content).installed
    BY <1>4 DEF InstallLocalNext
  <2>2. CASE content = None
    BY <1>1, <2>1, <2>2 DEF Installation
  <2>3. CASE content # None
    <3>1. installed' = Upserted(installed, e.plugin,
                         [version |-> v, content |-> content, discovered |-> e.recommended])
      BY <2>1, <2>3 DEF Installation
    <3> QED BY <1>2, <2>1, <2>3, <3>1
  <2> QED BY <2>2, <2>3
<1> QED BY <1>1, <1>3, <1>4, CatalogSteps

\* `context use` names a context.
RequestOps == {[kind |-> k, request |-> r] : k \in Kinds \cap {"install", "local", "uninstall"}, r \in Requests}
UpgradeOps == {[kind |-> "upgrade", request |-> [r EXCEPT !.version = Latest]] :
                 r \in {x \in Requests : "upgrade" \in Kinds /\ x.name # Unknown}}
GroupOps == {[kind |-> "group", request |-> r] : r \in {x \in GroupRequests : "group" \in Kinds}}
ContextOps == {[kind |-> k, context |-> c] : k \in Kinds \cap {"use", "unset"}, c \in Contexts}
OtherOps == {[kind |-> k] : k \in Kinds \cap {"sync", "clean", "search", "group search", "complete", "other"}}

LEMMA OpsAre == Ops = RequestOps \cup UpgradeOps \cup GroupOps \cup ContextOps \cup OtherOps
  BY SMTT(60) DEF Ops, RequestOps, UpgradeOps, GroupOps, ContextOps, OtherOps

LEMMA UsedContextExists ==
  ASSUME NEW op, op \in Ops, op.kind = "use" PROVE op.context \in Contexts
<1>1. Ops = RequestOps \cup UpgradeOps \cup GroupOps \cup ContextOps \cup OtherOps
  BY OpsAre
<1>2. \A x \in RequestOps : x.kind # "use"
  BY DEF RequestOps
<1>3. \A x \in UpgradeOps : x.kind # "use"
  BY DEF UpgradeOps
<1>4. \A x \in GroupOps : x.kind # "use"
  BY DEF GroupOps
<1>5. \A x \in ContextOps : x.context \in Contexts
  BY DEF ContextOps
<1>6. \A x \in OtherOps : x.kind # "use"
  <2> SUFFICES ASSUME NEW k \in {"sync", "clean", "search", "group search", "complete", "other"},
                      NEW x, x = [kind |-> k]
               PROVE  x.kind # "use"
    BY DEF OtherOps
  <2>1. x.kind = k
    OBVIOUS
  <2> QED BY <2>1
<1> QED BY <1>1, <1>2, <1>3, <1>4, <1>5, <1>6

LEMMA ExistingStep == ASSUME Shaped, Existing, [Next]_vars PROVE Existing'
<1>1. ASSUME UNCHANGED active PROVE Existing'
  BY <1>1 DEF Existing
<1>2. CASE UseContext
  <2>1. cmd.op \in Ops /\ cmd.op.kind = "use"
    BY <1>2 DEF UseContext, Body, Shaped
  <2>2. cmd.op.context \in Contexts
    BY <2>1, UsedContextExists
  <2> QED BY <1>2, <2>2 DEF UseContext, Existing
<1>3. CASE UnsetContext
  BY <1>3 DEF UnsetContext, Existing
<1>4. CASE Start \/ \E op \in Ops : Begin(op)
  BY <1>1, <1>4 DEF Start, Begin
<1>5. CASE RefreshDatabase \/ CheckEssentials \/ InstallsDone \/ InstallNext
  BY <1>1, <1>5 DEF RefreshDatabase, CheckEssentials, InstallsDone, InstallNext
<1>6. CASE InstallOne \/ Upgrade \/ InstallGroup \/ InstallLocal \/ InstallLocalDone \/ InstallLocalNext
  BY <1>1, <1>6 DEF InstallOne, Upgrade, InstallGroup, InstallLocal, InstallLocalDone, InstallLocalNext
<1>7. CASE Search \/ GroupSearch \/ CompletePlugins \/ Other \/ Uninstall \/ Clean
  BY <1>1, <1>7 DEF Search, GroupSearch, CompletePlugins, Other, Uninstall, Clean
<1>8. CASE SyncPlugins \/ SyncContext
  BY <1>1, <1>8 DEF SyncPlugins, SyncContext
<1>9. CASE (\E s \in Sources : Publish(s)) \/ UNCHANGED vars
  BY <1>1, <1>9 DEF Publish, vars
<1> QED BY <1>2, <1>3, <1>4, <1>5, <1>6, <1>7, <1>8, <1>9 DEF Next

\* The request for a recommended plugin, and when it has nothing left to do.
Request(x) == [name |-> NameOf[x.plugin], target |-> TargetOf[x.plugin], version |-> x.version]
Synced(x) == /\ installed[x.plugin] # None
             /\ installed[x.plugin].content # "local" => installed[x.plugin].version = x.version

InSync == cmd.pc \in {"installing", "contexts"} /\ cmd.phase = "sync" /\ cmd.start # None

\* The contexts that `plugin sync` is done with.
Handled == active \ cmd.contexts

\* While `plugin sync` runs without an error and the cache stays the one it started with,
\* what the handled contexts recommend is installed or left to do, and nothing else is.
SyncSoFar ==
  InSync =>
    /\ cmd.start \in [Sources -> Nat] /\ \A s \in Sources : cmd.start[s] <= cache[s]
    /\ cmd.contexts \subseteq active
    /\ cache = cmd.start /\ ContextsAgree =>
         /\ cmd.pc = "installing" =>
              \A r \in cmd.todo : \E c \in Handled : \E x \in ServerPlugins(Associated(c)) : r = Request(x)
         /\ ~cmd.failed => \A c \in Handled : \A x \in ServerPlugins(Associated(c)) :
              Synced(x) \/ (cmd.pc = "installing" /\ Request(x) \in cmd.todo)

\* What the steps may do to a synchronization, and which of them ends it.
SyncMove ==
  /\ InSync' => SyncPlugins \/ SyncContext \/ InstallNext \/ InstallsDone
                \/ UNCHANGED <<cache, installed, active, cmd>>
  /\ last' = None \/ last'.kind # "sync" \/ InstallsDone \/ InstallNext

LEMMA SyncMoves == ASSUME Shaped, Next PROVE SyncMove
<1> USE DEF SyncMove, InSync
<1>1. CASE Start \/ RefreshDatabase
  BY <1>1 DEF Start, RefreshDatabase, Shaped
<1>2. ASSUME NEW op \in Ops, Begin(op) PROVE SyncMove
  BY <1>2 DEF Begin
<1>3. CASE CheckEssentials
  <2>1. CASE ToCommand
    BY <2>1, CommandShape
  <2>2. ASSUME NEW todo, NEW start, Install("essentials", todo, FALSE, {}, start) PROVE SyncMove
    BY <2>2, InstallShape
  <2> QED BY <1>3, <2>1, <2>2 DEF CheckEssentials
<1>4. CASE InstallOne \/ Upgrade
  <2>1. End("one", FALSE, None) \/ Install("one", {cmd.op.request}, FALSE, {}, None)
    BY <1>4 DEF InstallOne, Upgrade
  <2>2. CASE End("one", FALSE, None)
    BY <2>2, EndShape
  <2>3. CASE Install("one", {cmd.op.request}, FALSE, {}, None)
    BY <2>3, InstallShape
  <2> QED BY <2>1, <2>2, <2>3
<1>5. CASE InstallGroup
  <2>1. CASE End("group", FALSE, None)
    BY <2>1, EndShape
  <2>2. ASSUME NEW todo, Install("group", todo, FALSE, {}, None) PROVE SyncMove
    BY <2>2, InstallShape
  <2> QED BY <1>5, <2>1, <2>2 DEF InstallGroup
<1>6. CASE InstallLocal
  BY <1>6 DEF InstallLocal
<1>7. CASE InstallLocalNext
  BY <1>7 DEF InstallLocalNext, Shaped
<1>8. CASE \/ InstallLocalDone \/ Uninstall \/ Clean \/ Search \/ GroupSearch
           \/ CompletePlugins \/ Other \/ UnsetContext
  <2>1. \E kind \in {"local", "uninstall", "clean", "search", "group search", "complete", "other", "unset"} :
          \E ok : End(kind, ok, None)
    BY <1>8 DEF InstallLocalDone, Uninstall, Clean, Search, GroupSearch, CompletePlugins, Other, UnsetContext
  <2> QED BY <2>1, EndShape
<1>9. CASE UseContext \/ SyncPlugins
  <2>1. PICK contexts : Sync(contexts)
    BY <1>9 DEF UseContext, SyncPlugins
  <2>2. cmd.op.kind \in {"use", "sync"} /\ (UseContext => cmd.op.kind = "use")
    BY <1>9 DEF UseContext, SyncPlugins, Body
  <2>3. CASE End("none", TRUE, None)
    BY <2>3, EndShape
  <2>4. End("none", TRUE, None) \/ (last' = None /\ cmd'.phase = cmd.op.kind)
    BY <2>1, <2>2, SyncShape
  <2> QED BY <1>9, <2>2, <2>3, <2>4
<1>10. CASE SyncContext
  <2>1. last' = None
    BY <1>10 DEF SyncContext, Install
  <2> QED BY <1>10, <2>1
<1>11. CASE \E s \in Sources : Publish(s)
  BY <1>11 DEF Publish
<1>12. CASE InstallNext \/ InstallsDone
  BY <1>12
<1> QED BY <1>1, <1>2, <1>3, <1>4, <1>5, <1>6, <1>7, <1>8, <1>9, <1>10, <1>11, <1>12 DEF Next

\* With the same cache, the same versions are recommended.
LEMMA SameServerPlugins ==
  ASSUME UNCHANGED cache, NEW c PROVE ServerPlugins(Associated(c))' = ServerPlugins(Associated(c))
<1>1. LocalView' = LocalView
  BY DEF LocalView, Databases
<1>2. \A r : Resolved(r)' = Resolved(r)
  BY <1>1 DEF Resolved
<1> QED BY <1>2 DEF ServerPlugins

\* When the cache stays the same, an installation found its rows in it.
LEMMA FoundInCache ==
  ASSUME NEW r, r.version # Latest, NEW o, NEW late, InstallEnds(r, o, late), UNCHANGED cache,
         NEW x \in Candidates(View(o), View(late), r)
  PROVE  \E i \in Answering(LocalView) : \E y \in LocalView[SourceSeq[i]].plugins :
           y.plugin \in Named(r.name, r.target) /\ ~y.hidden /\ IsPrefix(r.version, y.version)
<1>1. ASSUME NEW i \in DOMAIN SourceSeq
      PROVE  /\ View(o)[SourceSeq[i]] # None => View(o)[SourceSeq[i]] = LocalView[SourceSeq[i]]
             /\ View(late)[SourceSeq[i]] # None => View(late)[SourceSeq[i]] = LocalView[SourceSeq[i]]
  <2> DEFINE s == SourceSeq[i]
  <2>1. s \in Sources
    BY DEF Sources, Range
  <2>2. /\ cache = Fetched(late) /\ DOMAIN o = Sources /\ DOMAIN late = Sources
        /\ o[s] = "failed" \/ late[s] = o[s]
    BY <2>1 DEF InstallEnds, Answers
  <2> HIDE DEF s
  <2>3. o[s] # "failed" => Fetched(o)[s] = cache[s]
    BY <2>1, <2>2 DEF Fetched
  <2>4. /\ Seen(o)[s] # None => Seen(o)[s] = cache[s]
        /\ Seen(late)[s] # None => Seen(late)[s] = cache[s]
    BY <2>1, <2>2, <2>3 DEF Seen
  <2>5. /\ View(o)[s] # None => View(o)[s] = LocalView[s]
        /\ View(late)[s] # None => View(late)[s] = LocalView[s]
    BY <2>1, <2>4 DEF View, LocalView, Databases
  <2> QED BY <2>5 DEF s
<1>2. PICK w, arch : x \in Rows(w, r, arch) /\ w \in {View(o), View(late)}
  BY DEF Candidates
<1>3. PICK i \in Answering(w) : \E y \in Offered(w[SourceSeq[i]], r, arch) : x = <<i, y>>
  BY <1>2 DEF Rows
<1>4. PICK y \in Offered(w[SourceSeq[i]], r, arch) : x = <<i, y>>
  BY <1>3
<1>5. i \in Answering(LocalView) /\ w[SourceSeq[i]] = LocalView[SourceSeq[i]]
  BY <1>1, <1>2, <1>3 DEF Answering
<1> QED BY <1>4, <1>5 DEF Offered

\* What a recommendation is, and what becomes of it.
LEMMA RecommendationOf ==
  ASSUME Known, NEW c \in Contexts, NEW x \in ServerPlugins(Associated(c))
  PROVE  \E q \in Associated(c) :
           /\ q.plugin = x.plugin /\ x = Resolution(q) /\ x.version = Resolved(q)
           /\ q.version \in Short /\ Alone(x.plugin) /\ x.version # Latest
<1>1. PICK q \in Associated(c) : q.plugin = x.plugin /\ x = Resolution(q)
  BY ServerPluginsAre
<1>2. q \in [plugin : Plugins, version : Short] /\ Alone(q.plugin)
  BY <1>1, AssociatedAre
<1>3. x.version = Resolved(q) /\ q.version \in Short
  BY <1>1, <1>2 DEF Resolution
<1>4. Resolved(q) # Latest
  BY <1>3, ResolvedVersion, EveryVersion, ShortVersions
<1> QED BY <1>1, <1>2, <1>3, <1>4

\* A recommended plugin that is installed from the cache that resolved its version is synced.
LEMMA RecommendedInstalls ==
  ASSUME Known, NEW c \in Contexts, NEW x \in ServerPlugins(Associated(c)),
         InstallStandalonePlugin(Request(x)), last'.ok, UNCHANGED cache
  PROVE  Synced(x)' /\ \A q : Alone(q) /\ q # x.plugin => installed'[q] = installed[q]
<1> DEFINE r == Request(x)
<1>1. PICK q \in Associated(c) :
           /\ q.plugin = x.plugin /\ x = Resolution(q) /\ x.version = Resolved(q)
           /\ q.version \in Short /\ Alone(x.plugin) /\ x.version # Latest
  BY RecommendationOf
<1>2. r.name = NameOf[x.plugin] /\ r.target = TargetOf[x.plugin] /\ r.version = x.version
  BY DEF Request
<1> HIDE DEF r
<1>3. PICK o, late : InstallEnds(r, o, late)
  BY InstallOutcome DEF r
<1>4. PICK z \in Candidates(View(o), View(late), r) : TRUE
  <2>1. PICK p, v, d : Best(Candidates(View(o), View(late), r), r, p, v, d)
    BY <1>3 DEF InstallEnds
  <2> QED BY <2>1 DEF Best
<1>5. Stores(x.plugin, x.version)
  <2>1. PICK i \in Answering(LocalView) : \E y \in LocalView[SourceSeq[i]].plugins :
           y.plugin \in Named(r.name, r.target) /\ ~y.hidden /\ IsPrefix(r.version, y.version)
    BY <1>1, <1>2, <1>3, <1>4, FoundInCache
  <2>2. Named(r.name, r.target) = {x.plugin}
    BY <1>1, <1>2 DEF Alone
  <2> QED BY <1>2, <2>1, <2>2 DEF Stores
<1>6. x.version \in Nat \X Nat
  BY <1>1, <1>5, ResolvedVersion, VersionsFinite
<1>7. AsksFor(r, x.plugin)
  BY <1>1, <1>2, <1>6 DEF AsksFor
<1>8. /\ installed'[x.plugin] # None /\ installed'[x.plugin].version = r.version
      /\ \A p : Alone(p) /\ p # x.plugin => installed'[p] = installed[p]
  BY <1>7, AloneInstalls DEF r
<1> QED BY <1>2, <1>8 DEF Synced

\* Contexts that agree recommend the same version of a plugin.
LEMMA SameRecommendation ==
  ASSUME Known, Existing, ContextsAgree,
         NEW c \in active, NEW x \in ServerPlugins(Associated(c)),
         NEW d \in active, NEW y \in ServerPlugins(Associated(d))
  PROVE  x.plugin = y.plugin => x = y
<1>1. c \in Contexts /\ d \in Contexts
  BY DEF Existing
<1>2. CASE c = d
  BY <1>1, <1>2, ServerPluginsAre
<1>3. CASE c # d
  <2>1. PICK q \in Associated(c) : q.plugin = x.plugin /\ x = Resolution(q)
    BY <1>1, RecommendationOf
  <2>2. PICK r \in Associated(d) : r.plugin = y.plugin /\ y = Resolution(r)
    BY <1>1, RecommendationOf
  <2> QED BY <1>3, <2>1, <2>2 DEF ContextsAgree
<1> QED BY <1>2, <1>3

LEMMA RequestsDiffer ==
  ASSUME NEW x, NEW y, x.plugin \in Plugins, y.plugin \in Plugins, Request(x) = Request(y)
  PROVE  x.plugin = y.plugin
<1>1. NameOf[x.plugin] = NameOf[y.plugin] /\ TargetOf[x.plugin] = TargetOf[y.plugin]
  <2>1. Request(x).name = NameOf[x.plugin] /\ Request(x).target = TargetOf[x.plugin]
    BY DEF Request
  <2>2. Request(y).name = NameOf[y.plugin] /\ Request(y).target = TargetOf[y.plugin]
    BY DEF Request
  <2> QED BY <2>1, <2>2
<1> QED BY <1>1, PluginManagerAssumption

\* One step of an installation: the others stay, and this one is synced unless it failed.
LEMMA SyncInstalls ==
  ASSUME Known, Behind, Shaped, Existing, SyncSoFar, InstallNext, InSync'
  PROVE  SyncSoFar'
<1>1. PICK r \in cmd.todo : /\ InstallStandalonePlugin(r)
                            /\ cmd' = [cmd EXCEPT !.todo = @ \ {r}, !.failed = @ \/ ~last'.ok]
  BY DEF InstallNext
<1>2. /\ cmd.pc = "installing" /\ cmd'.pc = "installing" /\ cmd'.phase = cmd.phase
      /\ cmd'.start = cmd.start /\ cmd'.contexts = cmd.contexts /\ cmd'.todo = cmd.todo \ {r}
  BY <1>1 DEF InstallNext, Shaped
<1>3. cmd'.failed <=> cmd.failed \/ ~last'.ok
  BY <1>1, <1>2 DEF Shaped
<1>4. InSync /\ UNCHANGED active
  BY <1>2 DEF InSync, InstallNext
<1>5. /\ cmd.start \in [Sources -> Nat] /\ \A s \in Sources : cmd.start[s] <= cache[s]
      /\ cmd.contexts \subseteq active
  BY <1>4 DEF SyncSoFar
<1>6. PICK o : cache' = Fetched(o)
  BY <1>1 DEF InstallStandalonePlugin
<1>7. \A s \in Sources : cache[s] <= cache'[s] /\ cache[s] \in Nat /\ cache'[s] \in Nat
  BY <1>6, FetchedIsLater, FetchedIsKnown DEF Known
<1>8. \A s \in Sources : cmd.start[s] <= cache'[s]
  BY <1>5, <1>7
<1>9. ASSUME cache' = cmd.start, ContextsAgree
      PROVE  /\ \A t \in cmd'.todo : \E c \in Handled : \E x \in ServerPlugins(Associated(c))' : t = Request(x)
             /\ ~cmd'.failed => \A c \in Handled : \A x \in ServerPlugins(Associated(c))' :
                  Synced(x)' \/ Request(x) \in cmd'.todo
  <2>1. cache' = cache
    <3>1. \A s \in Sources : cache[s] = cmd.start[s]
      BY <1>5, <1>7, <1>9
    <3> QED BY <1>5, <1>9, <3>1 DEF Known
  <2>2. /\ \A t \in cmd.todo : \E c \in Handled : \E x \in ServerPlugins(Associated(c)) : t = Request(x)
        /\ ~cmd.failed => \A c \in Handled : \A x \in ServerPlugins(Associated(c)) :
             Synced(x) \/ Request(x) \in cmd.todo
    BY <1>2, <1>4, <1>9, <2>1 DEF SyncSoFar
  <2>3. \A c : ServerPlugins(Associated(c))' = ServerPlugins(Associated(c))
    BY <2>1, SameServerPlugins
  <2>4. ASSUME ~cmd'.failed, NEW d \in Handled, NEW y \in ServerPlugins(Associated(d))
        PROVE  Synced(y)' \/ Request(y) \in cmd'.todo
    <3>1. last'.ok /\ ~cmd.failed
      BY <1>3, <2>4
    <3>2. PICK c \in Handled : \E x \in ServerPlugins(Associated(c)) : r = Request(x)
      BY <1>1, <2>2
    <3>3. PICK x \in ServerPlugins(Associated(c)) : r = Request(x)
      BY <3>2
    <3>4. c \in active /\ d \in active /\ c \in Contexts /\ d \in Contexts
      BY <3>2, <2>4 DEF Handled, Existing
    <3>5. Alone(x.plugin) /\ Alone(y.plugin)
      BY <2>4, <3>3, <3>4, RecommendationOf
    <3>6. Synced(x)' /\ \A q : Alone(q) /\ q # x.plugin => installed'[q] = installed[q]
      BY <1>1, <2>1, <3>1, <3>3, <3>4, RecommendedInstalls
    <3>7. CASE x.plugin = y.plugin
      BY <1>9, <2>4, <3>3, <3>4, <3>6, <3>7, SameRecommendation
    <3>8. CASE x.plugin # y.plugin
      <4>1. installed'[y.plugin] = installed[y.plugin]
        BY <3>5, <3>6, <3>8
      <4>2. Request(y) # r
        BY <3>3, <3>5, <3>8, RequestsDiffer DEF Alone
      <4>3. Synced(y) \/ Request(y) \in cmd.todo
        BY <2>2, <2>4, <3>1
      <4> QED BY <1>2, <4>1, <4>2, <4>3 DEF Synced
    <3> QED BY <3>7, <3>8
  <2> QED BY <1>2, <2>2, <2>3, <2>4
<1>10. Handled' = Handled /\ (ContextsAgree' <=> ContextsAgree)
  BY <1>2, <1>4 DEF Handled, ContextsAgree
<1> QED BY <1>2, <1>4, <1>5, <1>8, <1>9, <1>10 DEF SyncSoFar

\* syncContextPlugins of the next context: what it recommends is left to do, unless the
\* plugin was installed for this version.
LEMMA SyncNextContext ==
  ASSUME Known, Shaped, Existing, OwnVersion, SyncSoFar, SyncContext, InSync'
  PROVE  SyncSoFar'
<1>1. PICK c \in cmd.contexts, crdFails \in BOOLEAN, listFails \in BOOLEAN :
        Install(cmd.phase, ToBeInstalled(GetDiscoveredPlugins(c, crdFails, listFails).plugins),
                cmd.failed \/ ~GetDiscoveredPlugins(c, crdFails, listFails).ok,
                cmd.contexts \ {c}, IF listFails THEN None ELSE cmd.start)
  BY DEF SyncContext
<1>2. cmd.pc = "contexts" /\ cmd.phase \in {"use", "sync"} /\ UNCHANGED <<cache, installed, active>>
  BY DEF SyncContext, Shaped
<1> DEFINE todo == ToBeInstalled(GetDiscoveredPlugins(c, crdFails, listFails).plugins)
           failed == cmd.failed \/ ~GetDiscoveredPlugins(c, crdFails, listFails).ok
<1>3. /\ cmd'.pc = "installing" /\ cmd'.phase = cmd.phase /\ cmd'.todo = todo
      /\ cmd'.failed = failed /\ cmd'.contexts = cmd.contexts \ {c}
      /\ cmd'.start = IF listFails THEN None ELSE cmd.start
  <2>1. failed \in BOOLEAN
    OBVIOUS
  <2>2. PICK start : /\ start = IF listFails THEN None ELSE cmd.start
                     /\ Install(cmd.phase, todo, failed, cmd.contexts \ {c}, start)
    BY <1>1
  <2> HIDE DEF todo, failed
  <2>3. /\ cmd'.pc = "installing" /\ cmd'.phase = cmd.phase /\ cmd'.todo = todo
        /\ cmd'.failed = failed /\ cmd'.contexts = cmd.contexts \ {c} /\ cmd'.start = start
    BY <1>2, <2>1, <2>2, InstallShape
  <2> QED BY <2>2, <2>3
<1>4. ~listFails /\ cmd'.start = cmd.start /\ InSync
  BY <1>2, <1>3 DEF InSync
<1>5. todo = ToBeInstalled(Associated(c))
  BY <1>4 DEF GetDiscoveredPlugins
<1>6. cmd.failed => failed
  OBVIOUS
<1> HIDE DEF todo, failed
<1>7. /\ cmd.start \in [Sources -> Nat] /\ \A s \in Sources : cmd.start[s] <= cache[s]
      /\ cmd.contexts \subseteq active
  BY <1>4 DEF SyncSoFar
<1>8. c \in active /\ c \in Contexts
  BY <1>1, <1>7 DEF Existing
<1>9. /\ \A t \in todo : \E x \in ServerPlugins(Associated(c)) : t = Request(x)
      /\ \A x \in ServerPlugins(Associated(c)) : NeedsInstall(x) => Request(x) \in todo
  BY <1>5 DEF ToBeInstalled, Request
<1>10. ASSUME NEW x \in ServerPlugins(Associated(c)) PROVE Synced(x) \/ Request(x) \in todo
  <2>1. CASE NeedsInstall(x)
    BY <1>9, <2>1
  <2>2. CASE ~NeedsInstall(x)
    <3>1. installed[x.plugin] # None /\ installed[x.plugin].discovered = x.version
      BY <2>2 DEF NeedsInstall
    <3>2. x.plugin \in Plugins
      BY <1>8, RecommendationOf DEF Alone
    <3> QED BY <3>1, <3>2 DEF OwnVersion, Synced
  <2> QED BY <2>1, <2>2
<1>11. \A d : ServerPlugins(Associated(d))' = ServerPlugins(Associated(d))
  BY <1>2, SameServerPlugins
<1>12. Handled' = Handled \cup {c} /\ (ContextsAgree' <=> ContextsAgree)
  BY <1>2, <1>3, <1>8 DEF Handled, ContextsAgree
<1>13. \A x : Synced(x) => Synced(x)'
  BY <1>2 DEF Synced
<1>14. ASSUME cache = cmd.start, ContextsAgree, ~cmd'.failed,
              NEW d \in Handled', NEW x \in ServerPlugins(Associated(d))
       PROVE  Synced(x) \/ Request(x) \in todo
  <2>1. CASE d = c
    BY <1>10, <1>14, <2>1
  <2>2. CASE d # c
    BY <1>2, <1>3, <1>4, <1>6, <1>12, <1>14, <2>2 DEF SyncSoFar
  <2> QED BY <2>1, <2>2
<1>15. ASSUME NEW t \in cmd'.todo
       PROVE  \E d \in Handled' : \E x \in ServerPlugins(Associated(d))' : t = Request(x)
  BY <1>3, <1>9, <1>11, <1>12
<1>16. cmd'.contexts \subseteq active'
  BY <1>2, <1>3, <1>7
<1>17. cache' = cmd'.start /\ ContextsAgree' /\ ~cmd'.failed =>
         \A d \in Handled' : \A x \in ServerPlugins(Associated(d))' : Synced(x)' \/ Request(x) \in cmd'.todo
  BY <1>2, <1>3, <1>4, <1>11, <1>12, <1>13, <1>14
<1>18. cmd'.start \in [Sources -> Nat] /\ \A s \in Sources : cmd'.start[s] <= cache'[s]
  BY <1>2, <1>4, <1>7
<1> QED BY <1>3, <1>15, <1>16, <1>17, <1>18 DEF SyncSoFar

LEMMA SyncStep ==
  ASSUME Known, Behind, Shaped, Existing, OwnVersion, SyncSoFar, Next
  PROVE  SyncSoFar'
<1>1. SUFFICES ASSUME InSync' PROVE SyncSoFar'
  BY DEF SyncSoFar
<1>2. CASE InstallNext
  BY <1>1, <1>2, SyncInstalls
<1>3. CASE SyncContext
  BY <1>1, <1>3, SyncNextContext
<1>4. CASE SyncPlugins
  <2>1. Sync(active) /\ cmd.op.kind = "sync" /\ UNCHANGED <<cache, active>>
    BY <1>4 DEF SyncPlugins, Body
  <2>2. ~End("none", TRUE, None)
    BY <1>1, EndShape DEF InSync
  <2>3. cmd'.pc = "contexts" /\ cmd'.contexts = active /\ cmd'.start = cache
    BY <2>1, <2>2, SyncShape
  <2>4. Handled' = {}
    BY <2>1, <2>3 DEF Handled
  <2> QED BY <2>1, <2>3, <2>4 DEF SyncSoFar, Known
<1>5. CASE InstallsDone
  <2>1. cmd' = [cmd EXCEPT !.pc = "contexts"]
    <3>1. ASSUME End(cmd.phase, ~cmd.failed, cmd.start) PROVE FALSE
      BY <1>1, <3>1, EndShape DEF InSync
    <3>2. ASSUME cmd' = [pc |-> "command"] PROVE FALSE
      BY <1>1, <3>2 DEF InSync
    <3> QED BY <1>5, <3>1, <3>2 DEF InstallsDone
  <2>2. /\ cmd.pc = "installing" /\ cmd.todo = {} /\ cmd'.pc = "contexts" /\ cmd'.phase = cmd.phase
        /\ cmd'.start = cmd.start /\ cmd'.contexts = cmd.contexts /\ cmd'.failed = cmd.failed
        /\ UNCHANGED <<cache, installed, active>>
    BY <1>5, <2>1 DEF InstallsDone, Shaped
  <2>3. InSync
    BY <1>1, <2>2 DEF InSync
  <2>4. Handled' = Handled /\ (ContextsAgree' <=> ContextsAgree)
    BY <2>2 DEF Handled, ContextsAgree
  <2>5. \A c : ServerPlugins(Associated(c))' = ServerPlugins(Associated(c))
    BY <2>2, SameServerPlugins
  <2>6. \A x : Synced(x) => Synced(x)'
    BY <2>2 DEF Synced
  <2> QED BY <2>2, <2>3, <2>4, <2>5, <2>6 DEF SyncSoFar
<1>6. CASE UNCHANGED <<cache, installed, active, cmd>>
  <2>1. InSync
    BY <1>1, <1>6 DEF InSync
  <2>2. Handled' = Handled /\ (ContextsAgree' <=> ContextsAgree)
    BY <1>6 DEF Handled, ContextsAgree
  <2>3. \A c : ServerPlugins(Associated(c))' = ServerPlugins(Associated(c))
    BY <1>6, SameServerPlugins
  <2>4. \A x : Synced(x) => Synced(x)'
    BY <1>6 DEF Synced
  <2> QED BY <1>6, <2>1, <2>2, <2>3, <2>4 DEF SyncSoFar
<1> QED BY <1>1, <1>2, <1>3, <1>4, <1>5, <1>6, SyncMoves DEF SyncMove

\* InstallsDone of the last context ends `plugin sync`; no other step says so.
LEMMA SyncEnds ==
  ASSUME Known, Shaped, Existing, SyncSoFar, Next PROVE SyncSettles'
<1>1. SUFFICES ASSUME last' # None, last'.kind = "sync", last'.ok, last'.start = cache', ContextsAgree',
                      \A p \in Plugins : installed'[p] # None => installed'[p].content # "local"
      PROVE  ~SyncRequired'
  BY DEF SyncSettles
<1>2. ~InstallNext
  BY <1>1, FailureInstallsNothing DEF InstallNext
<1>3. InstallsDone
  BY <1>1, <1>2, SyncMoves DEF SyncMove
<1>4. cmd.pc = "installing" /\ cmd.todo = {} /\ UNCHANGED <<cache, installed, active>>
  BY <1>3 DEF InstallsDone
<1>5. cmd.contexts = {} /\ End(cmd.phase, ~cmd.failed, cmd.start)
  <2>1. cmd.phase # "essentials"
    <3>1. ASSUME cmd.phase = "essentials" PROVE last'.kind = "essentials"
      BY <1>3, <3>1 DEF InstallsDone, Finished
    <3> QED BY <1>1, <3>1
  <2> QED BY <1>1, <1>3, <2>1 DEF InstallsDone
<1>6. cmd.phase = "sync" /\ ~cmd.failed /\ cmd.start = cache
  <2>1. last'.kind = cmd.phase /\ last'.ok = ~cmd.failed /\ last'.start = cmd.start
    BY <1>5, EndShape
  <2> QED BY <1>1, <1>4, <2>1
<1>7. InSync
  <2>1. cache \in [Sources -> Nat]
    BY DEF Known
  <2> QED BY <1>4, <1>6, <2>1, PluginManagerAssumption DEF InSync
<1>8. Handled = active /\ ContextsAgree
  BY <1>1, <1>4, <1>5 DEF Handled, ContextsAgree
<1>9. \A c \in active : \A x \in ServerPlugins(Associated(c)) : Synced(x)
  BY <1>4, <1>6, <1>7, <1>8 DEF SyncSoFar
<1>10. ASSUME NEW c \in active, NEW x \in ServerPlugins(Associated(c))
       PROVE  installed[x.plugin] # None /\ installed[x.plugin].version = x.version
  <2>1. x.plugin \in Plugins
    BY RecommendationOf DEF Alone, Existing
  <2> QED BY <1>1, <1>4, <1>9, <2>1 DEF Synced
<1>11. \A c : ServerPlugins(Associated(c))' = ServerPlugins(Associated(c))
  BY <1>4, SameServerPlugins
<1> QED BY <1>4, <1>10, <1>11 DEF SyncRequired

\* After `plugin sync` succeeded, `plugin list` does not ask for another one, for any
\* contexts, sources and recommendations (setAvailablePluginsStatus and
\* displayInstalledPlugins, which compare different fields of the installed plugins): each
\* installation gives the version that the recommendation was resolved to, and takes none
\* of the others away, because every recommendation has a target.
THEOREM SyncsAreSettled == Spec => []SyncSettles
<1> DEFINE Inv == /\ Known /\ Behind /\ Shaped /\ Existing /\ OwnVersion /\ SyncSoFar
                  /\ SyncSettles
<1>1. Init => Inv
  <2> SUFFICES ASSUME Init PROVE Inv
    OBVIOUS
  <2>1. Known /\ Behind
    BY PluginManagerAssumption DEF Init, Known, Behind
  <2>2. Shaped /\ SyncSoFar
    BY DEF Init, Shaped, Idle, SyncSoFar, InSync
  <2>3. Existing /\ OwnVersion /\ SyncSettles
    BY DEF Init, Existing, OwnVersion, SyncSettles
  <2> QED BY <2>1, <2>2, <2>3
<1>2. Inv /\ [Next]_vars => Inv'
  <2> SUFFICES ASSUME Known, Behind, Shaped, Existing, OwnVersion, SyncSoFar, SyncSettles, [Next]_vars
               PROVE  /\ Known' /\ Behind' /\ Shaped' /\ Existing' /\ OwnVersion'
                      /\ SyncSoFar' /\ SyncSettles'
    OBVIOUS
  <2>1. Known' /\ Behind' /\ Existing' /\ OwnVersion'
    BY KnownStep, BehindStep, ExistingStep, OwnVersionStep
  <2>2. CASE UNCHANGED vars
    <3>1. UNCHANGED <<cache, installed, active, cmd, last>>
      BY <2>2 DEF vars
    <3>2. \A c : ServerPlugins(Associated(c))' = ServerPlugins(Associated(c))
      BY <3>1, SameServerPlugins
    <3>3. Handled' = Handled /\ (ContextsAgree' <=> ContextsAgree) /\ (InSync' <=> InSync)
      BY <3>1 DEF Handled, ContextsAgree, InSync
    <3>4. \A x : Synced(x) => Synced(x)'
      BY <3>1 DEF Synced
    <3>5. SyncSoFar'
      BY <3>1, <3>2, <3>3, <3>4 DEF SyncSoFar
    <3>6. SyncRequired' <=> SyncRequired
      BY <3>1, <3>2 DEF SyncRequired
    <3>7. SyncSettles'
      BY <3>1, <3>3, <3>6 DEF SyncSettles
    <3>8. Shaped'
      BY <3>1 DEF Shaped
    <3> QED BY <2>1, <3>5, <3>7, <3>8
  <2>3. CASE Next
    BY <2>1, <2>3, ShapeStep, SyncStep, SyncEnds
  <2> QED BY <2>2, <2>3
<1>3. Inv => SyncSettles
  OBVIOUS
<1> QED BY <1>1, <1>2, <1>3, PTL DEF Spec
================================================================================
