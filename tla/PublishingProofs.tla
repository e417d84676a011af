--------------------------- MODULE PublishingProofs ---------------------------
(***************************************************************************)
(* From a published inventory to an air-gapped registry, for any number of *)
(* plugins, versions, groups, bundles and faults: rows have images.  With  *)
(* one publisher, who overrides nothing, a private registry has what it    *)
(* lists once an upload ended, its groups are complete, and what an upload *)
(* brought stays.                                                          *)
(***************************************************************************)
EXTENDS Publishing, FiniteSetTheorems, WellFoundedInduction, TLAPS

\* The keys of the two tables without the columns that change: what is listed,
\* its version and its architecture, or the member of a group.
Keys(db) == IF db = None THEN {} ELSE {RowKey(r) : r \in db.plugins}
GroupKey(g) == <<g.group, g.version, <<g.plugin, g.pversion>>>>
GroupKeys(db) == IF db = None THEN {} ELSE {GroupKey(g) : g \in db.groups}
VersionOf(k) == <<k[1], k[2]>>

\* A table that grew by whole versions.
Grown(K, L) == K \subseteq L /\ \A j \in K, k \in L \ K : VersionOf(j) # VersionOf(k)

\* A member of a group is among the versions xs of plugins.
Met(m, xs) == \E x \in xs : x[1] = m[1] /\ IsPrefix(m[2], x[2])
MembersKnown(db) == \A k \in GroupKeys(db) : Met(k[3], Keys(db))

\* The version x is published, and all its architectures are among the images; the
\* group version y is published, and all its members are among xs.
Vouched(K, x, images) ==
  (\E k \in K : VersionOf(k) = x) /\ \A k \in K : VersionOf(k) = x => k \in images
GroupVouched(G, y, xs) ==
  (\E k \in G : VersionOf(k) = y) /\ \A k \in G : VersionOf(k) = y => Met(k[3], xs)

-----------------------------------------------------------------------------
(* Versions *)

LEMMA LeastNumber ==
  ASSUME NEW N \in SUBSET Nat, N # {} PROVE \E n \in N : \A k \in N : n <= k
<1>1. \E n \in N : \A k \in N : ~ (<<k, n>> \in OpToRel(<, Nat))
  BY NatLessThanWellFounded, WFMin
<1>2. PICK n \in N : \A k \in N : ~ (<<k, n>> \in OpToRel(<, Nat))
  BY <1>1
<1>3. \A k \in N : ~ (k < n)
  BY <1>2 DEF OpToRel
<1> QED
  BY <1>3

\* The order of versions.
LEMMA NewerOrder ==
  /\ \A u, v, w \in Versions : IsNewVersion(u, v) /\ IsNewVersion(v, w) => IsNewVersion(u, w)
  /\ \A v, w \in Versions : v = w \/ IsNewVersion(v, w) \/ IsNewVersion(w, v)
<1>1. Versions \subseteq Nat \X Nat
  BY PublishingAssumption
<1>2. \A v, w \in Nat \X Nat : v[1] = w[1] /\ v[2] = w[2] => v = w
  OBVIOUS
<1> QED
  BY <1>1, <1>2 DEF IsNewVersion

\* A version of S that is newer than the others.
HasNewest(S) == \E v \in S : \A w \in S \ {v} : IsNewVersion(v, w)

\* A finite set of versions has a newest one: a smallest set without would have
\* one after any of its versions is taken out.
LEMMA SomeIsNewest ==
  ASSUME NEW S \in SUBSET Versions, S # {} PROVE HasNewest(S)
<1> DEFINE N == {n \in Nat : \E X \in SUBSET Versions :
                   IsFiniteSet(X) /\ X # {} /\ Cardinality(X) = n /\ ~ HasNewest(X)}
<1>1. SUFFICES ASSUME ~ HasNewest(S) PROVE FALSE
  OBVIOUS
<1>2. IsFiniteSet(S) /\ Cardinality(S) \in Nat
  BY PublishingAssumption, FS_Subset, FS_CardinalityType
<1>3. PICK n \in N : \A k \in N : n <= k
  <2>1. N \in SUBSET Nat /\ N # {}
    BY <1>1, <1>2
  <2> HIDE DEF N
  <2> QED BY <2>1, LeastNumber
<1>4. PICK X \in SUBSET Versions : IsFiniteSet(X) /\ X # {} /\ Cardinality(X) = n /\ ~ HasNewest(X)
  BY <1>3
<1>5. PICK x \in X : TRUE
  BY <1>4
<1> DEFINE Y == X \ {x}
<1>6. IsFiniteSet(Y) /\ Cardinality(Y) = n - 1 /\ Y \in SUBSET Versions
  BY <1>4, <1>5, FS_RemoveElement
<1>7. CASE Y = {}
  BY <1>4, <1>5, <1>7 DEF HasNewest
<1>8. CASE Y # {}
  <2>1. n - 1 \in Nat /\ n \in Nat
    BY <1>6, FS_CardinalityType
  <2>2. n - 1 \notin N
    BY <1>3, <2>1
  <2>3. HasNewest(Y)
    <3> HIDE DEF Y, HasNewest
    <3> QED BY <1>6, <1>8, <2>1, <2>2
  <2>4. PICK m \in Y : \A w \in Y \ {m} : IsNewVersion(m, w)
    BY <2>3 DEF HasNewest
  <2>5. CASE IsNewVersion(x, m)
    <3>1. \A w \in X \ {x} : IsNewVersion(x, w)
      BY <1>5, <2>4, <2>5, NewerOrder
    <3> QED BY <1>4, <1>5, <3>1 DEF HasNewest
  <2>6. CASE IsNewVersion(m, x)
    <3>1. m \in X /\ \A w \in X \ {m} : IsNewVersion(m, w)
      BY <2>4, <2>6
    <3> QED BY <1>4, <3>1 DEF HasNewest
  <2> QED BY <1>5, <2>4, <2>5, <2>6, NewerOrder
<1> QED BY <1>7, <1>8

\* SortVersions on the versions of a plugin picks one of them.
LEMMA NewestIsOne == ASSUME NEW S \in SUBSET Versions, S # {} PROVE Newest(S) \in S
  BY SomeIsNewest DEF Newest, HasNewest

LEMMA EmptyPrefix == ASSUME NEW v \in Nat \X Nat PROVE IsPrefix(<<>>, v)
  BY DEF IsPrefix

LEMMA NotLatest == ASSUME NEW v \in Seq(Nat) PROVE v # Latest
  BY DEF Latest


-----------------------------------------------------------------------------
(* Queries *)

\* An entry of an answer: the recommended version and all versions are complete.
Answer(db, e) ==
  /\ DOMAIN e = {"plugin", "recommended", "artifacts"}
  /\ e.recommended \in DOMAIN e.artifacts
  /\ \A v \in DOMAIN e.artifacts :
       /\ Vouched(Keys(db), <<e.plugin, v>>, {<<e.plugin, v, a>> : a \in e.artifacts[v]})
       /\ {<<e.plugin, v, a>> : a \in e.artifacts[v]} \subseteq Keys(db)

LEMMA DatabaseKeys ==
  ASSUME NEW db \in Database
  PROVE  /\ db # None /\ db.plugins \subseteq PluginRow /\ db.groups \subseteq GroupRow
         /\ Keys(db) = {RowKey(r) : r \in db.plugins}
         /\ GroupKeys(db) = {GroupKey(g) : g \in db.groups}
  BY PublishingAssumption DEF Database, Keys, GroupKeys

\* GetPluginsFromDB for any version: versions are taken whole, with all
\* architectures, and match what was asked for.
LEMMA RowsAnswer ==
  ASSUME NEW db \in Database
  PROVE  \A ps, q : \A e \in GetPluginsFromDB(db, AnyHidden(ps, q)) :
           /\ Answer(db, e) /\ e.plugin \in ps
           /\ \A v \in DOMAIN e.artifacts : IsPrefix(q, v)
<1> SUFFICES ASSUME NEW ps, NEW q, NEW e \in GetPluginsFromDB(db, AnyHidden(ps, q))
             PROVE  /\ Answer(db, e) /\ e.plugin \in ps
                    /\ \A v \in DOMAIN e.artifacts : IsPrefix(q, v)
  OBVIOUS
<1> DEFINE rows == {r \in db.plugins : PluginWhere(AnyHidden(ps, q), r)}
<1>1. PICK p \in {r.plugin : r \in rows} : e = PluginEntry(rows, p)
  BY DEF GetPluginsFromDB
<1> DEFINE mine == {r \in rows : r.plugin = p}
<1>2. /\ db.plugins \subseteq PluginRow
      /\ \A r \in db.plugins : r \in rows <=> r.plugin \in ps /\ IsPrefix(q, r.version)
  BY DatabaseKeys DEF PluginWhere, AnyHidden, PluginRow
<1>3. mine # {} /\ p \in ps /\ mine \subseteq db.plugins
  BY <1>1, <1>2
<1>4. VersionsOf(mine) # {} /\ VersionsOf(mine) \in SUBSET Versions
  BY <1>2, <1>3 DEF VersionsOf, PluginRow
<1>5. /\ DOMAIN e = {"plugin", "recommended", "artifacts"}
      /\ e.plugin = p /\ e.recommended = Newest(VersionsOf(mine)) /\ e.artifacts = Artifacts(mine)
  BY <1>1 DEF PluginEntry
<1>6. DOMAIN e.artifacts = VersionsOf(mine)
  BY <1>5 DEF Artifacts
<1>7. e.recommended \in DOMAIN e.artifacts
  BY <1>4, <1>5, <1>6, NewestIsOne
<1>8. \A r \in db.plugins : r \in mine <=> r.plugin = p /\ IsPrefix(q, r.version)
  BY <1>2, <1>3
<1> HIDE DEF rows, mine
<1>9. ASSUME NEW v \in DOMAIN e.artifacts
      PROVE  /\ IsPrefix(q, v) /\ Vouched(Keys(db), <<p, v>>, {<<p, v, a>> : a \in e.artifacts[v]})
             /\ {<<p, v, a>> : a \in e.artifacts[v]} \subseteq Keys(db)
  <2>1. PICK r \in mine : r.version = v
    BY <1>6 DEF VersionsOf
  <2>2. r \in db.plugins /\ r.plugin = p /\ IsPrefix(q, v)
    BY <1>3, <1>8, <2>1
  <2>3. e.artifacts[v] = {m.arch : m \in {x \in mine : x.version = v}}
    BY <1>5, <1>6 DEF Artifacts
  <2>4. RowKey(r) \in Keys(db) /\ VersionOf(RowKey(r)) = <<p, v>>
    BY <2>1, <2>2, DatabaseKeys DEF RowKey, VersionOf
  <2>5. ASSUME NEW k \in Keys(db), VersionOf(k) = <<p, v>>
        PROVE  k \in {<<p, v, a>> : a \in e.artifacts[v]}
    <3>1. PICK x \in db.plugins : k = RowKey(x)
      BY DatabaseKeys
    <3>2. x.plugin = p /\ x.version = v
      BY <2>5, <3>1 DEF RowKey, VersionOf
    <3>3. x \in mine
      BY <1>8, <2>2, <3>2
    <3> QED BY <2>3, <3>1, <3>2, <3>3 DEF RowKey
  <2>6. ASSUME NEW a \in e.artifacts[v] PROVE <<p, v, a>> \in Keys(db)
    <3>1. PICK m \in mine : m.version = v /\ m.arch = a
      BY <2>3
    <3>2. m \in db.plugins /\ RowKey(m) = <<p, v, a>>
      BY <1>3, <1>8, <3>1 DEF RowKey
    <3> QED BY <3>2, DatabaseKeys
  <2> QED BY <2>2, <2>4, <2>5, <2>6 DEF Vouched
<1> QED BY <1>3, <1>5, <1>7, <1>9 DEF Answer

\* A row that matches is answered.
LEMMA RowsAreFound ==
  ASSUME NEW db \in Database, NEW r \in db.plugins
  PROVE  \A ps, q : r.plugin \in ps /\ IsPrefix(q, r.version) =>
           \E e \in GetPluginsFromDB(db, AnyHidden(ps, q)) :
             e.plugin = r.plugin /\ r.version \in DOMAIN e.artifacts
<1> SUFFICES ASSUME NEW ps, NEW q, r.plugin \in ps, IsPrefix(q, r.version)
             PROVE  \E e \in GetPluginsFromDB(db, AnyHidden(ps, q)) :
                      e.plugin = r.plugin /\ r.version \in DOMAIN e.artifacts
  OBVIOUS
<1> DEFINE rows == {x \in db.plugins : PluginWhere(AnyHidden(ps, q), x)}
           e == PluginEntry(rows, r.plugin)
<1>1. r \in rows
  BY DatabaseKeys DEF PluginWhere, AnyHidden, PluginRow
<1>2. e \in GetPluginsFromDB(db, AnyHidden(ps, q))
  BY <1>1 DEF GetPluginsFromDB
<1>3. e.plugin = r.plugin /\ e.artifacts = Artifacts({x \in rows : x.plugin = r.plugin})
  BY DEF PluginEntry
<1>4. r.version \in DOMAIN e.artifacts
  BY <1>1, <1>3 DEF Artifacts, VersionsOf
<1> QED BY <1>2, <1>3, <1>4

\* GetPlugins, with its query for the latest version.
LEMMA PluginsAnswer ==
  ASSUME NEW db \in Database
  PROVE  \A ps, q : \A e \in GetPlugins(db, AnyHidden(ps, q)) :
           /\ Answer(db, e) /\ e.plugin \in ps
           /\ q # Latest => \A v \in DOMAIN e.artifacts : IsPrefix(q, v)
<1> SUFFICES ASSUME NEW ps, NEW q, NEW e \in GetPlugins(db, AnyHidden(ps, q))
             PROVE  /\ Answer(db, e) /\ e.plugin \in ps
                    /\ q # Latest => \A v \in DOMAIN e.artifacts : IsPrefix(q, v)
  OBVIOUS
<1>1. \A x : [AnyHidden(ps, q) EXCEPT !.version = x] = AnyHidden(ps, x)
  <2>1. \A a, b, c, d, x :
          [[plugins |-> a, version |-> b, hidden |-> c, archs |-> d] EXCEPT !.version = x]
             = [plugins |-> a, version |-> x, hidden |-> c, archs |-> d]
    OBVIOUS
  <2>2. PICK t : t = TRUE
    OBVIOUS
  <2>3. \A x : AnyHidden(ps, x) = [plugins |-> ps, version |-> x, hidden |-> t, archs |-> Archs]
    BY <2>2, Zenon DEF AnyHidden
  <2> QED BY <2>1, <2>3
<1>2. AnyHidden(ps, q).version = q
  BY DEF AnyHidden
<1>3. q # Latest => e \in GetPluginsFromDB(db, AnyHidden(ps, q))
  BY <1>2 DEF GetPlugins
<1>4. q = Latest => \E x : e \in GetPluginsFromDB(db, AnyHidden(ps, x))
  BY <1>1, <1>2 DEF GetPlugins
<1> QED BY <1>3, <1>4, RowsAnswer


\* A group of an answer: each of its versions has all its members.
GroupAnswer(db, pg) ==
  \A v \in DOMAIN pg.versions :
    /\ \E k \in GroupKeys(db) : VersionOf(k) = <<pg.group, v>>
    /\ \A k \in GroupKeys(db) : VersionOf(k) = <<pg.group, v>> =>
         \E m \in pg.versions[v] : k[3] = <<m.plugin, m.version>>

AnyGroup(gs, q) == [groups |-> gs, version |-> q, hidden |-> TRUE]

LEMMA GroupRowsAnswer ==
  ASSUME NEW db \in Database
  PROVE  \A gs, q : \A pg \in GetGroupsFromDB(db, AnyGroup(gs, q)) : GroupAnswer(db, pg)
<1> SUFFICES ASSUME NEW gs, NEW q, NEW pg \in GetGroupsFromDB(db, AnyGroup(gs, q)) PROVE GroupAnswer(db, pg)
  OBVIOUS
<1> DEFINE rows == {r \in db.groups : GroupWhere(AnyGroup(gs, q), r)}
<1>1. PICK g \in {r.group : r \in rows} : pg = GroupEntry(rows, g)
  BY DEF GetGroupsFromDB
<1> DEFINE mine == {r \in rows : r.group = g}
<1>2. \A r \in db.groups : r \in rows <=> r.group \in gs /\ IsPrefix(q, r.version)
  BY DEF GroupWhere, AnyGroup
<1>3. mine # {} /\ g \in gs /\ mine \subseteq db.groups
  BY <1>1, <1>2
<1>4. pg.group = g /\ pg.versions = Members(mine)
  BY <1>1 DEF GroupEntry
<1>5. DOMAIN pg.versions = VersionsOf(mine)
  BY <1>4 DEF Members
<1>6. \A r \in db.groups : r \in mine <=> r.group = g /\ IsPrefix(q, r.version)
  BY <1>2, <1>3
<1> HIDE DEF rows, mine
<1> SUFFICES ASSUME NEW v \in DOMAIN pg.versions
             PROVE  /\ \E k \in GroupKeys(db) : VersionOf(k) = <<g, v>>
                    /\ \A k \in GroupKeys(db) : VersionOf(k) = <<g, v>> =>
                         \E m \in pg.versions[v] : k[3] = <<m.plugin, m.version>>
  BY <1>4 DEF GroupAnswer
<1>7. PICK r \in mine : r.version = v
  BY <1>5 DEF VersionsOf
<1>8. r \in db.groups /\ r.group = g /\ IsPrefix(q, v)
  BY <1>3, <1>6, <1>7
<1>9. GroupKey(r) \in GroupKeys(db) /\ VersionOf(GroupKey(r)) = <<g, v>>
  BY <1>7, <1>8, DatabaseKeys DEF GroupKey, VersionOf
<1>10. ASSUME NEW k \in GroupKeys(db), VersionOf(k) = <<g, v>>
       PROVE  \E m \in pg.versions[v] : k[3] = <<m.plugin, m.version>>
  <2>1. PICK x \in db.groups : k = GroupKey(x)
    BY DatabaseKeys
  <2>2. x.group = g /\ x.version = v /\ k[3] = <<x.plugin, x.pversion>>
    BY <1>10, <2>1 DEF GroupKey, VersionOf
  <2>3. x \in mine
    BY <1>6, <1>8, <2>2
  <2> DEFINE m == [plugin |-> x.plugin, version |-> x.pversion, mandatory |-> x.mandatory]
  <2>4. m \in pg.versions[v]
    BY <1>4, <1>5, <2>2, <2>3 DEF Members
  <2>5. m.plugin = x.plugin /\ m.version = x.pversion
    OBVIOUS
  <2> QED BY <2>2, <2>4, <2>5
<1> QED BY <1>9, <1>10

\* GetPluginGroups, with its query for the latest version.
LEMMA GroupsAnswer ==
  ASSUME NEW db \in Database
  PROVE  \A gs, q : \A pg \in GetPluginGroups(db, AnyGroup(gs, q)) : GroupAnswer(db, pg)
<1> SUFFICES ASSUME NEW gs, NEW q, NEW pg \in GetPluginGroups(db, AnyGroup(gs, q)) PROVE GroupAnswer(db, pg)
  OBVIOUS
<1>1. \A x : [AnyGroup(gs, q) EXCEPT !.version = x] = AnyGroup(gs, x)
  <2>1. \A a, b, c, x : [[groups |-> a, version |-> b, hidden |-> c] EXCEPT !.version = x]
                           = [groups |-> a, version |-> x, hidden |-> c]
    OBVIOUS
  <2>2. PICK t : t = TRUE
    OBVIOUS
  <2>3. \A x : AnyGroup(gs, x) = [groups |-> gs, version |-> x, hidden |-> t]
    BY <2>2, Zenon DEF AnyGroup
  <2> QED BY <2>1, <2>3
<1>2. AnyGroup(gs, q).version = q
  BY DEF AnyGroup
<1>3. \E x : pg \in GetGroupsFromDB(db, AnyGroup(gs, x))
  BY <1>1, <1>2 DEF GetPluginGroups
<1> QED BY <1>3, GroupRowsAnswer

-----------------------------------------------------------------------------
(* Selections *)

\* What a bundle will hold: versions with all their images, and groups whose members
\* are among the versions.
VersionsIn(entries) == UNION {{<<e.plugin, v>> : v \in DOMAIN e.artifacts} : e \in entries}
Selected(db, groups, entries) ==
  /\ \A e \in entries : \A v \in DOMAIN e.artifacts :
       Vouched(Keys(db), <<e.plugin, v>>, EntryImages(e))
  /\ \A e \in entries : EntryImages(e) \subseteq Keys(db)
  /\ \A g \in groups : \A v \in DOMAIN g.versions :
       GroupVouched(GroupKeys(db), <<g.group, v>>, VersionsIn(entries))

\* An entry of an answer can be bundled, and so can its recommended version alone.
LEMMA AnswerIsVouched ==
  ASSUME NEW db \in Database
  PROVE  \A e : Answer(db, e) =>
           /\ \A v \in DOMAIN e.artifacts : Vouched(Keys(db), <<e.plugin, v>>, EntryImages(e))
           /\ EntryImages(e) \subseteq Keys(db)
<1> SUFFICES ASSUME NEW e, Answer(db, e)
             PROVE  /\ \A v \in DOMAIN e.artifacts : Vouched(Keys(db), <<e.plugin, v>>, EntryImages(e))
                    /\ EntryImages(e) \subseteq Keys(db)
  OBVIOUS
<1>1. \A v \in DOMAIN e.artifacts : {<<e.plugin, v, a>> : a \in e.artifacts[v]} \subseteq EntryImages(e)
  BY DEF EntryImages
<1>2. EntryImages(e) \subseteq Keys(db)
  BY DEF EntryImages, Answer
<1> QED BY <1>1, <1>2 DEF Answer, Vouched

LEMMA TrimmedIsAnswer ==
  ASSUME NEW db \in Database
  PROVE  \A e : Answer(db, e) =>
           /\ Answer(db, Trimmed(e)) /\ Trimmed(e).plugin = e.plugin
           /\ DOMAIN Trimmed(e).artifacts = {e.recommended}
<1> SUFFICES ASSUME NEW e, Answer(db, e)
             PROVE  /\ Answer(db, Trimmed(e)) /\ Trimmed(e).plugin = e.plugin
                    /\ DOMAIN Trimmed(e).artifacts = {e.recommended}
  OBVIOUS
<1> DEFINE arts == [v \in {e.recommended} |-> e.artifacts[e.recommended]]
<1>1. DOMAIN arts = {e.recommended} /\ arts[e.recommended] = e.artifacts[e.recommended]
  OBVIOUS
<1> HIDE DEF arts
<1>2. /\ Trimmed(e).plugin = e.plugin /\ Trimmed(e).recommended = e.recommended
      /\ Trimmed(e).artifacts = arts /\ DOMAIN Trimmed(e) = DOMAIN e
  BY DEF Trimmed, arts, Answer
<1> QED BY <1>1, <1>2 DEF Answer

\* The members of groups: what is bundled for them is complete, and all of them are.
LEMMA MembersAnswer ==
  ASSUME NEW db \in Database
  PROVE  \A pgs : \A e \in MemberEntries(db, pgs) : Answer(db, e)
<1> SUFFICES ASSUME NEW pgs, NEW e \in MemberEntries(db, pgs) PROVE Answer(db, e)
  OBVIOUS
<1>1. PICK m : e \in {Trimmed(x) : x \in GetPlugins(db, AnyHidden({m.plugin}, m.version))}
  BY Zenon DEF MemberEntries
<1>2. PICK x \in GetPlugins(db, AnyHidden({m.plugin}, m.version)) : e = Trimmed(x)
  BY <1>1
<1> QED BY <1>2, PluginsAnswer, TrimmedIsAnswer

LEMMA MembersAreMet ==
  ASSUME NEW db \in Database, MembersKnown(db)
  PROVE  \A pgs : \A pg \in pgs : GroupAnswer(db, pg) =>
           \A v \in DOMAIN pg.versions :
             GroupVouched(GroupKeys(db), <<pg.group, v>>, VersionsIn(MemberEntries(db, pgs)))
<1> SUFFICES ASSUME NEW pgs, NEW pg \in pgs, GroupAnswer(db, pg), NEW v \in DOMAIN pg.versions
             PROVE  GroupVouched(GroupKeys(db), <<pg.group, v>>, VersionsIn(MemberEntries(db, pgs)))
  OBVIOUS
<1>1. SUFFICES ASSUME NEW k \in GroupKeys(db), VersionOf(k) = <<pg.group, v>>
               PROVE  Met(k[3], VersionsIn(MemberEntries(db, pgs)))
  BY DEF GroupVouched, GroupAnswer
<1>2. PICK m \in pg.versions[v] : k[3] = <<m.plugin, m.version>>
  BY <1>1 DEF GroupAnswer
<1>3. m.version \in Seq(Nat)
  <2>1. PICK g \in db.groups : k = GroupKey(g)
    BY DatabaseKeys
  <2>2. k[3] = <<g.plugin, g.pversion>> /\ g.pversion \in Seq(Nat)
    BY <2>1, DatabaseKeys DEF GroupKey, GroupRow
  <2> QED BY <1>2, <2>2
<1>4. PICK r \in db.plugins : r.plugin = m.plugin /\ IsPrefix(m.version, r.version)
  BY <1>2, DatabaseKeys DEF MembersKnown, Met, RowKey
<1>5. m.version # Latest
  BY <1>3, NotLatest
<1> DEFINE f == AnyHidden({m.plugin}, m.version)
<1>6. GetPlugins(db, f) = GetPluginsFromDB(db, f)
  BY <1>5 DEF GetPlugins, AnyHidden
<1>7. PICK e \in GetPlugins(db, f) : e.plugin = m.plugin
  BY <1>4, <1>6, RowsAreFound
<1>8. Answer(db, e) /\ IsPrefix(m.version, e.recommended)
  BY <1>5, <1>7, PluginsAnswer DEF Answer
<1>9. Trimmed(e) \in MemberEntries(db, pgs)
  <2>1. m \in UNION {UNION Range(x.versions) : x \in pgs}
    BY <1>2 DEF Range
  <2>2. Trimmed(e) \in {Trimmed(x) : x \in GetPlugins(db, AnyHidden({m.plugin}, m.version))}
    BY <1>7
  <2> QED BY <2>1, <2>2, Zenon DEF MemberEntries
<1>10. <<m.plugin, e.recommended>> \in VersionsIn(MemberEntries(db, pgs))
  BY <1>7, <1>8, <1>9, TrimmedIsAnswer DEF VersionsIn
<1> QED BY <1>2, <1>8, <1>10 DEF Met

\* What the flags --group and --plugin select.
LEMMA SelectionIsSelected ==
  ASSUME NEW db \in Database, MembersKnown(db), NEW n \in Nat, NEW k \in Nat,
         NEW gs \in [1..n -> GroupFlags], NEW qs \in [1..k -> PluginFlags],
         NEW sel, sel = Selection(db, gs, qs)
  PROVE  Selected(db, sel.groups, sel.entries)
<1> DEFINE Group(x) == GroupSelection(db, x[1], x[2])
           all == gs \o <<<<Essentials, Latest>>>>
           groups == [i \in DOMAIN all |-> Group(all[i])]
           singles == [i \in DOMAIN qs |-> SingleSelection(db, qs[i])]
           M == MemberEntries(db, UNION Range(groups))
           s == <<M>> \o singles
<1>1. /\ sel.groups = RemoveDuplicatePluginGroups(groups)
      /\ sel.entries = RemoveDuplicatePluginInventoryEntries(s)
  BY DEF Selection
<1>2. \A pg \in UNION Range(groups) : GroupAnswer(db, pg)
  <2>1. \A x : \A pg \in Group(x) : GroupAnswer(db, pg)
    BY GroupsAnswer DEF GroupSelection, AnyGroup
  <2> HIDE DEF Group
  <2> QED BY <2>1 DEF Range
<1>3. sel.groups \subseteq UNION Range(groups)
  BY <1>1 DEF RemoveDuplicatePluginGroups, Range
<1>4. DOMAIN s = 1..(k + 1) /\ s[1] = M /\ \A i \in 2..(k + 1) : s[i] = singles[i - 1]
  <2>1. singles \in [1..k -> {SingleSelection(db, q) : q \in PluginFlags}]
    OBVIOUS
  <2> HIDE DEF singles, M
  <2>2. singles \in Seq({SingleSelection(db, q) : q \in PluginFlags}) /\ Len(singles) = k
    BY <2>1
  <2> QED BY <2>2
<1>5. \A i \in 1..k : \A e \in singles[i] : Answer(db, e)
  BY PluginsAnswer DEF SingleSelection
<1> HIDE DEF groups, all, singles, s
<1>6. \A i \in DOMAIN s : \A e \in s[i] : Answer(db, e)
  BY <1>4, <1>5, MembersAnswer
<1>7. \A e \in sel.entries : Answer(db, e)
  BY <1>1, <1>6 DEF RemoveDuplicatePluginInventoryEntries
<1>8. M \subseteq sel.entries
  BY <1>1, <1>4 DEF RemoveDuplicatePluginInventoryEntries
<1>9. \A g \in sel.groups : \A v \in DOMAIN g.versions :
        GroupVouched(GroupKeys(db), <<g.group, v>>, VersionsIn(sel.entries))
  <2> SUFFICES ASSUME NEW g \in sel.groups, NEW v \in DOMAIN g.versions
               PROVE  GroupVouched(GroupKeys(db), <<g.group, v>>, VersionsIn(sel.entries))
    OBVIOUS
  <2>1. GroupVouched(GroupKeys(db), <<g.group, v>>, VersionsIn(M))
    BY <1>2, <1>3, MembersAreMet
  <2> HIDE DEF M
  <2>2. VersionsIn(M) \subseteq VersionsIn(sel.entries)
    <3>1. \A x : x \in VersionsIn(M) =>
            \E e \in M : x \in {<<e.plugin, w>> : w \in DOMAIN e.artifacts}
      BY DEF VersionsIn
    <3>2. \A x, e : e \in sel.entries /\ x \in {<<e.plugin, w>> : w \in DOMAIN e.artifacts} =>
            x \in VersionsIn(sel.entries)
      BY DEF VersionsIn
    <3> QED BY <1>8, <3>1, <3>2
  <2> QED BY <2>1, <2>2 DEF GroupVouched, Met
<1> QED BY <1>7, <1>9, AnswerIsVouched DEF Selected

\* Without flags everything is selected.
LEMMA EverythingIsSelected ==
  ASSUME NEW db \in Database, MembersKnown(db), NEW sel, sel = EverythingSelected(db)
  PROVE  Selected(db, sel.groups, sel.entries)
<1>1. /\ sel.groups = GetPluginGroups(db, AnyGroup(Groups, <<>>))
      /\ sel.entries = GetPlugins(db, AnyHidden(Plugins, <<>>))
  BY DEF EverythingSelected, AnyGroup
<1>2. \A e \in sel.entries : Answer(db, e)
  BY <1>1, PluginsAnswer
<1>3. \A g \in sel.groups : GroupAnswer(db, g)
  BY <1>1, GroupsAnswer
<1>4. \A x \in Keys(db) : VersionOf(x) \in VersionsIn(sel.entries)
  <2> SUFFICES ASSUME NEW r \in db.plugins PROVE <<r.plugin, r.version>> \in VersionsIn(sel.entries)
    BY DatabaseKeys DEF RowKey, VersionOf
  <2>1. r.plugin \in Plugins /\ r.version \in Nat \X Nat
    BY DatabaseKeys, PublishingAssumption DEF PluginRow
  <2>2. IsPrefix(<<>>, r.version)
    BY <2>1, EmptyPrefix
  <2>3. sel.entries = GetPluginsFromDB(db, AnyHidden(Plugins, <<>>))
    <3>1. <<>> # Latest
      BY DEF Latest
    <3> QED BY <1>1, <3>1 DEF GetPlugins, AnyHidden
  <2>4. PICK e \in sel.entries : e.plugin = r.plugin /\ r.version \in DOMAIN e.artifacts
    BY <2>1, <2>2, <2>3, RowsAreFound
  <2> QED BY <2>4 DEF VersionsIn
<1>5. \A k \in GroupKeys(db) : Met(k[3], VersionsIn(sel.entries))
  <2> SUFFICES ASSUME NEW k \in GroupKeys(db) PROVE Met(k[3], VersionsIn(sel.entries))
    OBVIOUS
  <2>1. PICK x \in Keys(db) : x[1] = k[3][1] /\ IsPrefix(k[3][2], x[2])
    BY DEF MembersKnown, Met
  <2>2. VersionOf(x)[1] = x[1] /\ VersionOf(x)[2] = x[2]
    BY DEF VersionOf
  <2> QED BY <1>4, <2>1, <2>2 DEF Met
<1> QED BY <1>2, <1>3, <1>5, AnswerIsVouched DEF Selected, GroupVouched, GroupAnswer

LEMMA NothingIsSelected ==
  ASSUME NEW db, NEW sel, sel = NothingSelected PROVE Selected(db, sel.groups, sel.entries)
  BY DEF NothingSelected, Selected


-----------------------------------------------------------------------------
(* Statements *)

\* Every version of a group has the plugin lead as a member.
Led(db, lead) ==
  \A k \in GroupKeys(db) : \E j \in GroupKeys(db) : VersionOf(j) = VersionOf(k) /\ j[3][1] = lead

\* What a statement of the builder keeps of a database.
Kept(db, d) ==
  /\ d \in Database
  /\ Keys(d) \subseteq reg.images
  /\ MembersKnown(d)
  /\ Grown(Keys(db), Keys(d))

\* InsertPlugin: rows of a version that is listed meet a key, because every row has an
\* image and every image gives a row.
LEMMA AddKeeps ==
  ASSUME NEW op \in Ops, op.kind = "add", NEW db \in Database,
         Keys(db) \subseteq reg.images, MembersKnown(db),
         NEW r, r = Changed(op, db), r.ok
  PROVE  Kept(db, r.db) /\ GroupKeys(r.db) = GroupKeys(db)
<1> DEFINE rows == ManifestRows(op)
           d == [db EXCEPT !.plugins = @ \cup rows]
<1>1. op.plugin \in Plugins /\ op.version \in Versions /\ op.hidden \in BOOLEAN
  BY DEF Ops
<1>0. \A x \in rows : \E a \in Archs :
        /\ x = [plugin |-> op.plugin, version |-> op.version, arch |-> a, hidden |-> op.hidden]
        /\ <<op.plugin, op.version, a>> \in reg.images
  BY DEF ManifestRows
<1>2. rows \subseteq PluginRow
  <2> SUFFICES ASSUME NEW x \in rows PROVE x \in PluginRow
    OBVIOUS
  <2>1. PICK a \in Archs :
          x = [plugin |-> op.plugin, version |-> op.version, arch |-> a, hidden |-> op.hidden]
    BY <1>0
  <2> QED BY <1>1, <2>1 DEF PluginRow
<1>3. /\ r = Done(d)
      /\ {RowKey(x) : x \in rows} \cap {RowKey(x) : x \in db.plugins} = {}
  <2>1. r = InsertPlugin(db, rows)
    BY DEF Changed, Failed
  <2> HIDE DEF rows
  <2> QED BY <2>1 DEF InsertPlugin, Failed
<1>4. r.db = d
  BY <1>3 DEF Done
<1>5. d \in Database /\ d.plugins = db.plugins \cup rows /\ d.groups = db.groups
  <2> HIDE DEF rows
  <2> QED BY <1>2 DEF Database
<1>6. ASSUME NEW x \in rows
      PROVE  /\ RowKey(x) = <<op.plugin, op.version, x.arch>>
             /\ <<op.plugin, op.version, x.arch>> \in reg.images
  <2>1. PICK a \in Archs :
          /\ x = [plugin |-> op.plugin, version |-> op.version, arch |-> a, hidden |-> op.hidden]
          /\ <<op.plugin, op.version, a>> \in reg.images
    BY <1>0
  <2>2. x.plugin = op.plugin /\ x.version = op.version /\ x.arch = a
    BY <2>1
  <2> QED BY <2>1, <2>2 DEF RowKey
<1>7. \A a \in Archs : <<op.plugin, op.version, a>> \in reg.images =>
        \E x \in rows : RowKey(x) = <<op.plugin, op.version, a>>
  <2> SUFFICES ASSUME NEW a \in Archs, <<op.plugin, op.version, a>> \in reg.images
               PROVE  \E x \in rows : RowKey(x) = <<op.plugin, op.version, a>>
    OBVIOUS
  <2> DEFINE x == [plugin |-> op.plugin, version |-> op.version, arch |-> a, hidden |-> op.hidden]
  <2>1. x \in rows
    BY DEF ManifestRows
  <2>2. RowKey(x) = <<op.plugin, op.version, a>>
    BY DEF RowKey
  <2> QED BY <2>1, <2>2
<1> HIDE DEF rows, d
<1>8. Keys(d) = Keys(db) \cup {RowKey(x) : x \in rows} /\ GroupKeys(d) = GroupKeys(db)
  BY <1>5, DatabaseKeys
<1>9. Keys(d) \subseteq reg.images
  BY <1>6, <1>8
<1>10. MembersKnown(d)
  BY <1>8 DEF MembersKnown, Met
<1>11. ASSUME NEW j \in Keys(db), NEW k \in Keys(d) \ Keys(db), VersionOf(j) = VersionOf(k)
       PROVE  FALSE
  <2>1. PICK x \in rows : k = <<op.plugin, op.version, x.arch>>
    BY <1>6, <1>8, <1>11
  <2>2. PICK y \in db.plugins : j = RowKey(y)
    BY DatabaseKeys
  <2>3. j = <<op.plugin, op.version, y.arch>> /\ y.arch \in Archs
    BY <1>11, <2>1, <2>2, DatabaseKeys DEF RowKey, VersionOf, PluginRow
  <2>4. \E z \in rows : RowKey(z) = j
    BY <1>7, <2>3
  <2> QED BY <1>3, <2>2, <2>4
<1> QED BY <1>4, <1>5, <1>8, <1>9, <1>10, <1>11 DEF Kept, Grown

\* Statements that change columns outside the keys.
LEMMA SameKeys ==
  ASSUME NEW db \in Database, NEW d \in Database, Keys(d) = Keys(db), GroupKeys(d) = GroupKeys(db),
         Keys(db) \subseteq reg.images, MembersKnown(db)
  PROVE  Kept(db, d)
  BY DEF Kept, MembersKnown, Grown

\* updatePluginVersionActivationState
LEMMA ActivateKeeps ==
  ASSUME NEW op \in Ops, op.kind = "activate", NEW db \in Database,
         Keys(db) \subseteq reg.images, MembersKnown(db),
         NEW r, r = Changed(op, db), r.ok
  PROVE  Kept(db, r.db) /\ GroupKeys(r.db) = GroupKeys(db)
<1> DEFINE hit == {x \in db.plugins : x.plugin = op.plugin /\ x.version = op.version}
           new == {[x EXCEPT !.hidden = op.hidden] : x \in hit}
           d == [db EXCEPT !.plugins = (@ \ hit) \cup new]
<1>1. op.hidden \in BOOLEAN
  BY DEF Ops
<1>2. r = Done(d)
  BY DEF Changed, SetPluginHidden, Failed
<1>3. \A x \in PluginRow : /\ [x EXCEPT !.hidden = op.hidden] \in PluginRow
                           /\ RowKey([x EXCEPT !.hidden = op.hidden]) = RowKey(x)
  BY <1>1 DEF PluginRow, RowKey
<1>4. hit \subseteq db.plugins /\ db.plugins \subseteq PluginRow
  BY DatabaseKeys
<1>5. new \subseteq PluginRow
  BY <1>3, <1>4
<1>6. {RowKey(x) : x \in (db.plugins \ hit) \cup new} = {RowKey(x) : x \in db.plugins}
  <2>1. \A y \in new : \E x \in db.plugins : RowKey(y) = RowKey(x)
    BY <1>3, <1>4
  <2>2. \A x \in hit : \E y \in new : RowKey(y) = RowKey(x)
    BY <1>3, <1>4
  <2> HIDE DEF hit, new
  <2> QED BY <1>4, <2>1, <2>2
<1> HIDE DEF hit, new
<1>7. d \in Database /\ d.plugins = (db.plugins \ hit) \cup new /\ d.groups = db.groups
  BY <1>5 DEF Database
<1>8. Keys(d) = Keys(db) /\ GroupKeys(d) = GroupKeys(db)
  BY <1>6, <1>7, DatabaseKeys
<1>9. r.db = d
  BY <1>2 DEF Done
<1> QED BY <1>7, <1>8, <1>9, SameKeys

\* UpdatePluginGroupActivationState
LEMMA GroupActivateKeeps ==
  ASSUME NEW op \in Ops, op.kind = "groupActivate", NEW db \in Database,
         Keys(db) \subseteq reg.images, MembersKnown(db),
         NEW r, r = Changed(op, db), r.ok
  PROVE  Kept(db, r.db) /\ GroupKeys(r.db) = GroupKeys(db)
<1> DEFINE hit == {x \in db.groups : x.group = op.group /\ x.version = op.version}
           new == {[x EXCEPT !.hidden = op.hidden] : x \in hit}
           d == [db EXCEPT !.groups = (@ \ hit) \cup new]
<1>1. op.hidden \in BOOLEAN
  BY DEF Ops
<1>2. r = Done(d)
  BY DEF Changed, SetGroupHidden, Failed
<1>3. \A x \in GroupRow : /\ [x EXCEPT !.hidden = op.hidden] \in GroupRow
                          /\ GroupKey([x EXCEPT !.hidden = op.hidden]) = GroupKey(x)
  BY <1>1 DEF GroupRow, GroupKey
<1>4. hit \subseteq db.groups /\ db.groups \subseteq GroupRow
  BY DatabaseKeys
<1>5. new \subseteq GroupRow
  BY <1>3, <1>4
<1>6. {GroupKey(x) : x \in (db.groups \ hit) \cup new} = {GroupKey(x) : x \in db.groups}
  <2>1. \A y \in new : \E x \in db.groups : GroupKey(y) = GroupKey(x)
    BY <1>3, <1>4
  <2>2. \A x \in hit : \E y \in new : GroupKey(y) = GroupKey(x)
    BY <1>3, <1>4
  <2> HIDE DEF hit, new
  <2> QED BY <1>4, <2>1, <2>2
<1> HIDE DEF hit, new
<1>7. d \in Database /\ d.groups = (db.groups \ hit) \cup new /\ d.plugins = db.plugins
  BY <1>5 DEF Database
<1>8. Keys(d) = Keys(db) /\ GroupKeys(d) = GroupKeys(db)
  BY <1>6, <1>7, DatabaseKeys
<1>9. r.db = d
  BY <1>2 DEF Done
<1> QED BY <1>7, <1>8, <1>9, SameKeys


\* InsertPluginGroup
LEMMA GroupKeeps ==
  ASSUME NEW op \in Ops, op.kind = "group", NEW db \in Database,
         Keys(db) \subseteq reg.images, MembersKnown(db),
         NEW r, r = Changed(op, db), r.ok
  PROVE  /\ Kept(db, r.db)
         /\ \A lead : ~ op.override /\ Led(db, lead) /\ (\E m \in op.members : m.plugin = lead) =>
              Grown(GroupKeys(db), GroupKeys(r.db)) /\ Led(r.db, lead)
<1> DEFINE known == \E x \in db.groups : x.group = op.group /\ ~x.hidden
           kept == IF op.override
                   THEN {x \in db.groups : ~(x.group = op.group /\ x.version = op.version)}
                   ELSE db.groups
           activate == op.activating /\ ~op.hidden
           f(m) == [plugins |-> {m.plugin}, version |-> m.version, hidden |-> activate,
                    archs |-> {x.arch : x \in db.plugins}]
           exact(m) == \E x \in db.plugins : x.plugin = m.plugin /\ x.version = m.version
           doubled == \E m \in op.members, x \in kept :
                        x.group = op.group /\ x.version = op.version /\ x.plugin = m.plugin
           rows == {[group |-> op.group, version |-> op.version, plugin |-> m.plugin,
                     pversion |-> m.version, mandatory |-> m.mandatory,
                     hidden |-> op.hidden] : m \in op.members}
           Activated(x) == \E m \in op.members : x.plugin = m.plugin /\ x.version = m.version
           plugs == {IF activate /\ Activated(x) THEN [x EXCEPT !.hidden = FALSE] ELSE x : x \in db.plugins}
           d == [plugins |-> plugs, groups |-> kept \cup rows]
<1>1. op.group \in Groups /\ op.version \in GroupVersions /\ op.members \in GroupMembers /\ op.hidden = FALSE
  BY DEF Ops
<1>2. /\ r = Done(d) /\ ~ doubled
      /\ \A m \in op.members : GetPlugins(db, f(m)) # {}
  <2>1. r = InsertPluginGroup(db, op, op.override, op.activating)
    BY DEF Changed
  <2>2. Failed(db).ok = FALSE
    BY DEF Failed
  <2> QED BY <2>1, <2>2 DEF InsertPluginGroup
<1>3. r.db = d
  BY <1>2 DEF Done
<1>4. op.members \subseteq Member
  BY <1>1, PublishingAssumption
<1>5. ASSUME NEW m \in op.members PROVE Met(<<m.plugin, m.version>>, Keys(db))
  <2>1. m.version # Latest
    BY <1>4, NotLatest DEF Member
  <2>2. GetPluginsFromDB(db, f(m)) # {}
    <3>1. f(m).version = m.version
      OBVIOUS
    <3> HIDE DEF f
    <3> QED BY <1>2, <2>1, <3>1 DEF GetPlugins
  <2>3. PICK x \in db.plugins : PluginWhere(f(m), x)
    <3> HIDE DEF f
    <3> QED BY <2>2 DEF GetPluginsFromDB
  <2>4. x.plugin = m.plugin /\ IsPrefix(m.version, x.version)
    BY <2>3 DEF PluginWhere
  <2>5. RowKey(x) \in Keys(db) /\ RowKey(x)[1] = x.plugin /\ RowKey(x)[2] = x.version
    BY DatabaseKeys DEF RowKey
  <2> QED BY <2>4, <2>5 DEF Met
<1>6. plugs \subseteq PluginRow /\ {RowKey(x) : x \in plugs} = {RowKey(x) : x \in db.plugins}
  <2> DEFINE g(x) == IF activate /\ Activated(x) THEN [x EXCEPT !.hidden = FALSE] ELSE x
  <2>1. \A x \in PluginRow : [x EXCEPT !.hidden = FALSE] \in PluginRow
                             /\ RowKey([x EXCEPT !.hidden = FALSE]) = RowKey(x)
    BY DEF PluginRow, RowKey
  <2>2. \A x \in db.plugins : g(x) \in PluginRow /\ RowKey(g(x)) = RowKey(x)
    <3> HIDE DEF activate, Activated
    <3> QED BY <2>1, DatabaseKeys
  <2>3. plugs = {g(x) : x \in db.plugins}
    OBVIOUS
  <2> HIDE DEF g, plugs
  <2>4. \A y \in plugs : \E x \in db.plugins : y = g(x)
    BY <2>3
  <2>5. \A x \in db.plugins : g(x) \in plugs
    BY <2>3
  <2> QED BY <2>2, <2>4, <2>5
<1>7. rows \subseteq GroupRow /\ kept \subseteq db.groups /\ (~ op.override => kept = db.groups)
  <2>1. ASSUME NEW m \in op.members
        PROVE  [group |-> op.group, version |-> op.version, plugin |-> m.plugin,
                pversion |-> m.version, mandatory |-> m.mandatory, hidden |-> op.hidden] \in GroupRow
    <3>1. m.plugin \in Plugins /\ m.version \in Seq(Nat) /\ m.mandatory \in BOOLEAN /\ op.hidden \in BOOLEAN
      BY <1>1, <1>4 DEF Member
    <3> QED BY <1>1, <3>1 DEF GroupRow
  <2> QED BY <2>1
<1>8. \A x \in rows : \E m \in op.members : GroupKey(x) = <<op.group, op.version, <<m.plugin, m.version>>>>
  BY DEF GroupKey
<1>9. \A m \in op.members : <<op.group, op.version, <<m.plugin, m.version>>>> \in {GroupKey(x) : x \in rows}
  <2> SUFFICES ASSUME NEW m \in op.members
               PROVE  <<op.group, op.version, <<m.plugin, m.version>>>> \in {GroupKey(x) : x \in rows}
    OBVIOUS
  <2> DEFINE x == [group |-> op.group, version |-> op.version, plugin |-> m.plugin,
                   pversion |-> m.version, mandatory |-> m.mandatory, hidden |-> op.hidden]
  <2>1. x \in rows
    OBVIOUS
  <2>2. GroupKey(x) = <<op.group, op.version, <<m.plugin, m.version>>>>
    BY DEF GroupKey
  <2> QED BY <2>1, <2>2
<1> HIDE DEF rows, kept, plugs
<1>10. d \in Database /\ d.plugins = plugs /\ d.groups = kept \cup rows
  BY <1>6, <1>7, DatabaseKeys DEF Database
<1> HIDE DEF d
<1>11. Keys(d) = Keys(db) /\ GroupKeys(d) = {GroupKey(x) : x \in kept} \cup {GroupKey(x) : x \in rows}
  BY <1>6, <1>10, DatabaseKeys
<1>12. \A k \in GroupKeys(d) : k \in GroupKeys(db) \/
          \E m \in op.members : k = <<op.group, op.version, <<m.plugin, m.version>>>>
  BY <1>7, <1>8, <1>11, DatabaseKeys
<1>13. MembersKnown(d)
  <2> SUFFICES ASSUME NEW k \in GroupKeys(d) PROVE Met(k[3], Keys(db))
    BY <1>11 DEF MembersKnown
  <2> QED BY <1>5, <1>12 DEF MembersKnown
<1>14. Kept(db, d)
  BY <1>10, <1>11, <1>13 DEF Kept, Grown
<1>15. ASSUME NEW lead, ~ op.override, Led(db, lead), NEW m \in op.members, m.plugin = lead
       PROVE  Grown(GroupKeys(db), GroupKeys(d)) /\ Led(d, lead)
  <2> DEFINE new == <<op.group, op.version, <<m.plugin, m.version>>>>
  <2>1. GroupKeys(db) \subseteq GroupKeys(d) /\ new \in GroupKeys(d)
    BY <1>7, <1>9, <1>11, <1>15, DatabaseKeys
  <2>2. ASSUME NEW j \in GroupKeys(db), VersionOf(j) = <<op.group, op.version>> PROVE FALSE
    <3>1. PICK i \in GroupKeys(db) : VersionOf(i) = <<op.group, op.version>> /\ i[3][1] = lead
      BY <1>15, <2>2 DEF Led
    <3>2. PICK x \in db.groups : i = GroupKey(x)
      BY DatabaseKeys
    <3>3. x.group = op.group /\ x.version = op.version /\ x.plugin = m.plugin
      BY <1>15, <3>1, <3>2 DEF GroupKey, VersionOf
    <3> QED BY <1>2, <1>7, <1>15, <3>3
  <2>3. \A x : VersionOf(<<op.group, op.version, x>>) = <<op.group, op.version>>
    BY DEF VersionOf
  <2>4. Grown(GroupKeys(db), GroupKeys(d))
    BY <1>12, <2>1, <2>2, <2>3 DEF Grown
  <2>5. new[3][1] = lead
    BY <1>15
  <2> HIDE DEF new
  <2>6. VersionOf(new) = <<op.group, op.version>>
    BY <2>3 DEF new
  <2>7. Led(d, lead)
    BY <1>12, <1>15, <2>1, <2>3, <2>5, <2>6 DEF Led
  <2> QED BY <2>4, <2>7
<1> QED BY <1>3, <1>14, <1>15

\* Any command of the builder that changes the database.
LEMMA ChangeKeeps ==
  ASSUME NEW op \in Ops, NEW db \in Database, Keys(db) \subseteq reg.images, MembersKnown(db),
         NEW r, r = Changed(op, db), r.ok
  PROVE  /\ Kept(db, r.db)
         /\ \A lead : /\ op.kind = "group" => ~ op.override /\ \E m \in op.members : m.plugin = lead
                      /\ Led(db, lead)
                   => Grown(GroupKeys(db), GroupKeys(r.db)) /\ Led(r.db, lead)
<1>1. op.kind \in {"add", "activate", "group", "groupActivate"}
  BY DEF Ops
<1>2. CASE op.kind = "group"
  BY <1>2, GroupKeeps
<1>3. CASE op.kind # "group"
  <2>1. Kept(db, r.db) /\ GroupKeys(r.db) = GroupKeys(db)
    BY <1>1, <1>3, AddKeeps, ActivateKeeps, GroupActivateKeeps
  <2> QED BY <2>1 DEF Grown, Led
<1> QED BY <1>2, <1>3


-----------------------------------------------------------------------------
(* Rows have images, whoever publishes *)

Job == [pc : {"idle", "change", "push"}, op : Ops \cup {None}, db : Database \cup {None}]

Shape ==
  /\ DOMAIN reg = {"images", "db"} /\ reg.db \in Database \cup {None}
  /\ pub \in [Publishers -> Job]
  /\ \A b \in Publishers : /\ pub[b].pc # "idle" => pub[b].db \in Database
                           /\ pub[b].pc = "change" => pub[b].op \in Ops
  /\ DOMAIN up = {"pc", "tar", "todo", "meta"} /\ DOMAIN priv = {"images", "db", "meta", "bundles"}

\* Also of the databases that builders have at hand.
RowsKept ==
  /\ Keys(reg.db) \subseteq reg.images /\ MembersKnown(reg.db)
  /\ \A b \in Publishers : Keys(pub[b].db) \subseteq reg.images /\ MembersKnown(pub[b].db)

LEMMA NoKeys == Keys(None) = {} /\ GroupKeys(None) = {} /\ MembersKnown(None)
  BY DEF Keys, GroupKeys, MembersKnown

LEMMA NewKeys ==
  CreateSchema \in Database /\ Keys(CreateSchema) = {} /\ GroupKeys(CreateSchema) = {} /\ MembersKnown(CreateSchema)
<1>1. CreateSchema \in Database /\ CreateSchema.plugins = {} /\ CreateSchema.groups = {}
  BY DEF CreateSchema, EmptyDB, Database
<1> QED BY <1>1 DEF Keys, GroupKeys, MembersKnown

LEMMA NoJobType == NoJob \in Job /\ NoJob.pc = "idle" /\ NoJob.db = None
  BY DEF NoJob, Job

\* What the commands other than those on the inventory change.
LEMMA ReleaseEffect ==
  ASSUME DOMAIN reg = {"images", "db"}, Release
  PROVE  /\ UNCHANGED <<pub, dl, tars, up, priv>>
         /\ DOMAIN reg' = {"images", "db"} /\ reg'.db = reg.db /\ reg.images \subseteq reg'.images
<1>1. CASE UNCHANGED <<reg, pub, dl, tars, up, priv>>
  BY <1>1
<1>2. ASSUME NEW u \in Units, PublishPush(u)
      PROVE  /\ UNCHANGED <<pub, dl, tars, up, priv>>
             /\ DOMAIN reg' = {"images", "db"} /\ reg'.db = reg.db /\ reg.images \subseteq reg'.images
  BY <1>2 DEF PublishPush
<1>3. UNCHANGED <<reg, pub, dl, tars, up, priv>> \/ \E u \in Units : PublishPush(u)
  BY DEF Release, Compile, GeneratePush, GenerateSave, PublishCheck, BuildDone, PublishDone
<1> QED BY <1>1, <1>2, <1>3

LEMMA DownloadEffect == ASSUME Download PROVE UNCHANGED <<reg, pub, up, priv>>
  BY DEF Download, DownloadSelect, DownloadSave, DownloadFail

LEMMA UploadEffect ==
  ASSUME Upload, DOMAIN up = {"pc", "tar", "todo", "meta"}, DOMAIN priv = {"images", "db", "meta", "bundles"}
  PROVE  /\ UNCHANGED <<reg, pub, dl, tars>>
         /\ DOMAIN up' = {"pc", "tar", "todo", "meta"} /\ DOMAIN priv' = {"images", "db", "meta", "bundles"}
  BY DEF Upload, UploadStart, UploadInventory, UploadImage, UploadMerge, UploadMetadata, UploadFail, NoUpload

LEMMA InventoryEffect == ASSUME Inventory PROVE UNCHANGED <<dl, tars, up, priv>>
  BY DEF Inventory, InventoryInit, InventoryPull, InventoryChange, InventoryPush

LEMMA RowsInit == Init => Shape /\ RowsKept
<1> SUFFICES ASSUME Init PROVE Shape /\ RowsKept
  OBVIOUS
<1>1. pub = [b \in Publishers |-> NoJob] /\ reg \in CentralInits
  BY DEF Init
<1>2. \A b \in Publishers : pub[b] = NoJob
  BY <1>1
<1>3. DOMAIN reg = {"images", "db"} /\ (reg.db # None => reg.db \in Database /\ Consistent(reg.db, reg.images))
  BY <1>1, PublishingAssumption
<1>4. DOMAIN up = {"pc", "tar", "todo", "meta"} /\ DOMAIN priv = {"images", "db", "meta", "bundles"}
  BY DEF Init, NoUpload
<1>5. Shape
  BY <1>1, <1>2, <1>3, <1>4, NoJobType DEF Shape
<1>5b. \A b \in Publishers : Keys(pub[b].db) \subseteq reg.images /\ MembersKnown(pub[b].db)
  BY <1>2, NoKeys, NoJobType DEF MembersKnown
<1>6. CASE reg.db = None
  BY <1>5, <1>5b, <1>6, NoKeys DEF RowsKept, MembersKnown
<1>7. CASE reg.db # None
  <2>1. Keys(reg.db) \subseteq reg.images
    BY <1>3, <1>7, DatabaseKeys DEF Consistent
  <2>2. ASSUME NEW k \in GroupKeys(reg.db) PROVE Met(k[3], Keys(reg.db))
    <3>1. PICK g \in reg.db.groups : k = GroupKey(g)
      BY <1>3, <1>7, DatabaseKeys
    <3>2. PICK r \in reg.db.plugins : r.plugin = g.plugin /\ IsPrefix(g.pversion, r.version)
      BY <1>3, <1>7 DEF Consistent
    <3>3. k[3] = <<g.plugin, g.pversion>>
      BY <3>1 DEF GroupKey
    <3>4. RowKey(r) \in Keys(reg.db) /\ RowKey(r)[1] = r.plugin /\ RowKey(r)[2] = r.version
      BY <1>3, <1>7, DatabaseKeys DEF RowKey
    <3> QED BY <3>2, <3>3, <3>4 DEF Met
  <2>3. MembersKnown(reg.db)
    BY <2>2 DEF MembersKnown
  <2> QED BY <1>5, <1>5b, <2>1, <2>3 DEF RowsKept
<1> QED BY <1>5, <1>6, <1>7

\* A builder command goes on to the job j with a database that is good.
LEMMA JobStep ==
  ASSUME Shape, RowsKept, NEW b \in Publishers, NEW j \in Job, pub' = [pub EXCEPT ![b] = j],
         j.pc # "idle" => j.db \in Database, j.pc = "change" => j.op \in Ops,
         Keys(j.db) \subseteq reg.images, MembersKnown(j.db),
         UNCHANGED <<reg, up, priv>>
  PROVE  Shape' /\ RowsKept'
<1>1. \A c \in Publishers : pub'[c] = IF c = b THEN j ELSE pub[c]
  BY DEF Shape
<1>2. pub' \in [Publishers -> Job]
  BY DEF Shape
<1>3. Shape'
  BY <1>1, <1>2 DEF Shape
<1>4. RowsKept'
  BY <1>1 DEF RowsKept
<1> QED BY <1>3, <1>4


\* InitializeInventory, getInventoryDBFile, the change and putInventoryDBFile.
LEMMA InitializeStep ==
  ASSUME Shape, RowsKept, NEW b \in Publishers, NEW o, InventoryInit(b, o) PROVE Shape' /\ RowsKept'
<1> DEFINE j == [pc |-> "push", op |-> None, db |-> CreateSchema]
<1>1. j \in Job /\ j.pc = "push" /\ j.db = CreateSchema
  BY NewKeys DEF Job
<1>2. pub' = [pub EXCEPT ![b] = j] /\ UNCHANGED <<reg, up, priv>>
  BY DEF InventoryInit
<1> HIDE DEF j
<1> QED BY <1>1, <1>2, NewKeys, JobStep DEF MembersKnown

LEMMA PullStep ==
  ASSUME Shape, RowsKept, NEW b \in Publishers, NEW op \in Ops, InventoryPull(b, op) PROVE Shape' /\ RowsKept'
<1> DEFINE j == [pc |-> "change", op |-> op, db |-> reg.db]
<1>1. reg.db \in Database
  BY DEF InventoryPull, Shape
<1>2. j \in Job /\ j.pc = "change" /\ j.op = op /\ j.db = reg.db
  BY <1>1 DEF Job
<1>3. pub' = [pub EXCEPT ![b] = j] /\ UNCHANGED <<reg, up, priv>>
  BY DEF InventoryPull
<1> HIDE DEF j
<1>4. Keys(j.db) \subseteq reg.images /\ MembersKnown(j.db)
  BY <1>2 DEF RowsKept, MembersKnown
<1> QED BY <1>1, <1>2, <1>3, <1>4, JobStep

LEMMA ChangeStep ==
  ASSUME Shape, RowsKept, NEW b \in Publishers, InventoryChange(b) PROVE Shape' /\ RowsKept'
<1>1. PICK r : /\ r = Changed(pub[b].op, pub[b].db)
               /\ pub' = [pub EXCEPT ![b] = IF r.ok THEN [@ EXCEPT !.pc = "push", !.db = r.db] ELSE NoJob]
  BY DEF InventoryChange
<1>2. pub[b] \in Job /\ pub[b].op \in Ops /\ pub[b].db \in Database /\ UNCHANGED <<reg, up, priv>>
  BY DEF Shape, InventoryChange
<1>3. Keys(pub[b].db) \subseteq reg.images /\ MembersKnown(pub[b].db)
  BY DEF RowsKept
<1>4. CASE r.ok
  <2> DEFINE j == [pub[b] EXCEPT !.pc = "push", !.db = r.db]
  <2>1. Kept(pub[b].db, r.db)
    BY <1>1, <1>2, <1>3, <1>4, ChangeKeeps
  <2>2. pub' = [pub EXCEPT ![b] = j]
    BY <1>1, <1>2, <1>4 DEF Shape
  <2>3. j \in Job /\ j.pc = "push" /\ j.db = r.db
    BY <1>2, <2>1 DEF Job, Kept
  <2> HIDE DEF j
  <2>4. Keys(j.db) \subseteq reg.images /\ MembersKnown(j.db) /\ j.db \in Database
    BY <2>1, <2>3 DEF Kept, MembersKnown
  <2> QED BY <1>2, <2>2, <2>3, <2>4, JobStep
<1>5. CASE ~ r.ok
  <2>1. pub' = [pub EXCEPT ![b] = NoJob]
    BY <1>1, <1>5
  <2>2. Keys(NoJob.db) \subseteq reg.images /\ MembersKnown(NoJob.db)
    BY NoJobType, NoKeys DEF MembersKnown
  <2> QED BY <1>2, <2>1, <2>2, NoJobType, JobStep
<1> QED BY <1>4, <1>5

LEMMA PushStep ==
  ASSUME Shape, RowsKept, NEW b \in Publishers, InventoryPush(b) PROVE Shape' /\ RowsKept'
<1>1. pub' = [pub EXCEPT ![b] = NoJob] /\ UNCHANGED <<up, priv>>
  BY DEF InventoryPush
<1>2. \A c \in Publishers : pub'[c] = IF c = b THEN NoJob ELSE pub[c]
  BY <1>1 DEF Shape
<1>3. pub' \in [Publishers -> Job]
  BY <1>1, NoJobType DEF Shape
<1>4. pub[b].db \in Database /\ Keys(pub[b].db) \subseteq reg.images /\ MembersKnown(pub[b].db)
  BY DEF Shape, RowsKept, InventoryPush
<1>5. /\ DOMAIN reg' = {"images", "db"} /\ reg'.images = reg.images
      /\ reg'.db = pub[b].db \/ reg'.db = reg.db
  BY DEF InventoryPush, Shape
<1>6. Shape'
  BY <1>1, <1>2, <1>3, <1>4, <1>5, NoJobType DEF Shape
<1>7. Keys(reg'.db) \subseteq reg'.images /\ MembersKnown(reg'.db)
  BY <1>4, <1>5 DEF RowsKept, MembersKnown
<1>8. \A c \in Publishers : Keys(pub'[c].db) \subseteq reg'.images /\ MembersKnown(pub'[c].db)
  BY <1>2, <1>5, NoJobType, NoKeys DEF RowsKept, MembersKnown
<1>9. RowsKept'
  BY <1>7, <1>8 DEF RowsKept
<1> QED BY <1>6, <1>9

\* Images are added, databases stay.
LEMMA RowsStay ==
  ASSUME Shape, RowsKept, UNCHANGED pub, DOMAIN reg' = {"images", "db"}, reg'.db = reg.db,
         reg.images \subseteq reg'.images,
         DOMAIN up' = {"pc", "tar", "todo", "meta"}, DOMAIN priv' = {"images", "db", "meta", "bundles"}
  PROVE  Shape' /\ RowsKept'
<1>1. Shape'
  BY DEF Shape
<1>2. Keys(reg'.db) \subseteq reg'.images /\ MembersKnown(reg'.db)
  BY DEF RowsKept, MembersKnown
<1>3. \A c \in Publishers : Keys(pub'[c].db) \subseteq reg'.images /\ MembersKnown(pub'[c].db)
  BY DEF RowsKept
<1>4. RowsKept'
  BY <1>2, <1>3 DEF RowsKept
<1> QED BY <1>1, <1>4

LEMMA RowsNext == Shape /\ RowsKept /\ [Next]_vars => Shape' /\ RowsKept'
<1> SUFFICES ASSUME Shape, RowsKept, [Next]_vars PROVE Shape' /\ RowsKept'
  OBVIOUS
<1>1. /\ DOMAIN reg = {"images", "db"}
      /\ DOMAIN up = {"pc", "tar", "todo", "meta"} /\ DOMAIN priv = {"images", "db", "meta", "bundles"}
  BY DEF Shape
<1>2. CASE UNCHANGED vars
  BY <1>1, <1>2, RowsStay DEF vars
<1>3. CASE Release
  BY <1>1, <1>3, ReleaseEffect, RowsStay
<1>4. CASE Inventory
  BY <1>4, InitializeStep, PullStep, ChangeStep, PushStep DEF Inventory
<1>5. CASE Download
  BY <1>1, <1>5, DownloadEffect, RowsStay
<1>6. CASE Upload
  BY <1>1, <1>6, UploadEffect, RowsStay
<1> QED BY <1>2, <1>3, <1>4, <1>5, <1>6 DEF Next

LEMMA RowsAlways == Spec => [](Shape /\ RowsKept)
  BY RowsInit, RowsNext, PTL DEF Spec

\* Every row of the published inventory names an image of the registry, for any number
\* of publishers who overwrite each other's inventories, with pushes that fail and
\* publishing errors that the goroutines of publish-package lose.
THEOREM RowsKeepImages == Spec => []RowsHaveImages
<1>1. Shape /\ RowsKept => RowsHaveImages
  <2> SUFFICES ASSUME Shape, RowsKept, reg.db # None, NEW r \in reg.db.plugins
               PROVE  RowKey(r) \in reg.images
    BY DEF RowsHaveImages
  <2>1. reg.db \in Database
    BY DEF Shape
  <2> QED BY <2>1, DatabaseKeys DEF RowsKept
<1> QED BY <1>1, RowsAlways, PTL

-----------------------------------------------------------------------------
(* Uploads *)

\* The merged metadata has all that the registry's has; there is one upload at a time.
Merging ==
  up.pc = "metadata" /\ priv.meta # None =>
    priv.meta.plugins \subseteq up.meta.plugins /\ priv.meta.groups \subseteq up.meta.groups

LEMMA MergingNext == Shape /\ Merging /\ [Next]_vars => Merging'
<1> SUFFICES ASSUME Shape, Merging, [Next]_vars PROVE Merging'
  OBVIOUS
<1>1. DOMAIN up = {"pc", "tar", "todo", "meta"} /\ DOMAIN priv = {"images", "db", "meta", "bundles"}
      /\ DOMAIN reg = {"images", "db"}
  BY DEF Shape
<1>2. CASE UNCHANGED <<up, priv>>
  BY <1>2 DEF Merging
<1>3. CASE UploadMerge
  <2>1. CASE up'.meta = IF priv.meta = None THEN up.tar.meta ELSE MergeMetadata(up.tar.meta, priv.meta)
    BY <1>3, <2>1 DEF UploadMerge, Merging, MergeMetadata
  <2>2. CASE up'.pc = "unread"
    BY <2>2 DEF Merging
  <2> QED BY <1>1, <1>3, <2>1, <2>2 DEF UploadMerge
<1>4. CASE (\E t \in tars : UploadStart(t)) \/ UploadInventory \/ UploadImage \/ UploadMetadata \/ UploadFail
  <2>1. up'.pc # "metadata"
    BY <1>1, <1>4 DEF UploadStart, UploadInventory, UploadImage, UploadMetadata, UploadFail, NoUpload
  <2> QED BY <2>1 DEF Merging
<1>5. CASE Release
  BY <1>1, <1>2, <1>5, ReleaseEffect
<1>6. CASE Inventory
  BY <1>2, <1>6, InventoryEffect
<1>7. CASE Download
  BY <1>2, <1>7, DownloadEffect
<1> QED BY <1>2, <1>3, <1>4, <1>5, <1>6, <1>7 DEF Next, Upload, vars


-----------------------------------------------------------------------------
(* One publisher: versions are published once and stay as they are *)

OnePublisher == \A b, c \in Publishers : b = c
NoOverride == TRUE \notin Overrides

\* All manifests of groups have one plugin in common, as those of a registry that a
\* run starts from.  Otherwise a second manifest of a version adds members to it.
CommonMember(lead) ==
  /\ \A ms \in GroupMembers : \E m \in ms : m.plugin = lead
  /\ \A r \in CentralInits : Led(r.db, lead)

\* The publisher works on what is published.
Turns ==
  \A b \in Publishers : /\ pub[b].pc = "change" => pub[b].db = reg.db
                        /\ pub[b].pc = "push" => Grown(Keys(reg.db), Keys(pub[b].db))
GroupTurns(lead) ==
  /\ Led(reg.db, lead)
  /\ \A b \in Publishers : pub[b].pc = "push" =>
       Grown(GroupKeys(reg.db), GroupKeys(pub[b].db)) /\ Led(pub[b].db, lead)

LEMMA GrownSame == \A K : Grown(K, K)
  BY DEF Grown

\* Steps that leave the publisher and the database alone.
LEMMA TurnsStay ==
  ASSUME Turns, UNCHANGED pub, reg'.db = reg.db
  PROVE  /\ Turns' /\ Grown(Keys(reg.db), Keys(reg'.db)) /\ (reg.db # None => reg'.db # None)
         /\ \A lead : GroupTurns(lead) => GroupTurns(lead)' /\ Grown(GroupKeys(reg.db), GroupKeys(reg'.db))
<1>1. Turns' /\ Grown(Keys(reg.db), Keys(reg'.db))
  BY GrownSame DEF Turns
<1>2. ASSUME NEW lead, GroupTurns(lead)
      PROVE  GroupTurns(lead)' /\ Grown(GroupKeys(reg.db), GroupKeys(reg'.db))
  <2>1. Led(reg'.db, lead)
    BY <1>2 DEF GroupTurns, Led
  <2> QED BY <1>2, <2>1, GrownSame DEF GroupTurns
<1> QED BY <1>1, <1>2

\* The step of the one publisher b to the job j, with the database as it is.
LEMMA TurnTo ==
  ASSUME OnePublisher, Shape, Turns, NEW b \in Publishers, NEW j, pub' = [pub EXCEPT ![b] = j], UNCHANGED reg,
         j.pc = "change" => j.db = reg.db,
         j.pc = "push" => Grown(Keys(reg.db), Keys(j.db))
  PROVE  /\ Turns' /\ Grown(Keys(reg.db), Keys(reg'.db)) /\ (reg.db # None => reg'.db # None)
         /\ \A lead : /\ GroupTurns(lead)
                      /\ j.pc = "push" => Grown(GroupKeys(reg.db), GroupKeys(j.db)) /\ Led(j.db, lead)
                   => GroupTurns(lead)' /\ Grown(GroupKeys(reg.db), GroupKeys(reg'.db))
<1>1. \A c \in Publishers : pub'[c] = j
  BY DEF OnePublisher, Shape
<1>2. Turns'
  BY <1>1 DEF Turns
<1>3. ASSUME NEW lead, GroupTurns(lead),
             j.pc = "push" => Grown(GroupKeys(reg.db), GroupKeys(j.db)) /\ Led(j.db, lead)
      PROVE  GroupTurns(lead)' /\ Grown(GroupKeys(reg.db), GroupKeys(reg'.db))
  <2>1. Led(reg'.db, lead)
    BY <1>3 DEF GroupTurns, Led
  <2>2. \A c \in Publishers : pub'[c].pc = "push" =>
          Grown(GroupKeys(reg'.db), GroupKeys(pub'[c].db)) /\ Led(pub'[c].db, lead)
    BY <1>1, <1>3 DEF Led
  <2> QED BY <2>1, <2>2, GrownSame DEF GroupTurns
<1> QED BY <1>2, <1>3, GrownSame

\* What is published grows by whole versions.
LEMMA TurnsNext ==
  ASSUME OnePublisher, NoOverride, Shape, RowsKept, Turns, [Next]_vars
  PROVE  /\ Turns' /\ Grown(Keys(reg.db), Keys(reg'.db)) /\ (reg.db # None => reg'.db # None)
         /\ \A lead : CommonMember(lead) /\ GroupTurns(lead) =>
              GroupTurns(lead)' /\ Grown(GroupKeys(reg.db), GroupKeys(reg'.db))
<1>1. CASE UNCHANGED pub /\ reg'.db = reg.db
  BY <1>1, TurnsStay
<1>2. CASE UNCHANGED vars \/ Release \/ Download \/ Upload
  BY <1>1, <1>2, ReleaseEffect, DownloadEffect, UploadEffect DEF vars, Shape
<1>3. ASSUME NEW b \in Publishers, NEW o \in Overrides, InventoryInit(b, o)
      PROVE  /\ Turns' /\ Grown(Keys(reg.db), Keys(reg'.db)) /\ (reg.db # None => reg'.db # None)
             /\ \A lead : GroupTurns(lead) => GroupTurns(lead)' /\ Grown(GroupKeys(reg.db), GroupKeys(reg'.db))
  <2> DEFINE j == [pc |-> "push", op |-> None, db |-> CreateSchema]
  <2>1. o = FALSE
    BY PublishingAssumption DEF NoOverride
  <2>2. reg.db = None
    BY <1>3, <2>1 DEF InventoryInit
  <2>3. pub' = [pub EXCEPT ![b] = j] /\ UNCHANGED reg /\ j.pc = "push" /\ j.db = CreateSchema
    BY <1>3 DEF InventoryInit
  <2> HIDE DEF j
  <2>4. Grown(Keys(reg.db), Keys(j.db)) /\ Grown(GroupKeys(reg.db), GroupKeys(j.db))
    BY <2>2, <2>3, NewKeys, NoKeys DEF Grown
  <2>5. \A lead : Led(j.db, lead)
    BY <2>3, NewKeys DEF Led
  <2> QED BY <2>3, <2>4, <2>5, TurnTo
<1>4. ASSUME NEW b \in Publishers, NEW op \in Ops, InventoryPull(b, op)
      PROVE  /\ Turns' /\ Grown(Keys(reg.db), Keys(reg'.db)) /\ (reg.db # None => reg'.db # None)
             /\ \A lead : GroupTurns(lead) => GroupTurns(lead)' /\ Grown(GroupKeys(reg.db), GroupKeys(reg'.db))
  <2> DEFINE j == [pc |-> "change", op |-> op, db |-> reg.db]
  <2>1. pub' = [pub EXCEPT ![b] = j] /\ UNCHANGED reg /\ j.pc = "change" /\ j.db = reg.db
    BY <1>4 DEF InventoryPull
  <2> HIDE DEF j
  <2> QED BY <2>1, TurnTo
<1>5. ASSUME NEW b \in Publishers, InventoryChange(b)
      PROVE  /\ Turns' /\ Grown(Keys(reg.db), Keys(reg'.db)) /\ (reg.db # None => reg'.db # None)
             /\ \A lead : CommonMember(lead) /\ GroupTurns(lead) =>
                  GroupTurns(lead)' /\ Grown(GroupKeys(reg.db), GroupKeys(reg'.db))
  <2>1. PICK r : /\ r = Changed(pub[b].op, pub[b].db)
                 /\ pub' = [pub EXCEPT ![b] = IF r.ok THEN [@ EXCEPT !.pc = "push", !.db = r.db] ELSE NoJob]
    BY <1>5 DEF InventoryChange
  <2>2. /\ pub[b] \in Job /\ pub[b].op \in Ops /\ pub[b].db \in Database /\ UNCHANGED reg
        /\ pub[b].db = reg.db
    BY <1>5 DEF Shape, InventoryChange, Turns
  <2>3. CASE ~ r.ok
    <3>1. pub' = [pub EXCEPT ![b] = NoJob]
      BY <2>1, <2>3
    <3> QED BY <2>2, <3>1, NoJobType, TurnTo
  <2>4. CASE r.ok
    <3> DEFINE j == [pub[b] EXCEPT !.pc = "push", !.db = r.db]
    <3>1. pub' = [pub EXCEPT ![b] = j] /\ j.pc = "push" /\ j.db = r.db
      BY <2>1, <2>2, <2>4 DEF Shape, Job
    <3> HIDE DEF j
    <3>2. /\ Kept(pub[b].db, r.db)
          /\ \A lead : /\ pub[b].op.kind = "group" =>
                            ~ pub[b].op.override /\ \E m \in pub[b].op.members : m.plugin = lead
                       /\ Led(pub[b].db, lead)
                    => Grown(GroupKeys(pub[b].db), GroupKeys(r.db)) /\ Led(r.db, lead)
      <4>1. Keys(pub[b].db) \subseteq reg.images /\ MembersKnown(pub[b].db)
        BY DEF RowsKept
      <4> QED BY <2>1, <2>2, <2>4, <4>1, ChangeKeeps
    <3>3. Grown(Keys(reg.db), Keys(j.db))
      BY <2>2, <3>1, <3>2 DEF Kept
    <3>4. pub[b].op.kind = "group" => ~ pub[b].op.override /\ pub[b].op.members \in GroupMembers
      BY <2>2 DEF Ops, NoOverride
    <3>5. ASSUME NEW lead, CommonMember(lead), GroupTurns(lead)
          PROVE  Grown(GroupKeys(reg.db), GroupKeys(j.db)) /\ Led(j.db, lead)
      <4>1. Led(pub[b].db, lead)
        BY <2>2, <3>5 DEF GroupTurns, Led
      <4>2. pub[b].op.kind = "group" => ~ pub[b].op.override /\ \E m \in pub[b].op.members : m.plugin = lead
        BY <3>4, <3>5 DEF CommonMember
      <4>3. Grown(GroupKeys(pub[b].db), GroupKeys(r.db)) /\ Led(r.db, lead)
        BY <3>2, <4>1, <4>2
      <4> QED BY <2>2, <3>1, <4>3 DEF Led
    <3> QED BY <2>2, <3>1, <3>3, <3>5, TurnTo
  <2> QED BY <2>3, <2>4
<1>6. ASSUME NEW b \in Publishers, InventoryPush(b)
      PROVE  /\ Turns' /\ Grown(Keys(reg.db), Keys(reg'.db)) /\ (reg.db # None => reg'.db # None)
             /\ \A lead : GroupTurns(lead) => GroupTurns(lead)' /\ Grown(GroupKeys(reg.db), GroupKeys(reg'.db))
  <2>1. \A c \in Publishers : pub'[c] = NoJob
    BY <1>6 DEF InventoryPush, OnePublisher, Shape
  <2>2. pub[b].pc = "push" /\ pub[b].db \in Database /\ (reg'.db = pub[b].db \/ reg'.db = reg.db)
    BY <1>6 DEF InventoryPush, Shape
  <2>3. reg'.db # None \/ reg'.db = reg.db
    BY <2>2, DatabaseKeys
  <2>4. Turns' /\ \A c \in Publishers : pub'[c].pc # "push"
    BY <2>1, NoJobType DEF Turns
  <2>5. Grown(Keys(reg.db), Keys(reg'.db))
    BY <2>2, GrownSame DEF Turns
  <2>6. ASSUME NEW lead, GroupTurns(lead)
        PROVE  GroupTurns(lead)' /\ Grown(GroupKeys(reg.db), GroupKeys(reg'.db))
    <3>1. Led(reg'.db, lead) /\ Grown(GroupKeys(reg.db), GroupKeys(reg'.db))
      BY <2>2, <2>6, GrownSame DEF GroupTurns, Led
    <3> QED BY <2>4, <3>1 DEF GroupTurns
  <2> QED BY <2>3, <2>4, <2>5, <2>6
<1> QED BY <1>2, <1>3, <1>4, <1>5, <1>6 DEF Next, Inventory


-----------------------------------------------------------------------------
(* What a private registry lists, it has *)

\* With K the published keys: a download, a bundle, and metadata that goes with images.
SelectedOK(K) ==
  dl.pc = "save" => \A e \in dl.entries : \A v \in DOMAIN e.artifacts :
                      Vouched(K, <<e.plugin, v>>, EntryImages(e))
Backed(K, m, images) == \A x \in m.plugins : Vouched(K, x, images)
BundlesOK(K) == \A t \in tars : Keys(t.db) \subseteq K /\ Backed(K, t.meta, t.images)

\* An upload and the registry that it changes.
UploadOK(K) ==
  /\ up.pc # "idle" => up.tar \in tars
  /\ up.pc = "inventory" => up.todo = up.tar.images
  /\ up.pc = "images" => up.tar.images \subseteq priv.images \cup up.todo
  /\ up.pc \in {"metadata", "unread"} => Backed(K, up.meta, priv.images)
RegistryOK(K) ==
  /\ Keys(priv.db) \subseteq K
  /\ priv.meta # None => Backed(K, priv.meta, priv.images)

\* Whatever is selected is selected from a database.
Bundling == dl.pc = "save" => reg.db # None
AirGapped(K) == SelectedOK(K) /\ BundlesOK(K) /\ UploadOK(K) /\ RegistryOK(K)

LEMMA VouchedStays ==
  \A K, L, x, I, J : Grown(K, L) /\ I \subseteq J /\ Vouched(K, x, I) => Vouched(L, x, J)
  BY DEF Grown, Vouched

\* What is published later changes nothing.
LEMMA GrownKeeps ==
  ASSUME NEW K, NEW L, Grown(K, L), AirGapped(K) PROVE AirGapped(L)
<1>1. \A x, I : Vouched(K, x, I) => Vouched(L, x, I)
  BY VouchedStays
<1>2. K \subseteq L
  BY DEF Grown
<1>3. SelectedOK(L)
  BY <1>1 DEF AirGapped, SelectedOK
<1>4. \A m, I : Backed(K, m, I) => Backed(L, m, I)
  BY <1>1 DEF Backed
<1>5. BundlesOK(L) /\ UploadOK(L) /\ RegistryOK(L)
  BY <1>2, <1>4 DEF AirGapped, BundlesOK, UploadOK, RegistryOK
<1> QED BY <1>3, <1>5 DEF AirGapped

\* DownloadPluginBundle: the selection, with what it says of groups.
LEMMA SelectStep ==
  ASSUME Shape, RowsKept, dl.pc = "idle", Download
  PROVE  /\ UNCHANGED tars /\ dl'.pc = "save" /\ reg.db \in Database
         /\ Selected(reg.db, dl'.groups, dl'.entries)
<1>1. PICK sel : /\ DownloadSelect(sel)
                 /\ \/ \E n, k \in 0..MaxFlags : \E gs \in [1..n -> GroupFlags], qs \in [1..k -> PluginFlags] :
                         sel = Selection(reg.db, gs, qs)
                    \/ sel = EverythingSelected(reg.db)
                    \/ sel = NothingSelected
  BY DEF Download, DownloadSave, DownloadFail
<1>2. reg.db \in Database /\ MembersKnown(reg.db)
  BY DEF Download, DownloadSave, DownloadFail, Shape, RowsKept
<1>3. /\ dl'.pc = "save" /\ dl'.groups = sel.groups /\ dl'.entries = sel.entries
      /\ UNCHANGED tars
  BY <1>1 DEF DownloadSelect
<1>4. Selected(reg.db, sel.groups, sel.entries)
  <2>1. CASE \E n, k \in 0..MaxFlags : \E gs \in [1..n -> GroupFlags], qs \in [1..k -> PluginFlags] :
               sel = Selection(reg.db, gs, qs)
    <3>1. PICK n \in 0..MaxFlags, k \in 0..MaxFlags :
            \E gs \in [1..n -> GroupFlags], qs \in [1..k -> PluginFlags] : sel = Selection(reg.db, gs, qs)
      BY <2>1
    <3>2. n \in Nat /\ k \in Nat
      OBVIOUS
    <3>3. PICK gs \in [1..n -> GroupFlags], qs \in [1..k -> PluginFlags] : sel = Selection(reg.db, gs, qs)
      BY <3>1
    <3> QED BY <1>2, <3>2, <3>3, SelectionIsSelected
  <2>2. CASE sel = EverythingSelected(reg.db)
    BY <1>2, <2>2, EverythingIsSelected
  <2>3. CASE sel = NothingSelected
    BY <2>3, NothingIsSelected
  <2> QED BY <1>1, <2>1, <2>2, <2>3
<1> QED BY <1>2, <1>3, <1>4

\* The bundle that a download saves, if it saves one.
LEMMA SaveStep ==
  ASSUME dl.pc # "idle", Download
  PROVE  /\ dl' = NoDownload
         /\ \A t \in tars' \ tars :
              /\ t.images = UNION {EntryImages(e) : e \in dl.entries}
              /\ t.db = reg.db
              /\ t.meta = Identifiers(dl.groups, dl.entries)
<1>1. DownloadSave \/ DownloadFail
  BY DEF Download
<1> QED BY <1>1 DEF DownloadSave, DownloadFail

LEMMA SavedIsBacked ==
  ASSUME NEW K, SelectedOK(K), dl.pc = "save"
  PROVE  Backed(K, Identifiers(dl.groups, dl.entries), UNION {EntryImages(e) : e \in dl.entries})
<1> SUFFICES ASSUME NEW x \in Identifiers(dl.groups, dl.entries).plugins
             PROVE  Vouched(K, x, UNION {EntryImages(e) : e \in dl.entries})
  BY DEF Backed
<1>1. x \in UNION {{<<e.plugin, v>> : v \in DOMAIN e.artifacts} : e \in dl.entries}
  BY DEF Identifiers
<1>2. PICK e \in dl.entries : x \in {<<e.plugin, v>> : v \in DOMAIN e.artifacts}
  BY <1>1
<1>3. PICK v \in DOMAIN e.artifacts : x = <<e.plugin, v>>
  BY <1>2
<1>4. Vouched(K, x, EntryImages(e))
  BY <1>3 DEF SelectedOK
<1>5. EntryImages(e) \subseteq UNION {EntryImages(d) : d \in dl.entries}
  OBVIOUS
<1> QED BY <1>4, <1>5 DEF Vouched


\* The databases that bundles and the private registry hold.
Stored ==
  /\ \A t \in tars : t.db \in Database /\ MembersKnown(t.db)
  /\ up.pc # "idle" => up.tar \in tars
  /\ priv.db \in Database \cup {None} /\ MembersKnown(priv.db)

LEMMA StoredInit == Init => Stored /\ Bundling
  BY NoKeys DEF Init, Stored, Bundling, NoDownload, NoUpload

LEMMA StoredNext ==
  ASSUME Shape, RowsKept, Stored, Bundling, [Next]_vars, reg.db # None => reg'.db # None
  PROVE  Stored' /\ Bundling'
<1>1. /\ DOMAIN reg = {"images", "db"} /\ reg.db \in Database \cup {None}
      /\ DOMAIN up = {"pc", "tar", "todo", "meta"} /\ DOMAIN priv = {"images", "db", "meta", "bundles"}
  BY DEF Shape
<1>2. CASE UNCHANGED <<dl, tars, up, priv>>
  BY <1>2 DEF Stored, Bundling
<1>3. CASE UNCHANGED vars \/ Release \/ Inventory
  BY <1>1, <1>2, <1>3, ReleaseEffect, InventoryEffect DEF vars
<1>4. CASE Download
  <2>1. UNCHANGED <<reg, up, priv>>
    BY <1>4, DownloadEffect
  <2>2. CASE dl.pc = "idle"
    <3>1. UNCHANGED tars /\ reg.db \in Database
      BY <1>4, <2>2, SelectStep
    <3> QED BY <2>1, <3>1, DatabaseKeys DEF Stored, Bundling
  <2>3. CASE dl.pc # "idle"
    <3>1. /\ dl' = NoDownload /\ \A t \in tars' \ tars : t.db = reg.db
          /\ tars \subseteq tars' /\ dl.pc = "save"
      BY <1>4, <2>3 DEF Download, DownloadSave, DownloadFail
    <3>2. reg.db \in Database /\ MembersKnown(reg.db) /\ dl'.pc = "idle"
      BY <1>1, <3>1 DEF Bundling, NoDownload, RowsKept
    <3>3. Bundling'
      BY <3>2 DEF Bundling
    <3>4. \A t \in tars' : t.db \in Database /\ MembersKnown(t.db)
      BY <3>1, <3>2 DEF Stored
    <3> QED BY <2>1, <3>1, <3>3, <3>4 DEF Stored
  <2> QED BY <2>2, <2>3
<1>5. CASE Upload
  <2>1. UNCHANGED <<reg, tars, dl>>
    BY <1>1, <1>5, UploadEffect
  <2>2. Bundling'
    BY <2>1 DEF Bundling
  <2>3. CASE \E t \in tars : UploadStart(t)
    BY <2>1, <2>2, <2>3 DEF UploadStart, Stored
  <2>4. CASE UploadInventory
    BY <1>1, <2>1, <2>2, <2>4 DEF UploadInventory, Stored
  <2>5. CASE UploadImage
    BY <1>1, <2>1, <2>2, <2>5 DEF UploadImage, Stored
  <2>6. CASE UploadMerge
    <3>1. up'.tar = up.tar /\ up.pc # "idle" /\ UNCHANGED priv
      BY <1>1, <2>6 DEF UploadMerge
    <3> QED BY <2>1, <2>2, <3>1 DEF Stored
  <2>7. CASE UploadMetadata \/ UploadFail
    <3>1. up'.pc = "idle" /\ priv'.db = priv.db
      <4>1. CASE UploadMetadata
        BY <1>1, <4>1 DEF UploadMetadata, NoUpload
      <4>2. CASE UploadFail
        BY <1>1, <4>2 DEF UploadFail, NoUpload
      <4> QED BY <2>7, <4>1, <4>2
    <3> QED BY <2>1, <2>2, <3>1 DEF Stored, MembersKnown
  <2> QED BY <1>5, <2>3, <2>4, <2>5, <2>6, <2>7 DEF Upload
<1> QED BY <1>3, <1>4, <1>5 DEF Next

\* A download selects, or saves what it selected.
LEMMA DownloadKeeps ==
  ASSUME Shape, RowsKept, AirGapped(Keys(reg.db)), Download
  PROVE  AirGapped(Keys(reg.db))'
<1>1. UNCHANGED <<reg, up, priv>>
  BY DownloadEffect
<1>2. CASE dl.pc = "idle"
  <2>1. UNCHANGED tars /\ Selected(reg.db, dl'.groups, dl'.entries)
    BY <1>2, SelectStep
  <2>2. SelectedOK(Keys(reg.db))'
    BY <1>1, <2>1 DEF SelectedOK, Selected
  <2> QED BY <1>1, <2>1, <2>2 DEF AirGapped, BundlesOK, UploadOK, RegistryOK
<1>3. CASE dl.pc # "idle"
  <2>1. dl.pc = "save" /\ tars \subseteq tars'
    BY <1>3 DEF Download, DownloadSave, DownloadFail
  <2>2. /\ dl' = NoDownload
        /\ \A t \in tars' \ tars :
             /\ t.images = UNION {EntryImages(e) : e \in dl.entries}
             /\ t.db = reg.db
             /\ t.meta = Identifiers(dl.groups, dl.entries)
    BY <1>3, SaveStep
  <2>3. SelectedOK(Keys(reg.db))'
    BY <2>2 DEF SelectedOK, NoDownload
  <2>4. Backed(Keys(reg.db), Identifiers(dl.groups, dl.entries), UNION {EntryImages(e) : e \in dl.entries})
    BY <2>1, SavedIsBacked DEF AirGapped
  <2>5. \A t \in tars' : Keys(t.db) \subseteq Keys(reg.db) /\ Backed(Keys(reg.db), t.meta, t.images)
    BY <2>2, <2>4 DEF AirGapped, BundlesOK
  <2>6. BundlesOK(Keys(reg.db))'
    BY <1>1, <2>5 DEF BundlesOK
  <2> QED BY <1>1, <2>1, <2>3, <2>6 DEF AirGapped, UploadOK, RegistryOK
<1> QED BY <1>2, <1>3

\* Metadata stays backed when images are added, and when it is merged.
LEMMA BackedStays ==
  \A K, m, I, J : I \subseteq J /\ Backed(K, m, I) => Backed(K, m, J)
  BY DEF Backed, Vouched

LEMMA MergedIsBacked ==
  \A K, m, n, I : Backed(K, m, I) /\ Backed(K, n, I) => Backed(K, MergeMetadata(m, n), I)
  BY DEF Backed, MergeMetadata

\* An upload copies the inventory, the images, and last the metadata.
LEMMA UploadKeeps ==
  ASSUME Shape, AirGapped(Keys(reg.db)), Upload
  PROVE  AirGapped(Keys(reg.db))'
<1>1. /\ DOMAIN up = {"pc", "tar", "todo", "meta"} /\ DOMAIN priv = {"images", "db", "meta", "bundles"}
      /\ UNCHANGED <<reg, tars, dl>>
  BY UploadEffect DEF Shape
<1>2. SelectedOK(Keys(reg.db))' /\ BundlesOK(Keys(reg.db))'
  BY <1>1 DEF AirGapped, SelectedOK, BundlesOK
<1>3. UploadOK(Keys(reg.db)) /\ RegistryOK(Keys(reg.db)) /\ BundlesOK(Keys(reg.db))
  BY DEF AirGapped
<1>4. CASE \E t \in tars : UploadStart(t)
  BY <1>1, <1>2, <1>3, <1>4 DEF UploadStart, UploadOK, RegistryOK, AirGapped
<1>5. CASE UploadInventory
  <2>1. /\ up'.pc = "images" /\ up'.tar = up.tar /\ up'.todo = up.todo /\ up'.meta = up.meta
        /\ priv'.db = up.tar.db /\ priv'.images = priv.images /\ priv'.meta = priv.meta
        /\ up.pc = "inventory"
    BY <1>1, <1>5 DEF UploadInventory
  <2>2. UploadOK(Keys(reg.db))'
    BY <1>1, <1>3, <2>1 DEF UploadOK
  <2>3. RegistryOK(Keys(reg.db))'
    BY <1>1, <1>3, <2>1 DEF UploadOK, BundlesOK, RegistryOK
  <2> QED BY <1>2, <2>2, <2>3 DEF AirGapped
<1>6. CASE UploadImage
  <2>1. PICK i : /\ up'.todo = up.todo \ {i} /\ priv'.images = priv.images \cup {i}
                 /\ up'.pc = "images" /\ up'.tar = up.tar /\ up.pc = "images"
                 /\ priv'.db = priv.db /\ priv'.meta = priv.meta
    BY <1>1, <1>6 DEF UploadImage
  <2>2. UploadOK(Keys(reg.db))'
    BY <1>1, <1>3, <2>1 DEF UploadOK
  <2>3. RegistryOK(Keys(reg.db))'
    BY <1>1, <1>3, <2>1, BackedStays DEF RegistryOK
  <2> QED BY <1>2, <2>2, <2>3 DEF AirGapped
<1>7. CASE UploadMerge
  <2>1. /\ up.pc = "images" /\ up.todo = {} /\ UNCHANGED priv /\ up'.tar = up.tar
        /\ up'.pc \in {"metadata", "unread"}
        /\ \/ up'.meta = up.tar.meta
           \/ priv.meta # None /\ up'.meta = MergeMetadata(up.tar.meta, priv.meta)
    BY <1>1, <1>7 DEF UploadMerge
  <2>2. up.tar \in tars /\ up.tar.images \subseteq priv.images
    BY <1>3, <2>1 DEF UploadOK
  <2>3. Backed(Keys(reg.db), up.tar.meta, priv.images)
    BY <1>3, <2>2, BackedStays DEF BundlesOK
  <2>4. Backed(Keys(reg.db), up'.meta, priv.images)
    BY <1>3, <2>1, <2>3, MergedIsBacked DEF RegistryOK
  <2>5. UploadOK(Keys(reg.db))'
    BY <1>1, <2>1, <2>2, <2>4 DEF UploadOK
  <2>6. RegistryOK(Keys(reg.db))'
    BY <1>1, <1>3, <2>1 DEF RegistryOK
  <2> QED BY <1>2, <2>5, <2>6 DEF AirGapped
<1>8. CASE UploadMetadata
  <2>1. /\ up.pc \in {"metadata", "unread"} /\ up'.pc = "idle"
        /\ priv'.db = priv.db /\ priv'.images = priv.images /\ priv'.meta = up.meta
    BY <1>1, <1>8 DEF UploadMetadata, NoUpload
  <2>2. UploadOK(Keys(reg.db))'
    BY <2>1 DEF UploadOK
  <2>3. RegistryOK(Keys(reg.db))'
    BY <1>1, <1>3, <2>1 DEF UploadOK, RegistryOK
  <2> QED BY <1>2, <2>2, <2>3 DEF AirGapped
<1>9. CASE UploadFail
  BY <1>1, <1>2, <1>3, <1>9 DEF UploadFail, NoUpload, UploadOK, RegistryOK, AirGapped
<1> QED BY <1>4, <1>5, <1>6, <1>7, <1>8, <1>9 DEF Upload

LEMMA AirGapInit == Init => AirGapped(Keys(reg.db))
<1> SUFFICES ASSUME Init PROVE AirGapped(Keys(reg.db))
  OBVIOUS
<1>1. /\ dl.pc = "idle" /\ tars = {} /\ up.pc = "idle" /\ priv.db = None /\ priv.meta = None
  BY DEF Init, NoDownload, NoUpload
<1> QED BY <1>1, NoKeys DEF AirGapped, SelectedOK, BundlesOK, UploadOK, RegistryOK

LEMMA AirGapNext ==
  ASSUME Shape, RowsKept, AirGapped(Keys(reg.db)), [Next]_vars, Grown(Keys(reg.db), Keys(reg'.db))
  PROVE  AirGapped(Keys(reg.db))'
<1>1. CASE UNCHANGED <<dl, tars, up, priv>>
  <2>1. AirGapped(Keys(reg'.db))
    BY GrownKeeps
  <2> QED BY <1>1, <2>1 DEF AirGapped, SelectedOK, BundlesOK, UploadOK, RegistryOK
<1>2. CASE UNCHANGED vars \/ Release \/ Inventory
  BY <1>1, <1>2, ReleaseEffect, InventoryEffect DEF vars, Shape
<1> QED BY <1>2, DownloadKeeps, UploadKeeps DEF Next

\* The publisher starts with what is published.
LEMMA TurnsInit ==
  Init => Turns /\ \A lead : CommonMember(lead) => GroupTurns(lead)
<1> SUFFICES ASSUME Init PROVE Turns /\ \A lead : CommonMember(lead) => GroupTurns(lead)
  OBVIOUS
<1>1. reg \in CentralInits /\ \A b \in Publishers : pub[b].pc = "idle"
  BY NoJobType DEF Init
<1> QED BY <1>1 DEF Turns, GroupTurns, CommonMember

\* With one publisher who overrides nothing, whatever a private registry lists it also
\* has, from the end of the first upload on: after later uploads that fail, in the
\* middle of one, and with an inventory newer or older than the bundles that came before.
THEOREM ListedHaveImages ==
  ASSUME OnePublisher, NoOverride PROVE Spec => []ListedArePresent
<1> DEFINE Inv == Shape /\ RowsKept /\ Turns /\ Stored /\ Bundling /\ AirGapped(Keys(reg.db))
<1>1. Init => Inv
  BY RowsInit, TurnsInit, StoredInit, AirGapInit
<1>2. Inv /\ [Next]_vars => Inv'
  <2> SUFFICES ASSUME Inv, [Next]_vars PROVE Inv'
    OBVIOUS
  <2>1. Shape' /\ RowsKept'
    BY RowsNext
  <2>2. Turns' /\ Grown(Keys(reg.db), Keys(reg'.db)) /\ (reg.db # None => reg'.db # None)
    BY TurnsNext
  <2>3. Stored' /\ Bundling'
    BY <2>2, StoredNext
  <2>4. AirGapped(Keys(reg.db))'
    BY <2>2, AirGapNext
  <2> QED BY <2>1, <2>2, <2>3, <2>4
<1>3. Inv => ListedArePresent
  <2> SUFFICES ASSUME Inv, priv.meta # None, NEW r \in Listing.plugins PROVE RowKey(r) \in priv.images
    BY DEF ListedArePresent
  <2>1. CASE priv.db = None
    BY <2>1 DEF Listing, EmptyDB
  <2>2. CASE priv.db # None
    <3>1. r \in priv.db.plugins /\ <<r.plugin, r.version>> \in priv.meta.plugins
      BY <2>2 DEF Listing, UpdateInventory
    <3>2. priv.db \in Database
      BY <2>2 DEF Stored
    <3>3. RowKey(r) \in Keys(priv.db) /\ VersionOf(RowKey(r)) = <<r.plugin, r.version>>
      BY <3>1, <3>2, DatabaseKeys DEF RowKey, VersionOf
    <3>4. RowKey(r) \in Keys(reg.db)
      BY <3>3 DEF AirGapped, RegistryOK
    <3>5. Vouched(Keys(reg.db), <<r.plugin, r.version>>, priv.images)
      BY <2>2, <3>1 DEF AirGapped, RegistryOK, Backed
    <3> QED BY <3>3, <3>4, <3>5 DEF Vouched
  <2> QED BY <2>1, <2>2
<1> HIDE DEF Inv
<1> QED BY <1>1, <1>2, <1>3, PTL DEF Spec


-----------------------------------------------------------------------------
(* What a group of a private registry needs, the registry lists *)

\* With G the published members of groups, as above; the metadata of a bundle names
\* the groups together with the versions that they need.
GroupsSelectedOK(G) ==
  dl.pc = "save" => \A g \in dl.groups : \A v \in DOMAIN g.versions :
                      GroupVouched(G, <<g.group, v>>, VersionsIn(dl.entries))
GroupBacked(G, m) == \A y \in m.groups : GroupVouched(G, y, m.plugins)
GroupBundlesOK(G) == \A t \in tars : GroupKeys(t.db) \subseteq G /\ GroupBacked(G, t.meta)
GroupUploadOK(G) ==
  /\ up.pc # "idle" => up.tar \in tars
  /\ up.pc \in {"metadata", "unread"} => GroupBacked(G, up.meta)
GroupRegistryOK(G) ==
  /\ GroupKeys(priv.db) \subseteq G
  /\ priv.meta # None => GroupBacked(G, priv.meta)
GroupsGapped(G) ==
  GroupsSelectedOK(G) /\ GroupBundlesOK(G) /\ GroupUploadOK(G) /\ GroupRegistryOK(G)

LEMMA GrownKeepsGroups ==
  ASSUME NEW G, NEW H, Grown(G, H), GroupsGapped(G) PROVE GroupsGapped(H)
<1>1. \A y, xs : GroupVouched(G, y, xs) => GroupVouched(H, y, xs)
  BY DEF Grown, GroupVouched
<1>2. G \subseteq H
  BY DEF Grown
<1>3. GroupsSelectedOK(H)
  BY <1>1 DEF GroupsGapped, GroupsSelectedOK
<1>4. \A m : GroupBacked(G, m) => GroupBacked(H, m)
  BY <1>1 DEF GroupBacked
<1>5. GroupBundlesOK(H) /\ GroupUploadOK(H) /\ GroupRegistryOK(H)
  BY <1>2, <1>4 DEF GroupsGapped, GroupBundlesOK, GroupUploadOK, GroupRegistryOK
<1> QED BY <1>3, <1>5 DEF GroupsGapped

\* savePluginInventoryMetadata names all that was selected.
LEMMA SavedIsGroupBacked ==
  ASSUME NEW G, GroupsSelectedOK(G), dl.pc = "save"
  PROVE  GroupBacked(G, Identifiers(dl.groups, dl.entries))
<1>1. Identifiers(dl.groups, dl.entries).plugins = VersionsIn(dl.entries)
  BY DEF Identifiers, VersionsIn
<1> SUFFICES ASSUME NEW y \in Identifiers(dl.groups, dl.entries).groups
             PROVE  GroupVouched(G, y, VersionsIn(dl.entries))
  BY <1>1 DEF GroupBacked
<1>2. y \in UNION {{<<g.group, v>> : v \in DOMAIN g.versions} : g \in dl.groups}
  BY DEF Identifiers
<1>3. PICK g \in dl.groups : y \in {<<g.group, v>> : v \in DOMAIN g.versions}
  BY <1>2
<1>4. PICK v \in DOMAIN g.versions : y = <<g.group, v>>
  BY <1>3
<1> QED BY <1>4 DEF GroupsSelectedOK

LEMMA MergedIsGroupBacked ==
  \A G, m, n : GroupBacked(G, m) /\ GroupBacked(G, n) => GroupBacked(G, MergeMetadata(m, n))
<1> SUFFICES ASSUME NEW G, NEW m, NEW n, GroupBacked(G, m), GroupBacked(G, n)
             PROVE  GroupBacked(G, MergeMetadata(m, n))
  OBVIOUS
<1>1. /\ MergeMetadata(m, n).plugins = m.plugins \cup n.plugins
      /\ MergeMetadata(m, n).groups = m.groups \cup n.groups
  BY DEF MergeMetadata
<1>2. \A y, xs, ys : GroupVouched(G, y, xs) => GroupVouched(G, y, xs \cup ys) /\ GroupVouched(G, y, ys \cup xs)
  BY DEF GroupVouched, Met
<1> SUFFICES ASSUME NEW y \in m.groups \cup n.groups
             PROVE  GroupVouched(G, y, m.plugins \cup n.plugins)
  BY <1>1 DEF GroupBacked
<1>3. GroupVouched(G, y, m.plugins) \/ GroupVouched(G, y, n.plugins)
  BY DEF GroupBacked
<1> QED BY <1>2, <1>3

LEMMA DownloadKeepsGroups ==
  ASSUME Shape, RowsKept, GroupsGapped(GroupKeys(reg.db)), Download
  PROVE  GroupsGapped(GroupKeys(reg.db))'
<1>1. UNCHANGED <<reg, up, priv>>
  BY DownloadEffect
<1>2. CASE dl.pc = "idle"
  <2>1. UNCHANGED tars /\ Selected(reg.db, dl'.groups, dl'.entries)
    BY <1>2, SelectStep
  <2>2. GroupsSelectedOK(GroupKeys(reg.db))'
    BY <1>1, <2>1 DEF GroupsSelectedOK, Selected
  <2> QED BY <1>1, <2>1, <2>2 DEF GroupsGapped, GroupBundlesOK, GroupUploadOK, GroupRegistryOK
<1>3. CASE dl.pc # "idle"
  <2>1. dl.pc = "save" /\ tars \subseteq tars'
    BY <1>3 DEF Download, DownloadSave, DownloadFail
  <2>2. /\ dl' = NoDownload
        /\ \A t \in tars' \ tars : t.db = reg.db /\ t.meta = Identifiers(dl.groups, dl.entries)
    BY <1>3, SaveStep
  <2>3. GroupsSelectedOK(GroupKeys(reg.db))'
    BY <2>2 DEF GroupsSelectedOK, NoDownload
  <2>4. GroupBacked(GroupKeys(reg.db), Identifiers(dl.groups, dl.entries))
    BY <2>1, SavedIsGroupBacked DEF GroupsGapped
  <2>5. \A t \in tars' : GroupKeys(t.db) \subseteq GroupKeys(reg.db) /\ GroupBacked(GroupKeys(reg.db), t.meta)
    BY <2>2, <2>4 DEF GroupsGapped, GroupBundlesOK
  <2>6. GroupBundlesOK(GroupKeys(reg.db))'
    BY <1>1, <2>5 DEF GroupBundlesOK
  <2> QED BY <1>1, <2>1, <2>3, <2>6 DEF GroupsGapped, GroupUploadOK, GroupRegistryOK
<1> QED BY <1>2, <1>3

LEMMA UploadKeepsGroups ==
  ASSUME Shape, GroupsGapped(GroupKeys(reg.db)), Upload
  PROVE  GroupsGapped(GroupKeys(reg.db))'
<1>1. /\ DOMAIN up = {"pc", "tar", "todo", "meta"} /\ DOMAIN priv = {"images", "db", "meta", "bundles"}
      /\ UNCHANGED <<reg, tars, dl>>
  BY UploadEffect DEF Shape
<1>2. GroupsSelectedOK(GroupKeys(reg.db))' /\ GroupBundlesOK(GroupKeys(reg.db))'
  BY <1>1 DEF GroupsGapped, GroupsSelectedOK, GroupBundlesOK
<1>3. /\ GroupUploadOK(GroupKeys(reg.db)) /\ GroupRegistryOK(GroupKeys(reg.db))
      /\ GroupBundlesOK(GroupKeys(reg.db))
  BY DEF GroupsGapped
<1>4. CASE (\E t \in tars : UploadStart(t)) \/ UploadFail
  BY <1>1, <1>2, <1>3, <1>4
    DEF UploadStart, UploadFail, NoUpload, GroupUploadOK, GroupRegistryOK, GroupsGapped
<1>5. CASE UploadInventory
  <2>1. /\ up'.pc = "images" /\ up'.tar = up.tar /\ up.pc = "inventory"
        /\ priv'.db = up.tar.db /\ priv'.meta = priv.meta
    BY <1>1, <1>5 DEF UploadInventory
  <2>2. GroupUploadOK(GroupKeys(reg.db))' /\ GroupRegistryOK(GroupKeys(reg.db))'
    BY <1>1, <1>3, <2>1 DEF GroupUploadOK, GroupBundlesOK, GroupRegistryOK
  <2> QED BY <1>2, <2>2 DEF GroupsGapped
<1>6. CASE UploadImage
  <2>1. /\ up'.pc = "images" /\ up'.tar = up.tar /\ up.pc = "images"
        /\ priv'.db = priv.db /\ priv'.meta = priv.meta
    BY <1>1, <1>6 DEF UploadImage
  <2>2. GroupUploadOK(GroupKeys(reg.db))' /\ GroupRegistryOK(GroupKeys(reg.db))'
    BY <1>1, <1>3, <2>1 DEF GroupUploadOK, GroupRegistryOK
  <2> QED BY <1>2, <2>2 DEF GroupsGapped
<1>7. CASE UploadMerge
  <2>1. /\ up.pc = "images" /\ UNCHANGED priv /\ up'.tar = up.tar
        /\ \/ up'.meta = up.tar.meta
           \/ priv.meta # None /\ up'.meta = MergeMetadata(up.tar.meta, priv.meta)
    BY <1>1, <1>7 DEF UploadMerge
  <2>2. up.tar \in tars /\ GroupBacked(GroupKeys(reg.db), up.tar.meta)
    BY <1>3, <2>1 DEF GroupUploadOK, GroupBundlesOK
  <2>3. GroupBacked(GroupKeys(reg.db), up'.meta)
    BY <1>3, <2>1, <2>2, MergedIsGroupBacked DEF GroupRegistryOK
  <2>4. GroupUploadOK(GroupKeys(reg.db))' /\ GroupRegistryOK(GroupKeys(reg.db))'
    BY <1>1, <1>3, <2>1, <2>2, <2>3 DEF GroupUploadOK, GroupRegistryOK
  <2> QED BY <1>2, <2>4 DEF GroupsGapped
<1>8. CASE UploadMetadata
  <2>1. /\ up.pc \in {"metadata", "unread"} /\ up'.pc = "idle"
        /\ priv'.db = priv.db /\ priv'.meta = up.meta
    BY <1>1, <1>8 DEF UploadMetadata, NoUpload
  <2>2. GroupUploadOK(GroupKeys(reg.db))' /\ GroupRegistryOK(GroupKeys(reg.db))'
    BY <1>1, <1>3, <2>1 DEF GroupUploadOK, GroupRegistryOK
  <2> QED BY <1>2, <2>2 DEF GroupsGapped
<1> QED BY <1>4, <1>5, <1>6, <1>7, <1>8 DEF Upload

LEMMA GroupsGapInit == Init => GroupsGapped(GroupKeys(reg.db))
<1> SUFFICES ASSUME Init PROVE GroupsGapped(GroupKeys(reg.db))
  OBVIOUS
<1>1. dl.pc = "idle" /\ tars = {} /\ up.pc = "idle" /\ priv.db = None /\ priv.meta = None
  BY DEF Init, NoDownload, NoUpload
<1> QED BY <1>1, NoKeys DEF GroupsGapped, GroupsSelectedOK, GroupBundlesOK, GroupUploadOK, GroupRegistryOK

LEMMA GroupsGapNext ==
  ASSUME Shape, RowsKept, GroupsGapped(GroupKeys(reg.db)), [Next]_vars,
         Grown(GroupKeys(reg.db), GroupKeys(reg'.db))
  PROVE  GroupsGapped(GroupKeys(reg.db))'
<1>1. CASE UNCHANGED <<dl, tars, up, priv>>
  <2>1. GroupsGapped(GroupKeys(reg'.db))
    BY GrownKeepsGroups
  <2> QED BY <1>1, <2>1 DEF GroupsGapped, GroupsSelectedOK, GroupBundlesOK, GroupUploadOK, GroupRegistryOK
<1>2. CASE UNCHANGED vars \/ Release \/ Inventory
  BY <1>1, <1>2, ReleaseEffect, InventoryEffect DEF vars, Shape
<1> QED BY <1>2, DownloadKeepsGroups, UploadKeepsGroups DEF Next

\* Of each member of a group that the private registry lists, it also lists a version
\* that the group accepts, if the manifests of groups have a plugin in common: in the
\* middle of an upload and after one that failed, too.
THEOREM ListedGroupsAreComplete ==
  ASSUME OnePublisher, NoOverride, NEW lead, CommonMember(lead)
  PROVE  Spec => []GroupsAreComplete
<1> DEFINE Inv == /\ Shape /\ RowsKept /\ Turns /\ Stored /\ Bundling
                  /\ GroupTurns(lead) /\ GroupsGapped(GroupKeys(reg.db))
<1>1. Init => Inv
  BY RowsInit, TurnsInit, StoredInit, GroupsGapInit
<1>2. Inv /\ [Next]_vars => Inv'
  <2> SUFFICES ASSUME Inv, [Next]_vars PROVE Inv'
    OBVIOUS
  <2>1. Shape' /\ RowsKept'
    BY RowsNext
  <2>2. /\ Turns' /\ (reg.db # None => reg'.db # None)
        /\ GroupTurns(lead)' /\ Grown(GroupKeys(reg.db), GroupKeys(reg'.db))
    BY TurnsNext
  <2>3. Stored' /\ Bundling'
    BY <2>2, StoredNext
  <2>4. GroupsGapped(GroupKeys(reg.db))'
    BY <2>2, GroupsGapNext
  <2> QED BY <2>1, <2>2, <2>3, <2>4
<1>3. Inv => GroupsAreComplete
  <2> SUFFICES ASSUME Inv, InventoryIsRecent, NEW g \in Listing.groups
               PROVE  \E r \in Listing.plugins : r.plugin = g.plugin /\ IsPrefix(g.pversion, r.version)
    BY DEF GroupsAreComplete
  <2>1. CASE priv.db # None /\ priv.meta = None
    <3>1. priv.db \in Database /\ MembersKnown(priv.db) /\ Listing = priv.db
      BY <2>1 DEF Stored, Listing
    <3>2. GroupKey(g) \in GroupKeys(priv.db) /\ GroupKey(g)[3] = <<g.plugin, g.pversion>>
      BY <3>1, DatabaseKeys DEF GroupKey
    <3>3. PICK k \in Keys(priv.db) : k[1] = g.plugin /\ IsPrefix(g.pversion, k[2])
      BY <3>1, <3>2 DEF MembersKnown, Met
    <3>4. PICK r \in priv.db.plugins : k = RowKey(r)
      BY <3>1, DatabaseKeys
    <3> QED BY <3>1, <3>3, <3>4 DEF RowKey
  <2>2. CASE priv.db # None /\ priv.meta # None
    <3>2. /\ g \in priv.db.groups /\ <<g.group, g.version>> \in priv.meta.groups
          /\ \A r \in priv.db.plugins : <<r.plugin, r.version>> \in priv.meta.plugins => r \in Listing.plugins
      BY <2>2 DEF Listing, UpdateInventory
    <3>3. priv.db \in Database
      BY <2>2 DEF Stored
    <3>4. GroupKey(g) \in GroupKeys(reg.db)
      BY <3>2, <3>3, DatabaseKeys DEF GroupsGapped, GroupRegistryOK
    <3>5. VersionOf(GroupKey(g)) = <<g.group, g.version>> /\ GroupKey(g)[3] = <<g.plugin, g.pversion>>
      BY DEF GroupKey, VersionOf
    <3>6. GroupVouched(GroupKeys(reg.db), <<g.group, g.version>>, priv.meta.plugins)
      BY <2>2, <3>2 DEF GroupsGapped, GroupRegistryOK, GroupBacked
    <3>7. Met(<<g.plugin, g.pversion>>, priv.meta.plugins)
      BY <3>4, <3>5, <3>6 DEF GroupVouched
    <3>8. PICK x \in priv.meta.plugins : x[1] = g.plugin /\ IsPrefix(g.pversion, x[2])
      BY <3>7 DEF Met
    <3>9. PICK r \in priv.db.plugins : <<r.plugin, r.version>> = x
      BY <2>2, <3>8 DEF InventoryIsRecent
    <3>10. r \in Listing.plugins /\ r.plugin = g.plugin /\ IsPrefix(g.pversion, r.version)
      BY <3>2, <3>8, <3>9
    <3> QED BY <3>10
  <2>3. priv.db # None
    BY DEF Listing, EmptyDB
  <2> QED BY <2>1, <2>2, <2>3
<1> HIDE DEF Inv
<1> QED BY <1>1, <1>2, <1>3, PTL DEF Spec



-----------------------------------------------------------------------------
(* What an upload brought stays *)

\* A bundle: its inventory has the rows of its images, and its metadata names them
\* and groups that its inventory has.
Whole(t) ==
  /\ t.images \subseteq Keys(t.db)
  /\ t.meta \in Metadata
  /\ \A i \in t.images : VersionOf(i) \in t.meta.plugins
  /\ \A y \in t.meta.groups : \E k \in GroupKeys(t.db) : VersionOf(k) = y
Listed(K) == dl.pc = "save" => \A e \in dl.entries : EntryImages(e) \subseteq K
BundlesWhole == \A t \in tars : Whole(t)

\* Metadata that names all that a bundle's does.
Names(m, t) == t.meta.plugins \subseteq m.plugins /\ t.meta.groups \subseteq m.groups

\* The history: what ended well is in the registry, and what is about to end, too.
Uploaded ==
  /\ priv.bundles \subseteq tars /\ priv.meta \in Metadata \cup {None}
  /\ priv.bundles # {} => priv.db # None /\ priv.meta # None
  /\ \A t \in priv.bundles : t.images \subseteq priv.images /\ Names(priv.meta, t)
Uploading ==
  /\ up.pc # "idle" => up.tar \in tars
  /\ up.pc = "inventory" => up.todo = up.tar.images
  /\ up.pc = "images" => up.tar.images \subseteq priv.images \cup up.todo
  /\ up.pc \in {"images", "metadata", "unread"} => priv.db # None
  /\ up.pc \in {"metadata", "unread"} =>
       up.tar.images \subseteq priv.images /\ up.meta \in Metadata /\ Names(up.meta, up.tar)

\* The versions of plugins and groups that a database has.
LEMMA KeyTypes ==
  ASSUME NEW db \in Database
  PROVE  /\ \A k \in Keys(db) : VersionOf(k) \in Plugins \X Versions
         /\ \A k \in GroupKeys(db) : VersionOf(k) \in Groups \X GroupVersions
  BY DatabaseKeys DEF RowKey, GroupKey, VersionOf, PluginRow, GroupRow

\* The metadata of a bundle names the versions of its images.
LEMMA ImagesAreNamed ==
  ASSUME NEW i \in UNION {EntryImages(e) : e \in dl.entries}
  PROVE  VersionOf(i) \in Identifiers(dl.groups, dl.entries).plugins
<1>1. PICK e \in dl.entries : i \in EntryImages(e)
  OBVIOUS
<1>2. PICK v \in DOMAIN e.artifacts : i \in {<<e.plugin, v, a>> : a \in e.artifacts[v]}
  BY <1>1 DEF EntryImages
<1>3. VersionOf(i) = <<e.plugin, v>>
  BY <1>2 DEF VersionOf
<1>4. Identifiers(dl.groups, dl.entries).plugins
        = UNION {{<<d.plugin, w>> : w \in DOMAIN d.artifacts} : d \in dl.entries}
  BY DEF Identifiers
<1> QED BY <1>3, <1>4

\* savePluginInventoryMetadata and Tarinate, with the inventory of that moment.
LEMMA SavedIsWhole ==
  ASSUME dl.pc = "save", reg.db \in Database, Listed(Keys(reg.db)), SelectedOK(Keys(reg.db)),
         GroupsSelectedOK(GroupKeys(reg.db)),
         NEW t, t.images = UNION {EntryImages(e) : e \in dl.entries}, t.db = reg.db,
         t.meta = Identifiers(dl.groups, dl.entries)
  PROVE  Whole(t)
<1>1. t.images \subseteq Keys(t.db)
  BY DEF Listed
<1>2. Backed(Keys(reg.db), t.meta, t.images)
  BY SavedIsBacked
<1>3. GroupBacked(GroupKeys(reg.db), t.meta)
  BY SavedIsGroupBacked
<1>4. \A y \in t.meta.groups : \E k \in GroupKeys(t.db) : VersionOf(k) = y
  BY <1>3 DEF GroupBacked, GroupVouched
<1>5. \A x \in t.meta.plugins : \E k \in Keys(t.db) : VersionOf(k) = x
  BY <1>2 DEF Backed, Vouched
<1>6. t.meta.plugins \subseteq Plugins \X Versions /\ t.meta.groups \subseteq Groups \X GroupVersions
  BY <1>4, <1>5, KeyTypes
<1>7. t.meta = [plugins |-> t.meta.plugins, groups |-> t.meta.groups]
  BY DEF Identifiers
<1>8. t.meta \in Metadata
  BY <1>6, <1>7 DEF Metadata
<1>9. \A i \in t.images : VersionOf(i) \in t.meta.plugins
  BY ImagesAreNamed
<1> QED BY <1>1, <1>4, <1>8, <1>9 DEF Whole

LEMMA WholeNext ==
  ASSUME Shape, RowsKept, Bundling, Listed(Keys(reg.db)), SelectedOK(Keys(reg.db)),
         GroupsSelectedOK(GroupKeys(reg.db)), BundlesWhole, [Next]_vars,
         Grown(Keys(reg.db), Keys(reg'.db))
  PROVE  Listed(Keys(reg.db))' /\ BundlesWhole'
<1>1. CASE UNCHANGED <<dl, tars>>
  BY <1>1 DEF Listed, BundlesWhole, Grown
<1>2. CASE UNCHANGED vars \/ Release \/ Inventory \/ Upload
  BY <1>1, <1>2, ReleaseEffect, InventoryEffect, UploadEffect DEF vars, Shape
<1>3. CASE Download
  <2>1. UNCHANGED reg
    BY <1>3, DownloadEffect
  <2>2. CASE dl.pc = "idle"
    <3>1. UNCHANGED tars /\ Selected(reg.db, dl'.groups, dl'.entries)
      BY <1>3, <2>2, SelectStep
    <3> QED BY <2>1, <3>1 DEF Listed, BundlesWhole, Selected
  <2>3. CASE dl.pc # "idle"
    <3>1. dl.pc = "save"
      BY <1>3, <2>3 DEF Download, DownloadSave, DownloadFail
    <3>2. reg.db \in Database
      BY <3>1 DEF Shape, Bundling
    <3>3. /\ dl' = NoDownload
          /\ \A t \in tars' \ tars :
               /\ t.images = UNION {EntryImages(e) : e \in dl.entries}
               /\ t.db = reg.db
               /\ t.meta = Identifiers(dl.groups, dl.entries)
      BY <1>3, <2>3, SaveStep
    <3>4. \A t \in tars' : Whole(t)
      BY <3>1, <3>2, <3>3, SavedIsWhole DEF BundlesWhole
    <3>5. Listed(Keys(reg.db))'
      BY <3>3 DEF Listed, NoDownload
    <3> QED BY <3>4, <3>5 DEF BundlesWhole
  <2> QED BY <2>2, <2>3
<1> QED BY <1>2, <1>3 DEF Next

LEMMA NamesGrow ==
  /\ \A m, n, t : Names(m, t) /\ m.plugins \subseteq n.plugins /\ m.groups \subseteq n.groups => Names(n, t)
  /\ \A m \in Metadata, n \in Metadata :
       /\ MergeMetadata(m, n) \in Metadata
       /\ m.plugins \subseteq MergeMetadata(m, n).plugins /\ m.groups \subseteq MergeMetadata(m, n).groups
<1>1. \A m, n, t : Names(m, t) /\ m.plugins \subseteq n.plugins /\ m.groups \subseteq n.groups => Names(n, t)
  BY DEF Names
<1>2. ASSUME NEW m \in Metadata, NEW n \in Metadata
      PROVE  /\ MergeMetadata(m, n) \in Metadata
             /\ m.plugins \subseteq MergeMetadata(m, n).plugins
             /\ m.groups \subseteq MergeMetadata(m, n).groups
  BY DEF MergeMetadata, Metadata
<1> QED BY <1>1, <1>2

\* The steps of an upload.
LEMMA UploadedStep ==
  ASSUME Shape, Stored, BundlesWhole, Merging, Uploaded, Uploading, Upload
  PROVE  Uploaded' /\ Uploading'
<1>1. /\ DOMAIN up = {"pc", "tar", "todo", "meta"} /\ DOMAIN priv = {"images", "db", "meta", "bundles"}
      /\ UNCHANGED tars
  BY UploadEffect DEF Shape
<1>2. CASE \E t \in tars : UploadStart(t)
  BY <1>1, <1>2 DEF UploadStart, Uploaded, Uploading
<1>3. CASE UploadInventory
  <2>1. /\ up.pc = "inventory" /\ up'.pc = "images" /\ up'.tar = up.tar /\ up'.todo = up.todo
        /\ priv'.db = up.tar.db /\ priv'.images = priv.images /\ priv'.meta = priv.meta
        /\ priv'.bundles = priv.bundles
    BY <1>1, <1>3 DEF UploadInventory
  <2>2. up.tar.db # None
    BY <2>1, DatabaseKeys DEF Stored
  <2>3. Uploaded'
    BY <1>1, <2>1, <2>2 DEF Uploaded
  <2>4. Uploading'
    BY <1>1, <2>1, <2>2 DEF Uploading
  <2> QED BY <2>3, <2>4
<1>4. CASE UploadImage
  <2>1. PICK i : /\ up'.todo = up.todo \ {i} /\ priv'.images = priv.images \cup {i}
                 /\ up'.pc = "images" /\ up'.tar = up.tar /\ up.pc = "images"
                 /\ priv'.db = priv.db /\ priv'.meta = priv.meta /\ priv'.bundles = priv.bundles
    BY <1>1, <1>4 DEF UploadImage
  <2>2. Uploaded'
    BY <1>1, <2>1 DEF Uploaded
  <2>3. Uploading'
    BY <1>1, <2>1 DEF Uploading
  <2> QED BY <2>2, <2>3
<1>5. CASE UploadMerge
  <2>1. /\ up.pc = "images" /\ up.todo = {} /\ UNCHANGED priv /\ up'.tar = up.tar
        /\ up'.pc \in {"metadata", "unread"}
        /\ \/ up'.meta = up.tar.meta
           \/ priv.meta # None /\ up'.meta = MergeMetadata(up.tar.meta, priv.meta)
    BY <1>1, <1>5 DEF UploadMerge
  <2>2. up.tar \in tars /\ up.tar.images \subseteq priv.images /\ priv.db # None
    BY <2>1 DEF Uploading
  <2>3. up.tar.meta \in Metadata /\ Names(up.tar.meta, up.tar)
    BY <2>2 DEF BundlesWhole, Whole, Names
  <2>4. up'.meta \in Metadata /\ Names(up'.meta, up.tar)
    BY <2>1, <2>3, NamesGrow DEF Uploaded
  <2>5. Uploading'
    BY <1>1, <2>1, <2>2, <2>4 DEF Uploading
  <2>6. Uploaded'
    BY <1>1, <2>1 DEF Uploaded
  <2> QED BY <2>5, <2>6
<1>6. CASE UploadMetadata
  <2>1. /\ up.pc \in {"metadata", "unread"} /\ up'.pc = "idle"
        /\ priv'.db = priv.db /\ priv'.images = priv.images /\ priv'.meta = up.meta
        /\ \/ priv'.bundles = {up.tar}
           \/ up.pc = "metadata" /\ priv'.bundles = priv.bundles \cup {up.tar}
    BY <1>1, <1>6 DEF UploadMetadata, NoUpload
  <2>2. /\ up.tar \in tars /\ up.tar.images \subseteq priv.images /\ priv.db # None
        /\ up.meta \in Metadata /\ Names(up.meta, up.tar)
    BY <2>1 DEF Uploading
  <2>3. up.meta # None
    BY <2>2, PublishingAssumption
  <2>4. ASSUME NEW t \in priv'.bundles PROVE t \in tars /\ t.images \subseteq priv.images /\ Names(up.meta, t)
    <3>1. CASE t = up.tar
      BY <2>2, <3>1
    <3>2. CASE t # up.tar
      <4>1. up.pc = "metadata" /\ t \in priv.bundles
        BY <2>1, <2>4, <3>2
      <4>2. priv.meta # None /\ Names(priv.meta, t) /\ t \in tars /\ t.images \subseteq priv.images
        BY <4>1 DEF Uploaded
      <4>3. priv.meta.plugins \subseteq up.meta.plugins /\ priv.meta.groups \subseteq up.meta.groups
        BY <4>1, <4>2 DEF Merging
      <4> QED BY <4>2, <4>3, NamesGrow
    <3> QED BY <3>1, <3>2
  <2>5. Uploaded'
    BY <1>1, <2>1, <2>2, <2>3, <2>4 DEF Uploaded
  <2>6. Uploading'
    BY <2>1 DEF Uploading
  <2> QED BY <2>5, <2>6
<1>7. CASE UploadFail
  BY <1>1, <1>7 DEF UploadFail, NoUpload, Uploaded, Uploading
<1> QED BY <1>2, <1>3, <1>4, <1>5, <1>6, <1>7 DEF Upload

LEMMA UploadedNext ==
  ASSUME Shape, Stored, BundlesWhole, Merging, Uploaded, Uploading, [Next]_vars
  PROVE  Uploaded' /\ Uploading'
<1>1. CASE UNCHANGED <<up, priv>> /\ tars \subseteq tars'
  BY <1>1 DEF Uploaded, Uploading
<1>2. CASE UNCHANGED vars \/ Release \/ Inventory
  BY <1>1, <1>2, ReleaseEffect, InventoryEffect DEF vars, Shape
<1>3. CASE Download
  <2>1. tars \subseteq tars'
    BY <1>3 DEF Download, DownloadSelect, DownloadSave, DownloadFail
  <2> QED BY <1>1, <1>3, <2>1, DownloadEffect
<1> QED BY <1>2, <1>3, UploadedStep DEF Next

LEMMA UploadedInit ==
  Init => Listed(Keys(reg.db)) /\ BundlesWhole /\ Merging /\ Uploaded /\ Uploading
  BY DEF Init, NoDownload, NoUpload, Listed, BundlesWhole, Merging, Uploaded, Uploading

\* With one publisher who overrides nothing, and group manifests that have a plugin in
\* common: what an upload brought stays listed and installable through later uploads,
\* running and failed ones too, while the inventory in the registry has the rows that
\* the bundle's had and no upload took a failed metadata download for a missing image.
THEOREM UploadedStayListed ==
  ASSUME OnePublisher, NoOverride, NEW lead, CommonMember(lead)
  PROVE  Spec => []BundlesStayListed
<1> DEFINE Inv == /\ Shape /\ RowsKept /\ Turns /\ Stored /\ Bundling /\ AirGapped(Keys(reg.db))
                  /\ GroupTurns(lead) /\ GroupsGapped(GroupKeys(reg.db))
                  /\ Listed(Keys(reg.db)) /\ BundlesWhole /\ Merging /\ Uploaded /\ Uploading
<1>1. Init => Inv
  BY RowsInit, TurnsInit, StoredInit, AirGapInit, GroupsGapInit, UploadedInit
<1>2. Inv /\ [Next]_vars => Inv'
  <2> SUFFICES ASSUME Inv, [Next]_vars PROVE Inv'
    OBVIOUS
  <2>1. Shape' /\ RowsKept' /\ Merging'
    BY RowsNext, MergingNext
  <2>2. /\ Turns' /\ Grown(Keys(reg.db), Keys(reg'.db)) /\ (reg.db # None => reg'.db # None)
        /\ GroupTurns(lead)' /\ Grown(GroupKeys(reg.db), GroupKeys(reg'.db))
    BY TurnsNext
  <2>3. Stored' /\ Bundling'
    BY <2>2, StoredNext
  <2>4. AirGapped(Keys(reg.db))' /\ GroupsGapped(GroupKeys(reg.db))'
    BY <2>2, AirGapNext, GroupsGapNext
  <2>5. Listed(Keys(reg.db))' /\ BundlesWhole'
    BY <2>2, WholeNext DEF AirGapped, GroupsGapped
  <2>6. Uploaded' /\ Uploading'
    BY UploadedNext
  <2> QED BY <2>1, <2>2, <2>3, <2>4, <2>5, <2>6
<1>3. Inv => BundlesStayListed
  <2> SUFFICES ASSUME Inv, NEW t \in priv.bundles, Covers(priv.db, t.db)
               PROVE  /\ t.images \subseteq {RowKey(r) : r \in Listing.plugins} \cap priv.images
                      /\ t.meta.groups \subseteq {<<g.group, g.version>> : g \in Listing.groups}
    BY DEF BundlesStayListed
  <2>1. /\ t \in tars /\ priv.db # None /\ priv.meta # None
        /\ t.images \subseteq priv.images /\ Names(priv.meta, t)
    BY DEF Uploaded
  <2>2. t.db \in Database /\ priv.db \in Database /\ Whole(t)
    BY <2>1 DEF Stored, BundlesWhole
  <2>3. Listing = UpdateInventory(priv.db, priv.meta)
    BY <2>1 DEF Listing
  <2>4. ASSUME NEW i \in t.images PROVE i \in {RowKey(r) : r \in Listing.plugins}
    <3>1. PICK r \in t.db.plugins : RowKey(r) = i
      BY <2>2, DatabaseKeys DEF Whole
    <3>2. PICK q \in priv.db.plugins : RowKey(q) = i
      BY <3>1 DEF Covers
    <3>3. <<q.plugin, q.version>> = VersionOf(i)
      BY <3>2 DEF RowKey, VersionOf
    <3>4. <<q.plugin, q.version>> \in priv.meta.plugins
      BY <2>1, <2>2, <3>3 DEF Whole, Names
    <3> QED BY <2>3, <3>2, <3>4 DEF UpdateInventory
  <2>5. ASSUME NEW y \in t.meta.groups PROVE y \in {<<g.group, g.version>> : g \in Listing.groups}
    <3>1. PICK k \in GroupKeys(t.db) : VersionOf(k) = y
      BY <2>2 DEF Whole
    <3>2. PICK g \in t.db.groups : k = GroupKey(g)
      BY <2>2, DatabaseKeys
    <3>3. PICK h \in priv.db.groups : h.group = g.group /\ h.version = g.version
      BY <3>2 DEF Covers
    <3>4. <<h.group, h.version>> = y
      BY <3>1, <3>2, <3>3 DEF GroupKey, VersionOf
    <3>5. y \in priv.meta.groups
      BY <2>1 DEF Names
    <3> QED BY <2>3, <3>3, <3>4, <3>5 DEF UpdateInventory
  <2> QED BY <2>1, <2>4, <2>5
<1> HIDE DEF Inv
<1> QED BY <1>1, <1>2, <1>3, PTL DEF Spec
=============================================================================
