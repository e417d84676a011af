---- MODULE MCPublishing ----
EXTENDS Publishing
CONSTANTS p1, p2, g1, amd, arm

MCName == [p \in Plugins |-> "cluster"]
MCVersions == {<<1, 0>>, <<1, 1>>}
MCGroupVersions == {<<1, 0>>, <<1, 1>>}
MCMembers == {{[plugin |-> p1, version |-> <<1, 0>>, mandatory |-> TRUE],
               [plugin |-> p2, version |-> <<1>>, mandatory |-> FALSE]}}

Row(p, v, a) == [plugin |-> p, version |-> v, arch |-> a, hidden |-> FALSE]

\* A registry whose inventory has the first version of both plugins and a group of
\* them; a package of the second version waits.  And one without inventory.
MCPublished ==
    LET rows == {Row(p1, <<1, 0>>, amd), Row(p1, <<1, 0>>, arm), Row(p2, <<1, 0>>, amd)}
        new == [plugins |-> rows, groups |-> {}]
        pg == [group |-> g1, version |-> <<1, 0>>, hidden |-> FALSE, described |-> TRUE,
               members |-> CHOOSE m \in MCMembers : TRUE]
    IN  [images |-> {RowKey(r) : r \in rows} \cup {<<p2, <<1, 1>>, amd>>, <<p1, <<1, 1>>, amd>>},
         db |-> InsertPluginGroup(new, pg, FALSE, FALSE).db]
MCCentral == {MCPublished, [MCPublished EXCEPT !.db = None]}
MCEmptyRegistry == {[images |-> {}, db |-> None]}
=============================
