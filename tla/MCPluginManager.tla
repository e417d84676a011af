---- MODULE MCPluginManager ----
EXTENDS PluginManager
CONSTANTS ck, ct, tk, tn, s1, s2, arm, amd, g, kc, tz

MCName == [p \in Plugins |-> IF p \in {ck, ct} THEN "cluster" ELSE "telemetry"]
MCTarget == [p \in Plugins |-> CASE p \in {ck, tk} -> "kubernetes"
                                 [] p = ct -> "mission-control" [] OTHER -> Unknown]
MCSources == <<s1, s2>>

Row(p, v, a) == [plugin |-> p, version |-> v, arch |-> a, hidden |-> FALSE]
Member(v, p, w) == [group |-> g, version |-> v, plugin |-> p, pversion |-> w,
                    mandatory |-> TRUE, hidden |-> FALSE]

\* The central source: `cluster` has two targets, one of them built for the
\* emulator until the second release, which also moves the essential plugins on.
MCCentral ==
    LET old == {Row(ck, <<1, 0>>, amd), Row(ct, <<1, 0>>, arm), Row(ct, <<1, 0>>, amd),
                Row(tk, <<1, 0>>, arm)}
        new == {Row(ck, <<1, 1>>, arm), Row(tk, <<1, 1>>, arm), [Row(ck, <<1, 3>>, arm) EXCEPT !.hidden = TRUE]}
        group == {Member(<<1, 0>>, tk, <<1, 0>>)}
    IN  << [plugins |-> old, groups |-> group],
           [plugins |-> old \cup new, groups |-> group \cup {Member(<<1, 1>>, tk, <<1, 1>>)}] >>
\* A test source with other builds, and an old plugin without a target.
MCTest == << [plugins |-> {Row(ck, <<1, 0>>, arm), Row(ck, <<1, 1>>, arm), Row(ck, <<1, 2>>, amd), Row(tn, <<1, 2>>, arm)},
              groups |-> {Member(<<1, 0>>, tk, <<1, 2>>)}] >>
MCReleases == [s \in {s1, s2} |-> IF s = s1 THEN MCCentral ELSE MCTest]

MCType == [c \in Contexts |-> IF c = tz THEN "tanzu" ELSE "kubernetes"]
\* One context recommends a short version, the other a plugin without a target.
Rec(p, v) == [plugin |-> p, version |-> v]
MCRecommended == [c \in Contexts |-> CASE c = kc -> {Rec(ck, <<1>>), Rec(ck, <<1, 0>>)}
                                      [] OTHER -> {Rec(ct, <<1>>), Rec(tn, <<1, 0>>)}]
\* A development directory with two versions of a plugin, and a built one.
Local(p, vs, v) == [plugin |-> p, versions |-> vs, recommended |-> v]
MCLocal == {[layout |-> "discovery", plugins |-> {Local(ck, {<<1, 0>>, <<1, 1>>}, <<1, 1>>),
                                                  Local(ct, {<<1, 0>>}, <<1, 0>>)}],
            [layout |-> "manifest", plugins |-> {Local(ck, {<<1, 1>>}, <<1, 1>>)}]}

Req(n, t, v) == [name |-> n, target |-> t, version |-> v]
MCRequests == {Req("cluster", "kubernetes", <<1, 0>>), Req("cluster", Unknown, Latest),
               Req("telemetry", Unknown, <<1>>), Req(Unknown, "kubernetes", Latest)}
MCGroupRequests == {[name |-> Unknown, group |-> g, version |-> <<1, 0>>]}
=============================
