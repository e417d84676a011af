-------------------------- MODULE MCPluginCatalog --------------------------
(* Small instances of PluginCatalog. *)
EXTENDS PluginCatalog

PluginA(target, version) == [name |-> "a", target |-> target, version |-> version]
OldA == PluginA(TargetUnknown, 1)
A1 == PluginA(TargetGlobal, 1)
A2 == PluginA(TargetGlobal, 2)
B1 == [name |-> "b", target |-> TargetK8s, version |-> 1]

MCPlugins == {OldA, A1, A2, B1}
MCTwoPlugins == {OldA, A1}

\* A catalog as a CLI before 1.3 wrote it.
Legacy(standAlone, server) ==
  LET all == standAlone \cup server
      Assoc(s) == [k \in Keys |-> IF \E pl \in s : KeyOf(pl) = k
                                  THEN CHOOSE pl \in s : KeyOf(pl) = k ELSE NoPlugin]
  IN  [standAlone  |-> Assoc(standAlone),
       server      |-> [s \in Servers |-> Assoc(server)],
       indexByPath |-> [pl \in Plugins |-> IF pl \in all THEN "old" ELSE "none"],
       indexByName |-> [k \in Keys |-> {pl \in all : KeyOf(pl) = k}]]

MCLegacy == {Legacy({OldA}, {A1}), Legacy({A1, B1}, {})}
MCLegacyTwo == {Legacy({OldA}, {A1})}
=============================================================================
