-------------------------- MODULE InstalledPlugins --------------------------
(***************************************************************************)
(* What the plugin catalog promises its readers: the installed plugins are *)
(* one value that changes by whole operations.  No file, no lock, no       *)
(* index, no session; the store may be emptied at once, by `plugin clean`  *)
(* or by a process that dies while it saves.                               *)
(***************************************************************************)
EXTENDS CatalogData

CONSTANT ActiveContexts
VARIABLES
  installed,  \* the stand-alone plugins
  scoped      \* the plugins of each context

svars == <<installed, scoped>>

Init ==
  /\ installed \in PluginAssociation
  /\ scoped \in [Servers -> PluginAssociation]

Install(pl) ==
  /\ installed' = [k \in Keys |-> IF k = KeyOf(pl) THEN pl
                                  ELSE IF k \in Superseded(pl) THEN NoPlugin
                                  ELSE installed[k]]
  /\ UNCHANGED scoped

Uninstall(n, key) ==
  IF n = StandAlone
  THEN installed' = [installed EXCEPT ![key] = NoPlugin] /\ UNCHANGED scoped
  ELSE /\ scoped' = [scoped EXCEPT ![n] = [scoped[n] EXCEPT ![key] = NoPlugin]]
       /\ UNCHANGED installed

\* The plugins of the active contexts become stand-alone; when two contexts
\* have the same key either may win.
Adopt ==
  /\ scoped' = [s \in Servers |-> IF s \in ActiveContexts THEN NoAssociation ELSE scoped[s]]
  /\ DOMAIN installed' = Keys
  /\ \A k \in Keys :
       LET offers == {scoped[s][k] : s \in ActiveContexts} \ {NoPlugin}
       IN  IF offers = {} THEN installed'[k] = installed[k] ELSE installed'[k] \in offers

\* A plugin of the "unknown" target yields to its namesake.
Unambiguous(a) ==
  [k \in Keys |-> IF k[2] = TargetUnknown /\ Doubled(a, k[1]) THEN NoPlugin ELSE a[k]]

Disambiguate ==
  /\ installed' = Unambiguous(installed)
  /\ scoped' = [s \in Servers |-> Unambiguous(scoped[s])]

Forget ==
  /\ installed' = NoAssociation
  /\ scoped' = [s \in Servers |-> NoAssociation]

Next ==
  \/ \E pl \in Plugins : Install(pl)
  \/ \E n \in AllContexts, k \in Keys : Uninstall(n, k)
  \/ Adopt \/ Disambiguate \/ Forget

Spec == Init /\ [][Next]_svars

=============================================================================
