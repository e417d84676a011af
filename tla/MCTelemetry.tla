---------------------------- MODULE MCTelemetry ----------------------------
EXTENDS Telemetry
CONSTANTS x1, x2

MCTarget == (x1 :> "kubernetes") @@ (x2 :> "global")
MCDocs == (x1 :> {<<"cluster">>, <<"cluster", "get">>}) @@ (x2 :> {<<"app">>, <<"app", "get">>})
MCAliases == {<<"g", "get">>}
MCRemapped == {<<"app">>}

Word(t) == [kind |-> "word", text |-> t]
\* tanzu kubernetes cluster --wait g secret; tanzu app -- get
MCCommandLines ==
  {<<Word("kubernetes"), Word("cluster"), [kind |-> "flag", text |-> "--wait"], Word("g"), Word("secret")>>,
   <<Word("app"), [kind |-> "end", text |-> "--"], Word("get")>>}
=============================================================================
