--------------------------- MODULE TelemetryProofs ---------------------------
(***************************************************************************)
(* What is recorded about commands, for any number of processes, plugins,  *)
(* command lines and rows: arguments are not readable, the database is     *)
(* bounded and its lock exclusive, and the tree of a plugin is its own.    *)
(***************************************************************************)
EXTENDS Telemetry, WellFoundedInduction, TLAPS

\* The type invariant.
TelemetryTypeOK ==
  /\ file \in (SUBSET (Plugins \X SUBSET Plugins)) \cup {Missing, Blank, Torn}
  /\ docs \in SUBSET Plugins
  /\ rows \in Nat
  /\ plain \in SUBSET (Kinds \X STRING)
  /\ optIn \in BOOLEAN
  /\ lock \in Procs \cup {NoProc}
  /\ late \in SUBSET Procs
  /\ cmd \in [Procs -> CmdState]
  /\ hist \in [overlap : BOOLEAN, faults : Nat, runs : Nat]

Names == Words \cup {Target[x] : x \in Plugins}
Flags == {a.text : a \in {b \in UNION {Range(l) : l \in CommandLines} : b.kind = "flag"}}

\* What a command recorded so far is masked.
TextsAreMasked == \A p \in Procs : cmd[p].kind \notin PluginKinds => cmd[p].texts \subseteq Names \cup Flags

\* Who works on the database holds its lock, and there is room for the row that it
\* is about to insert.
InLock(p) == cmd[p].pc \in {"locked", "insert"}
LockedHolds ==
  \A p \in Procs : /\ InLock(p) => lock = p
                   /\ At(p, "insert") => rows < MaxRows

\* Only some kinds of commands work on the cache of trees.
TreeWork == {"generate", "read", "truncate", "write"}
TreeWorkIsTreeKind == \A p \in Procs : cmd[p].pc \in TreeWork => TreeKind(cmd[p].kind)

Own(trees) == \A t \in trees : t[2] = {t[1]}

\* Commands one at a time: the trees in memory are those of their plugins too,
\* and the directory has the documentation of the plugin that wrote it.
TreesInMemory ==
  ~hist.overlap =>
    /\ \A p, q \in Procs : UsesTrees(p) /\ UsesTrees(q) => p = q
    /\ \A p \in Procs : UsesTrees(p) => Own(cmd[p].trees)
    /\ \A p \in Procs : At(p, "read") => docs = {cmd[p].plugin}

IInv ==
  /\ TelemetryTypeOK
  /\ RowsAreBounded
  /\ LockedHolds
  /\ TextsAreMasked /\ MetricsAreMasked
  /\ TreeWorkIsTreeKind
  /\ TreesInMemory /\ TreesAreOwn

-----------------------------------------------------------------------------
(* The words recorded for a plugin *)

\* One step of the walk over a command line, and the walk.
WalkStep(tree, args, w, i) ==
  IF i = 0 THEN [path |-> <<>>, at |-> <<>>, done |-> FALSE]
  ELSE LET acc == w[i - 1]
           sub == subCommandMatchingArg(tree, acc.at, args[i].text)
       IN IF acc.done \/ args[i].kind = "end" THEN [acc EXCEPT !.done = TRUE]
          ELSE IF args[i].kind = "flag" \/ sub = {} THEN acc
          ELSE [acc EXCEPT !.path = Append(acc.path, args[i].text),
                           !.at = Append(acc.at, CHOOSE v \in sub : TRUE)]
IsWalk(tree, args, w, n) == w = [i \in 0..n |-> WalkStep(tree, args, w, i)]
Walk(tree, args) == CHOOSE w : IsWalk(tree, args, w, Len(args))

LEMMA WalkDef ==
  ASSUME NEW tree, NEW args
  PROVE  parsePluginCommandPath(tree, args) = Range(Walk(tree, args)[Len(args)].path)
BY DEF parsePluginCommandPath, Walk, IsWalk, WalkStep

\* What the walk has at each word.
Acc == [path : Seq(STRING \cap Names), at : Seq(Names), done : BOOLEAN]
Arg == [kind : {"word", "flag", "end"}, text : STRING]

\* A word that names a sub-command is the name of a command or an alias of one.
LEMMA MatchingArg ==
  ASSUME NEW tree, NEW at, NEW word, NEW w \in subCommandMatchingArg(tree, at, word)
  PROVE  w \in Names /\ word \in Names
<1>1. w \in Names /\ (w = word \/ <<word, w>> \in Aliases)
  BY DEF subCommandMatchingArg, Names
<1>2. CASE <<word, w>> \in Aliases
  <2>1. <<word, w>>[1] = word
    OBVIOUS
  <2>2. word \in {a[1] : a \in Aliases}
    BY <1>2, <2>1
  <2>3. word \in Words
    BY <2>2 DEF Words
  <2> QED BY <1>1, <2>3 DEF Names
<1> QED BY <1>1, <1>2

LEMMA WalkStepType ==
  ASSUME NEW tree, NEW args \in Seq(Arg), NEW w, NEW i \in 0..Len(args),
         i # 0 => w[i - 1] \in Acc
  PROVE  WalkStep(tree, args, w, i) \in Acc
<1>1. CASE i = 0
  BY <1>1 DEF WalkStep, Acc
<1>2. CASE i # 0
  <2>. DEFINE acc == w[i - 1]
              sub == subCommandMatchingArg(tree, acc.at, args[i].text)
              v == CHOOSE v \in sub : TRUE
  <2>1. acc \in Acc /\ args[i] \in Arg
    BY <1>2
  <2>2. sub # {} => v \in Names /\ args[i].text \in STRING \cap Names
    <3>1. sub # {} => v \in sub
      OBVIOUS
    <3>. HIDE DEF v
    <3> QED BY <2>1, <3>1, MatchingArg DEF Arg
  <2>3. WalkStep(tree, args, w, i) =
          IF acc.done \/ args[i].kind = "end" THEN [acc EXCEPT !.done = TRUE]
          ELSE IF args[i].kind = "flag" \/ sub = {} THEN acc
          ELSE [acc EXCEPT !.path = Append(acc.path, args[i].text), !.at = Append(acc.at, v)]
    BY <1>2 DEF WalkStep
  <2>. HIDE DEF acc, sub, v
  <2>4. [acc EXCEPT !.done = TRUE] \in Acc
    BY <2>1 DEF Acc
  <2>5. ASSUME sub # {}
        PROVE  [acc EXCEPT !.path = Append(acc.path, args[i].text), !.at = Append(acc.at, v)] \in Acc
    <3>1. Append(acc.path, args[i].text) \in Seq(STRING \cap Names) /\ Append(acc.at, v) \in Seq(Names)
      BY <2>1, <2>2, <2>5 DEF Acc
    <3> QED BY <2>1, <3>1 DEF Acc
  <2> QED BY <2>1, <2>3, <2>4, <2>5
<1> QED BY <1>1, <1>2

\* A set of numbers has a least element.
LEMMA LeastNumber ==
  ASSUME NEW N \in SUBSET Nat, N # {}
  PROVE  \E n \in N : \A k \in N : n <= k
<1>1. PICK n \in N : \A k \in N : ~ (<<k, n>> \in OpToRel(<, Nat))
  BY NatLessThanWellFounded, WFMin
<1>2. \A k \in N : ~ (k < n)
  BY <1>1 DEF OpToRel
<1> QED BY <1>2

\* There is a walk of every length: the least length without one would extend the
\* walk before it.
LEMMA WalkExists ==
  ASSUME NEW tree, NEW args \in Seq(Arg)
  PROVE  \A n \in 0..Len(args) : \E w : IsWalk(tree, args, w, n)
<1>. DEFINE Good(n) == \E w : IsWalk(tree, args, w, n)
            N == {n \in 0..Len(args) : ~ Good(n)}
<1>1. SUFFICES ASSUME N # {} PROVE FALSE
  OBVIOUS
<1>2. PICK n \in N : \A k \in N : n <= k
  <2>1. N \in SUBSET Nat
    OBVIOUS
  <2>. HIDE DEF N
  <2> QED BY <1>1, <2>1, LeastNumber
<1>3. n \in 0..Len(args) /\ ~ Good(n)
  BY <1>2
<1>. HIDE DEF Good
<1>4. CASE n = 0
  <2>. DEFINE w == [i \in 0..0 |-> WalkStep(tree, args, <<>>, i)]
  <2>1. \A i \in 0..0 : WalkStep(tree, args, <<>>, i) = WalkStep(tree, args, w, i)
    <3>1. \A i \in 0..0 : i = 0
      OBVIOUS
    <3> QED BY <3>1 DEF WalkStep
  <2>2. w = [i \in 0..0 |-> WalkStep(tree, args, w, i)]
    BY <2>1
  <2>. HIDE DEF w
  <2> QED BY <1>3, <1>4, <2>2 DEF IsWalk, Good
<1>5. CASE n # 0
  <2>1. n - 1 \in 0..Len(args) /\ n - 1 \in Nat /\ n \in Nat
    BY <1>3, <1>5
  <2>2. n - 1 \notin N
    BY <1>2, <2>1
  <2>3. PICK u : IsWalk(tree, args, u, n - 1)
    BY <2>1, <2>2 DEF Good
  <2>. DEFINE w == [i \in 0..n |-> IF i = n THEN WalkStep(tree, args, u, n) ELSE u[i]]
  <2>4. \A i \in 0..(n - 1) : w[i] = u[i] /\ u[i] = WalkStep(tree, args, u, i)
    <3>. SUFFICES ASSUME NEW i \in 0..(n - 1) PROVE w[i] = u[i] /\ u[i] = WalkStep(tree, args, u, i)
      OBVIOUS
    <3>1. i \in 0..n /\ i # n
      BY <2>1
    <3>2. u[i] = WalkStep(tree, args, u, i)
      BY <2>3 DEF IsWalk
    <3> QED BY <3>1, <3>2
  <2>5. w[n] = WalkStep(tree, args, u, n) /\ w = [i \in 0..n |-> w[i]]
    BY <2>1
  <2>. HIDE DEF w
  <2>6. \A i \in 0..n : WalkStep(tree, args, u, i) = WalkStep(tree, args, w, i)
    <3>. SUFFICES ASSUME NEW i \in 0..n PROVE WalkStep(tree, args, u, i) = WalkStep(tree, args, w, i)
      OBVIOUS
    <3>1. i = 0 \/ u[i - 1] = w[i - 1]
      BY <2>1, <2>4
    <3> QED BY <3>1 DEF WalkStep
  <2>7. \A i \in 0..n : w[i] = WalkStep(tree, args, w, i)
    BY <2>1, <2>4, <2>5, <2>6
  <2>8. w = [i \in 0..n |-> WalkStep(tree, args, w, i)]
    BY <2>5, <2>7
  <2> QED BY <1>3, <2>8 DEF IsWalk, Good
<1> QED BY <1>4, <1>5

\* What a walk has at each word has its type: so has it at the least word at which
\* it would not.
LEMMA WalkType ==
  ASSUME NEW tree, NEW args \in Seq(Arg), NEW w, IsWalk(tree, args, w, Len(args))
  PROVE  \A i \in 0..Len(args) : w[i] \in Acc
<1>. DEFINE N == {i \in 0..Len(args) : w[i] \notin Acc}
<1>1. SUFFICES ASSUME N # {} PROVE FALSE
  OBVIOUS
<1>2. PICK i \in N : \A k \in N : i <= k
  <2>1. N \in SUBSET Nat
    OBVIOUS
  <2>. HIDE DEF N
  <2> QED BY <1>1, <2>1, LeastNumber
<1>3. i \in 0..Len(args) /\ w[i] = WalkStep(tree, args, w, i)
  BY <1>2 DEF IsWalk
<1>4. i # 0 => w[i - 1] \in Acc
  <2>1. CASE i # 0
    <3>1. i - 1 \in 0..Len(args) /\ ~ (i <= i - 1)
      BY <1>3, <2>1
    <3>2. i - 1 \notin N
      BY <1>2, <3>1
    <3> QED BY <3>1, <3>2
  <2> QED BY <2>1
<1> QED BY <1>2, <1>3, <1>4, WalkStepType

\* Every word recorded for a plugin names a command in the tree or is an alias
\* (ParsePluginCommandPath), whatever the command line.
THEOREM OnlyCommandsAreReadable ==
  ASSUME NEW tree, NEW args \in Seq(Arg)
  PROVE  parsePluginCommandPath(tree, args) \subseteq STRING \cap Names
<1>. DEFINE n == Len(args)
            w == Walk(tree, args)
<1>1. n \in Nat /\ n \in 0..n
  OBVIOUS
<1>2. IsWalk(tree, args, w, n)
  BY <1>1, WalkExists DEF Walk
<1>3. w[n].path \in Seq(STRING \cap Names)
  BY <1>1, <1>2, WalkType DEF Acc
<1>4. Range(w[n].path) \subseteq STRING \cap Names
  BY <1>3 DEF Range
<1> QED BY <1>4, WalkDef

-----------------------------------------------------------------------------
(* Steps of one process *)

PCs == {"idle", "pre", "generate", "read", "truncate", "write", "run", "save", "lock", "locked",
        "insert", "send", "collect"}

LEMMA IdleType == Idle \in CmdState /\ Idle.pc = "idle" /\ Idle.kind = "version" /\ Idle.texts = {}
                  /\ Idle.trees = {}
<1>. DEFINE x == CHOOSE x \in Plugins : TRUE
            a == CHOOSE a \in CommandLines : TRUE
<1>1. x \in Plugins /\ a \in CommandLines
  BY TelemetryAssumption
<1>2. Idle = [pc |-> "idle", kind |-> "version", plugin |-> x, args |-> a, trees |-> {}, texts |-> {},
              ready |-> FALSE, use |-> "insert"]
  BY DEF Idle
<1>. HIDE DEF x, a
<1> QED BY <1>1, <1>2 DEF CmdState, Kinds

LEMMA CmdType ==
  ASSUME TelemetryTypeOK, NEW p \in Procs
  PROVE  /\ cmd[p] \in CmdState
         /\ cmd[p].pc \in PCs /\ cmd[p].kind \in Kinds /\ cmd[p].plugin \in Plugins
         /\ cmd[p].args \in CommandLines /\ cmd[p].args \in Seq(Arg)
         /\ cmd[p].trees \in SUBSET (Plugins \X SUBSET Plugins)
         /\ cmd[p].texts \in SUBSET STRING
BY TelemetryAssumption DEF TelemetryTypeOK, CmdState, PCs, Arg

\* A process takes a state and the others stay.
Becomes(p, s) == cmd' = [cmd EXCEPT ![p] = s]

LEMMA BecomesStep ==
  ASSUME TelemetryTypeOK, NEW p \in Procs, NEW s \in CmdState, Becomes(p, s)
  PROVE  /\ cmd' \in [Procs -> CmdState] /\ cmd'[p] = s
         /\ \A q \in Procs \ {p} : cmd'[q] = cmd[q]
BY DEF TelemetryTypeOK, Becomes

\* A process goes on with the same metric and the same trees in memory.
GoesOn(p, pc) ==
  /\ cmd' \in [Procs -> CmdState]
  /\ cmd'[p].pc = pc /\ cmd'[p].kind = cmd[p].kind /\ cmd'[p].plugin = cmd[p].plugin
  /\ cmd'[p].texts = cmd[p].texts /\ cmd'[p].trees = cmd[p].trees
  /\ \A q \in Procs \ {p} : cmd'[q] = cmd[q]
Ends(p) ==
  /\ cmd' \in [Procs -> CmdState] /\ cmd'[p] = Idle
  /\ \A q \in Procs \ {p} : cmd'[q] = cmd[q]

LEMMA GoToStep ==
  ASSUME TelemetryTypeOK, NEW p \in Procs, NEW pc \in PCs, GoTo(p, pc)
  PROVE  GoesOn(p, pc)
<1>. DEFINE s == [cmd[p] EXCEPT !.pc = pc]
<1>1. s \in CmdState /\ s.pc = pc /\ s.kind = cmd[p].kind /\ s.plugin = cmd[p].plugin
      /\ s.texts = cmd[p].texts /\ s.trees = cmd[p].trees
  BY CmdType DEF CmdState, PCs
<1>2. Becomes(p, s)
  BY DEF GoTo, Becomes, TelemetryTypeOK
<1>. HIDE DEF s
<1> QED BY <1>1, <1>2, BecomesStep DEF GoesOn

LEMMA UseStep ==
  ASSUME TelemetryTypeOK, NEW p \in Procs, NEW pc \in PCs, NEW use \in {"insert", "clear", "count", "timeout"},
         cmd' = [cmd EXCEPT ![p].pc = pc, ![p].use = use]
  PROVE  GoesOn(p, pc)
<1>. DEFINE s == [cmd[p] EXCEPT !.pc = pc, !.use = use]
<1>1. s \in CmdState /\ s.pc = pc /\ s.kind = cmd[p].kind /\ s.plugin = cmd[p].plugin
      /\ s.texts = cmd[p].texts /\ s.trees = cmd[p].trees
  BY CmdType DEF CmdState, PCs
<1>2. Becomes(p, s)
  BY DEF Becomes, TelemetryTypeOK
<1>. HIDE DEF s
<1> QED BY <1>1, <1>2, BecomesStep DEF GoesOn

LEMMA EndStep ==
  ASSUME TelemetryTypeOK, NEW p \in Procs, End(p)
  PROVE  Ends(p)
BY IdleType, BecomesStep DEF End, Becomes, Ends

\* Of the history only the faults and runs change.
LEMMA FailedStep ==
  ASSUME TelemetryTypeOK, Failed
  PROVE  hist' \in [overlap : BOOLEAN, faults : Nat, runs : Nat] /\ hist'.overlap = hist.overlap
<1>. DEFINE n == hist.faults + 1
<1>1. n \in Nat /\ hist' = [hist EXCEPT !.faults = n]
  BY DEF TelemetryTypeOK, Failed
<1>. HIDE DEF n
<1> QED BY <1>1 DEF TelemetryTypeOK

\* Kinds that are not those of plugins record names and flags only.
Masked(s) == s.kind \notin PluginKinds => s.texts \subseteq Names \cup Flags

\* The trees in the cache, which are their plugins' own ones in sequence.
LEMMA CachedType ==
  ASSUME TelemetryTypeOK
  PROVE  Cached \in SUBSET (Plugins \X SUBSET Plugins)
BY DEF TelemetryTypeOK, Cached

\* A step of a process that leaves the cache and the database alone and goes on,
\* or ends, outside the work on trees.
LEMMA QuietStep ==
  ASSUME IInv, NEW p \in Procs, ~At(p, "idle"),
         Ends(p) \/ \E pc \in PCs \ (TreeWork \cup {"idle"}) : GoesOn(p, pc),
         UNCHANGED treeVars, hist'.overlap = hist.overlap
  PROVE  TextsAreMasked' /\ TreeWorkIsTreeKind' /\ TreesInMemory' /\ TreesAreOwn'
<1>1. /\ \A q \in Procs \ {p} : cmd'[q] = cmd[q]
      /\ cmd'[p].pc \notin TreeWork
      /\ \/ cmd'[p].pc = "idle" /\ cmd'[p].texts = {}
         \/ /\ cmd'[p].kind = cmd[p].kind /\ cmd'[p].texts = cmd[p].texts /\ cmd'[p].trees = cmd[p].trees
            /\ cmd'[p].plugin = cmd[p].plugin
  BY IdleType DEF Ends, GoesOn, TreeWork
<1>2. TextsAreMasked'
  BY <1>1 DEF IInv, TextsAreMasked
<1>3. TreeWorkIsTreeKind'
  BY <1>1 DEF IInv, TreeWorkIsTreeKind
<1>4. TreesInMemory'
  <2>1. \A q \in Procs : UsesTrees(q)' => UsesTrees(q) /\ cmd'[q].trees = cmd[q].trees
    BY <1>1 DEF UsesTrees, At
  <2>2. \A q \in Procs : At(q, "read")' => At(q, "read") /\ cmd'[q] = cmd[q]
    BY <1>1 DEF At, TreeWork
  <2> QED BY <2>1, <2>2 DEF IInv, TreesInMemory, treeVars, Own
<1>5. TreesAreOwn'
  BY DEF IInv, TreesAreOwn, treeVars, Cached
<1> QED BY <1>2, <1>3, <1>4, <1>5

\* The same after the command, where only the database changes: what is added to it is
\* the metric of the command.
LEMMA AfterStep ==
  ASSUME IInv, NEW p \in Procs, ~At(p, "idle"),
         Ends(p) \/ \E pc \in PCs \ (TreeWork \cup {"idle"}) : GoesOn(p, pc),
         UNCHANGED treeVars, hist'.overlap = hist.overlap,
         hist' \in [overlap : BOOLEAN, faults : Nat, runs : Nat],
         rows' \in Nat, rows' <= MaxRows, plain' \subseteq plain \cup ({cmd[p].kind} \X cmd[p].texts), optIn' = optIn,
         lock' \in Procs \cup {NoProc}, late' \in SUBSET Procs,
         \A q \in Procs \ {p} : lock = q => lock' = q,
         InLock(p)' => lock' = p,
         At(p, "insert")' => rows' < MaxRows,
         rows' = rows \/ \A q \in Procs \ {p} : lock # q
  PROVE  IInv'
<1>1. cmd' \in [Procs -> CmdState] /\ \A q \in Procs \ {p} : cmd'[q] = cmd[q]
  BY DEF Ends, GoesOn
<1>2. TelemetryTypeOK'
  <2>1. plain' \in SUBSET (Kinds \X STRING)
    BY CmdType DEF IInv, TelemetryTypeOK
  <2> QED BY <1>1, <2>1 DEF IInv, TelemetryTypeOK, treeVars
<1>3. LockedHolds'
  BY <1>1 DEF IInv, LockedHolds, InLock, At
<1>4. MetricsAreMasked'
  <2>1. SUFFICES ASSUME NEW r \in plain', r[1] \notin PluginKinds PROVE r[2] \in Names \cup Flags
    BY DEF MetricsAreMasked, Names, Flags
  <2>2. CASE r \in plain
    BY <2>1, <2>2 DEF IInv, MetricsAreMasked, Names, Flags
  <2>3. CASE r \in {cmd[p].kind} \X cmd[p].texts
    <3>1. r[1] = cmd[p].kind /\ r[2] \in cmd[p].texts
      BY <2>3
    <3> QED BY <2>1, <3>1 DEF IInv, TextsAreMasked
  <2> QED BY <2>2, <2>3
<1> QED BY <1>2, <1>3, <1>4, QuietStep DEF IInv, RowsAreBounded

-----------------------------------------------------------------------------
(* Before the command *)

\* The flags of a command line that are recorded are flags.
LEMMA FlagNames ==
  ASSUME NEW args \in CommandLines
  PROVE  TraverseFlagNames(args) \subseteq STRING \cap Flags
<1>. SUFFICES ASSUME NEW i \in DOMAIN args, args[i].kind = "flag" PROVE args[i].text \in STRING \cap Flags
  BY DEF TraverseFlagNames
<1>1. args \in Seq(Arg)
  BY TelemetryAssumption DEF Arg
<1>2. args[i] \in Arg
  BY <1>1
<1>3. args[i] \in Range(args)
  BY DEF Range
<1>4. args[i] \in UNION {Range(l) : l \in CommandLines}
  BY <1>3
<1> QED BY <1>2, <1>4 DEF Flags, Arg

LEMMA CommandPathIs ==
  ASSUME NEW x \in Plugins, NEW from \in SUBSET Plugins, NEW args \in CommandLines
  PROVE  CommandPath[x][from][args] = parsePluginCommandPath(constructPluginCommandTree(from, x), args)
BY DEF CommandPath

\* What is recorded of a plugin's command line is masked, whatever the trees.
LEMMA TextsMasked ==
  ASSUME TelemetryTypeOK, NEW p \in Procs, NEW trees \in SUBSET (Plugins \X SUBSET Plugins)
  PROVE  Texts(p, trees) \in SUBSET STRING /\ Texts(p, trees) \subseteq Names \cup Flags
<1>1. cmd[p].args \in CommandLines /\ cmd[p].args \in Seq(Arg)
  BY CmdType
<1>2. ASSUME NEW t \in trees
      PROVE  CommandPath[t[1]][t[2]][cmd[p].args] \subseteq STRING \cap Names
  <2>1. t[1] \in Plugins /\ t[2] \in SUBSET Plugins
    OBVIOUS
  <2>2. CommandPath[t[1]][t[2]][cmd[p].args]
          = parsePluginCommandPath(constructPluginCommandTree(t[2], t[1]), cmd[p].args)
    BY <1>1, <2>1, CommandPathIs
  <2> QED BY <1>1, <2>2, OnlyCommandsAreReadable
<1>3. Texts(p, trees) \subseteq STRING \cap (Names \cup Flags)
  BY <1>1, <1>2, FlagNames DEF Texts
<1> QED BY <1>3

LEMMA CoreStep ==
  ASSUME IInv, NEW p \in Procs, updateMetricsForCoreCommand(p)
  PROVE  IInv'
<1>. DEFINE args == cmd[p].args
            texts == {args[i].text : i \in {j \in DOMAIN args : \/ args[j].kind = "flag"
                                                                \/ ~ isHashRequired(cmd[p].kind)}}
            s == [cmd[p] EXCEPT !.pc = "run", !.ready = TRUE, !.texts = texts]
<1>0. /\ cmd[p].pc = "pre" /\ cmd[p].kind \notin {"version", "plugin command"}
      /\ Becomes(p, s) /\ UNCHANGED <<treeVars, dbVars, hist>>
  BY DEF updateMetricsForCoreCommand, At, Becomes, IInv, TelemetryTypeOK
<1>1. args \in CommandLines /\ args \in Seq(Arg)
  BY CmdType DEF IInv
<1>2. \A i \in DOMAIN args : args[i].text \in STRING /\ (args[i].kind = "flag" => args[i].text \in Flags)
  <2>1. \A i \in DOMAIN args : args[i] \in Arg
    BY <1>1
  <2>2. \A i \in DOMAIN args : args[i].kind = "flag" => args[i].text \in Flags
    <3>1. \A i \in DOMAIN args : args[i] \in UNION {Range(l) : l \in CommandLines}
      BY <1>1 DEF Range
    <3> QED BY <3>1 DEF Flags
  <2> QED BY <2>1, <2>2 DEF Arg
<1>3. texts \in SUBSET STRING /\ (cmd[p].kind \notin PluginKinds => texts \subseteq Flags)
  BY <1>2 DEF isHashRequired
<1>. HIDE DEF texts
<1>4. s \in CmdState /\ s.pc = "run" /\ s.kind = cmd[p].kind /\ s.texts = texts /\ s.trees = cmd[p].trees
  BY <1>3, CmdType DEF IInv, CmdState
<1>. HIDE DEF s
<1>5. cmd' \in [Procs -> CmdState] /\ cmd'[p] = s /\ \A q \in Procs \ {p} : cmd'[q] = cmd[q]
  BY <1>0, <1>4, BecomesStep DEF IInv
<1>6. TelemetryTypeOK'
  BY <1>0, <1>5 DEF IInv, TelemetryTypeOK, treeVars, dbVars
<1>7. RowsAreBounded' /\ LockedHolds' /\ MetricsAreMasked' /\ TreesAreOwn'
  BY <1>0, <1>4, <1>5 DEF IInv, RowsAreBounded, LockedHolds, InLock, MetricsAreMasked, TreesAreOwn, Cached, At, treeVars, dbVars
<1>8. TextsAreMasked'
  BY <1>3, <1>4, <1>5 DEF IInv, TextsAreMasked
<1>9. TreeWorkIsTreeKind'
  BY <1>4, <1>5 DEF IInv, TreeWorkIsTreeKind, TreeWork
<1>10. TreesInMemory'
  <2>1. \A q \in Procs : UsesTrees(q)' => UsesTrees(q) /\ cmd'[q].trees = cmd[q].trees
    BY <1>0, <1>4, <1>5 DEF UsesTrees, At
  <2>2. \A q \in Procs : At(q, "read")' => At(q, "read") /\ cmd'[q] = cmd[q]
    BY <1>4, <1>5 DEF At
  <2> QED BY <1>0, <2>1, <2>2 DEF IInv, TreesInMemory, treeVars, Own
<1> QED BY <1>6, <1>7, <1>8, <1>9, <1>10 DEF IInv

\* A step of a command that works on trees.  With commands one at a time it is the only one.
LEMMA TreeStep ==
  ASSUME IInv, NEW p \in Procs, ~At(p, "idle"), TreeKind(cmd[p].kind), NEW s \in CmdState, Becomes(p, s),
         s.pc \notin {"idle", "locked", "insert"}, s.kind = cmd[p].kind,
         s.kind \notin PluginKinds => s.texts \subseteq Names \cup Flags,
         UNCHANGED <<dbVars, hist>>,
         file' \in (SUBSET (Plugins \X SUBSET Plugins)) \cup {Missing, Blank, Torn},
         docs' \in SUBSET Plugins,
         ~hist.overlap => Own(Cached') /\ Own(s.trees) /\ (s.pc = "read" => docs' = {s.plugin})
  PROVE  IInv'
<1>1. cmd' \in [Procs -> CmdState] /\ cmd'[p] = s /\ \A q \in Procs \ {p} : cmd'[q] = cmd[q]
  BY BecomesStep DEF IInv
<1>2. TelemetryTypeOK'
  BY <1>1 DEF IInv, TelemetryTypeOK, dbVars
<1>3. RowsAreBounded' /\ LockedHolds' /\ MetricsAreMasked'
  BY <1>1 DEF IInv, RowsAreBounded, LockedHolds, InLock, MetricsAreMasked, At, dbVars
<1>4. TextsAreMasked'
  BY <1>1 DEF IInv, TextsAreMasked
<1>5. TreeWorkIsTreeKind'
  BY <1>1 DEF IInv, TreeWorkIsTreeKind
<1>6. TreesAreOwn'
  BY DEF TreesAreOwn, Own
<1>7. TreesInMemory'
  <2>1. SUFFICES ASSUME ~hist.overlap PROVE TreesInMemory'
    BY DEF TreesInMemory
  <2>2. UsesTrees(p) /\ \A q \in Procs : UsesTrees(q) => q = p
    BY <2>1 DEF IInv, TreesInMemory, UsesTrees
  <2>3. \A q \in Procs : UsesTrees(q)' => q = p
    BY <1>1, <2>2 DEF UsesTrees, At
  <2>4. \A q \in Procs : At(q, "read")' => q = p
    BY <1>1, <2>2 DEF IInv, TreeWorkIsTreeKind, TreeWork, UsesTrees, At
  <2> QED BY <1>1, <2>1, <2>3, <2>4 DEF TreesInMemory, At
<1> QED BY <1>2, <1>3, <1>4, <1>5, <1>6, <1>7 DEF IInv

\* The trees that a command that uses them has in memory.
LEMMA InMemory ==
  ASSUME IInv, NEW p \in Procs, ~At(p, "idle"), TreeKind(cmd[p].kind), ~hist.overlap
  PROVE  Own(cmd[p].trees) /\ Own(Cached) /\ (At(p, "read") => docs = {cmd[p].plugin})
BY DEF IInv, TreesInMemory, TreesAreOwn, UsesTrees, Own

LEMMA PluginStep ==
  ASSUME IInv, NEW p \in Procs, updateMetricsForPlugin(p)
  PROVE  IInv'
<1>0. /\ cmd[p].pc = "pre" /\ cmd[p].kind = "plugin command" /\ ~At(p, "idle") /\ TreeKind(cmd[p].kind)
      /\ UNCHANGED <<treeVars, dbVars, hist>>
  BY DEF updateMetricsForPlugin, At, TreeKind
<1>1. Cached' = Cached /\ docs' \in SUBSET Plugins
      /\ file' \in (SUBSET (Plugins \X SUBSET Plugins)) \cup {Missing, Blank, Torn}
  BY <1>0 DEF IInv, TelemetryTypeOK, treeVars, Cached
<1>2. CASE cmd' = [cmd EXCEPT ![p].pc = "run", ![p].ready = TRUE, ![p].texts = Texts(p, Cached)]
  <2>. DEFINE texts == Texts(p, Cached)
              s == [cmd[p] EXCEPT !.pc = "run", !.ready = TRUE, !.texts = texts]
  <2>1. texts \in SUBSET STRING /\ texts \subseteq Names \cup Flags
    BY TextsMasked, CachedType DEF IInv
  <2>2. Becomes(p, s)
    BY <1>2 DEF Becomes, IInv, TelemetryTypeOK
  <2>. HIDE DEF texts
  <2>3. s \in CmdState /\ s.pc = "run" /\ s.kind = cmd[p].kind /\ s.texts = texts /\ s.trees = cmd[p].trees
    BY <2>1, CmdType DEF IInv, CmdState
  <2>. HIDE DEF s
  <2> QED BY <1>0, <1>1, <2>1, <2>2, <2>3, TreeStep, InMemory
<1>3. CASE cmd' = [cmd EXCEPT ![p].pc = IF file = Blank THEN "idle" ELSE "generate",
                              ![p].ready = TRUE, ![p].trees = Cached]
  <2>. DEFINE pc == IF file = Blank THEN "idle" ELSE "generate"
              s == [cmd[p] EXCEPT !.pc = pc, !.ready = TRUE, !.trees = Cached]
  <2>1. pc \in {"idle", "generate"}
    OBVIOUS
  <2>2. Becomes(p, s)
    BY <1>3 DEF Becomes, IInv, TelemetryTypeOK
  <2>. HIDE DEF pc
  <2>3. s \in CmdState /\ s.pc = pc /\ s.kind = cmd[p].kind /\ s.texts = cmd[p].texts /\ s.trees = Cached
    BY <2>1, CmdType, CachedType DEF IInv, CmdState
  <2>4. s.kind \notin PluginKinds => s.texts \subseteq Names \cup Flags
    BY <2>3 DEF IInv, TextsAreMasked
  <2>. HIDE DEF s
  <2>5. CASE pc = "generate"
    BY <1>0, <1>1, <2>2, <2>3, <2>4, <2>5, TreeStep, InMemory
  <2>6. CASE pc = "idle"
    <3>1. cmd' \in [Procs -> CmdState] /\ cmd'[p] = s /\ \A q \in Procs \ {p} : cmd'[q] = cmd[q]
      BY <2>2, <2>3, BecomesStep DEF IInv
    <3>2. TelemetryTypeOK'
      BY <1>0, <3>1 DEF IInv, TelemetryTypeOK, treeVars, dbVars
    <3>3. RowsAreBounded' /\ LockedHolds' /\ MetricsAreMasked' /\ TreesAreOwn'
      BY <1>0, <1>1, <2>3, <2>6, <3>1 DEF IInv, RowsAreBounded, LockedHolds, InLock, MetricsAreMasked, TreesAreOwn, At, dbVars
    <3>4. TextsAreMasked'
      BY <2>4, <3>1 DEF IInv, TextsAreMasked
    <3>5. TreeWorkIsTreeKind'
      BY <2>3, <2>6, <3>1 DEF IInv, TreeWorkIsTreeKind, TreeWork
    <3>6. TreesInMemory'
      <4>1. \A q \in Procs : UsesTrees(q)' => UsesTrees(q) /\ cmd'[q] = cmd[q]
        BY <2>3, <2>6, <3>1 DEF UsesTrees, At
      <4>2. \A q \in Procs : At(q, "read")' => At(q, "read") /\ cmd'[q] = cmd[q]
        BY <2>3, <2>6, <3>1 DEF At
      <4> QED BY <1>0, <4>1, <4>2 DEF IInv, TreesInMemory, treeVars, Own
    <3> QED BY <3>2, <3>3, <3>4, <3>5, <3>6 DEF IInv
  <2> QED BY <2>1, <2>5, <2>6
<1> QED BY <1>2, <1>3 DEF updateMetricsForPlugin

LEMMA DocsStep ==
  ASSUME IInv, NEW p \in Procs, generatePluginDocs(p)
  PROVE  IInv'
<1>. DEFINE s == [cmd[p] EXCEPT !.pc = "read"]
<1>0. /\ cmd[p].pc = "generate" /\ ~At(p, "idle") /\ TreeKind(cmd[p].kind)
      /\ docs' = {cmd[p].plugin} /\ UNCHANGED <<file, dbVars, hist>>
  BY DEF generatePluginDocs, At, IInv, TreeWorkIsTreeKind, TreeWork
<1>1. Becomes(p, s)
  BY DEF generatePluginDocs, GoTo, Becomes, IInv, TelemetryTypeOK
<1>2. s \in CmdState /\ s.pc = "read" /\ s.kind = cmd[p].kind /\ s.texts = cmd[p].texts
      /\ s.trees = cmd[p].trees /\ s.plugin = cmd[p].plugin /\ cmd[p].plugin \in Plugins
  BY CmdType DEF IInv, CmdState
<1>. HIDE DEF s
<1>3. s.kind \notin PluginKinds => s.texts \subseteq Names \cup Flags
  BY <1>2 DEF IInv, TextsAreMasked
<1>4. Cached' = Cached /\ docs' \in SUBSET Plugins
      /\ file' \in (SUBSET (Plugins \X SUBSET Plugins)) \cup {Missing, Blank, Torn}
  BY <1>0, <1>2 DEF IInv, TelemetryTypeOK, Cached
<1> QED BY <1>0, <1>1, <1>2, <1>3, <1>4, TreeStep, InMemory

\* The documentation in the directory makes the tree of the plugin.
LEMMA ConstructStep ==
  ASSUME IInv, NEW p \in Procs, constructAndAddTree(p)
  PROVE  IInv'
<1>. DEFINE trees == cmd[p].trees \cup {<<cmd[p].plugin, docs>>}
            texts == Texts(p, trees)
            s == [cmd[p] EXCEPT !.pc = "truncate", !.trees = trees, !.texts = texts]
<1>0. /\ At(p, "read") /\ ~At(p, "idle") /\ TreeKind(cmd[p].kind) /\ UNCHANGED <<treeVars, dbVars, hist>>
  BY DEF constructAndAddTree, At, IInv, TreeWorkIsTreeKind, TreeWork
<1>1. Becomes(p, s)
  BY DEF constructAndAddTree, Becomes, IInv, TelemetryTypeOK
<1>2. trees \in SUBSET (Plugins \X SUBSET Plugins)
  BY CmdType DEF IInv, TelemetryTypeOK
<1>3. ~hist.overlap => Own(trees)
  BY <1>0, InMemory DEF Own
<1>. HIDE DEF trees
<1>4. texts \in SUBSET STRING /\ texts \subseteq Names \cup Flags
  BY <1>2, TextsMasked DEF IInv
<1>. HIDE DEF texts
<1>5. s \in CmdState /\ s.pc = "truncate" /\ s.kind = cmd[p].kind /\ s.texts = texts /\ s.trees = trees
  BY <1>2, <1>4, CmdType DEF IInv, CmdState
<1>. HIDE DEF s
<1>6. Cached' = Cached /\ docs' \in SUBSET Plugins
      /\ file' \in (SUBSET (Plugins \X SUBSET Plugins)) \cup {Missing, Blank, Torn}
  BY <1>0 DEF IInv, TelemetryTypeOK, treeVars, Cached
<1> QED BY <1>0, <1>1, <1>3, <1>4, <1>5, <1>6, TreeStep, InMemory

\* A step of the work on trees that keeps what is in memory.
LEMMA TreeGoTo ==
  ASSUME IInv, NEW p \in Procs, ~At(p, "idle"), TreeKind(cmd[p].kind),
         NEW pc \in PCs \ {"idle", "locked", "insert", "read"}, GoTo(p, pc),
         UNCHANGED <<dbVars, hist>>, docs' \in SUBSET Plugins,
         file' \in (SUBSET (Plugins \X SUBSET Plugins)) \cup {Missing, Blank, Torn},
         ~hist.overlap => Own(Cached')
  PROVE  IInv'
<1>. DEFINE s == [cmd[p] EXCEPT !.pc = pc]
<1>1. Becomes(p, s)
  BY DEF GoTo, Becomes, IInv, TelemetryTypeOK
<1>2. s \in CmdState /\ s.pc = pc /\ s.kind = cmd[p].kind /\ s.texts = cmd[p].texts /\ s.trees = cmd[p].trees
  BY CmdType DEF IInv, CmdState, PCs
<1>. HIDE DEF s
<1>3. s.kind \notin PluginKinds => s.texts \subseteq Names \cup Flags
  BY <1>2 DEF IInv, TextsAreMasked
<1> QED BY <1>1, <1>2, <1>3, TreeStep, InMemory

LEMMA SaveTreeStep ==
  ASSUME IInv, NEW p \in Procs, savePluginCommandTree(p)
  PROVE  IInv'
<1>0. /\ ~At(p, "idle") /\ TreeKind(cmd[p].kind) /\ UNCHANGED <<docs, dbVars, hist>>
      /\ docs \in SUBSET Plugins
  BY DEF savePluginCommandTree, At, IInv, TelemetryTypeOK, TreeWorkIsTreeKind, TreeWork
<1>1. CASE file' = Blank /\ GoTo(p, "write")
  <2>1. Cached' = {}
    BY <1>1 DEF Cached
  <2> QED BY <1>0, <1>1, <2>1, TreeGoTo DEF PCs, Own
<1>2. CASE At(p, "write") /\ savePluginCommandTree(p)
  <2>. DEFINE pc == IF cmd[p].kind = "uninstall" THEN "save" ELSE "run"
  <2>1. pc \in PCs \ {"idle", "locked", "insert", "read"} /\ GoTo(p, pc)
    BY <1>2 DEF savePluginCommandTree, At, PCs
  <2>2. file' \in {Missing, Torn, cmd[p].trees}
    BY <1>2 DEF savePluginCommandTree, At
  <2>3. Cached' \in {{}, cmd[p].trees}
    BY <2>2 DEF Cached
  <2>4. file' \in (SUBSET (Plugins \X SUBSET Plugins)) \cup {Missing, Blank, Torn}
    BY <2>2, CmdType DEF IInv
  <2>5. ~hist.overlap => Own(Cached')
    BY <1>0, <2>3, InMemory DEF Own
  <2>. HIDE DEF pc
  <2> QED BY <1>0, <2>1, <2>4, <2>5, TreeGoTo
<1> QED BY <1>1, <1>2 DEF savePluginCommandTree

LEMMA DbVarsType ==
  ASSUME IInv
  PROVE  /\ rows \in Nat /\ rows <= MaxRows /\ lock \in Procs \cup {NoProc} /\ late \in SUBSET Procs
         /\ hist \in [overlap : BOOLEAN, faults : Nat, runs : Nat]
BY DEF IInv, TelemetryTypeOK, RowsAreBounded

LEMMA RunStep ==
  ASSUME IInv, NEW p \in Procs, Run(p)
  PROVE  IInv'
<1>0. cmd[p].pc = "run" /\ ~At(p, "idle") /\ UNCHANGED <<dbVars, hist>>
  BY DEF Run, At
<1>1. CASE /\ cmd[p].kind = "uninstall" /\ UNCHANGED treeVars
           /\ cmd' = [cmd EXCEPT ![p].pc = "truncate", ![p].trees = {t \in Cached : t[1] # cmd[p].plugin}]
  <2>. DEFINE trees == {t \in Cached : t[1] # cmd[p].plugin}
              s == [cmd[p] EXCEPT !.pc = "truncate", !.trees = trees]
  <2>1. trees \in SUBSET (Plugins \X SUBSET Plugins) /\ trees \subseteq Cached
    BY CachedType DEF IInv
  <2>2. Becomes(p, s)
    BY <1>1 DEF Becomes, IInv, TelemetryTypeOK
  <2>. HIDE DEF trees
  <2>3. s \in CmdState /\ s.pc = "truncate" /\ s.kind = cmd[p].kind /\ s.texts = cmd[p].texts /\ s.trees = trees
    BY <2>1, CmdType DEF IInv, CmdState
  <2>. HIDE DEF s
  <2>4. Cached' = Cached /\ docs' \in SUBSET Plugins
        /\ file' \in (SUBSET (Plugins \X SUBSET Plugins)) \cup {Missing, Blank, Torn}
    BY <1>1 DEF IInv, TelemetryTypeOK, treeVars, Cached
  <2>5. TreeKind(cmd[p].kind) /\ cmd[p].kind \in PluginKinds
    BY <1>1 DEF TreeKind, PluginKinds
  <2>6. ~hist.overlap => Own(Cached) /\ Own(trees)
    BY <1>0, <2>1, <2>5, InMemory DEF Own
  <2> QED BY <1>0, <2>2, <2>3, <2>4, <2>5, <2>6, TreeStep
<1>2. CASE cmd[p].kind = "clean" /\ file' = Missing /\ docs' = {} /\ GoTo(p, "save")
  <2>1. Cached' = {}
    BY <1>2 DEF Cached
  <2> QED BY <1>0, <1>2, <2>1, TreeGoTo DEF PCs, Own, TreeKind
<1>3. CASE GoTo(p, "save") /\ UNCHANGED treeVars
  <2>1. GoesOn(p, "save") /\ "save" \in PCs \ (TreeWork \cup {"idle"})
    BY <1>3, GoToStep DEF IInv, PCs, TreeWork
  <2>2. ~InLock(p)' /\ ~At(p, "insert")'
    BY <2>1 DEF GoesOn, At, InLock
  <2> QED BY <1>0, <1>3, <2>1, <2>2, AfterStep, DbVarsType DEF dbVars
<1> QED BY <1>1, <1>2, <1>3 DEF Run

-----------------------------------------------------------------------------
(* After the command *)

LEMMA SaveMetricsStep ==
  ASSUME IInv, NEW p \in Procs, SaveMetrics(p) \/ SendMetrics(p)
  PROVE  IInv'
<1>0. ~At(p, "idle") /\ UNCHANGED <<treeVars, dbVars, hist>>
  BY DEF SaveMetrics, SendMetrics, At
<1>1. Ends(p) \/ \E pc \in {"lock", "send"} : GoesOn(p, pc)
  <2>1. CASE SaveMetrics(p) /\ cmd[p].ready
    <3>. DEFINE use == IF optIn THEN "insert" ELSE "clear"
    <3>1. cmd' = [cmd EXCEPT ![p].pc = "lock", ![p].use = use] /\ use \in {"insert", "clear"}
      BY <2>1 DEF SaveMetrics
    <3>. HIDE DEF use
    <3> QED BY <3>1, UseStep DEF IInv, PCs
  <2>2. CASE SaveMetrics(p) /\ ~cmd[p].ready
    <3>1. GoTo(p, "send")
      BY <2>2 DEF SaveMetrics, GoTo
    <3> QED BY <3>1, GoToStep DEF IInv, PCs
  <2>3. CASE SendMetrics(p) /\ optIn
    BY <2>3, UseStep DEF SendMetrics, IInv, PCs
  <2>4. CASE SendMetrics(p) /\ ~optIn
    BY <2>4, EndStep DEF SendMetrics, IInv
  <2> QED BY <2>1, <2>2, <2>3, <2>4
<1>2. ~InLock(p)' /\ ~At(p, "insert")'
  BY <1>1, IdleType DEF GoesOn, Ends, At, InLock
<1>3. Ends(p) \/ \E pc \in PCs \ (TreeWork \cup {"idle"}) : GoesOn(p, pc)
  BY <1>1 DEF PCs, TreeWork
<1> QED BY <1>0, <1>2, <1>3, AfterStep, DbVarsType DEF dbVars

LEMMA AcquireStep ==
  ASSUME IInv, NEW p \in Procs, AcquireTanzuMetricDBLock(p)
  PROVE  IInv'
<1>0. ~At(p, "idle") /\ lock = NoProc /\ lock' = p /\ UNCHANGED <<treeVars, rows, plain, optIn, late, hist>>
  BY DEF AcquireTanzuMetricDBLock, At
<1>1. GoesOn(p, "locked") /\ "locked" \in PCs \ (TreeWork \cup {"idle"})
  BY GoToStep DEF AcquireTanzuMetricDBLock, IInv, PCs, TreeWork
<1>2. \A q \in Procs \ {p} : lock = q => lock' = q
  BY <1>0, TelemetryAssumption
<1>3. ~At(p, "insert")'
  BY <1>1 DEF GoesOn, At
<1> QED BY <1>0, <1>1, <1>2, <1>3, AfterStep, DbVarsType

LEMMA LockTimeoutStep ==
  ASSUME IInv, NEW p \in Procs, LockTimeout(p)
  PROVE  IInv'
<1>0. /\ ~At(p, "idle") /\ late' \in SUBSET Procs
      /\ UNCHANGED <<treeVars, rows, plain, optIn, lock, hist>>
  BY DbVarsType DEF LockTimeout, At
<1>1. Ends(p) \/ GoesOn(p, "collect")
  BY GoToStep, EndStep DEF LockTimeout, IInv, PCs
<1>2. Ends(p) \/ \E pc \in PCs \ (TreeWork \cup {"idle"}) : GoesOn(p, pc)
  BY <1>1 DEF PCs, TreeWork
<1>3. ~InLock(p)' /\ ~At(p, "insert")'
  BY <1>1, IdleType DEF GoesOn, Ends, At, InLock
<1> QED BY <1>0, <1>2, <1>3, AfterStep, DbVarsType

\* A goroutine whose wait was given up changes the lock only.
LEMMA LateStep ==
  ASSUME IInv, NEW p \in Procs, LateLock(p) \/ LateRelease(p)
  PROVE  IInv'
<1>0. /\ At(p, "collect") /\ UNCHANGED <<treeVars, rows, plain, optIn, cmd, hist>>
      /\ late' \in SUBSET Procs /\ lock' \in Procs \cup {NoProc}
      /\ \A q \in Procs \ {p} : lock # q
  BY TelemetryAssumption, DbVarsType DEF LateLock, LateRelease
<1>1. TelemetryTypeOK'
  BY <1>0 DEF IInv, TelemetryTypeOK, treeVars
<1>2. LockedHolds'
  BY <1>0 DEF IInv, LockedHolds, InLock, At
<1>3. RowsAreBounded' /\ TextsAreMasked' /\ MetricsAreMasked' /\ TreeWorkIsTreeKind' /\ TreesAreOwn'
  BY <1>0 DEF IInv, RowsAreBounded, TextsAreMasked, MetricsAreMasked, TreeWorkIsTreeKind, TreesAreOwn, Cached, treeVars
<1>4. TreesInMemory'
  BY <1>0 DEF IInv, TreesInMemory, UsesTrees, At, treeVars
<1> QED BY <1>1, <1>2, <1>3, <1>4 DEF IInv

\* Inside the lock: nobody else is.
LEMMA OnlyHolder ==
  ASSUME IInv, NEW p \in Procs, InLock(p)
  PROVE  lock = p /\ \A q \in Procs \ {p} : lock # q
BY DEF IInv, LockedHolds, InLock

\* The rows are counted; at the limit that is the end.
LEMMA CountRowsStep ==
  ASSUME IInv, NEW p \in Procs, CountRows(p)
  PROVE  IInv'
<1>0. /\ InLock(p) /\ ~At(p, "idle") /\ UNCHANGED <<treeVars, rows, plain, optIn, late, hist>>
      /\ lock = p /\ lock' \in Procs \cup {NoProc} /\ \A q \in Procs \ {p} : lock # q
  BY OnlyHolder DEF CountRows, At, InLock
<1>1. CASE isDBRowCountThresholdReached
  <2>1. Ends(p)
    BY <1>1, EndStep DEF CountRows, IInv
  <2>2. ~InLock(p)' /\ ~At(p, "insert")'
    BY <2>1, IdleType DEF Ends, At, InLock
  <2> QED BY <1>0, <2>1, <2>2, AfterStep, DbVarsType
<1>2. CASE ~isDBRowCountThresholdReached
  <2>1. GoesOn(p, "insert") /\ "insert" \in PCs \ (TreeWork \cup {"idle"})
    BY <1>2, GoToStep DEF CountRows, IInv, PCs, TreeWork
  <2>2. rows' < MaxRows /\ lock' = lock
    BY <1>0, <1>2, DbVarsType, TelemetryAssumption DEF CountRows, isDBRowCountThresholdReached
  <2> QED BY <1>0, <2>1, <2>2, AfterStep, DbVarsType
<1> QED BY <1>1, <1>2

LEMMA HoldingStep ==
  ASSUME IInv, NEW p \in Procs, Insert(p) \/ ClearMetricData(p) \/ GetRowCount(p)
  PROVE  IInv'
<1>0. /\ InLock(p) /\ ~At(p, "idle") /\ lock' = NoProc /\ UNCHANGED <<treeVars, optIn, late, hist>>
      /\ \A q \in Procs \ {p} : lock # q
  BY OnlyHolder DEF Insert, ClearMetricData, GetRowCount, At, InLock
<1>1. /\ rows' \in Nat /\ rows' <= MaxRows
      /\ plain' \subseteq plain \cup ({cmd[p].kind} \X cmd[p].texts)
      /\ Ends(p) \/ \E pc \in {"send", "lock", "collect"} : GoesOn(p, pc)
  <2>1. CASE Insert(p)
    <3>1. rows < MaxRows /\ rows' = rows + 1 /\ rows \in Nat
      BY <2>1, DbVarsType DEF Insert, IInv, LockedHolds
    <3>2. rows' \in Nat /\ rows' <= MaxRows
      BY <3>1, TelemetryAssumption
    <3>3. GoTo(p, "send") /\ plain' = plain \cup ({cmd[p].kind} \X cmd[p].texts)
      BY <2>1 DEF Insert
    <3> QED BY <3>2, <3>3, GoToStep DEF IInv, PCs
  <2>2. CASE ClearMetricData(p)
    BY <2>2, GoToStep, TelemetryAssumption DEF ClearMetricData, IInv, PCs
  <2>3. CASE GetRowCount(p)
    <3>1. UNCHANGED <<rows, plain>>
      BY <2>3 DEF GetRowCount
    <3>2. \/ GoTo(p, "collect") \/ End(p)
          \/ cmd' = [cmd EXCEPT ![p].pc = "lock", ![p].use = "timeout"]
      BY <2>3 DEF GetRowCount
    <3> QED BY <3>1, <3>2, DbVarsType, GoToStep, EndStep, UseStep DEF IInv, PCs
  <2> QED BY <2>1, <2>2, <2>3
<1>2. Ends(p) \/ \E pc \in PCs \ (TreeWork \cup {"idle"}) : GoesOn(p, pc)
  BY <1>1 DEF PCs, TreeWork
<1>3. ~InLock(p)' /\ ~At(p, "insert")'
  BY <1>1, IdleType DEF GoesOn, Ends, At, InLock
<1> QED BY <1>0, <1>1, <1>2, <1>3, AfterStep, DbVarsType

LEMMA DatabaseFailsStep ==
  ASSUME IInv, NEW p \in Procs, DatabaseFails(p)
  PROVE  IInv'
<1>0. /\ InLock(p) /\ ~At(p, "idle") /\ lock' = NoProc /\ Failed
      /\ UNCHANGED <<treeVars, rows, plain, optIn, late>>
      /\ \A q \in Procs \ {p} : lock # q
  BY OnlyHolder DEF DatabaseFails, At, InLock
<1>1. Ends(p) \/ GoesOn(p, "collect")
  BY GoToStep, EndStep DEF DatabaseFails, IInv, PCs
<1>2. Ends(p) \/ \E pc \in PCs \ (TreeWork \cup {"idle"}) : GoesOn(p, pc)
  BY <1>1 DEF PCs, TreeWork
<1>3. ~InLock(p)' /\ ~At(p, "insert")'
  BY <1>1, IdleType DEF GoesOn, Ends, At, InLock
<1>4. hist' \in [overlap : BOOLEAN, faults : Nat, runs : Nat] /\ hist'.overlap = hist.overlap
  BY <1>0, FailedStep DEF IInv
<1> QED BY <1>0, <1>2, <1>3, <1>4, AfterStep, DbVarsType

LEMMA CollectStep ==
  ASSUME IInv, NEW p \in Procs, Collect(p)
  PROVE  IInv'
<1>0. /\ ~At(p, "idle") /\ rows' \in {0, rows} /\ plain' \subseteq plain /\ late' \in SUBSET Procs
      /\ UNCHANGED <<treeVars, optIn, lock, hist>>
  BY DbVarsType DEF Collect, At
<1>1. rows' \in Nat /\ rows' <= MaxRows
  BY <1>0, DbVarsType, TelemetryAssumption
<1>2. Ends(p)
  BY EndStep DEF Collect, IInv
<1>3. ~InLock(p)' /\ ~At(p, "insert")'
  BY <1>2, IdleType DEF Ends, At, InLock
<1>4. \A q \in Procs \ {p} : lock # q
  BY TelemetryAssumption DEF Collect
<1> QED BY <1>0, <1>1, <1>2, <1>3, <1>4, AfterStep, DbVarsType

LEMMA CrashStep ==
  ASSUME IInv, NEW p \in Procs, CrashCommand(p)
  PROVE  IInv'
<1>0. /\ ~At(p, "idle") /\ lock' = (IF lock = p THEN NoProc ELSE lock) /\ late' \in SUBSET Procs /\ Failed
      /\ UNCHANGED <<treeVars, rows, plain, optIn>>
  BY DbVarsType DEF CrashCommand
<1>1. Ends(p)
  BY EndStep DEF CrashCommand, IInv
<1>2. ~InLock(p)' /\ ~At(p, "insert")'
  BY <1>1, IdleType DEF Ends, At, InLock
<1>3. hist' \in [overlap : BOOLEAN, faults : Nat, runs : Nat] /\ hist'.overlap = hist.overlap
  BY <1>0, FailedStep DEF IInv
<1>4. lock' \in Procs \cup {NoProc} /\ \A q \in Procs \ {p} : lock = q => lock' = q
  BY <1>0, DbVarsType
<1> QED BY <1>0, <1>1, <1>2, <1>3, <1>4, AfterStep, DbVarsType

LEMMA SetCEIPOptInStep ==
  ASSUME IInv, SetCEIPOptIn
  PROVE  IInv'
<1>0. optIn' \in BOOLEAN /\ UNCHANGED <<treeVars, rows, plain, lock, late, cmd, hist>>
  BY DEF SetCEIPOptIn, IInv, TelemetryTypeOK
<1>1. TelemetryTypeOK'
  BY <1>0 DEF IInv, TelemetryTypeOK, treeVars
<1>2. LockedHolds'
  BY <1>0 DEF IInv, LockedHolds, InLock, At
<1>3. RowsAreBounded' /\ TextsAreMasked' /\ MetricsAreMasked' /\ TreeWorkIsTreeKind' /\ TreesAreOwn'
  BY <1>0 DEF IInv, RowsAreBounded, TextsAreMasked, MetricsAreMasked, TreeWorkIsTreeKind, TreesAreOwn, Cached, treeVars
<1>4. TreesInMemory'
  BY <1>0 DEF IInv, TreesInMemory, UsesTrees, At, treeVars
<1> QED BY <1>1, <1>2, <1>3, <1>4 DEF IInv

LEMMA StartStep ==
  ASSUME IInv, NEW p \in Procs, Start(p)
  PROVE  IInv'
<1>1. PICK kind \in Kinds, x \in Plugins, args \in CommandLines :
        /\ cmd' = [cmd EXCEPT ![p] = [Idle EXCEPT !.pc = IF kind = "version" THEN "run" ELSE "pre",
                                                  !.kind = kind, !.plugin = x, !.args = args]]
        /\ hist' = [hist EXCEPT !.runs = hist.runs + 1,
                      !.overlap = hist.overlap \/ (TreeKind(kind) /\ \E q \in Procs \ {p} : UsesTrees(q))]
  BY DEF Start
<1>. DEFINE pc == IF kind = "version" THEN "run" ELSE "pre"
            s == [Idle EXCEPT !.pc = pc, !.kind = kind, !.plugin = x, !.args = args]
            b == hist.overlap \/ (TreeKind(kind) /\ \E q \in Procs \ {p} : UsesTrees(q))
            n == hist.runs + 1
<1>2. pc \in {"run", "pre"} /\ Becomes(p, s) /\ hist' = [hist EXCEPT !.runs = n, !.overlap = b]
  BY <1>1 DEF Becomes
<1>3. b \in BOOLEAN /\ n \in Nat /\ (~b => ~hist.overlap /\ (TreeKind(kind) => \A q \in Procs \ {p} : ~UsesTrees(q)))
  BY DEF IInv, TelemetryTypeOK
<1>0. UNCHANGED <<treeVars, dbVars>> /\ cmd[p].pc = "idle"
  BY DEF Start, At
<1>. HIDE DEF pc, b, n
<1>4. s \in CmdState /\ s.pc = pc /\ s.kind = kind /\ s.texts = {} /\ s.trees = {}
  BY <1>2, IdleType DEF CmdState
<1>. HIDE DEF s
<1>5. cmd' \in [Procs -> CmdState] /\ cmd'[p] = s /\ \A q \in Procs \ {p} : cmd'[q] = cmd[q]
  BY <1>2, <1>4, BecomesStep DEF IInv
<1>6. hist' \in [overlap : BOOLEAN, faults : Nat, runs : Nat] /\ hist'.overlap = b
  BY <1>2, <1>3 DEF IInv, TelemetryTypeOK
<1>7. TelemetryTypeOK'
  BY <1>0, <1>5, <1>6 DEF IInv, TelemetryTypeOK, treeVars, dbVars
<1>8. LockedHolds'
  BY <1>0, <1>2, <1>4, <1>5 DEF IInv, LockedHolds, InLock, At, dbVars
<1>9. RowsAreBounded' /\ MetricsAreMasked'
  BY <1>0 DEF IInv, RowsAreBounded, MetricsAreMasked, dbVars
<1>10. TextsAreMasked' /\ TreeWorkIsTreeKind'
  BY <1>2, <1>4, <1>5 DEF IInv, TextsAreMasked, TreeWorkIsTreeKind, TreeWork
<1>11. TreesAreOwn'
  BY <1>0, <1>3, <1>6 DEF IInv, TreesAreOwn, Cached, treeVars
<1>12. TreesInMemory'
  <2>1. SUFFICES ASSUME ~b PROVE TreesInMemory'
    BY <1>6 DEF TreesInMemory
  <2>2. \A q \in Procs \ {p} : (UsesTrees(q)' <=> UsesTrees(q)) /\ cmd'[q] = cmd[q]
    BY <1>5 DEF UsesTrees, At
  <2>3. UsesTrees(p)' => \A q \in Procs \ {p} : ~UsesTrees(q)
    BY <1>3, <1>4, <1>5, <2>1 DEF UsesTrees
  <2>4. \A q, r \in Procs : UsesTrees(q)' /\ UsesTrees(r)' => q = r
    BY <1>3, <2>1, <2>2, <2>3 DEF IInv, TreesInMemory
  <2>5. \A q \in Procs : UsesTrees(q)' => Own(cmd'[q].trees)
    BY <1>3, <1>4, <1>5, <2>1, <2>2 DEF IInv, TreesInMemory, Own
  <2>6. \A q \in Procs : At(q, "read")' => docs' = {cmd'[q].plugin}
    BY <1>0, <1>2, <1>3, <1>4, <1>5, <2>1 DEF IInv, TreesInMemory, At, treeVars
  <2> QED BY <2>4, <2>5, <2>6 DEF TreesInMemory
<1> QED BY <1>7, <1>8, <1>9, <1>10, <1>11, <1>12 DEF IInv

-----------------------------------------------------------------------------
(* Theorems *)

LEMMA InitIInv == TelemetryInit => IInv
<1>. SUFFICES ASSUME TelemetryInit PROVE IInv
  OBVIOUS
<1>1. TelemetryTypeOK
  BY IdleType DEF TelemetryInit, TelemetryTypeOK
<1>2. \A p \in Procs : cmd[p].pc = "idle" /\ cmd[p].texts = {}
  BY IdleType DEF TelemetryInit
<1>3. RowsAreBounded /\ LockedHolds /\ TextsAreMasked /\ MetricsAreMasked
  BY <1>2, TelemetryAssumption DEF TelemetryInit, RowsAreBounded, LockedHolds, InLock, TextsAreMasked, MetricsAreMasked, At
<1>4. TreeWorkIsTreeKind /\ TreesInMemory /\ TreesAreOwn
  BY <1>2 DEF TelemetryInit, TreeWorkIsTreeKind, TreeWork, TreesInMemory, UsesTrees, TreesAreOwn, Cached, At
<1> QED BY <1>1, <1>3, <1>4 DEF IInv

LEMMA NextIInv == IInv /\ [TelemetryNext]_vars => IInv'
<1>. SUFFICES ASSUME IInv, [TelemetryNext]_vars PROVE IInv'
  OBVIOUS
<1>1. CASE SetCEIPOptIn
  BY <1>1, SetCEIPOptInStep
<1>2. ASSUME NEW p \in Procs,
             \/ Start(p) \/ updateMetricsForCoreCommand(p) \/ updateMetricsForPlugin(p)
             \/ generatePluginDocs(p) \/ constructAndAddTree(p) \/ savePluginCommandTree(p) \/ Run(p)
      PROVE  IInv'
  BY <1>2, StartStep, CoreStep, PluginStep, DocsStep, ConstructStep, SaveTreeStep, RunStep
<1>3. ASSUME NEW p \in Procs,
             \/ SaveMetrics(p) \/ AcquireTanzuMetricDBLock(p) \/ LockTimeout(p) \/ LateLock(p)
             \/ Holding(p) \/ SendMetrics(p) \/ Collect(p) \/ DatabaseFails(p) \/ CrashCommand(p)
      PROVE  IInv'
  BY <1>3, SaveMetricsStep, AcquireStep, LockTimeoutStep, LateStep, CountRowsStep, HoldingStep, CollectStep,
     DatabaseFailsStep, CrashStep DEF Holding
<1>4. CASE UNCHANGED vars
  <2>1. UNCHANGED <<file, docs, rows, plain, optIn, lock, late, cmd, hist>>
    BY <1>4 DEF vars
  <2>2. TelemetryTypeOK' /\ LockedHolds'
    BY <2>1 DEF IInv, TelemetryTypeOK, LockedHolds, InLock, At
  <2>3. RowsAreBounded' /\ TextsAreMasked' /\ MetricsAreMasked' /\ TreeWorkIsTreeKind' /\ TreesAreOwn'
    BY <2>1 DEF IInv, RowsAreBounded, TextsAreMasked, MetricsAreMasked, TreeWorkIsTreeKind, TreesAreOwn, Cached
  <2>4. TreesInMemory'
    BY <2>1 DEF IInv, TreesInMemory, UsesTrees, At
  <2> QED BY <2>2, <2>3, <2>4 DEF IInv
<1> QED BY <1>1, <1>2, <1>3, <1>4 DEF TelemetryNext

LEMMA AlwaysIInv == TelemetrySpec => []IInv
BY InitIInv, NextIInv, PTL DEF TelemetrySpec

\* The database never grows past its limit (isDBRowCountThresholdReached), however many
\* commands store their metrics, fail and crash.
THEOREM DatabaseIsBounded == TelemetrySpec => []RowsAreBounded
BY AlwaysIInv, PTL DEF IInv

\* One command at a time is between taking and releasing the lock of the database
\* (AcquireTanzuMetricDBLock), also when waits are given up and their goroutines
\* obtain the lock later: on this the bound on the rows rests.
THEOREM LockIsExclusive ==
  TelemetrySpec => [](\A p, q \in Procs : InLock(p) /\ InLock(q) => p = q)
<1>1. IInv => \A p, q \in Procs : InLock(p) /\ InLock(q) => p = q
  BY DEF IInv, LockedHolds, InLock
<1> QED BY <1>1, AlwaysIInv, PTL

\* Arguments are not readable in the database (updateMetricsForPlugin, isHashRequired):
\* for every set of plugins and command lines, whichever trees are in the cache, what is
\* recorded of other than `plugin` commands are commands, their aliases and flags.
THEOREM ArgumentsAreMasked == TelemetrySpec => []MetricsAreMasked
BY AlwaysIInv, PTL DEF IInv

\* The cached tree of a plugin is made of its own documentation (ConstructAndAddTree),
\* after crashes at any point, for commands on trees one at a time.
THEOREM CachedTreesAreOwn == TelemetrySpec => []TreesAreOwn
BY AlwaysIInv, PTL DEF IInv
==============================================================================
