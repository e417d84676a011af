------------------------------ MODULE Telemetry ------------------------------
(***************************************************************************)
(* What the CLI records about commands (pkg/telemetry) and the cache of    *)
(* the command trees of plugins, with which it tells commands from         *)
(* arguments (pkg/plugincmdtree).  A command builds its metric before it   *)
(* runs, for a plugin with the plugin's tree, and stores it afterwards in  *)
(* a database behind a lock whose wait times out.  The tree cache is a     *)
(* file without a lock, built through a directory all commands share.      *)
(***************************************************************************)
EXTENDS Integers, Sequences, FiniteSets, SequencesExt

CONSTANTS
  Procs,       \* CLI processes
  NoProc,
  Plugins,     \* installed plugins, by installation path
  Target,      \* the target of each
  Docs,        \* the commands each documents: sequences of words after "tanzu"
  Aliases,     \* pairs <<alias, word>>
  Remapped,    \* destination paths of remapped commands
  CommandLines,\* the arguments given: sequences of [kind, text]
  MaxRows,     \* TanzuCLITelemetryMaxRowCount
  SendAt,      \* metricsSendThresholdRowCount
  Faults,      \* subset of {"crash", "dbfail"}
  MaxFaults,   \* how many of them happen: a bound
  MaxRuns,     \* how many commands are run: a bound
  Missing, Blank, Torn   \* states of the tree file: none, empty, not decodable

Words == (UNION {Range(d) : d \in UNION {Docs[x] : x \in Plugins}}) \cup {a[1] : a \in Aliases}

ASSUME TelemetryAssumption ==
  /\ NoProc \notin Procs
  /\ MaxRows \in Nat /\ SendAt \in Nat /\ MaxFaults \in Nat /\ MaxRuns \in Nat
  /\ Target \in [Plugins -> {"global", "kubernetes", "mission-control"}]
  /\ Plugins # {} /\ CommandLines # {}
  /\ CommandLines \subseteq Seq([kind : {"word", "flag", "end"}, text : STRING])

VARIABLES
  file,    \* the tree file: Missing, Blank, Torn, or trees by plugin
  docs,    \* the plugins whose documentation is in the .docs directory
  rows,    \* how many rows the database has
  plain,   \* the texts that are readable in it, each with the kind of command
  optIn,   \* the user takes part in the CEIP
  lock,    \* who holds the lock of the database
  late,    \* processes whose goroutine still waits after a timeout
  cmd,     \* the state of each process
  hist     \* what happened so far

vars == <<file, docs, rows, plain, optIn, lock, late, cmd, hist>>
treeVars == <<file, docs>>
dbVars == <<rows, plain, optIn, lock, late>>

Kinds == {"version", "plugin list", "context use", "plugin command", "uninstall", "clean"}
CmdState == [pc : {"idle", "pre", "generate", "read", "truncate", "write", "run", "save", "lock", "locked",
                   "insert", "send", "collect"},
             kind : Kinds, plugin : Plugins, args : CommandLines,
             trees : SUBSET (Plugins \X SUBSET Plugins),   \* the cache in memory
             texts : SUBSET STRING,                        \* the metric, as far as it is readable
             ready : BOOLEAN,                              \* the metric has a start time
             use   : {"insert", "clear", "count", "timeout"}]

Idle == [pc |-> "idle", kind |-> "version", plugin |-> CHOOSE x \in Plugins : TRUE,
         args |-> CHOOSE a \in CommandLines : TRUE, trees |-> {}, texts |-> {}, ready |-> FALSE,
         use |-> "insert"]

\* hist.overlap: two commands used the tree cache at the same time.
TelemetryInit ==
  /\ file = Missing /\ docs = {} /\ rows = 0 /\ plain = {} /\ optIn \in BOOLEAN
  /\ lock = NoProc /\ late = {}
  /\ cmd = [p \in Procs |-> Idle]
  /\ hist = [overlap |-> FALSE, faults |-> 0, runs |-> 0]

At(p, pc) == cmd[p].pc = pc
GoTo(p, pc) == cmd' = [cmd EXCEPT ![p].pc = pc]
End(p) == cmd' = [cmd EXCEPT ![p] = Idle]
Fault(kind) == kind \in Faults /\ hist.faults < MaxFaults
Failed == hist' = [hist EXCEPT !.faults = hist.faults + 1]

-----------------------------------------------------------------------------
(* Command trees *)

\* Documentation does not know the target: it is put in front, except for
\* global plugins and remapped commands.
adjustCmdNamesForPluginTarget(names, x) ==
  IF \/ names = <<>> \/ Target[x] = "global"
     \/ \E dest \in Remapped : IsPrefix(dest, names)
  THEN names ELSE <<Target[x]>> \o names

\* The tree made of the files in the directory, as its set of paths.  Commands of
\* the target kubernetes are at the root too.
constructPluginCommandTree(from, x) ==
  UNION {{adjustCmdNamesForPluginTarget(d, x)} \cup (IF Target[x] = "kubernetes" THEN {d} ELSE {})
          : d \in UNION {Docs[y] : y \in from}}

\* The sub-command that a word names, itself or by an alias.
subCommandMatchingArg(tree, at, word) ==
  {w \in Words \cup {Target[x] : x \in Plugins} :
     /\ \E path \in tree : IsPrefix(Append(at, w), path)
     /\ w = word \/ <<word, w>> \in Aliases}

\* Every word is taken for a command.
parsePluginCommandPath_AnyWord(tree, args) ==
  {args[i].text : i \in {j \in DOMAIN args : args[j].kind = "word"}}
\* The words of the command line that name commands of the tree, one level after
\* the other, flags and other words in between skipped, up to "--".
parsePluginCommandPath(tree, args) ==
  LET walk[i \in 0..Len(args)] ==
        IF i = 0 THEN [path |-> <<>>, at |-> <<>>, done |-> FALSE]
        ELSE LET acc == walk[i - 1]
                 sub == subCommandMatchingArg(tree, acc.at, args[i].text)
             IN IF acc.done \/ args[i].kind = "end" THEN [acc EXCEPT !.done = TRUE]
                ELSE IF args[i].kind = "flag" \/ sub = {} THEN acc
                ELSE [acc EXCEPT !.path = Append(acc.path, args[i].text),
                                 !.at = Append(acc.at, CHOOSE w \in sub : TRUE)]
  IN Range(walk[Len(args)].path)

\* The commands recorded for a plugin, by the documentation its tree is made of.
CommandPath ==
  [x \in Plugins |-> [from \in SUBSET Plugins |-> [args \in CommandLines |->
     parsePluginCommandPath(constructPluginCommandTree(from, x), args)]]]

\* Of the flags only the names are kept, up to "--".
TraverseFlagNames(args) ==
  {args[i].text : i \in {j \in DOMAIN args : /\ args[j].kind = "flag"
                                              /\ \A k \in 1..j : args[k].kind # "end"}}

\* getPluginCommandTree: an empty file is decoded as no map at all.
Cached == IF file \in {Missing, Blank, Torn} THEN {} ELSE file
Readable == file # Torn

-----------------------------------------------------------------------------
(* Before the command: UpdateCmdPreRunMetrics *)

\* For core commands arguments are kept readable only for `plugin`.
PluginKinds == {"plugin list", "uninstall", "clean"}
isHashRequired(kind) == kind \notin PluginKinds

updateMetricsForCoreCommand(p) ==
  /\ At(p, "pre") /\ cmd[p].kind \notin {"version", "plugin command"}
  /\ cmd' = [cmd EXCEPT ![p].pc = "run", ![p].ready = TRUE,
              ![p].texts = {cmd[p].args[i].text :
                              i \in {j \in DOMAIN cmd[p].args : \/ cmd[p].args[j].kind = "flag"
                                                                \/ ~ isHashRequired(cmd[p].kind)}}]
  /\ UNCHANGED <<treeVars, dbVars, hist>>

\* What is recorded of a plugin's command line, given its tree if there is one.
Texts(p, trees) ==
  TraverseFlagNames(cmd[p].args)
    \cup UNION {CommandPath[t[1]][t[2]][cmd[p].args] : t \in {u \in trees : u[1] = cmd[p].plugin}}

\* The tree in the cache is used; a cache that cannot be decoded is an error and
\* the default path is recorded.  Without a tree the documentation is generated;
\* into an empty map that would be a panic.
updateMetricsForPlugin(p) ==
  /\ At(p, "pre") /\ cmd[p].kind = "plugin command"
  /\ \/ /\ ~Readable \/ \E t \in Cached : t[1] = cmd[p].plugin
        /\ cmd' = [cmd EXCEPT ![p].pc = "run", ![p].ready = TRUE, ![p].texts = Texts(p, Cached)]
     \/ /\ Readable /\ \A t \in Cached : t[1] # cmd[p].plugin
        /\ cmd' = [cmd EXCEPT ![p].pc = IF file = Blank THEN "idle" ELSE "generate",
                              ![p].ready = TRUE, ![p].trees = Cached]
  /\ UNCHANGED <<treeVars, dbVars, hist>>

\* The directory is not emptied first.
generatePluginDocs_Keeps(p) ==
  /\ At(p, "generate")
  /\ docs' = docs \cup {cmd[p].plugin}
  /\ GoTo(p, "read")
  /\ UNCHANGED <<file, dbVars, hist>>
\* The directory is emptied and the plugin writes its documentation.
generatePluginDocs(p) ==
  /\ At(p, "generate")
  /\ docs' = {cmd[p].plugin}
  /\ GoTo(p, "read")
  /\ UNCHANGED <<file, dbVars, hist>>

\* The tree is made of what is in the directory now and added to the map.
constructAndAddTree(p) ==
  LET trees == cmd[p].trees \cup {<<cmd[p].plugin, docs>>}
  IN /\ At(p, "read")
     /\ cmd' = [cmd EXCEPT ![p].pc = "truncate", ![p].trees = trees, ![p].texts = Texts(p, trees)]
     /\ UNCHANGED <<treeVars, dbVars, hist>>

\* savePluginCommandTree truncates the file and then writes it.  Two writers at
\* once may mix their contents, and a file removed meanwhile stays away.
savePluginCommandTree(p) ==
  \/ /\ At(p, "truncate")
     /\ file' = Blank
     /\ GoTo(p, "write")
     /\ UNCHANGED <<docs, dbVars, hist>>
  \/ /\ At(p, "write")
     /\ file' \in IF file = Missing THEN {Missing}
                  ELSE IF file = Blank THEN {cmd[p].trees} ELSE {cmd[p].trees, Torn}
     /\ GoTo(p, IF cmd[p].kind = "uninstall" THEN "save" ELSE "run")
     /\ UNCHANGED <<docs, dbVars, hist>>

\* The command itself.  Uninstalling a plugin deletes its tree; clean removes the
\* whole directory.
Run(p) ==
  /\ At(p, "run")
  /\ \/ /\ cmd[p].kind = "uninstall" /\ \E t \in Cached : t[1] = cmd[p].plugin
        /\ cmd' = [cmd EXCEPT ![p].pc = "truncate", ![p].trees = {t \in Cached : t[1] # cmd[p].plugin}]
        /\ UNCHANGED treeVars
     \/ /\ cmd[p].kind = "clean"
        /\ file' = Missing /\ docs' = {}
        /\ GoTo(p, "save")
     \/ /\ cmd[p].kind # "clean"
        /\ cmd[p].kind = "uninstall" => \A t \in Cached : t[1] # cmd[p].plugin
        /\ GoTo(p, "save")
        /\ UNCHANGED treeVars
  /\ UNCHANGED <<dbVars, hist>>

-----------------------------------------------------------------------------
(* After the command: SaveMetrics and SendMetrics *)

\* A metric without a start is not stored; if the user opted out the database is
\* emptied instead.  An error ends it.
SaveMetrics(p) ==
  /\ At(p, "save")
  /\ cmd' = IF cmd[p].ready
            THEN [cmd EXCEPT ![p].pc = "lock", ![p].use = IF optIn THEN "insert" ELSE "clear"]
            ELSE [cmd EXCEPT ![p].pc = "send"]
  /\ UNCHANGED <<treeVars, dbVars, hist>>

\* The lock is obtained and delivered in time.
AcquireTanzuMetricDBLock(p) ==
  /\ At(p, "lock") /\ lock = NoProc
  /\ lock' = p
  /\ GoTo(p, "locked")
  /\ UNCHANGED <<treeVars, rows, plain, optIn, late, hist>>

\* The wait is given up after three seconds.  That is the end of the command, or
\* the telemetry plugin is run with the least timeout while the goroutine still waits.
LockTimeout(p) ==
  /\ At(p, "lock")
  /\ IF cmd[p].use = "timeout" THEN GoTo(p, "collect") /\ late' = late \cup {p}
     ELSE End(p) /\ UNCHANGED late
  /\ UNCHANGED <<treeVars, rows, plain, optIn, lock, hist>>

\* The goroutine obtains the lock when nobody waits for its result any more.
LateLock(p) ==
  /\ p \in late /\ lock = NoProc /\ At(p, "collect")
  /\ lock' = p
  /\ UNCHANGED <<treeVars, rows, plain, optIn, late, cmd, hist>>

\* The lock that comes too late is kept.
LateRelease_Kept(p) ==
  /\ p \in late /\ lock = p /\ At(p, "collect")
  /\ late' = late \ {p}
  /\ UNCHANGED <<treeVars, rows, plain, optIn, lock, cmd, hist>>
\* It finds the wait cancelled and closes the file.
LateRelease(p) ==
  /\ p \in late /\ lock = p /\ At(p, "collect")
  /\ lock' = NoProc
  /\ late' = late \ {p}
  /\ UNCHANGED <<treeVars, rows, plain, optIn, cmd, hist>>

isDBRowCountThresholdReached == rows >= MaxRows

\* The lock is held for the count only.
CountRows_Unlocks(p) ==
  /\ At(p, "locked") /\ cmd[p].use = "insert"
  /\ IF isDBRowCountThresholdReached THEN End(p) ELSE GoTo(p, "insert")
  /\ lock' = NoProc
  /\ UNCHANGED <<treeVars, rows, plain, optIn, late, hist>>
\* SaveOperationMetric counts the rows, which is an error at the limit,
CountRows(p) ==
  /\ At(p, "locked") /\ cmd[p].use = "insert"
  /\ IF isDBRowCountThresholdReached THEN End(p) /\ lock' = NoProc
     ELSE GoTo(p, "insert") /\ UNCHANGED lock
  /\ UNCHANGED <<treeVars, rows, plain, optIn, late, hist>>

\* and then inserts one; the lock is released when it returns.
Insert(p) ==
  /\ At(p, "insert")
  /\ rows' = rows + 1
  /\ plain' = plain \cup ({cmd[p].kind} \X cmd[p].texts)
  /\ GoTo(p, "send")
  /\ lock' = NoProc
  /\ UNCHANGED <<treeVars, optIn, late, hist>>

ClearMetricData(p) ==
  /\ At(p, "locked") /\ cmd[p].use = "clear"
  /\ rows' = 0 /\ plain' = {}
  /\ GoTo(p, "send")
  /\ lock' = NoProc
  /\ UNCHANGED <<treeVars, optIn, late, hist>>

\* An operation on the database fails; the lock is released all the same.
DatabaseFails(p) ==
  /\ cmd[p].pc \in {"locked", "insert"} /\ Fault("dbfail")
  /\ lock' = NoProc
  /\ IF cmd[p].use = "timeout" THEN GoTo(p, "collect") ELSE End(p)
  /\ Failed
  /\ UNCHANGED <<treeVars, rows, plain, optIn, late>>

\* shouldSendTelemetryData
SendMetrics(p) ==
  /\ At(p, "send")
  /\ IF optIn THEN cmd' = [cmd EXCEPT ![p].pc = "lock", ![p].use = "count"] ELSE End(p)
  /\ UNCHANGED <<treeVars, dbVars, hist>>

\* GetRowCount, to decide and then for the timeout.
GetRowCount(p) ==
  /\ At(p, "locked") /\ cmd[p].use \in {"count", "timeout"}
  /\ IF cmd[p].use = "timeout" THEN GoTo(p, "collect")
     ELSE IF rows >= SendAt THEN cmd' = [cmd EXCEPT ![p].pc = "lock", ![p].use = "timeout"] ELSE End(p)
  /\ lock' = NoProc
  /\ UNCHANGED <<treeVars, rows, plain, optIn, late, hist>>

\* The telemetry plugin, which takes the rows away or not, and may take long.
Collect(p) ==
  /\ At(p, "collect") /\ lock = NoProc
  /\ rows' \in {0, rows} /\ plain' = IF rows' = 0 THEN {} ELSE plain
  /\ End(p)
  /\ late' = late \ {p}
  /\ UNCHANGED <<treeVars, optIn, lock, hist>>

-----------------------------------------------------------------------------
\* A command is started.  When a process ends its goroutines end and its locks are released.
TreeKind(kind) == kind \in {"plugin command", "uninstall", "clean"}
UsesTrees(p) == ~At(p, "idle") /\ TreeKind(cmd[p].kind)
Start(p) ==
  /\ At(p, "idle") /\ hist.runs < MaxRuns
  /\ \E kind \in Kinds, x \in Plugins, args \in CommandLines :
       /\ kind \in {"version", "plugin list", "context use", "clean"} => x = Idle.plugin
       /\ kind \in {"version", "uninstall", "clean"} => args = Idle.args
       /\ cmd' = [cmd EXCEPT ![p] = [Idle EXCEPT !.pc = IF kind = "version" THEN "run" ELSE "pre",
                                                 !.kind = kind, !.plugin = x, !.args = args]]
       /\ hist' = [hist EXCEPT !.runs = hist.runs + 1,
                     !.overlap = hist.overlap \/ (TreeKind(kind) /\ \E q \in Procs \ {p} : UsesTrees(q))]
  /\ UNCHANGED <<treeVars, dbVars>>

\* The user changes the mind.
SetCEIPOptIn == optIn' = ~optIn /\ UNCHANGED <<treeVars, rows, plain, lock, late, cmd, hist>>

CrashCommand(p) ==
  /\ ~At(p, "idle") /\ Fault("crash")
  /\ End(p)
  /\ lock' = IF lock = p THEN NoProc ELSE lock
  /\ late' = late \ {p}
  /\ Failed
  /\ UNCHANGED <<treeVars, rows, plain, optIn>>

\* What a process does that holds the lock.
Holding(p) == LateRelease(p) \/ CountRows(p) \/ Insert(p) \/ ClearMetricData(p) \/ GetRowCount(p)

TelemetryNext ==
  \/ SetCEIPOptIn
  \/ \E p \in Procs :
       \/ Start(p) \/ updateMetricsForCoreCommand(p) \/ updateMetricsForPlugin(p)
       \/ generatePluginDocs(p) \/ constructAndAddTree(p) \/ savePluginCommandTree(p) \/ Run(p)
       \/ SaveMetrics(p) \/ AcquireTanzuMetricDBLock(p) \/ LockTimeout(p) \/ LateLock(p)
       \/ Holding(p) \/ SendMetrics(p) \/ Collect(p) \/ DatabaseFails(p) \/ CrashCommand(p)

\* A process that obtained the lock goes on; how long anything else takes, the
\* telemetry plugin in particular, is not known.
TelemetrySpec == TelemetryInit /\ [][TelemetryNext]_vars /\ \A p \in Procs : WF_vars(Holding(p))

-----------------------------------------------------------------------------
(* Properties *)

\* The database never grows past its limit, however many commands store their
\* metrics at the same time: between the count of SaveOperationMetric and its
\* insertion nobody else inserts, since the lock is held over both.
RowsAreBounded == rows <= MaxRows

\* No wait for the lock that was given up keeps the lock from others: who holds
\* it gives it back, though the telemetry plugin may run on for ever
\* (getFileLockWithTimeout).
LockIsGivenBack == \A p \in Procs : lock = p ~> lock # p

\* What the user typed as an argument is not readable in the database, except for
\* `plugin` commands: words are recorded only if they are commands in a tree,
\* whichever tree an interrupted or concurrent command left in the cache.
MetricsAreMasked ==
  \A r \in plain : r[1] \notin PluginKinds =>
    r[2] \in Words \cup {Target[x] : x \in Plugins}
             \cup {a.text : a \in {b \in UNION {Range(l) : l \in CommandLines} : b.kind = "flag"}}

\* The tree in the cache for a plugin is that of the plugin, after crashes at any
\* point (for commands one at a time: the directory of the documentation is shared).
TreesAreOwn == ~hist.overlap => \A t \in Cached : t[2] = {t[1]}
=============================================================================
