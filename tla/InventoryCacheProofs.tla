------------------------ MODULE InventoryCacheProofs ------------------------
(***************************************************************************)
(* The cache of an inventory, for one process at a time: its digest files  *)
(* describe the database whatever faults stop a refresh, the central       *)
(* configuration goes with the database, a refresh that ends well leaves   *)
(* what the image was, and a cache that is trusted without a refresh is    *)
(* that of the image asked for.  For any number of processes at the same   *)
(* time: the digest files describe the database of an image that does not  *)
(* change when no command is stopped.                                      *)
(***************************************************************************)
EXTENDS InventoryCache, FiniteSetTheorems, TLAPS

\* One command at a time: nothing is locked, and two commands mix their files.
Alone == \A p, q \in Procs : p = q

\* Images do not change, or there is only one.  Otherwise a refresh that sees an
\* image change leaves the digest of the old revision beside the database of
\* the new one, and another image of the old revision is taken for it.
Steady == Publishable = {} \/ \A u, v \in Images : u = v

\* A content that image u has or had.
Own(c, u) ==
  /\ c \in Content
  /\ c.main <= reg[u].main /\ c.meta <= reg[u].meta
  /\ u \notin Publishable => c = reg[u]

\* Revision n, in the name of a digest file, stands for the revision x of the
\* database: the same or, where the image changed in between, a later one.
Names(n, x) == IF Publishable = {} THEN n = x ELSE n <= x

\* The central configuration beside a database of the image main.
CentralOK(main) ==
  \/ central \in {main, Missing}
  \/ central = Torn /\ "configfail" \in faults.kinds

-----------------------------------------------------------------------------
(* The files *)

OneEach ==
  /\ \A d, e \in Digests : d = e
  /\ \A m, n \in metas : m = n
  /\ Digests # {} \/ metas # {} => db # Missing

\* The digest files of the revisions d and m are right for the database.
DescribedBy(d, m) ==
  /\ db \in Content
  /\ CentralOK(db.main)
  /\ Names(d, db.main)
  /\ Publishable # {} => \A u \in Images : db.main <= reg[u].main
  /\ MetadataReached =>
       /\ Names(m, db.meta)
       /\ Publishable # {} => \A u \in Images : db.meta <= reg[u].meta

\* With both digest files in place the database is the one they name.
Described == \A d \in Digests, m \in metas : DescribedBy(d, m)

\* The URI in the main digest file is that of an image of the database, unless
\* a refresh that wrote the URI there is not done.
UriIsRight ==
  \A d \in Digests :
    MetadataReached /\ digest[d] \notin faults.half /\ (\A p \in Procs : ~Halfway(p))
      => Own(db, digest[d])

-----------------------------------------------------------------------------
(* The process *)

Comparing == {"glob", "check", "metadigest", "metaglob", "metacheck", "reuse"}
MetaComparing == {"metaglob", "metacheck", "reuse"}
Copied == {"config", "reset", "create", "metacreate"}
Fetched == {"metadownload", "copy", "write"} \cup Copied
Loading == {"verify", "download"} \cup Fetched

\* What the process saw of its image was there.
SeenOK(s) ==
  s.pc # "idle" => reg[s.image] \in s.seen /\ \A c \in s.seen : Own(c, s.image)

\* The digests it resolved are of what it saw, and not older than the database.
ResolvedOK(s) ==
  /\ s.pc \in Comparing \cup Loading => \E c \in s.seen : c.main = s.main
  /\ s.pc \in MetaComparing \cup Loading /\ MetadataReached => \E c \in s.seen : c.meta = s.meta
  /\ Publishable # {} =>
       \A d \in Digests, m \in metas :
         /\ s.pc \in Comparing => db.main <= s.main
         /\ s.pc \in MetaComparing /\ MetadataReached => db.meta <= s.meta

\* The digest files it found, and which of them it keeps or is to create.
FilesOK(s) ==
  /\ s.pc = "check" => s.found = Digests
  /\ s.pc = "metacheck" => s.found = metas
  /\ s.pc \in {"metadigest", "metaglob", "metacheck", "reuse"} \cup Loading =>
       Digests = IF s.newMain /\ s.pc # "metacreate" THEN {} ELSE {s.main}
  /\ s.pc \in {"metadigest", "metaglob", "metacheck", "reuse"} \cup Loading =>
       \A d \in Digests : digest[d] = s.image
  /\ s.pc = "reuse" => ~s.newMain /\ metas = {s.meta}
  /\ s.pc \in Loading => /\ metas = IF s.newMeta THEN {} ELSE {s.meta}
                         /\ s.newMain \/ s.newMeta

\* What it downloaded, and how far it copied it.
LoadedOK(s) ==
  /\ s.pc \in Fetched => s.main <= s.tmp.main /\ \E c \in s.seen : c.main = s.tmp.main
  /\ s.pc \in Fetched \ {"metadownload"} /\ MetadataReached =>
       s.meta <= s.tmp.meta /\ \E c \in s.seen : c.meta = s.tmp.meta
  /\ s.pc = "write" => db = Blank
  /\ s.pc \in Copied => db = s.tmp
  /\ s.pc \in Copied \ {"config"} => CentralOK(s.tmp.main)

\* The database it reads.
ReadsOK(s) ==
  s.pc = "query" /\ MetadataReached =>
    /\ s.via = "refresh" => db \in Mix(s.seen)
    /\ s.via = "ttl" /\ s.image \notin faults.half => Own(db, s.image)

ProcOK(s) == SeenOK(s) /\ ResolvedOK(s) /\ FilesOK(s) /\ LoadedOK(s) /\ ReadsOK(s)

IInv ==
  /\ TypeOK
  /\ OneEach
  /\ Described
  /\ UriIsRight
  /\ \A p \in Procs : ProcOK(proc[p])


-----------------------------------------------------------------------------
(* Types *)

\* What the next state of the process that moves is.
LEMMA Moved ==
  ASSUME TypeOK, NEW p \in Procs, NEW t, Become(p, t)
  PROVE  proc'[p] = t /\ \A q \in Procs \ {p} : proc'[q] = proc[q]
BY DEF TypeOK, Become

LEMMA MovedTyped ==
  ASSUME TypeOK, NEW p \in Procs, NEW t \in ProcState, Become(p, t)
  PROVE  proc' \in [Procs -> ProcState]
BY DEF TypeOK, Become

LEMMA IdleTyped == Idle \in ProcState /\ Idle.pc = "idle"
<1>1. 1 \in Revs /\ NoContent \in Content /\ DefaultImage \in Images
  BY ConstantsAssumption DEF Revs, NoContent, Content
<1>2. "idle" \in PCs
  BY DEF PCs
<1> QED BY <1>1, <1>2 DEF Idle, ProcState

\* A fault is counted; it is remembered if it stops a refresh half way.
LEMMA FaultTyped ==
  ASSUME TypeOK, NEW p \in Procs, NEW k, Fault(p, k)
  PROVE  /\ faults' \in [count : 0..MaxFaults, kinds : SUBSET FaultKinds, half : SUBSET Images]
         /\ faults.kinds \subseteq faults'.kinds /\ k \in faults'.kinds
         /\ faults'.half = faults.half \cup (IF k \in {"crash", "fail"} /\ Halfway(p)
                                             THEN {proc[p].image} ELSE {})
<1> DEFINE h == IF k \in {"crash", "fail"} /\ Halfway(p) THEN {proc[p].image} ELSE {}
<1>1. h \subseteq Images
  BY DEF TypeOK, ProcState
<1>2. faults' = [count |-> faults.count + 1, kinds |-> faults.kinds \cup {k},
                 half |-> faults.half \cup h]
  BY DEF Fault
<1>3. faults.count + 1 \in 0..MaxFaults /\ k \in FaultKinds
  BY ConstantsAssumption DEF Fault, TypeOK
<1> HIDE DEF h
<1>4. faults' \in [count : 0..MaxFaults, kinds : SUBSET FaultKinds, half : SUBSET Images]
  BY <1>1, <1>2, <1>3 DEF TypeOK
<1>5. faults.kinds \subseteq faults'.kinds /\ k \in faults'.kinds /\ faults'.half = faults.half \cup h
  BY <1>2
<1> QED BY <1>4, <1>5 DEF h

LEMMA FailTyped ==
  ASSUME TypeOK, NEW p \in Procs, Fail(p)
  PROVE  TypeOK'
<1>1. proc' \in [Procs -> ProcState]
  BY MovedTyped, IdleTyped DEF Fail, Finish
<1> QED BY <1>1, FaultTyped DEF Fail, TypeOK, cache

\* The steps that start a command.
LEMMA StartTyped ==
  ASSUME TypeOK, NEW p \in Procs, Start(p)
  PROVE  TypeOK'
<1> USE DEF cache
<1>1. ASSUME NEW k \in Operations, NEW u \in Images, NEW c \in PCs, Discover(p, k, u, c)
      PROVE  proc' \in [Procs -> ProcState]
  <2> DEFINE t == [Idle EXCEPT !.kind = k, !.image = u, !.seen = {reg[u]}, !.pc = c]
  <2>1. reg[u] \in Content
    BY DEF TypeOK
  <2>2. t \in ProcState
    BY <2>1, IdleTyped DEF ProcState
  <2> QED BY <1>1, <2>2, MovedTyped DEF Discover
<1>2. {"ttl", "query", "digest"} \subseteq PCs /\ DefaultImage \in Images
  BY ConstantsAssumption DEF PCs
<1>3. {"list", "local", "update", "init", "daily", "invalidate"} \subseteq Operations
  BY DEF Operations
<1>4. CASE Begin(p)
  <2>1. source \in Images /\ UNCHANGED <<reg, source, cache, faults>>
    BY <1>4 DEF Begin, TypeOK
  <2>2. proc' \in [Procs -> ProcState]
    BY <1>1, <1>2, <1>3, <1>4, <2>1 DEF Begin
  <2> QED BY <2>1, <2>2 DEF TypeOK
<1>5. CASE newUpdateDiscoverySourceCmd(p)
  <2>1. proc' \in [Procs -> ProcState]
    BY <1>1, <1>2, <1>3, <1>5 DEF newUpdateDiscoverySourceCmd
  <2> QED BY <1>5, <2>1 DEF newUpdateDiscoverySourceCmd, TypeOK
<1>6. CASE newInitDiscoverySourceCmd(p)
  <2>1. proc' \in [Procs -> ProcState]
    BY <1>1, <1>2, <1>3, <1>6 DEF newInitDiscoverySourceCmd
  <2> QED BY <1>2, <1>6, <2>1 DEF newInitDiscoverySourceCmd, TypeOK
<1>7. CASE newDeleteDiscoverySourceCmd(p)
  BY <1>7 DEF newDeleteDiscoverySourceCmd, TypeOK
<1>8. CASE RefreshDatabase(p)
  <2>1. source \in Images /\ UNCHANGED <<reg, source, cache, faults>>
    BY <1>8 DEF RefreshDatabase, TypeOK
  <2>2. proc' \in [Procs -> ProcState]
    BY <1>1, <1>2, <1>3, <1>8, <2>1 DEF RefreshDatabase
  <2> QED BY <2>1, <2>2 DEF TypeOK
<1>9. CASE invalidateInventoryCache(p)
  <2>1. source \in Images /\ UNCHANGED <<reg, source, cache, faults>>
    BY <1>9 DEF invalidateInventoryCache, TypeOK
  <2>2. proc' \in [Procs -> ProcState]
    BY <1>1, <1>2, <1>3, <1>9, <2>1 DEF invalidateInventoryCache
  <2> QED BY <2>1, <2>2 DEF TypeOK
<1>10. CASE Clean(p)
  <2>1. digest' \in [Revs -> Images \cup {Missing}] /\ fresh' \subseteq Revs
    BY <1>10 DEF Clean, RemoveDigests, TypeOK
  <2>2. /\ UNCHANGED <<reg, source, proc, faults>>
        /\ db' = Missing /\ central' = Missing /\ metas' = {}
    BY <1>10 DEF Clean
  <2> QED BY <2>1, <2>2 DEF TypeOK
<1> QED BY <1>4, <1>5, <1>6, <1>7, <1>8, <1>9, <1>10 DEF Start

\* The steps that read digests and digest files.
LEMMA CompareTyped ==
  ASSUME TypeOK, NEW p \in Procs,
         \/ CheckTTL(p) \/ GetImageDigest(p) \/ Glob(p) \/ CheckMain(p) \/ GetMetadataDigest(p)
         \/ CheckMeta(p) \/ Reuse(p) \/ Verify(p)
  PROVE  TypeOK'
<1> USE DEF cache
<1> DEFINE s == proc[p]
<1>1. s \in ProcState /\ reg[s.image] \in Content /\ Digests \subseteq Revs
  BY DEF TypeOK, ProcState, Digests
<1>2. PCs = PCs \cup {"digest", "query", "glob", "check", "metacheck", "metadigest", "metaglob",
                      "reuse", "verify", "download"}
  BY DEF PCs
<1>3. ASSUME NEW d \in Revs, NEW u \in Images, CreateDigest(d, u)
      PROVE  digest' \in [Revs -> Images \cup {Missing}] /\ fresh' \subseteq Revs
  BY <1>3 DEF CreateDigest, TypeOK
<1>4. ASSUME NEW ds, RemoveDigests(ds)
      PROVE  digest' \in [Revs -> Images \cup {Missing}] /\ fresh' \subseteq Revs
  BY <1>4 DEF RemoveDigests, TypeOK
<1>5. CASE CheckTTL(p)
  <2>1. [s EXCEPT !.pc = "digest"] \in ProcState /\ [s EXCEPT !.pc = "query", !.via = "ttl"] \in ProcState
    BY <1>1, <1>2 DEF ProcState
  <2>2. proc' \in [Procs -> ProcState]
    BY <1>5, <2>1, MovedTyped DEF CheckTTL
  <2> QED BY <1>5, <2>2 DEF CheckTTL, TypeOK
<1>6. CASE GetImageDigest(p)
  <2>1. CASE Fail(p)
    BY <2>1, FailTyped
  <2>2. CASE ~Fail(p)
    <3>1. [s EXCEPT !.pc = "glob", !.main = reg[s.image].main] \in ProcState
      BY <1>1, <1>2 DEF ProcState, Content
    <3>2. proc' \in [Procs -> ProcState]
      BY <1>6, <2>2, <3>1, MovedTyped DEF GetImageDigest
    <3> QED BY <1>6, <2>2, <3>2 DEF GetImageDigest, TypeOK
  <2> QED BY <2>1, <2>2
<1>7. CASE Glob(p)
  <2>1. /\ [s EXCEPT !.pc = "check", !.found = Digests] \in ProcState
        /\ [s EXCEPT !.pc = "metacheck", !.found = metas] \in ProcState
    BY <1>1, <1>2 DEF ProcState, TypeOK
  <2>2. proc' \in [Procs -> ProcState]
    BY <1>7, <2>1, MovedTyped DEF Glob
  <2> QED BY <1>7, <2>2 DEF Glob, TypeOK
<1>8. CASE CheckMain(p)
  <2> DEFINE new == ~Unchanged(p, s.main)
  <2>1. new \in BOOLEAN
    OBVIOUS
  <2>2. Become(p, [s EXCEPT !.pc = "metadigest", !.newMain = new, !.found = {}])
    BY <1>8 DEF CheckMain
  <2> HIDE DEF new
  <2>3. [s EXCEPT !.pc = "metadigest", !.newMain = new, !.found = {}] \in ProcState
    BY <1>1, <1>2, <2>1 DEF ProcState
  <2>4. proc' \in [Procs -> ProcState]
    BY <2>2, <2>3, MovedTyped
  <2>5. s.main \in Revs /\ s.image \in Images
    BY <1>1 DEF ProcState
  <2>6. digest' \in [Revs -> Images \cup {Missing}] /\ fresh' \subseteq Revs
    BY <1>3, <1>4, <1>8, <2>5 DEF CheckMain
  <2> QED BY <1>8, <2>4, <2>6 DEF CheckMain, TypeOK
<1>9. CASE GetMetadataDigest(p)
  <2>1. /\ [s EXCEPT !.pc = "metaglob", !.meta = reg[s.image].meta] \in ProcState
        /\ [s EXCEPT !.pc = "metaglob", !.meta = none] \in ProcState
    BY <1>1, <1>2 DEF ProcState, Content
  <2>2. proc' \in [Procs -> ProcState]
    BY <1>9, <2>1, MovedTyped DEF GetMetadataDigest
  <2>3. faults' \in [count : 0..MaxFaults, kinds : SUBSET FaultKinds, half : SUBSET Images]
    BY <1>9, FaultTyped DEF GetMetadataDigest, TypeOK
  <2> QED BY <1>9, <2>2, <2>3 DEF GetMetadataDigest, TypeOK
<1>10. CASE CheckMeta(p)
  <2> DEFINE new == ~Unchanged(p, s.meta)
             where == IF ~new /\ ~s.newMain THEN "reuse" ELSE "verify"
  <2>1. new \in BOOLEAN /\ where \in PCs
    BY <1>2
  <2>2. Become(p, [s EXCEPT !.pc = where, !.newMeta = new, !.found = {}])
    BY <1>10 DEF CheckMeta
  <2> HIDE DEF new, where
  <2>3. [s EXCEPT !.pc = where, !.newMeta = new, !.found = {}] \in ProcState
    BY <1>1, <2>1 DEF ProcState
  <2>4. proc' \in [Procs -> ProcState]
    BY <2>2, <2>3, MovedTyped
  <2>5. metas' \subseteq metas
    BY <1>10 DEF CheckMeta
  <2> QED BY <1>10, <2>4, <2>5 DEF CheckMeta, TypeOK
<1>11. CASE Reuse(p)
  <2>1. [s EXCEPT !.pc = "query", !.via = "refresh"] \in ProcState
    BY <1>1, <1>2 DEF ProcState
  <2>2. proc' \in [Procs -> ProcState]
    BY <1>11, <2>1, MovedTyped DEF Reuse, Refreshed
  <2>3. faults' \in [count : 0..MaxFaults, kinds : SUBSET FaultKinds, half : SUBSET Images]
    BY <1>11 DEF Reuse, Refreshed, TypeOK
  <2>4. fresh' \subseteq Revs
    BY <1>1, <1>11 DEF Reuse, resetCacheTTL, TypeOK
  <2> QED BY <1>11, <2>2, <2>3, <2>4 DEF Reuse, TypeOK
<1>12. CASE Verify(p)
  <2>1. CASE Fail(p)
    BY <2>1, FailTyped
  <2>2. CASE ~Fail(p)
    <3>1. [s EXCEPT !.pc = "download"] \in ProcState
      BY <1>1, <1>2 DEF ProcState
    <3>2. proc' \in [Procs -> ProcState]
      BY <1>12, <2>2, <3>1, MovedTyped DEF Verify, GoTo
    <3> QED BY <1>12, <2>2, <3>2 DEF Verify, TypeOK
  <2> QED BY <2>1, <2>2
<1> QED BY <1>5, <1>6, <1>7, <1>8, <1>9, <1>10, <1>11, <1>12

\* The steps that download and copy.
LEMMA LoadTyped ==
  ASSUME TypeOK, NEW p \in Procs,
         \/ Download(p) \/ DownloadMetadata(p) \/ CopyOpen(p) \/ CopyWrite(p) \/ setupCentralConfig(p)
         \/ Reset(p) \/ CreateMain(p) \/ CreateMeta(p) \/ Query(p) \/ SetCLIDiscoverySource(p)
         \/ Crash(p)
  PROVE  TypeOK'
<1> USE DEF cache
<1> DEFINE s == proc[p]
<1>1. s \in ProcState /\ reg[s.image] \in Content /\ Digests \subseteq Revs
  BY DEF TypeOK, ProcState, Digests
<1>2. PCs = PCs \cup {"metadownload", "copy", "write", "config", "reset", "create", "metacreate",
                      "query", "save"}
  BY DEF PCs
<1>3. ASSUME NEW c \in PCs, GoTo(p, c)
      PROVE  proc' \in [Procs -> ProcState]
  <2>1. [s EXCEPT !.pc = c] \in ProcState
    BY <1>1 DEF ProcState
  <2> QED BY <1>3, <2>1, MovedTyped DEF GoTo
<1>4. ASSUME Finish(p)
      PROVE  proc' \in [Procs -> ProcState]
  BY <1>4, MovedTyped, IdleTyped DEF Finish
<1>5. CASE Download(p)
  <2>1. CASE Fail(p)
    BY <2>1, FailTyped
  <2>2. CASE ~Fail(p)
    <3> DEFINE x == [s.tmp EXCEPT !.main = reg[s.image].main]
    <3>1. x \in Content
      BY <1>1 DEF ProcState, Content
    <3>2. Become(p, [s EXCEPT !.pc = "metadownload", !.tmp = x])
      BY <1>1, <1>5, <2>2 DEF Download, ProcState
    <3> HIDE DEF x
    <3>3. [s EXCEPT !.pc = "metadownload", !.tmp = x] \in ProcState
      BY <1>1, <1>2, <3>1 DEF ProcState
    <3>4. proc' \in [Procs -> ProcState]
      BY <3>2, <3>3, MovedTyped
    <3> QED BY <1>5, <2>2, <3>4 DEF Download, TypeOK
  <2> QED BY <2>1, <2>2
<1>6. CASE DownloadMetadata(p)
  <2>1. CASE Fail(p)
    BY <2>1, FailTyped
  <2>2. CASE ~Fail(p)
    <3>1. PICK m \in {reg[s.image].meta, none} : Become(p, [s EXCEPT !.pc = "copy", !.tmp.meta = m])
      BY <1>6, <2>2 DEF DownloadMetadata
    <3> DEFINE x == [s.tmp EXCEPT !.meta = m]
    <3>2. x \in Content
      BY <1>1 DEF ProcState, Content
    <3>3. Become(p, [s EXCEPT !.pc = "copy", !.tmp = x])
      BY <1>1, <3>1 DEF ProcState
    <3> HIDE DEF x
    <3>4. [s EXCEPT !.pc = "copy", !.tmp = x] \in ProcState
      BY <1>1, <1>2, <3>2 DEF ProcState
    <3>5. proc' \in [Procs -> ProcState]
      BY <3>3, <3>4, MovedTyped
    <3>6. faults' \in [count : 0..MaxFaults, kinds : SUBSET FaultKinds, half : SUBSET Images]
      BY <1>6, <2>2, FaultTyped DEF DownloadMetadata, TypeOK
    <3> QED BY <1>6, <2>2, <3>5, <3>6 DEF DownloadMetadata, TypeOK
  <2> QED BY <2>1, <2>2
<1>7. CASE CopyOpen(p)
  <2>1. proc' \in [Procs -> ProcState]
    BY <1>2, <1>3, <1>7 DEF CopyOpen
  <2> QED BY <1>7, <2>1 DEF CopyOpen, TypeOK
<1>8. CASE CopyWrite(p)
  <2>1. proc' \in [Procs -> ProcState]
    BY <1>2, <1>3, <1>4, <1>8 DEF CopyWrite
  <2>2. faults' \in [count : 0..MaxFaults, kinds : SUBSET FaultKinds, half : SUBSET Images]
    BY <1>8, FaultTyped DEF CopyWrite, TypeOK
  <2>3. db' \in Content \cup {Missing, Blank, Torn}
    BY <1>1, <1>8 DEF CopyWrite, ProcState
  <2> QED BY <1>8, <2>1, <2>2, <2>3 DEF CopyWrite, TypeOK
<1>9. CASE setupCentralConfig(p)
  <2>1. proc' \in [Procs -> ProcState]
    BY <1>2, <1>3, <1>9 DEF setupCentralConfig
  <2>2. faults' \in [count : 0..MaxFaults, kinds : SUBSET FaultKinds, half : SUBSET Images]
    BY <1>9, FaultTyped DEF setupCentralConfig, TypeOK
  <2>3. central' \in Revs \cup {Missing, Torn}
    BY <1>1, <1>9 DEF setupCentralConfig, ProcState, Content, TypeOK
  <2> QED BY <1>9, <2>1, <2>2, <2>3 DEF setupCentralConfig, TypeOK
<1>10. CASE Reset(p)
  <2>1. proc' \in [Procs -> ProcState]
    BY <1>2, <1>3, <1>10 DEF Reset
  <2>2. fresh' \subseteq Revs
    BY <1>1, <1>10 DEF Reset, resetCacheTTL, TypeOK
  <2> QED BY <1>10, <2>1, <2>2 DEF Reset, TypeOK
<1>11. CASE CreateMain(p)
  <2>1. proc' \in [Procs -> ProcState]
    BY <1>2, <1>3, <1>11 DEF CreateMain
  <2>2. s.main \in Revs /\ s.image \in Images
    BY <1>1 DEF ProcState
  <2>3. digest' \in [Revs -> Images \cup {Missing}] /\ fresh' \subseteq Revs
    BY <1>11, <2>2 DEF CreateMain, CreateDigest, TypeOK
  <2> QED BY <1>11, <2>1, <2>3 DEF CreateMain, TypeOK
<1>12. CASE CreateMeta(p)
  <2>1. [s EXCEPT !.pc = "query", !.via = "refresh"] \in ProcState
    BY <1>1, <1>2 DEF ProcState
  <2>2. proc' \in [Procs -> ProcState]
    BY <1>12, <2>1, MovedTyped DEF CreateMeta, Refreshed
  <2>3. faults' \in [count : 0..MaxFaults, kinds : SUBSET FaultKinds, half : SUBSET Images]
    BY <1>12 DEF CreateMeta, Refreshed, TypeOK
  <2>4. metas' \subseteq Revs \cup {none}
    BY <1>1, <1>12 DEF CreateMeta, ProcState, TypeOK
  <2> QED BY <1>12, <2>2, <2>3, <2>4 DEF CreateMeta, TypeOK
<1>13. CASE Query(p)
  <2>1. proc' \in [Procs -> ProcState]
    BY <1>2, <1>3, <1>4, <1>13 DEF Query
  <2> QED BY <1>13, <2>1 DEF Query, TypeOK
<1>14. CASE SetCLIDiscoverySource(p)
  <2>1. proc' \in [Procs -> ProcState] /\ source' \in Images
    BY <1>1, <1>4, <1>14 DEF SetCLIDiscoverySource, ProcState
  <2> QED BY <1>14, <2>1 DEF SetCLIDiscoverySource, TypeOK
<1>15. CASE Crash(p)
  <2>1. proc' \in [Procs -> ProcState]
    BY <1>4, <1>15 DEF Crash
  <2> QED BY <1>15, <2>1, FaultTyped DEF Crash, TypeOK
<1> QED BY <1>5, <1>6, <1>7, <1>8, <1>9, <1>10, <1>11, <1>12, <1>13, <1>14, <1>15

\* The registry changes one image, to a later revision.
LEMMA PublishTyped ==
  ASSUME TypeOK, NEW u \in Images, Publish(u)
  PROVE  /\ TypeOK'
         /\ u \in Publishable
         /\ \A v \in Images \ {u} : reg'[v] = reg[v]
         /\ reg[u].main <= reg'[u].main /\ reg[u].meta <= reg'[u].meta
<1>1. PICK c \in Content : /\ reg' = [reg EXCEPT ![u] = c]
                           /\ reg[u].main <= c.main /\ reg[u].meta <= c.meta
  <2>1. PICK part \in {"main", "meta"} : /\ reg[u][part] < MaxRev
                                         /\ reg' = [reg EXCEPT ![u][part] = reg[u][part] + 1]
    BY DEF Publish
  <2>2. reg[u] \in Content /\ reg[u].main \in Revs /\ reg[u].meta \in Revs \cup {none}
    BY DEF TypeOK, Content
  <2>3. CASE part = "main"
    <3> DEFINE c == [reg[u] EXCEPT !.main = reg[u].main + 1]
    <3>1. reg[u].main + 1 \in Revs
      BY <2>1, <2>2, <2>3, ConstantsAssumption DEF Revs
    <3>2. c \in Content /\ reg[u].main <= c.main /\ reg[u].meta <= c.meta
      BY <2>2, <3>1 DEF Content, Revs, none
    <3>3. reg' = [reg EXCEPT ![u] = c]
      BY <2>1, <2>3
    <3> QED BY <3>2, <3>3
  <2>4. CASE part = "meta"
    <3> DEFINE c == [reg[u] EXCEPT !.meta = reg[u].meta + 1]
    <3>1. reg[u].meta + 1 \in Revs
      BY <2>1, <2>2, <2>4, ConstantsAssumption DEF Revs, none
    <3>2. c \in Content /\ reg[u].main <= c.main /\ reg[u].meta <= c.meta
      BY <2>2, <3>1 DEF Content, Revs, none
    <3>3. reg' = [reg EXCEPT ![u] = c]
      BY <2>1, <2>4
    <3> QED BY <3>2, <3>3
  <2> QED BY <2>1, <2>3, <2>4
<1>2. reg' \in [Images -> Content] /\ reg'[u] = c /\ \A v \in Images \ {u} : reg'[v] = reg[v]
  BY <1>1 DEF TypeOK
<1>3. proc' \in [Procs -> ProcState]
  <2>1. \A q \in Procs : [proc[q] EXCEPT !.seen = proc[q].seen \cup {reg'[u]}] \in ProcState
    BY <1>2 DEF TypeOK, ProcState
  <2> QED BY <2>1 DEF Publish, TypeOK
<1> QED BY <1>1, <1>2, <1>3 DEF Publish, TypeOK, cache

-----------------------------------------------------------------------------
(* What steps keep *)

\* Revisions are numbers.
LEMMA ContentNumbers == \A c \in Content : c.main \in Nat /\ c.meta \in Nat
BY DEF Content, Revs, none

LEMMA FilesKept ==
  ASSUME OneEach, Described, UNCHANGED <<reg, db, central, digest, metas>>,
         faults.kinds \subseteq faults'.kinds
  PROVE  OneEach' /\ Described'
<1>1. Digests' = Digests
  BY DEF Digests
<1>2. OneEach'
  BY <1>1 DEF OneEach
<1>3. MetadataReached' => MetadataReached
  BY DEF MetadataReached
<1>4. \A main : CentralOK(main) => CentralOK(main)'
  BY DEF CentralOK
<1>5. Described'
  BY <1>1, <1>3, <1>4 DEF Described, DescribedBy, Names
<1> QED BY <1>2, <1>5

LEMMA UriKept ==
  ASSUME Alone, UriIsRight, NEW p \in Procs, UNCHANGED <<reg, db, digest>>,
         faults.kinds \subseteq faults'.kinds,
         \A d \in Digests : digest[d] \notin faults'.half /\ ~Halfway(p)'
                              => digest[d] \notin faults.half /\ ~Halfway(p)
  PROVE  UriIsRight'
<1>1. Digests' = Digests
  BY DEF Digests
<1>2. MetadataReached' => MetadataReached
  BY DEF MetadataReached
<1>3. \A c, u : Own(c, u) => Own(c, u)'
  BY DEF Own
<1>4. (\A q \in Procs : ~Halfway(q))' => ~Halfway(p)'
  OBVIOUS
<1>5. ~Halfway(p) => \A q \in Procs : ~Halfway(q)
  BY DEF Alone
<1> QED BY <1>1, <1>2, <1>3, <1>4, <1>5 DEF UriIsRight

\* The process that moved is the only one.
LEMMA Combine ==
  ASSUME Alone, NEW p \in Procs, TypeOK', OneEach', Described', UriIsRight', ProcOK(proc[p])'
  PROVE  IInv'
BY DEF Alone, IInv

\* A process that is idle has nothing to keep.
LEMMA IdleOK ==
  ASSUME NEW p \in Procs, proc'[p].pc = "idle"
  PROVE  ProcOK(proc[p])' /\ ~Halfway(p)'
<1> USE DEF Copied, Fetched, Loading, Comparing, MetaComparing
<1>1. SeenOK(proc[p])' /\ ReadsOK(proc[p])'
  BY DEF SeenOK, ReadsOK
<1>2. ResolvedOK(proc[p])'
  BY DEF ResolvedOK
<1>3. FilesOK(proc[p])'
  BY DEF FilesOK
<1>4. LoadedOK(proc[p])'
  BY DEF LoadedOK
<1>5. ~Halfway(p)'
  BY DEF Halfway
<1> QED BY <1>1, <1>2, <1>3, <1>4, <1>5 DEF ProcOK

\* A command that is stopped leaves files that are as right as they were: if
\* it was half way, its image is remembered.
LEMMA Stopped ==
  ASSUME IInv, Alone, NEW p \in Procs, NEW k \in {"crash", "fail"}, Fault(p, k), Finish(p), TypeOK',
         UNCHANGED <<reg, source, cache>>
  PROVE  IInv'
<1>1. proc'[p].pc = "idle"
  BY Moved, IdleTyped DEF IInv, Finish
<1>2. UNCHANGED <<reg, db, central, digest, metas>>
  BY DEF cache
<1>3. /\ faults.kinds \subseteq faults'.kinds
      /\ faults'.half = faults.half \cup (IF Halfway(p) THEN {proc[p].image} ELSE {})
  BY FaultTyped DEF IInv
<1>4. Halfway(p) => \A d \in Digests : digest[d] = proc[p].image
  BY DEF IInv, ProcOK, FilesOK, Halfway, Loading, Fetched, Copied
<1>5. UriIsRight'
  BY <1>2, <1>3, <1>4, UriKept DEF IInv
<1> QED BY <1>1, <1>2, <1>3, <1>5, IdleOK, FilesKept, Combine DEF IInv

LEMMA FailKeeps ==
  ASSUME IInv, Alone, NEW p \in Procs, Fail(p)
  PROVE  IInv'
<1>1. TypeOK'
  BY FailTyped DEF IInv
<1> QED BY <1>1, Stopped DEF Fail

\* A process that starts has seen what its image is.
LEMMA DiscoverOK ==
  ASSUME IInv, NEW p \in Procs, NEW k, NEW u \in Images, NEW c \in {"ttl", "query", "digest"},
         Discover(p, k, u, c), UNCHANGED <<reg, cache, faults>>
  PROVE  ProcOK(proc[p])' /\ ~Halfway(p)'
<1> USE DEF Copied, Fetched, Loading, Comparing, MetaComparing
<1> DEFINE t == [Idle EXCEPT !.kind = k, !.image = u, !.seen = {reg[u]}, !.pc = c]
<1>1. proc'[p] = t
  BY Moved DEF Discover, IInv
<1>2. t.pc = c /\ t.image = u /\ t.seen = {reg[u]} /\ t.via = "cache"
  BY DEF Idle
<1> HIDE DEF t
<1>3. SeenOK(proc[p])'
  <2>1. reg[u] \in Content /\ reg[u].main \in Nat /\ reg[u].meta \in Nat
    BY ContentNumbers DEF IInv, TypeOK
  <2>2. Own(reg[u], u)'
    BY <2>1 DEF Own
  <2> QED BY <1>1, <1>2, <2>2 DEF SeenOK
<1>4. ResolvedOK(proc[p])'
  BY <1>1, <1>2 DEF ResolvedOK
<1>5. FilesOK(proc[p])'
  BY <1>1, <1>2 DEF FilesOK
<1>6. LoadedOK(proc[p])'
  BY <1>1, <1>2 DEF LoadedOK
<1>7. ReadsOK(proc[p])' /\ ~Halfway(p)'
  BY <1>1, <1>2 DEF ReadsOK, Halfway
<1> QED BY <1>3, <1>4, <1>5, <1>6, <1>7 DEF ProcOK

\* The steps that start a command.
LEMMA StartKeeps ==
  ASSUME IInv, Alone, NEW p \in Procs, Start(p)
  PROVE  IInv'
<1>1. TypeOK'
  BY StartTyped DEF IInv
<1>2. ASSUME NEW k, NEW u \in Images, NEW c \in {"ttl", "query", "digest"},
             Discover(p, k, u, c), At(p, "idle"), UNCHANGED <<reg, cache, faults>>
      PROVE  IInv'
  <2>1. UNCHANGED <<reg, db, central, digest, metas>> /\ ~Halfway(p)
    BY <1>2 DEF cache, At, Halfway
  <2>2. UriIsRight'
    BY <1>2, <2>1, UriKept DEF IInv
  <2> QED BY <1>1, <1>2, <2>1, <2>2, DiscoverOK, FilesKept, Combine DEF IInv
<1>3. CASE Begin(p)
  BY <1>2, <1>3 DEF Begin, IInv, TypeOK
<1>4. CASE newUpdateDiscoverySourceCmd(p)
  BY <1>2, <1>4 DEF newUpdateDiscoverySourceCmd
<1>5. CASE newInitDiscoverySourceCmd(p)
  BY <1>2, <1>5, ConstantsAssumption DEF newInitDiscoverySourceCmd
<1>6. CASE newDeleteDiscoverySourceCmd(p)
  <2>1. proc'[p].pc = "idle" /\ ~Halfway(p)
    BY <1>6 DEF newDeleteDiscoverySourceCmd, At, Halfway
  <2>2. UNCHANGED <<reg, db, central, digest, metas, faults>>
    BY <1>6 DEF newDeleteDiscoverySourceCmd, cache
  <2>3. UriIsRight'
    BY <2>1, <2>2, UriKept DEF IInv
  <2> QED BY <1>1, <2>1, <2>2, <2>3, IdleOK, FilesKept, Combine DEF IInv
<1>7. CASE RefreshDatabase(p)
  BY <1>2, <1>7 DEF RefreshDatabase, IInv, TypeOK
<1>8. CASE invalidateInventoryCache(p)
  BY <1>2, <1>8 DEF invalidateInventoryCache, IInv, TypeOK
<1>9. CASE Clean(p)
  <2>1. Digests' = {} /\ metas' = {} /\ proc'[p].pc = "idle"
    BY <1>9 DEF Clean, RemoveDigests, Digests, At
  <2>2. OneEach' /\ Described' /\ UriIsRight'
    BY <2>1 DEF OneEach, Described, UriIsRight
  <2> QED BY <1>1, <2>1, <2>2, IdleOK, Combine
<1> QED BY <1>3, <1>4, <1>5, <1>6, <1>7, <1>8, <1>9 DEF Start

-----------------------------------------------------------------------------
(* Comparing digests *)

\* What is put together of revisions the image had is its own.
LEMMA MixOwn ==
  ASSUME TypeOK, NEW u \in Images, NEW seen, \A c \in seen : Own(c, u),
         NEW c \in Content, \E a \in seen : a.main = c.main, \E b \in seen : b.meta = c.meta
  PROVE  c \in Mix(seen) /\ Own(c, u)
<1>1. PICK a \in seen : a.main = c.main
  OBVIOUS
<1>2. PICK b \in seen : b.meta = c.meta
  OBVIOUS
<1>3. c \in Mix(seen)
  BY DEF Mix
<1>4. u \notin Publishable => c = reg[u]
  <2>1. u \notin Publishable => c.main = reg[u].main /\ c.meta = reg[u].meta
    BY <1>1, <1>2 DEF Own
  <2>2. reg[u] \in Content
    BY DEF TypeOK
  <2> QED BY <2>1, <2>2 DEF Content
<1>5. c.main <= reg[u].main /\ c.meta <= reg[u].meta
  BY <1>1, <1>2 DEF Own
<1> QED BY <1>3, <1>4, <1>5 DEF Own

\* Where the digest files are those the process resolved, the database is one
\* of what it saw.
LEMMA SameImage ==
  ASSUME TypeOK, Described, MetadataReached,
         NEW s \in ProcState, SeenOK(s), ResolvedOK(s), s.pc \in {"metacheck", "reuse"},
         Digests = {s.main}, metas = {s.meta}
  PROVE  db \in Mix(s.seen) /\ Own(db, s.image)
<1>1. db \in Content /\ Names(s.main, db.main) /\ Names(s.meta, db.meta)
  BY DEF Described, DescribedBy
<1>2. s.main \in Nat /\ s.meta \in Nat /\ db.main \in Nat /\ db.meta \in Nat /\ s.image \in Images
  BY <1>1, ContentNumbers DEF ProcState, Revs, none
<1>3. Publishable # {} => db.main <= s.main /\ db.meta <= s.meta
  BY DEF ResolvedOK, Comparing, MetaComparing
<1>4. db.main = s.main /\ db.meta = s.meta
  BY <1>1, <1>2, <1>3 DEF Names
<1>5. (\E c \in s.seen : c.main = s.main) /\ (\E c \in s.seen : c.meta = s.meta)
  BY DEF ResolvedOK, Comparing, MetaComparing
<1>6. \A c \in s.seen : Own(c, s.image)
  BY DEF SeenOK
<1> QED BY <1>1, <1>2, <1>4, <1>5, <1>6, MixOwn

LEMMA CheckTTLKeeps ==
  ASSUME IInv, Alone, NEW p \in Procs, CheckTTL(p)
  PROVE  IInv'
<1> USE DEF Copied, Fetched, Loading, Comparing, MetaComparing
<1> DEFINE s == proc[p]
           where == IF cacheTTLExpired(s.image) THEN "digest" ELSE "query"
           how == IF cacheTTLExpired(s.image) THEN s.via ELSE "ttl"
           t == [s EXCEPT !.pc = where, !.via = how]
<1>1. s \in ProcState /\ s.pc = "ttl" /\ ~Halfway(p)
  BY DEF IInv, TypeOK, CheckTTL, At, Halfway
<1>2. UNCHANGED <<reg, db, central, digest, metas, faults>>
  BY DEF CheckTTL, cache
<1>3. TypeOK'
  BY CompareTyped DEF IInv
<1>4. proc'[p] = t
  <2>1. CASE cacheTTLExpired(s.image)
    <3>1. t = [s EXCEPT !.pc = "digest"]
      BY <1>1, <2>1 DEF ProcState
    <3> QED BY <2>1, <3>1, Moved DEF CheckTTL, IInv
  <2>2. CASE ~cacheTTLExpired(s.image)
    BY <2>2, Moved DEF CheckTTL, IInv
  <2> QED BY <2>1, <2>2
<1>5. where \in {"digest", "query"} /\ (where = "query" => how = "ttl")
  OBVIOUS
<1>6. where = "query" => \E d \in Digests : digest[d] = s.image
  BY DEF cacheTTLExpired
<1> HIDE DEF where, how
<1>7. t.pc = where /\ t.via = how /\ t.image = s.image /\ t.seen = s.seen
  BY <1>1 DEF ProcState
<1> HIDE DEF t
<1>8. SeenOK(proc[p])'
  BY <1>1, <1>2, <1>4, <1>7 DEF IInv, ProcOK, SeenOK, Own
<1>9. ResolvedOK(proc[p])' /\ FilesOK(proc[p])' /\ LoadedOK(proc[p])' /\ ~Halfway(p)'
  BY <1>4, <1>5, <1>7 DEF ResolvedOK, FilesOK, LoadedOK, Halfway
<1>10. ReadsOK(proc[p])'
  <2>1. \A q \in Procs : ~Halfway(q)
    BY <1>1 DEF Alone
  <2>2. where = "query" /\ MetadataReached /\ s.image \notin faults.half => Own(db, s.image)
    BY <1>6, <2>1 DEF IInv, UriIsRight
  <2>3. MetadataReached' <=> MetadataReached
    BY <1>2 DEF MetadataReached
  <2>4. \A c, u : Own(c, u) => Own(c, u)'
    BY <1>2 DEF Own
  <2>5. proc'[p].image = s.image /\ proc'[p].pc = where /\ proc'[p].via = how
    BY <1>4, <1>7
  <2>6. MetadataReached' /\ where = "query" /\ s.image \notin faults'.half => Own(db, proc[p].image)'
    BY <1>2, <2>2, <2>3, <2>4, <2>5
  <2> QED BY <1>5, <2>5, <2>6 DEF ReadsOK
<1>11. UriIsRight'
  BY <1>1, <1>2, <1>9, UriKept DEF IInv
<1> QED BY <1>2, <1>3, <1>8, <1>9, <1>10, <1>11, FilesKept, Combine DEF IInv, ProcOK

LEMMA GetImageDigestKeeps ==
  ASSUME IInv, Alone, NEW p \in Procs, GetImageDigest(p)
  PROVE  IInv'
<1> USE DEF Copied, Fetched, Loading, Comparing, MetaComparing
<1> DEFINE s == proc[p]
           t == [s EXCEPT !.pc = "glob", !.main = reg[s.image].main]
<1>1. CASE Fail(p)
  BY <1>1, FailKeeps
<1>2. CASE ~Fail(p)
  <2>1. s \in ProcState /\ s.pc = "digest" /\ ~Halfway(p) /\ s.image \in Images
    BY DEF IInv, TypeOK, GetImageDigest, At, Halfway, ProcState
  <2>2. UNCHANGED <<reg, db, central, digest, metas, faults>> /\ Become(p, t)
    BY <1>2 DEF GetImageDigest, cache
  <2>3. TypeOK'
    BY CompareTyped DEF IInv
  <2>4. proc'[p] = t
    BY <2>2, Moved DEF IInv
  <2>5. /\ t.pc = "glob" /\ t.main = reg[s.image].main
        /\ t.image = s.image /\ t.seen = s.seen
    BY <2>1 DEF ProcState
  <2> HIDE DEF t
  <2>6. SeenOK(proc[p])'
    BY <2>1, <2>2, <2>4, <2>5 DEF IInv, ProcOK, SeenOK, Own
  <2>7. Digests' = Digests
    BY <2>2 DEF Digests
  <2>8. ResolvedOK(proc[p])'
    <3>1. reg[s.image] \in s.seen
      BY <2>1 DEF IInv, ProcOK, SeenOK
    <3>2. Publishable # {} => \A d \in Digests, m \in metas : db.main <= reg[s.image].main
      BY <2>1 DEF IInv, Described, DescribedBy
    <3> QED BY <2>2, <2>4, <2>5, <2>7, <3>1, <3>2 DEF ResolvedOK
  <2>9. FilesOK(proc[p])' /\ LoadedOK(proc[p])' /\ ReadsOK(proc[p])' /\ ~Halfway(p)'
    BY <2>4, <2>5 DEF FilesOK, LoadedOK, ReadsOK, Halfway
  <2>10. UriIsRight'
    BY <2>1, <2>2, <2>9, UriKept DEF IInv
  <2> QED BY <2>2, <2>3, <2>6, <2>8, <2>9, <2>10, FilesKept, Combine DEF IInv, ProcOK
<1> QED BY <1>1, <1>2

LEMMA GlobKeeps ==
  ASSUME IInv, Alone, NEW p \in Procs, Glob(p)
  PROVE  IInv'
<1> USE DEF Copied, Fetched, Loading, Comparing, MetaComparing
<1> DEFINE s == proc[p]
           where == IF s.pc = "glob" THEN "check" ELSE "metacheck"
           fs == IF s.pc = "glob" THEN Digests ELSE metas
           t == [s EXCEPT !.pc = where, !.found = fs]
<1>1. s \in ProcState /\ s.pc \in {"glob", "metaglob"}
  BY DEF IInv, TypeOK, Glob, At
<1>2. UNCHANGED <<reg, db, central, digest, metas, faults>>
  BY DEF Glob, cache
<1>3. TypeOK'
  BY CompareTyped DEF IInv
<1>4. Become(p, t)
  BY DEF Glob, At
<1>5. proc'[p] = t
  BY <1>4, Moved DEF IInv
<1>6. \/ s.pc = "glob" /\ where = "check" /\ fs = Digests
      \/ s.pc = "metaglob" /\ where = "metacheck" /\ fs = metas
  BY <1>1
<1> HIDE DEF where, fs
<1>7. /\ t.pc = where /\ t.found = fs /\ t.image = s.image /\ t.seen = s.seen /\ t.main = s.main
      /\ t.meta = s.meta /\ t.newMain = s.newMain
  BY <1>1 DEF ProcState
<1> HIDE DEF t
<1>8. Digests' = Digests /\ (MetadataReached' <=> MetadataReached)
  BY <1>2 DEF Digests, MetadataReached
<1>9. SeenOK(proc[p])'
  BY <1>1, <1>2, <1>5, <1>7 DEF IInv, ProcOK, SeenOK, Own
<1>10. ResolvedOK(proc[p])'
  BY <1>2, <1>5, <1>6, <1>7, <1>8 DEF IInv, ProcOK, ResolvedOK
<1>11. FilesOK(proc[p])'
  BY <1>2, <1>5, <1>6, <1>7, <1>8 DEF IInv, ProcOK, FilesOK
<1>12. LoadedOK(proc[p])' /\ ReadsOK(proc[p])'
  BY <1>5, <1>6, <1>7 DEF LoadedOK, ReadsOK
<1>13. Halfway(p)' <=> Halfway(p)
  BY <1>5, <1>6, <1>7 DEF Halfway
<1>14. UriIsRight'
  BY <1>2, <1>13, UriKept DEF IInv
<1> QED BY <1>2, <1>3, <1>9, <1>10, <1>11, <1>12, <1>14, FilesKept, Combine DEF IInv, ProcOK

\* The main digest file stays, with the URI of the image, or goes away.
LEMMA CheckMainKeeps ==
  ASSUME IInv, Alone, NEW p \in Procs, CheckMain(p)
  PROVE  IInv'
<1> USE DEF Copied, Fetched, Loading, Comparing, MetaComparing
<1> DEFINE s == proc[p]
           new == ~Unchanged(p, s.main)
           t == [s EXCEPT !.pc = "metadigest", !.newMain = new, !.found = {}]
<1>1. s \in ProcState /\ s.pc = "check" /\ s.found = Digests /\ s.main \in Revs /\ s.image \in Images
  BY DEF IInv, TypeOK, CheckMain, At, ProcOK, FilesOK, ProcState
<1>2. UNCHANGED <<reg, db, central, metas, faults>>
  BY DEF CheckMain
<1>3. TypeOK'
  BY CompareTyped DEF IInv
<1>4. Become(p, t)
  BY DEF CheckMain
<1>5. proc'[p] = t
  BY <1>4, Moved DEF IInv
<1>6. new \in BOOLEAN
  OBVIOUS
<1>7. ~new => /\ Digests = {s.main} /\ Digests' = Digests
              /\ \A d \in Digests : digest'[d] = s.image
  <2>1. ~new => Digests = {s.main}
    BY <1>1 DEF Unchanged
  <2>2. ~new => digest' = [digest EXCEPT ![s.main] = s.image]
    BY <2>1 DEF CheckMain, CreateDigest, DirExists, IInv, OneEach
  <2>3. s.image # Missing /\ digest \in [Revs -> Images \cup {Missing}]
    BY <1>1, ConstantsAssumption DEF IInv, TypeOK
  <2> QED BY <1>1, <2>1, <2>2, <2>3 DEF Digests
<1>8. new => Digests' = {}
  BY <1>1 DEF CheckMain, RemoveDigests, Digests
<1> HIDE DEF new
<1>9. /\ t.pc = "metadigest" /\ t.image = s.image /\ t.seen = s.seen /\ t.main = s.main
      /\ t.newMain = new
  BY <1>1, <1>6 DEF ProcState
<1> HIDE DEF t
<1>10. OneEach' /\ Described'
  <2>1. Digests' \subseteq Digests
    BY <1>7, <1>8
  <2>2. OneEach'
    BY <1>2, <2>1 DEF IInv, OneEach
  <2>3. \A main : CentralOK(main) => CentralOK(main)'
    BY <1>2 DEF CentralOK
  <2>4. MetadataReached' => MetadataReached
    BY <1>2 DEF MetadataReached
  <2>5. Described'
    BY <1>2, <2>1, <2>3, <2>4 DEF IInv, Described, DescribedBy, Names
  <2> QED BY <2>2, <2>5
<1>11. ~new => Halfway(p)'
  BY <1>5, <1>9 DEF Halfway
<1>12. UriIsRight'
  BY <1>8, <1>11 DEF UriIsRight
<1>13. SeenOK(proc[p])'
  BY <1>1, <1>2, <1>5, <1>9 DEF IInv, ProcOK, SeenOK, Own
<1>14. ResolvedOK(proc[p])'
  <2>1. Digests' \subseteq Digests
    BY <1>7, <1>8
  <2> QED BY <1>1, <1>2, <1>5, <1>9, <2>1 DEF IInv, ProcOK, ResolvedOK
<1>15. FilesOK(proc[p])'
  <2>1. (\A d \in Digests : digest[d] = s.image)'
    BY <1>5, <1>7, <1>8, <1>9
  <2>2. Digests' = IF new THEN {} ELSE {s.main}
    BY <1>7, <1>8
  <2> QED BY <1>5, <1>6, <1>9, <2>1, <2>2 DEF FilesOK
<1>16. LoadedOK(proc[p])' /\ ReadsOK(proc[p])'
  BY <1>5, <1>9 DEF LoadedOK, ReadsOK
<1> QED BY <1>3, <1>10, <1>12, <1>13, <1>14, <1>15, <1>16, Combine DEF ProcOK

LEMMA GetMetadataDigestKeeps ==
  ASSUME IInv, Alone, NEW p \in Procs, GetMetadataDigest(p)
  PROVE  IInv'
<1> USE DEF Copied, Fetched, Loading, Comparing, MetaComparing
<1> DEFINE s == proc[p]
<1>1. s \in ProcState /\ s.pc = "metadigest" /\ s.image \in Images
  BY DEF IInv, TypeOK, GetMetadataDigest, At, ProcState
<1>2. UNCHANGED <<reg, db, central, digest, metas>> /\ TypeOK'
  BY CompareTyped DEF GetMetadataDigest, cache, IInv
<1>3. PICK x : /\ Become(p, [s EXCEPT !.pc = "metaglob", !.meta = x])
               /\ MetadataReached' => x = reg[s.image].meta
               /\ faults.kinds \subseteq faults'.kinds /\ faults'.half = faults.half
  <2>1. CASE /\ Become(p, [s EXCEPT !.pc = "metaglob", !.meta = reg[s.image].meta])
             /\ UNCHANGED faults
    BY <2>1
  <2>2. CASE Fault(p, "metafail") /\ Become(p, [s EXCEPT !.pc = "metaglob", !.meta = none])
    <3>1. faults.kinds \subseteq faults'.kinds /\ "metafail" \in faults'.kinds
      BY <2>2, FaultTyped DEF IInv
    <3>2. faults'.half = faults.half
      BY <2>2 DEF Fault
    <3> QED BY <2>2, <3>1, <3>2 DEF MetadataReached
  <2> QED BY <2>1, <2>2 DEF GetMetadataDigest
<1> DEFINE t == [s EXCEPT !.pc = "metaglob", !.meta = x]
<1>4. proc'[p] = t
  BY <1>3, Moved DEF IInv
<1>5. /\ t.pc = "metaglob" /\ t.meta = x /\ t.image = s.image /\ t.seen = s.seen /\ t.main = s.main
      /\ t.newMain = s.newMain
  BY <1>1 DEF ProcState
<1> HIDE DEF t
<1>6. Digests' = Digests /\ (MetadataReached' => MetadataReached)
  BY <1>2, <1>3 DEF Digests, MetadataReached
<1>7. SeenOK(proc[p])'
  BY <1>1, <1>2, <1>4, <1>5 DEF IInv, ProcOK, SeenOK, Own
<1>8. ResolvedOK(proc[p])'
  <2>1. reg[s.image] \in s.seen
    BY <1>1 DEF IInv, ProcOK, SeenOK
  <2>2. MetadataReached /\ Publishable # {} =>
          \A d \in Digests, m \in metas : db.meta <= reg[s.image].meta
    BY <1>1 DEF IInv, Described, DescribedBy
  <2>3. /\ \E c \in s.seen : c.main = s.main
        /\ Publishable # {} => \A d \in Digests, m \in metas : db.main <= s.main
    BY <1>1 DEF IInv, ProcOK, ResolvedOK
  <2> QED BY <1>2, <1>3, <1>4, <1>5, <1>6, <2>1, <2>2, <2>3 DEF ResolvedOK
<1>9. FilesOK(proc[p])'
  BY <1>1, <1>2, <1>4, <1>5, <1>6 DEF IInv, ProcOK, FilesOK
<1>10. LoadedOK(proc[p])' /\ ReadsOK(proc[p])'
  BY <1>4, <1>5 DEF LoadedOK, ReadsOK
<1>11. Halfway(p)' <=> Halfway(p)
  BY <1>1, <1>4, <1>5 DEF Halfway
<1>12. UriIsRight'
  BY <1>2, <1>3, <1>11, UriKept DEF IInv
<1> QED BY <1>2, <1>3, <1>7, <1>8, <1>9, <1>10, <1>12, FilesKept, Combine DEF IInv, ProcOK

\* The metadata digest file stays or goes away; where both stay, the database
\* is that of the image.
LEMMA CheckMetaKeeps ==
  ASSUME IInv, Alone, NEW p \in Procs, CheckMeta(p)
  PROVE  IInv'
<1> USE DEF Copied, Fetched, Loading, Comparing, MetaComparing
<1> DEFINE s == proc[p]
           new == ~Unchanged(p, s.meta)
           where == IF ~new /\ ~s.newMain THEN "reuse" ELSE "verify"
           t == [s EXCEPT !.pc = where, !.newMeta = new, !.found = {}]
<1>1. s \in ProcState /\ s.pc = "metacheck" /\ s.found = metas /\ s.image \in Images
  BY DEF IInv, TypeOK, CheckMeta, At, ProcOK, FilesOK, ProcState
<1>2. UNCHANGED <<reg, db, central, digest, faults>> /\ Digests' = Digests /\ TypeOK'
  BY CompareTyped DEF CheckMeta, Digests, IInv
<1>3. Become(p, t)
  BY DEF CheckMeta
<1>4. proc'[p] = t
  BY <1>3, Moved DEF IInv
<1>5. new \in BOOLEAN /\ s.newMain \in BOOLEAN
  BY <1>1 DEF ProcState
<1>6. (~new => metas = {s.meta} /\ metas' = metas) /\ (new => metas' = {})
  BY <1>1 DEF CheckMeta, Unchanged
<1>7. \/ where = "reuse" /\ ~new /\ ~s.newMain
      \/ where = "verify" /\ (s.newMain \/ new)
  OBVIOUS
<1> HIDE DEF new, where
<1>8. /\ t.pc = where /\ t.image = s.image /\ t.seen = s.seen /\ t.main = s.main /\ t.meta = s.meta
      /\ t.newMain = s.newMain /\ t.newMeta = new
  BY <1>1, <1>5 DEF ProcState
<1> HIDE DEF t
<1>9. metas' \subseteq metas /\ (MetadataReached' <=> MetadataReached)
  BY <1>2, <1>6 DEF MetadataReached
<1>10. OneEach'
  BY <1>2, <1>9 DEF IInv, OneEach
<1>11. Described'
  <2>1. \A main : CentralOK(main) => CentralOK(main)'
    BY <1>2 DEF CentralOK
  <2> QED BY <1>2, <1>9, <2>1 DEF IInv, Described, DescribedBy, Names
<1>12. SeenOK(proc[p])'
  BY <1>1, <1>2, <1>4, <1>8 DEF IInv, ProcOK, SeenOK, Own
<1>13. ResolvedOK(proc[p])'
  BY <1>1, <1>2, <1>4, <1>7, <1>8, <1>9 DEF IInv, ProcOK, ResolvedOK
<1>14. Digests = IF s.newMain THEN {} ELSE {s.main}
  BY <1>1 DEF IInv, ProcOK, FilesOK
<1>15. \A d \in Digests : digest[d] = s.image
  BY <1>1 DEF IInv, ProcOK, FilesOK
<1>16. FilesOK(proc[p])'
  <2>1. proc'[p].pc = where /\ where \in {"reuse", "verify"}
    BY <1>4, <1>7, <1>8
  <2>2. Digests' = IF proc'[p].newMain THEN {} ELSE {proc'[p].main}
    BY <1>2, <1>4, <1>8, <1>14
  <2>3. (\A d \in Digests : digest[d] = proc[p].image)'
    BY <1>2, <1>4, <1>8, <1>15
  <2>4. where = "reuse" => ~proc'[p].newMain /\ metas' = {proc'[p].meta}
    BY <1>4, <1>6, <1>7, <1>8
  <2>5. metas' = IF proc'[p].newMeta THEN {} ELSE {proc'[p].meta}
    BY <1>4, <1>5, <1>6, <1>8
  <2>6. where = "verify" => proc'[p].newMain \/ proc'[p].newMeta
    BY <1>4, <1>5, <1>7, <1>8
  <2> QED BY <2>1, <2>2, <2>3, <2>4, <2>5, <2>6 DEF FilesOK
<1>17. LoadedOK(proc[p])' /\ ReadsOK(proc[p])'
  BY <1>4, <1>7, <1>8 DEF LoadedOK, ReadsOK
<1>18. UriIsRight'
  <2>1. CASE where = "reuse"
    <3>1. MetadataReached => Own(db, s.image)
      BY <1>1, <1>6, <1>7, <1>14, <2>1, SameImage DEF IInv, ProcOK
    <3>2. \A c, u : Own(c, u) => Own(c, u)'
      BY <1>2 DEF Own
    <3>3. MetadataReached' => \A d \in Digests' : Own(db, digest[d])'
      BY <1>2, <1>9, <1>15, <3>1, <3>2
    <3> QED BY <3>3 DEF UriIsRight
  <2>2. CASE where = "verify" /\ ~s.newMain
    <3>1. Halfway(p)'
      BY <1>4, <1>8, <2>2 DEF Halfway
    <3> QED BY <3>1 DEF UriIsRight
  <2>3. CASE s.newMain
    BY <1>2, <1>14, <2>3 DEF UriIsRight
  <2> QED BY <1>5, <1>7, <2>1, <2>2, <2>3
<1> QED BY <1>2, <1>10, <1>11, <1>12, <1>13, <1>16, <1>17, <1>18, Combine DEF ProcOK

\* The refresh ends without a download.
LEMMA ReuseKeeps ==
  ASSUME IInv, Alone, NEW p \in Procs, Reuse(p)
  PROVE  IInv'
<1> USE DEF Copied, Fetched, Loading, Comparing, MetaComparing
<1> DEFINE s == proc[p]
           t == [s EXCEPT !.pc = "query", !.via = "refresh"]
<1>1. s \in ProcState /\ s.pc = "reuse"
  BY DEF IInv, TypeOK, Reuse, At
<1>2. UNCHANGED <<reg, db, central, digest, metas>> /\ Digests' = Digests /\ TypeOK'
  BY CompareTyped DEF Reuse, Digests, IInv
<1>3. faults'.kinds = faults.kinds /\ proc'[p] = t
  BY Moved DEF Reuse, Refreshed, IInv, TypeOK
<1>4. t.pc = "query" /\ t.image = s.image /\ t.seen = s.seen /\ t.via = "refresh"
  BY <1>1 DEF ProcState
<1> HIDE DEF t
<1>5. MetadataReached' <=> MetadataReached
  BY <1>3 DEF MetadataReached
<1>6. /\ Digests = {s.main} /\ metas = {s.meta}
      /\ \A d \in Digests : digest[d] = s.image
  BY <1>1 DEF IInv, ProcOK, FilesOK
<1>7. MetadataReached => db \in Mix(s.seen) /\ Own(db, s.image)
  BY <1>1, <1>6, SameImage DEF IInv, ProcOK
<1>8. \A c, u : Own(c, u) => Own(c, u)'
  BY <1>2 DEF Own
<1>9. MetadataReached' => \A d \in Digests' : Own(db, digest[d])'
  BY <1>2, <1>5, <1>6, <1>7, <1>8
<1>10. UriIsRight'
  BY <1>9 DEF UriIsRight
<1>11. SeenOK(proc[p])'
  BY <1>1, <1>2, <1>3, <1>4 DEF IInv, ProcOK, SeenOK, Own
<1>12. ResolvedOK(proc[p])' /\ FilesOK(proc[p])' /\ LoadedOK(proc[p])'
  BY <1>3, <1>4 DEF ResolvedOK, FilesOK, LoadedOK
<1>13. ReadsOK(proc[p])'
  <2>1. MetadataReached' => db' \in Mix(proc'[p].seen)
    BY <1>2, <1>3, <1>4, <1>5, <1>7
  <2>2. proc'[p].via = "refresh"
    BY <1>3, <1>4
  <2> QED BY <2>1, <2>2 DEF ReadsOK
<1> QED BY <1>2, <1>3, <1>10, <1>11, <1>12, <1>13, FilesKept, Combine DEF IInv, ProcOK

-----------------------------------------------------------------------------
(* Downloading and copying *)

\* What was downloaded is of the image.
LEMMA LoadedIsOwn ==
  ASSUME TypeOK, MetadataReached, NEW s \in ProcState, SeenOK(s), LoadedOK(s),
         s.pc \in {"copy", "write"} \cup Copied
  PROVE  s.tmp \in Mix(s.seen) /\ Own(s.tmp, s.image)
<1> USE DEF Copied, Fetched
<1>1. s.tmp \in Content /\ s.image \in Images /\ s.pc # "idle"
  BY DEF ProcState
<1>2. (\E c \in s.seen : c.main = s.tmp.main) /\ (\E c \in s.seen : c.meta = s.tmp.meta)
  BY DEF LoadedOK
<1>3. \A c \in s.seen : Own(c, s.image)
  BY <1>1 DEF SeenOK
<1> HIDE DEF Copied, Fetched
<1> QED BY <1>1, <1>2, <1>3, MixOwn, Zenon

\* Once all is copied, the digests the process resolved describe the database.
LEMMA CopiedIsDescribed ==
  ASSUME Steady, TypeOK, NEW s \in ProcState, SeenOK(s), ResolvedOK(s), LoadedOK(s),
         s.pc \in {"create", "metacreate"}
  PROVE  DescribedBy(s.main, s.meta)
<1> USE DEF Copied, Fetched, Loading
<1>1. /\ db = s.tmp /\ db \in Content /\ s.image \in Images /\ CentralOK(db.main)
      /\ s.main <= db.main
      /\ MetadataReached => s.meta <= db.meta
  BY DEF LoadedOK, ProcState
<1>2. /\ \E c \in s.seen : c.main = db.main
      /\ \E c \in s.seen : c.main = s.main
      /\ MetadataReached => /\ \E c \in s.seen : c.meta = db.meta
                            /\ \E c \in s.seen : c.meta = s.meta
  BY <1>1 DEF LoadedOK, ResolvedOK
<1>3. \A c \in s.seen : Own(c, s.image)
  BY DEF SeenOK
<1>4. CASE Publishable = {}
  <2>1. \A c \in s.seen : c = reg[s.image]
    BY <1>3, <1>4 DEF Own
  <2>2. s.main = db.main /\ (MetadataReached => s.meta = db.meta)
    BY <1>2, <2>1
  <2> QED BY <1>1, <1>4, <2>2 DEF DescribedBy, Names
<1>5. CASE Publishable # {}
  <2>1. \A u \in Images : u = s.image
    BY <1>1, <1>5 DEF Steady
  <2>2. db.main <= reg[s.image].main /\ (MetadataReached => db.meta <= reg[s.image].meta)
    BY <1>2, <1>3 DEF Own
  <2> QED BY <1>1, <1>5, <2>1, <2>2 DEF DescribedBy, Names
<1> QED BY <1>4, <1>5

LEMMA VerifyKeeps ==
  ASSUME IInv, Alone, NEW p \in Procs, Verify(p)
  PROVE  IInv'
<1> USE DEF Copied, Fetched, Loading, Comparing, MetaComparing
<1> DEFINE s == proc[p]
           t == [s EXCEPT !.pc = "download"]
<1>1. CASE Fail(p)
  BY <1>1, FailKeeps
<1>2. CASE ~Fail(p)
  <2>1. s \in ProcState /\ s.pc = "verify"
    BY DEF IInv, TypeOK, Verify, At
  <2>2. UNCHANGED <<reg, db, central, digest, metas, faults>> /\ Digests' = Digests /\ TypeOK'
    BY <1>2, CompareTyped DEF Verify, cache, Digests, IInv
  <2>3. proc'[p] = t
    BY <1>2, Moved DEF Verify, GoTo, IInv
  <2>4. /\ t.pc = "download" /\ t.image = s.image /\ t.seen = s.seen /\ t.main = s.main
        /\ t.meta = s.meta /\ t.newMain = s.newMain /\ t.newMeta = s.newMeta
    BY <2>1 DEF ProcState
  <2> HIDE DEF t
  <2>5. MetadataReached' <=> MetadataReached
    BY <2>2 DEF MetadataReached
  <2>6. SeenOK(proc[p])'
    BY <2>1, <2>2, <2>3, <2>4 DEF IInv, ProcOK, SeenOK, Own
  <2>7. ResolvedOK(proc[p])'
    BY <2>1, <2>2, <2>3, <2>4, <2>5 DEF IInv, ProcOK, ResolvedOK
  <2>8. FilesOK(proc[p])'
    BY <2>1, <2>2, <2>3, <2>4 DEF IInv, ProcOK, FilesOK
  <2>9. LoadedOK(proc[p])' /\ ReadsOK(proc[p])'
    BY <2>3, <2>4 DEF LoadedOK, ReadsOK
  <2>10. Halfway(p)' <=> Halfway(p)
    BY <2>1, <2>3, <2>4 DEF Halfway
  <2>11. UriIsRight'
    BY <2>2, <2>10, UriKept DEF IInv
  <2> QED BY <2>2, <2>6, <2>7, <2>8, <2>9, <2>11, FilesKept, Combine DEF IInv, ProcOK
<1> QED BY <1>1, <1>2

LEMMA DownloadKeeps ==
  ASSUME IInv, Alone, NEW p \in Procs, Download(p)
  PROVE  IInv'
<1> USE DEF Copied, Fetched, Loading, Comparing, MetaComparing
<1> DEFINE s == proc[p]
           x == [s.tmp EXCEPT !.main = reg[s.image].main]
           t == [s EXCEPT !.pc = "metadownload", !.tmp = x]
<1>1. CASE Fail(p)
  BY <1>1, FailKeeps
<1>2. CASE ~Fail(p)
  <2>1. s \in ProcState /\ s.pc = "download" /\ s.image \in Images
    BY DEF IInv, TypeOK, Download, At, ProcState
  <2>2. UNCHANGED <<reg, db, central, digest, metas, faults>> /\ Digests' = Digests /\ TypeOK'
    BY <1>2, LoadTyped DEF Download, cache, Digests, IInv
  <2>3. Become(p, t)
    BY <1>2, <2>1 DEF Download, ProcState
  <2>4. x.main = reg[s.image].main
    BY <2>1 DEF ProcState, Content
  <2> HIDE DEF x
  <2>5. proc'[p] = t
    BY <2>3, Moved DEF IInv
  <2>6. /\ t.pc = "metadownload" /\ t.image = s.image /\ t.seen = s.seen /\ t.main = s.main
        /\ t.meta = s.meta /\ t.newMain = s.newMain /\ t.newMeta = s.newMeta /\ t.tmp = x
    BY <2>1 DEF ProcState
  <2> HIDE DEF t
  <2>7. MetadataReached' <=> MetadataReached
    BY <2>2 DEF MetadataReached
  <2>8. SeenOK(proc[p])'
    BY <2>1, <2>2, <2>5, <2>6 DEF IInv, ProcOK, SeenOK, Own
  <2>9. ResolvedOK(proc[p])'
    BY <2>1, <2>2, <2>5, <2>6, <2>7 DEF IInv, ProcOK, ResolvedOK
  <2>10. FilesOK(proc[p])'
    BY <2>1, <2>2, <2>5, <2>6 DEF IInv, ProcOK, FilesOK
  <2>11. LoadedOK(proc[p])'
    <3>1. reg[s.image] \in s.seen /\ \A c \in s.seen : c.main <= reg[s.image].main
      BY <2>1 DEF IInv, ProcOK, SeenOK, Own
    <3>2. \E c \in s.seen : c.main = s.main
      BY <2>1 DEF IInv, ProcOK, ResolvedOK
    <3>3. s.main <= x.main /\ \E c \in s.seen : c.main = x.main
      BY <2>4, <3>1, <3>2
    <3> QED BY <2>5, <2>6, <3>3 DEF LoadedOK
  <2>12. ReadsOK(proc[p])'
    BY <2>5, <2>6 DEF ReadsOK
  <2>13. Halfway(p)' <=> Halfway(p)
    BY <2>1, <2>5, <2>6 DEF Halfway
  <2>14. UriIsRight'
    BY <2>2, <2>13, UriKept DEF IInv
  <2> QED BY <2>2, <2>8, <2>9, <2>10, <2>11, <2>12, <2>14, FilesKept, Combine DEF IInv, ProcOK
<1> QED BY <1>1, <1>2

LEMMA DownloadMetadataKeeps ==
  ASSUME IInv, Alone, NEW p \in Procs, DownloadMetadata(p)
  PROVE  IInv'
<1> USE DEF Copied, Fetched, Loading, Comparing, MetaComparing
<1> DEFINE s == proc[p]
<1>1. CASE Fail(p)
  BY <1>1, FailKeeps
<1>2. CASE ~Fail(p)
  <2>1. s \in ProcState /\ s.pc = "metadownload" /\ s.image \in Images
    BY DEF IInv, TypeOK, DownloadMetadata, At, ProcState
  <2>2. UNCHANGED <<reg, db, central, digest, metas>> /\ Digests' = Digests /\ TypeOK'
    BY <1>2, LoadTyped DEF DownloadMetadata, Fault, cache, Digests, IInv
  <2>3. PICK m : /\ Become(p, [s EXCEPT !.pc = "copy", !.tmp.meta = m])
                 /\ MetadataReached' => m = reg[s.image].meta
                 /\ faults.kinds \subseteq faults'.kinds /\ faults'.half = faults.half
    <3>1. CASE /\ Become(p, [s EXCEPT !.pc = "copy", !.tmp.meta = reg[s.image].meta])
               /\ UNCHANGED faults
      BY <3>1
    <3>2. CASE Fault(p, "metafail") /\ Become(p, [s EXCEPT !.pc = "copy", !.tmp.meta = none])
      <4>1. faults.kinds \subseteq faults'.kinds /\ "metafail" \in faults'.kinds
        BY <3>2, FaultTyped DEF IInv
      <4>2. faults'.half = faults.half
        BY <3>2 DEF Fault
      <4> QED BY <3>2, <4>1, <4>2 DEF MetadataReached
    <3> QED BY <1>2, <3>1, <3>2 DEF DownloadMetadata
  <2> DEFINE x == [s.tmp EXCEPT !.meta = m]
             t == [s EXCEPT !.pc = "copy", !.tmp = x]
  <2>4. Become(p, t)
    BY <2>1, <2>3 DEF ProcState
  <2>5. x.main = s.tmp.main /\ x.meta = m
    BY <2>1 DEF ProcState, Content
  <2> HIDE DEF x
  <2>6. proc'[p] = t
    BY <2>4, Moved DEF IInv
  <2>7. /\ t.pc = "copy" /\ t.image = s.image /\ t.seen = s.seen /\ t.main = s.main
        /\ t.meta = s.meta /\ t.newMain = s.newMain /\ t.newMeta = s.newMeta /\ t.tmp = x
    BY <2>1 DEF ProcState
  <2> HIDE DEF t
  <2>8. MetadataReached' => MetadataReached
    BY <2>3 DEF MetadataReached
  <2>9. SeenOK(proc[p])'
    BY <2>1, <2>2, <2>6, <2>7 DEF IInv, ProcOK, SeenOK, Own
  <2>10. ResolvedOK(proc[p])'
    BY <2>1, <2>2, <2>6, <2>7, <2>8 DEF IInv, ProcOK, ResolvedOK
  <2>11. FilesOK(proc[p])'
    BY <2>1, <2>2, <2>6, <2>7 DEF IInv, ProcOK, FilesOK
  <2>12. LoadedOK(proc[p])'
    <3>1. reg[s.image] \in s.seen /\ \A c \in s.seen : c.meta <= reg[s.image].meta
      BY <2>1 DEF IInv, ProcOK, SeenOK, Own
    <3>2. MetadataReached => \E c \in s.seen : c.meta = s.meta
      BY <2>1 DEF IInv, ProcOK, ResolvedOK
    <3>3. MetadataReached' => s.meta <= x.meta /\ \E c \in s.seen : c.meta = x.meta
      BY <2>3, <2>5, <2>8, <3>1, <3>2
    <3>4. s.main <= x.main /\ \E c \in s.seen : c.main = x.main
      BY <2>1, <2>5 DEF IInv, ProcOK, LoadedOK
    <3> QED BY <2>6, <2>7, <3>3, <3>4 DEF LoadedOK
  <2>13. ReadsOK(proc[p])'
    BY <2>6, <2>7 DEF ReadsOK
  <2>14. Halfway(p)' <=> Halfway(p)
    BY <2>1, <2>6, <2>7 DEF Halfway
  <2>15. UriIsRight'
    BY <2>2, <2>3, <2>14, UriKept DEF IInv
  <2> QED BY <2>2, <2>3, <2>9, <2>10, <2>11, <2>12, <2>13, <2>15, FilesKept, Combine DEF IInv, ProcOK
<1> QED BY <1>1, <1>2

\* While the database is being replaced one of the digest files is missing.
LEMMA NotDescribed ==
  ASSUME NEW p \in Procs, FilesOK(proc[p]),
         proc[p].pc \in Loading \ {"metacreate"}
  PROVE  /\ Digests = {} \/ metas = {}
         /\ Digests # {} => ~proc[p].newMain
         /\ \A d \in Digests : digest[d] = proc[p].image
BY DEF FilesOK

LEMMA CopyOpenKeeps ==
  ASSUME IInv, Alone, NEW p \in Procs, CopyOpen(p)
  PROVE  IInv'
<1> USE DEF Copied, Fetched, Loading, Comparing, MetaComparing
<1> DEFINE s == proc[p]
           t == [s EXCEPT !.pc = "write"]
<1>1. s \in ProcState /\ s.pc = "copy"
  BY DEF IInv, TypeOK, CopyOpen, At
<1>2. /\ UNCHANGED <<reg, central, digest, metas, faults>> /\ Digests' = Digests /\ TypeOK'
      /\ db' = Blank
  BY LoadTyped DEF CopyOpen, Digests, IInv
<1>3. proc'[p] = t
  BY Moved DEF CopyOpen, GoTo, IInv
<1>4. /\ t.pc = "write" /\ t.image = s.image /\ t.seen = s.seen /\ t.main = s.main
      /\ t.meta = s.meta /\ t.newMain = s.newMain /\ t.newMeta = s.newMeta /\ t.tmp = s.tmp
  BY <1>1 DEF ProcState
<1> HIDE DEF t
<1>5. /\ Digests = {} \/ metas = {}
      /\ Digests # {} => ~s.newMain
  BY <1>1, NotDescribed DEF IInv, ProcOK
<1>6. OneEach' /\ Described'
  BY <1>2, <1>5, ConstantsAssumption DEF IInv, OneEach, Described
<1>7. Digests # {} => Halfway(p)'
  BY <1>3, <1>4, <1>5 DEF Halfway
<1>8. UriIsRight'
  BY <1>2, <1>7 DEF UriIsRight
<1>9. MetadataReached' <=> MetadataReached
  BY <1>2 DEF MetadataReached
<1>10. SeenOK(proc[p])'
  BY <1>1, <1>2, <1>3, <1>4 DEF IInv, ProcOK, SeenOK, Own
<1>11. ResolvedOK(proc[p])'
  BY <1>1, <1>2, <1>3, <1>4, <1>9 DEF IInv, ProcOK, ResolvedOK
<1>12. FilesOK(proc[p])'
  BY <1>1, <1>2, <1>3, <1>4 DEF IInv, ProcOK, FilesOK
<1>13. LoadedOK(proc[p])'
  BY <1>1, <1>2, <1>3, <1>4, <1>9 DEF IInv, ProcOK, LoadedOK
<1>14. ReadsOK(proc[p])'
  BY <1>3, <1>4 DEF ReadsOK
<1> QED BY <1>2, <1>6, <1>8, <1>10, <1>11, <1>12, <1>13, <1>14, Combine DEF ProcOK

\* The copy is complete, or the process stops with a part of it.
LEMMA CopyWriteKeeps ==
  ASSUME IInv, Alone, NEW p \in Procs, CopyWrite(p)
  PROVE  IInv'
<1> USE DEF Copied, Fetched, Loading, Comparing, MetaComparing
<1> DEFINE s == proc[p]
           t == [s EXCEPT !.pc = "config"]
<1>1. s \in ProcState /\ s.pc = "write" /\ db = Blank /\ s.tmp \in Content
  BY DEF IInv, TypeOK, CopyWrite, At, ProcOK, LoadedOK, ProcState
<1>2. UNCHANGED <<reg, central, digest, metas>> /\ Digests' = Digests /\ TypeOK'
  BY LoadTyped DEF CopyWrite, Digests, IInv
<1>3. /\ Digests = {} \/ metas = {}
      /\ Digests # {} => ~s.newMain
      /\ \A d \in Digests : digest[d] = s.image
  BY <1>1, NotDescribed DEF IInv, ProcOK
<1>4. db' # Missing
  BY <1>1, ConstantsAssumption DEF CopyWrite
<1>5. OneEach' /\ Described'
  BY <1>2, <1>3, <1>4 DEF IInv, OneEach, Described
<1>6. CASE GoTo(p, "config") /\ UNCHANGED faults /\ db' = s.tmp
  <2>1. proc'[p] = t
    BY <1>6, Moved DEF GoTo, IInv
  <2>2. /\ t.pc = "config" /\ t.image = s.image /\ t.seen = s.seen /\ t.main = s.main
        /\ t.meta = s.meta /\ t.newMain = s.newMain /\ t.newMeta = s.newMeta /\ t.tmp = s.tmp
    BY <1>1 DEF ProcState
  <2> HIDE DEF t
  <2>3. MetadataReached' <=> MetadataReached
    BY <1>6 DEF MetadataReached
  <2>4. SeenOK(proc[p])'
    BY <1>1, <1>2, <2>1, <2>2 DEF IInv, ProcOK, SeenOK, Own
  <2>5. ResolvedOK(proc[p])'
    BY <1>1, <1>2, <2>1, <2>2, <2>3 DEF IInv, ProcOK, ResolvedOK
  <2>6. FilesOK(proc[p])'
    BY <1>1, <1>2, <2>1, <2>2 DEF IInv, ProcOK, FilesOK
  <2>7. LoadedOK(proc[p])'
    BY <1>1, <1>6, <2>1, <2>2, <2>3 DEF IInv, ProcOK, LoadedOK
  <2>8. ReadsOK(proc[p])'
    BY <2>1, <2>2 DEF ReadsOK
  <2>9. UriIsRight'
    <3>1. MetadataReached => Own(s.tmp, s.image)
      BY <1>1, LoadedIsOwn DEF IInv, ProcOK
    <3>2. \A c, u : Own(c, u) => Own(c, u)'
      BY <1>2 DEF Own
    <3>3. MetadataReached' => \A d \in Digests' : Own(db, digest[d])'
      BY <1>2, <1>3, <1>6, <2>3, <3>1, <3>2
    <3> QED BY <3>3 DEF UriIsRight
  <2> QED BY <1>2, <1>5, <2>4, <2>5, <2>6, <2>7, <2>8, <2>9, Combine DEF ProcOK
<1>7. CASE Fault(p, "fail") /\ Finish(p)
  <2>1. proc'[p].pc = "idle"
    BY <1>7, Moved, IdleTyped DEF IInv, Finish
  <2>2. faults'.half = faults.half \cup (IF Halfway(p) THEN {s.image} ELSE {})
    BY <1>7, FaultTyped DEF IInv
  <2>3. Digests # {} => Halfway(p)
    BY <1>1, <1>3 DEF Halfway
  <2>4. \A d \in Digests' : digest'[d] \in faults'.half
    BY <1>2, <1>3, <2>2, <2>3
  <2>5. UriIsRight'
    BY <2>4 DEF UriIsRight
  <2> QED BY <1>2, <1>5, <2>1, <2>5, IdleOK, Combine
<1>8. db # Missing
  BY <1>1, ConstantsAssumption
<1> QED BY <1>6, <1>7, <1>8 DEF CopyWrite

LEMMA SetupCentralConfigKeeps ==
  ASSUME IInv, Alone, NEW p \in Procs, setupCentralConfig(p)
  PROVE  IInv'
<1> USE DEF Copied, Fetched, Loading, Comparing, MetaComparing
<1> DEFINE s == proc[p]
           t == [s EXCEPT !.pc = "reset"]
<1>1. s \in ProcState /\ s.pc = "config" /\ db = s.tmp /\ s.tmp \in Content
  BY DEF IInv, TypeOK, setupCentralConfig, At, ProcOK, LoadedOK, ProcState
<1>2. UNCHANGED <<reg, db, digest, metas>> /\ Digests' = Digests /\ TypeOK'
  BY LoadTyped DEF setupCentralConfig, Digests, IInv
<1>3. faults.kinds \subseteq faults'.kinds /\ faults'.half = faults.half
  <2>1. CASE UNCHANGED faults
    BY <2>1
  <2>2. CASE Fault(p, "configfail")
    BY <2>2, FaultTyped DEF IInv, Fault
  <2> QED BY <2>1, <2>2 DEF setupCentralConfig
<1>4. CentralOK(s.tmp.main)'
  <2>1. \/ central' = s.tmp.main
        \/ central' = Torn /\ Fault(p, "configfail")
    <3>1. DirExists
      BY <1>1, ConstantsAssumption DEF DirExists
    <3> QED BY <3>1 DEF setupCentralConfig
  <2>2. Fault(p, "configfail") => "configfail" \in faults'.kinds
    BY FaultTyped DEF IInv
  <2>3. proc'[p].tmp = s.tmp
    BY <1>1, Moved DEF setupCentralConfig, GoTo, IInv, ProcState
  <2> QED BY <2>1, <2>2, <2>3 DEF CentralOK
<1>5. proc'[p] = t
  BY Moved DEF setupCentralConfig, GoTo, IInv
<1>6. /\ t.pc = "reset" /\ t.image = s.image /\ t.seen = s.seen /\ t.main = s.main
      /\ t.meta = s.meta /\ t.newMain = s.newMain /\ t.newMeta = s.newMeta /\ t.tmp = s.tmp
  BY <1>1 DEF ProcState
<1> HIDE DEF t
<1>7. Digests = {} \/ metas = {}
  BY <1>1, NotDescribed DEF IInv, ProcOK
<1>8. OneEach' /\ Described'
  BY <1>2, <1>7 DEF IInv, OneEach, Described
<1>9. ~Halfway(p)
  BY <1>1 DEF Halfway
<1>10. UriIsRight'
  BY <1>2, <1>3, <1>9, UriKept DEF IInv
<1>11. MetadataReached' => MetadataReached
  BY <1>3 DEF MetadataReached
<1>12. SeenOK(proc[p])'
  BY <1>1, <1>2, <1>5, <1>6 DEF IInv, ProcOK, SeenOK, Own
<1>13. ResolvedOK(proc[p])'
  BY <1>1, <1>2, <1>5, <1>6, <1>11 DEF IInv, ProcOK, ResolvedOK
<1>14. FilesOK(proc[p])'
  BY <1>1, <1>2, <1>5, <1>6 DEF IInv, ProcOK, FilesOK
<1>15. LoadedOK(proc[p])'
  BY <1>1, <1>2, <1>4, <1>5, <1>6, <1>11 DEF IInv, ProcOK, LoadedOK
<1>16. ReadsOK(proc[p])'
  BY <1>5, <1>6 DEF ReadsOK
<1> QED BY <1>2, <1>8, <1>10, <1>12, <1>13, <1>14, <1>15, <1>16, Combine DEF ProcOK

LEMMA ResetKeeps ==
  ASSUME IInv, Alone, NEW p \in Procs, Reset(p)
  PROVE  IInv'
<1> USE DEF Copied, Fetched, Loading, Comparing, MetaComparing
<1> DEFINE s == proc[p]
           t == [s EXCEPT !.pc = "create"]
<1>1. s \in ProcState /\ s.pc = "reset"
  BY DEF IInv, TypeOK, Reset, At
<1>2. /\ UNCHANGED <<reg, db, central, digest, metas, faults>> /\ Digests' = Digests /\ TypeOK'
  BY LoadTyped DEF Reset, Digests, IInv
<1>3. proc'[p] = t
  BY Moved DEF Reset, GoTo, IInv
<1>4. /\ t.pc = "create" /\ t.image = s.image /\ t.seen = s.seen /\ t.main = s.main
      /\ t.meta = s.meta /\ t.newMain = s.newMain /\ t.newMeta = s.newMeta /\ t.tmp = s.tmp
  BY <1>1 DEF ProcState
<1> HIDE DEF t
<1>5. ~Halfway(p)
  BY <1>1 DEF Halfway
<1>6. UriIsRight'
  BY <1>2, <1>5, UriKept DEF IInv
<1>7. MetadataReached' <=> MetadataReached
  BY <1>2 DEF MetadataReached
<1>8. SeenOK(proc[p])'
  BY <1>1, <1>2, <1>3, <1>4 DEF IInv, ProcOK, SeenOK, Own
<1>9. ResolvedOK(proc[p])'
  BY <1>1, <1>2, <1>3, <1>4, <1>7 DEF IInv, ProcOK, ResolvedOK
<1>10. FilesOK(proc[p])'
  BY <1>1, <1>2, <1>3, <1>4 DEF IInv, ProcOK, FilesOK
<1>11. LoadedOK(proc[p])'
  <2>1. CentralOK(s.tmp.main)
    BY <1>1 DEF IInv, ProcOK, LoadedOK
  <2>2. \A main : CentralOK(main) => CentralOK(main)'
    BY <1>2 DEF CentralOK
  <2> QED BY <1>1, <1>2, <1>3, <1>4, <1>7, <2>1, <2>2 DEF IInv, ProcOK, LoadedOK
<1>12. ReadsOK(proc[p])'
  BY <1>3, <1>4 DEF ReadsOK
<1> QED BY <1>2, <1>6, <1>8, <1>9, <1>10, <1>11, <1>12, FilesKept, Combine DEF IInv, ProcOK

\* The main digest file is there again.
LEMMA CreateMainKeeps ==
  ASSUME IInv, Alone, Steady, NEW p \in Procs, CreateMain(p)
  PROVE  IInv'
<1> USE DEF Copied, Fetched, Loading, Comparing, MetaComparing
<1> DEFINE s == proc[p]
           t == [s EXCEPT !.pc = "metacreate"]
<1>1. /\ s \in ProcState /\ s.pc = "create" /\ db = s.tmp /\ s.tmp \in Content
      /\ s.main \in Revs /\ s.image \in Images
  BY DEF IInv, TypeOK, CreateMain, At, ProcOK, LoadedOK, ProcState
<1>2. UNCHANGED <<reg, db, central, metas, faults>> /\ TypeOK'
  BY LoadTyped DEF CreateMain, IInv
<1>3. proc'[p] = t
  BY Moved DEF CreateMain, GoTo, IInv
<1>4. /\ t.pc = "metacreate" /\ t.image = s.image /\ t.seen = s.seen /\ t.main = s.main
      /\ t.meta = s.meta /\ t.newMain = s.newMain /\ t.newMeta = s.newMeta /\ t.tmp = s.tmp
  BY <1>1 DEF ProcState
<1> HIDE DEF t
<1>5. db # Missing /\ s.image # Missing
  BY <1>1, ConstantsAssumption
<1>6. Digests' = {s.main} /\ digest'[s.main] = s.image
  <2>1. CASE s.newMain
    <3>1. digest' = [digest EXCEPT ![s.main] = s.image]
      BY <1>5, <2>1 DEF CreateMain, CreateDigest, DirExists
    <3>2. Digests = {} /\ digest \in [Revs -> Images \cup {Missing}]
      BY <1>1, <2>1 DEF IInv, ProcOK, FilesOK, TypeOK
    <3> QED BY <1>1, <1>5, <3>1, <3>2 DEF Digests
  <2>2. CASE ~s.newMain
    <3>1. digest' = digest
      BY <2>2 DEF CreateMain
    <3>2. Digests = {s.main} /\ \A d \in Digests : digest[d] = s.image
      BY <1>1, <2>2 DEF IInv, ProcOK, FilesOK
    <3> QED BY <3>1, <3>2 DEF Digests
  <2> QED BY <2>1, <2>2
<1>7. metas = IF s.newMeta THEN {} ELSE {s.meta}
  BY <1>1 DEF IInv, ProcOK, FilesOK
<1>8. OneEach'
  BY <1>2, <1>5, <1>6 DEF IInv, OneEach
<1>9. Described'
  <2>1. DescribedBy(s.main, s.meta)
    BY <1>1, CopiedIsDescribed DEF IInv, ProcOK
  <2>2. \A d, m : DescribedBy(d, m) => DescribedBy(d, m)'
    BY <1>2 DEF DescribedBy, CentralOK, MetadataReached, Names
  <2> QED BY <1>2, <1>6, <1>7, <2>1, <2>2 DEF Described
<1>10. MetadataReached' <=> MetadataReached
  BY <1>2 DEF MetadataReached
<1>11. UriIsRight'
  <2>1. MetadataReached => Own(s.tmp, s.image)
    BY <1>1, LoadedIsOwn DEF IInv, ProcOK
  <2>2. \A c, u : Own(c, u) => Own(c, u)'
    BY <1>2 DEF Own
  <2>3. MetadataReached' => \A d \in Digests' : Own(db, digest[d])'
    BY <1>1, <1>2, <1>6, <1>10, <2>1, <2>2
  <2> QED BY <2>3 DEF UriIsRight
<1>12. SeenOK(proc[p])'
  BY <1>1, <1>2, <1>3, <1>4 DEF IInv, ProcOK, SeenOK, Own
<1>13. ResolvedOK(proc[p])'
  BY <1>1, <1>2, <1>3, <1>4, <1>10 DEF IInv, ProcOK, ResolvedOK
<1>14. FilesOK(proc[p])'
  <2>1. s.newMain \/ s.newMeta
    BY <1>1 DEF IInv, ProcOK, FilesOK
  <2> QED BY <1>2, <1>3, <1>4, <1>6, <1>7, <2>1 DEF FilesOK
<1>15. LoadedOK(proc[p])'
  <2>1. \A main : CentralOK(main) => CentralOK(main)'
    BY <1>2 DEF CentralOK
  <2> QED BY <1>1, <1>2, <1>3, <1>4, <1>10, <2>1 DEF IInv, ProcOK, LoadedOK
<1>16. ReadsOK(proc[p])'
  BY <1>3, <1>4 DEF ReadsOK
<1> QED BY <1>2, <1>8, <1>9, <1>11, <1>12, <1>13, <1>14, <1>15, <1>16, Combine DEF ProcOK

\* The refresh ends with both digest files.
LEMMA CreateMetaKeeps ==
  ASSUME IInv, Alone, Steady, NEW p \in Procs, CreateMeta(p)
  PROVE  IInv'
<1> USE DEF Copied, Fetched, Loading, Comparing, MetaComparing
<1> DEFINE s == proc[p]
           t == [s EXCEPT !.pc = "query", !.via = "refresh"]
<1>1. s \in ProcState /\ s.pc = "metacreate" /\ db = s.tmp /\ s.tmp \in Content
  BY DEF IInv, TypeOK, CreateMeta, At, ProcOK, LoadedOK, ProcState
<1>2. UNCHANGED <<reg, db, central, digest>> /\ Digests' = Digests /\ TypeOK'
  BY LoadTyped DEF CreateMeta, Digests, IInv
<1>3. faults'.kinds = faults.kinds /\ proc'[p] = t
  BY Moved DEF CreateMeta, Refreshed, IInv, TypeOK
<1>4. t.pc = "query" /\ t.image = s.image /\ t.seen = s.seen /\ t.via = "refresh"
  BY <1>1 DEF ProcState
<1> HIDE DEF t
<1>5. db # Missing
  BY <1>1, ConstantsAssumption
<1>6. Digests = {s.main} /\ \A d \in Digests : digest[d] = s.image
  BY <1>1 DEF IInv, ProcOK, FilesOK
<1>7. metas' = {s.meta}
  BY <1>1, <1>5 DEF IInv, ProcOK, FilesOK, CreateMeta, DirExists
<1>8. OneEach'
  BY <1>2, <1>5, <1>6, <1>7 DEF OneEach
<1>9. Described'
  <2>1. DescribedBy(s.main, s.meta)
    BY <1>1, CopiedIsDescribed DEF IInv, ProcOK
  <2>2. \A d, m : DescribedBy(d, m) => DescribedBy(d, m)'
    BY <1>2, <1>3 DEF DescribedBy, CentralOK, MetadataReached, Names
  <2> QED BY <1>2, <1>6, <1>7, <2>1, <2>2 DEF Described
<1>10. MetadataReached' <=> MetadataReached
  BY <1>3 DEF MetadataReached
<1>11. MetadataReached => db \in Mix(s.seen) /\ Own(db, s.image)
  BY <1>1, LoadedIsOwn DEF IInv, ProcOK
<1>12. UriIsRight'
  <2>1. \A c, u : Own(c, u) => Own(c, u)'
    BY <1>2 DEF Own
  <2>2. MetadataReached' => \A d \in Digests' : Own(db, digest[d])'
    BY <1>2, <1>6, <1>10, <1>11, <2>1
  <2> QED BY <2>2 DEF UriIsRight
<1>13. SeenOK(proc[p])'
  BY <1>1, <1>2, <1>3, <1>4 DEF IInv, ProcOK, SeenOK, Own
<1>14. ResolvedOK(proc[p])' /\ FilesOK(proc[p])' /\ LoadedOK(proc[p])'
  BY <1>3, <1>4 DEF ResolvedOK, FilesOK, LoadedOK
<1>15. ReadsOK(proc[p])'
  <2>1. MetadataReached' => db' \in Mix(proc'[p].seen)
    BY <1>2, <1>3, <1>4, <1>10, <1>11
  <2>2. proc'[p].via = "refresh"
    BY <1>3, <1>4
  <2> QED BY <2>1, <2>2 DEF ReadsOK
<1> QED BY <1>2, <1>8, <1>9, <1>12, <1>13, <1>14, <1>15, Combine DEF ProcOK

\* The commands end.
LEMMA EndKeeps ==
  ASSUME IInv, Alone, NEW p \in Procs, Query(p) \/ SetCLIDiscoverySource(p) \/ Crash(p)
  PROVE  IInv'
<1> USE DEF Copied, Fetched, Loading, Comparing, MetaComparing
<1> DEFINE s == proc[p]
<1>1. TypeOK'
  BY LoadTyped DEF IInv
<1>2. CASE Crash(p)
  BY <1>1, <1>2, Stopped DEF Crash
<1>3. CASE Query(p) \/ SetCLIDiscoverySource(p)
  <2>1. UNCHANGED <<reg, db, central, digest, metas, faults>> /\ ~Halfway(p)
    BY <1>3 DEF Query, SetCLIDiscoverySource, cache, At, Halfway
  <2>2. UriIsRight'
    BY <2>1, UriKept DEF IInv
  <2>3. CASE Finish(p)
    <3>1. proc'[p].pc = "idle"
      BY <2>3, Moved, IdleTyped DEF IInv, Finish
    <3> QED BY <1>1, <2>1, <2>2, <3>1, IdleOK, FilesKept, Combine DEF IInv
  <2>4. CASE GoTo(p, "save") /\ s.pc = "query"
    <3> DEFINE t == [s EXCEPT !.pc = "save"]
    <3>1. s \in ProcState /\ proc'[p] = t
      BY <2>4, Moved DEF GoTo, IInv, TypeOK
    <3>2. t.pc = "save" /\ t.image = s.image /\ t.seen = s.seen
      BY <3>1 DEF ProcState
    <3> HIDE DEF t
    <3>3. SeenOK(proc[p])'
      BY <2>1, <2>4, <3>1, <3>2 DEF IInv, ProcOK, SeenOK, Own
    <3>4. ResolvedOK(proc[p])' /\ FilesOK(proc[p])' /\ LoadedOK(proc[p])' /\ ReadsOK(proc[p])'
      BY <3>1, <3>2 DEF ResolvedOK, FilesOK, LoadedOK, ReadsOK
    <3> QED BY <1>1, <2>1, <2>2, <3>3, <3>4, FilesKept, Combine DEF IInv, ProcOK
  <2> QED BY <1>3, <2>3, <2>4 DEF Query, SetCLIDiscoverySource, At
<1> QED BY <1>2, <1>3

-----------------------------------------------------------------------------
(* The environment *)

\* A new revision: what was older than the image is, and the process sees it.
LEMMA PublishKeeps ==
  ASSUME IInv, Alone, Steady, NEW u \in Images, Publish(u)
  PROVE  IInv'
<1> USE DEF Copied, Fetched, Loading, Comparing, MetaComparing
<1>1. /\ TypeOK' /\ u \in Publishable /\ Publishable # {}
      /\ reg[u].main <= reg'[u].main /\ reg[u].meta <= reg'[u].meta
  BY PublishTyped DEF IInv
<1>2. \A v \in Images : v = u
  BY <1>1 DEF Steady
<1>3. UNCHANGED <<db, central, digest, metas, faults>> /\ Digests' = Digests
  BY DEF Publish, cache, Digests
<1>4. MetadataReached' <=> MetadataReached
  BY <1>3 DEF MetadataReached
<1>5. \A main : CentralOK(main) => CentralOK(main)'
  BY <1>3 DEF CentralOK
<1>6. /\ reg[u] \in Content /\ reg'[u] \in Content
      /\ reg[u].main \in Nat /\ reg[u].meta \in Nat /\ reg'[u].main \in Nat /\ reg'[u].meta \in Nat
  BY <1>1, ContentNumbers DEF IInv, TypeOK
<1>7. \A c : Own(c, u) => Own(c, u)'
  BY <1>1, <1>6, ContentNumbers DEF Own
<1>8. Own(reg[u], u)'
  BY <1>1, <1>6 DEF Own
<1>9. OneEach'
  BY <1>3 DEF IInv, OneEach
<1>10. Described'
  <2>1. \A d, m : DescribedBy(d, m) => DescribedBy(d, m)'
    <3> SUFFICES ASSUME NEW d, NEW m, DescribedBy(d, m)
                 PROVE  DescribedBy(d, m)'
      OBVIOUS
    <3>1. db \in Content /\ db.main \in Nat /\ db.meta \in Nat
      BY ContentNumbers DEF DescribedBy
    <3>2. db.main <= reg[u].main /\ (MetadataReached => db.meta <= reg[u].meta)
      BY <1>1 DEF DescribedBy
    <3>3. \A v \in Images : db.main <= reg'[v].main /\ (MetadataReached => db.meta <= reg'[v].meta)
      BY <1>1, <1>2, <1>6, <3>1, <3>2
    <3> QED BY <1>3, <1>4, <1>5, <3>1, <3>3 DEF DescribedBy, Names
  <2> QED BY <1>3, <2>1 DEF IInv, Described
<1>11. ASSUME NEW p \in Procs
       PROVE  /\ ProcOK(proc[p])'
              /\ Halfway(p)' <=> Halfway(p)
  <2> DEFINE s == proc[p]
             more == IF s.pc # "idle" /\ s.image = u THEN s.seen \cup {reg'[u]} ELSE s.seen
             t == [s EXCEPT !.seen = more]
  <2>1. s \in ProcState /\ s.image = u
    BY <1>2 DEF IInv, TypeOK, ProcState
  <2>2. proc'[p] = t
    <3>1. CASE s.pc # "idle" /\ s.image = u
      BY <3>1 DEF Publish
    <3>2. CASE ~(s.pc # "idle" /\ s.image = u)
      <4>1. t = s
        BY <2>1, <3>2 DEF ProcState
      <4> QED BY <3>2, <4>1 DEF Publish
    <3> QED BY <3>1, <3>2
  <2>3. s.seen \subseteq more /\ more \subseteq s.seen \cup {reg'[u]} /\ (s.pc # "idle" => reg'[u] \in more)
    BY <2>1
  <2> HIDE DEF more
  <2>4. /\ t.pc = s.pc /\ t.image = s.image /\ t.seen = more /\ t.main = s.main /\ t.found = s.found
        /\ t.meta = s.meta /\ t.newMain = s.newMain /\ t.newMeta = s.newMeta /\ t.tmp = s.tmp
        /\ t.via = s.via
    BY <2>1 DEF ProcState
  <2> HIDE DEF t
  <2>5. ProcOK(s)
    BY DEF IInv
  <2>6. SeenOK(proc[p])'
    <3>1. s.pc # "idle" => \A c \in s.seen : Own(c, u)
      BY <2>1, <2>5 DEF ProcOK, SeenOK
    <3>2. s.pc # "idle" => \A c \in more : Own(c, u)'
      BY <1>7, <1>8, <2>3, <3>1
    <3>3. proc'[p].pc = s.pc /\ proc'[p].image = u /\ proc'[p].seen = more
      BY <2>1, <2>2, <2>4
    <3> QED BY <2>3, <3>2, <3>3 DEF SeenOK
  <2>7. ResolvedOK(proc[p])'
    BY <1>3, <1>4, <2>2, <2>3, <2>4, <2>5 DEF ProcOK, ResolvedOK
  <2>8. FilesOK(proc[p])'
    BY <1>3, <2>2, <2>4, <2>5 DEF ProcOK, FilesOK
  <2>9. LoadedOK(proc[p])'
    BY <1>3, <1>4, <1>5, <2>2, <2>3, <2>4, <2>5 DEF ProcOK, LoadedOK
  <2>10. ReadsOK(proc[p])'
    <3>1. Mix(s.seen) \subseteq Mix(more)
      BY <2>3 DEF Mix
    <3>2. proc'[p].pc = s.pc /\ proc'[p].image = u /\ proc'[p].seen = more /\ proc'[p].via = s.via
      BY <2>1, <2>2, <2>4
    <3>3. s.pc = "query" /\ MetadataReached /\ s.via = "refresh" => db \in Mix(more)
      BY <2>5, <3>1 DEF ProcOK, ReadsOK
    <3>4. s.pc = "query" /\ MetadataReached /\ s.via = "ttl" /\ u \notin faults.half => Own(db, u)'
      BY <1>3, <1>7, <2>1, <2>5 DEF ProcOK, ReadsOK
    <3> QED BY <1>3, <1>4, <3>2, <3>3, <3>4 DEF ReadsOK
  <2>11. Halfway(p)' <=> Halfway(p)
    BY <2>2, <2>4 DEF Halfway
  <2> QED BY <2>6, <2>7, <2>8, <2>9, <2>10, <2>11 DEF ProcOK
<1>12. UriIsRight'
  <2>1. \A d \in Digests : digest[d] \in Images
    BY DEF IInv, TypeOK, Digests
  <2> QED BY <1>2, <1>3, <1>4, <1>7, <1>11, <2>1 DEF IInv, UriIsRight
<1> QED BY <1>1, <1>9, <1>10, <1>11, <1>12 DEF IInv

LEMMA ExpireKeeps ==
  ASSUME IInv, NEW d \in Revs, Expire(d) \/ UNCHANGED vars
  PROVE  IInv'
<1>1. UNCHANGED <<reg, source, db, central, digest, metas, proc, faults>> /\ fresh' \subseteq fresh
  BY DEF Expire, vars, cache
<1>2. TypeOK'
  BY <1>1 DEF IInv, TypeOK
<1>3. Digests' = Digests /\ (MetadataReached' <=> MetadataReached)
  BY <1>1 DEF Digests, MetadataReached
<1>4. OneEach' /\ Described'
  BY <1>1, FilesKept DEF IInv
<1>5. UriIsRight'
  BY <1>1, <1>3 DEF IInv, UriIsRight, Own, Halfway
<1>6. \A main : CentralOK(main) => CentralOK(main)'
  BY <1>1 DEF CentralOK
<1>7. ASSUME NEW p \in Procs
      PROVE  ProcOK(proc[p])'
  <2>1. ProcOK(proc[p]) /\ proc'[p] = proc[p]
    BY <1>1 DEF IInv
  <2>2. SeenOK(proc[p])' /\ ReadsOK(proc[p])'
    BY <1>1, <1>3, <2>1 DEF ProcOK, SeenOK, ReadsOK, Own
  <2>3. ResolvedOK(proc[p])'
    BY <1>1, <1>3, <2>1 DEF ProcOK, ResolvedOK
  <2>4. FilesOK(proc[p])'
    BY <1>1, <1>3, <2>1 DEF ProcOK, FilesOK
  <2>5. LoadedOK(proc[p])'
    BY <1>1, <1>3, <1>6, <2>1 DEF ProcOK, LoadedOK
  <2> QED BY <2>2, <2>3, <2>4, <2>5 DEF ProcOK
<1> QED BY <1>2, <1>4, <1>5, <1>7 DEF IInv

LEMMA InitOK ==
  ASSUME Steady, Init
  PROVE  IInv
<1> USE DEF Copied, Fetched, Loading, Comparing, MetaComparing
<1>1. reg \in [Images -> Content] /\ source \in Images /\ reg[source] \in Content
      /\ reg[source].main \in Revs /\ reg[source].meta \in Revs \cup {none}
  BY RegistryAssumption DEF Init, Content
<1>2. \A p \in Procs : proc[p] = Idle
  BY DEF Init
<1>3. faults \in [count : 0..MaxFaults, kinds : SUBSET FaultKinds, half : SUBSET Images]
  BY ConstantsAssumption DEF Init
<1>4. TypeOK
  BY <1>1, <1>3, IdleTyped DEF Init, TypeOK
<1>5. source # Missing /\ reg[source] # Missing
  BY <1>1, ConstantsAssumption
<1>6. \/ Digests = {} /\ metas = {}
      \/ /\ Digests = {reg[source].main} /\ metas = {reg[source].meta} /\ db = reg[source]
         /\ digest[reg[source].main] = source
  BY <1>1, <1>5 DEF Init, Digests
<1>7. OneEach
  BY <1>5, <1>6 DEF OneEach
<1>8. reg[source].main \in Nat /\ reg[source].meta \in Nat
  BY <1>1, ContentNumbers
<1>9. Described
  <2>1. \A main : CentralOK(main)
    BY DEF Init, CentralOK
  <2>2. Publishable # {} => \A u \in Images : u = source
    BY <1>1 DEF Steady
  <2>3. db = reg[source] => DescribedBy(reg[source].main, reg[source].meta)
    BY <1>1, <1>8, <2>1, <2>2 DEF DescribedBy, Names
  <2> QED BY <1>6, <2>3 DEF Described
<1>10. UriIsRight
  <2>1. Own(reg[source], source)
    BY <1>1, <1>8 DEF Own
  <2> QED BY <1>6, <2>1 DEF UriIsRight
<1>11. ASSUME NEW p \in Procs
       PROVE  ProcOK(proc[p])
  <2>1. proc[p].pc = "idle"
    BY <1>2, IdleTyped
  <2>2. SeenOK(proc[p]) /\ ResolvedOK(proc[p]) /\ ReadsOK(proc[p])
    BY <2>1 DEF SeenOK, ResolvedOK, ReadsOK
  <2>3. FilesOK(proc[p]) /\ LoadedOK(proc[p])
    BY <2>1 DEF FilesOK, LoadedOK
  <2> QED BY <2>2, <2>3 DEF ProcOK
<1> QED BY <1>4, <1>7, <1>9, <1>10, <1>11 DEF IInv

LEMMA NextKeeps ==
  ASSUME Alone, Steady, IInv, [Next]_vars
  PROVE  IInv'
<1>1. CASE UNCHANGED vars
  <2>1. 1 \in Revs
    BY ConstantsAssumption DEF Revs
  <2> QED BY <1>1, <2>1, ExpireKeeps
<1>2. ASSUME NEW p \in Procs, Start(p) \/ Step(p) \/ Crash(p)
      PROVE  IInv'
  BY <1>2, StartKeeps, CheckTTLKeeps, GetImageDigestKeeps, GlobKeeps, CheckMainKeeps,
     GetMetadataDigestKeeps, CheckMetaKeeps, ReuseKeeps, VerifyKeeps, DownloadKeeps,
     DownloadMetadataKeeps, CopyOpenKeeps, CopyWriteKeeps, SetupCentralConfigKeeps, ResetKeeps,
     CreateMainKeeps, CreateMetaKeeps, EndKeeps DEF Step
<1>3. ASSUME NEW u \in Images, Publish(u)
      PROVE  IInv'
  BY <1>3, PublishKeeps
<1>4. ASSUME NEW d \in Revs, Expire(d)
      PROVE  IInv'
  BY <1>4, ExpireKeeps
<1> QED BY <1>1, <1>2, <1>3, <1>4 DEF Next

LEMMA Invariance ==
  ASSUME Alone, Steady
  PROVE  Spec => []IInv
<1>1. Init => IInv
  BY InitOK
<1>2. IInv /\ [Next]_vars => IInv'
  BY NextKeeps
<1> QED BY <1>1, <1>2, PTL DEF Spec

-----------------------------------------------------------------------------
(* The properties *)

\* Every reachable state is well typed, whatever processes run at the same time.
THEOREM CacheTyped == Spec => []TypeOK
<1>1. Init => TypeOK
  <2> SUFFICES ASSUME Init
               PROVE  TypeOK
    OBVIOUS
  <2>1. reg \in [Images -> Content] /\ source \in Images /\ reg[source] \in Content
    BY RegistryAssumption DEF Init
  <2>2. reg[source].meta \in Revs \cup {none}
    BY <2>1 DEF Content
  <2>3. faults \in [count : 0..MaxFaults, kinds : SUBSET FaultKinds, half : SUBSET Images]
    BY ConstantsAssumption DEF Init
  <2> QED BY <2>1, <2>2, <2>3, IdleTyped DEF Init, TypeOK
<1>2. TypeOK /\ [Next]_vars => TypeOK'
  <2> SUFFICES ASSUME TypeOK, [Next]_vars
               PROVE  TypeOK'
    OBVIOUS
  <2>1. CASE UNCHANGED vars
    BY <2>1 DEF vars, cache, TypeOK
  <2>2. ASSUME NEW p \in Procs, Start(p) \/ Step(p) \/ Crash(p)
        PROVE  TypeOK'
    BY <2>2, StartTyped, CompareTyped, LoadTyped DEF Step
  <2>3. ASSUME NEW u \in Images, Publish(u)
        PROVE  TypeOK'
    BY <2>3, PublishTyped
  <2>4. ASSUME NEW d \in Revs, Expire(d)
        PROVE  TypeOK'
    BY <2>4 DEF Expire, TypeOK
  <2> QED BY <2>1, <2>2, <2>3, <2>4 DEF Next
<1> QED BY <1>1, <1>2, PTL DEF Spec

\* The digest files never vouch for a database that is not the image's: a
\* refresh removes the one that is wrong before it touches the database and
\* creates it after the copy, so a stop anywhere in between is noticed.
THEOREM DigestsVouch ==
  ASSUME Alone, Steady
  PROVE  Spec => []ValidatedCacheIsCurrent
<1>1. IInv => ValidatedCacheIsCurrent
  <2> SUFFICES ASSUME IInv, NEW u \in Images, MetadataReached,
                      Digests = {reg[u].main}, metas = {reg[u].meta}
               PROVE  db = reg[u]
    BY DEF ValidatedCacheIsCurrent
  <2>1. DescribedBy(reg[u].main, reg[u].meta)
    BY DEF IInv, Described
  <2>2. reg[u] \in Content /\ db \in Content
    BY <2>1 DEF IInv, TypeOK, DescribedBy
  <2>3. reg[u].main \in Nat /\ reg[u].meta \in Nat /\ db.main \in Nat /\ db.meta \in Nat
    BY <2>2, ContentNumbers
  <2>4. db.main = reg[u].main /\ db.meta = reg[u].meta
    BY <2>1, <2>3 DEF DescribedBy, Names
  <2> QED BY <2>2, <2>4 DEF Content
<1> QED BY <1>1, Invariance, PTL

\* The central configuration beside a database that counts as complete is of
\* the same image, or of none where its copy failed unnoticed.
THEOREM CentralConfigStaysWithDatabase ==
  ASSUME Alone, Steady
  PROVE  Spec => []CentralConfigFollows
<1>1. IInv => CentralConfigFollows
  <2> SUFFICES ASSUME IInv, Cardinality(Digests) = 1, Cardinality(metas) = 1
               PROVE  CentralOK(db.main)
    BY DEF CentralConfigFollows, CentralOK
  <2>1. IsFiniteSet(Revs) /\ IsFiniteSet(Revs \cup {none})
    <3>1. MaxRev \in Int /\ 1 \in Int
      BY ConstantsAssumption
    <3>2. IsFiniteSet(Revs)
      BY <3>1, FS_Interval DEF Revs
    <3> QED BY <3>2, FS_AddElement
  <2>2. IsFiniteSet(Digests) /\ IsFiniteSet(metas)
    BY <2>1, FS_Subset DEF Digests, IInv, TypeOK
  <2>3. PICK d : Digests = {d}
    BY <2>2, FS_Singleton
  <2>4. PICK m : metas = {m}
    BY <2>2, FS_Singleton
  <2> QED BY <2>3, <2>4 DEF IInv, Described, DescribedBy
<1> QED BY <1>1, Invariance, PTL

\* A refresh that ends well, with or without a download, leaves a database of
\* what the image was while it ran.
THEOREM RefreshesAreCurrent ==
  ASSUME Alone, Steady
  PROVE  Spec => []RefreshedIsCurrent
<1>1. IInv => RefreshedIsCurrent
  BY DEF IInv, ProcOK, ReadsOK, RefreshedIsCurrent, At
<1> QED BY <1>1, Invariance, PTL

\* A command that trusts the young cache of its image reads that image, unless
\* the last refresh of it stopped half way.
THEOREM TrustIsJustified ==
  ASSUME Alone, Steady
  PROVE  Spec => []TrustedCacheIsOwn
<1>1. IInv => TrustedCacheIsOwn
  BY DEF IInv, ProcOK, ReadsOK, Own, TrustedCacheIsOwn, At
<1> QED BY <1>1, Invariance, PTL



-----------------------------------------------------------------------------
(* Commands at the same time *)

\* All images of the registry are the same and stay so: one source, or mirrors of it.
Mirrored == Publishable = {} /\ \A r \in InitRegistry : \A u, v \in Images : r[u] = r[v]

\* No command is stopped in a refresh and no copy fails; other errors may occur.
Uninterrupted == Faults \cap {"crash", "fail"} = {}

\* What a refresh makes of the image, even one that misses the metadata.
IsLoaded(c) ==
  /\ c.main = reg[DefaultImage].main
  /\ MetadataReached => c = reg[DefaultImage]

\* Whoever works on the cache, there is one database that it can hold; while it is blank
\* somebody is about to write it, and without it there are no digest files.
Shared ==
  /\ \A u \in Images : reg[u] = reg[DefaultImage]
  /\ db \in Content \cup {Missing, Blank}
  /\ db \in Content => IsLoaded(db)
  /\ db = Blank => \E p \in Procs : At(p, "write")
  /\ db = Missing => Digests = {}

\* What a command has downloaded is that database too.
LoadsShared ==
  \A p \in Procs :
    /\ proc[p].pc \in {"metadownload", "copy", "write"} => proc[p].tmp.main = reg[DefaultImage].main
    /\ proc[p].pc \in {"copy", "write"} => IsLoaded(proc[p].tmp)

\* The other commands do nothing.
Others(p) == \A q \in Procs \ {p} : proc'[q] = proc[q]

LEMMA Becomes ==
  ASSUME TypeOK, NEW p \in Procs, NEW s, Become(p, s) PROVE proc'[p] = s /\ Others(p)
  BY DEF TypeOK, Become, Others

\* What the others have downloaded stays right.
LEMMA LoadStep ==
  ASSUME LoadsShared, NEW p \in Procs, UNCHANGED reg, Others(p), faults.kinds \subseteq faults'.kinds,
         proc'[p].pc \in {"metadownload", "copy", "write"} => proc'[p].tmp.main = reg[DefaultImage].main,
         proc'[p].pc \in {"copy", "write"} => IsLoaded(proc[p].tmp)'
  PROVE  LoadsShared'
<1> SUFFICES ASSUME NEW q \in Procs
             PROVE  /\ proc'[q].pc \in {"metadownload", "copy", "write"}
                         => proc'[q].tmp.main = reg'[DefaultImage].main
                    /\ proc'[q].pc \in {"copy", "write"} => IsLoaded(proc[q].tmp)'
  BY DEF LoadsShared
<1>1. CASE q = p
  BY <1>1
<1>2. CASE q # p
  <2>1. proc'[q] = proc[q]
    BY <1>2 DEF Others
  <2>2. proc[q].pc \in {"copy", "write"} => IsLoaded(proc[q].tmp)
    BY DEF LoadsShared
  <2>3. IsLoaded(proc[q].tmp) => (MetadataReached' => proc'[q].tmp = reg'[DefaultImage])
    BY <2>1 DEF IsLoaded, MetadataReached
  <2> QED BY <2>1, <2>2, <2>3 DEF LoadsShared, IsLoaded
<1> QED BY <1>1, <1>2

\* A step of a command that does not copy and creates digest files only beside a database.
LEMMA FileStep ==
  ASSUME TypeOK, Shared, NEW p \in Procs, UNCHANGED <<reg, db>>, Others(p),
         faults.kinds \subseteq faults'.kinds, ~At(p, "write"),
         db = Missing => Digests' \subseteq Digests
  PROVE  Shared'
<1>1. db' = Blank => \E q \in Procs : At(q, "write")'
  BY DEF Shared, At, Others
<1>2. IsLoaded(db) => IsLoaded(db)'
  BY DEF IsLoaded, MetadataReached
<1> QED BY <1>1, <1>2 DEF Shared

LEMMA NoInterruption ==
  ASSUME Uninterrupted, NEW p \in Procs
  PROVE  ~Fail(p) /\ ~Crash(p) /\ ~Fault(p, "fail")
  BY DEF Uninterrupted, Fail, Crash, Fault

LEMMA KindsGrow ==
  ASSUME NEW p, NEW kind, Fault(p, kind) PROVE faults.kinds \subseteq faults'.kinds
  BY DEF Fault

\* Commands start, and the directory is removed.
LEMMA StartShared ==
  ASSUME TypeOK, Shared, LoadsShared, NEW p \in Procs, Start(p)
  PROVE  Shared' /\ LoadsShared'
<1>1. CASE newDeleteDiscoverySourceCmd(p)
  BY <1>1 DEF newDeleteDiscoverySourceCmd, cache, Shared, LoadsShared, At, IsLoaded, MetadataReached,
              Digests
<1>2. CASE Clean(p)
  <2>1. UNCHANGED <<reg, proc, faults>> /\ db' = Missing /\ Digests' = {}
    BY <1>2 DEF Clean, RemoveDigests, Digests
  <2>2. LoadsShared'
    BY <2>1 DEF LoadsShared, IsLoaded, MetadataReached
  <2>3. Missing \notin Content /\ Missing # Blank
    BY ConstantsAssumption
  <2> QED BY <2>1, <2>2, <2>3 DEF Shared
<1>3. CASE \/ Begin(p) \/ newUpdateDiscoverySourceCmd(p) \/ newInitDiscoverySourceCmd(p)
           \/ RefreshDatabase(p) \/ invalidateInventoryCache(p)
  <2>1. /\ At(p, "idle") /\ UNCHANGED <<reg, db, digest, faults>>
        /\ \E kind, u : \E pc \in {"ttl", "query", "digest"} : Discover(p, kind, u, pc)
    BY <1>3 DEF Begin, newUpdateDiscoverySourceCmd, newInitDiscoverySourceCmd, RefreshDatabase,
                invalidateInventoryCache, cache
  <2>2. Others(p) /\ proc'[p].pc \in {"ttl", "query", "digest"}
    <3>1. PICK kind, u, pc : pc \in {"ttl", "query", "digest"} /\ Discover(p, kind, u, pc)
      BY <2>1
    <3>2. Others(p) /\ proc'[p] = [Idle EXCEPT !.kind = kind, !.image = u, !.seen = {reg[u]}, !.pc = pc]
      BY <3>1, Becomes DEF Discover
    <3> QED BY <3>1, <3>2 DEF Idle
  <2>3. Digests' = Digests
    BY <2>1 DEF Digests
  <2>4. Shared'
    BY <2>1, <2>2, <2>3, FileStep DEF At
  <2> QED BY <2>1, <2>2, <2>4, LoadStep
<1> QED BY <1>1, <1>2, <1>3 DEF Start

\* The steps that compare and create digest files.
LEMMA DigestsShared ==
  ASSUME TypeOK, Shared, NEW d, NEW image \in Images, UNCHANGED db,
         CreateDigest(d, image) \/ (\E ds : RemoveDigests(ds)) \/ UNCHANGED digest
  PROVE  db = Missing => Digests' \subseteq Digests
  BY DEF CreateDigest, RemoveDigests, Digests, DirExists, TypeOK

LEMMA CompareShared ==
  ASSUME TypeOK, Shared, LoadsShared, Uninterrupted, NEW p \in Procs,
         \/ CheckTTL(p) \/ GetImageDigest(p) \/ Glob(p) \/ CheckMain(p) \/ GetMetadataDigest(p)
         \/ CheckMeta(p) \/ Reuse(p) \/ Verify(p) \/ Reset(p)
         \/ CreateMain(p) \/ CreateMeta(p) \/ Query(p) \/ SetCLIDiscoverySource(p)
  PROVE  Shared' /\ LoadsShared'
<1>1. proc[p] \in ProcState /\ proc[p].image \in Images
  BY DEF TypeOK, ProcState
<1>2. UNCHANGED <<reg, db>> /\ ~At(p, "write")
  BY NoInterruption DEF CheckTTL, GetImageDigest, Glob, CheckMain, GetMetadataDigest, CheckMeta, Reuse, Verify,
     Reset, CreateMain, CreateMeta, Query, SetCLIDiscoverySource, cache, At
<1>3. faults.kinds \subseteq faults'.kinds
  <2>1. UNCHANGED faults \/ Refreshed(p) \/ \E kind : Fault(p, kind)
    BY NoInterruption DEF CheckTTL, GetImageDigest, Glob, CheckMain, GetMetadataDigest, CheckMeta, Reuse, Verify,
       Reset, CreateMain, CreateMeta, Query, SetCLIDiscoverySource
  <2>2. faults.kinds = [faults EXCEPT !.half = faults.half \ {proc[p].image}].kinds
    BY DEF TypeOK
  <2> QED BY <2>1, <2>2, KindsGrow DEF Refreshed
<1>4. db = Missing => Digests' \subseteq Digests
  <2>1. CreateDigest(proc[p].main, proc[p].image) \/ (\E ds : RemoveDigests(ds)) \/ UNCHANGED digest
    BY NoInterruption DEF CheckTTL, GetImageDigest, Glob, CheckMain, GetMetadataDigest, CheckMeta, Reuse, Verify,
       Reset, CreateMain, CreateMeta, Query, SetCLIDiscoverySource, cache
  <2> QED BY <1>1, <1>2, <2>1, DigestsShared
<1>5. Others(p) /\ proc'[p].pc \notin {"metadownload", "copy", "write"}
  <2>0. proc \in [Procs -> ProcState]
    BY DEF TypeOK
  <2> USE <1>1, <2>0, NoInterruption DEF ProcState, Become, Others
  <2>1. CASE CheckTTL(p)
    BY <2>1 DEF CheckTTL
  <2>2. CASE GetImageDigest(p)
    <3>1. Become(p, [proc[p] EXCEPT !.pc = "glob", !.main = reg[proc[p].image].main])
      BY <2>2 DEF GetImageDigest
    <3> QED BY <3>1
  <2>3. CASE Glob(p)
    <3>1. CASE Become(p, [proc[p] EXCEPT !.pc = "check", !.found = Digests])
      BY <3>1
    <3>2. CASE Become(p, [proc[p] EXCEPT !.pc = "metacheck", !.found = metas])
      BY <3>2
    <3> QED BY <2>3, <3>1, <3>2 DEF Glob
  <2>4. CASE CheckMain(p)
    BY <2>4 DEF CheckMain
  <2>5. CASE GetMetadataDigest(p)
    <3>1. CASE Become(p, [proc[p] EXCEPT !.pc = "metaglob", !.meta = reg[proc[p].image].meta])
      BY <3>1
    <3>2. CASE Become(p, [proc[p] EXCEPT !.pc = "metaglob", !.meta = none])
      BY <3>2
    <3> QED BY <2>5, <3>1, <3>2 DEF GetMetadataDigest
  <2>6. CASE CheckMeta(p)
    BY <2>6 DEF CheckMeta
  <2>7. CASE Reuse(p)
    BY <2>7 DEF Reuse, Refreshed
  <2>8. CASE Verify(p)
    BY <2>8 DEF Verify, GoTo
  <2>9. CASE Reset(p)
    BY <2>9 DEF Reset, GoTo
  <2>10. CASE CreateMain(p)
    BY <2>10 DEF CreateMain, GoTo
  <2>11. CASE CreateMeta(p)
    BY <2>11 DEF CreateMeta, Refreshed
  <2>12. CASE Query(p)
    BY <2>12 DEF Query, GoTo, Finish, Idle
  <2>13. CASE SetCLIDiscoverySource(p)
    BY <2>13 DEF SetCLIDiscoverySource, Finish, Idle
  <2> QED BY <2>1, <2>2, <2>3, <2>4, <2>5, <2>6, <2>7, <2>8, <2>9, <2>10, <2>11, <2>12, <2>13
<1>6. Shared'
  BY <1>2, <1>3, <1>4, <1>5, FileStep
<1> QED BY <1>2, <1>3, <1>5, <1>6, LoadStep

\* The steps that download and copy.
LEMMA LoadShared ==
  ASSUME TypeOK, Shared, LoadsShared, Uninterrupted, NEW p \in Procs,
         Download(p) \/ DownloadMetadata(p)
  PROVE  Shared' /\ LoadsShared'
<1>1. proc[p] \in ProcState /\ proc[p].image \in Images /\ proc[p].tmp \in Content
  BY DEF TypeOK, ProcState
<1>2. reg[proc[p].image] = reg[DefaultImage] /\ reg[DefaultImage] \in Content
  BY <1>1, ConstantsAssumption DEF Shared, TypeOK
<1>3. /\ UNCHANGED <<reg, db, digest>> /\ ~At(p, "write")
      /\ UNCHANGED faults \/ Fault(p, "metafail")
  BY NoInterruption DEF Download, DownloadMetadata, cache, At
<1>4. faults.kinds \subseteq faults'.kinds
  BY <1>3, KindsGrow
<1>5. /\ Others(p)
      /\ proc'[p].tmp.main = reg[DefaultImage].main
      /\ proc'[p].pc \in {"metadownload", "copy"}
      /\ proc'[p].pc = "copy" /\ MetadataReached' => proc'[p].tmp = reg[DefaultImage]
  <2>1. CASE Download(p)
    <3>1. proc'[p] = [proc[p] EXCEPT !.pc = "metadownload", !.tmp.main = reg[proc[p].image].main] /\ Others(p)
      BY <2>1, NoInterruption, Becomes DEF Download
    <3> QED BY <1>1, <1>2, <3>1 DEF ProcState, Content
  <2>2. CASE DownloadMetadata(p)
    <3>1. proc[p].tmp.main = reg[DefaultImage].main
      BY <2>2 DEF DownloadMetadata, At, LoadsShared
    <3>2. CASE Become(p, [proc[p] EXCEPT !.pc = "copy", !.tmp.meta = reg[proc[p].image].meta])
      <4>1. proc'[p] = [proc[p] EXCEPT !.pc = "copy", !.tmp.meta = reg[proc[p].image].meta] /\ Others(p)
        BY <3>2, Becomes
      <4>2. proc'[p].tmp = [proc[p].tmp EXCEPT !.meta = reg[DefaultImage].meta] /\ proc'[p].pc = "copy"
        BY <1>1, <1>2, <4>1 DEF ProcState
      <4>3. proc'[p].tmp = reg[DefaultImage]
        BY <1>1, <1>2, <3>1, <4>2 DEF Content
      <4> QED BY <4>1, <4>2, <4>3
    <3>3. CASE Become(p, [proc[p] EXCEPT !.pc = "copy", !.tmp.meta = none]) /\ Fault(p, "metafail")
      <4>1. ~MetadataReached'
        BY <3>3 DEF Fault, MetadataReached
      <4>2. proc'[p] = [proc[p] EXCEPT !.pc = "copy", !.tmp.meta = none] /\ Others(p)
        BY <3>3, Becomes
      <4>3. proc'[p].tmp = [proc[p].tmp EXCEPT !.meta = none] /\ proc'[p].pc = "copy"
        BY <1>1, <4>2 DEF ProcState
      <4> QED BY <1>1, <3>1, <4>1, <4>2, <4>3 DEF Content
    <3> QED BY <2>2, <3>2, <3>3, NoInterruption DEF DownloadMetadata
  <2> QED BY <2>1, <2>2
<1>6. proc'[p].pc \in {"copy", "write"} => IsLoaded(proc[p].tmp)'
  BY <1>3, <1>5 DEF IsLoaded
<1>7. Digests' = Digests
  BY <1>3 DEF Digests
<1>8. Shared'
  BY <1>3, <1>4, <1>5, <1>7, FileStep
<1> QED BY <1>3, <1>4, <1>5, <1>6, <1>8, LoadStep

LEMMA CopyShared ==
  ASSUME TypeOK, Shared, LoadsShared, Uninterrupted, NEW p \in Procs,
         CopyOpen(p) \/ CopyWrite(p) \/ setupCentralConfig(p)
  PROVE  Shared' /\ LoadsShared'
<1>1. proc[p] \in ProcState /\ proc[p].tmp \in Content /\ Missing # Blank /\ {Missing, Blank} \cap Content = {}
  BY ConstantsAssumption DEF TypeOK, ProcState
<1>2. UNCHANGED <<reg, digest>> /\ Digests' = Digests
  BY NoInterruption DEF CopyOpen, CopyWrite, setupCentralConfig, Digests
<1>3. UNCHANGED faults \/ Fault(p, "configfail")
  BY NoInterruption DEF CopyOpen, CopyWrite, setupCentralConfig
<1>4. faults.kinds \subseteq faults'.kinds
  BY <1>3, KindsGrow
<1>5. CASE CopyOpen(p)
  <2>1. Become(p, [proc[p] EXCEPT !.pc = "write"]) /\ db' = Blank /\ UNCHANGED faults
    BY <1>5 DEF CopyOpen, GoTo
  <2>2. IsLoaded(proc[p].tmp)
    BY <1>5 DEF CopyOpen, At, LoadsShared
  <2>3. LoadsShared'
    <3>1. Others(p) /\ proc'[p].tmp = proc[p].tmp
      BY <1>1, <2>1, Becomes DEF ProcState
    <3>2. proc'[p].tmp.main = reg[DefaultImage].main /\ IsLoaded(proc[p].tmp)'
      BY <1>2, <2>1, <2>2, <3>1 DEF IsLoaded, MetadataReached
    <3> QED BY <1>2, <1>4, <3>1, <3>2, LoadStep
  <2>4. At(p, "write")'
    BY <1>1, <2>1 DEF At, Become, TypeOK, ProcState
  <2>5. Blank \notin Content /\ Blank # Missing
    BY <1>1
  <2> QED BY <1>2, <2>1, <2>3, <2>4, <2>5 DEF Shared
<1>6. CASE CopyWrite(p)
  <2>1. Become(p, [proc[p] EXCEPT !.pc = "config"]) /\ UNCHANGED faults
    BY <1>6, NoInterruption DEF CopyWrite, GoTo
  <2>2. db' = IF db = Missing THEN Missing ELSE proc[p].tmp
    BY <1>6, NoInterruption DEF CopyWrite
  <2>3. IsLoaded(proc[p].tmp)
    BY <1>6 DEF CopyWrite, At, LoadsShared
  <2>4. LoadsShared'
    <3>1. Others(p) /\ proc'[p].pc = "config"
      BY <1>1, <2>1, Becomes DEF ProcState
    <3> QED BY <1>2, <1>4, <3>1, LoadStep
  <2>5. CASE db = Missing
    BY <1>1, <1>2, <2>2, <2>4, <2>5 DEF Shared
  <2>6. CASE db # Missing
    <3>1. db' = proc[p].tmp /\ db' \in Content /\ db' # Blank /\ db' # Missing
      BY <1>1, <2>2, <2>6
    <3>2. IsLoaded(db)'
      BY <1>2, <2>1, <2>3, <3>1 DEF IsLoaded, MetadataReached
    <3> QED BY <1>2, <2>4, <3>1, <3>2 DEF Shared
  <2> QED BY <2>5, <2>6
<1>7. CASE setupCentralConfig(p)
  <2>1. Become(p, [proc[p] EXCEPT !.pc = "reset"]) /\ UNCHANGED db /\ At(p, "config")
    BY <1>7 DEF setupCentralConfig, GoTo
  <2>2. LoadsShared'
    <3>1. Others(p) /\ proc'[p].pc = "reset"
      BY <1>1, <2>1, Becomes DEF ProcState
    <3> QED BY <1>2, <1>4, <3>1, LoadStep
  <2>3. Others(p)
    BY <2>1, Becomes
  <2>4. db' = Blank => \E q \in Procs : At(q, "write")'
    BY <2>1, <2>3 DEF Shared, At, Others
  <2>5. IsLoaded(db) => IsLoaded(db)'
    BY <1>2, <1>4, <2>1 DEF IsLoaded, MetadataReached
  <2> QED BY <1>2, <2>1, <2>2, <2>4, <2>5 DEF Shared
<1> QED BY <1>5, <1>6, <1>7


LEMMA SharedInit == ASSUME Mirrored, Init PROVE Shared /\ LoadsShared
<1>1. reg \in InitRegistry /\ source \in Images /\ reg \in [Images -> Content] /\ DefaultImage \in Images
  BY RegistryAssumption, ConstantsAssumption DEF Init
<1>2. \A u \in Images : reg[u] = reg[DefaultImage]
  BY <1>1 DEF Mirrored
<1>3. LoadsShared
  BY IdleTyped DEF Init, LoadsShared, Idle
<1>4. Missing # Blank /\ {Missing, Blank} \cap Content = {}
  BY ConstantsAssumption
<1>5. CASE db = Missing /\ digest = [d \in Revs |-> Missing]
  BY <1>2, <1>3, <1>4, <1>5 DEF Shared, Digests
<1>6. CASE db = reg[source]
  <2>1. db \in Content /\ db = reg[DefaultImage]
    BY <1>1, <1>2, <1>6
  <2> QED BY <1>2, <1>3, <1>4, <2>1 DEF Shared, IsLoaded
<1> QED BY <1>5, <1>6 DEF Init

LEMMA SharedStep ==
  ASSUME Mirrored, Uninterrupted, TypeOK, Shared, LoadsShared, [Next]_vars
  PROVE  Shared' /\ LoadsShared'
<1>1. CASE UNCHANGED vars
  BY <1>1 DEF vars, cache, Shared, LoadsShared, At, IsLoaded, MetadataReached, Digests
<1>2. ASSUME NEW p \in Procs, Start(p) \/ Step(p) \/ Crash(p)
      PROVE  Shared' /\ LoadsShared'
  BY <1>2, StartShared, CompareShared, LoadShared, CopyShared, NoInterruption DEF Step
<1>3. ASSUME NEW u \in Images, Publish(u)
      PROVE  FALSE
  BY <1>3 DEF Publish, Mirrored
<1>4. ASSUME NEW d \in Revs, Expire(d)
      PROVE  Shared' /\ LoadsShared'
  BY <1>4 DEF Expire, Shared, LoadsShared, At, IsLoaded, MetadataReached, Digests
<1> QED BY <1>1, <1>2, <1>3, <1>4 DEF Next

LEMMA SharedInvariance == ASSUME Mirrored, Uninterrupted PROVE Spec => [](Shared /\ LoadsShared)
<1>1. Init => Shared /\ LoadsShared
  BY SharedInit
<1>2. TypeOK /\ (Shared /\ LoadsShared) /\ [Next]_vars => (Shared /\ LoadsShared)'
  BY SharedStep
<1> QED BY <1>1, <1>2, CacheTyped, PTL DEF Spec

\* Any number of commands may refresh, clean and read the cache of an image that does not
\* change at the same time, although nothing is locked: when all have ended, digest files
\* that name the image stand beside its database, because what one command blanked it
\* writes, or another one does, with the same content, and `plugin clean` takes the
\* digest files with the database (checkImageCache, setupPluginInventory,
\* createDigestFile).  A command that is stopped in its copy breaks this, since
\* another one may have created the digest files meanwhile.
THEOREM ConcurrentRefreshesAgree ==
  ASSUME Mirrored, Uninterrupted
  PROVE  Spec => []ValidatedCacheIsCurrent
<1>1. TypeOK /\ Shared => ValidatedCacheIsCurrent
  <2> SUFFICES ASSUME TypeOK, Shared, NEW u \in Images, MetadataReached, Quiet, Digests = {reg[u].main}
               PROVE  db = reg[u]
    BY DEF ValidatedCacheIsCurrent
  <2>1. db # Missing
    BY DEF Shared
  <2>2. db # Blank
    BY DEF Shared, Quiet, At
  <2> QED BY <2>1, <2>2 DEF Shared, IsLoaded
<1> QED BY <1>1, SharedInvariance, CacheTyped, PTL
=============================================================================
