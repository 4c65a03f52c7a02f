-------------------------- MODULE IndexCache_proofs --------------------------
(***************************************************************************)
(* What holds of the registry's index cache for any number of processes,   *)
(* URLs and index versions, any TTL and any number of damaged files.       *)
(***************************************************************************)
EXTENDS IndexCache, TLAPS

-----------------------------------------------------------------------------
(* The inductive invariant.                                                *)

Writing(p) == pc[p] \in {"create", "write", "rename"}

\* fetchAndCache holds an index of the URL it asked from the download to
\* the end, and gives a temporary file its name only when all of the index
\* is in it.  A file that was read is at hand when it is judged, and is
\* forgotten when the call ends.
WriterInv == \A p \in Procs :
    /\ pc[p] = "idle" => seen[p] = Missing
    /\ pc[p] = "judge" => seen[p] # Missing
    /\ Writing(p) => got[p] \in Indexes /\ got[p].url = call[p].url
    /\ pc[p] = "rename" => tmp[p] # Missing /\ tmp[p].bytes = got[p]

\* A file of url u: not torn and, when it parses, an index of u.
GoodFor(file, u) ==
    file # Missing =>
        file.bytes # Torn /\ (file.bytes \in Indexes => file.bytes.url = u)

ContentInv ==
    /\ \A u \in Urls : GoodFor(cache[u], u)
    /\ \A p \in Procs : GoodFor(seen[p], call[p].url)

\* A file was written before it got its name, and neither is in the future.
\* The time Stat found is not later than the naming of the file read after
\* it: a file that replaced the one Stat looked at is a newer one.
ClockInv ==
    /\ \A u \in Urls : cache[u] # Missing =>
          cache[u].mtime <= cache[u].placed /\ cache[u].placed <= now
    /\ \A p \in Procs :
          /\ tmp[p] # Missing => tmp[p].mtime <= now
          /\ seen[p] # Missing => seen[p].placed <= now
          /\ stat[p] <= now
          /\ pc[p] = "read" /\ cache[Path(p)] # Missing =>
                stat[p] <= cache[Path(p)].placed
          /\ pc[p] = "judge" => stat[p] <= seen[p].placed

\* While the disk keeps the files, all of them parse and none goes away, so
\* a call that began with one cached finds one at whatever step it looks.
KeptInv == faults = 0 =>
    /\ \A u \in Urls : cache[u] # Missing => cache[u].bytes \in Indexes
    /\ \A p \in Procs :
          /\ pc[p] = "judge" => seen[p].bytes \in Indexes
          /\ pc[p] # "idle" /\ call[p].had => cache[Path(p)] # Missing

IInv == /\ TypeOK /\ WriterInv /\ ContentInv /\ ClockInv /\ KeptInv
        /\ AnswerIsFromItsUrl /\ StaleOnlyAsFallback /\ CachedIndexServes

-----------------------------------------------------------------------------
(* Types, and the initial state.                                           *)

LEMMA NoCallType == NoCall \in Calls
BY BoundsAssumption DEF NoCall, Calls

LEMMA NoResultType == NoResult \in Results
BY NoCallType DEF NoResult, Results

LEMMA InitIInv == Init => IInv
<1> SUFFICES ASSUME Init PROVE IInv
  OBVIOUS
<1>1. TypeOK
  BY BoundsAssumption, NoCallType, NoResultType DEF Init, TypeOK, Labels
<1>2. /\ NoResult.index = NoIndex /\ NoResult.age = 0
      /\ NoResult.why = "none" /\ NoResult.call.had = FALSE
  BY DEF NoResult, NoCall
<1>3. AnswerIsFromItsUrl /\ StaleOnlyAsFallback /\ CachedIndexServes
  BY <1>2, BoundsAssumption
     DEF Init, AnswerIsFromItsUrl, StaleOnlyAsFallback, CachedIndexServes
<1>4. WriterInv /\ ContentInv
  BY DEF Init, WriterInv, ContentInv, GoodFor, Writing
<1>5. ClockInv /\ KeptInv
  BY BoundsAssumption DEF Init, ClockInv, KeptInv
<1> QED
  BY <1>1, <1>3, <1>4, <1>5 DEF IInv

\* A call that returns keeps the types.
LEMMA ReturnType ==
    ASSUME TypeOK, NEW p \in Procs, NEW index \in Indexes \cup {NoIndex}, NEW age \in Nat,
           NEW why \in {"none", "cached", "fetched", "miss", "unparsable"},
           Return(p, index, age, why)
    PROVE  /\ pc' \in [Procs -> Labels]
           /\ result' \in [Procs -> Results]
           /\ stat' \in [Procs -> 0..MaxTime]
           /\ seen' \in [Procs -> Files \cup {Missing}]
           /\ got' \in [Procs -> Indexes \cup {NoIndex}]
<1>1. [call |-> call[p], index |-> index, age |-> age, why |-> why] \in Results
  BY DEF TypeOK, Results
<1> QED
  BY <1>1, BoundsAssumption DEF Return, TypeOK, Labels

LEMMA MissType ==
    ASSUME TypeOK, NEW p \in Procs, Miss(p)
    PROVE  /\ pc' \in [Procs -> Labels]
           /\ result' \in [Procs -> Results]
           /\ stat' \in [Procs -> 0..MaxTime]
           /\ seen' \in [Procs -> Files \cup {Missing}]
           /\ got' \in [Procs -> Indexes \cup {NoIndex}]
<1>1. CASE Return(p, NoIndex, 0, "miss")
  BY <1>1, ReturnType
<1>2. CASE pc' = [pc EXCEPT ![p] = "fetch"] /\ UNCHANGED <<stat, seen, got, result>>
  BY <1>2 DEF TypeOK, Labels
<1> QED
  BY <1>1, <1>2 DEF Miss

\* The files processes write are files.
LEMMA FileType ==
    ASSUME TypeOK, NEW bytes \in Bytes
    PROVE  File(bytes) \in Files
BY DEF TypeOK, File, Files

LEMMA TypeStep ==
    ASSUME IInv, [Next]_vars
    PROVE  TypeOK'
<1> USE DEF IInv
<1>1. CASE UNCHANGED vars
  BY <1>1 DEF vars, TypeOK
<1>2. ASSUME NEW p \in Procs, NEW u \in Urls, NEW offline \in BOOLEAN, Call(p, u, offline)
      PROVE  TypeOK'
  <2>1. [url |-> u, offline |-> offline, fallback |-> FALSE,
         had |-> cache[CachePath(u)] # Missing] \in Calls
    BY DEF Calls
  <2> QED
    BY <1>2, <2>1, NoResultType DEF Call, Goto, world, disk, TypeOK, Labels
<1>3. ASSUME NEW p \in Procs, Stat(p) PROVE TypeOK'
  <2>1. CASE cache[Path(p)] = Missing /\ Miss(p)
    BY <1>3, <2>1, MissType DEF Stat, world, disk, TypeOK
  <2>2. CASE cache[Path(p)] # Missing
    <3>1. Path(p) \in Urls
      BY DEF TypeOK, Calls, Path, CachePath
    <3>2. cache[Path(p)].mtime \in 0..MaxTime
      BY <2>2, <3>1 DEF TypeOK, Files
    <3> QED
      BY <1>3, <2>2, <3>2 DEF Stat, Goto, world, disk, TypeOK, Labels
  <2> QED
    BY <1>3, <2>1, <2>2 DEF Stat
<1>4. ASSUME NEW p \in Procs, ReadFile(p) PROVE TypeOK'
  <2>1. CASE cache[Path(p)] = Missing /\ Miss(p)
    BY <1>4, <2>1, MissType DEF ReadFile, world, disk, TypeOK
  <2>2. CASE cache[Path(p)] # Missing
    <3>1. Path(p) \in Urls
      BY DEF TypeOK, Calls, Path, CachePath
    <3> QED
      BY <1>4, <2>2, <3>1 DEF ReadFile, Goto, world, disk, TypeOK, Labels
  <2> QED
    BY <1>4, <2>1, <2>2 DEF ReadFile
<1>5. ASSUME NEW p \in Procs, DropCorrupt(p) PROVE TypeOK'
  BY <1>5, MissType DEF DropCorrupt, world, TypeOK
<1>6. ASSUME NEW p \in Procs, UseCached(p) PROVE TypeOK'
  <2>1. CASE Return(p, seen[p].bytes, now - seen[p].placed, "cached")
    <3>1. seen[p] # Missing
      BY <1>6 DEF UseCached, WriterInv
    <3>2. now - seen[p].placed \in Nat
      BY <3>1 DEF ClockInv, TypeOK, Files
    <3>3. seen[p].bytes \in Indexes \cup {NoIndex}
      BY <1>6 DEF UseCached
    <3> QED
      BY <1>6, <2>1, <3>2, <3>3, ReturnType DEF UseCached, world, disk, TypeOK
  <2>2. CASE Goto(p, "judge", "fetch") /\ UNCHANGED <<stat, seen, got, result>>
    BY <1>6, <2>2 DEF UseCached, Goto, world, disk, TypeOK, Labels
  <2> QED
    BY <1>6, <2>1, <2>2 DEF UseCached
<1>7. ASSUME NEW p \in Procs, Download(p) PROVE TypeOK'
  <2>1. [url |-> call[p].url, version |-> server[call[p].url]] \in Indexes
    BY DEF TypeOK, Calls, Indexes
  <2> QED
    BY <1>7, <2>1 DEF Download, Goto, world, disk, TypeOK, Labels
<1>8. ASSUME NEW p \in Procs, Unparsable(p) PROVE TypeOK'
  BY <1>8, ReturnType DEF Unparsable, world, disk, TypeOK
<1>9. ASSUME NEW p \in Procs, Unreachable(p) PROVE TypeOK'
  BY <1>9 DEF Unreachable, Goto, world, disk, TypeOK, Labels, Calls
<1>10. ASSUME NEW p \in Procs, CreateTemp(p) PROVE TypeOK'
  <2>1. File(Torn) \in Files
    BY FileType DEF Bytes
  <2> QED
    BY <1>10, <2>1 DEF CreateTemp, Goto, world, TypeOK, Labels
<1>11. ASSUME NEW p \in Procs, WriteTemp(p) PROVE TypeOK'
  <2>1. got[p] \in Indexes
    BY <1>11 DEF WriteTemp, Goto, WriterInv, Writing
  <2>2. File(got[p]) \in Files
    BY <2>1, FileType DEF Bytes
  <2> QED
    BY <1>11, <2>2 DEF WriteTemp, Goto, world, TypeOK, Labels
<1>12. ASSUME NEW p \in Procs, Rename(p) PROVE TypeOK'
  <2>1. tmp[p] \in Files
    BY <1>12 DEF Rename, WriterInv, TypeOK
  <2>2. [tmp[p] EXCEPT !.placed = now] \in Files
    BY <2>1 DEF Files, TypeOK
  <2>3. Return(p, got[p], 0, "fetched") /\ got[p] \in Indexes \cup {NoIndex}
    BY <1>12 DEF Rename, Fetched, TypeOK
  <2> QED
    BY <1>12, <2>2, <2>3, ReturnType DEF Rename, world, TypeOK
<1>13. ASSUME NEW p \in Procs, WriteFails(p) PROVE TypeOK'
  <2>1. Return(p, got[p], 0, "fetched") /\ got[p] \in Indexes \cup {NoIndex}
    BY <1>13 DEF WriteFails, Fetched, TypeOK
  <2> QED
    BY <1>13, <2>1, ReturnType DEF WriteFails, world, TypeOK
<1>14. ASSUME NEW p \in Procs, Crash(p) PROVE TypeOK'
  BY <1>14, BoundsAssumption, NoCallType DEF Crash, world, disk, TypeOK, Labels
<1>15. CASE Tick
  BY <1>15, BoundsAssumption DEF Tick, disk, TypeOK
<1>16. ASSUME NEW u \in Urls, Publish(u) PROVE TypeOK'
  BY <1>16, BoundsAssumption DEF Publish, disk, TypeOK
<1>17. ASSUME NEW u \in Urls, Damage(u) PROVE TypeOK'
  <2>1. [cache[u] EXCEPT !.bytes = Garbage] \in Files
    BY <1>17 DEF Damage, TypeOK, Files, Bytes
  <2> QED
    BY <1>17, <2>1, BoundsAssumption DEF Damage, TypeOK
<1> QED
  BY <1>1, <1>2, <1>3, <1>4, <1>5, <1>6, <1>7, <1>8, <1>9, <1>10, <1>11,
     <1>12, <1>13, <1>14, <1>15, <1>16, <1>17 DEF Next, Step

-----------------------------------------------------------------------------
(* The parts of the invariant that no property states, one lemma each.     *)

LEMMA WriterStep ==
    ASSUME IInv, [Next]_vars
    PROVE  WriterInv'
<1> USE DEF IInv, TypeOK, Calls, Path, CachePath, WriterInv, Writing
<1>1. CASE UNCHANGED vars
  BY <1>1 DEF vars
<1>2. ASSUME NEW p \in Procs, NEW u \in Urls, NEW offline \in BOOLEAN, Call(p, u, offline)
      PROVE  WriterInv'
  BY <1>2 DEF Call, Goto, world, disk
<1>3. ASSUME NEW p \in Procs, Stat(p) PROVE WriterInv'
  BY <1>3 DEF Stat, Miss, Return, Goto, world, disk
<1>4. ASSUME NEW p \in Procs, ReadFile(p) PROVE WriterInv'
  BY <1>4 DEF ReadFile, Miss, Return, Goto, world, disk
<1>5. ASSUME NEW p \in Procs, DropCorrupt(p) PROVE WriterInv'
  BY <1>5 DEF DropCorrupt, Miss, Return, Goto, world
<1>6. ASSUME NEW p \in Procs, UseCached(p) PROVE WriterInv'
  BY <1>6 DEF UseCached, Return, Goto, world, disk
<1>7. ASSUME NEW p \in Procs, Download(p) PROVE WriterInv'
  <2>1. [url |-> call[p].url, version |-> server[call[p].url]] \in Indexes
    BY DEF Indexes
  <2> QED
    BY <1>7, <2>1 DEF Download, Goto, world, disk
<1>8. ASSUME NEW p \in Procs, Unparsable(p) PROVE WriterInv'
  BY <1>8 DEF Unparsable, Return, world, disk
<1>9. ASSUME NEW p \in Procs, Unreachable(p) PROVE WriterInv'
  BY <1>9 DEF Unreachable, Goto, world, disk
<1>10. ASSUME NEW p \in Procs, CreateTemp(p) PROVE WriterInv'
  BY <1>10 DEF CreateTemp, Goto, world, File
<1>11. ASSUME NEW p \in Procs, WriteTemp(p) PROVE WriterInv'
  <2>1. got[p] \in Indexes
    BY <1>11 DEF WriteTemp, Goto
  <2>2. File(got[p]) # Missing /\ File(got[p]).bytes = got[p]
    BY <2>1, FileType, SentinelAssumption DEF Bytes, File
  <2> QED
    BY <1>11, <2>2 DEF WriteTemp, Goto, world
<1>12. ASSUME NEW p \in Procs, Rename(p) PROVE WriterInv'
  BY <1>12 DEF Rename, Fetched, Return, world
<1>13. ASSUME NEW p \in Procs, WriteFails(p) PROVE WriterInv'
  BY <1>13 DEF WriteFails, Fetched, Return, world
<1>14. ASSUME NEW p \in Procs, Crash(p) PROVE WriterInv'
  BY <1>14 DEF Crash, world, disk
<1>15. CASE Tick
  BY <1>15 DEF Tick, disk
<1>16. ASSUME NEW u \in Urls, Publish(u) PROVE WriterInv'
  BY <1>16 DEF Publish, disk
<1>17. ASSUME NEW u \in Urls, Damage(u) PROVE WriterInv'
  BY <1>17 DEF Damage
<1> QED
  BY <1>1, <1>2, <1>3, <1>4, <1>5, <1>6, <1>7, <1>8, <1>9, <1>10, <1>11,
     <1>12, <1>13, <1>14, <1>15, <1>16, <1>17 DEF Next, Step

LEMMA ContentStep ==
    ASSUME IInv, [Next]_vars
    PROVE  ContentInv'
<1> USE DEF IInv, TypeOK, Calls, Path, CachePath, ContentInv, GoodFor, WriterInv, Writing, Files
<1>1. CASE UNCHANGED vars
  BY <1>1 DEF vars
<1>2. ASSUME NEW p \in Procs, NEW u \in Urls, NEW offline \in BOOLEAN, Call(p, u, offline)
      PROVE  ContentInv'
  BY <1>2 DEF Call, Goto, world, disk
<1>3. ASSUME NEW p \in Procs, Stat(p) PROVE ContentInv'
  BY <1>3 DEF Stat, Miss, Return, Goto, world, disk
<1>4. ASSUME NEW p \in Procs, ReadFile(p) PROVE ContentInv'
  BY <1>4 DEF ReadFile, Miss, Return, Goto, world, disk
<1>5. ASSUME NEW p \in Procs, DropCorrupt(p) PROVE ContentInv'
  BY <1>5 DEF DropCorrupt, Miss, Return, Goto, world
<1>6. ASSUME NEW p \in Procs, UseCached(p) PROVE ContentInv'
  BY <1>6 DEF UseCached, Return, Goto, world, disk
<1>7. ASSUME NEW p \in Procs, Download(p) PROVE ContentInv'
  BY <1>7 DEF Download, Goto, world, disk
<1>8. ASSUME NEW p \in Procs, Unparsable(p) PROVE ContentInv'
  BY <1>8 DEF Unparsable, Return, world, disk
<1>9. ASSUME NEW p \in Procs, Unreachable(p) PROVE ContentInv'
  BY <1>9 DEF Unreachable, Goto, world, disk
<1>10. ASSUME NEW p \in Procs, CreateTemp(p) PROVE ContentInv'
  BY <1>10 DEF CreateTemp, Goto, world, File
<1>11. ASSUME NEW p \in Procs, WriteTemp(p) PROVE ContentInv'
  BY <1>11 DEF WriteTemp, Goto, world, File
<1>12. ASSUME NEW p \in Procs, Rename(p) PROVE ContentInv'
  <2>1. tmp[p] \in Files /\ tmp[p].bytes = got[p] /\ got[p] \in Indexes /\ got[p].url = Path(p)
    BY <1>12 DEF Rename
  <2> DEFINE new == [tmp[p] EXCEPT !.placed = now]
  <2>2. new.bytes = got[p] /\ new.bytes # Torn
    BY <2>1, SentinelAssumption
  <2>3. cache' = [cache EXCEPT ![Path(p)] = new]
    BY <1>12 DEF Rename
  <2> HIDE DEF new
  <2> QED
    BY <1>12, <2>1, <2>2, <2>3 DEF Rename, Fetched, Return, world
<1>13. ASSUME NEW p \in Procs, WriteFails(p) PROVE ContentInv'
  BY <1>13 DEF WriteFails, Fetched, Return, world
<1>14. ASSUME NEW p \in Procs, Crash(p) PROVE ContentInv'
  BY <1>14 DEF Crash, world, disk
<1>15. CASE Tick
  BY <1>15 DEF Tick, disk
<1>16. ASSUME NEW u \in Urls, Publish(u) PROVE ContentInv'
  BY <1>16 DEF Publish, disk
<1>17. ASSUME NEW u \in Urls, Damage(u) PROVE ContentInv'
  <2>1. cache[u] \in Files
    BY <1>17 DEF Damage
  <2> DEFINE new == [cache[u] EXCEPT !.bytes = Garbage]
  <2>2. new.bytes # Torn /\ new.bytes \notin Indexes
    BY <2>1, SentinelAssumption
  <2>3. cache' = [cache EXCEPT ![u] = new]
    BY <1>17 DEF Damage
  <2> HIDE DEF new
  <2> QED
    BY <1>17, <2>2, <2>3 DEF Damage
<1> QED
  BY <1>1, <1>2, <1>3, <1>4, <1>5, <1>6, <1>7, <1>8, <1>9, <1>10, <1>11,
     <1>12, <1>13, <1>14, <1>15, <1>16, <1>17 DEF Next, Step

LEMMA ClockStep ==
    ASSUME IInv, [Next]_vars
    PROVE  ClockInv'
<1> USE DEF IInv, TypeOK, Calls, Path, CachePath, ClockInv, WriterInv, Files
<1>1. CASE UNCHANGED vars
  BY <1>1 DEF vars
<1>2. ASSUME NEW p \in Procs, NEW u \in Urls, NEW offline \in BOOLEAN, Call(p, u, offline)
      PROVE  ClockInv'
  BY <1>2 DEF Call, Goto, world, disk
<1>3. ASSUME NEW p \in Procs, Stat(p) PROVE ClockInv'
  BY <1>3 DEF Stat, Miss, Return, Goto, world, disk
<1>4. ASSUME NEW p \in Procs, ReadFile(p) PROVE ClockInv'
  BY <1>4 DEF ReadFile, Miss, Return, Goto, world, disk
<1>5. ASSUME NEW p \in Procs, DropCorrupt(p) PROVE ClockInv'
  <2>1. CASE Return(p, NoIndex, 0, "miss")
    BY <1>5, <2>1, BoundsAssumption DEF DropCorrupt, Return, world
  <2>2. CASE pc' = [pc EXCEPT ![p] = "fetch"] /\ UNCHANGED <<stat, seen, got, result>>
    BY <1>5, <2>2 DEF DropCorrupt, world
  <2> QED
    BY <1>5, <2>1, <2>2 DEF DropCorrupt, Miss
<1>6. ASSUME NEW p \in Procs, UseCached(p) PROVE ClockInv'
  BY <1>6 DEF UseCached, Return, Goto, world, disk
<1>7. ASSUME NEW p \in Procs, Download(p) PROVE ClockInv'
  BY <1>7 DEF Download, Goto, world, disk
<1>8. ASSUME NEW p \in Procs, Unparsable(p) PROVE ClockInv'
  BY <1>8 DEF Unparsable, Return, world, disk
<1>9. ASSUME NEW p \in Procs, Unreachable(p) PROVE ClockInv'
  BY <1>9 DEF Unreachable, Goto, world, disk
<1>10. ASSUME NEW p \in Procs, CreateTemp(p) PROVE ClockInv'
  BY <1>10 DEF CreateTemp, Goto, world, File
<1>11. ASSUME NEW p \in Procs, WriteTemp(p) PROVE ClockInv'
  BY <1>11 DEF WriteTemp, Goto, world, File
<1>12. ASSUME NEW p \in Procs, Rename(p) PROVE ClockInv'
  BY <1>12 DEF Rename, Fetched, Return, world
<1>13. ASSUME NEW p \in Procs, WriteFails(p) PROVE ClockInv'
  BY <1>13 DEF WriteFails, Fetched, Return, world
<1>14. ASSUME NEW p \in Procs, Crash(p) PROVE ClockInv'
  BY <1>14 DEF Crash, world, disk
<1>15. CASE Tick
  BY <1>15 DEF Tick, disk
<1>16. ASSUME NEW u \in Urls, Publish(u) PROVE ClockInv'
  BY <1>16 DEF Publish, disk
<1>17. ASSUME NEW u \in Urls, Damage(u) PROVE ClockInv'
  BY <1>17 DEF Damage
<1> QED
  BY <1>1, <1>2, <1>3, <1>4, <1>5, <1>6, <1>7, <1>8, <1>9, <1>10, <1>11,
     <1>12, <1>13, <1>14, <1>15, <1>16, <1>17 DEF Next, Step

LEMMA KeptStep ==
    ASSUME IInv, [Next]_vars
    PROVE  KeptInv'
<1> USE DEF IInv, TypeOK, Calls, Path, CachePath, KeptInv, WriterInv, Writing, Files
<1>1. CASE UNCHANGED vars
  BY <1>1 DEF vars
<1>2. ASSUME NEW p \in Procs, NEW u \in Urls, NEW offline \in BOOLEAN, Call(p, u, offline)
      PROVE  KeptInv'
  BY <1>2 DEF Call, Goto, world, disk
<1>3. ASSUME NEW p \in Procs, Stat(p) PROVE KeptInv'
  BY <1>3 DEF Stat, Miss, Return, Goto, world, disk
<1>4. ASSUME NEW p \in Procs, ReadFile(p) PROVE KeptInv'
  BY <1>4 DEF ReadFile, Miss, Return, Goto, world, disk
<1>5. ASSUME NEW p \in Procs, DropCorrupt(p) PROVE KeptInv'
  BY <1>5 DEF DropCorrupt, Miss, Return, Goto, world
<1>6. ASSUME NEW p \in Procs, UseCached(p) PROVE KeptInv'
  BY <1>6 DEF UseCached, Return, Goto, world, disk
<1>7. ASSUME NEW p \in Procs, Download(p) PROVE KeptInv'
  BY <1>7 DEF Download, Goto, world, disk
<1>8. ASSUME NEW p \in Procs, Unparsable(p) PROVE KeptInv'
  BY <1>8 DEF Unparsable, Return, world, disk
<1>9. ASSUME NEW p \in Procs, Unreachable(p) PROVE KeptInv'
  BY <1>9 DEF Unreachable, Goto, world, disk
<1>10. ASSUME NEW p \in Procs, CreateTemp(p) PROVE KeptInv'
  BY <1>10 DEF CreateTemp, Goto, world, File
<1>11. ASSUME NEW p \in Procs, WriteTemp(p) PROVE KeptInv'
  BY <1>11 DEF WriteTemp, Goto, world, File
<1>12. ASSUME NEW p \in Procs, Rename(p) PROVE KeptInv'
  <2>1. tmp[p] \in Files /\ tmp[p].bytes = got[p] /\ got[p] \in Indexes /\ got[p].url = Path(p)
    BY <1>12 DEF Rename
  <2> DEFINE new == [tmp[p] EXCEPT !.placed = now]
  <2>2. new.bytes = got[p] /\ new # Missing
    <3>1. new \in Files
      BY <2>1 DEF Files
    <3> QED
      BY <2>1, <3>1, SentinelAssumption
  <2>3. cache' = [cache EXCEPT ![Path(p)] = new]
    BY <1>12 DEF Rename
  <2> HIDE DEF new
  <2> QED
    BY <1>12, <2>1, <2>2, <2>3 DEF Rename, Fetched, Return, world
<1>13. ASSUME NEW p \in Procs, WriteFails(p) PROVE KeptInv'
  BY <1>13 DEF WriteFails, Fetched, Return, world
<1>14. ASSUME NEW p \in Procs, Crash(p) PROVE KeptInv'
  <2>1. NoCall.had = FALSE
    BY DEF NoCall
  <2> QED
    BY <1>14, <2>1 DEF Crash, world, disk
<1>15. CASE Tick
  BY <1>15 DEF Tick, disk
<1>16. ASSUME NEW u \in Urls, Publish(u) PROVE KeptInv'
  BY <1>16 DEF Publish, disk
<1>17. ASSUME NEW u \in Urls, Damage(u) PROVE KeptInv'
  BY <1>17 DEF Damage
<1> QED
  BY <1>1, <1>2, <1>3, <1>4, <1>5, <1>6, <1>7, <1>8, <1>9, <1>10, <1>11,
     <1>12, <1>13, <1>14, <1>15, <1>16, <1>17 DEF Next, Step

-----------------------------------------------------------------------------
(* What a call can return, and what that says of the three properties      *)
(* about answers.                                                          *)

Answer(p, index, age, why) ==
    [call |-> call[p], index |-> index, age |-> age, why |-> why]

\* Return stores the answer, which holds what it was made of.
LEMMA ReturnStores ==
    ASSUME TypeOK, NEW p \in Procs, NEW q \in Procs, NEW index, NEW age, NEW why,
           Return(p, index, age, why)
    PROVE  result'[q] = IF q = p THEN Answer(p, index, age, why) ELSE result[q]
BY DEF Return, Answer, TypeOK

LEMMA AnswerFields ==
    ASSUME NEW p, NEW index, NEW age, NEW why
    PROVE  /\ Answer(p, index, age, why).call = call[p]
           /\ Answer(p, index, age, why).index = index
           /\ Answer(p, index, age, why).age = age
           /\ Answer(p, index, age, why).why = why
BY DEF Answer

\* A step leaves the result of q alone, clears it, or is q's return: with
\* nothing; with the file it read, when that parses and is fresh or nothing
\* better is to be had; or with the index it downloaded.
ResultNext(q) ==
    \/ result'[q] = result[q]
    \/ result'[q] = NoResult
    \/ result'[q] = Answer(q, NoIndex, 0, "unparsable")
    \/ /\ result'[q] = Answer(q, NoIndex, 0, "miss")
       /\ \/ pc[q] \in {"stat", "read"} /\ cache[Path(q)] = Missing
          \/ pc[q] = "judge" /\ seen[q].bytes \notin Indexes
    \/ /\ result'[q] = Answer(q, seen[q].bytes, now - seen[q].placed, "cached")
       /\ pc[q] = "judge" /\ seen[q].bytes \in Indexes
       /\ call[q].fallback \/ call[q].offline \/ IsFresh(q)
    \/ result'[q] = Answer(q, got[q], 0, "fetched") /\ Writing(q)

LEMMA ResultStep ==
    ASSUME IInv, [Next]_vars, NEW q \in Procs
    PROVE  ResultNext(q)
<1> USE DEF IInv, TypeOK, ResultNext
<1>1. CASE UNCHANGED vars
  BY <1>1 DEF vars
<1>2. CASE \E p \in Procs, u \in Urls, offline \in BOOLEAN : Call(p, u, offline)
  BY <1>2 DEF Call
<1>3. ASSUME NEW p \in Procs,
             \/ Download(p) \/ Unreachable(p) \/ CreateTemp(p) \/ WriteTemp(p) \/ Crash(p)
      PROVE  ResultNext(q)
  BY <1>3 DEF Download, Unreachable, CreateTemp, WriteTemp, Crash
<1>4. CASE Tick \/ \E u \in Urls : Publish(u) \/ Damage(u)
  BY <1>4 DEF Tick, Publish, Damage
<1>5. ASSUME NEW p \in Procs, Stat(p) \/ ReadFile(p)
      PROVE  ResultNext(q)
  BY <1>5, ReturnStores DEF Stat, ReadFile, Miss
<1>6. ASSUME NEW p \in Procs, DropCorrupt(p)
      PROVE  ResultNext(q)
  BY <1>6, ReturnStores DEF DropCorrupt, Miss
<1>7. ASSUME NEW p \in Procs, UseCached(p)
      PROVE  ResultNext(q)
  BY <1>7, ReturnStores DEF UseCached
<1>8. ASSUME NEW p \in Procs, Unparsable(p)
      PROVE  ResultNext(q)
  BY <1>8, ReturnStores DEF Unparsable
<1>9. ASSUME NEW p \in Procs, Rename(p) \/ WriteFails(p)
      PROVE  ResultNext(q)
  BY <1>9, ReturnStores DEF Rename, WriteFails, Fetched, Writing
<1> HIDE DEF IInv, TypeOK, ResultNext
<1> QED
  BY <1>1, <1>2, <1>3, <1>4, <1>5, <1>6, <1>7, <1>8, <1>9 DEF Next, Step

LEMMA AnswerStep ==
    ASSUME IInv, [Next]_vars
    PROVE  AnswerIsFromItsUrl'
<1> SUFFICES ASSUME NEW q \in Procs
             PROVE  result'[q].index # NoIndex => result'[q].index.url = result'[q].call.url
  BY DEF AnswerIsFromItsUrl
<1>1. NoResult.index = NoIndex
  BY DEF NoResult
<1>2. pc[q] = "judge" /\ seen[q].bytes \in Indexes => seen[q].bytes.url = call[q].url
  BY DEF IInv, WriterInv, ContentInv, GoodFor
<1>3. Writing(q) => got[q].url = call[q].url
  BY DEF IInv, WriterInv
<1>4. result[q].index # NoIndex => result[q].index.url = result[q].call.url
  BY DEF IInv, AnswerIsFromItsUrl
<1>5. ResultNext(q)
  BY ResultStep
<1> QED
  BY <1>1, <1>2, <1>3, <1>4, <1>5, AnswerFields DEF ResultNext

LEMMA StaleStep ==
    ASSUME IInv, [Next]_vars
    PROVE  StaleOnlyAsFallback'
<1> SUFFICES ASSUME NEW q \in Procs
             PROVE  result'[q].age > TTL =>
                        result'[q].call.offline \/ result'[q].call.fallback
  BY DEF StaleOnlyAsFallback
<1>1. NoResult.age = 0
  BY DEF NoResult
\* A fresh file: Stat came before the naming of the file read.
<1>2. pc[q] = "judge" /\ IsFresh(q) => ~(now - seen[q].placed > TTL)
  <2> SUFFICES ASSUME pc[q] = "judge", IsFresh(q)
               PROVE  ~(now - seen[q].placed > TTL)
    OBVIOUS
  <2>1. seen[q] \in Files
    BY DEF IInv, TypeOK, WriterInv
  <2>2. now \in Nat /\ stat[q] \in Nat /\ seen[q].placed \in Nat /\ TTL \in Nat
    BY <2>1, BoundsAssumption DEF IInv, TypeOK, Files
  <2>3. now <= stat[q] + TTL /\ stat[q] <= seen[q].placed
    BY DEF IInv, ClockInv, IsFresh
  <2> QED
    BY <2>2, <2>3
<1>3. ~(0 > TTL)
  BY BoundsAssumption
<1>4. result[q].age > TTL => result[q].call.offline \/ result[q].call.fallback
  BY DEF IInv, StaleOnlyAsFallback
<1>5. ResultNext(q)
  BY ResultStep
<1> QED
  BY <1>1, <1>2, <1>3, <1>4, <1>5, AnswerFields DEF ResultNext

LEMMA ServesStep ==
    ASSUME IInv, [Next]_vars
    PROVE  CachedIndexServes'
<1> SUFFICES ASSUME faults' = 0, NEW q \in Procs, result'[q].call.had
             PROVE  result'[q].why # "miss"
  BY DEF CachedIndexServes
<1>1. faults = 0
  <2>1. faults' = faults \/ faults' = faults + 1
    BY DEF Next, Step, vars, world, Call, Stat, ReadFile, DropCorrupt, UseCached,
           Download, Unparsable, Unreachable, CreateTemp, WriteTemp, Rename,
           WriteFails, Crash, Tick, Publish, Damage
  <2> QED
    BY <2>1, BoundsAssumption DEF IInv, TypeOK
<1>2. NoResult.call.had = FALSE /\ NoResult.why = "none"
  BY DEF NoResult, NoCall
\* The call looked, had a file to find, and the file parses.
<1>3. /\ call[q].had /\ pc[q] \in {"stat", "read"} => cache[Path(q)] # Missing
      /\ pc[q] = "judge" => seen[q].bytes \in Indexes
  BY <1>1 DEF IInv, KeptInv
<1>4. result[q].call.had => result[q].why # "miss"
  BY <1>1 DEF IInv, CachedIndexServes
<1>5. ResultNext(q)
  BY ResultStep
<1> QED
  BY <1>1, <1>2, <1>3, <1>4, <1>5, AnswerFields DEF ResultNext

-----------------------------------------------------------------------------
(* The theorems.                                                           *)

(* The invariant above is one.                                             *)
THEOREM Inductive == Spec => []IInv
<1>1. IInv /\ [Next]_vars => IInv'
  BY TypeStep, WriterStep, ContentStep, ClockStep, KeptStep, AnswerStep,
     StaleStep, ServesStep DEF IInv
<1> QED
  BY InitIInv, <1>1, PTL DEF Spec

(* Every variable has its type at every step of FetchIndex: in particular  *)
(* an age is never negative, since no file is named in the future.         *)
THEOREM TypeCorrect == Spec => []TypeOK
<1>1. IInv => TypeOK
  BY DEF IInv
<1> QED
  BY <1>1, Inductive, PTL

(* writeAtomic: however many processes write, fail, or die and leave their *)
(* temporary files, nobody finds a half-written file under a cache name.   *)
THEOREM NeverTorn == Spec => []CacheNeverTorn
<1>1. IInv => CacheNeverTorn
  BY DEF IInv, ContentInv, GoodFor, CacheNeverTorn
<1> QED
  BY <1>1, Inductive, PTL

(* FetchIndex answers with an index of the URL it was called with.         *)
THEOREM FromItsUrl == Spec => []AnswerIsFromItsUrl
<1>1. IInv => AnswerIsFromItsUrl
  BY DEF IInv
<1> QED
  BY <1>1, Inductive, PTL

(* Whatever the TTL, and though Stat and ReadFile may see two different    *)
(* files, only an offline call or one whose download failed answers with   *)
(* a file older than it.                                                   *)
THEOREM StaleAsFallback == Spec => []StaleOnlyAsFallback
<1>1. IInv => StaleOnlyAsFallback
  BY DEF IInv
<1> QED
  BY <1>1, Inductive, PTL

(* With an undamaged disk a call that began with its index cached never    *)
(* reports a miss, however many processes refresh and crash meanwhile.     *)
THEOREM CachedServes == Spec => []CachedIndexServes
<1>1. IInv => CachedIndexServes
  BY DEF IInv
<1> QED
  BY <1>1, Inductive, PTL
=============================================================================
