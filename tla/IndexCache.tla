----------------------------- MODULE IndexCache -----------------------------
(***************************************************************************)
(* Client.FetchIndex of registry/registry.go and the on-disk cache of      *)
(* registry/registry_cache.go: docksmith processes that share              *)
(* ~/.docksmith/cache, each running one call after another.  Nothing locks *)
(* the cache: a process looks at it with Stat and ReadFile, deletes it     *)
(* with Remove, and replaces it by renaming a temporary file.              *)
(*                                                                         *)
(* A call is only ever made with an https URL, so validateScheme passes.   *)
(***************************************************************************)
EXTENDS Naturals

CONSTANTS Procs, Urls,
          TTL,        \* registryCacheTTL, in ticks
          MaxTime, MaxVersion, MaxFaults,   \* bounds of the checked instances
          Missing, NoIndex, Garbage, Torn

ASSUME BoundsAssumption ==
    Urls # {} /\ TTL \in Nat /\ MaxTime \in Nat /\ MaxVersion \in Nat \ {0} /\ MaxFaults \in Nat

Indexes == [url : Urls, version : 1..MaxVersion]
Bytes == Indexes \cup {Garbage, Torn}
\* `placed`, which only the properties look at, is when the file got its name.
Files == [bytes : Bytes, mtime : 0..MaxTime, placed : 0..MaxTime]

ASSUME SentinelAssumption ==
    /\ Missing \notin Files
    /\ {NoIndex, Garbage, Torn} \cap Indexes = {} /\ Garbage # Torn

VARIABLES
    now,     \* the clock
    server,  \* the version of its index each URL serves
    cache,   \* the cache directory: the file under each cache path
    faults,  \* how many times a cache file went bad on disk
    pc, call, stat, seen, got, tmp, result
        \* of each process: where it is, its arguments, the mtime Stat
        \* found, the file ReadFile found, the index downloaded, the
        \* temporary file it has made, what the last call returned

vars == <<now, server, cache, faults, pc, call, stat, seen, got, tmp, result>>
disk == <<cache, tmp>>
world == <<now, server, faults>>

\* `had` remembers whether the index was cached when the call began.
Calls == [url : Urls, offline : BOOLEAN, fallback : BOOLEAN, had : BOOLEAN]
NoCall == [url |-> CHOOSE u \in Urls : TRUE, offline |-> FALSE, fallback |-> FALSE, had |-> FALSE]

\* `age` counts from when the file that was read got its name.
Results == [call : Calls, index : Indexes \cup {NoIndex}, age : Nat,
            why : {"none", "cached", "fetched", "miss", "unparsable"}]

NoResult == [call |-> NoCall, index |-> NoIndex, age |-> 0, why |-> "none"]

Labels == {"idle", "stat", "read", "judge", "fetch", "create", "write", "rename", "dead"}

TypeOK ==
    /\ now \in 0..MaxTime
    /\ server \in [Urls -> 1..MaxVersion]
    /\ cache \in [Urls -> Files \cup {Missing}]
    /\ faults \in 0..MaxFaults
    /\ pc \in [Procs -> Labels]
    /\ call \in [Procs -> Calls]
    /\ stat \in [Procs -> 0..MaxTime]
    /\ seen \in [Procs -> Files \cup {Missing}]
    /\ got \in [Procs -> Indexes \cup {NoIndex}]
    /\ tmp \in [Procs -> Files \cup {Missing}]
    /\ result \in [Procs -> Results]

Init ==
    /\ now = 0
    /\ server = [u \in Urls |-> 1]
    /\ cache = [u \in Urls |-> Missing]
    /\ faults = 0
    /\ pc = [p \in Procs |-> "idle"]
    /\ call = [p \in Procs |-> NoCall]
    /\ stat = [p \in Procs |-> 0]
    /\ seen = [p \in Procs |-> Missing]
    /\ got = [p \in Procs |-> NoIndex]
    /\ tmp = [p \in Procs |-> Missing]
    /\ result = [p \in Procs |-> NoResult]

\* Mutant of CachePath: one cache file for every registry.
MutCachePath(u) == CHOOSE v \in Urls : TRUE

\* registryCachePath names the file after a hash of the URL.
CachePath(u) == u

File(bytes) == [bytes |-> bytes, mtime |-> now, placed |-> now]
Path(p) == CachePath(call[p].url)
Goto(p, from, to) == pc[p] = from /\ pc' = [pc EXCEPT ![p] = to]

\* The call ends and its local variables with it.
Return(p, index, age, why) ==
    /\ pc' = [pc EXCEPT ![p] = "idle"]
    /\ result' = [result EXCEPT ![p] =
                      [call |-> call[p], index |-> index, age |-> age, why |-> why]]
    /\ stat' = [stat EXCEPT ![p] = 0]
    /\ seen' = [seen EXCEPT ![p] = Missing]
    /\ got' = [got EXCEPT ![p] = NoIndex]

-----------------------------------------------------------------------------
Call(p, u, offline) ==
    /\ Goto(p, "idle", "stat")
    /\ call' = [call EXCEPT ![p] =
                    [url |-> u, offline |-> offline, fallback |-> FALSE,
                     had |-> cache[CachePath(u)] # Missing]]
    /\ result' = [result EXCEPT ![p] = NoResult]
    /\ UNCHANGED <<world, disk, stat, seen, got>>

(* loadCachedIndex: Stat, ReadFile, then parse and compare the age.        *)

\* What FetchIndex and fetchAndCache do when there is no usable cache file.
Miss(p) ==
    \/ /\ call[p].fallback \/ call[p].offline
       /\ Return(p, NoIndex, 0, "miss")
    \/ /\ ~(call[p].fallback \/ call[p].offline)
       /\ pc' = [pc EXCEPT ![p] = "fetch"]
       /\ UNCHANGED <<stat, seen, got, result>>

Stat(p) ==
    /\ pc[p] = "stat"
    /\ \/ cache[Path(p)] = Missing /\ Miss(p)
       \/ /\ cache[Path(p)] # Missing
          /\ Goto(p, "stat", "read")
          /\ stat' = [stat EXCEPT ![p] = cache[Path(p)].mtime]
          /\ UNCHANGED <<seen, got, result>>
    /\ UNCHANGED <<world, disk, call>>

ReadFile(p) ==
    /\ pc[p] = "read"
    /\ \/ cache[Path(p)] = Missing /\ Miss(p)
       \/ /\ cache[Path(p)] # Missing
          /\ Goto(p, "read", "judge")
          /\ seen' = [seen EXCEPT ![p] = cache[Path(p)]]
          /\ UNCHANGED <<stat, got, result>>
    /\ UNCHANGED <<world, disk, call>>

\* Mutant of IsFresh: Stat is done after ReadFile instead of before it.
MutIsFresh(p) == cache[Path(p)] # Missing /\ now <= cache[Path(p)].mtime + TTL

IsFresh(p) == now <= stat[p] + TTL

\* Bytes that do not parse: the file of that name is deleted.
DropCorrupt(p) ==
    /\ pc[p] = "judge"
    /\ seen[p].bytes \notin Indexes
    /\ cache' = [cache EXCEPT ![Path(p)] = Missing]
    /\ Miss(p)
    /\ UNCHANGED <<world, tmp, call>>

\* Mutant of UseCached: the bytes are used whether they parse or not.
MutUseCached(p) ==
    /\ pc[p] = "judge"
    /\ Return(p, seen[p].bytes, now - seen[p].placed, "cached")
    /\ UNCHANGED <<world, disk, call>>

\* An index that parses is used when fresh, offline or as the fallback.
UseCached(p) ==
    /\ pc[p] = "judge"
    /\ seen[p].bytes \in Indexes
    /\ \/ /\ call[p].fallback \/ call[p].offline \/ IsFresh(p)
          /\ Return(p, seen[p].bytes, now - seen[p].placed, "cached")
       \/ /\ ~(call[p].fallback \/ call[p].offline \/ IsFresh(p))
          /\ Goto(p, "judge", "fetch")
          /\ UNCHANGED <<stat, seen, got, result>>
    /\ UNCHANGED <<world, disk, call>>

-----------------------------------------------------------------------------
(* fetchAndCache: one HTTP request, then writeAtomic.                      *)

Download(p) ==
    /\ Goto(p, "fetch", "create")
    /\ got' = [got EXCEPT ![p] = [url |-> call[p].url, version |-> server[call[p].url]]]
    /\ UNCHANGED <<world, disk, call, stat, seen, result>>

\* Status 200 with a body that is not an index: an error, cache or no cache.
Unparsable(p) ==
    /\ pc[p] = "fetch"
    /\ Return(p, NoIndex, 0, "unparsable")
    /\ UNCHANGED <<world, disk, call>>

\* Mutant of Unreachable: the error is returned without a look at the cache.
MutUnreachable(p) ==
    /\ pc[p] = "fetch"
    /\ Return(p, NoIndex, 0, "miss")
    /\ UNCHANGED <<world, disk, call>>

\* No answer, a timeout, a status other than 200: back to loadCachedIndex.
Unreachable(p) ==
    /\ Goto(p, "fetch", "stat")
    /\ call' = [call EXCEPT ![p].fallback = TRUE]
    /\ UNCHANGED <<world, disk, stat, seen, got, result>>

Fetched(p) == Return(p, got[p], 0, "fetched")

CreateTemp(p) ==
    /\ Goto(p, "create", "write")
    /\ tmp' = [tmp EXCEPT ![p] = File(Torn)]
    /\ UNCHANGED <<world, cache, call, stat, seen, got, result>>

WriteTemp(p) ==
    /\ Goto(p, "write", "rename")
    /\ tmp' = [tmp EXCEPT ![p] = File(got[p])]
    /\ UNCHANGED <<world, cache, call, stat, seen, got, result>>

Rename(p) ==
    /\ pc[p] = "rename"
    /\ cache' = [cache EXCEPT ![Path(p)] = [tmp[p] EXCEPT !.placed = now]]
    /\ tmp' = [tmp EXCEPT ![p] = Missing]
    /\ Fetched(p)
    /\ UNCHANGED <<world, call>>

\* Mutant of WriteFails: after a failed Write the file is renamed all the same.
MutWriteFails(p) ==
    /\ pc[p] \in {"create", "write", "rename"}
    /\ cache' = IF pc[p] = "write" THEN [cache EXCEPT ![Path(p)] = tmp[p]] ELSE cache
    /\ tmp' = [tmp EXCEPT ![p] = Missing]
    /\ Fetched(p)
    /\ UNCHANGED <<world, call>>

\* Any step of writeAtomic may fail (disk full, read-only home): the
\* temporary file is removed and the downloaded index returned all the same.
WriteFails(p) ==
    /\ pc[p] \in {"create", "write", "rename"}
    /\ tmp' = [tmp EXCEPT ![p] = Missing]
    /\ Fetched(p)
    /\ UNCHANGED <<world, cache, call>>

-----------------------------------------------------------------------------
(* The world around the processes.                                         *)

\* The process is killed: its variables are gone, its temporary file stays,
\* as far as it was written, under a name nobody else will ever use.
Crash(p) ==
    /\ pc[p] \notin {"idle", "dead"}
    /\ pc' = [pc EXCEPT ![p] = "dead"]
    /\ stat' = [stat EXCEPT ![p] = 0]
    /\ seen' = [seen EXCEPT ![p] = Missing]
    /\ got' = [got EXCEPT ![p] = NoIndex]
    /\ call' = [call EXCEPT ![p] = NoCall]
    /\ UNCHANGED <<world, disk, result>>

Tick == now < MaxTime /\ now' = now + 1
        /\ UNCHANGED <<server, disk, faults, pc, call, stat, seen, got, result>>

Publish(u) ==
    /\ server[u] < MaxVersion
    /\ server' = [server EXCEPT ![u] = @ + 1]
    /\ UNCHANGED <<now, disk, faults, pc, call, stat, seen, got, result>>

\* The file is damaged on disk: an edit by hand, or a power loss after a
\* rename whose data was never synced.
Damage(u) ==
    /\ cache[u] # Missing /\ faults < MaxFaults
    /\ cache' = [cache EXCEPT ![u].bytes = Garbage]
    /\ faults' = faults + 1
    /\ UNCHANGED <<now, server, tmp, pc, call, stat, seen, got, result>>

Step(p) ==
    \/ Stat(p) \/ ReadFile(p) \/ DropCorrupt(p) \/ UseCached(p)
    \/ Download(p) \/ Unparsable(p) \/ Unreachable(p)
    \/ CreateTemp(p) \/ WriteTemp(p) \/ Rename(p) \/ WriteFails(p)

Next ==
    \/ \E p \in Procs : Step(p) \/ Crash(p)
    \/ \E p \in Procs, u \in Urls, offline \in BOOLEAN : Call(p, u, offline)
    \/ Tick
    \/ \E u \in Urls : Publish(u) \/ Damage(u)

Spec == Init /\ [][Next]_vars

-----------------------------------------------------------------------------
(* Properties.                                                             *)

(* Whatever processes die while they write, whatever step of writeAtomic   *)
(* fails and however they interleave, the file under a cache name is never *)
(* a half-written one, and no process ever reads one.  (A half-written     *)
(* temporary file does outlive a process that is killed: nothing in the    *)
(* code reads it, and nothing removes it.)                                 *)
CacheNeverTorn ==
    /\ \A u \in Urls : cache[u] # Missing => cache[u].bytes # Torn
    /\ \A p \in Procs : seen[p] # Missing => seen[p].bytes # Torn

(* An index FetchIndex returns was served by the URL it was asked for,     *)
(* also when other processes cache the index of another registry.          *)
AnswerIsFromItsUrl ==
    \A p \in Procs : result[p].index # NoIndex => result[p].index.url = result[p].call.url

(* An online call answers with an index put in the cache longer than the   *)
(* TTL ago only after its download failed, although the file may be        *)
(* replaced between the look at its time and the look at its contents.     *)
StaleOnlyAsFallback ==
    \A p \in Procs : result[p].age > TTL =>
        result[p].call.offline \/ result[p].call.fallback

(* Once an index is cached, and as long as the disk keeps it, no later     *)
(* call misses it: not offline, not while the registry is unreachable,     *)
(* and not while other processes refresh or crash.  (A registry that       *)
(* answers, but with something that is no index, is an error all the same: *)
(* fetchAndCache does not go back to the cache then.)                      *)
CachedIndexServes ==
    faults = 0 =>
        \A p \in Procs : result[p].call.had => result[p].why # "miss"

-----------------------------------------------------------------------------
(* registry_cache.go: "A corrupt cache file is deleted and treated as a    *)
(* miss".  Between ReadFile and Remove another process may have put a good *)
(* file in its place, and that one is deleted.                             *)
OnlyCorruptDeleted ==
    [][\A u \in Urls : cache[u] # Missing /\ cache'[u] = Missing
                         => cache[u].bytes \notin Indexes]_vars
=============================================================================
