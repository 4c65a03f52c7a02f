-------------------------- MODULE DetectorRegistry --------------------------
(***************************************************************************)
(* The global detector registry of detect/detect.go: the slice `detectors` *)
(* behind the sync.RWMutex `detectorsMu`, and the goroutines that call     *)
(* RegisterDetector, RegisterDetectorBefore and DetectWithOptions on it.   *)
(*                                                                         *)
(* The library calls back into user code: a DetectorFunc runs in the       *)
(* middle of DetectWithOptions and may itself register detectors.          *)
(***************************************************************************)
EXTENDS RegistryOps

CONSTANTS Procs,      \* goroutines
          Builtin,    \* the registry once package init has run
          Requests,   \* registrations clients may make: [entry, before]
          Reentrant,  \* entries whose DetectorFunc may register detectors
          Dirs,       \* project directories given to DetectWithOptions
          Nobody, NoDir, NoRequest

\* What DetectWithOptions can find in a directory: a user config, a
\* Dockerfile, the detectors that recognise it, an index.html.
DirType == [config : {"none", "bad", "ok"}, dockerfile : BOOLEAN,
            hits : SUBSET Entries, servable : BOOLEAN]

ASSUME BuiltinAssumption == Builtin \in Seq(Entries)
\* Every call registers an entry of its own.
ASSUME RequestsAssumption ==
    /\ \A r \in Requests : r.entry \in Entries /\ r.entry \notin ToSet(Builtin)
    /\ \A r, s \in Requests : r.entry = s.entry => r = s
ASSUME DirsAssumption == Dirs \subseteq DirType
ASSUME ReentrantAssumption == Reentrant \subseteq Entries
ASSUME SentinelAssumption ==
    /\ Nobody \notin Procs
    /\ NoDir \notin Dirs
    /\ NoRequest \notin Requests

VARIABLES
    detectors,  \* the slice
    mu,         \* detectorsMu
    fresh,      \* requests no client has made yet
    pc,         \* where each goroutine is
    req,        \* the registration in progress
    updated,    \* the new slice a registration builds before storing it
    dir,        \* the directory being detected
    snapshot,   \* DetectWithOptions' private copy of the slice
    pos,        \* index of the detector the loop is at
    result      \* what the last DetectWithOptions returned

vars == <<detectors, mu, fresh, pc, req, updated, dir, snapshot, pos, result>>

Outcome(kind, e) == [kind |-> kind, by |-> e]
Outcomes == [kind : {"none", "config", "configError", "dockerfile", "detected",
                     "fetched", "fetchError", "static", "error"},
             by : Entries \cup {NoEntry}]

Labels == {"idle", "config", "rlock", "copy", "runlock", "scan", "autofetch",
           "lock", "drain", "build", "store", "unlock"}

TypeOK ==
    /\ detectors \in Seq(Entries)
    /\ mu \in [owner : Procs \cup {Nobody}, readers : SUBSET Procs, parked : SUBSET Procs]
    /\ fresh \subseteq Requests
    /\ pc \in [Procs -> Labels]
    /\ req \in [Procs -> Requests \cup {NoRequest}]
    /\ updated \in [Procs -> Seq(Entries)]
    /\ dir \in [Procs -> Dirs \cup {NoDir}]
    /\ snapshot \in [Procs -> Seq(Entries)]
    /\ pos \in [Procs -> Nat]
    /\ result \in [Procs -> Outcomes]

Init ==
    /\ detectors = Builtin
    /\ mu = [owner |-> Nobody, readers |-> {}, parked |-> {}]
    /\ fresh = Requests
    /\ pc = [p \in Procs |-> "idle"]
    /\ req = [p \in Procs |-> NoRequest]
    /\ updated = [p \in Procs |-> <<>>]
    /\ dir = [p \in Procs |-> NoDir]
    /\ snapshot = [p \in Procs |-> <<>>]
    /\ pos = [p \in Procs |-> 0]
    /\ result = [p \in Procs |-> Outcome("none", NoEntry)]

Goto(p, from, to) == pc[p] = from /\ pc' = [pc EXCEPT ![p] = to]

-----------------------------------------------------------------------------
(* sync.RWMutex.  A Lock that waits for readers already keeps new readers  *)
(* out (they park); Unlock admits every parked reader before another       *)
(* writer can get in.                                                      *)

CanRead(p) == p \in mu.readers

\* Mutant of CanWrite: a writer does not wait for the readers to leave.
MutCanWrite(p) == mu.owner = p
CanWrite(p) == mu.owner = p /\ mu.readers = {}

MuRLock(p) ==
    mu' = IF mu.owner = Nobody
          THEN [mu EXCEPT !.readers = @ \cup {p}]
          ELSE [mu EXCEPT !.parked = @ \cup {p}]

\* Mutant of MuRUnlock: the read lock is kept while the detectors run.
MutMuRUnlock(p) == mu' = mu

MuRUnlock(p) == mu' = [mu EXCEPT !.readers = @ \ {p}]

\* Mutant of MuLock: no lock is taken.
MutMuLock(p) == mu' = [mu EXCEPT !.owner = p]

MuLock(p) ==
    /\ mu.owner = Nobody
    /\ mu' = [mu EXCEPT !.owner = p]

MuUnlock ==
    mu' = [owner |-> Nobody, readers |-> mu.readers \cup mu.parked, parked |-> {}]

-----------------------------------------------------------------------------
(* RegisterDetector and RegisterDetectorBefore.                            *)

\* A client calls one of the two, or a running DetectorFunc does.
CallRegister(p, r) ==
    /\ \/ Goto(p, "idle", "lock")
       \/ /\ pos[p] \in 1..Len(snapshot[p])
          /\ snapshot[p][pos[p]] \in Reentrant
          /\ Goto(p, "scan", "lock")
    /\ r \in fresh
    /\ fresh' = fresh \ {r}
    /\ req' = [req EXCEPT ![p] = r]
    /\ UNCHANGED <<detectors, mu, updated, dir, snapshot, pos, result>>

Lock(p) ==
    /\ Goto(p, "lock", "drain")
    /\ MuLock(p)
    /\ UNCHANGED <<detectors, fresh, req, updated, dir, snapshot, pos, result>>

\* Lock returns once the readers that were in have left.
Drain(p) ==
    /\ Goto(p, "drain", "build")
    /\ CanWrite(p)
    /\ UNCHANGED <<detectors, mu, fresh, req, updated, dir, snapshot, pos, result>>

\* A new slice is built from the current one ...
Build(p) ==
    /\ Goto(p, "build", "store")
    /\ updated' = [updated EXCEPT ![p] =
                       Registered(detectors, req[p].before, req[p].entry)]
    /\ UNCHANGED <<detectors, mu, fresh, req, dir, snapshot, pos, result>>

\* ... and then assigned to the global.
Store(p) ==
    /\ Goto(p, "store", "unlock")
    /\ detectors' = updated[p]
    /\ UNCHANGED <<mu, fresh, req, updated, dir, snapshot, pos, result>>

\* Unlock and return, into the detection loop when a DetectorFunc registered.
Unlock(p) ==
    /\ Goto(p, "unlock", IF dir[p] = NoDir THEN "idle" ELSE "scan")
    /\ MuUnlock
    /\ req' = [req EXCEPT ![p] = NoRequest]
    /\ updated' = [updated EXCEPT ![p] = <<>>]
    /\ UNCHANGED <<detectors, fresh, dir, snapshot, pos, result>>

-----------------------------------------------------------------------------
(* DetectWithOptions.                                                      *)

CallDetect(p, d) ==
    /\ Goto(p, "idle", "config")
    /\ dir' = [dir EXCEPT ![p] = d]
    /\ UNCHANGED <<detectors, mu, fresh, req, updated, snapshot, pos, result>>

Return(p, o) ==
    /\ pc' = [pc EXCEPT ![p] = "idle"]
    /\ result' = [result EXCEPT ![p] = o]
    /\ dir' = [dir EXCEPT ![p] = NoDir]
    /\ snapshot' = [snapshot EXCEPT ![p] = <<>>]
    /\ pos' = [pos EXCEPT ![p] = 0]

\* The user config first, the user's Dockerfile second; either ends the call.
LoadConfig(p) ==
    LET d == dir[p] IN
    /\ pc[p] = "config"
    /\ \/ /\ d.config = "bad"
          /\ Return(p, Outcome("configError", NoEntry))
       \/ /\ d.config = "ok"
          /\ Return(p, Outcome("config", NoEntry))
       \/ /\ d.config = "none" /\ d.dockerfile
          /\ Return(p, Outcome("dockerfile", NoEntry))
       \/ /\ d.config = "none" /\ ~d.dockerfile
          /\ Goto(p, "config", "rlock")
          /\ UNCHANGED <<dir, snapshot, pos, result>>
    /\ UNCHANGED <<detectors, mu, fresh, req, updated>>

RLock(p) ==
    /\ Goto(p, "rlock", "copy")
    /\ MuRLock(p)
    /\ UNCHANGED <<detectors, fresh, req, updated, dir, snapshot, pos, result>>

\* A parked reader is let in by an Unlock.
Copy(p) ==
    /\ Goto(p, "copy", "runlock")
    /\ CanRead(p)
    /\ snapshot' = [snapshot EXCEPT ![p] = detectors]
    /\ UNCHANGED <<detectors, mu, fresh, req, updated, dir, pos, result>>

RUnlock(p) ==
    /\ Goto(p, "runlock", "scan")
    /\ MuRUnlock(p)
    /\ pos' = [pos EXCEPT ![p] = 1]
    /\ UNCHANGED <<detectors, fresh, req, updated, dir, snapshot, result>>

\* Mutant of Scan: the loop answers with an index into its copy.
MutScanIndex(p) ==
    /\ pc[p] = "scan"
    /\ pos[p] \in 1..Len(snapshot[p])
    /\ IF snapshot[p][pos[p]] \in dir[p].hits
       THEN Return(p, Outcome("detected", pos[p]))
       ELSE pos' = [pos EXCEPT ![p] = @ + 1] /\ UNCHANGED <<pc, dir, snapshot, result>>
    /\ UNCHANGED <<detectors, mu, fresh, req, updated>>

\* Mutant of Scan: the loop reads the shared slice, not the copy.
MutScan(p) ==
    /\ pc[p] = "scan"
    /\ pos[p] \in 1..Len(snapshot[p])
    /\ LET e == detectors[pos[p]] IN
       \/ /\ e \in dir[p].hits
          /\ Return(p, Outcome("detected", e))
       \/ /\ e \notin dir[p].hits
          /\ pos' = [pos EXCEPT ![p] = @ + 1]
          /\ UNCHANGED <<pc, dir, snapshot, result>>
    /\ UNCHANGED <<detectors, mu, fresh, req, updated>>

\* One iteration of the loop over the snapshot.
Scan(p) ==
    /\ pc[p] = "scan"
    /\ pos[p] \in 1..Len(snapshot[p])
    /\ LET e == snapshot[p][pos[p]] IN
       \/ /\ e \in dir[p].hits
          /\ Return(p, Outcome("detected", e))
       \/ /\ e \notin dir[p].hits
          /\ pos' = [pos EXCEPT ![p] = @ + 1]
          /\ UNCHANGED <<pc, dir, snapshot, result>>
    /\ UNCHANGED <<detectors, mu, fresh, req, updated>>

ScanEnd(p) ==
    /\ Goto(p, "scan", "autofetch")
    /\ pos[p] > Len(snapshot[p])
    /\ UNCHANGED <<detectors, mu, fresh, req, updated, dir, snapshot, pos, result>>

\* opts.AutoFetch, when set, answers with a framework, an error or nothing;
\* with nothing, or unset, servable content makes the directory a static site.
AutoFetch(p) ==
    /\ pc[p] = "autofetch"
    /\ \E answer \in {"fetched", "fetchError", "nothing"} :
          Return(p, IF answer # "nothing" THEN Outcome(answer, NoEntry)
                    ELSE IF dir[p].servable THEN Outcome("static", NoEntry)
                    ELSE Outcome("error", NoEntry))
    /\ UNCHANGED <<detectors, mu, fresh, req, updated>>

-----------------------------------------------------------------------------
Call(p) == \/ \E r \in Requests : CallRegister(p, r)
           \/ \E d \in Dirs : CallDetect(p, d)

\* Everything a goroutine does by itself once it has made a call.
Step(p) == \/ Lock(p) \/ Drain(p) \/ Build(p) \/ Store(p) \/ Unlock(p)
           \/ LoadConfig(p) \/ RLock(p) \/ Copy(p) \/ RUnlock(p)
           \/ Scan(p) \/ ScanEnd(p) \/ AutoFetch(p)

Next == \E p \in Procs : Call(p) \/ Step(p)

Spec == Init /\ [][Next]_vars

\* A runnable goroutine is eventually scheduled; no client has to call.
Fairness == \A p \in Procs : WF_vars(Step(p))
FairSpec == Spec /\ Fairness

-----------------------------------------------------------------------------
(* Properties.                                                             *)

Reading(p) == pc[p] = "build" \/ (pc[p] = "copy" /\ CanRead(p))
Writing(p) == pc[p] = "store"

(* No goroutine reads or writes the slice while another is writing it: the *)
(* lock really separates the copy in DetectWithOptions from the read and   *)
(* the store of a registration, whatever calls a DetectorFunc makes.       *)
RaceFree == \A p, q \in Procs : p # q => ~(Writing(p) /\ (Reading(q) \/ Writing(q)))

Stored(r) == r \notin fresh /\ \A p \in Procs : req[p] = r => pc[p] = "unlock"

(* Registrations of concurrent goroutines never overwrite one another: the *)
(* registry is the built-in list and every stored registration, each once. *)
NothingLost ==
    LET done == {r \in Requests : Stored(r)} IN
    /\ ToSet(detectors) = ToSet(Builtin) \cup {r.entry : r \in done}
    /\ Len(detectors) = Len(Builtin) + Cardinality(done)

(* Priorities given to clients hold whatever the others register: an entry *)
(* of RegisterDetector is consulted before every built-in; one inserted    *)
(* before a built-in is consulted before it, and after those ahead of it   *)
(* unless a client has registered another detector under the same name.    *)
PriorityHonoured ==
    \A r \in Requests : Stored(r) =>
        \A i \in 1..Len(Builtin) :
            LET b == Builtin[i]
                anchor == PositionOf(Builtin, r.before)
                unique == \A s \in Requests : Stored(s) => NameOf[s.entry] # r.before
            IN  IF r.before = NoName THEN Outranks(detectors, r.entry, b)
                ELSE /\ anchor # 0 /\ i >= anchor => Outranks(detectors, r.entry, b)
                     /\ unique /\ i < anchor => Outranks(detectors, b, r.entry)

(* A registration never reorders or removes what is there: whoever was     *)
(* consulted first stays first, so detection changes only by the newcomer. *)
RankingKept ==
    [][\A e, f \in Entries : Outranks(detectors, e, f) => Outranks(detectors', e, f)]_vars

(* Every RegisterDetector and DetectWithOptions call returns, also when a  *)
(* DetectorFunc registers detectors while it runs: the loop runs without   *)
(* the lock, so the callback cannot wait for its own caller.               *)
EveryCallReturns == \A p \in Procs : pc[p] # "idle" ~> pc[p] = "idle"

(* The registry with its lock, its slice building and its snapshots does   *)
(* what AtomicRegistry promises: a detection resolves when it copies the   *)
(* slice, a registration when it stores it.                                *)
Resolved(p) == dir[p] # NoDir /\ pc[p] \notin {"config", "rlock", "copy"}

CONSTANT Unresolved
ASSUME UnresolvedAssumption == Unresolved \notin Entries \cup {NoEntry}
Atomic == INSTANCE AtomicRegistry WITH
    registry <- detectors,
    todo <- {r \in Requests : ~Stored(r)},
    call <- dir,
    answer <- [p \in Procs |-> IF Resolved(p) THEN FirstMatch(snapshot[p], dir[p].hits)
                               ELSE Unresolved]
ImplementsAtomic == Atomic!Spec
=============================================================================
