--------------------------- MODULE AtomicRegistry ---------------------------
(***************************************************************************)
(* What the detector registry promises its clients: a registration takes   *)
(* effect at one instant, and a detection answers as if it had looked at   *)
(* the whole registry at one instant between its call and its return.      *)
(* DetectorRegistry is shown to implement this module; the modules that    *)
(* are about the order of detectors and not about goroutines build on it.  *)
(***************************************************************************)
EXTENDS RegistryOps

CONSTANTS Procs, Builtin, Requests, Dirs, NoDir,
          Unresolved   \* this detection has not looked at the registry yet

VARIABLES registry, \* the ordered list of detectors
          todo,     \* registrations that have not taken effect
          call,     \* the directory a client is detecting
          answer,   \* the detector the registry gave for it
          result    \* what the last detection returned

vars == <<registry, todo, call, answer, result>>

Outcome(kind, e) == [kind |-> kind, by |-> e]

Init ==
    /\ registry = Builtin
    /\ todo = Requests
    /\ call = [p \in Procs |-> NoDir]
    /\ answer = [p \in Procs |-> Unresolved]
    /\ result = [p \in Procs |-> Outcome("none", NoEntry)]

Register(r) ==
    /\ r \in todo
    /\ todo' = todo \ {r}
    /\ registry' = Registered(registry, r.before, r.entry)
    /\ UNCHANGED <<call, answer, result>>

Begin(p, d) ==
    /\ call[p] = NoDir
    /\ call' = [call EXCEPT ![p] = d]
    /\ UNCHANGED <<registry, todo, answer, result>>

Resolve(p) ==
    /\ call[p] # NoDir
    /\ call[p].config = "none" /\ ~call[p].dockerfile
    /\ answer[p] = Unresolved
    /\ answer' = [answer EXCEPT ![p] = FirstMatch(registry, call[p].hits)]
    /\ UNCHANGED <<registry, todo, call, result>>

\* A user's config or Dockerfile decides without the registry.
OwnFiles(d) == CASE d.config = "bad" -> {Outcome("configError", NoEntry)}
                 [] d.config = "ok" -> {Outcome("config", NoEntry)}
                 [] OTHER -> IF d.dockerfile THEN {Outcome("dockerfile", NoEntry)} ELSE {}

Unmatched(d) == {Outcome("fetched", NoEntry), Outcome("fetchError", NoEntry),
                 Outcome(IF d.servable THEN "static" ELSE "error", NoEntry)}

Finish(p) ==
    /\ call[p] # NoDir
    /\ \E o \in IF answer[p] = Unresolved THEN OwnFiles(call[p])
                ELSE IF answer[p] = NoEntry THEN Unmatched(call[p])
                ELSE {Outcome("detected", answer[p])} :
          result' = [result EXCEPT ![p] = o]
    /\ call' = [call EXCEPT ![p] = NoDir]
    /\ answer' = [answer EXCEPT ![p] = Unresolved]
    /\ UNCHANGED <<registry, todo>>

Next == \/ \E r \in Requests : Register(r)
        \/ \E p \in Procs : (\E d \in Dirs : Begin(p, d)) \/ Resolve(p) \/ Finish(p)

Spec == Init /\ [][Next]_vars
=============================================================================
