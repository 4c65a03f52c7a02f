---------------------------- MODULE RegistryOps ----------------------------
(***************************************************************************)
(* The two ways detect/detect.go changes the ordered list of detectors,    *)
(* and the one way DetectWithOptions reads it.  A registry is a sequence   *)
(* of entries; NameOf gives the Name field of an entry (NamedDetector).    *)
(* Two entries may carry the same name: LoadAndRegisterFrameworks          *)
(* registers "yaml:<name>" once per file that defines <name>.              *)
(***************************************************************************)
EXTENDS SequencesExt

CONSTANTS Entries,   \* the NamedDetector values that can be registered
          NameOf,    \* [Entries -> names]
          NoName,    \* "no before argument": a plain RegisterDetector call
          NoEntry    \* "no detector matched"

ASSUME EntriesAssumption == NoEntry \notin Entries

\* Where the scan for `before` stops: the first entry with that name, else 0.
PositionOf(reg, name) == SelectInSeq(reg, LAMBDA e : NameOf[e] = name)

\* Mutants of InsertBefore: e lands behind its anchor; e replaces its anchor.
MutInsertAfter(reg, before, e) == InsertAt(reg, PositionOf(reg, before) + 1, e)
MutReplaceAnchor(reg, before, e) ==
    LET k == PositionOf(reg, before)
    IN  IF k = 0 THEN Cons(e, reg) ELSE ReplaceAt(reg, k, e)

\* RegisterDetectorBefore puts e right in front of the first entry called
\* `before`, and prepends it when there is none.
InsertBefore(reg, before, e) ==
    LET k == PositionOf(reg, before)
    IN  InsertAt(reg, IF k = 0 THEN 1 ELSE k, e)

\* Mutant of Prepend: e is consulted last.
MutAppend(reg, e) == Append(reg, e)

\* RegisterDetector always prepends.
Prepend(reg, e) == Cons(e, reg)

Registered(reg, before, e) ==
    IF before = NoName THEN Prepend(reg, e) ELSE InsertBefore(reg, before, e)

\* The detector whose framework DetectWithOptions returns: the first one in
\* the list, among the set `hits` that recognise the directory.
FirstMatch(reg, hits) ==
    LET k == SelectInSeq(reg, LAMBDA e : e \in hits)
    IN  IF k = 0 THEN NoEntry ELSE reg[k]

\* e is consulted before f.
Outranks(reg, e, f) ==
    \E i, j \in 1..Len(reg) : i < j /\ reg[i] = e /\ reg[j] = f
=============================================================================
