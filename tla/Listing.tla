------------------------------- MODULE Listing -------------------------------
(***************************************************************************)
(* Sequences given by the positions their elements are taken from: what a  *)
(* loop leaves out of a slice, and what a sort makes of one.  (SelectSeq   *)
(* and SortSeq say the same, but the prover cannot look into them.)        *)
(***************************************************************************)
EXTENDS FiniteSets, Naturals, Sequences

\* The elements of a finite set, one after the other: `before` is a strict
\* total order on it, as a set of pairs.
Listed(S, before) ==
    [k \in 1 .. Cardinality(S) |->
        CHOOSE x \in S : Cardinality({y \in S : <<y, x>> \in before}) = k - 1]

\* The elements of seq at the given positions, in order.
At(seq, positions) ==
    LET order == Listed(positions, {p \in positions \X positions : p[1] < p[2]})
    IN  [k \in DOMAIN order |-> seq[order[k]]]

Without(seq, out) == At(seq, {i \in DOMAIN seq : seq[i] \notin out})

\* By the keys, a number for each position; equal keys stay in order, as
\* sort.Slice keeps a dozen elements.
Sorted(seq, key) ==
    LET positions == DOMAIN seq
        order == Listed(positions, {p \in positions \X positions :
                    key[p[1]] < key[p[2]] \/ (key[p[1]] = key[p[2]] /\ p[1] < p[2])})
    IN  [k \in DOMAIN order |-> seq[order[k]]]
=============================================================================
