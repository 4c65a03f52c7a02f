---------------------------- MODULE MCIndexCache ----------------------------
(* Docksmith processes are alike, so the runs of invariants identify       *)
(* states that differ by a permutation of them.                            *)
EXTENDS IndexCache, TLC
Symmetry == Permutations(Procs)
=============================================================================
