------------------------- MODULE MCFrameworkInstall -------------------------
(* Two frameworks in the registry; the definition of the second recognises *)
(* the project, and the second version of the first does not parse.        *)
EXTENDS FrameworkInstall, TLC

CONSTANTS aspen, birch

MCNames == {aspen, birch}
MCPosition == aspen :> 1 @@ birch :> 2
MCHits == {birch}
AllKinds == {"install", "auto", "autofetch"}
MCRefused == {[name |-> aspen, sha |-> 2]}
Empty == aspen :> Missing @@ birch :> Missing
MCAtFirst == {Empty, aspen :> Mine @@ birch :> Missing, aspen :> Bad @@ birch :> Missing}
Symmetry == Permutations(Procs)
=============================================================================
