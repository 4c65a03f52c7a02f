------------------------- MODULE MCProjectCommands --------------------------
(* Projects that start with nothing, or up to three files of their own. *)
EXTENDS ProjectCommands, TLC

Writers == {"init", "eject", "force", "dockerfile"}
DocumentedKinds == {"init", "force", "detect", "build"}
Builtin == {"builtin"}
Home == {"home"}

With(own) == [f \in Files |-> IF f \in DOMAIN own THEN own[f] ELSE "missing"]
Bare == With(<<>>)
MCAtFirst ==
    {Bare, With("toml" :> "invalid" @@ "yaml" :> "config"),
     With("toml" :> "config" @@ "Dockerfile" :> "own" @@ "ignore" :> "link")}
WithConfig == {With("toml" :> "config")}

\* The user edits docksmith.toml only.
EditsConfig == Init /\ [][Next /\ (edits' # edits => files'["toml"] # files["toml"])]_vars

Symmetry == Permutations(Procs)
=============================================================================
