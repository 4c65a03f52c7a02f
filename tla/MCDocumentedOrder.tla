------------------------- MODULE MCDocumentedOrder --------------------------
(* The statements made about the order of the built-in detectors, of which *)
(* package init leaves one and the same registry behind, next to those     *)
(* made about definitions loaded from directories.                         *)
EXTENDS MCFrameworkLoader

Plain == INSTANCE MCBuiltinDetectors WITH
    Entries <- {}, NameOf <- <<>>, Projects <- {},
    registry <- <<>>, inits <- 0, answer <- NoEntry

\* What the init functions make of the empty registry.
Called == INSTANCE RegistryOps WITH Entries <- Plain!Names, NameOf <- Plain!MCNameOf
InitRegistry ==
    FoldLeft(LAMBDA reg, call : Called!Registered(reg, call[2], call[1]), <<>>, Plain!InitCalls)

Builtins == INSTANCE MCBuiltinDetectors WITH
    Entries <- Plain!Names, NameOf <- Plain!MCNameOf, Projects <- Plain!MCProjects,
    registry <- InitRegistry, inits <- Len(Plain!InitCalls), project <- NoProject,
    answer <- NoEntry

(* One of the statements holds: the state that violates this, after a load *)
(* of two directories, refutes every one of them.                          *)
SomeDocumentedOrderHolds ==
    outcome = "ok" /\ calls = 1 /\ Len(args) = 2 =>
        \/ Builtins!SomeDocumentedOrderHolds
        \/ DocumentedPriority \/ DefinitionsArePlanned
        \/ DocumentedRuleOrder \/ BasesAreExpanded
        \/ VariablesAreExpanded \/ BaseExcludesFrom
=============================================================================
