CONSTANTS
    Procs = {p1, p2}
    Kinds <- Writers
    Projects <- Builtin
    AtFirst <- MCAtFirst
    MaxEdits = 1  MaxFaults = 1
    Remember = {}
SYMMETRY Symmetry
SPECIFICATION Spec
INVARIANTS ExistingKept WholeFiles ConfigDecides
