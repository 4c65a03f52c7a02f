CONSTANTS
    Procs = {p1}
    Kinds <- DocumentedKinds
    Projects <- Home
    AtFirst <- WithConfig
    MaxEdits = 2  MaxFaults = 0
    Remember = {"detect", "build", "force"}
SPECIFICATION EditsConfig
INVARIANT SomeDocumentedCommandHolds
