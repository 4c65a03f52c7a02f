CONSTANTS
    NoName = NoName  NoEntry = NoEntry  NoDir = NoDir  Bad = Bad
    NoProject = NoProject  NoPlan = NoPlan
    projectDir = projectDir  home = home  aYaml = aYaml  bYaml = bYaml
    myFramework = myFramework  nextjs = nextjs  goStd = goStd  b1 = b1  b2 = b2
    Entries <- MCEntries
    NameOf <- MCNameOf
    Dirs <- MCDirs
    Files <- MCFiles
    Position <- MCPosition
    Defs <- MCDefs
    Priority <- MCPriority
    Builtin <- MCBuiltin
    Loads <- MCLoads
    Disks <- PlainDisks
    Edits <- MCEdits
    Definition <- MCDefinition
    Projects <- MCProjects
    BuiltinHits <- MCBuiltinHits
    Classified <- MCClassified
    Orders <- MCOrders
    MaxEdits = 0  MaxCalls = 1
CHECK_DEADLOCK FALSE
SPECIFICATION YamlSpec
INVARIANT SomeDocumentedOrderHolds
