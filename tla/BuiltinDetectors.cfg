CONSTANTS
    NoName = NoName  NoEntry = NoEntry  NoProject = NoProject
    Entries <- MCEntries
    NameOf <- MCNameOf
    Projects <- MCProjects
    Repositories <- MCRepositories
    DirOrder <- MCDirOrder
    RootOrder <- MCRootOrder
SPECIFICATION DetectionSpec
INVARIANTS
    MostSpecificAnswers NoDeadDetector
    ScopedDetectionAgrees ListingOrderIrrelevant DockerfileHidesNothing RemoteSeesLanguages
