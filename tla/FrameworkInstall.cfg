CONSTANTS
    Mine = Mine  Bad = Bad  Altered = Altered  Torn = Torn  Missing = Missing
    NoEntry = NoEntry  aspen = aspen  birch = birch
    Procs = {p1, p2}
    Names <- MCNames
    Position <- MCPosition
    Hits <- MCHits
    Kinds <- AllKinds
    AtFirst <- MCAtFirst
    Refused <- MCRefused
    MaxVersion = 2  MaxEdits = 1
SYMMETRY Symmetry
SPECIFICATION Spec
INVARIANTS TypeOK OnlyVerifiedInPlace AutoFetchFailsSoft InstalledIsDetected
