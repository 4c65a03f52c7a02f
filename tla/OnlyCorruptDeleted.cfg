CONSTANTS
    Missing = Missing  NoIndex = NoIndex  Garbage = Garbage  Torn = Torn
    Procs = {p1, p2}
    Urls = {u1}
    TTL = 1  MaxTime = 2  MaxVersion = 1  MaxFaults = 1
\* Every process may have been killed.
CHECK_DEADLOCK FALSE
SPECIFICATION Spec
PROPERTY OnlyCorruptDeleted
