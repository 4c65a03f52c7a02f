CONSTANTS
    Missing = Missing  NoIndex = NoIndex  Garbage = Garbage  Torn = Torn
    Procs = {p1, p2}
    Urls = {u1, u2}
    TTL = 0  MaxTime = 1  MaxVersion = 2  MaxFaults = 1
SYMMETRY Symmetry
\* Every process may have been killed.
CHECK_DEADLOCK FALSE
SPECIFICATION Spec
INVARIANTS TypeOK AnswerIsFromItsUrl CacheNeverTorn StaleOnlyAsFallback CachedIndexServes
