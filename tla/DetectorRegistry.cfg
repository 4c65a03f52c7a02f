CONSTANTS
    b1 = b1  b2 = b2  b3 = b3  c1 = c1  c2 = c2  c3 = c3
    nextjs = nextjs  hono = hono  node = node  mine = mine  other = other  missing = missing
    Nobody = Nobody  NoDir = NoDir  NoRequest = NoRequest
    NoName = NoName  NoEntry = NoEntry  Unresolved = Unresolved
    Entries <- MCEntries
    NameOf <- MCNameOf
    Builtin <- MCBuiltin
    Requests <- MCRequests
    Reentrant <- MCReentrant
    Dirs <- MCDirs
    Procs = {p1, p2}
SPECIFICATION FairSpec
INVARIANTS TypeOK RaceFree NothingLost PriorityHonoured
PROPERTIES RankingKept ImplementsAtomic EveryCallReturns
