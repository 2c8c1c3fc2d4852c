SPECIFICATION FairSpec
CONSTANTS
    Requests = {r1, r2, r3}
    Purge = purge
    Buffer = 2
    NoEntry = NoEntry
INVARIANTS NothingVanishes DrainedOnExit
PROPERTIES ShutdownTerminates EntriesSettle
