CONSTANTS
    Threads = {t1, t2, t3}
    Dirs = {"game", "broken"}
    Lib <- MCLib
    StartDir = "game"
    Warm = TRUE
    MaxCalls = 2
    NULL = NULL
SPECIFICATION FairSpec
INVARIANTS TypeOK ConsistentUnlocked NegativeCacheHonest NoBadCall
PROPERTIES CallsReturn
