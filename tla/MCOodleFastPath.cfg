CONSTANTS
    Threads = {t1, t2}
    Dirs = {"game", "broken"}
    Lib <- MCLib
    StartDir = "game"
    Warm = FALSE
    MaxCalls = 2
    NULL = NULL
SPECIFICATION Spec
INVARIANTS FastPathSafe
