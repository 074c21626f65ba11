SPECIFICATION Spec
CONSTANTS
    Procs = {p1, p2, p3}
    Caches = {c1, c2}
    NoProc = NoProc
    TTL = 2
    Lives <- MCLives
    Prompt = TRUE
    Faulty = {"read", "db", "fence", "tombstone"}
    MaxFaults = 1
    MaxWrites = 1
    MaxRevokes = 2
SYMMETRY MCSymmetry
INVARIANTS RevokedStaysOut CalmCacheAgrees BoundedStaleness
CHECK_DEADLOCK FALSE
