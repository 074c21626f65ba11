SPECIFICATION LiveSpec
CONSTANTS
    Runners = {r1, r2}
    NoRunner = NoRunner
    MaxTasks = 2
    LegacyRows = 1
    Lease = 1
    MaxStall = 1
    BeatsInTime = TRUE
    MaxFaults = 1
    MaxCrashes = 1
INVARIANTS OneHandler RunningHasLock
PROPERTIES ClosedForGood NeverStuck
CHECK_DEADLOCK FALSE
