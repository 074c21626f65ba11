SPECIFICATION Spec
CONSTANTS
    Tabs = {t1, t2}
    WebLocks = TRUE
    MaxLogins = 1
    MaxSecure = 0
    MaxExpiries = 1
    MaxReloads = 0
    MaxRevokes = 0
    MaxFaults = 0
    MaxSends = 2
    MaxLate = 0
    MaxEvents = 2
SYMMETRY TabSymmetry
INVARIANTS LoginSticks
CHECK_DEADLOCK FALSE
