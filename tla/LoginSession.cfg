SPECIFICATION Spec
CONSTANTS
    Tabs = {t1, t2}
    WebLocks = TRUE
    MaxLogins = 1
    MaxSecure = 2
    MaxExpiries = 1
    MaxReloads = 0
    MaxRevokes = 1
    MaxFaults = 0
    MaxSends = 2
    MaxLate = 0
    MaxEvents = 3
SYMMETRY TabSymmetry
INVARIANTS NoResurrection NoFalseReuse
PROPERTIES TokenNeverOlder
CHECK_DEADLOCK FALSE
