SPECIFICATION LiveSpec
CONSTANTS
    Tabs = {t1, t2}
    WebLocks = TRUE
    MaxLogins = 1
    MaxSecure = 0
    MaxExpiries = 0
    MaxReloads = 1
    MaxRevokes = 1
    MaxFaults = 1
    MaxSends = 1
    MaxLate = 1
    MaxEvents = 1
PROPERTIES RefreshEnds LoginPropagates
CHECK_DEADLOCK FALSE
