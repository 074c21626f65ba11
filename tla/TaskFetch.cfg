SPECIFICATION Spec
CONSTANTS
    Workers = {w1, w2}
    Quotas = {2}
    PreQuotas = {2}
    Actuals = {1, 3}
    Usages = {FALSE}
    MaxFetches = 2
    ChannelMayVanish = FALSE
    GraceHolds = TRUE
    FaultyWrites = {}
    MaxFaults = 0
    MaxCrashes = 0
SYMMETRY MCSymmetry
INVARIANTS NeverOverRefunded
CHECK_DEADLOCK FALSE
