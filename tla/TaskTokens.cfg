SPECIFICATION Spec
CONSTANTS
    Workers = {w1, w2}
    Quotas = {0, 2}
    PreQuotas = {1, 3}
    Actuals = {1, 2, 3}
    Usages = {TRUE, FALSE}
    MaxFetches = 2
    ChannelMayVanish = TRUE
    GraceHolds = FALSE
    FaultyWrites = {"row", "fund", "token", "marker", "restore"}
    MaxFaults = 2
    MaxCrashes = 0
SYMMETRY MCSymmetry
INVARIANTS TokenFollows
PROPERTIES TerminalGuarded
CHECK_DEADLOCK FALSE
