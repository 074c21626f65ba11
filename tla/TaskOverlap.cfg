SPECIFICATION LiveSpec
CONSTANTS
    Workers = {w1, w2, w3}
    Quotas = {2}
    PreQuotas = {1}
    Actuals = {1, 3}
    Usages = {TRUE}
    MaxFetches = 0
    ChannelMayVanish = FALSE
    GraceHolds = TRUE
    FaultyWrites = {"row", "fund", "marker", "restore"}
    MaxFaults = 2
    MaxCrashes = 1
INVARIANTS TypeOK OneHolder MarkerExact NeverOverRefunded
PROPERTIES BilledOnce RefundCompletes TaskFinishes
CHECK_DEADLOCK FALSE
