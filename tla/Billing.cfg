SPECIFICATION LiveSpec
CONSTANTS
    Requests = {r1, r2}
    Profiles <- MCProfiles
    PreQuotas = {1}
    ActualQuotas = {0, 3}
    ReserveTargets = {3}
    WalletInit = 4
    TokenInit = 4
    SubTotal = 3
    TrustQuota = 3
    MaxReserves = 1
    MaxFaults = 1
INVARIANTS TypeOK ChargedExactly NoFreeCredit OneSource PreferenceHonoured SubscriptionLimit
PROPERTIES EventuallyClosed
CHECK_DEADLOCK FALSE
