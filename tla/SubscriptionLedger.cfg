SPECIFICATION LiveSpec
CONSTANTS
    Requests = {r1, r2}
    Subs = {1, 2}
    Total = 2
    Period = 2
    Life = 3
    Periods = {"never", "custom"}
    Amounts = {1}
    Actuals = {2}
    Attempts = 3
    Batch = 2
    Faulty = {"mark", "inner", "answer"}
    MaxFaults = 1
    MaxAdmin = 1
    MaxTime = 4
    LastSale = 2
    Lag = 1
INVARIANTS TypeOK Balanced RefundsExplained OneAllowancePerPeriod
PROPERTIES PassEnds DueAreReset
