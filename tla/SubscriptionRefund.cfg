SPECIFICATION Spec
CONSTANTS
    Requests = {r1, r2}
    Subs = {1}
    Total = 2
    Period = 2
    Life = 3
    Periods = {"never", "custom"}
    Amounts = {1}
    Actuals = {2}
    Attempts = 3
    Batch = 2
    Faulty = {"mark"}
    MaxFaults = 1
    MaxAdmin = 1
    MaxTime = 4
    LastSale = 2
    Lag = 1
INVARIANT RefundOnce
