SPECIFICATION Spec
CONSTANTS
    Scans = {s1, s2}
    Emails = {e1}
    NoEmail = NoEmail
    Reported <- Usage
    PlanTokens = {10}
    FreeTokens = 5
    MaxAccounts = 2
    MaxBought = 10
    MaxFaults = 1
SYMMETRY Symmetry
INVARIANTS
    BalanceAddsUp
    UsedIsCharged
    ChargesMatchHistory
    HistoryIsOwn
