CONSTANTS
    gate = gate
    ann = ann
    bob = bob
    judge = judge
    Accounts = {gate, ann, bob, judge}
    Arbitrators = {judge}
    StatusOf <- MCStatusOf
    Terms <- MCTerms
    Amounts = {40}
    Balances <- MCBalances
    BanTime = 2
    Commission = 3
    TimeWidth = 16
    MaxTime = 4
    MaxAdverts = 1
    MaxOrders = 2
    None = None
SPECIFICATION LiveSpec
INVARIANTS TypeOK FundsConserved EveryOrderSettledOnce
PROPERTIES NotCanceledEarly PaidOrderOutlivesClock DeadlinesEnforced
CHECK_DEADLOCK FALSE
