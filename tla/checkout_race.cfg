\* Click and Uzum callbacks of one customer, two at a time.
SPECIFICATION Spec
CONSTANTS
    u1 = u1
    payme1 = payme1
    click1 = click1
    uzum1 = uzum1
    c1 = c1
    c2 = c2
    p1 = p1
    p2 = p2
    k1 = k1
    z1 = z1
    None = None
    Users = {u1}
    OwnerOf <- OneCustomer
    UzumOrder <- OneUzumOrder
    DailyPassEnabled = TRUE
    Orders = {click1, uzum1}
    PaymeOrders = {}
    ClickOrders = {click1}
    Txs = {k1, z1}
    PaymeTxs = {}
    ClickTxs = {k1}
    UzumTxs = {z1}
    Calls = {c1, c2}
    QuoteOf <- RaceQuotes
    Legacy <- LegacyStandard
    Unversioned = {click1}
    TxTimeout = 1
    MaxTime = 2
    MaxFaults = 1
SYMMETRY TasksAreAlike
INVARIANTS
    IInv
    AppliedIsGranted
    PlanIsPaidFor
PROPERTIES
    PaidBalanceSurvives
    ImplementsPaidOrders
\* Every task may have ended, every order may be final.
CHECK_DEADLOCK FALSE
