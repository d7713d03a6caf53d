\* One Uzum order, one callback at a time, one failure inside finalization.
SPECIFICATION Spec
CONSTANTS
    u1 = u1
    payme1 = payme1
    click1 = click1
    uzum1 = uzum1
    c1 = c1
    c2 = c2
    p1 = p1
    p2 = p2
    k1 = k1
    z1 = z1
    None = None
    Users = {u1}
    OwnerOf <- OneCustomer
    UzumOrder <- OneUzumOrder
    DailyPassEnabled = TRUE
    Orders = {uzum1}
    PaymeOrders = {}
    ClickOrders = {}
    Txs = {z1}
    PaymeTxs = {}
    ClickTxs = {}
    UzumTxs = {z1}
    Calls = {c1}
    QuoteOf <- RaceQuotes
    Legacy <- NoLegacy
    Unversioned = {}
    TxTimeout = 1
    MaxTime = 0
    MaxFaults = 1
INVARIANT UzumAnswerIsGranted
CHECK_DEADLOCK FALSE
