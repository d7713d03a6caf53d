\* Two transactions of one daily-pass order, two callbacks at a time, one of
\* them lost, under the fairness of the event loop and of the provider.
SPECIFICATION LiveSpec
CONSTANTS
    u1 = u1
    payme1 = payme1
    click1 = click1
    uzum1 = uzum1
    c1 = c1
    c2 = c2
    p1 = p1
    p2 = p2
    k1 = k1
    z1 = z1
    None = None
    Users = {u1}
    OwnerOf <- OneCustomer
    UzumOrder <- OneUzumOrder
    DailyPassEnabled = TRUE
    Orders = {payme1}
    PaymeOrders = {payme1}
    ClickOrders = {}
    Txs = {p1, p2}
    PaymeTxs = {p1, p2}
    ClickTxs = {}
    UzumTxs = {}
    Calls = {c1, c2}
    QuoteOf <- PassQuotes
    Legacy <- NoLegacy
    Unversioned = {}
    TxTimeout = 1
    MaxTime = 1
    MaxFaults = 1
INVARIANTS
    GrantedOnceIfCharged
    PaymeAnswerIsGranted
PROPERTIES
    PaidIsSettled
\* Every task may have ended, every order may be final.
CHECK_DEADLOCK FALSE
