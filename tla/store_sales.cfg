\* App Store, Google Play, a web payment and a charge meet in one subscription.
SPECIFICATION SaleSpec
CONSTANTS
    u1 = u1
    g1 = g1
    None = None
    Users = {u1, u2}
    Txs = {a1, g1}
    PlayTxs = {g1}
    Chain <- OwnChains
    QuoteOf <- StoreQuotes
    ExpiresOf <- OneDay
    WebOrders = {w1}
    WebQuote <- StandardPlan
    WebBuyer <- OneCustomer
    Legacy <- OnePlanIsOld
    Calls = {c1, c2}
    MaxTime = 1
    MaxFaults = 1
SYMMETRY TasksAreAlike
INVARIANTS
    TypeOK
    StoreGrantedOnce
    OpenClaimIsHeld
    
\* All transactions may be answered and no time left.
CHECK_DEADLOCK FALSE
