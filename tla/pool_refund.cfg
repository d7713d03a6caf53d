\* One request of a subscriber is charged and refunded.
SPECIFICATION SceneSpec
CONSTANTS
    t1 = t1
    t2 = t2
    l1 = l1
    l2 = l2
    k1 = k1
    k2 = k2
    Tasks = {t1}
    Costs = {2}
    Lots = {}
    LotQuote <- TwoPasses
    Purchases = {k1}
    PlanQuote <- StandardPlans
    WelcomeLimit = 0
    DailyLimit = 2
    Promos = {"none"}
    PromoCredits = 1
    DayLength = 1
    MaxTime = 3
    PassTime = 3
    Scenes = {"plan"}
    MaxFaults = 0
SYMMETRY TasksAreAlike
INVARIANTS
    RefundReversesCharge
\* Purchases and time are bounded, and a user may stop asking.
CHECK_DEADLOCK FALSE
