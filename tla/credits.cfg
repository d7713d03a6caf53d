\* Two requests of a user with a plan, with daily passes, or with the welcome
\* credits, and behind each the daily quota.
SPECIFICATION SceneSpec
CONSTANTS
    t1 = t1
    t2 = t2
    l1 = l1
    l2 = l2
    k1 = k1
    k2 = k2
    Tasks = {t1, t2}
    Costs = {2}
    Lots = {l1, l2}
    LotQuote <- TwoPasses
    Purchases = {k1}
    PlanQuote <- StandardPlans
    WelcomeLimit = 2
    DailyLimit = 2
    Promos = {"none", "limited", "unlimited"}
    PromoCredits = 1
    DayLength = 2
    MaxTime = 3
    PassTime = 2
    Scenes = {"plan", "passes", "free"}
    MaxFaults = 1
SYMMETRY TasksAreAlike
INVARIANTS
    LotsConserved
    ChargedToOneBucket
    WelcomeNeverOverdrawn
    NeverOverCredited
    OverspendIsBounded
\* Purchases and time are bounded, and a user may stop asking.
CHECK_DEADLOCK FALSE
