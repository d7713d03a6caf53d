\* Two administrative actions on a plan that a chat request charges.
SPECIFICATION SceneSpec
CONSTANTS
    Tasks = {t1}
    Costs = {2}
    Lots = {}
    LotQuote <- NoLots
    Purchases = {k1}
    PlanQuote <- StandardPlans
    WelcomeLimit = 0
    DailyLimit = 2
    Promos = {"none"}
    PromoCredits = 0
    DayLength = 1
    MaxTime = 2
    MaxAsked = 2
    MaxFaults = 1
    Admins = {a1, a2}
    Ids = {i1, i2}
    Actions <- ModelActions
    GrantQuote <- Standard
SYMMETRY ActionsAreAlike
INVARIANTS
    AdminTypeOK
    HandledOnce
    FirstWriteIsExact
    NeverOverGranted
PROPERTIES
    DeltaIsRelative
\* Actions, purchases and time are bounded, and a user may stop asking.
CHECK_DEADLOCK FALSE
