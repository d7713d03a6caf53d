---------------------------- MODULE CreditBuckets ----------------------------
(***************************************************************************)
(* Where a chat request's credits can come from (RateLimitService): the    *)
(* pool of a subscription, daily-pass lots, the welcome pool, the daily    *)
(* quota.  The accounts of different users share nothing, so the module    *)
(* holds one account and the requests of its user that are in progress.    *)
(* Each database call of a request is a step; `task' keeps what the        *)
(* request read before.                                                    *)
(***************************************************************************)
EXTENDS SubscriptionDocument, Sums

CONSTANTS
    Tasks,          \* slots for requests in progress
    Costs,          \* the assistants' credit costs
    Lots,           \* daily-pass lots the user may buy
    LotQuote,       \* LotQuote[l]: the daily-pass quote lot l is bought with
    Purchases,      \* grant keys of recurring plans
    PlanQuote,      \* PlanQuote[k]: the quote of purchase k, which pays for any one question
    WelcomeLimit,   \* settings.SIGNUP_DAY_CREDITS_LIMIT
    DailyLimit,     \* settings.DAILY_CREDITS_LIMIT
    Promos,         \* what get_user_promo_status may answer
    PromoCredits,   \* the credits of a limited promo code
    DayLength,      \* units of the clock in one UTC day
    MaxTime,        \* bound on the clock
    MaxFaults       \* bound on database calls that raise and on crashes

ASSUME CreditAssumption ==
    /\ IsFiniteSet(Tasks) /\ Tasks # {} /\ IsFiniteSet(Lots)
    /\ Costs \subseteq Nat \ {0} /\ IsFiniteSet(Costs) /\ Costs # {}
    /\ LotQuote \in [Lots -> {q \in Quote : IsDailyPassQuote(q)}]
    /\ PlanQuote \in [Purchases -> {q \in Quote : ~IsDailyPassQuote(q)}]
    /\ \A k \in Purchases : \A c \in Costs : c <= PlanQuote[k].credits
    /\ WelcomeLimit \in Nat /\ DailyLimit \in Nat /\ PromoCredits \in Nat
    /\ Promos \subseteq {"none", "limited", "unlimited"}
    /\ DayLength \in Nat \ {0} /\ MaxTime \in Nat \ {0} /\ MaxFaults \in Nat

VARIABLES
    now,        \* the clock
    sub,        \* the user's document in `subscriptions'
    usage,      \* creditusage: the user's documents, by date
    welcome,    \* the user document's signup_credits_used and signup_bonus_exhausted
    lot,        \* daily_subscriptions: the user's lots
    task,       \* the requests in progress
    faults,     \* calls that raised and requests that crashed so far
    book        \* history, see Book

vars == <<now, sub, usage, welcome, lot, task, faults, book>>

(***************************************************************************)
(* The documents.                                                          *)
(***************************************************************************)
Date(t) == t \div DayLength
Dates == 0 .. Date(MaxTime)
Today == Date(now)

UsageDocument == [there : BOOLEAN, used : Int]
WelcomePool == [used : Int, exhausted : BOOLEAN]
LotDocument == [end : Nat, remaining : Nat]
NoLot == [end |-> 0, remaining |-> 0]

NothingTaken == [l \in Lots |-> 0]
Total(f) == SumOver(f, Lots)

(* What an observer writes down.  paid: pool credits of the running plans; *)
(* charged: pool charges since then, less refunds; strayed: credits given  *)
(* back on another day than they were charged; lots: what requests that    *)
(* are over took from each lot.                                            *)
Book == [paid : Nat, charged : Int, strayed : Nat, lots : [Lots -> Nat]]

Kinds == {"none", "pool", "pass", "welcome", "daily"}
ChargeSteps == {"readPool", "poolUsage", "poolCheck", "poolIncrement", "poolBalance", "poolSync",
                "passSummary", "passRead", "passTake", "passRollback", "passReport", "promo",
                "welcomeTake", "welcomeMark", "welcomeFresh", "daily", "dailyAdd", "dailyNew"}
RefundSteps == {"refundUsage", "refundRead", "refundActive", "refundBalance", "refundSync",
                "refundLots", "refundWelcome"}

(* kind: the refund_info a charge returns; doc, seen, passLeft, offered,   *)
(* balance, limit: what earlier calls read; began: the now_ms given to the *)
(* storage; taken: `consumed', per lot; date: the date charged to.         *)
TaskRecords ==
    [at : {"idle", "served"} \cup ChargeSteps \cup RefundSteps, kind : Kinds, cost : Nat,
     doc : Document(Purchases), seen : WelcomePool, passLeft : Nat, began : Nat,
     offered : [Lots -> Nat], taken : [Lots -> Nat], balance : Nat, limit : Nat, date : Nat]

Idle == [at |-> "idle", kind |-> "none", cost |-> 0, doc |-> NoDocument,
         seen |-> [used |-> 0, exhausted |-> FALSE], passLeft |-> 0, began |-> 0,
         offered |-> NothingTaken, taken |-> NothingTaken, balance |-> 0, limit |-> 0,
         date |-> 0]

Init ==
    /\ now = 1
    /\ sub = NoDocument
    /\ usage = [d \in Dates |-> [there |-> FALSE, used |-> 0]]
    /\ welcome = [used |-> 0, exhausted |-> FALSE]
    /\ lot = [l \in Lots |-> NoLot]
    /\ task = [t \in Tasks |-> Idle]
    /\ faults = 0
    /\ book = [paid |-> 0, charged |-> 0, strayed |-> 0, lots |-> NothingTaken]

(***************************************************************************)
(* Control of a request.                                                   *)
(***************************************************************************)
At(t, step) == task[t].at = step
Goes(t, step) == task' = [task EXCEPT ![t].at = step]

(* The request may now be answered by the assistant.  The values read on   *)
(* the way are not used again.                                             *)
ServedBy(kind, r) == [Idle EXCEPT !.at = "served", !.kind = kind, !.cost = r.cost,
                                  !.taken = r.taken, !.date = r.date]
Served(t, kind) == task' = [task EXCEPT ![t] = ServedBy(kind, @)]

(* The request is over: denied, answered, refunded, or crashed.            *)
Ends(t) ==
    /\ task' = [task EXCEPT ![t] = Idle]
    /\ book' = [book EXCEPT !.lots = [l \in Lots |-> @[l] + task[t].taken[l]]]

(* check_and_decrement_credits starts by reading the user document.        *)
Charge(t, cost) ==
    /\ At(t, "idle")
    /\ task' = [task EXCEPT ![t] = [Idle EXCEPT !.at = "readPool", !.cost = cost,
                                                !.seen = welcome]]
    /\ UNCHANGED <<now, sub, usage, welcome, lot, faults, book>>

(* Only a limited promo code adds to the daily quota.                      *)
LimitWith(promo) == IF promo = "limited" THEN DailyLimit + PromoCredits ELSE DailyLimit

(***************************************************************************)
(* creditusage                                                             *)
(***************************************************************************)
(* $inc with upsert on today's document.                                   *)
AddUsage(cost) == usage' = [usage EXCEPT ![Today] = [there |-> TRUE, used |-> @.used + cost]]

(* $inc without upsert: a date without a document stays without one.       *)
RollBackUsage(cost) ==
    usage' = [usage EXCEPT ![Today].used = IF usage[Today].there THEN @ - cost ELSE @]

(***************************************************************************)
(* Time and purchases.                                                     *)
(***************************************************************************)
Tick ==
    /\ now < MaxTime
    /\ now' = now + 1
    /\ UNCHANGED <<sub, usage, welcome, lot, task, faults, book>>

(* A daily-pass purchase, once per order.                                  *)
BuyLot(l) ==
    /\ lot[l].end = 0
    /\ lot' = [lot EXCEPT ![l] = [end |-> now + LotQuote[l].days,
                                  remaining |-> LotQuote[l].credits]]
    /\ UNCHANGED <<now, sub, usage, welcome, task, faults, book>>

(* A plan is paid.  Its invoice may have been issued long before, when no  *)
(* plan was running: that is not checked again.                            *)
BuyPlan(k) ==
    /\ GrantIsNew(sub, k)
    /\ sub' = WebGrant(sub, PlanQuote[k], k, TRUE, now)
    /\ book' = [book EXCEPT !.paid = PlanQuote[k].credits + IF ActiveAt(sub, now) THEN @ ELSE 0,
                            !.charged = IF ActiveAt(sub, now) THEN @ ELSE 0]
    /\ UNCHANGED <<now, usage, welcome, lot, task, faults>>
=============================================================================
