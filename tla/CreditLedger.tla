---------------------------- MODULE CreditLedger ----------------------------
(***************************************************************************)
(* RateLimitService as a whole: check_and_decrement_credits walks through  *)
(* the buckets, refund_credits gives a charge back, and both swallow what  *)
(* goes wrong, each part in its own way.                                   *)
(***************************************************************************)
EXTENDS PoolCredits, PassCredits, FreeCredits

(* The assistant has answered, or the request keeps its charge.            *)
Answered(t) ==
    /\ At(t, "served")
    /\ Ends(t)
    /\ UNCHANGED <<now, sub, usage, welcome, lot, faults>>

FirstRefundStep(kind) ==
    CASE kind \in {"pool", "daily"} -> "refundUsage"
      [] kind = "pass" -> "refundLots"
      [] kind = "welcome" -> "refundWelcome"

(* The request was stopped before its first token.                         *)
Refund(t) ==
    /\ At(t, "served")
    /\ task[t].kind # "none"
    /\ Goes(t, FirstRefundStep(task[t].kind))
    /\ UNCHANGED <<now, sub, usage, welcome, lot, faults, book>>

(***************************************************************************)
(* Failures.  A call that raises has changed nothing: raising after the    *)
(* database applied it is the call, followed by a failure of the next one. *)
(***************************************************************************)
SwallowedAsNoPool == {"readPool"}
SwallowedAsNoPass == {"passSummary", "passRead", "passTake", "passRollback", "passReport"}
SwallowedBySync == {"poolSync"}
FailsOpen == {"poolUsage", "poolCheck", "poolIncrement", "poolBalance", "welcomeTake", "welcomeMark",
              "welcomeFresh", "daily", "dailyAdd", "dailyNew"}

(* What the service makes of an exception in the request's current call:   *)
(* the free quota decides, and nothing will be refunded, only where no     *)
(* inner handler has turned the exception into an answer.                  *)
Raises(t) ==
    LET at == task[t].at
        noPass == [task EXCEPT ![t] = WithoutPass(@)]
    IN  \/ at \in SwallowedAsNoPool /\ Goes(t, "passSummary") /\ UNCHANGED book
        \/ at \in SwallowedAsNoPass /\ task' = noPass /\ UNCHANGED book
        \/ at \in SwallowedBySync /\ Served(t, "pool") /\ UNCHANGED book
        \/ at \in FailsOpen /\ DailyLimit >= task[t].cost /\ Served(t, "none") /\ UNCHANGED book
        \/ at \in FailsOpen /\ DailyLimit < task[t].cost /\ Ends(t)
        \/ at \in RefundSteps \ {"refundLots"} /\ Ends(t)

(* Each lot of a refund has a handler of its own.                          *)
LotRefundRaises(t, l) ==
    LET r == task[t]
    IN  /\ At(t, "refundLots") /\ r.taken[l] > 0
        /\ task' = [task EXCEPT ![t] = IF LastTaken(t, l) THEN Idle ELSE [r EXCEPT !.taken[l] = 0]]
        /\ book' = [book EXCEPT !.lots[l] = @ + r.taken[l]]

(* The process stops, or the request is cancelled: no handler runs.        *)
Crash(t) == task[t].at \in ChargeSteps \cup RefundSteps /\ Ends(t)

Fault(t) ==
    /\ faults < MaxFaults
    /\ faults' = faults + 1
    /\ Raises(t) \/ Crash(t) \/ \E l \in Lots : LotRefundRaises(t, l)
    /\ UNCHANGED <<now, sub, usage, welcome, lot>>

(* The very first read of a charge raises.                                 *)
UserUnread(t, cost) ==
    /\ At(t, "idle")
    /\ faults < MaxFaults
    /\ faults' = faults + 1
    /\ DailyLimit >= cost
    /\ task' = [task EXCEPT ![t] = ServedBy("none", [Idle EXCEPT !.cost = cost])]
    /\ UNCHANGED <<now, sub, usage, welcome, lot, book>>

RequestStep(t) ==
    \/ \E cost \in Costs : Charge(t, cost) \/ UserUnread(t, cost)
    \/ PoolStep(t) \/ PassStep(t) \/ FreeStep(t)
    \/ Answered(t) \/ Refund(t) \/ Fault(t)

Next ==
    \/ Tick
    \/ \E l \in Lots : BuyLot(l)
    \/ \E k \in Purchases : BuyPlan(k)
    \/ \E t \in Tasks : RequestStep(t)

Spec == Init /\ [][Next]_vars

(***************************************************************************)
(* Properties                                                              *)
(***************************************************************************)
(* Every variable has its type.                                            *)
TypeOK ==
    /\ now \in 1 .. MaxTime
    /\ sub \in Document(Purchases)
    /\ usage \in [Dates -> UsageDocument]
    /\ welcome \in WelcomePool
    /\ lot \in [Lots -> LotDocument]
    /\ task \in [Tasks -> TaskRecords]
    /\ faults \in 0 .. MaxFaults
    /\ book \in Book

(* No lot is overdrawn, loses or gains a credit: what is left in it, what  *)
(* requests in progress have taken and what finished ones took make up     *)
(* what was bought, through races, rollbacks over several lots, refunds,   *)
(* swallowed exceptions and crashes.                                       *)
LotsConserved ==
    \A l \in Lots :
        lot[l].end # 0 =>
            /\ lot[l].remaining >= 0
            /\ lot[l].remaining + book.lots[l] + SumOver([t \in Tasks |-> task[t].taken[l]], Tasks)
                   = LotQuote[l].credits

(* A request is charged to exactly the bucket its refund_info names: lots  *)
(* cover a daily-pass charge in full and have given nothing to any other   *)
(* request that is answered (check_and_decrement_credits's docstring), as  *)
(* long as no call has raised.                                             *)
ChargedToOneBucket ==
    faults = 0 =>
        \A t \in Tasks :
            At(t, "served") =>
                Total(task[t].taken) = IF task[t].kind = "pass" THEN task[t].cost ELSE 0

(* The welcome pool, checked against a user document that may be stale, is *)
(* never overdrawn, and always holds what refunds may still give back: the *)
(* charges of the requests that took from it.                              *)
WelcomeNeverOverdrawn ==
    /\ welcome.used <= WelcomeLimit
    /\ welcome.used >= SumOver([t \in Tasks |-> IF task[t].kind = "welcome" THEN task[t].cost ELSE 0],
                               Tasks)

MaxCost == CHOOSE c \in Costs : \A d \in Costs : d <= c

(* What the other requests of the same user can add to a check that has    *)
(* already been made.                                                      *)
OthersCost == (Cardinality(Tasks) - 1) * MaxCost

(* The daily quota is read before it is incremented: a day can end up over *)
(* it, but only by what the requests running at the same time cost.        *)
QuotaOverspendIsBounded ==
    (sub.exists = FALSE) =>
        \A d \in Dates : usage[d].used <= LimitWith("limited") + OthersCost

(* The same for the pool, whose balance is derived from documents that are *)
(* read before and after the increment: credits refunded on another day    *)
(* come on top.                                                            *)
PoolOverspendIsBounded ==
    sub.exists => book.charged <= book.paid + book.strayed + OthersCost

OverspendIsBounded == QuotaOverspendIsBounded /\ PoolOverspendIsBounded

(* The credits a subscriber is offered never exceed what was paid for less *)
(* what was charged: "take the higher of the two usage sources so we never *)
(* over-credit" (_get_pool_credits_remaining).                             *)
NeverOverCredited ==
    ActiveAt(sub, now) =>
        PoolRemaining(sub) <= AtLeastZero(book.paid - book.charged + book.strayed)

(* A refund reverses its charge: once a single request has come and gone,  *)
(* the subscriber is offered what was paid for less what was charged       *)
(* (refund_credits: "Reverse a check_and_decrement_credits charge").       *)
RefundReversesCharge ==
    (ActiveAt(sub, now) /\ faults = 0 /\ \A t \in Tasks : At(t, "idle")) =>
        PoolRemaining(sub) = AtLeastZero(book.paid - book.charged)
=============================================================================
