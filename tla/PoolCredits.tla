----------------------------- MODULE PoolCredits -----------------------------
(***************************************************************************)
(* The pool of a running subscription.  What is left of it is derived from *)
(* the creditusage documents inside the subscription's window of dates;    *)
(* the document's credits_remaining follows behind.                        *)
(***************************************************************************)
EXTENDS CreditBuckets

UsedOn == [d \in Dates |-> usage[d].used]

(* Mutant: the window leaves out the day the subscription starts on.       *)
UsedAfterStart(doc) ==
    SumOver(UsedOn, {d \in Dates : Date(doc.start) < d /\ d <= Date(doc.end)})

UsedInPeriod(doc) ==
    IF doc.start = 0 \/ doc.end = 0 \/ doc.end < doc.start
    THEN 0
    ELSE SumOver(UsedOn, {d \in Dates : Date(doc.start) <= d /\ d <= Date(doc.end)})

(* Mutant: the balance written in the document is believed.                *)
DocumentRemaining(doc) == AtLeastZero(doc.remaining)

(* The document is the one read earlier, the usage documents are current.  *)
PoolRemaining(doc) ==
    LET legacyUsed == AtLeastZero(doc.total - doc.remaining)
    IN  AtLeastZero(doc.total - Larger(UsedInPeriod(doc), legacyUsed))

(***************************************************************************)
(* _get_active_pool_subscription and _consume_pool_credits                 *)
(***************************************************************************)
ReadPool(t) ==
    /\ At(t, "readPool")
    /\ IF sub.tier \in PoolTiers /\ ActiveAt(sub, now)
       THEN task' = [task EXCEPT ![t].at = "poolUsage", ![t].doc = sub]
       ELSE Goes(t, "passSummary")
    /\ UNCHANGED <<now, sub, usage, welcome, lot, faults, book>>

(* An empty pool counts as no subscription at all.                         *)
PoolUsage(t) ==
    /\ At(t, "poolUsage")
    /\ Goes(t, IF PoolRemaining(task[t].doc) = 0 THEN "passSummary" ELSE "poolCheck")
    /\ UNCHANGED <<now, sub, usage, welcome, lot, faults, book>>

PoolCheck(t) ==
    /\ At(t, "poolCheck")
    /\ IF PoolRemaining(task[t].doc) < task[t].cost
       THEN Ends(t)
       ELSE Goes(t, "poolIncrement") /\ UNCHANGED book
    /\ UNCHANGED <<now, sub, usage, welcome, lot, faults>>

PoolIncrement(t) ==
    /\ At(t, "poolIncrement")
    /\ AddUsage(task[t].cost)
    /\ task' = [task EXCEPT ![t].at = "poolBalance", ![t].date = Today]
    /\ book' = [book EXCEPT !.charged = @ + task[t].cost]
    /\ UNCHANGED <<now, sub, welcome, lot, faults>>

(* The balance never comes out negative, so the rollback that the code     *)
(* foresees for that case is never reached.                                *)
PoolBalance(t) ==
    /\ At(t, "poolBalance")
    /\ task' = [task EXCEPT ![t].at = "poolSync", ![t].balance = PoolRemaining(task[t].doc)]
    /\ UNCHANGED <<now, sub, usage, welcome, lot, faults, book>>

SetRemaining(balance) == sub' = [sub EXCEPT !.remaining = IF sub.exists THEN balance ELSE @]

PoolSync(t) ==
    /\ At(t, "poolSync")
    /\ SetRemaining(task[t].balance)
    /\ Served(t, "pool")
    /\ UNCHANGED <<now, usage, welcome, lot, faults, book>>

(***************************************************************************)
(* refund_credits of a pool charge, and of a daily-quota charge, which     *)
(* ends after the first step.  The rollback goes to today's document,      *)
(* whatever day the charge was made on.                                    *)
(***************************************************************************)
RefundUsage(t) ==
    LET r == task[t]
        strays == r.date # Today /\ usage[Today].there
    IN  /\ At(t, "refundUsage")
        /\ RollBackUsage(r.cost)
        /\ task' = [task EXCEPT ![t] = IF r.kind = "pool" THEN [r EXCEPT !.at = "refundRead"]
                                                          ELSE Idle]
        /\ book' = [book EXCEPT !.charged = IF r.kind = "pool" THEN @ - r.cost ELSE @,
                                !.strayed = IF strays THEN @ + r.cost ELSE @,
                                !.lots = IF r.kind = "pool" THEN @
                                         ELSE [l \in Lots |-> @[l] + r.taken[l]]]
        /\ UNCHANGED <<now, sub, welcome, lot, faults>>

RefundRead(t) ==
    /\ At(t, "refundRead")
    /\ IF sub.tier \in PoolTiers /\ ActiveAt(sub, now)
       THEN task' = [task EXCEPT ![t].at = "refundActive", ![t].doc = sub] /\ UNCHANGED book
       ELSE Ends(t)
    /\ UNCHANGED <<now, sub, usage, welcome, lot, faults>>

RefundActive(t) ==
    /\ At(t, "refundActive")
    /\ IF PoolRemaining(task[t].doc) = 0
       THEN Ends(t)
       ELSE Goes(t, "refundBalance") /\ UNCHANGED book
    /\ UNCHANGED <<now, sub, usage, welcome, lot, faults>>

RefundBalance(t) ==
    /\ At(t, "refundBalance")
    /\ task' = [task EXCEPT ![t].at = "refundSync", ![t].balance = PoolRemaining(task[t].doc)]
    /\ UNCHANGED <<now, sub, usage, welcome, lot, faults, book>>

RefundSync(t) ==
    /\ At(t, "refundSync")
    /\ SetRemaining(task[t].balance)
    /\ Ends(t)
    /\ UNCHANGED <<now, usage, welcome, lot, faults>>

PoolStep(t) ==
    \/ ReadPool(t) \/ PoolUsage(t) \/ PoolCheck(t) \/ PoolIncrement(t) \/ PoolBalance(t)
    \/ PoolSync(t) \/ RefundUsage(t) \/ RefundRead(t) \/ RefundActive(t) \/ RefundBalance(t)
    \/ RefundSync(t)
=============================================================================
