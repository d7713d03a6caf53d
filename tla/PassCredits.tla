----------------------------- MODULE PassCredits -----------------------------
(***************************************************************************)
(* Daily-pass lots (SubscriptionStorage.try_consume_daily_pass_credits and *)
(* refund_daily_pass_credits): a charge takes what it needs lot by lot,    *)
(* soonest expiry first, each by one conditional update, and puts back     *)
(* what it has taken when a lot turns out to be short.                     *)
(***************************************************************************)
EXTENDS CreditBuckets

(* The lots a query at time t returns, with what is left in them.          *)
Offered(t) == [l \in Lots |-> IF lot[l].end > t THEN lot[l].remaining ELSE 0]

ReadSummary(t) ==
    LET left == Total(Offered(now))
    IN  /\ At(t, "passSummary")
        /\ task' = [task EXCEPT ![t].passLeft = left,
                                ![t].at = IF left >= task[t].cost THEN "passRead" ELSE "promo"]
        /\ UNCHANGED <<now, sub, usage, welcome, lot, faults, book>>

(* The service sees None and looks further; a lot taken stays taken.       *)
WithoutPass(r) == [r EXCEPT !.at = "promo", !.began = 0, !.offered = NothingTaken]

ReadLots(t) ==
    /\ At(t, "passRead")
    /\ IF Total(Offered(now)) < task[t].cost
       THEN Goes(t, "promo")
       ELSE task' = [task EXCEPT ![t].at = "passTake", ![t].began = now,
                                 ![t].offered = Offered(now)]
    /\ UNCHANGED <<now, sub, usage, welcome, lot, faults, book>>

(* The next lot: the one that expires first among those still to be asked. *)
Wanted(t) == {l \in Lots : task[t].offered[l] > 0 /\ task[t].taken[l] = 0}
NextLots(t) == {l \in Wanted(t) : \A m \in Wanted(t) : lot[l].end <= lot[m].end}

Missing(t) == task[t].cost - Total(task[t].taken)
Spend(t, l) == IF task[t].offered[l] < Missing(t) THEN task[t].offered[l] ELSE Missing(t)

(* The lot holds enough and is not over: the filter of the update.         *)
CanTake(t, l) == lot[l].end > task[t].began /\ lot[l].remaining >= Spend(t, l)

Takes(t, l) ==
    /\ lot' = [lot EXCEPT ![l].remaining = @ - Spend(t, l)]
    /\ task' = [task EXCEPT ![t].taken[l] = Spend(t, l),
                            ![t].at = IF Spend(t, l) = Missing(t) THEN "passReport" ELSE @]

(* Mutant: the lots already taken from are not rolled back.                *)
TakeLotGivesUp(t, l) ==
    /\ At(t, "passTake") /\ l \in NextLots(t)
    /\ IF CanTake(t, l)
       THEN Takes(t, l)
       ELSE task' = [task EXCEPT ![t] = WithoutPass(@)] /\ UNCHANGED lot
    /\ UNCHANGED <<now, sub, usage, welcome, faults, book>>

TakeLot(t, l) ==
    /\ At(t, "passTake") /\ l \in NextLots(t)
    /\ IF CanTake(t, l)
       THEN Takes(t, l)
       ELSE /\ task' = [task EXCEPT ![t] = IF @.taken = NothingTaken
                                           THEN WithoutPass(@)
                                           ELSE [@ EXCEPT !.at = "passRollback"]]
            /\ UNCHANGED lot
    /\ UNCHANGED <<now, sub, usage, welcome, faults, book>>

(* The lots are read once more for the answer.                             *)
ReportLots(t) ==
    /\ At(t, "passReport")
    /\ Served(t, "pass")
    /\ UNCHANGED <<now, sub, usage, welcome, lot, faults, book>>

(* One lot of `consumed' is given back; the last one ends the loop.        *)
GiveBack(t, l) ==
    /\ task[t].taken[l] > 0
    /\ lot' = [lot EXCEPT ![l].remaining = @ + task[t].taken[l]]

LastTaken(t, l) == \A m \in Lots \ {l} : task[t].taken[m] = 0

RollBackLot(t, l) ==
    /\ At(t, "passRollback")
    /\ GiveBack(t, l)
    /\ LET given == [task[t] EXCEPT !.taken[l] = 0]
       IN  task' = [task EXCEPT ![t] = IF LastTaken(t, l) THEN WithoutPass(given) ELSE given]
    /\ UNCHANGED <<now, sub, usage, welcome, faults, book>>

(* Mutant: only the first of the lots is given back.                       *)
RefundFirstLot(t, l) ==
    /\ At(t, "refundLots")
    /\ GiveBack(t, l)
    /\ task' = [task EXCEPT ![t] = Idle]
    /\ UNCHANGED <<now, sub, usage, welcome, faults, book>>

RefundLot(t, l) ==
    /\ At(t, "refundLots")
    /\ GiveBack(t, l)
    /\ task' = [task EXCEPT ![t] = IF LastTaken(t, l) THEN Idle ELSE [@ EXCEPT !.taken[l] = 0]]
    /\ UNCHANGED <<now, sub, usage, welcome, faults, book>>

PassStep(t) ==
    \/ ReadSummary(t) \/ ReadLots(t) \/ ReportLots(t)
    \/ \E l \in Lots : TakeLot(t, l) \/ RollBackLot(t, l) \/ RefundLot(t, l)
=============================================================================
