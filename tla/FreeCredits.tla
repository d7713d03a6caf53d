----------------------------- MODULE FreeCredits -----------------------------
(***************************************************************************)
(* The buckets of a user without paid credits: the welcome pool, given     *)
(* once and taken by one conditional update, and the quota of the day,     *)
(* read first and incremented afterwards.                                  *)
(***************************************************************************)
EXTENDS CreditBuckets

OnWelcome(w) == ~w.exhausted /\ w.used < WelcomeLimit

(* The promo status decides between the free buckets.  The welcome pool    *)
(* is judged by the user document read when the charge began: leftover     *)
(* credits that do not cover the cost deny the request.  A status that     *)
(* cannot be read counts as "none".                                        *)
ReadPromo(t, promo) ==
    LET r == task[t]
        triesWelcome == promo = "none" /\ r.passLeft = 0 /\ OnWelcome(r.seen)
    IN  /\ At(t, "promo")
        /\ IF promo = "unlimited" THEN Served(t, "none") /\ UNCHANGED book
           ELSE IF triesWelcome /\ WelcomeLimit - r.seen.used < r.cost THEN Ends(t)
           ELSE /\ task' = [task EXCEPT ![t] =
                        [Idle EXCEPT !.at = IF triesWelcome THEN "welcomeTake" ELSE "daily",
                                     !.cost = r.cost, !.taken = r.taken,
                                     !.limit = LimitWith(promo)]]
                /\ UNCHANGED book
        /\ UNCHANGED <<now, sub, usage, welcome, lot, faults>>

(* Mutant: the update is not conditional on what is left.                  *)
WelcomeCoversBlindly(cost) == ~welcome.exhausted

WelcomeCovers(cost) == ~welcome.exhausted /\ welcome.used + cost <= WelcomeLimit

TakeWelcome(t) ==
    LET used == welcome.used + task[t].cost
    IN  /\ At(t, "welcomeTake")
        /\ IF WelcomeCovers(task[t].cost)
           THEN /\ welcome' = [welcome EXCEPT !.used = used]
                /\ IF used >= WelcomeLimit THEN Goes(t, "welcomeMark") ELSE Served(t, "welcome")
           ELSE Goes(t, "welcomeFresh") /\ UNCHANGED welcome
        /\ UNCHANGED <<now, sub, usage, lot, faults, book>>

(* A second, unconditional write.                                          *)
MarkExhausted(t) ==
    /\ At(t, "welcomeMark")
    /\ welcome' = [welcome EXCEPT !.exhausted = TRUE]
    /\ Served(t, "welcome")
    /\ UNCHANGED <<now, sub, usage, lot, faults, book>>

ReadUserAgain(t) ==
    /\ At(t, "welcomeFresh")
    /\ IF OnWelcome(welcome) THEN Ends(t) ELSE Goes(t, "daily") /\ UNCHANGED book
    /\ UNCHANGED <<now, sub, usage, welcome, lot, faults>>

QuotaCovers(t, used) == task[t].limit - used >= task[t].cost

(* A day without a document has nothing used.                              *)
ReadQuota(t) ==
    LET bucket == usage[Today]
    IN  /\ At(t, "daily")
        /\ IF QuotaCovers(t, IF bucket.there THEN bucket.used ELSE 0)
           THEN /\ task' = [task EXCEPT ![t].at = IF bucket.there THEN "dailyAdd" ELSE "dailyNew",
                                        ![t].date = Today]
                /\ UNCHANGED book
           ELSE Ends(t)
        /\ UNCHANGED <<now, sub, usage, welcome, lot, faults>>

(* The increment goes to the date that was read.                           *)
AddQuota(t) ==
    /\ At(t, "dailyAdd")
    /\ usage' = [usage EXCEPT ![task[t].date].used = @ + task[t].cost]
    /\ Served(t, "daily")
    /\ UNCHANGED <<now, sub, welcome, lot, faults, book>>

(* The first charge of a day goes to the day on which it is written.       *)
StartQuota(t) ==
    /\ At(t, "dailyNew")
    /\ AddUsage(task[t].cost)
    /\ task' = [task EXCEPT ![t] = ServedBy("daily", [@ EXCEPT !.date = Today])]
    /\ UNCHANGED <<now, sub, welcome, lot, faults, book>>

(* refund_credits: the pool is open again, whatever it held meanwhile.     *)
RefundWelcome(t) ==
    /\ At(t, "refundWelcome")
    /\ welcome' = [used |-> welcome.used - task[t].cost, exhausted |-> FALSE]
    /\ Ends(t)
    /\ UNCHANGED <<now, sub, usage, lot, faults>>

FreeStep(t) ==
    \/ \E promo \in Promos : ReadPromo(t, promo)
    \/ TakeWelcome(t) \/ MarkExhausted(t) \/ ReadUserAgain(t)
    \/ ReadQuota(t) \/ AddQuota(t) \/ StartQuota(t) \/ RefundWelcome(t)
=============================================================================
