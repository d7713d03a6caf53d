------------------------ MODULE SubscriptionDocument ------------------------
(***************************************************************************)
(* The documents of the `subscriptions' collection (one per user, the      *)
(* recurring pool plans) and the one-document writes that turn them into   *)
(* each other.  Everything here is a function of its arguments: the        *)
(* modules that hold state decide when a write happens and which document  *)
(* it sees.                                                                *)
(*                                                                         *)
(* A quote is [tier, period, days, credits].  The fields of a document     *)
(* that no reader branches on (amount, provider ids, carry-over report)    *)
(* are left out.  Time counts in the unit of `days'.                       *)
(***************************************************************************)
EXTENDS Integers

PoolTiers == {"standard", "pro"}
DailyTiers == {"basic", "standard", "premium"}
PoolPeriods == {"monthly", "quarterly", "semiannual", "yearly"}

Larger(a, b) == IF a > b THEN a ELSE b
AtLeastZero(n) == Larger(0, n)

(* `exists' is FALSE for a user who has no document yet; `grants' is the   *)
(* applied_payment_grants array as a set.                                  *)
Document(Keys) ==
    [exists : BOOLEAN, tier : PoolTiers \cup {"none"}, period : PoolPeriods \cup {"none"},
     start : Nat, end : Nat, total : Int, remaining : Nat, grants : SUBSET Keys]

NoDocument ==
    [exists |-> FALSE, tier |-> "none", period |-> "none", start |-> 0,
     end |-> 0, total |-> 0, remaining |-> 0, grants |-> {}]

(* The catalog sells "standard" both as a pool plan and as a daily pass.   *)
Quote ==
    [tier : PoolTiers, period : PoolPeriods, days : Nat \ {0}, credits : Nat \ {0}]
        \cup
    [tier : DailyTiers, period : {"daily"}, days : Nat \ {0}, credits : Nat \ {0}]

IsDailyPassQuote(q) == q.period = "daily"

ActiveAt(d, t) == d.end > t

(* Mutant: seeding replaces the document a concurrent grant has written.   *)
SeededOver(d, legacy) == [legacy EXCEPT !.exists = TRUE]

(* The upsert that seeds a missing document: an existing one is left alone *)
(* ($setOnInsert), a legacy record embedded in the user is copied.         *)
Seeded(d, legacy) == IF d.exists THEN d ELSE [legacy EXCEPT !.exists = TRUE]

(* Mutant: the whole old allowance is carried, not its unused part.        *)
CarriedTotal(d, t) == IF ActiveAt(d, t) THEN d.total ELSE 0

(* The unused credits an aggregation pipeline reads from the document it   *)
(* is about to replace.                                                    *)
CarriedCredits(d, t) == IF ActiveAt(d, t) THEN AtLeastZero(d.remaining) ELSE 0

UpgradesToPro(d, q, fullPrice, t) ==
    fullPrice /\ q.tier = "pro" /\ ActiveAt(d, t) /\ d.tier = "standard"

(* Mutant: a renewal starts today instead of when the running period ends. *)
WebGrantFromNow(d, q, key, fullPrice, t) ==
    LET balance == CarriedCredits(d, t) + q.credits
    IN  [exists |-> TRUE, tier |-> q.tier, period |-> q.period, start |-> t,
         end |-> t + q.days, total |-> q.credits, remaining |-> balance,
         grants |-> d.grants \cup {key}]

(* The pipeline of _apply_web_payment_grant: computed from the current     *)
(* document, never from an earlier read, and recorded under the grant key. *)
WebGrant(d, q, key, fullPrice, t) ==
    LET upgrade == UpgradesToPro(d, q, fullPrice, t)
        start   == IF upgrade THEN t ELSE Larger(t, d.end)
        balance == CarriedCredits(d, t) + q.credits
    IN  [exists |-> TRUE, tier |-> q.tier, period |-> q.period,
         start |-> start, end |-> start + q.days,
         total |-> IF upgrade THEN balance ELSE q.credits,
         remaining |-> balance,
         grants |-> d.grants \cup {key}]

(* Mutant: the grant key is recorded but not looked up.                    *)
GrantAgain(d, key) == TRUE

(* The guard of that write: the filter on the grant key.                   *)
GrantIsNew(d, key) == key \notin d.grants
=============================================================================
