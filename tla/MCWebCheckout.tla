--------------------------- MODULE MCWebCheckout ----------------------------
(***************************************************************************)
(* Instances of WebCheckout for TLC: one customer, one or two orders per   *)
(* provider.  One time unit is one day; a "month" is two of them, so that  *)
(* a plan bought at 0 is running at 1 and over at 2.                       *)
(***************************************************************************)
EXTENDS CheckoutAccounts, TLC

CONSTANTS u1, payme1, click1, uzum1, p1, p2, k1, z1, c1, c2

Standard == [tier |-> "standard", period |-> "monthly", days |-> 2, credits |-> 2]
Pro == [tier |-> "pro", period |-> "monthly", days |-> 2, credits |-> 3]
BasicPass == [tier |-> "basic", period |-> "daily", days |-> 1, credits |-> 1]

OneCustomer == [o \in Orders |-> u1]
OneUzumOrder == [t \in UzumTxs |-> uzum1]

(* Two recurring plans through two providers. *)
RaceQuotes == [o \in Orders |-> IF o = click1 THEN Pro ELSE Standard]

PassQuotes == [o \in Orders |-> BasicPass]

NoLegacy == [u \in Users |-> NoDocument]

(* The record a customer had before the subscriptions collection existed. *)
LegacyStandard ==
    [u \in Users |-> [NoDocument EXCEPT !.tier = "standard", !.period = "monthly",
                                        !.end = 1, !.total = 2, !.remaining = 1]]

TasksAreAlike == Permutations(Calls)
=============================================================================
