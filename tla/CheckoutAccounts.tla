-------------------------- MODULE CheckoutAccounts --------------------------
(***************************************************************************)
(* The plan a customer ends up with against the purchases that paid for    *)
(* it, over any history of orders.                                         *)
(***************************************************************************)
EXTENDS WebCheckout, Sums

ASSUME AccountsAssumption == IsFiniteSet(Orders)

PoolPurchases(u) ==
    {o \in Orders : OwnerOf[o] = u /\ ~IsDailyPassQuote(QuoteOf[o]) /\ Granted(o)}

Credits == [o \in Orders |-> QuoteOf[o].credits]
Days == [o \in Orders |-> QuoteOf[o].days]

(* No sequence of purchases, upgrades, renewals, retries and legacy seeds  *)
(* yields credits nobody bought, or access beyond the days that were paid  *)
(* for, counted from the later of today and the end of the legacy record.  *)
PlanIsPaidFor ==
    \A u \in Users :
        /\ sub[u].remaining <= Legacy[u].remaining + SumOver(Credits, PoolPurchases(u))
        /\ sub[u].end <= Larger(now, Legacy[u].end) + SumOver(Days, PoolPurchases(u))
=============================================================================
