---------------------------- MODULE MCStoreSales ----------------------------
(***************************************************************************)
(* An instance of StoreSales for TLC: a Standard plan of the App Store, a  *)
(* Pro plan of Google Play, and a web payment.  Either there is only one   *)
(* customer, who spends credits meanwhile, or the device has a second      *)
(* user, who has no plan, and nothing is spent.                            *)
(***************************************************************************)
EXTENDS StoreSales, TLC

CONSTANTS u1, g1

VARIABLE scene

Standard == [tier |-> "standard", period |-> "monthly", days |-> 1, credits |-> 1]
Pro == [tier |-> "pro", period |-> "monthly", days |-> 1, credits |-> 1]

OneCustomer == [o \in WebOrders |-> u1]
OwnChains == [t \in Txs |-> t]
StoreQuotes == [t \in Txs |-> IF t = g1 THEN Pro ELSE Standard]
OneDay == [t \in Txs |-> 1]
StandardPlan == [o \in WebOrders |-> Standard]

(* The customer has a Standard plan embedded in the user's document.       *)
OldPlan == [NoDocument EXCEPT !.tier = "standard", !.period = "monthly", !.end = 1,
                              !.total = 1, !.remaining = 1]
OnePlanIsOld == [u \in Users |-> IF u = u1 THEN OldPlan ELSE NoDocument]

SaleInit == Init /\ scene \in {"one customer", "shared device"}

SaleNext ==
    /\ Next
    /\ scene' = scene
    /\ IF scene = "one customer"
       THEN \A c \in Calls : call'[c].user \in {u1, None}
       ELSE \A u \in Users : ~Spend(u)

SaleSpec == SaleInit /\ [][SaleNext]_<<vars, scene>>

TasksAreAlike == Permutations(Calls)
=============================================================================
