----------------------------- MODULE PaidOrders -----------------------------
(***************************************************************************)
(* What checkout promises, without tasks, invoices or providers: an order  *)
(* is paid, then granted, then settled (its invoice is closed for further  *)
(* grants), each once and in that order, and none of it is ever undone.    *)
(***************************************************************************)
CONSTANT Orders

VARIABLES paid, granted, settled

ledger == <<paid, granted, settled>>

Init == paid = {} /\ granted = {} /\ settled = {}

Pay(o) ==
    /\ o \notin paid
    /\ paid' = paid \cup {o}
    /\ UNCHANGED <<granted, settled>>

Grant(o) ==
    /\ o \in paid \ granted
    /\ granted' = granted \cup {o}
    /\ UNCHANGED <<paid, settled>>

Settle(o) ==
    /\ o \in granted \ settled
    /\ settled' = settled \cup {o}
    /\ UNCHANGED <<paid, granted>>

Next == \E o \in Orders : Pay(o) \/ Grant(o) \/ Settle(o)

Spec == Init /\ [][Next]_ledger
=============================================================================
