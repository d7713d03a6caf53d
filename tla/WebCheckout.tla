---------------------------- MODULE WebCheckout -----------------------------
(***************************************************************************)
(* The three web payment providers side by side, over one invoices         *)
(* collection, one subscriptions collection and one finalization path,     *)
(* with every interleaving of their callbacks' database calls.             *)
(***************************************************************************)
EXTENDS Payme, Click, Uzum

(* Every provider names its own transactions and orders. *)
ASSUME WebCheckoutAssumption ==
    /\ PaymeTxs \cap ClickTxs = {} /\ PaymeTxs \cap UzumTxs = {} /\ ClickTxs \cap UzumTxs = {}

Progress(c) == Finalize(c) \/ PaymeProgress(c) \/ ClickProgress(c) \/ UzumProgress(c)

Next ==
    \/ PaymeNext
    \/ ClickNext
    \/ UzumNext
    \/ \E c \in Calls : Finalize(c)
    \/ Environment

Spec == Init /\ [][Next]_vars

(* The event loop runs every task that is ready.  Payme repeats            *)
(* PerformTransaction until it is answered: the repeat must get through    *)
(* whenever it could again and again.                                      *)
Fairness ==
    /\ \A c \in Calls : WF_vars(Progress(c))
    /\ \A t \in PaymeTxs : SF_vars(\E c \in Calls : PaymePerform(c, t))

LiveSpec == Spec /\ Fairness

(* What every variable holds: callbacks only ever write well-formed        *)
(* invoices, transactions, subscriptions and lots.                         *)
TypeOK ==
    /\ now \in Nat
    /\ invoice \in [Orders -> Invoices]
    /\ tx \in [Txs -> Transactions]
    /\ sub \in [Users -> Document(Orders)]
    /\ lotEnd \in [Orders -> Nat]
    /\ call \in [Calls -> CallRecords]
    /\ faults \in Nat
    /\ answered \subseteq Txs
    /\ charged \subseteq Orders
    /\ grantCount \in [Orders -> Nat]

(***************************************************************************)
(* Safety.                                                                 *)
(***************************************************************************)
(* However many callbacks, retries, duplicate transactions and crashes an  *)
(* order sees, its credits (or its lot) are written at most once.          *)
GrantedAtMostOnce == \A o \in Orders : grantCount[o] <= 1

(* Nothing is granted for an order no transaction of which was ever paid:  *)
(* the finalization path is only entered behind a recorded payment.        *)
GrantedOnlyIfCharged == \A o \in Orders : Granted(o) => o \in charged

(* Both together: a purchase is written once, and only behind a charge.    *)
GrantedOnceIfCharged == GrantedAtMostOnce /\ GrantedOnlyIfCharged

(* subscription_applied closes an invoice to every later retry, so it may  *)
(* be TRUE only when the purchase is already stored.                       *)
AppliedIsGranted == \A o \in Orders : invoice[o].applied => Granted(o)

(* Once Payme has its answer to PerformTransaction it never asks again, so *)
(* the purchase must be stored by then, even when another task canceled,   *)
(* repeated or lost parts of the work.                                     *)
PaymeAnswerIsGranted == \A t \in PaymeTxs \cap answered : Granted(tx[t].order)

(* The statement of docs/uzum-integration.md that the first successful     *)
(* /confirm grants the subscription: a transaction Uzum was told CONFIRMED *)
(* for is granted.                                                         *)
UzumAnswerIsGranted == \A t \in UzumTxs \cap answered : Granted(tx[t].order)

(* A purchase never takes away what an earlier one paid for: while a plan  *)
(* is active no checkout step lowers its unused credits or its paid-       *)
(* through date, except that a Standard to Pro upgrade restarts the period.*)
PaidBalanceSurvives ==
    [][\A u \in Users :
          ActiveAt(sub[u], now) =>
              /\ sub'[u].remaining >= sub[u].remaining
              /\ \/ sub'[u].end >= sub[u].end
                 \/ sub[u].tier = "standard" /\ sub'[u].tier = "pro"]_vars

(* Checkout implements the ledger of paid, granted and settled orders.     *)
Ledger == INSTANCE PaidOrders WITH
    paid <- charged,
    granted <- {o \in Orders : Granted(o)},
    settled <- {o \in Orders : invoice[o].applied}

ImplementsPaidOrders == Ledger!Spec

(***************************************************************************)
(* Liveness.                                                               *)
(***************************************************************************)
(* Money that Payme took is turned into a settled order or given back: a   *)
(* lost callback is repaired by the provider's next retry.                 *)
PaidIsSettled ==
    \A t \in PaymeTxs :
        tx[t].state = "Paid" ~> (tx[t].state # "Paid" \/ invoice[tx[t].order].applied)

(***************************************************************************)
(* The inductive strengthening of the safety properties.                   *)
(***************************************************************************)
(* Steps behind a recorded payment of the call's order.                    *)
AfterPayment == FinalizeSteps \cup {"invoicePaid", "click invoicePaid", "uzum invoicePaid"}

(* Steps that follow a lookup of the call's transaction.                   *)
AfterLookup ==
    AfterPayment \cup {"expire", "markPaid", "cancelTx", "click readInvoice", "click markPaid",
                       "click cancelTx", "uzum markPaid", "uzum reverseTx"}

(* Steps reached without having seen the order's invoice.                  *)
BeforeInvoice == {"idle", "checkPerform", "uzum eligible", "uzum insertInvoice"}

PaymeCreation == {"checkPerform", "findOther", "insertTx"}
ClickCreation == {"click findTx", "click insertTx"}
UzumCreation == {"uzum eligible", "uzum insertInvoice", "uzum insertTx"}

CallOK(r) ==
    /\ r.at # "idle" => r.order \in Orders /\ r.tx \in Txs
    /\ r.began <= now
    /\ r.at \notin BeforeInvoice => invoice[r.order].status # "none"
    /\ r.at \in AfterLookup => tx[r.tx].state # "none" /\ tx[r.tx].order = r.order
    /\ r.at \in AfterPayment => r.order \in charged
    /\ r.at \in PaymeCreation => r.tx \in PaymeTxs
    /\ r.at \in ClickCreation => r.tx \in ClickTxs
    /\ r.at \in UzumCreation => r.tx \in UzumTxs /\ r.order = UzumOrder[r.tx]
    /\ r.at \in {"findLot", "insertLot"} => IsDailyPassQuote(QuoteOf[r.order])
    /\ r.at \in {"seed", "grant"} => ~IsDailyPassQuote(QuoteOf[r.order])
    /\ r.at = "grant" => sub[OwnerOf[r.order]].exists
    /\ r.at = "markApplied" => Granted(r.order)

TxOK(t) ==
    /\ tx[t].state # "none" => /\ tx[t].order \in Orders
                               /\ invoice[tx[t].order].status # "none"
                               /\ t \in UzumTxs => tx[t].order = UzumOrder[t]
    /\ tx[t].state \in ChargedStates => tx[t].order \in charged
    /\ t \in PaymeTxs \cap answered => tx[t].state # "none" /\ Granted(tx[t].order)

OrderOK(o) ==
    /\ grantCount[o] = IF Granted(o) THEN 1 ELSE 0
    /\ Granted(o) => o \in charged
    /\ invoice[o].applied => Granted(o) /\ invoice[o].status # "none"

(* Each task agrees with the documents it will write next, each            *)
(* transaction with its order, and each order's grant with its history.    *)
CheckoutConsistent ==
    /\ \A c \in Calls : CallOK(call[c])
    /\ \A t \in Txs : TxOK(t)
    /\ \A o \in Orders : OrderOK(o)
    /\ \A u \in Users : ~sub[u].exists => sub[u] = NoDocument

IInv == TypeOK /\ CheckoutConsistent

(* What no step takes back, so that what a task knows stays true while it  *)
(* waits for others.                                                       *)
Forward ==
    /\ now <= now'
    /\ charged \subseteq charged'
    /\ \A o \in Orders : invoice[o].status # "none" => invoice'[o].status # "none"
    /\ \A t \in Txs : tx[t].state # "none" =>
                          tx'[t].state # "none" /\ tx'[t].order = tx[t].order
    /\ \A u \in Users : sub[u].exists => sub'[u].exists
    /\ \A o \in Orders : Granted(o) => Granted(o)'
=============================================================================
