-------------------------------- MODULE Payme -------------------------------
(***************************************************************************)
(* The Payme Merchant API handlers (TransactionService): Create, Perform,  *)
(* Cancel and CheckTransaction.  Each reads the transaction once and later *)
(* overwrites it unconditionally, so what it read may be stale.            *)
(*                                                                         *)
(* Calls that are refused, and repeats that only return what is stored,    *)
(* change nothing and are not actions.  A transaction's create_time is the *)
(* time Payme sends with the call, here the time of the call.              *)
(***************************************************************************)
EXTENDS Finalization

CONSTANTS
    PaymeOrders, PaymeTxs,
    TxTimeout       \* the 12 hours after which a pending transaction expires

ASSUME PaymeAssumption ==
    PaymeOrders \subseteq Orders /\ PaymeTxs \subseteq Txs /\ TxTimeout \in Nat \ {0}

Expired(t) == now - tx[t].created >= TxTimeout

PaymeOpen(t) == tx[t].state = "Pending"

SetTxState(t, state) == tx' = [tx EXCEPT ![t].state = state]

(* A pending transaction past its time is canceled by whichever handler    *)
(* finds it: CreateTransaction, PerformTransaction or CheckTransaction.    *)
PaymeFindsExpired(c, t) ==
    /\ PaymeOpen(t) /\ Expired(t)
    /\ Starts(c, "expire", tx[t].order, t, "Pending")
    /\ UNCHANGED <<now, invoice, tx, sub, lotEnd, faults, answered, charged, grantCount>>

PaymeExpire(c) ==
    /\ At(c, "expire")
    /\ SetTxState(call[c].tx, "PendingCanceled")
    /\ Ends(c)
    /\ UNCHANGED <<now, invoice, sub, lotEnd, faults, answered, charged, grantCount>>

(***************************************************************************)
(* CreateTransaction                                                       *)
(***************************************************************************)
PaymeCreate(c, t, o) ==
    /\ tx[t].state = "none"
    /\ Starts(c, "checkPerform", o, t, "none")
    /\ UNCHANGED <<now, invoice, tx, sub, lotEnd, faults, answered, charged, grantCount>>

PaymeCheckPerform(c) ==
    /\ At(c, "checkPerform")
    /\ IF invoice[call[c].order].status = "pending" THEN Goes(c, "findOther") ELSE Ends(c)
    /\ UNCHANGED <<now, invoice, tx, sub, lotEnd, faults, answered, charged, grantCount>>

(* find_one returns one transaction of the order, whichever comes first    *)
(* in the collection, and only that one is asked whether it is pending.    *)
PaymeFindOther(c) ==
    LET others == {t \in PaymeTxs : tx[t].order = call[c].order}
    IN  /\ At(c, "findOther")
        /\ IF others = {}
           THEN Goes(c, "insertTx")
           ELSE \E t \in others : IF PaymeOpen(t) THEN Ends(c) ELSE Goes(c, "insertTx")
        /\ UNCHANGED <<now, invoice, tx, sub, lotEnd, faults, answered, charged, grantCount>>

(* A concurrent create of the same id may have inserted it meanwhile: the  *)
(* collection then holds a second document, which no lookup returns.       *)
PaymeInsertTx(c) ==
    LET t == call[c].tx
    IN  /\ At(c, "insertTx")
        /\ Goes(c, "linkInvoice")
        /\ IF tx[t].state = "none"
           THEN tx' = [tx EXCEPT ![t] = [state |-> "Pending", order |-> call[c].order,
                                         created |-> call[c].began]]
           ELSE UNCHANGED tx
        /\ UNCHANGED <<now, invoice, sub, lotEnd, faults, answered, charged, grantCount>>

PaymeLinkInvoice(c) ==
    /\ At(c, "linkInvoice")
    /\ invoice' = [invoice EXCEPT ![call[c].order].link = call[c].tx]
    /\ Ends(c)
    /\ UNCHANGED <<now, tx, sub, lotEnd, faults, answered, charged, grantCount>>

(***************************************************************************)
(* PerformTransaction                                                      *)
(***************************************************************************)
(* Mutant: a paid transaction is answered from what is stored.             *)
PaymePerformTrustsPaid(c, t) ==
    /\ \/ /\ tx[t].state = "Paid"
          /\ answered' = answered \cup {t}
          /\ UNCHANGED call
       \/ /\ PaymeOpen(t) /\ ~Expired(t)
          /\ Starts(c, "markPaid", tx[t].order, t, "Pending")
          /\ UNCHANGED answered
    /\ UNCHANGED <<now, invoice, tx, sub, lotEnd, faults, charged, grantCount>>

(* Mutant: only a pending transaction can be performed.                    *)
PaymePerformOnce(c, t) ==
    /\ PaymeOpen(t) /\ ~Expired(t)
    /\ Starts(c, "markPaid", tx[t].order, t, "Pending")
    /\ UNCHANGED <<now, invoice, tx, sub, lotEnd, faults, answered, charged, grantCount>>

(* A paid transaction is finalized again before the saved result is        *)
(* returned; any other state but Pending is refused.                       *)
PaymePerform(c, t) ==
    /\ \/ /\ tx[t].state = "Paid"
          /\ Starts(c, "readInvoice", tx[t].order, t, "Paid")
       \/ /\ PaymeOpen(t) /\ ~Expired(t)
          /\ Starts(c, "markPaid", tx[t].order, t, "Pending")
    /\ UNCHANGED <<now, invoice, tx, sub, lotEnd, faults, answered, charged, grantCount>>

PaymeMarkPaid(c) ==
    /\ At(c, "markPaid")
    /\ SetTxState(call[c].tx, "Paid")
    /\ charged' = charged \cup {call[c].order}
    /\ Goes(c, "invoicePaid")
    /\ UNCHANGED <<now, invoice, sub, lotEnd, faults, answered, grantCount>>

PaymeInvoicePaid(c) ==
    /\ At(c, "invoicePaid")
    /\ SetInvoiceStatus(call[c].order, "paid")
    /\ Goes(c, "readInvoice")
    /\ UNCHANGED <<now, tx, sub, lotEnd, faults, answered, charged, grantCount>>

(***************************************************************************)
(* CancelTransaction: the state written is the negation of the one read.   *)
(***************************************************************************)
PaymeCancel(c, t) ==
    /\ tx[t].state \in {"Pending", "Paid"}
    /\ Starts(c, "cancelTx", tx[t].order, t, tx[t].state)
    /\ UNCHANGED <<now, invoice, tx, sub, lotEnd, faults, answered, charged, grantCount>>

PaymeCancelTx(c) ==
    /\ At(c, "cancelTx")
    /\ SetTxState(call[c].tx, IF call[c].seen = "Paid" THEN "PaidCanceled" ELSE "PendingCanceled")
    /\ Goes(c, "invoiceCanceled")
    /\ UNCHANGED <<now, invoice, sub, lotEnd, faults, answered, charged, grantCount>>

PaymeInvoiceCanceled(c) ==
    /\ At(c, "invoiceCanceled")
    /\ SetInvoiceStatus(call[c].order, "canceled")
    /\ Ends(c)
    /\ UNCHANGED <<now, tx, sub, lotEnd, faults, answered, charged, grantCount>>

(* The steps of a task that is already running. *)
PaymeProgress(c) ==
    \/ PaymeExpire(c) \/ PaymeCheckPerform(c) \/ PaymeFindOther(c) \/ PaymeInsertTx(c)
    \/ PaymeLinkInvoice(c) \/ PaymeMarkPaid(c) \/ PaymeInvoicePaid(c)
    \/ PaymeCancelTx(c) \/ PaymeInvoiceCanceled(c)

PaymeRequest(c) ==
    \E t \in PaymeTxs :
        \/ PaymeFindsExpired(c, t) \/ PaymePerform(c, t) \/ PaymeCancel(c, t)
        \/ \E o \in PaymeOrders : PaymeCreate(c, t, o)

PaymeNext ==
    \/ \E o \in PaymeOrders : InitPayment(o)
    \/ \E c \in Calls : PaymeRequest(c) \/ PaymeProgress(c)
=============================================================================
