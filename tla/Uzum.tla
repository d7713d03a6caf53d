-------------------------------- MODULE Uzum --------------------------------
(***************************************************************************)
(* The Uzum Merchant API handlers (UzumService): /create, /confirm and     *)
(* /reverse.  The provider's transId is at once the transaction id and the *)
(* order id, and both collections have a unique index on it.               *)
(***************************************************************************)
EXTENDS Finalization

CONSTANTS
    UzumTxs,
    UzumOrder       \* UzumOrder[t]: the order that transId t names

ASSUME UzumAssumption == UzumTxs \subseteq Txs /\ UzumOrder \in [UzumTxs -> Orders]

(***************************************************************************)
(* /create                                                                 *)
(***************************************************************************)
UzumCreate(c, t) ==
    /\ tx[t].state = "none"
    /\ Starts(c, "uzum eligible", UzumOrder[t], t, "none")
    /\ UNCHANGED <<now, invoice, tx, sub, lotEnd, faults, answered, charged, grantCount>>

UzumEligible(c) ==
    LET o == call[c].order
    IN  /\ At(c, "uzum eligible")
        /\ IF Eligible(OwnerOf[o], QuoteOf[o], call[c].began)
           THEN Goes(c, "uzum insertInvoice")
           ELSE Ends(c)
        /\ UNCHANGED <<now, invoice, tx, sub, lotEnd, faults, answered, charged, grantCount>>

(* The unique index on (provider, order_id) refuses a second invoice.      *)
UzumInsertInvoice(c) ==
    LET o == call[c].order
    IN  /\ At(c, "uzum insertInvoice")
        /\ IF invoice[o].status = "none"
           THEN /\ invoice' = [invoice EXCEPT ![o] = [PendingInvoice EXCEPT !.link = call[c].tx]]
                /\ Goes(c, "uzum insertTx")
           ELSE /\ Ends(c)
                /\ UNCHANGED invoice
        /\ UNCHANGED <<now, tx, sub, lotEnd, faults, answered, charged, grantCount>>

UzumInsertTx(c) ==
    /\ At(c, "uzum insertTx")
    /\ tx' = [tx EXCEPT ![call[c].tx] = [state |-> "CREATED", order |-> call[c].order,
                                         created |-> call[c].began]]
    /\ Ends(c)
    /\ UNCHANGED <<now, invoice, sub, lotEnd, faults, answered, charged, grantCount>>

(* Mutant: finalization is entered before the payment is recorded.         *)
UzumConfirmGrantsFirst(c, t) ==
    /\ tx[t].state \in {"CREATED", "CONFIRMED"}
    /\ Starts(c, "readInvoice", tx[t].order, t, tx[t].state)
    /\ UNCHANGED <<now, invoice, tx, sub, lotEnd, faults, answered, charged, grantCount>>

(***************************************************************************)
(* /confirm: a confirmed transaction is finalized again, in case an        *)
(* earlier attempt died before granting it.                                *)
(***************************************************************************)
UzumConfirm(c, t) ==
    /\ \/ /\ tx[t].state = "CONFIRMED"
          /\ Starts(c, "readInvoice", tx[t].order, t, "CONFIRMED")
       \/ /\ tx[t].state = "CREATED"
          /\ Starts(c, "uzum markPaid", tx[t].order, t, "CREATED")
    /\ UNCHANGED <<now, invoice, tx, sub, lotEnd, faults, answered, charged, grantCount>>

UzumMarkPaid(c) ==
    /\ At(c, "uzum markPaid")
    /\ tx' = [tx EXCEPT ![call[c].tx].state = "CONFIRMED"]
    /\ charged' = charged \cup {call[c].order}
    /\ Goes(c, "uzum invoicePaid")
    /\ UNCHANGED <<now, invoice, sub, lotEnd, faults, answered, grantCount>>

UzumInvoicePaid(c) ==
    /\ At(c, "uzum invoicePaid")
    /\ SetInvoiceStatus(call[c].order, "paid")
    /\ Goes(c, "readInvoice")
    /\ UNCHANGED <<now, tx, sub, lotEnd, faults, answered, charged, grantCount>>

(* An exception inside finalization is logged; the answer is CONFIRMED.    *)
UzumFinalizeRaises(c) ==
    /\ call[c].at \in FinalizeSteps
    /\ call[c].tx \in UzumTxs
    /\ faults < MaxFaults
    /\ faults' = faults + 1
    /\ FinalizeEnds(c)
    /\ UNCHANGED <<now, invoice, tx, sub, lotEnd, charged, grantCount>>

(***************************************************************************)
(* /reverse: also of a confirmed transaction, whose grant stays.           *)
(***************************************************************************)
UzumReverse(c, t) ==
    /\ tx[t].state \in {"CREATED", "CONFIRMED"}
    /\ Starts(c, "uzum reverseTx", tx[t].order, t, tx[t].state)
    /\ UNCHANGED <<now, invoice, tx, sub, lotEnd, faults, answered, charged, grantCount>>

UzumReverseTx(c) ==
    /\ At(c, "uzum reverseTx")
    /\ tx' = [tx EXCEPT ![call[c].tx].state = "REVERSED"]
    /\ Goes(c, "uzum invoiceCanceled")
    /\ UNCHANGED <<now, invoice, sub, lotEnd, faults, answered, charged, grantCount>>

UzumInvoiceCanceled(c) ==
    /\ At(c, "uzum invoiceCanceled")
    /\ SetInvoiceStatus(call[c].order, "canceled")
    /\ Ends(c)
    /\ UNCHANGED <<now, tx, sub, lotEnd, faults, answered, charged, grantCount>>

UzumProgress(c) ==
    \/ UzumEligible(c) \/ UzumInsertInvoice(c) \/ UzumInsertTx(c)
    \/ UzumMarkPaid(c) \/ UzumInvoicePaid(c) \/ UzumReverseTx(c) \/ UzumInvoiceCanceled(c)

UzumRequest(c) ==
    \E t \in UzumTxs : UzumCreate(c, t) \/ UzumConfirm(c, t) \/ UzumReverse(c, t)

UzumNext == \E c \in Calls : UzumRequest(c) \/ UzumProgress(c) \/ UzumFinalizeRaises(c)
=============================================================================
