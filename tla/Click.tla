-------------------------------- MODULE Click -------------------------------
(***************************************************************************)
(* The Click SHOP API handlers (ClickService): prepare and complete.       *)
(* Requests with a bad signature, service id, action or amount, and        *)
(* repeats that only report the stored state, change nothing.              *)
(***************************************************************************)
EXTENDS Finalization

CONSTANTS ClickOrders, ClickTxs

ASSUME ClickAssumption == ClickOrders \subseteq Orders /\ ClickTxs \subseteq Txs

(***************************************************************************)
(* prepare                                                                 *)
(***************************************************************************)
ClickPrepare(c, t, o) ==
    /\ invoice[o].status = "pending"
    /\ Starts(c, "click findTx", o, t, "none")
    /\ UNCHANGED <<now, invoice, tx, sub, lotEnd, faults, answered, charged, grantCount>>

ClickFindTx(c) ==
    /\ At(c, "click findTx")
    /\ IF tx[call[c].tx].state = "none" THEN Goes(c, "click insertTx") ELSE Ends(c)
    /\ UNCHANGED <<now, invoice, tx, sub, lotEnd, faults, answered, charged, grantCount>>

(* There is no unique index on click_trans_id: a second document inserted  *)
(* for the same id stays behind the first in every lookup.                 *)
ClickInsertTx(c) ==
    LET t == call[c].tx
    IN  /\ At(c, "click insertTx")
        /\ Goes(c, "click link")
        /\ IF tx[t].state = "none"
           THEN tx' = [tx EXCEPT ![t] = [state |-> "prepared", order |-> call[c].order,
                                         created |-> call[c].began]]
           ELSE UNCHANGED tx
        /\ UNCHANGED <<now, invoice, sub, lotEnd, faults, answered, charged, grantCount>>

ClickLink(c) ==
    /\ At(c, "click link")
    /\ invoice' = [invoice EXCEPT ![call[c].order].link = call[c].tx]
    /\ Ends(c)
    /\ UNCHANGED <<now, tx, sub, lotEnd, faults, answered, charged, grantCount>>

(***************************************************************************)
(* complete: Click names the order its transaction was prepared for.  A    *)
(* paid or canceled transaction is only reported; a negative `error'       *)
(* cancels.  The invoice's own status is never looked at.                  *)
(***************************************************************************)
ClickComplete(c, t, error) ==
    /\ tx[t].state = "prepared"
    /\ Starts(c, "click readInvoice", tx[t].order, t, IF error THEN "canceled" ELSE "prepared")
    /\ UNCHANGED <<now, invoice, tx, sub, lotEnd, faults, answered, charged, grantCount>>

(* now_ms is taken behind the invoice's lookup.                            *)
ClickReadInvoice(c) ==
    /\ At(c, "click readInvoice")
    /\ call' = [call EXCEPT
           ![c].at = IF call[c].seen = "canceled" THEN "click cancelTx" ELSE "click markPaid",
           ![c].began = now]
    /\ UNCHANGED <<now, invoice, tx, sub, lotEnd, faults, answered, charged, grantCount>>

ClickMarkPaid(c) ==
    /\ At(c, "click markPaid")
    /\ tx' = [tx EXCEPT ![call[c].tx].state = "paid"]
    /\ charged' = charged \cup {call[c].order}
    /\ Goes(c, "click invoicePaid")
    /\ UNCHANGED <<now, invoice, sub, lotEnd, faults, answered, grantCount>>

ClickInvoicePaid(c) ==
    /\ At(c, "click invoicePaid")
    /\ SetInvoiceStatus(call[c].order, "paid")
    /\ Goes(c, "readInvoice")
    /\ UNCHANGED <<now, tx, sub, lotEnd, faults, answered, charged, grantCount>>

ClickCancelTx(c) ==
    /\ At(c, "click cancelTx")
    /\ tx' = [tx EXCEPT ![call[c].tx].state = "canceled"]
    /\ Goes(c, "click invoiceCanceled")
    /\ UNCHANGED <<now, invoice, sub, lotEnd, faults, answered, charged, grantCount>>

ClickInvoiceCanceled(c) ==
    /\ At(c, "click invoiceCanceled")
    /\ SetInvoiceStatus(call[c].order, "canceled")
    /\ Ends(c)
    /\ UNCHANGED <<now, tx, sub, lotEnd, faults, answered, charged, grantCount>>

(* An exception inside finalization is logged and the provider is told     *)
(* SUCCESS all the same.                                                   *)
ClickFinalizeRaises(c) ==
    /\ call[c].at \in FinalizeSteps
    /\ call[c].tx \in ClickTxs
    /\ faults < MaxFaults
    /\ faults' = faults + 1
    /\ FinalizeEnds(c)
    /\ UNCHANGED <<now, invoice, tx, sub, lotEnd, charged, grantCount>>

ClickProgress(c) ==
    \/ ClickFindTx(c) \/ ClickInsertTx(c) \/ ClickLink(c) \/ ClickReadInvoice(c)
    \/ ClickMarkPaid(c) \/ ClickInvoicePaid(c) \/ ClickCancelTx(c) \/ ClickInvoiceCanceled(c)

ClickRequest(c) ==
    \E t \in ClickTxs :
        \/ \E error \in BOOLEAN : ClickComplete(c, t, error)
        \/ \E o \in ClickOrders : ClickPrepare(c, t, o)

ClickNext ==
    \/ \E o \in ClickOrders : InitPayment(o)
    \/ \E c \in Calls : ClickRequest(c) \/ ClickProgress(c) \/ ClickFinalizeRaises(c)
=============================================================================
