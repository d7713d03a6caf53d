-------------------------- MODULE WebCheckoutProofs --------------------------
(***************************************************************************)
(* Checkout for any customers, orders, providers' transactions, catalog    *)
(* and number of concurrent callbacks.                                     *)
(*                                                                         *)
(* The safety properties of WebCheckout are not inductive: a finalization  *)
(* step is safe because of what its task read several awaits earlier.      *)
(* IInv adds that knowledge: CallOK says what each await point of a        *)
(* handler may rely on, TxOK and OrderOK relate the documents to the       *)
(* history.  Forward lists the facts no step takes back; a task's          *)
(* knowledge is made of such facts only, so it survives the other tasks'   *)
(* steps (CallStays), and each action needs to be looked at for the task   *)
(* that acts and the documents it writes (OneTaskActs).                    *)
(*                                                                         *)
(* At the end, what a plan holds is compared with the sum of what was paid *)
(* for it (PlanIsPaidFor), which is inductive relative to IInv.            *)
(***************************************************************************)
EXTENDS CheckoutAccounts, SumsProofs, TLAPS

(***************************************************************************)
(* The one-document writes.                                                *)
(***************************************************************************)
(* A grant yields a well-formed document that records its key.             *)
LEMMA WebGrantWrites ==
    ASSUME NEW d \in Document(Orders), NEW q \in Quote, NEW key \in Orders,
           NEW fullPrice, NEW t \in Nat, ~IsDailyPassQuote(q)
    PROVE  /\ WebGrant(d, q, key, fullPrice, t) \in Document(Orders)
           /\ WebGrant(d, q, key, fullPrice, t).exists
           /\ WebGrant(d, q, key, fullPrice, t).grants = d.grants \cup {key}
<1> DEFINE upgrade == UpgradesToPro(d, q, fullPrice, t)
           start == IF upgrade THEN t ELSE Larger(t, d.end)
           balance == CarriedCredits(d, t) + q.credits
<1>1. start \in Nat
  BY DEF Larger, Document
<1>2. CarriedCredits(d, t) \in Nat
  BY DEF CarriedCredits, AtLeastZero, Larger, Document
<1>3. q.tier \in PoolTiers /\ q.period \in PoolPeriods /\ q.days \in Nat /\ q.credits \in Nat
  BY DEF Quote, IsDailyPassQuote
<1>4. balance \in Nat /\ start + q.days \in Nat
  BY <1>1, <1>2, <1>3
<1>5. WebGrant(d, q, key, fullPrice, t) =
        [exists |-> TRUE, tier |-> q.tier, period |-> q.period, start |-> start,
         end |-> start + q.days, total |-> IF upgrade THEN balance ELSE q.credits,
         remaining |-> balance, grants |-> d.grants \cup {key}]
  BY DEF WebGrant
<1> HIDE DEF upgrade, start, balance
<1>6. d.grants \cup {key} \subseteq Orders
  BY DEF Document
<1> QED
  BY <1>1, <1>3, <1>4, <1>5, <1>6 DEF Document

(***************************************************************************)
(* What one task knows survives the steps of the others.                   *)
(***************************************************************************)
(* What a task may rely on stays true under every step that goes forward.  *)
LEMMA CallStays ==
    ASSUME Forward, NEW r \in CallRecords, CallOK(r), TypeOK, TypeOK'
    PROVE  CallOK(r)'
<1>1. CASE r.at = "idle"
  BY <1>1 DEF CallOK, Forward, CallRecords, TypeOK, AfterLookup, AfterPayment, BeforeInvoice,
      FinalizeSteps, PaymeCreation, ClickCreation, UzumCreation
<1>2. CASE r.at # "idle"
  <2>1. r.order \in Orders /\ r.tx \in Txs /\ r.began \in Nat /\ OwnerOf[r.order] \in Users
    BY <1>2, FinalizationAssumption DEF CallOK, CallRecords
  <2>2. r.began <= now'
    BY <2>1 DEF CallOK, Forward, TypeOK
  <2>3. r.at \notin BeforeInvoice => invoice'[r.order].status # "none"
    BY <2>1 DEF CallOK, Forward
  <2>4. r.at \in AfterLookup => tx'[r.tx].state # "none" /\ tx'[r.tx].order = r.order
    BY <2>1 DEF CallOK, Forward
  <2>5. r.at \in AfterPayment => r.order \in charged'
    BY DEF CallOK, Forward
  <2>6. r.at = "grant" => sub'[OwnerOf[r.order]].exists
    BY <2>1 DEF CallOK, Forward
  <2>7. r.at = "markApplied" => Granted(r.order)'
    BY <2>1 DEF CallOK, Forward
  <2> QED
    BY <2>1, <2>2, <2>3, <2>4, <2>5, <2>6, <2>7 DEF CallOK
<1> QED
  BY <1>1, <1>2

(* Only the acting task and the documents remain to be looked at.          *)
LEMMA OneTaskActs ==
    ASSUME IInv, TypeOK', Forward, NEW c \in Calls,
           \A d \in Calls \ {c} : call'[d] = call[d],
           CallOK(call[c])',
           \A t \in Txs : TxOK(t)',
           \A o \in Orders : OrderOK(o)',
           \A u \in Users : ~sub'[u].exists => sub'[u] = NoDocument
    PROVE  IInv'
<1>1. ASSUME NEW d \in Calls, d # c PROVE CallOK(call[d])'
  <2>1. CallOK(call[d]) /\ call[d] \in CallRecords /\ call'[d] = call[d]
    BY <1>1 DEF IInv, TypeOK, CheckoutConsistent
  <2>2. PICK r \in CallRecords : r = call[d]
    BY <2>1
  <2>3. CallOK(r)'
    BY <2>1, <2>2, CallStays DEF IInv
  <2> QED
    BY <2>1, <2>2, <2>3 DEF CallOK
<1> QED
  BY <1>1 DEF IInv, CheckoutConsistent

(* A step of one task that writes no document.                             *)
LEMMA OnlyTheTaskMoves ==
    ASSUME IInv, NEW c \in Calls, NEW r \in CallRecords, CallOK(r),
           call' = [call EXCEPT ![c] = r],
           UNCHANGED <<now, invoice, tx, sub, lotEnd, answered, charged, grantCount>>,
           faults' \in Nat
    PROVE  IInv' /\ Forward
<1>1. TypeOK'
  BY DEF IInv, TypeOK
<1>2. \A o : Granted(o)' = Granted(o)
  BY DEF Granted
<1>3. Forward
  BY <1>2 DEF Forward, IInv, TypeOK
<1>4. CallOK(r)'
  BY <1>1, <1>3, CallStays DEF IInv
<1>5. CallOK(call[c])'
  <2>1. call'[c] = r
    BY DEF IInv, TypeOK
  <2> QED
    BY <1>4, <2>1 DEF CallOK
<1>6. \A t \in Txs : TxOK(t)'
  BY <1>2 DEF IInv, CheckoutConsistent, TxOK
<1>7. \A o \in Orders : OrderOK(o)'
  BY <1>2 DEF IInv, CheckoutConsistent, OrderOK
<1>8. \A d \in Calls \ {c} : call'[d] = call[d]
  BY DEF IInv, TypeOK
<1>9. \A u \in Users : ~sub'[u].exists => sub'[u] = NoDocument
  BY DEF IInv, CheckoutConsistent
<1> QED
  BY <1>1, <1>3, <1>5, <1>6, <1>7, <1>8, <1>9, OneTaskActs

(* A request whose first lookup finds what its handler may rely on.        *)
LEMMA TaskStarts ==
    ASSUME IInv, NEW c \in Calls, NEW step \in Steps, NEW o \in Orders, NEW t \in Txs,
           NEW seen \in TxStates, Starts(c, step, o, t, seen),
           CallOK([at |-> step, order |-> o, tx |-> t, seen |-> seen, began |-> now]),
           UNCHANGED <<now, invoice, tx, sub, lotEnd, faults, answered, charged, grantCount>>
    PROVE  IInv' /\ Forward
<1> DEFINE r == [at |-> step, order |-> o, tx |-> t, seen |-> seen, began |-> now]
<1>1. r \in CallRecords /\ faults' \in Nat
  BY DEF IInv, TypeOK, CallRecords
<1>2. call' = [call EXCEPT ![c] = r]
  BY DEF Starts
<1> HIDE DEF r
<1>3. CallOK(r)
  BY DEF r
<1> QED
  BY <1>1, <1>2, <1>3, OnlyTheTaskMoves

(* A task goes on to its next database call and writes nothing.            *)
LEMMA TaskGoes ==
    ASSUME IInv, NEW c \in Calls, NEW step \in Steps, Goes(c, step),
           CallOK([call[c] EXCEPT !.at = step]),
           UNCHANGED <<now, invoice, tx, sub, lotEnd, faults, answered, charged, grantCount>>
    PROVE  IInv' /\ Forward
<1> DEFINE r == [call[c] EXCEPT !.at = step]
<1>1. r \in CallRecords /\ faults' \in Nat
  BY DEF IInv, TypeOK, CallRecords
<1>2. call' = [call EXCEPT ![c] = r]
  BY DEF Goes, IInv, TypeOK
<1> HIDE DEF r
<1>3. CallOK(r)
  BY DEF r
<1> QED
  BY <1>1, <1>2, <1>3, OnlyTheTaskMoves

(* An idle slot relies on nothing.                                         *)
LEMMA IdleIsOK == ASSUME TypeOK PROVE Idle \in CallRecords /\ CallOK(Idle)
  BY DEF TypeOK, Idle, CallRecords, Steps, TxStates, CallOK, AfterLookup, AfterPayment,
         BeforeInvoice, FinalizeSteps, PaymeCreation, ClickCreation, UzumCreation

(* An idle slot relies on nothing after a step either.                     *)
LEMMA IdleStaysOK == ASSUME now \in Nat, now' = now PROVE CallOK(Idle)' /\ Idle \in CallRecords
  BY DEF Idle, CallRecords, Steps, TxStates, CallOK, AfterLookup, AfterPayment,
         BeforeInvoice, FinalizeSteps, PaymeCreation, ClickCreation, UzumCreation

(* A task that ends or dies leaves consistent documents behind.            *)
LEMMA TaskEnds ==
    ASSUME IInv, NEW c \in Calls, Ends(c), faults' \in Nat,
           UNCHANGED <<now, invoice, tx, sub, lotEnd, answered, charged, grantCount>>
    PROVE  IInv' /\ Forward
  BY IdleIsOK, OnlyTheTaskMoves DEF IInv, Ends

(* One write of a transaction's state by the task in slot c, which then    *)
(* goes on to `step' or ends: the state may only become a paid one for an  *)
(* order that is charged in the same step.                                 *)
LEMMA TransactionWrite ==
    ASSUME IInv, NEW c \in Calls, NEW t \in Txs, NEW state \in TxStates, NEW r \in CallRecords,
           tx' = [tx EXCEPT ![t].state = state],
           call' = [call EXCEPT ![c] = r],
           state # "none", tx[t].state # "none",
           charged \subseteq charged', charged' \subseteq Orders,
           state \in ChargedStates => tx[t].order \in charged',
           CallOK(r)',
           UNCHANGED <<now, invoice, sub, lotEnd, faults, answered, grantCount>>
    PROVE  IInv' /\ Forward
<1>1. TypeOK'
  BY DEF IInv, TypeOK, Transactions
<1>2. \A o : Granted(o)' = Granted(o)
  BY DEF Granted
<1>3. \A p \in Txs : /\ tx'[p].order = tx[p].order
                     /\ tx'[p].state = IF p = t THEN state ELSE tx[p].state
  BY DEF IInv, TypeOK, Transactions
<1>4. Forward
  BY <1>2, <1>3 DEF Forward, IInv, TypeOK
<1>5. CallOK(call[c])'
  <2>1. call'[c] = r
    BY DEF IInv, TypeOK
  <2> QED
    BY <2>1 DEF CallOK
<1>6. \A p \in Txs : TxOK(p)'
  BY <1>2, <1>3 DEF IInv, CheckoutConsistent, TxOK
<1>7. \A o \in Orders : OrderOK(o)'
  BY <1>2 DEF IInv, CheckoutConsistent, OrderOK
<1>8. \A d \in Calls \ {c} : call'[d] = call[d]
  BY DEF IInv, TypeOK
<1>9. \A u \in Users : ~sub'[u].exists => sub'[u] = NoDocument
  BY DEF IInv, CheckoutConsistent
<1> QED
  BY <1>1, <1>4, <1>5, <1>6, <1>7, <1>8, <1>9, OneTaskActs

(* The insertion of a transaction, unless a lookup would already find one. *)
LEMMA TransactionInsert ==
    ASSUME IInv, NEW c \in Calls, NEW t \in Txs, NEW o \in Orders, NEW state \in TxStates,
           NEW r \in CallRecords,
           tx' = [tx EXCEPT ![t] = [state |-> state, order |-> o, created |-> call[c].began]],
           call' = [call EXCEPT ![c] = r],
           state # "none", state \notin ChargedStates,
           tx[t].state = "none" \/ tx[t].order = o,
           invoice[o].status # "none",
           t \in UzumTxs => o = UzumOrder[t],
           CallOK(r)',
           UNCHANGED <<now, invoice, sub, lotEnd, faults, answered, charged, grantCount>>
    PROVE  IInv' /\ Forward
<1>0. call[c].began \in Nat
  BY DEF IInv, TypeOK, CallRecords
<1>1. TypeOK'
  BY <1>0 DEF IInv, TypeOK, Transactions
<1>2. \A p : Granted(p)' = Granted(p)
  BY DEF Granted
<1>3. \A p \in Txs : /\ tx'[p].order = IF p = t THEN o ELSE tx[p].order
                     /\ tx'[p].state = IF p = t THEN state ELSE tx[p].state
  BY DEF IInv, TypeOK
<1>4. Forward
  BY <1>2, <1>3 DEF Forward, IInv, TypeOK
<1>5. CallOK(call[c])'
  <2>1. call'[c] = r
    BY DEF IInv, TypeOK
  <2> QED
    BY <2>1 DEF CallOK
<1>6. \A p \in Txs : TxOK(p)'
  BY <1>2, <1>3 DEF IInv, CheckoutConsistent, TxOK
<1>7. \A p \in Orders : OrderOK(p)'
  BY <1>2 DEF IInv, CheckoutConsistent, OrderOK
<1>8. \A d \in Calls \ {c} : call'[d] = call[d]
  BY DEF IInv, TypeOK
<1>9. \A u \in Users : ~sub'[u].exists => sub'[u] = NoDocument
  BY DEF IInv, CheckoutConsistent
<1> QED
  BY <1>1, <1>4, <1>5, <1>6, <1>7, <1>8, <1>9, OneTaskActs

(* One write of an invoice: `applied' is set only behind the grant, and an *)
(* issued invoice never disappears.                                        *)
LEMMA InvoiceWrite ==
    ASSUME IInv, NEW c \in Calls, NEW o \in Orders, NEW i \in Invoices, NEW r \in CallRecords,
           invoice' = [invoice EXCEPT ![o] = i],
           call' = [call EXCEPT ![c] = r],
           i.status # "none", i.applied => Granted(o),
           CallOK(r)',
           answered' \subseteq Txs, 
           \A t \in PaymeTxs \cap answered' : tx[t].state # "none" /\ Granted(tx[t].order),
           UNCHANGED <<now, tx, sub, lotEnd, faults, charged, grantCount>>
    PROVE  IInv' /\ Forward
<1>1. TypeOK'
  BY DEF IInv, TypeOK
<1>2. \A p : Granted(p)' = Granted(p)
  BY DEF Granted
<1>3. \A p \in Orders : invoice'[p] = IF p = o THEN i ELSE invoice[p]
  BY DEF IInv, TypeOK
<1>4. Forward
  BY <1>2, <1>3 DEF Forward, IInv, TypeOK
<1>5. CallOK(call[c])'
  <2>1. call'[c] = r
    BY DEF IInv, TypeOK
  <2> QED
    BY <2>1 DEF CallOK
<1>6. \A t \in Txs : TxOK(t)'
  BY <1>2, <1>3 DEF IInv, CheckoutConsistent, TxOK
<1>7. \A p \in Orders : OrderOK(p)'
  BY <1>2, <1>3 DEF IInv, CheckoutConsistent, OrderOK
<1>8. \A d \in Calls \ {c} : call'[d] = call[d]
  BY DEF IInv, TypeOK
<1>9. \A u \in Users : ~sub'[u].exists => sub'[u] = NoDocument
  BY DEF IInv, CheckoutConsistent
<1> QED
  BY <1>1, <1>4, <1>5, <1>6, <1>7, <1>8, <1>9, OneTaskActs

(* The status and link updates every provider makes to its call's invoice. *)
LEMMA InvoiceStatusOrLinkWrite ==
    ASSUME IInv, NEW c \in Calls, NEW r \in CallRecords, NEW status \in InvoiceStatus,
           status # "none", call[c].at \notin BeforeInvoice,
           \/ SetInvoiceStatus(call[c].order, status)
           \/ invoice' = [invoice EXCEPT ![call[c].order].link = call[c].tx],
           call' = [call EXCEPT ![c] = r], CallOK(r)',
           UNCHANGED <<now, tx, sub, lotEnd, faults, answered, charged, grantCount>>
    PROVE  IInv' /\ Forward
<1> DEFINE o == call[c].order
           i == IF SetInvoiceStatus(o, status) THEN [invoice[o] EXCEPT !.status = status]
                                               ELSE [invoice[o] EXCEPT !.link = call[c].tx]
<1>1. CallOK(call[c])
  BY DEF IInv, CheckoutConsistent
<1>2. o \in Orders /\ call[c].tx \in Txs /\ invoice[o] \in Invoices /\ invoice[o].status # "none"
  BY <1>1 DEF CallOK, BeforeInvoice, IInv, TypeOK
<1>3. i \in Invoices /\ i.status # "none" /\ (i.applied => Granted(o))
  BY <1>2 DEF Invoices, IInv, CheckoutConsistent, OrderOK
<1>4. invoice' = [invoice EXCEPT ![o] = i]
  BY DEF SetInvoiceStatus, IInv, TypeOK
<1>5. \A p \in PaymeTxs \cap answered' : tx[p].state # "none" /\ Granted(tx[p].order)
  BY PaymeAssumption DEF IInv, CheckoutConsistent, TxOK
<1>6. answered' \subseteq Txs
  BY DEF IInv, TypeOK
<1> HIDE DEF i
<1> QED
  BY <1>2, <1>3, <1>4, <1>5, <1>6, InvoiceWrite

(***************************************************************************)
(* Payme's handlers.                                                       *)
(***************************************************************************)
(* A request to Payme's handlers starts from what its lookup returned.     *)
LEMMA PaymeStarts ==
    ASSUME IInv, NEW c \in Calls, PaymeRequest(c)
    PROVE  IInv' /\ Forward
<1> USE DEF AfterLookup, AfterPayment, BeforeInvoice, FinalizeSteps, PaymeCreation,
            ClickCreation, UzumCreation
<1> PICK t \in PaymeTxs : \/ PaymeFindsExpired(c, t) \/ PaymePerform(c, t)
                            \/ PaymeCancel(c, t)
                            \/ \E o \in PaymeOrders : PaymeCreate(c, t, o)
  BY DEF PaymeRequest
<1> DEFINE Start(step, p, seen) ==
             [at |-> step, order |-> p, tx |-> t, seen |-> seen, began |-> now]
<1>1. t \in Txs /\ now \in Nat /\ tx[t].state \in TxStates
  BY PaymeAssumption DEF IInv, TypeOK, Transactions
<1>2. tx[t].state # "none" => /\ tx[t].order \in Orders
                              /\ invoice[tx[t].order].status # "none"
  BY <1>1 DEF IInv, CheckoutConsistent, TxOK
<1>3. tx[t].state = "Paid" => tx[t].order \in charged
  BY <1>1 DEF IInv, CheckoutConsistent, TxOK, ChargedStates
<1>4. CASE PaymeFindsExpired(c, t)
  <2>1. tx[t].order \in Orders /\ tx[t].state = "Pending"
    BY <1>2, <1>4 DEF PaymeFindsExpired, PaymeOpen
  <2>2. CallOK(Start("expire", tx[t].order, "Pending"))
    BY <1>1, <1>2, <2>1 DEF CallOK
  <2> QED
    BY <1>1, <1>4, <2>1, <2>2, TaskStarts DEF PaymeFindsExpired, Steps, PaymeSteps, TxStates
<1>5. CASE PaymePerform(c, t) /\ tx[t].state = "Paid"
  <2>1. CallOK(Start("readInvoice", tx[t].order, "Paid"))
    BY <1>1, <1>2, <1>3, <1>5 DEF CallOK
  <2> QED
    BY <1>1, <1>2, <1>5, <2>1, TaskStarts
    DEF PaymePerform, PaymeOpen, Steps, FinalizeSteps, TxStates
<1>6. CASE PaymePerform(c, t) /\ tx[t].state = "Pending"
  <2>1. CallOK(Start("markPaid", tx[t].order, "Pending"))
    BY <1>1, <1>2, <1>6 DEF CallOK
  <2> QED
    BY <1>1, <1>2, <1>6, <2>1, TaskStarts
    DEF PaymePerform, PaymeOpen, Steps, PaymeSteps, TxStates
<1>7. CASE PaymeCancel(c, t)
  <2>1. CallOK(Start("cancelTx", tx[t].order, tx[t].state))
    BY <1>1, <1>2, <1>7 DEF CallOK, PaymeCancel
  <2> QED
    BY <1>1, <1>2, <1>7, <2>1, TaskStarts DEF PaymeCancel, Steps, PaymeSteps
<1>8. ASSUME NEW o \in PaymeOrders, PaymeCreate(c, t, o) PROVE IInv' /\ Forward
  <2> o \in Orders
    BY PaymeAssumption
  <2>1. CallOK(Start("checkPerform", o, "none"))
    BY <1>1, <1>8 DEF CallOK
  <2> QED
    BY <1>1, <1>8, <2>1, TaskStarts DEF PaymeCreate, Steps, PaymeSteps, TxStates
<1> QED
  BY <1>4, <1>5, <1>6, <1>7, <1>8 DEF PaymePerform, PaymeOpen

(* CreateTransaction's two further lookups.                                *)
LEMMA PaymeReads ==
    ASSUME IInv, NEW c \in Calls, PaymeCheckPerform(c) \/ PaymeFindOther(c)
    PROVE  IInv' /\ Forward
<1> USE DEF AfterLookup, AfterPayment, BeforeInvoice, FinalizeSteps, PaymeCreation,
            ClickCreation, UzumCreation
<1>1. CallOK(call[c]) /\ call[c] \in CallRecords /\ faults \in Nat
  BY DEF IInv, TypeOK, CheckoutConsistent
<1>2. CASE PaymeCheckPerform(c)
  <2>1. CASE invoice[call[c].order].status = "pending"
    <3>1. CallOK([call[c] EXCEPT !.at = "findOther"])
      BY <1>1, <1>2, <2>1 DEF PaymeCheckPerform, At, CallOK, CallRecords
    <3> QED
      BY <1>2, <2>1, <3>1, TaskGoes DEF PaymeCheckPerform, Steps, PaymeSteps
  <2>2. CASE invoice[call[c].order].status # "pending"
    BY <1>1, <1>2, <2>2, TaskEnds DEF PaymeCheckPerform
  <2> QED
    BY <2>1, <2>2
<1>3. CASE PaymeFindOther(c)
  <2>1. CASE Goes(c, "insertTx")
    <3>1. CallOK([call[c] EXCEPT !.at = "insertTx"])
      BY <1>1, <1>3, <2>1 DEF PaymeFindOther, At, CallOK, CallRecords
    <3> QED
      BY <1>3, <2>1, <3>1, TaskGoes DEF PaymeFindOther, Steps, PaymeSteps
  <2>2. CASE Ends(c)
    BY <1>1, <1>3, <2>2, TaskEnds DEF PaymeFindOther
  <2> QED
    BY <1>3, <2>1, <2>2 DEF PaymeFindOther
<1> QED
  BY <1>2, <1>3

(* The database writes of Payme's handlers, each behind a stale read.      *)
LEMMA PaymeWrites ==
    ASSUME IInv, NEW c \in Calls,
           \/ PaymeExpire(c) \/ PaymeInsertTx(c) \/ PaymeLinkInvoice(c) \/ PaymeMarkPaid(c)
           \/ PaymeInvoicePaid(c) \/ PaymeCancelTx(c) \/ PaymeInvoiceCanceled(c)
    PROVE  IInv' /\ Forward
<1> USE DEF AfterLookup, AfterPayment, BeforeInvoice, FinalizeSteps, PaymeCreation,
            ClickCreation, UzumCreation
<1> DEFINE o == call[c].order
           t == call[c].tx
<1>1. CallOK(call[c]) /\ call[c] \in CallRecords
  BY DEF IInv, TypeOK, CheckoutConsistent
<1>2. call[c].at # "idle" => o \in Orders /\ t \in Txs /\ invoice[o] \in Invoices
                            /\ charged \subseteq Orders
  BY <1>1 DEF CallOK, IInv, TypeOK
<1>3. call[c].at \in AfterLookup => tx[t].state # "none" /\ tx[t].order = o
  BY <1>1 DEF CallOK
<1>4. now' = now => CallOK(Idle)' /\ Idle \in CallRecords
  BY IdleStaysOK DEF IInv, TypeOK
<1>5. CASE PaymeExpire(c)
  BY <1>2, <1>3, <1>4, <1>5, TransactionWrite
  DEF PaymeExpire, At, SetTxState, Ends, TxStates, ChargedStates
<1>6. CASE PaymeInsertTx(c)
  <2>1. PICK r \in CallRecords : r = [call[c] EXCEPT !.at = "linkInvoice"]
    BY <1>1 DEF CallRecords, Steps, PaymeSteps
  <2>2. call' = [call EXCEPT ![c] = r]
    BY <1>6, <2>1 DEF PaymeInsertTx, Goes, IInv, TypeOK
  <2>3. CallOK(r)'
    BY <1>1, <1>6, <2>1 DEF PaymeInsertTx, At, CallOK, CallRecords
  <2>4. t \in PaymeTxs /\ t \notin UzumTxs /\ invoice[o].status # "none"
    BY <1>1, <1>6, WebCheckoutAssumption DEF PaymeInsertTx, At, CallOK
  <2>5. CASE tx[t].state = "none"
    BY <1>2, <1>6, <2>2, <2>3, <2>4, <2>5, TransactionInsert
    DEF PaymeInsertTx, At, TxStates, ChargedStates
  <2>6. CASE tx[t].state # "none"
    <3>1. CallOK(r)
      BY <1>1, <1>6, <2>1 DEF PaymeInsertTx, At, CallOK, CallRecords
    <3> QED
      BY <1>6, <2>2, <2>6, <3>1, OnlyTheTaskMoves DEF PaymeInsertTx, IInv, TypeOK
  <2> QED
    BY <2>5, <2>6
<1>7. CASE PaymeLinkInvoice(c)
  BY <1>4, <1>7, InvoiceStatusOrLinkWrite
  DEF PaymeLinkInvoice, At, Ends, InvoiceStatus, IInv, TypeOK
<1>8. CASE PaymeMarkPaid(c)
  <2>1. PICK r \in CallRecords : r = [call[c] EXCEPT !.at = "invoicePaid"]
    BY <1>1 DEF CallRecords, Steps, PaymeSteps
  <2>2. call' = [call EXCEPT ![c] = r]
    BY <1>8, <2>1 DEF PaymeMarkPaid, Goes, IInv, TypeOK
  <2>3. tx' = [tx EXCEPT ![t].state = "Paid"]
    BY <1>8 DEF PaymeMarkPaid, SetTxState
  <2>4. tx'[t].state # "none" /\ tx'[t].order = o
    BY <1>2, <1>3, <1>8, <2>3 DEF PaymeMarkPaid, At, IInv, TypeOK, Transactions
  <2>5. CallOK(r)'
    BY <1>1, <1>2, <1>8, <2>1, <2>4 DEF PaymeMarkPaid, At, CallOK, CallRecords
  <2> QED
    BY <1>2, <1>3, <1>8, <2>2, <2>3, <2>5, TransactionWrite
    DEF PaymeMarkPaid, At, TxStates, ChargedStates
<1>9. CASE PaymeInvoicePaid(c)
  <2>1. PICK r \in CallRecords : r = [call[c] EXCEPT !.at = "readInvoice"]
    BY <1>1 DEF CallRecords, Steps
  <2>2. call' = [call EXCEPT ![c] = r]
    BY <1>9, <2>1 DEF PaymeInvoicePaid, Goes, IInv, TypeOK
  <2>3. invoice'[o].status # "none"
    BY <1>2, <1>9 DEF PaymeInvoicePaid, At, SetInvoiceStatus, IInv, TypeOK, Invoices
  <2>4. CallOK(r)'
    BY <1>1, <1>2, <1>9, <2>1, <2>3 DEF PaymeInvoicePaid, At, CallOK, CallRecords
  <2> QED
    BY <1>9, <2>2, <2>4, InvoiceStatusOrLinkWrite DEF PaymeInvoicePaid, At, InvoiceStatus
<1>10. CASE PaymeCancelTx(c)
  <2>1. PICK r \in CallRecords : r = [call[c] EXCEPT !.at = "invoiceCanceled"]
    BY <1>1 DEF CallRecords, Steps, PaymeSteps
  <2>2. call' = [call EXCEPT ![c] = r]
    BY <1>10, <2>1 DEF PaymeCancelTx, Goes, IInv, TypeOK
  <2>3. CallOK(r)'
    BY <1>1, <1>10, <2>1 DEF PaymeCancelTx, At, CallOK, CallRecords
  <2>4. PICK state \in {"PaidCanceled", "PendingCanceled"} : tx' = [tx EXCEPT ![t].state = state]
    BY <1>10 DEF PaymeCancelTx, SetTxState
  <2> QED
    BY <1>2, <1>3, <1>10, <2>2, <2>3, <2>4, TransactionWrite
    DEF PaymeCancelTx, At, TxStates, ChargedStates
<1>11. CASE PaymeInvoiceCanceled(c)
  BY <1>4, <1>11, InvoiceStatusOrLinkWrite
  DEF PaymeInvoiceCanceled, At, Ends, InvoiceStatus, IInv, TypeOK
<1> QED
  BY <1>5, <1>6, <1>7, <1>8, <1>9, <1>10, <1>11

(***************************************************************************)
(* Click's handlers.                                                       *)
(***************************************************************************)
(* A request to prepare or complete starts from what its lookup returned.  *)
LEMMA ClickStarts ==
    ASSUME IInv, NEW c \in Calls, ClickRequest(c)
    PROVE  IInv' /\ Forward
<1> USE DEF AfterLookup, AfterPayment, BeforeInvoice, FinalizeSteps, PaymeCreation,
            ClickCreation, UzumCreation
<1> PICK t \in ClickTxs : \/ \E error \in BOOLEAN : ClickComplete(c, t, error)
                            \/ \E o \in ClickOrders : ClickPrepare(c, t, o)
  BY DEF ClickRequest
<1> DEFINE Start(step, p, seen) ==
             [at |-> step, order |-> p, tx |-> t, seen |-> seen, began |-> now]
<1>1. t \in Txs /\ now \in Nat /\ tx[t].state \in TxStates
  BY ClickAssumption DEF IInv, TypeOK, Transactions
<1>2. ASSUME NEW o \in ClickOrders, ClickPrepare(c, t, o) PROVE IInv' /\ Forward
  <2> o \in Orders
    BY ClickAssumption
  <2>1. CallOK(Start("click findTx", o, "none"))
    <3>1. invoice[o].status # "none"
      BY <1>2 DEF ClickPrepare
    <3> QED
      BY <1>1, <3>1 DEF CallOK
  <2> QED
    BY <1>1, <1>2, <2>1, TaskStarts DEF ClickPrepare, Steps, ClickSteps, TxStates
<1>3. ASSUME NEW error \in BOOLEAN, ClickComplete(c, t, error) PROVE IInv' /\ Forward
  <2>1. /\ tx[t].order \in Orders /\ invoice[tx[t].order].status # "none"
        /\ tx[t].state # "none"
    BY <1>1, <1>3 DEF ClickComplete, IInv, CheckoutConsistent, TxOK
  <2> DEFINE seen == IF error THEN "canceled" ELSE "prepared"
  <2>2. seen \in TxStates
    BY DEF TxStates
  <2> HIDE DEF seen
  <2>3. CallOK(Start("click readInvoice", tx[t].order, seen))
    BY <1>1, <2>1 DEF CallOK
  <2>4. Starts(c, "click readInvoice", tx[t].order, t, seen)
    BY <1>3 DEF ClickComplete, seen
  <2> QED
    BY <1>1, <1>3, <2>1, <2>2, <2>3, <2>4, TaskStarts DEF ClickComplete, Steps, ClickSteps
<1> QED
  BY <1>2, <1>3

(* The second lookups of prepare and of complete.                          *)
LEMMA ClickReads ==
    ASSUME IInv, NEW c \in Calls, ClickFindTx(c) \/ ClickReadInvoice(c)
    PROVE  IInv' /\ Forward
<1> USE DEF AfterLookup, AfterPayment, BeforeInvoice, FinalizeSteps, PaymeCreation,
            ClickCreation, UzumCreation
<1>1. CallOK(call[c]) /\ call[c] \in CallRecords /\ faults \in Nat
  BY DEF IInv, TypeOK, CheckoutConsistent
<1>2. CASE ClickFindTx(c)
  <2>1. CASE tx[call[c].tx].state = "none"
    <3>1. CallOK([call[c] EXCEPT !.at = "click insertTx"])
      BY <1>1, <1>2 DEF ClickFindTx, At, CallOK, CallRecords
    <3> QED
      BY <1>2, <2>1, <3>1, TaskGoes DEF ClickFindTx, Steps, ClickSteps
  <2>2. CASE tx[call[c].tx].state # "none"
    BY <1>1, <1>2, <2>2, TaskEnds DEF ClickFindTx
  <2> QED
    BY <2>1, <2>2
<1>3. CASE ClickReadInvoice(c)
  <2> DEFINE step == IF call[c].seen = "canceled" THEN "click cancelTx" ELSE "click markPaid"
         r == [call[c] EXCEPT !.at = step, !.began = now]
  <2>1. r \in CallRecords /\ call' = [call EXCEPT ![c] = r]
    BY <1>1, <1>3 DEF ClickReadInvoice, CallRecords, Steps, ClickSteps, IInv, TypeOK
  <2>2. /\ call[c].at = "click readInvoice" /\ now \in Nat
        /\ r.at \in {"click cancelTx", "click markPaid"}
        /\ r.order = call[c].order /\ r.tx = call[c].tx /\ r.began = now
    BY <1>1, <1>3 DEF ClickReadInvoice, At, CallRecords, IInv, TypeOK
  <2> HIDE DEF r
  <2>3. /\ r.order \in Orders /\ r.tx \in Txs /\ invoice[r.order].status # "none"
        /\ tx[r.tx].state # "none" /\ tx[r.tx].order = r.order
    <3>1. call[c].order \in Orders /\ call[c].tx \in Txs
      BY <1>1, <2>2 DEF CallOK
    <3>2. invoice[call[c].order].status # "none"
      BY <1>1, <2>2 DEF CallOK
    <3>3. tx[call[c].tx].state # "none" /\ tx[call[c].tx].order = call[c].order
      BY <1>1, <2>2 DEF CallOK
    <3> QED
      BY <2>2, <3>1, <3>2, <3>3
  <2>4. r.began <= now
    <3>1. r.began = now /\ now \in Nat
      BY <2>2
    <3>2. now <= now
      BY <3>1
    <3> QED
      BY <3>1, <3>2
  <2>5. CallOK(r)
    BY <2>2, <2>3, <2>4 DEF CallOK
  <2> QED
    BY <1>1, <1>3, <2>1, <2>5, OnlyTheTaskMoves DEF ClickReadInvoice
<1> QED
  BY <1>2, <1>3

(* The database writes of prepare and complete.                            *)
LEMMA ClickWrites ==
    ASSUME IInv, NEW c \in Calls,
           \/ ClickInsertTx(c) \/ ClickLink(c) \/ ClickMarkPaid(c)
           \/ ClickInvoicePaid(c) \/ ClickCancelTx(c) \/ ClickInvoiceCanceled(c)
    PROVE  IInv' /\ Forward
<1> USE DEF AfterLookup, AfterPayment, BeforeInvoice, FinalizeSteps, PaymeCreation,
            ClickCreation, UzumCreation
<1> DEFINE o == call[c].order
           t == call[c].tx
<1>1. CallOK(call[c]) /\ call[c] \in CallRecords
  BY DEF IInv, TypeOK, CheckoutConsistent
<1>2. call[c].at # "idle" => o \in Orders /\ t \in Txs /\ invoice[o] \in Invoices
                            /\ charged \subseteq Orders
  BY <1>1 DEF CallOK, IInv, TypeOK
<1>3. call[c].at \in AfterLookup => tx[t].state # "none" /\ tx[t].order = o
  BY <1>1 DEF CallOK
<1>4. now' = now => CallOK(Idle)' /\ Idle \in CallRecords
  BY IdleStaysOK DEF IInv, TypeOK
<1>5. CASE ClickInsertTx(c)
  <2>1. PICK r \in CallRecords : r = [call[c] EXCEPT !.at = "click link"]
    BY <1>1 DEF CallRecords, Steps, ClickSteps
  <2>2. call' = [call EXCEPT ![c] = r]
    BY <1>5, <2>1 DEF ClickInsertTx, Goes, IInv, TypeOK
  <2>3. CallOK(r) /\ CallOK(r)'
    BY <1>1, <1>5, <2>1 DEF ClickInsertTx, At, CallOK, CallRecords
  <2>4. t \in ClickTxs /\ t \notin UzumTxs /\ invoice[o].status # "none"
    BY <1>1, <1>5, WebCheckoutAssumption DEF ClickInsertTx, At, CallOK
  <2>5. CASE tx[t].state = "none"
    BY <1>2, <1>5, <2>2, <2>3, <2>4, <2>5, TransactionInsert
    DEF ClickInsertTx, At, TxStates, ChargedStates
  <2>6. CASE tx[t].state # "none"
    BY <1>5, <2>2, <2>3, <2>6, OnlyTheTaskMoves DEF ClickInsertTx, IInv, TypeOK
  <2> QED
    BY <2>5, <2>6
<1>6. CASE ClickLink(c)
  BY <1>4, <1>6, InvoiceStatusOrLinkWrite
  DEF ClickLink, At, Ends, InvoiceStatus, IInv, TypeOK
<1>7. CASE ClickMarkPaid(c)
  <2>1. PICK r \in CallRecords : r = [call[c] EXCEPT !.at = "click invoicePaid"]
    BY <1>1 DEF CallRecords, Steps, ClickSteps
  <2>2. call' = [call EXCEPT ![c] = r]
    BY <1>7, <2>1 DEF ClickMarkPaid, Goes, IInv, TypeOK
  <2>3. tx' = [tx EXCEPT ![t].state = "paid"]
    BY <1>7 DEF ClickMarkPaid
  <2>4. tx'[t].state # "none" /\ tx'[t].order = o
    <3>1. t \in Txs /\ tx[t].order = o
      BY <1>2, <1>3, <1>7 DEF ClickMarkPaid, At
    <3> QED
      BY <2>3, <3>1 DEF IInv, TypeOK, Transactions
  <2>5. CallOK(r)'
    BY <1>1, <1>2, <1>7, <2>1, <2>4 DEF ClickMarkPaid, At, CallOK, CallRecords
  <2> QED
    BY <1>2, <1>3, <1>7, <2>2, <2>3, <2>5, TransactionWrite
    DEF ClickMarkPaid, At, TxStates, ChargedStates
<1>8. CASE ClickInvoicePaid(c)
  <2>1. PICK r \in CallRecords : r = [call[c] EXCEPT !.at = "readInvoice"]
    BY <1>1 DEF CallRecords, Steps
  <2>2. call' = [call EXCEPT ![c] = r]
    BY <1>8, <2>1 DEF ClickInvoicePaid, Goes, IInv, TypeOK
  <2>3. invoice'[o].status # "none"
    BY <1>2, <1>8 DEF ClickInvoicePaid, At, SetInvoiceStatus, IInv, TypeOK, Invoices
  <2>4. CallOK(r)'
    BY <1>1, <1>2, <1>8, <2>1, <2>3 DEF ClickInvoicePaid, At, CallOK, CallRecords
  <2> QED
    BY <1>8, <2>2, <2>4, InvoiceStatusOrLinkWrite DEF ClickInvoicePaid, At, InvoiceStatus
<1>9. CASE ClickCancelTx(c)
  <2>1. PICK r \in CallRecords : r = [call[c] EXCEPT !.at = "click invoiceCanceled"]
    BY <1>1 DEF CallRecords, Steps, ClickSteps
  <2>2. call' = [call EXCEPT ![c] = r]
    BY <1>9, <2>1 DEF ClickCancelTx, Goes, IInv, TypeOK
  <2>3. CallOK(r)'
    BY <1>1, <1>9, <2>1 DEF ClickCancelTx, At, CallOK, CallRecords
  <2> QED
    BY <1>2, <1>3, <1>9, <2>2, <2>3, TransactionWrite
    DEF ClickCancelTx, At, TxStates, ChargedStates
<1>10. CASE ClickInvoiceCanceled(c)
  BY <1>4, <1>10, InvoiceStatusOrLinkWrite
  DEF ClickInvoiceCanceled, At, Ends, InvoiceStatus, IInv, TypeOK
<1> QED
  BY <1>5, <1>6, <1>7, <1>8, <1>9, <1>10

(***************************************************************************)
(* Uzum's handlers.                                                        *)
(***************************************************************************)
(* A request to Uzum's handlers starts from what its lookup returned.      *)
LEMMA UzumStarts ==
    ASSUME IInv, NEW c \in Calls, UzumRequest(c)
    PROVE  IInv' /\ Forward
<1> USE DEF AfterLookup, AfterPayment, BeforeInvoice, FinalizeSteps, PaymeCreation,
            ClickCreation, UzumCreation
<1> PICK t \in UzumTxs : UzumCreate(c, t) \/ UzumConfirm(c, t) \/ UzumReverse(c, t)
  BY DEF UzumRequest
<1> DEFINE Start(step, p, seen) ==
             [at |-> step, order |-> p, tx |-> t, seen |-> seen, began |-> now]
<1>1. /\ t \in Txs /\ UzumOrder[t] \in Orders /\ now \in Nat /\ tx[t].state \in TxStates
  BY UzumAssumption DEF IInv, TypeOK, Transactions
<1>2. tx[t].state # "none" => /\ tx[t].order \in Orders
                              /\ invoice[tx[t].order].status # "none"
  BY <1>1 DEF IInv, CheckoutConsistent, TxOK
<1>3. tx[t].state = "CONFIRMED" => tx[t].order \in charged
  BY <1>1 DEF IInv, CheckoutConsistent, TxOK, ChargedStates
<1>4. CASE UzumCreate(c, t)
  <2>1. CallOK(Start("uzum eligible", UzumOrder[t], "none"))
    BY <1>1 DEF CallOK
  <2> QED
    BY <1>1, <1>4, <2>1, TaskStarts DEF UzumCreate, Steps, UzumSteps, TxStates
<1>5. CASE UzumConfirm(c, t) /\ tx[t].state = "CONFIRMED"
  <2>1. CallOK(Start("readInvoice", tx[t].order, "CONFIRMED"))
    BY <1>1, <1>2, <1>3, <1>5 DEF CallOK
  <2> QED
    BY <1>1, <1>2, <1>5, <2>1, TaskStarts DEF UzumConfirm, Steps, FinalizeSteps, TxStates
<1>6. CASE UzumConfirm(c, t) /\ tx[t].state = "CREATED"
  <2>1. CallOK(Start("uzum markPaid", tx[t].order, "CREATED"))
    BY <1>1, <1>2, <1>6 DEF CallOK
  <2> QED
    BY <1>1, <1>2, <1>6, <2>1, TaskStarts DEF UzumConfirm, Steps, UzumSteps, TxStates
<1>7. CASE UzumReverse(c, t)
  <2>1. tx[t].state # "none"
    BY <1>7 DEF UzumReverse
  <2>2. CallOK(Start("uzum reverseTx", tx[t].order, tx[t].state))
    BY <1>1, <1>2, <2>1 DEF CallOK
  <2> QED
    BY <1>1, <1>2, <1>7, <2>1, <2>2, TaskStarts DEF UzumReverse, Steps, UzumSteps
<1> QED
  BY <1>4, <1>5, <1>6, <1>7 DEF UzumConfirm

(* The eligibility check of /create.                                       *)
LEMMA UzumReads ==
    ASSUME IInv, NEW c \in Calls, UzumEligible(c)
    PROVE  IInv' /\ Forward
<1> USE DEF AfterLookup, AfterPayment, BeforeInvoice, FinalizeSteps, PaymeCreation,
            ClickCreation, UzumCreation
<1> DEFINE eligible == Eligible(OwnerOf[call[c].order], QuoteOf[call[c].order], call[c].began)
<1>1. CallOK(call[c]) /\ call[c] \in CallRecords /\ faults \in Nat
  BY DEF IInv, TypeOK, CheckoutConsistent
<1>2. CASE eligible
  <2>1. CallOK([call[c] EXCEPT !.at = "uzum insertInvoice"])
    BY <1>1 DEF UzumEligible, At, CallOK, CallRecords
  <2> QED
    BY <1>2, <2>1, TaskGoes DEF UzumEligible, Steps, UzumSteps
<1>3. CASE ~eligible
  BY <1>1, <1>3, TaskEnds DEF UzumEligible
<1> QED
  BY <1>2, <1>3

(* The database writes of /create, /confirm and /reverse.                  *)
LEMMA UzumWrites ==
    ASSUME IInv, NEW c \in Calls,
           \/ UzumInsertInvoice(c) \/ UzumInsertTx(c) \/ UzumMarkPaid(c)
           \/ UzumInvoicePaid(c) \/ UzumReverseTx(c) \/ UzumInvoiceCanceled(c)
    PROVE  IInv' /\ Forward
<1> USE DEF AfterLookup, AfterPayment, BeforeInvoice, FinalizeSteps, PaymeCreation,
            ClickCreation, UzumCreation
<1> DEFINE o == call[c].order
           t == call[c].tx
<1>1. CallOK(call[c]) /\ call[c] \in CallRecords
  BY DEF IInv, TypeOK, CheckoutConsistent
<1>2. call[c].at # "idle" => o \in Orders /\ t \in Txs /\ invoice[o] \in Invoices
                            /\ charged \subseteq Orders
  BY <1>1 DEF CallOK, IInv, TypeOK
<1>3. call[c].at \in AfterLookup => tx[t].state # "none" /\ tx[t].order = o
  BY <1>1 DEF CallOK
<1>4. now' = now => CallOK(Idle)' /\ Idle \in CallRecords
  BY IdleStaysOK DEF IInv, TypeOK
<1>5. CASE UzumInsertInvoice(c)
  <2>1. CASE invoice[o].status # "none"
    BY <1>5, <2>1, TaskEnds DEF UzumInsertInvoice, IInv, TypeOK
  <2>2. CASE invoice[o].status = "none"
    <3> DEFINE i == [PendingInvoice EXCEPT !.link = t]
    <3>1. o \in Orders /\ t \in UzumTxs /\ o = UzumOrder[t]
      BY <1>1, <1>2, <1>5 DEF UzumInsertInvoice, At, CallOK
    <3>2. i \in Invoices /\ i.status = "pending" /\ ~i.applied
      BY <1>2, <1>5 DEF UzumInsertInvoice, At, PendingInvoice, NoInvoice, Invoices, InvoiceStatus
    <3>3. PICK r \in CallRecords : r = [call[c] EXCEPT !.at = "uzum insertTx"]
      BY <1>1 DEF CallRecords, Steps, UzumSteps
    <3>4. call' = [call EXCEPT ![c] = r] /\ invoice' = [invoice EXCEPT ![o] = i]
      BY <1>5, <2>2, <3>3 DEF UzumInsertInvoice, Goes, IInv, TypeOK
    <3> HIDE DEF i
    <3>5. invoice'[o].status # "none"
      BY <3>1, <3>2, <3>4 DEF IInv, TypeOK
    <3>6. CallOK(r)'
      BY <1>1, <1>5, <3>1, <3>3, <3>5 DEF UzumInsertInvoice, At, CallOK, CallRecords
    <3>7. \A p \in PaymeTxs \cap answered' : tx[p].state # "none" /\ Granted(tx[p].order)
      BY <1>5, PaymeAssumption DEF UzumInsertInvoice, IInv, CheckoutConsistent, TxOK
    <3> QED
      BY <1>5, <3>1, <3>2, <3>4, <3>6, <3>7, InvoiceWrite DEF UzumInsertInvoice, IInv, TypeOK
  <2> QED
    BY <2>1, <2>2
<1>6. CASE UzumInsertTx(c)
  <2>1. o \in Orders /\ t \in UzumTxs /\ t \in Txs /\ o = UzumOrder[t]
        /\ invoice[o].status # "none"
    BY <1>1, <1>2, <1>6 DEF UzumInsertTx, At, CallOK
  <2>2. tx[t].state = "none" \/ tx[t].order = o
    BY <2>1 DEF IInv, CheckoutConsistent, TxOK
  <2> QED
    BY <1>4, <1>6, <2>1, <2>2, TransactionInsert
    DEF UzumInsertTx, Ends, TxStates, ChargedStates
<1>7. CASE UzumMarkPaid(c)
  <2>1. PICK r \in CallRecords : r = [call[c] EXCEPT !.at = "uzum invoicePaid"]
    BY <1>1 DEF CallRecords, Steps, UzumSteps
  <2>2. call' = [call EXCEPT ![c] = r]
    BY <1>7, <2>1 DEF UzumMarkPaid, Goes, IInv, TypeOK
  <2>3. tx' = [tx EXCEPT ![t].state = "CONFIRMED"]
    BY <1>7 DEF UzumMarkPaid
  <2>4. tx'[t].state # "none" /\ tx'[t].order = o
    <3>1. t \in Txs /\ tx[t].order = o
      BY <1>2, <1>3, <1>7 DEF UzumMarkPaid, At
    <3> QED
      BY <2>3, <3>1 DEF IInv, TypeOK, Transactions
  <2>5. CallOK(r)'
    BY <1>1, <1>2, <1>7, <2>1, <2>4 DEF UzumMarkPaid, At, CallOK, CallRecords
  <2> QED
    BY <1>2, <1>3, <1>7, <2>2, <2>3, <2>5, TransactionWrite
    DEF UzumMarkPaid, At, TxStates, ChargedStates
<1>8. CASE UzumInvoicePaid(c)
  <2>1. PICK r \in CallRecords : r = [call[c] EXCEPT !.at = "readInvoice"]
    BY <1>1 DEF CallRecords, Steps
  <2>2. call' = [call EXCEPT ![c] = r]
    BY <1>8, <2>1 DEF UzumInvoicePaid, Goes, IInv, TypeOK
  <2>3. invoice'[o].status # "none"
    BY <1>2, <1>8 DEF UzumInvoicePaid, At, SetInvoiceStatus, IInv, TypeOK, Invoices
  <2>4. CallOK(r)'
    BY <1>1, <1>2, <1>8, <2>1, <2>3 DEF UzumInvoicePaid, At, CallOK, CallRecords
  <2> QED
    BY <1>8, <2>2, <2>4, InvoiceStatusOrLinkWrite DEF UzumInvoicePaid, At, InvoiceStatus
<1>9. CASE UzumReverseTx(c)
  <2>1. PICK r \in CallRecords : r = [call[c] EXCEPT !.at = "uzum invoiceCanceled"]
    BY <1>1 DEF CallRecords, Steps, UzumSteps
  <2>2. call' = [call EXCEPT ![c] = r]
    BY <1>9, <2>1 DEF UzumReverseTx, Goes, IInv, TypeOK
  <2>3. CallOK(r)'
    BY <1>1, <1>9, <2>1 DEF UzumReverseTx, At, CallOK, CallRecords
  <2> QED
    BY <1>2, <1>3, <1>9, <2>2, <2>3, TransactionWrite
    DEF UzumReverseTx, At, TxStates, ChargedStates
<1>10. CASE UzumInvoiceCanceled(c)
  BY <1>4, <1>10, InvoiceStatusOrLinkWrite
  DEF UzumInvoiceCanceled, At, Ends, InvoiceStatus, IInv, TypeOK
<1> QED
  BY <1>5, <1>6, <1>7, <1>8, <1>9, <1>10

(***************************************************************************)
(* Finalization.                                                           *)
(***************************************************************************)
(* A task ends with an answer to its provider.                             *)
LEMMA TaskAnswers ==
    ASSUME IInv, NEW c \in Calls, call[c].at \in FinalizeSteps, FinalizeEnds(c),
           call[c].tx \in PaymeTxs => Granted(call[c].order),
           UNCHANGED <<now, invoice, tx, sub, lotEnd, charged, grantCount>>, faults' \in Nat
    PROVE  IInv' /\ Forward
<1> DEFINE o == call[c].order
           t == call[c].tx
<1>1. t \in Txs /\ tx[t].state # "none" /\ tx[t].order = o
  BY DEF IInv, CheckoutConsistent, CallOK, FinalizeSteps, AfterLookup, AfterPayment
<1>2. TypeOK'
  BY <1>1, IdleIsOK DEF IInv, TypeOK, FinalizeEnds, Ends
<1>3. \A p : Granted(p)' = Granted(p)
  BY DEF Granted
<1>4. Forward
  BY <1>3 DEF Forward, IInv, TypeOK
<1>5. CallOK(call[c])'
  <2>1. call'[c] = Idle
    BY DEF IInv, TypeOK, FinalizeEnds, Ends
  <2>2. CallOK(Idle)'
    BY IdleStaysOK DEF IInv, TypeOK
  <2> QED
    BY <2>1, <2>2 DEF CallOK
<1>6. \A p \in Txs : TxOK(p)'
  BY <1>1, <1>3 DEF IInv, CheckoutConsistent, TxOK, FinalizeEnds
<1>7. \A p \in Orders : OrderOK(p)'
  BY <1>3 DEF IInv, CheckoutConsistent, OrderOK
<1>8. \A d \in Calls \ {c} : call'[d] = call[d]
  BY DEF IInv, TypeOK, FinalizeEnds, Ends
<1>9. \A u \in Users : ~sub'[u].exists => sub'[u] = NoDocument
  BY DEF IInv, CheckoutConsistent
<1> QED
  BY <1>2, <1>4, <1>5, <1>6, <1>7, <1>8, <1>9, OneTaskActs

(* The purchase of order o is written: nothing else about grants changes.  *)
LEMMA PurchaseIsWritten ==
    ASSUME IInv, TypeOK', NEW c \in Calls, NEW o \in Orders, NEW r \in CallRecords,
           o \in charged, ~Granted(o),
           \A p \in Orders : Granted(p)' <=> Granted(p) \/ p = o,
           grantCount' = [grantCount EXCEPT ![o] = @ + 1],
           call' = [call EXCEPT ![c] = r], CallOK(r)',
           \A u \in Users : sub[u].exists => sub'[u].exists,
           \A u \in Users : ~sub'[u].exists => sub'[u] = NoDocument,
           UNCHANGED <<now, invoice, tx, faults, answered, charged>>
    PROVE  IInv' /\ Forward
<1>1. Forward
  BY DEF Forward, IInv, TypeOK
<1>2. CallOK(call[c])'
  <2>1. call'[c] = r
    BY DEF IInv, TypeOK
  <2> QED
    BY <2>1 DEF CallOK
<1>3. \A t \in Txs : TxOK(t)'
  BY DEF IInv, CheckoutConsistent, TxOK
<1>4. \A p \in Orders : OrderOK(p)'
  <2> SUFFICES ASSUME NEW p \in Orders PROVE OrderOK(p)'
    OBVIOUS
  <2>1. grantCount'[p] = IF p = o THEN grantCount[o] + 1 ELSE grantCount[p]
    BY DEF IInv, TypeOK
  <2> QED
    BY <2>1 DEF IInv, CheckoutConsistent, OrderOK
<1>5. \A d \in Calls \ {c} : call'[d] = call[d]
  BY DEF IInv, TypeOK
<1> QED
  BY <1>1, <1>2, <1>3, <1>4, <1>5, OneTaskActs

(* Finalization's lookups of the invoice and of an earlier lot.            *)
LEMMA FinalizeReads ==
    ASSUME IInv, NEW c \in Calls, ReadInvoice(c) \/ FindLot(c)
    PROVE  IInv' /\ Forward
<1> USE DEF AfterLookup, AfterPayment, BeforeInvoice, FinalizeSteps, PaymeCreation,
            ClickCreation, UzumCreation
<1> DEFINE o == call[c].order
<1>1. CallOK(call[c]) /\ call[c] \in CallRecords /\ faults \in Nat
  BY DEF IInv, TypeOK, CheckoutConsistent
<1>2. CASE ReadInvoice(c)
  <2>1. o \in Orders /\ invoice[o].status # "none"
    BY <1>1, <1>2 DEF ReadInvoice, At, CallOK
  <2>2. CASE invoice[o].applied
    <3>1. Granted(o)
      BY <2>1, <2>2 DEF IInv, CheckoutConsistent, OrderOK
    <3> QED
      BY <1>1, <1>2, <2>1, <2>2, <3>1, TaskAnswers DEF ReadInvoice, At
  <2>3. CASE ~invoice[o].applied
    <3> DEFINE step == IF IsDailyPassQuote(QuoteOf[o]) THEN "findLot" ELSE "seed"
    <3>1. CallOK([call[c] EXCEPT !.at = step]) /\ step \in Steps
      BY <1>1, <1>2 DEF ReadInvoice, At, CallOK, CallRecords, Steps
    <3> QED
      BY <1>2, <2>1, <2>3, <3>1, TaskGoes DEF ReadInvoice
  <2> QED
    BY <2>2, <2>3
<1>3. CASE FindLot(c)
  <2> DEFINE step == IF lotEnd[o] # 0 THEN "markApplied" ELSE "insertLot"
  <2>1. CallOK([call[c] EXCEPT !.at = step]) /\ step \in Steps
    BY <1>1, <1>3 DEF FindLot, At, CallOK, CallRecords, Steps, Granted
  <2> QED
    BY <1>3, <2>1, TaskGoes DEF FindLot
<1> QED
  BY <1>2, <1>3

(* The lot's upsert grants the order unless it is granted already.         *)
LEMMA LotIsInserted ==
    ASSUME IInv, NEW c \in Calls, InsertLot(c)
    PROVE  IInv' /\ Forward
<1> USE DEF AfterLookup, AfterPayment, BeforeInvoice, FinalizeSteps, PaymeCreation,
            ClickCreation, UzumCreation
<1> DEFINE o == call[c].order
<1>1. CallOK(call[c]) /\ call[c] \in CallRecords
  BY DEF IInv, TypeOK, CheckoutConsistent
<1>2. o \in Orders /\ o \in charged /\ IsDailyPassQuote(QuoteOf[o])
  BY <1>1 DEF InsertLot, At, CallOK
<1>3. PICK r \in CallRecords : r = [call[c] EXCEPT !.at = "markApplied"]
  BY <1>1 DEF CallRecords, Steps
<1>4. call' = [call EXCEPT ![c] = r]
  BY <1>3 DEF InsertLot, Goes, IInv, TypeOK
<1>5. CASE lotEnd[o] # 0
  <2>1. Granted(o)
    BY <1>2, <1>5 DEF Granted
  <2>2. CallOK(r)
    BY <1>1, <1>3, <2>1 DEF InsertLot, At, CallOK, CallRecords
  <2> QED
    BY <1>4, <1>5, <2>2, OnlyTheTaskMoves DEF InsertLot, IInv, TypeOK
<1>6. CASE lotEnd[o] = 0
  <2> DEFINE end == call[c].began + QuoteOf[o].days
  <2>1. end \in Nat /\ end # 0
    <3>1. call[c].began \in Nat
      BY <1>1 DEF CallRecords
    <3>2. QuoteOf[o].days \in Nat \ {0}
      BY <1>2, FinalizationAssumption DEF Quote
    <3>3. \A m \in Nat, n \in Nat \ {0} : m + n \in Nat /\ m + n # 0
      OBVIOUS
    <3> HIDE DEF o
    <3> QED
      BY ONLY <3>1, <3>2, <3>3
  <2> HIDE DEF end
  <2>2. lotEnd' = [lotEnd EXCEPT ![o] = end] /\ grantCount' = [grantCount EXCEPT ![o] = @ + 1]
    BY <1>6 DEF InsertLot, end
  <2>3. TypeOK'
    BY <1>2, <1>4, <2>1, <2>2 DEF InsertLot, IInv, TypeOK
  <2>4. ~Granted(o)
    BY <1>2, <1>6 DEF Granted
  <2>5. \A p \in Orders : lotEnd'[p] = IF p = o THEN end ELSE lotEnd[p]
    BY <2>2 DEF IInv, TypeOK
  <2>6. \A p \in Orders : Granted(p)' <=> Granted(p) \/ p = o
    BY <1>2, <2>1, <2>5 DEF Granted, InsertLot
  <2>7. Granted(r.order)'
    BY <1>2, <1>3, <2>6 DEF CallRecords
  <2>8. CallOK(r)'
    BY <1>1, <1>3, <2>7 DEF InsertLot, At, CallOK, CallRecords
  <2>9. \A u \in Users : ~sub[u].exists => sub[u] = NoDocument
    BY DEF IInv, CheckoutConsistent
  <2> QED
    BY <1>2, <1>4, <2>2, <2>3, <2>4, <2>6, <2>8, <2>9, PurchaseIsWritten DEF InsertLot
<1> QED
  BY <1>5, <1>6

(* Seeding takes no grant from a user who has a document.                  *)
LEMMA DocumentIsSeeded ==
    ASSUME IInv, NEW c \in Calls, SeedDocument(c)
    PROVE  IInv' /\ Forward
<1> USE DEF AfterLookup, AfterPayment, BeforeInvoice, FinalizeSteps, PaymeCreation,
            ClickCreation, UzumCreation
<1> DEFINE o == call[c].order
           u == OwnerOf[o]
           d == Seeded(sub[u], Legacy[u])
<1>1. CallOK(call[c]) /\ call[c] \in CallRecords
  BY DEF IInv, TypeOK, CheckoutConsistent
<1>2. o \in Orders /\ u \in Users
  BY <1>1, FinalizationAssumption DEF SeedDocument, At, CallOK
<1>3. d \in Document(Orders) /\ d.exists /\ d.grants = sub[u].grants
  <2>1. Legacy[u] \in Document(Orders) /\ Legacy[u].grants = {} /\ sub[u] \in Document(Orders)
    BY <1>2, FinalizationAssumption DEF IInv, TypeOK
  <2>2. ~sub[u].exists => sub[u].grants = {}
    BY <1>2 DEF IInv, CheckoutConsistent, NoDocument
  <2> QED
    BY <2>1, <2>2 DEF Seeded, Document
<1>4. sub' = [sub EXCEPT ![u] = d]
  BY DEF SeedDocument
<1> HIDE DEF d
<1>5. PICK r \in CallRecords : r = [call[c] EXCEPT !.at = "grant"]
  BY <1>1 DEF CallRecords, Steps
<1>6. call' = [call EXCEPT ![c] = r]
  BY <1>5 DEF SeedDocument, Goes, IInv, TypeOK
<1>7. TypeOK'
  BY <1>2, <1>3, <1>4, <1>6 DEF SeedDocument, IInv, TypeOK
<1>8. \A v \in Users : sub'[v] = IF v = u THEN d ELSE sub[v]
  BY <1>4 DEF IInv, TypeOK
<1>9. \A p \in Orders : Granted(p)' = Granted(p)
  BY <1>3, <1>8, FinalizationAssumption DEF Granted, SeedDocument
<1>10. Forward
  BY <1>3, <1>8, <1>9 DEF Forward, SeedDocument, IInv, TypeOK
<1>11. CallOK(r)'
  BY <1>1, <1>2, <1>3, <1>5, <1>8 DEF SeedDocument, At, CallOK, CallRecords
<1>12. CallOK(call[c])'
  <2>1. call'[c] = r
    BY <1>6 DEF IInv, TypeOK
  <2> QED
    BY <1>11, <2>1 DEF CallOK
<1>13. \A t \in Txs : TxOK(t)'
  BY <1>9 DEF SeedDocument, IInv, CheckoutConsistent, TxOK
<1>14. \A p \in Orders : OrderOK(p)'
  BY <1>9 DEF SeedDocument, IInv, CheckoutConsistent, OrderOK
<1>15. \A e \in Calls \ {c} : call'[e] = call[e]
  BY <1>6 DEF IInv, TypeOK
<1>16. \A v \in Users : ~sub'[v].exists => sub'[v] = NoDocument
  BY <1>3, <1>8 DEF IInv, CheckoutConsistent
<1> QED
  BY <1>7, <1>10, <1>12, <1>13, <1>14, <1>15, <1>16, OneTaskActs

(* The pipeline grants the order once, and other orders' grants stay.      *)
LEMMA GrantIsApplied ==
    ASSUME IInv, NEW c \in Calls, ApplyGrant(c)
    PROVE  IInv' /\ Forward
<1> USE DEF AfterLookup, AfterPayment, BeforeInvoice, FinalizeSteps, PaymeCreation,
            ClickCreation, UzumCreation
<1> DEFINE o == call[c].order
           u == OwnerOf[o]
           d == WebGrant(sub[u], QuoteOf[o], o, o \notin Unversioned, call[c].began)
<1>1. CallOK(call[c]) /\ call[c] \in CallRecords
  BY DEF IInv, TypeOK, CheckoutConsistent
<1>2. /\ o \in Orders /\ o \in charged /\ ~IsDailyPassQuote(QuoteOf[o])
      /\ u \in Users /\ QuoteOf[o] \in Quote /\ call[c].began \in Nat
      /\ sub[u] \in Document(Orders)
  BY <1>1, FinalizationAssumption DEF ApplyGrant, At, CallOK, CallRecords, IInv, TypeOK
<1>3. d \in Document(Orders) /\ d.exists /\ d.grants = sub[u].grants \cup {o}
  BY <1>2, WebGrantWrites
<1>4. PICK r \in CallRecords : r = [call[c] EXCEPT !.at = "markApplied"]
  BY <1>1 DEF CallRecords, Steps
<1>5. call' = [call EXCEPT ![c] = r]
  BY <1>4 DEF ApplyGrant, Goes, IInv, TypeOK
<1>6. CASE ~GrantIsNew(sub[u], o)
  <2>1. Granted(o)
    BY <1>2, <1>6 DEF Granted, GrantIsNew
  <2>2. CallOK(r)
    BY <1>1, <1>4, <2>1 DEF ApplyGrant, At, CallOK, CallRecords
  <2> QED
    BY <1>5, <1>6, <2>2, OnlyTheTaskMoves DEF ApplyGrant, IInv, TypeOK
<1>7. CASE GrantIsNew(sub[u], o)
  <2>1. sub' = [sub EXCEPT ![u] = d] /\ grantCount' = [grantCount EXCEPT ![o] = @ + 1]
    BY <1>7 DEF ApplyGrant
  <2> HIDE DEF d
  <2>2. TypeOK'
    BY <1>2, <1>3, <1>5, <2>1 DEF ApplyGrant, IInv, TypeOK
  <2>3. ~Granted(o)
    BY <1>2, <1>7 DEF Granted, GrantIsNew
  <2>4. \A v \in Users : sub'[v] = IF v = u THEN d ELSE sub[v]
    BY <2>1 DEF IInv, TypeOK
  <2>5. \A p \in Orders : Granted(p)' <=> Granted(p) \/ p = o
    BY <1>2, <1>3, <2>4, FinalizationAssumption DEF Granted, ApplyGrant
  <2>6. Granted(r.order)'
    BY <1>2, <1>4, <2>5 DEF CallRecords
  <2>7. CallOK(r)'
    BY <1>1, <1>4, <2>6 DEF ApplyGrant, At, CallOK, CallRecords
  <2>8. \A v \in Users : (sub[v].exists => sub'[v].exists) /\ (~sub'[v].exists => sub'[v] = NoDocument)
    BY <1>3, <2>4 DEF IInv, CheckoutConsistent
  <2> QED
    BY <1>2, <1>5, <2>1, <2>2, <2>3, <2>5, <2>7, <2>8, PurchaseIsWritten DEF ApplyGrant
<1> QED
  BY <1>6, <1>7

(* The invoice is closed behind the grant, and the provider answered.      *)
LEMMA InvoiceIsApplied ==
    ASSUME IInv, NEW c \in Calls, MarkApplied(c)
    PROVE  IInv' /\ Forward
<1> DEFINE o == call[c].order
           t == call[c].tx
           i == [invoice[o] EXCEPT !.applied = TRUE]
<1>1. /\ o \in Orders /\ t \in Txs /\ Granted(o) /\ invoice[o].status # "none"
      /\ tx[t].state # "none" /\ tx[t].order = o
  BY DEF MarkApplied, At, IInv, CheckoutConsistent, CallOK, BeforeInvoice, AfterLookup,
         AfterPayment, FinalizeSteps
<1>2. i \in Invoices /\ i.status # "none"
  BY <1>1 DEF IInv, TypeOK, Invoices
<1>3. invoice' = [invoice EXCEPT ![o] = i]
  BY DEF MarkApplied, IInv, TypeOK
<1> HIDE DEF i
<1>4. \A p \in PaymeTxs \cap answered' : tx[p].state # "none" /\ Granted(tx[p].order)
  BY <1>1, PaymeAssumption DEF MarkApplied, FinalizeEnds, IInv, CheckoutConsistent, TxOK
<1>5. answered' \subseteq Txs
  BY <1>1 DEF MarkApplied, FinalizeEnds, IInv, TypeOK
<1>6. call' = [call EXCEPT ![c] = Idle] /\ Idle \in CallRecords /\ CallOK(Idle)'
  BY IdleStaysOK DEF MarkApplied, FinalizeEnds, Ends, IInv, TypeOK
<1> QED
  BY <1>1, <1>2, <1>3, <1>4, <1>5, <1>6, InvoiceWrite DEF MarkApplied

(* A swallowed exception answers Click or Uzum, never Payme.               *)
LEMMA FinalizeIsSwallowed ==
    ASSUME IInv, NEW c \in Calls, ClickFinalizeRaises(c) \/ UzumFinalizeRaises(c)
    PROVE  IInv' /\ Forward
<1>1. call[c].tx \notin PaymeTxs
  BY WebCheckoutAssumption DEF ClickFinalizeRaises, UzumFinalizeRaises
<1>2. faults' \in Nat
  BY DEF ClickFinalizeRaises, UzumFinalizeRaises, IInv, TypeOK
<1> QED
  BY <1>1, <1>2, TaskAnswers DEF ClickFinalizeRaises, UzumFinalizeRaises

(***************************************************************************)
(* Issuing an invoice, and the environment.                                *)
(***************************************************************************)
(* A fresh order's invoice relates to no transaction and no grant.         *)
LEMMA InvoiceIsIssued ==
    ASSUME IInv, NEW o \in Orders, InitPayment(o)
    PROVE  IInv' /\ Forward
<1>1. PendingInvoice \in Invoices /\ PendingInvoice.status # "none" /\ ~PendingInvoice.applied
  BY DEF PendingInvoice, NoInvoice, Invoices, InvoiceStatus
<1>2. invoice' = [invoice EXCEPT ![o] = PendingInvoice]
  BY DEF InitPayment, IssueInvoice
<1>3. TypeOK'
  BY <1>1, <1>2 DEF InitPayment, IInv, TypeOK
<1>4. \A p \in Orders : invoice'[p] = IF p = o THEN PendingInvoice ELSE invoice[p]
  BY <1>2 DEF IInv, TypeOK
<1>5. \A p : Granted(p)' = Granted(p)
  BY DEF Granted, InitPayment
<1>6. Forward
  BY <1>1, <1>4, <1>5 DEF InitPayment, Forward, IInv, TypeOK
<1>7. \A c \in Calls : CallOK(call[c])'
  <2> SUFFICES ASSUME NEW c \in Calls PROVE CallOK(call[c])'
    OBVIOUS
  <2>1. CallOK(call[c]) /\ call[c] \in CallRecords /\ call'[c] = call[c]
    BY DEF InitPayment, IInv, TypeOK, CheckoutConsistent
  <2>2. PICK r \in CallRecords : r = call[c]
    BY <2>1
  <2>3. CallOK(r)'
    BY <1>3, <1>6, <2>1, <2>2, CallStays DEF IInv
  <2> QED
    BY <2>1, <2>2, <2>3 DEF CallOK
<1>8. \A t \in Txs : TxOK(t)'
  BY <1>1, <1>4, <1>5 DEF InitPayment, IInv, CheckoutConsistent, TxOK
<1>9. \A p \in Orders : OrderOK(p)'
  BY <1>1, <1>4, <1>5 DEF InitPayment, IInv, CheckoutConsistent, OrderOK
<1> QED
  BY <1>3, <1>6, <1>7, <1>8, <1>9 DEF InitPayment, IInv, CheckoutConsistent

(* Time only adds to what began earlier.                                   *)
LEMMA TimePasses ==
    ASSUME IInv, Tick
    PROVE  IInv' /\ Forward
<1>1. TypeOK'
  BY DEF Tick, IInv, TypeOK
<1>2. \A p : Granted(p)' = Granted(p)
  BY DEF Granted, Tick
<1>3. Forward
  BY <1>2 DEF Tick, Forward, IInv, TypeOK
<1>4. \A c \in Calls : CallOK(call[c])'
  <2> SUFFICES ASSUME NEW c \in Calls PROVE CallOK(call[c])'
    OBVIOUS
  <2>1. CallOK(call[c]) /\ call[c] \in CallRecords /\ call'[c] = call[c]
    BY DEF Tick, IInv, TypeOK, CheckoutConsistent
  <2>2. PICK r \in CallRecords : r = call[c]
    BY <2>1
  <2>3. CallOK(r)'
    BY <1>1, <1>3, <2>1, <2>2, CallStays DEF IInv
  <2> QED
    BY <2>1, <2>2, <2>3 DEF CallOK
<1>5. (\A t \in Txs : TxOK(t)') /\ (\A p \in Orders : OrderOK(p)')
  BY <1>2 DEF Tick, IInv, CheckoutConsistent, TxOK, OrderOK
<1> QED
  BY <1>1, <1>3, <1>4, <1>5 DEF Tick, IInv, CheckoutConsistent

(***************************************************************************)
(* The invariant.                                                          *)
(***************************************************************************)
(* Before any callback everything is consistent.                           *)
LEMMA InitIsConsistent == Init => IInv
<1> SUFFICES ASSUME Init PROVE IInv
  OBVIOUS
<1>1. \A o \in Orders : /\ invoice[o] \in Invoices /\ ~invoice[o].applied /\ ~Granted(o)
                        /\ grantCount[o] = 0
  BY FinalizationAssumption
  DEF Init, Invoices, PendingInvoice, NoInvoice, InvoiceStatus, Granted, NoDocument
<1>2. TypeOK
  <2>1. NoDocument \in Document(Orders)
    BY DEF NoDocument, Document
  <2>2. Idle \in CallRecords
    BY DEF Idle, CallRecords, Steps, TxStates
  <2>3. NoTx \in Transactions
    BY DEF NoTx, Transactions, TxStates
  <2> QED
    BY <1>1, <2>1, <2>2, <2>3 DEF Init, TypeOK
<1>3. \A c \in Calls : CallOK(call[c])
  BY <1>2, IdleIsOK DEF Init
<1>4. \A t \in Txs : TxOK(t)
  BY DEF Init, TxOK, NoTx, ChargedStates
<1>5. \A o \in Orders : OrderOK(o)
  BY <1>1 DEF OrderOK
<1> QED
  BY <1>2, <1>3, <1>4, <1>5 DEF Init, IInv, CheckoutConsistent, NoDocument

(* Every step of checkout keeps the invariant and goes forward.            *)
LEMMA StepIsConsistent ==
    ASSUME IInv, Next
    PROVE  IInv' /\ Forward
<1>1. CASE PaymeNext
  <2>1. ASSUME NEW o \in PaymeOrders, InitPayment(o) PROVE IInv' /\ Forward
    BY <2>1, InvoiceIsIssued, PaymeAssumption
  <2>2. ASSUME NEW c \in Calls, PaymeRequest(c) \/ PaymeProgress(c) PROVE IInv' /\ Forward
    BY <2>2, PaymeStarts, PaymeReads, PaymeWrites DEF PaymeProgress
  <2> QED
    BY <1>1, <2>1, <2>2 DEF PaymeNext
<1>2. CASE ClickNext
  <2>1. ASSUME NEW o \in ClickOrders, InitPayment(o) PROVE IInv' /\ Forward
    BY <2>1, InvoiceIsIssued, ClickAssumption
  <2>2. ASSUME NEW c \in Calls, ClickRequest(c) \/ ClickProgress(c) \/ ClickFinalizeRaises(c)
        PROVE  IInv' /\ Forward
    BY <2>2, ClickStarts, ClickReads, ClickWrites, FinalizeIsSwallowed DEF ClickProgress
  <2> QED
    BY <1>2, <2>1, <2>2 DEF ClickNext
<1>3. CASE UzumNext
  <2>1. ASSUME NEW c \in Calls, UzumRequest(c) \/ UzumProgress(c) \/ UzumFinalizeRaises(c)
        PROVE  IInv' /\ Forward
    BY <2>1, UzumStarts, UzumReads, UzumWrites, FinalizeIsSwallowed DEF UzumProgress
  <2> QED
    BY <1>3, <2>1 DEF UzumNext
<1>4. ASSUME NEW c \in Calls, Finalize(c) PROVE IInv' /\ Forward
  BY <1>4, FinalizeReads, LotIsInserted, DocumentIsSeeded, GrantIsApplied, InvoiceIsApplied
  DEF Finalize
<1>5. CASE Environment
  <2>1. ASSUME NEW c \in Calls, Lost(c) PROVE IInv' /\ Forward
    BY <2>1, TaskEnds DEF Lost, IInv, TypeOK
  <2> QED
    BY <1>5, <2>1, TimePasses DEF Environment
<1> QED
  BY <1>1, <1>2, <1>3, <1>4, <1>5 DEF Next

(* A stuttering step keeps the invariant.                                  *)
LEMMA StutterIsConsistent ==
    ASSUME IInv, UNCHANGED vars
    PROVE  IInv'
<1>1. \A p : Granted(p)' = Granted(p)
  BY DEF Granted, vars
<1>2. \A r : CallOK(r)' = CallOK(r)
  BY <1>1 DEF CallOK, vars
<1> QED
  BY <1>1, <1>2 DEF vars, IInv, TypeOK, CheckoutConsistent, TxOK, OrderOK

(* Every reachable state is consistent: tasks, documents and history agree *)
(* at every await point of every handler.                                  *)
THEOREM Consistent == Spec => []IInv
<1>1. IInv /\ [Next]_vars => IInv'
  BY StepIsConsistent, StutterIsConsistent
<1> QED
  BY InitIsConsistent, <1>1, PTL DEF Spec

(* Whatever the interleaving, callbacks leave well-formed documents.       *)
THEOREM TypeCorrect == Spec => []TypeOK
  BY Consistent, PTL DEF IInv

(* No interleaving of callbacks, retries, duplicate transactions and lost  *)
(* tasks writes an order's purchase twice.                                 *)
THEOREM GrantIsUnique == Spec => []GrantedAtMostOnce
<1>1. IInv => GrantedAtMostOnce
  BY DEF IInv, CheckoutConsistent, OrderOK, GrantedAtMostOnce
<1> QED
  BY <1>1, Consistent, PTL

(* Nothing is granted that was not paid for.                               *)
THEOREM GrantIsCharged == Spec => []GrantedOnlyIfCharged
<1>1. IInv => GrantedOnlyIfCharged
  BY DEF IInv, CheckoutConsistent, OrderOK, GrantedOnlyIfCharged
<1> QED
  BY <1>1, Consistent, PTL

(* Every purchase is written once at most, and only behind its charge.     *)
THEOREM GrantIsDue == Spec => []GrantedOnceIfCharged
  BY GrantIsUnique, GrantIsCharged, PTL DEF GrantedOnceIfCharged

(* An invoice is closed for retries only behind its stored purchase.       *)
THEOREM ClosedInvoiceIsGranted == Spec => []AppliedIsGranted
<1>1. IInv => AppliedIsGranted
  BY DEF IInv, CheckoutConsistent, OrderOK, AppliedIsGranted
<1> QED
  BY <1>1, Consistent, PTL

(* Payme is answered only behind the stored purchase, so the retry it will *)
(* never make is not needed.                                               *)
THEOREM PaymeAnswerIsSafe == Spec => []PaymeAnswerIsGranted
<1>1. IInv => PaymeAnswerIsGranted
  BY PaymeAssumption DEF IInv, CheckoutConsistent, TxOK, PaymeAnswerIsGranted
<1> QED
  BY <1>1, Consistent, PTL

(* No step unissues an invoice, rebinds a transaction, deletes a           *)
(* subscription or withdraws a grant: what a task read before an await is  *)
(* still true behind it.                                                   *)
THEOREM NothingIsForgotten == Spec => [][Forward]_vars
  BY StepIsConsistent, Consistent, PTL DEF Spec

(***************************************************************************)
(* What earlier purchases paid for.                                        *)
(***************************************************************************)
(* A grant to an active plan lowers neither its balance nor, but for an    *)
(* upgrade, its end.                                                       *)
LEMMA WebGrantKeeps ==
    ASSUME NEW d \in Document(Orders), NEW q \in Quote, NEW key, NEW fullPrice,
           NEW t \in Nat, NEW n \in Nat, t <= n, ActiveAt(d, n)
    PROVE  LET e == WebGrant(d, q, key, fullPrice, t)
           IN  /\ e.remaining >= d.remaining
               /\ e.end >= d.end \/ (d.tier = "standard" /\ e.tier = "pro")
<1> DEFINE e == WebGrant(d, q, key, fullPrice, t)
<1>1. d.end \in Nat /\ d.remaining \in Nat /\ d.end > t /\ q.days \in Nat /\ q.credits \in Nat
  BY DEF Document, Quote, ActiveAt
<1>2. e.remaining = d.remaining + q.credits
  BY <1>1 DEF WebGrant, CarriedCredits, AtLeastZero, Larger, ActiveAt
<1>3. CASE UpgradesToPro(d, q, fullPrice, t)
  <2>1. d.tier = "standard" /\ e.tier = "pro"
    BY <1>3 DEF WebGrant, UpgradesToPro
  <2> QED
    BY <1>1, <1>2, <2>1
<1>4. CASE ~UpgradesToPro(d, q, fullPrice, t)
  <2>1. e.end = d.end + q.days
    BY <1>1, <1>4 DEF WebGrant, Larger
  <2> QED
    BY <1>1, <1>2, <2>1
<1> QED
  BY <1>3, <1>4

(* Only two steps of checkout write a subscription.                        *)
LEMMA SubscriptionWrites ==
    ASSUME Next
    PROVE  UNCHANGED sub \/ \E c \in Calls : SeedDocument(c) \/ ApplyGrant(c)
<1>1. PaymeNext => UNCHANGED sub
  BY DEF PaymeNext, InitPayment, PaymeRequest, PaymeProgress, PaymeFindsExpired, PaymePerform,
         PaymeCancel, PaymeCreate, PaymeExpire, PaymeCheckPerform, PaymeFindOther, PaymeInsertTx,
         PaymeLinkInvoice, PaymeMarkPaid, PaymeInvoicePaid, PaymeCancelTx, PaymeInvoiceCanceled
<1>2. ClickNext => UNCHANGED sub
  BY DEF ClickNext, InitPayment, ClickRequest, ClickProgress, ClickPrepare, ClickComplete,
         ClickFindTx, ClickInsertTx, ClickLink, ClickReadInvoice, ClickMarkPaid,
         ClickInvoicePaid, ClickCancelTx, ClickInvoiceCanceled, ClickFinalizeRaises
<1>3. UzumNext => UNCHANGED sub
  BY DEF UzumNext, UzumRequest, UzumProgress, UzumCreate, UzumConfirm, UzumReverse,
         UzumEligible, UzumInsertInvoice, UzumInsertTx, UzumMarkPaid, UzumInvoicePaid,
         UzumReverseTx, UzumInvoiceCanceled, UzumFinalizeRaises
<1>4. \A c \in Calls : Finalize(c) => UNCHANGED sub \/ SeedDocument(c) \/ ApplyGrant(c)
  BY DEF Finalize, ReadInvoice, FindLot, InsertLot, MarkApplied
<1>5. Environment => UNCHANGED sub
  BY DEF Environment, Tick, Lost
<1> QED
  BY <1>1, <1>2, <1>3, <1>4, <1>5 DEF Next

(* A purchase never costs the customer unused credits or paid time, except *)
(* that the Standard to Pro upgrade restarts the period.                   *)
THEOREM PurchasesAddUp == Spec => PaidBalanceSurvives
<1> DEFINE Keeps(u) ==
             ActiveAt(sub[u], now) =>
                 /\ sub'[u].remaining >= sub[u].remaining
                 /\ \/ sub'[u].end >= sub[u].end
                    \/ sub[u].tier = "standard" /\ sub'[u].tier = "pro"
<1>1. ASSUME IInv, Next, NEW u \in Users, ActiveAt(sub[u], now) PROVE Keeps(u)
  <2>0. sub[u] \in Document(Orders) /\ sub[u].end \in Nat /\ sub[u].remaining \in Nat /\ now \in Nat
    BY <1>1 DEF IInv, TypeOK, Document
  <2>1. sub[u].exists
    BY <1>1, <2>0 DEF IInv, CheckoutConsistent, NoDocument, ActiveAt
  <2>2. CASE UNCHANGED sub
    BY <2>0, <2>2
  <2>3. ASSUME NEW c \in Calls, SeedDocument(c) PROVE Keeps(u)
    <3>1. sub'[u] = sub[u]
      BY <1>1, <2>1, <2>3 DEF SeedDocument, Seeded, IInv, TypeOK
    <3> QED
      BY <2>0, <3>1
  <2>4. ASSUME NEW c \in Calls, ApplyGrant(c) PROVE Keeps(u)
    <3> DEFINE o == call[c].order
    <3>1. o \in Orders /\ QuoteOf[o] \in Quote /\ call[c].began \in Nat /\ call[c].began <= now
      BY <1>1, <2>4, FinalizationAssumption
      DEF ApplyGrant, At, IInv, TypeOK, CheckoutConsistent, CallOK, CallRecords
    <3>2. CASE sub'[u] = sub[u]
      BY <2>0, <3>2
    <3>3. CASE sub'[u] = WebGrant(sub[u], QuoteOf[o], o, o \notin Unversioned, call[c].began)
      BY <1>1, <2>0, <3>1, <3>3, WebGrantKeeps
    <3> QED
      BY <1>1, <2>4, <3>2, <3>3 DEF ApplyGrant, IInv, TypeOK
  <2> QED
    BY <1>1, <2>2, <2>3, <2>4, SubscriptionWrites
<1>2. ASSUME IInv, [Next]_vars PROVE [\A u \in Users : Keeps(u)]_vars
  BY <1>1, <1>2
<1> QED
  BY <1>2, Consistent, PTL DEF Spec, PaidBalanceSurvives

(***************************************************************************)
(* Checkout implements the ledger.                                         *)
(***************************************************************************)
SameApplied == \A o \in Orders : invoice'[o].applied = invoice[o].applied

(* Status and link updates close no invoice.                               *)
LEMMA StatusOrLinkKeepsApplied ==
    ASSUME invoice \in [Orders -> Invoices], NEW o, NEW v,
           \/ invoice' = [invoice EXCEPT ![o].status = v]
           \/ invoice' = [invoice EXCEPT ![o].link = v]
    PROVE  SameApplied
<1> SUFFICES ASSUME NEW p \in Orders PROVE invoice'[p].applied = invoice[p].applied
  BY DEF SameApplied
<1>1. invoice[p] \in Invoices
  OBVIOUS
<1> QED
  BY <1>1 DEF Invoices

(* A new invoice is not closed.                                            *)
LEMMA NewInvoiceKeepsApplied ==
    ASSUME IInv, NEW o \in Orders, NEW i, invoice[o].status = "none", i.applied = FALSE,
           invoice' = [invoice EXCEPT ![o] = i]
    PROVE  SameApplied
<1>1. invoice[o].applied = FALSE
  BY DEF IInv, TypeOK, Invoices, CheckoutConsistent, OrderOK
<1>2. \A p \in Orders \ {o} : invoice'[p] = invoice[p]
  BY DEF IInv, TypeOK
<1>3. invoice'[o] = i
  BY DEF IInv, TypeOK
<1> QED
  BY <1>1, <1>2, <1>3 DEF SameApplied

(* Steps that write none of what the ledger shows, and the others.         *)
LEMMA SilentSteps ==
    ASSUME IInv, Next
    PROVE  \/ UNCHANGED <<sub, lotEnd, charged>> /\ SameApplied
           \/ \E c \in Calls : \/ PaymeMarkPaid(c) \/ ClickMarkPaid(c) \/ UzumMarkPaid(c)
                              \/ SeedDocument(c) \/ InsertLot(c) \/ ApplyGrant(c) \/ MarkApplied(c)
<1> DEFINE Silent == UNCHANGED <<sub, lotEnd, charged>> /\ SameApplied
<1>1. PendingInvoice.applied = FALSE /\ \A t : [PendingInvoice EXCEPT !.link = t].applied = FALSE
  BY DEF PendingInvoice, NoInvoice
<1>2. invoice \in [Orders -> Invoices]
  BY DEF IInv, TypeOK
<1>3. UNCHANGED invoice => SameApplied
  BY DEF SameApplied
<1>4. \A o \in Orders : InitPayment(o) => Silent
  BY <1>1, NewInvoiceKeepsApplied DEF InitPayment, IssueInvoice
<1>5. \A c \in Calls : PaymeRequest(c) => Silent
  BY <1>3 DEF PaymeRequest, PaymeFindsExpired, PaymePerform, PaymeCancel, PaymeCreate
<1>6. \A c \in Calls : PaymeProgress(c) => Silent \/ PaymeMarkPaid(c)
  BY <1>2, <1>3, StatusOrLinkKeepsApplied
  DEF PaymeProgress, PaymeExpire, PaymeCheckPerform, PaymeFindOther, PaymeInsertTx,
      PaymeLinkInvoice, PaymeInvoicePaid, PaymeCancelTx, PaymeInvoiceCanceled, SetInvoiceStatus
<1>7. \A c \in Calls : ClickRequest(c) \/ ClickFinalizeRaises(c) => Silent
  BY <1>3 DEF ClickRequest, ClickPrepare, ClickComplete, ClickFinalizeRaises
<1>8. \A c \in Calls : ClickProgress(c) => Silent \/ ClickMarkPaid(c)
  BY <1>2, <1>3, StatusOrLinkKeepsApplied
  DEF ClickProgress, ClickFindTx, ClickInsertTx, ClickLink, ClickReadInvoice,
      ClickInvoicePaid, ClickCancelTx, ClickInvoiceCanceled, SetInvoiceStatus
<1>9. \A c \in Calls : UzumRequest(c) \/ UzumFinalizeRaises(c) => Silent
  BY <1>3 DEF UzumRequest, UzumCreate, UzumConfirm, UzumReverse, UzumFinalizeRaises
<1>10. \A c \in Calls : UzumProgress(c) => Silent \/ UzumMarkPaid(c)
  <2> SUFFICES ASSUME NEW c \in Calls, UzumProgress(c) PROVE Silent \/ UzumMarkPaid(c)
    OBVIOUS
  <2>1. CASE UzumInsertInvoice(c)
    <3>1. call[c].order \in Orders
      BY <2>1 DEF UzumInsertInvoice, At, IInv, CheckoutConsistent, CallOK
    <3>2. CASE invoice[call[c].order].status = "none"
      BY <1>1, <2>1, <3>1, <3>2, NewInvoiceKeepsApplied DEF UzumInsertInvoice
    <3>3. CASE invoice[call[c].order].status # "none"
      BY <1>3, <2>1, <3>3 DEF UzumInsertInvoice
    <3> QED
      BY <3>2, <3>3
  <2>2. CASE UzumInvoicePaid(c) \/ UzumInvoiceCanceled(c)
    BY <1>2, <2>2, StatusOrLinkKeepsApplied
    DEF UzumInvoicePaid, UzumInvoiceCanceled, SetInvoiceStatus
  <2>3. CASE UzumEligible(c) \/ UzumInsertTx(c) \/ UzumReverseTx(c)
    BY <1>3, <2>3 DEF UzumEligible, UzumInsertTx, UzumReverseTx
  <2> QED
    BY <2>1, <2>2, <2>3 DEF UzumProgress
<1>11. \A c \in Calls : Finalize(c) =>
          Silent \/ SeedDocument(c) \/ InsertLot(c) \/ ApplyGrant(c) \/ MarkApplied(c)
  BY <1>3 DEF Finalize, ReadInvoice, FindLot
<1>12. Environment => Silent
  BY <1>3 DEF Environment, Tick, Lost
<1> QED
  BY <1>4, <1>5, <1>6, <1>7, <1>8, <1>9, <1>10, <1>11, <1>12, PaymeAssumption, ClickAssumption
  DEF Next, PaymeNext, ClickNext, UzumNext

(* Steps that pay, grant and close nothing stutter in the ledger.          *)
LEMMA LedgerStays ==
    ASSUME UNCHANGED <<sub, lotEnd, charged>>, SameApplied
    PROVE  [Ledger!Next]_(Ledger!ledger)
  BY DEF Ledger!ledger, Granted, SameApplied

(* Every step of checkout is a step of the ledger or stutters there.       *)
LEMMA LedgerStep ==
    ASSUME IInv, Next
    PROVE  [Ledger!Next]_(Ledger!ledger)
<1>1. Forward /\ IInv'
  BY StepIsConsistent
<1>2. ASSUME NEW c \in Calls, PaymeMarkPaid(c) \/ ClickMarkPaid(c) \/ UzumMarkPaid(c)
      PROVE  [Ledger!Next]_(Ledger!ledger)
  <2> DEFINE o == call[c].order
  <2>1. o \in Orders
    BY <1>2 DEF PaymeMarkPaid, ClickMarkPaid, UzumMarkPaid, At, IInv, CheckoutConsistent, CallOK
  <2>2. /\ UNCHANGED <<invoice, sub, lotEnd>>
        /\ charged' = charged \cup {o}
    BY <1>2 DEF PaymeMarkPaid, ClickMarkPaid, UzumMarkPaid
  <2>3. \A p : Granted(p)' = Granted(p)
    BY <2>2 DEF Granted
  <2>4. CASE o \in charged
    BY <2>2, <2>3, <2>4 DEF Ledger!ledger
  <2>5. CASE o \notin charged
    <3>1. Ledger!Pay(o)
      BY <2>2, <2>3, <2>5 DEF Ledger!Pay
    <3> QED
      BY <2>1, <3>1 DEF Ledger!Next
  <2> QED
    BY <2>4, <2>5
<1>3. ASSUME NEW c \in Calls, InsertLot(c) \/ ApplyGrant(c) \/ SeedDocument(c)
      PROVE  [Ledger!Next]_(Ledger!ledger)
  <2>1. PICK o \in Orders : o = call[c].order
    BY <1>3 DEF InsertLot, ApplyGrant, SeedDocument, At, IInv, CheckoutConsistent, CallOK
  <2>2. UNCHANGED <<invoice, charged>>
    BY <1>3 DEF InsertLot, ApplyGrant, SeedDocument
  <2>3. \A p \in Orders \ {o} : grantCount'[p] = grantCount[p]
    BY <1>3, <2>1 DEF InsertLot, ApplyGrant, SeedDocument, IInv, TypeOK
  <2>4. \A p \in Orders \ {o} : Granted(p)' <=> Granted(p)
    BY <1>1, <2>3 DEF IInv, CheckoutConsistent, OrderOK
  <2>5. CASE Granted(o)' <=> Granted(o)
    <3>1. \A p \in Orders : Granted(p)' <=> Granted(p)
      BY <2>4, <2>5
    <3> QED
      BY <2>2, <3>1 DEF Ledger!ledger
  <2>6. CASE Granted(o)' /\ ~Granted(o)
    <3>1. o \in charged
      BY <1>1, <2>2, <2>6 DEF IInv, CheckoutConsistent, OrderOK
    <3>2. {p \in Orders : Granted(p)}' = {p \in Orders : Granted(p)} \cup {o}
      BY <2>4, <2>6
    <3>3. Ledger!Grant(o)
      BY <2>2, <2>6, <3>1, <3>2 DEF Ledger!Grant
    <3> QED
      BY <3>3 DEF Ledger!Next
  <2> QED
    BY <1>1, <2>5, <2>6 DEF Forward
<1>4. ASSUME NEW c \in Calls, MarkApplied(c) PROVE [Ledger!Next]_(Ledger!ledger)
  <2>1. PICK o \in Orders : o = call[c].order /\ Granted(o)
    BY <1>4 DEF MarkApplied, At, IInv, CheckoutConsistent, CallOK
  <2>2. UNCHANGED <<sub, lotEnd, charged>> /\ \A p : Granted(p)' = Granted(p)
    BY <1>4 DEF MarkApplied, Granted
  <2>3. \A p \in Orders : invoice'[p].applied = IF p = o THEN TRUE ELSE invoice[p].applied
    <3>1. invoice' = [invoice EXCEPT ![o].applied = TRUE]
      BY <1>4, <2>1 DEF MarkApplied
    <3> QED
      BY <3>1 DEF IInv, TypeOK, Invoices
  <2>4. CASE invoice[o].applied
    BY <2>2, <2>3, <2>4 DEF Ledger!ledger
  <2>5. CASE ~invoice[o].applied
    <3>1. {p \in Orders : invoice'[p].applied} = {p \in Orders : invoice[p].applied} \cup {o}
      BY <2>3
    <3>2. Ledger!Settle(o)
      BY <2>1, <2>2, <2>5, <3>1 DEF Ledger!Settle
    <3> QED
      BY <3>2 DEF Ledger!Next
  <2> QED
    BY <2>4, <2>5
<1> QED
  BY <1>2, <1>3, <1>4, SilentSteps, LedgerStays

(* Every behaviour of the callbacks is a behaviour of the ledger: orders   *)
(* are paid, granted and settled once each, in that order, for good.       *)
THEOREM CheckoutIsALedger == Spec => ImplementsPaidOrders
<1>1. Init => Ledger!Init
  <2> SUFFICES ASSUME Init PROVE Ledger!Init
    OBVIOUS
  <2>1. charged = {} /\ \A o \in Orders : grantCount[o] = 0
    BY DEF Init
  <2>2. \A o \in Orders : ~Granted(o) /\ ~invoice[o].applied
    BY <2>1, InitIsConsistent DEF IInv, CheckoutConsistent, OrderOK
  <2> QED
    BY <2>1, <2>2 DEF Ledger!Init
<1>2. IInv /\ [Next]_vars => [Ledger!Next]_(Ledger!ledger)
  <2>1. UNCHANGED vars => [Ledger!Next]_(Ledger!ledger)
    BY DEF vars, Ledger!ledger, Granted
  <2> QED
    BY <2>1, LedgerStep
<1> QED
  BY <1>1, <1>2, Consistent, PTL DEF Spec, ImplementsPaidOrders, Ledger!Spec

(***************************************************************************)
(* The plan against what was paid for it.                                  *)
(***************************************************************************)
LEMMA PurchasesAreCounted ==
    ASSUME NEW P, P \subseteq Orders
    PROVE  /\ SumOver(Credits, P) \in Nat /\ SumOver(Days, P) \in Nat
           /\ \A o \in Orders \ P :
                 /\ SumOver(Credits, P \cup {o}) = SumOver(Credits, P) + QuoteOf[o].credits
                 /\ SumOver(Days, P \cup {o}) = SumOver(Days, P) + QuoteOf[o].days
<1>1. \A o \in Orders : /\ Credits[o] = QuoteOf[o].credits /\ Credits[o] \in Nat
                        /\ Days[o] = QuoteOf[o].days /\ Days[o] \in Nat
  BY FinalizationAssumption DEF Credits, Days, Quote
<1>2. IsFiniteSet(P)
  BY AccountsAssumption, FS_Subset
<1>3. SumOver(Credits, P) \in Nat /\ SumOver(Days, P) \in Nat
  BY <1>1, <1>2, SumIsNatural
<1>4. ASSUME NEW o \in Orders \ P
      PROVE  /\ SumOver(Credits, P \cup {o}) = SumOver(Credits, P) + QuoteOf[o].credits
             /\ SumOver(Days, P \cup {o}) = SumOver(Days, P) + QuoteOf[o].days
  <2>1. PICK Q : Q = P \cup {o}
    OBVIOUS
  <2>2. IsFiniteSet(Q) /\ o \in Q /\ Q \ {o} = P /\ Q \subseteq Orders
    BY <2>1, AccountsAssumption, FS_Subset
  <2>3. IntegersOn(Credits, Q) /\ IntegersOn(Days, Q)
    BY <1>1, <2>2 DEF IntegersOn
  <2>4. /\ SumOver(Credits, Q) = Credits[o] + SumOver(Credits, P)
        /\ SumOver(Days, Q) = Days[o] + SumOver(Days, P)
    BY <2>2, <2>3, SumSplit
  <2>5. /\ Credits[o] = QuoteOf[o].credits /\ Credits[o] \in Nat
        /\ Days[o] = QuoteOf[o].days /\ Days[o] \in Nat
    BY <1>1
  <2> QED
    BY <1>3, <2>1, <2>4, <2>5
<1> QED
  BY <1>3, <1>4

LEMMA PurchasesStay ==
    ASSUME NEW u, sub'[u].grants = sub[u].grants
    PROVE  PoolPurchases(u)' = PoolPurchases(u)
  BY DEF PoolPurchases, Granted

LEMMA PurchaseIsAdded ==
    ASSUME NEW u, NEW o \in Orders, OwnerOf[o] = u, ~IsDailyPassQuote(QuoteOf[o]),
           sub'[u].grants = sub[u].grants \cup {o}
    PROVE  PoolPurchases(u)' = PoolPurchases(u) \cup {o}
<1>1. \A p \in Orders :
         (OwnerOf[p] = u /\ ~IsDailyPassQuote(QuoteOf[p])) => (Granted(p)' <=> Granted(p) \/ p = o)
  BY DEF Granted
<1> QED
  BY <1>1 DEF PoolPurchases

LEMMA PlansStart == Init => PlanIsPaidFor
<1> SUFFICES ASSUME Init, NEW u \in Users
             PROVE  /\ sub[u].remaining <= Legacy[u].remaining + SumOver(Credits, PoolPurchases(u))
                    /\ sub[u].end <= Larger(now, Legacy[u].end) + SumOver(Days, PoolPurchases(u))
  BY DEF PlanIsPaidFor
<1>1. PICK P : P = PoolPurchases(u)
  OBVIOUS
<1>2. SumOver(Credits, P) \in Nat /\ SumOver(Days, P) \in Nat
  BY <1>1, PurchasesAreCounted DEF PoolPurchases
<1>3. sub[u].remaining = 0 /\ sub[u].end = 0 /\ now = 0
  BY DEF Init, NoDocument
<1>4. Legacy[u].remaining \in Nat /\ Legacy[u].end \in Nat
  BY FinalizationAssumption DEF Document
<1> QED
  BY <1>1, <1>2, <1>3, <1>4 DEF Larger

(* A grant adds its own credits, and its own days from the later of the    *)
(* moment its handler began and the end of the plan it extends.            *)
LEMMA GrantAddsItsQuote ==
    ASSUME NEW d \in Document(Orders), NEW q \in Quote, NEW key, NEW fullPrice, NEW t \in Nat,
           NEW e, e = WebGrant(d, q, key, fullPrice, t)
    PROVE  /\ e.remaining <= d.remaining + q.credits
           /\ e.end <= Larger(t, d.end) + q.days
           /\ e.grants = d.grants \cup {key}
<1>1. d.end \in Nat /\ d.remaining \in Nat /\ q.days \in Nat /\ q.credits \in Nat
  BY DEF Document, Quote
<1>2. CarriedCredits(d, t) \in Nat /\ CarriedCredits(d, t) <= d.remaining
  BY <1>1 DEF CarriedCredits, AtLeastZero, Larger
<1>3. PICK start : start = IF UpgradesToPro(d, q, fullPrice, t) THEN t ELSE Larger(t, d.end)
  OBVIOUS
<1>4. start \in Nat /\ start <= Larger(t, d.end) /\ Larger(t, d.end) \in Nat
  BY <1>1, <1>3 DEF Larger
<1>5. e.remaining = CarriedCredits(d, t) + q.credits /\ e.end = start + q.days /\ e.grants = d.grants \cup {key}
  BY <1>3 DEF WebGrant
<1> QED
  BY <1>1, <1>2, <1>4, <1>5

LEMMA PlansStayPaidFor ==
    ASSUME IInv, IInv', now <= now', PlanIsPaidFor, NEW u \in Users,
           UNCHANGED sub \/ \E c \in Calls : SeedDocument(c) \/ ApplyGrant(c)
    PROVE  /\ sub'[u].remaining <= Legacy[u].remaining + SumOver(Credits, PoolPurchases(u)')
           /\ sub'[u].end <= Larger(now', Legacy[u].end) + SumOver(Days, PoolPurchases(u)')
<1>1. PICK P : P = PoolPurchases(u)
  OBVIOUS
<1>2. PICK Q : Q = PoolPurchases(u)'
  OBVIOUS
<1>3. /\ SumOver(Credits, P) \in Nat /\ SumOver(Days, P) \in Nat /\ P \subseteq Orders
      /\ SumOver(Credits, Q) \in Nat /\ SumOver(Days, Q) \in Nat
  <2>1. P \subseteq Orders /\ Q \subseteq Orders
    BY <1>1, <1>2 DEF PoolPurchases
  <2> QED
    BY <2>1, PurchasesAreCounted
<1>4. /\ sub \in [Users -> Document(Orders)] /\ sub[u] \in Document(Orders)
      /\ sub[u].remaining \in Nat /\ sub[u].end \in Nat
      /\ now \in Nat /\ now' \in Nat
  BY DEF IInv, TypeOK, Document
<1>5. Legacy[u].remaining \in Nat /\ Legacy[u].end \in Nat /\ Legacy[u].grants = {}
  BY FinalizationAssumption DEF Document
<1>6. /\ sub[u].remaining <= Legacy[u].remaining + SumOver(Credits, P)
      /\ sub[u].end <= Larger(now, Legacy[u].end) + SumOver(Days, P)
  BY <1>1 DEF PlanIsPaidFor
<1>7. SUFFICES /\ sub'[u].remaining <= Legacy[u].remaining + SumOver(Credits, Q)
               /\ sub'[u].end <= Larger(now', Legacy[u].end) + SumOver(Days, Q)
  BY <1>2
<1>8. CASE sub'[u] = sub[u]
  <2>1. Q = P
    BY <1>1, <1>2, <1>8, PurchasesStay
  <2> QED
    BY <1>3, <1>4, <1>5, <1>6, <1>8, <2>1 DEF Larger
<1>9. ASSUME NEW c \in Calls, SeedDocument(c), sub'[u] # sub[u]
      PROVE  /\ sub'[u].remaining <= Legacy[u].remaining + SumOver(Credits, Q)
             /\ sub'[u].end <= Larger(now', Legacy[u].end) + SumOver(Days, Q)
  <2>1. sub'[u] = Seeded(sub[u], Legacy[u])
    BY <1>4, <1>9 DEF SeedDocument
  <2>2. sub'[u] = [Legacy[u] EXCEPT !.exists = TRUE]
    BY <1>9, <2>1 DEF Seeded
  <2>3. sub'[u].remaining = Legacy[u].remaining /\ sub'[u].end = Legacy[u].end
    BY <2>2, FinalizationAssumption DEF Document
  <2> QED
    BY <1>3, <1>4, <1>5, <2>3 DEF Larger
<1>10. ASSUME NEW c \in Calls, ApplyGrant(c), sub'[u] # sub[u]
       PROVE  /\ sub'[u].remaining <= Legacy[u].remaining + SumOver(Credits, Q)
              /\ sub'[u].end <= Larger(now', Legacy[u].end) + SumOver(Days, Q)
  <2>1. PICK o : o = call[c].order
    OBVIOUS
  <2>2. /\ o \in Orders /\ QuoteOf[o] \in Quote /\ call[c].began \in Nat /\ call[c].began <= now
        /\ ~IsDailyPassQuote(QuoteOf[o])
    BY <1>10, <2>1, FinalizationAssumption
    DEF ApplyGrant, At, IInv, TypeOK, CheckoutConsistent, CallOK, CallRecords
  <2>3. OwnerOf[o] = u /\ GrantIsNew(sub[u], o)
    BY <1>4, <1>10, <2>1 DEF ApplyGrant
  <2>4. sub'[u] = WebGrant(sub[u], QuoteOf[o], o, o \notin Unversioned, call[c].began)
    BY <1>4, <1>10, <2>1, <2>3 DEF ApplyGrant
  <2>5. /\ sub'[u].remaining <= sub[u].remaining + QuoteOf[o].credits
        /\ sub'[u].end <= Larger(call[c].began, sub[u].end) + QuoteOf[o].days
        /\ sub'[u].grants = sub[u].grants \cup {o}
    <3>1. PICK e : e = sub'[u]
      OBVIOUS
    <3> QED
      BY <1>4, <2>2, <2>4, <3>1, GrantAddsItsQuote
  <2>6. Q = P \cup {o}
    BY <1>1, <1>2, <2>2, <2>3, <2>5, PurchaseIsAdded
  <2>7. o \notin P
    BY <1>1, <2>2, <2>3 DEF PoolPurchases, Granted, GrantIsNew
  <2>8. /\ SumOver(Credits, Q) = SumOver(Credits, P) + QuoteOf[o].credits
        /\ SumOver(Days, Q) = SumOver(Days, P) + QuoteOf[o].days
    BY <1>3, <2>2, <2>6, <2>7, PurchasesAreCounted
  <2>9. QuoteOf[o].credits \in Nat /\ QuoteOf[o].days \in Nat
    BY <2>2 DEF Quote
  <2>10. sub'[u] \in Document(Orders)
    BY DEF IInv, TypeOK
  <2>11. sub'[u].remaining \in Nat /\ sub'[u].end \in Nat
    BY <2>10 DEF Document
  <2>12. sub'[u].remaining <= Legacy[u].remaining + SumOver(Credits, Q)
    BY <1>3, <1>4, <1>5, <1>6, <2>5, <2>8, <2>9, <2>11
  <2>13. Larger(call[c].began, sub[u].end) <= Larger(now', Legacy[u].end) + SumOver(Days, P)
    BY <1>3, <1>4, <1>5, <1>6, <2>2 DEF Larger
  <2>14. Larger(call[c].began, sub[u].end) \in Nat /\ Larger(now', Legacy[u].end) \in Nat
    BY <1>4, <1>5, <2>2 DEF Larger
  <2>15. sub'[u].end <= Larger(now', Legacy[u].end) + SumOver(Days, Q)
    BY <1>3, <2>5, <2>8, <2>9, <2>11, <2>13, <2>14
  <2> QED
    BY <2>12, <2>15
<1> QED
  BY <1>8, <1>9, <1>10

(* No history of purchases, upgrades, renewals, retries and legacy seeds   *)
(* yields credits nobody bought, or access beyond the days paid for.       *)
THEOREM PlansArePaidFor == Spec => []PlanIsPaidFor
<1>1. IInv /\ IInv' /\ PlanIsPaidFor /\ [Next]_vars => PlanIsPaidFor'
  <2> SUFFICES ASSUME IInv, IInv', PlanIsPaidFor, [Next]_vars PROVE PlanIsPaidFor'
    OBVIOUS
  <2>1. now <= now' /\ (UNCHANGED sub \/ \E c \in Calls : SeedDocument(c) \/ ApplyGrant(c))
    <3>1. CASE Next
      BY <3>1, StepIsConsistent, SubscriptionWrites DEF Forward
    <3>2. CASE UNCHANGED vars
      BY <3>2 DEF vars, IInv, TypeOK
    <3> QED
      BY <3>1, <3>2
  <2>2. \A u \in Users :
            /\ sub'[u].remaining <= Legacy[u].remaining + SumOver(Credits, PoolPurchases(u)')
            /\ sub'[u].end <= Larger(now', Legacy[u].end) + SumOver(Days, PoolPurchases(u)')
    BY <2>1, PlansStayPaidFor
  <2> QED
    BY <2>2 DEF PlanIsPaidFor
<1> QED
  BY <1>1, PlansStart, Consistent, PTL DEF Spec
=============================================================================
