---------------------------- MODULE Finalization ----------------------------
(***************************************************************************)
(* BasePaymentService: invoices, the eligibility check that issues them,   *)
(* and _finalize_subscription_invoice, which every web provider's callback *)
(* ends in.  A callback is an asyncio task that other tasks interrupt at   *)
(* every await, so each database call of it is a step of its own; `call'   *)
(* holds the tasks in progress, with the values they read earlier.         *)
(*                                                                         *)
(* The provider modules (Payme, Click, Uzum) add the handlers that mark a  *)
(* transaction paid and then enter the finalization steps at               *)
(* "readInvoice"; all of them share the variables declared here.           *)
(***************************************************************************)
EXTENDS SubscriptionDocument, FiniteSets

CONSTANTS
    Users,          \* user ids
    Orders,         \* (provider, order_id) pairs: also the grant keys
    Txs,            \* provider transaction ids, of every provider
    Calls,          \* slots for callbacks in progress
    None,           \* not an order, not a transaction
    OwnerOf,        \* OwnerOf[o]: the user the order is issued for
    QuoteOf,        \* QuoteOf[o]: the quote captured in its invoice
    Unversioned,    \* orders invoiced before subscription_upgrade_policy existed
    Legacy,         \* Legacy[u]: the record embedded in the user document
    DailyPassEnabled, \* settings.DAILY_PASS_ENABLED, and no sale is running
    MaxTime,        \* bound on the clock
    MaxFaults       \* bound on tasks that die before they answer

ASSUME FinalizationAssumption ==
    /\ None \notin Orders \cup Txs
    /\ OwnerOf \in [Orders -> Users]
    /\ QuoteOf \in [Orders -> Quote]
    /\ Unversioned \subseteq Orders
    /\ Legacy \in [Users -> Document(Orders)]
    /\ \A u \in Users : Legacy[u].grants = {}
    /\ DailyPassEnabled \in BOOLEAN
    /\ MaxTime \in Nat /\ MaxFaults \in Nat

VARIABLES
    now,        \* the clock
    invoice,    \* invoice[o]: status, subscription_applied, linked transaction
    tx,         \* tx[t]: the providers' transaction documents
    sub,        \* sub[u]: the subscriptions collection
    lotEnd,     \* lotEnd[o]: end_ms of the daily-pass lot order o bought, 0 if none
    call,       \* call[c]: the callback running in slot c
    faults,     \* tasks lost so far
    answered,   \* transactions whose payment callback was answered with success
    charged,    \* history: orders some transaction of which reached its paid state
    grantCount  \* history: how often the credits of an order were written

vars == <<now, invoice, tx, sub, lotEnd, call, faults, answered, charged, grantCount>>

(***************************************************************************)
(* States.                                                                 *)
(***************************************************************************)
InvoiceStatus == {"none", "pending", "paid", "canceled"}
Invoices == [status : InvoiceStatus, applied : BOOLEAN, link : Txs \cup {None}]
NoInvoice == [status |-> "none", applied |-> FALSE, link |-> None]
PendingInvoice == [NoInvoice EXCEPT !.status = "pending"]

TxStates == {"none",
             "Pending", "Paid", "PendingCanceled", "PaidCanceled",   \* Payme
             "prepared", "paid", "canceled",                         \* Click
             "CREATED", "CONFIRMED", "REVERSED"}                     \* Uzum
ChargedStates == {"Paid", "paid", "CONFIRMED"}
Transactions == [state : TxStates, order : Orders \cup {None}, created : Nat]
NoTx == [state |-> "none", order |-> None, created |-> 0]

FinalizeSteps == {"readInvoice", "findLot", "insertLot", "seed", "grant", "markApplied"}
PaymeSteps == {"expire", "checkPerform", "findOther", "insertTx", "linkInvoice",
               "markPaid", "invoicePaid", "cancelTx", "invoiceCanceled"}
ClickSteps == {"click findTx", "click insertTx", "click link", "click readInvoice",
               "click markPaid", "click invoicePaid", "click cancelTx",
               "click invoiceCanceled"}
UzumSteps == {"uzum eligible", "uzum insertInvoice", "uzum insertTx", "uzum markPaid",
              "uzum invoicePaid", "uzum reverseTx", "uzum invoiceCanceled"}
Steps == {"idle"} \cup FinalizeSteps \cup PaymeSteps \cup ClickSteps \cup UzumSteps

(* at: the next database call; seen: the transaction state it read;        *)
(* began: the handler's now_ms.                                            *)
CallRecords == [at : Steps, order : Orders \cup {None}, tx : Txs \cup {None},
                seen : TxStates, began : Nat]
Idle == [at |-> "idle", order |-> None, tx |-> None, seen |-> "none", began |-> 0]

Init ==
    /\ now = 0
    /\ invoice = [o \in Orders |-> IF o \in Unversioned THEN PendingInvoice ELSE NoInvoice]
    /\ tx = [t \in Txs |-> NoTx]
    /\ sub = [u \in Users |-> NoDocument]
    /\ lotEnd = [o \in Orders |-> 0]
    /\ call = [c \in Calls |-> Idle]
    /\ faults = 0
    /\ answered = {}
    /\ charged = {}
    /\ grantCount = [o \in Orders |-> 0]

(***************************************************************************)
(* Control of a task.                                                      *)
(***************************************************************************)
Starts(c, step, o, t, seen) ==
    /\ call[c].at = "idle"
    /\ call' = [call EXCEPT ![c] = [at |-> step, order |-> o, tx |-> t,
                                    seen |-> seen, began |-> now]]

At(c, step) == call[c].at = step
Goes(c, step) == call' = [call EXCEPT ![c].at = step]
Ends(c) == call' = [call EXCEPT ![c] = Idle]

(***************************************************************************)
(* Issuing an invoice.  The plan a user has is the stored document, or the *)
(* record embedded in the user when there is none.                         *)
(***************************************************************************)
PlanOf(u) == IF sub[u].exists THEN sub[u] ELSE Legacy[u]

DailyRank(tier) ==
    CASE tier = "basic" -> 1 [] tier = "standard" -> 2 [] tier = "premium" -> 3 [] OTHER -> 0

ActiveLots(u) == {o \in Orders : OwnerOf[o] = u /\ lotEnd[o] > now}

(* get_daily_subscription reports the tier of the lot that ends last; here *)
(* no lot is spent, so each active one still has credits.                  *)
LatestLots(u) == {o \in ActiveLots(u) : \A p \in ActiveLots(u) : lotEnd[p] <= lotEnd[o]}

EligibleForDailyPass(u, q) ==
    /\ DailyPassEnabled
    /\ \/ ActiveLots(u) = {}
       \/ \E o \in LatestLots(u) : DailyRank(q.tier) >= DailyRank(QuoteOf[o].tier)

EligibleForPool(u, q, t) ==
    LET plan == PlanOf(u)
    IN  \/ ~ActiveAt(plan, t)
        \/ plan.tier \notin PoolTiers
        \/ plan.tier = "standard" /\ q.tier = "pro" /\ q.period = plan.period

(* t is the handler's now_ms; the lookup of daily lots takes its own.      *)
Eligible(u, q, t) ==
    IF IsDailyPassQuote(q) THEN EligibleForDailyPass(u, q) ELSE EligibleForPool(u, q, t)

IssueInvoice(o) == invoice' = [invoice EXCEPT ![o] = PendingInvoice]

(* init_payment (Payme, Click): a fresh order passes the eligibility check *)
(* and gets a pending invoice; a repeated call for a pending one returns   *)
(* the saved link and changes nothing.  Check and insert are one step: the *)
(* inserted document is new, and nothing rechecks eligibility before the   *)
(* customer pays, however much later that is.                              *)
InitPayment(o) ==
    /\ invoice[o].status = "none"
    /\ Eligible(OwnerOf[o], QuoteOf[o], now)
    /\ IssueInvoice(o)
    /\ UNCHANGED <<now, tx, sub, lotEnd, call, faults, answered, charged, grantCount>>

SetInvoiceStatus(o, status) == invoice' = [invoice EXCEPT ![o].status = status]

(* Has the order's purchase been written?                                  *)
Granted(o) ==
    IF IsDailyPassQuote(QuoteOf[o]) THEN lotEnd[o] # 0 ELSE o \in sub[OwnerOf[o]].grants

(***************************************************************************)
(* _finalize_subscription_invoice                                          *)
(***************************************************************************)
(* The caller answers the provider once finalization is over.              *)
FinalizeEnds(c) ==
    /\ Ends(c)
    /\ answered' = answered \cup {call[c].tx}

(* Mutant: the invoice is claimed first and the purchase written second.   *)
ReadInvoiceClaims(c) ==
    LET o == call[c].order
    IN  /\ At(c, "readInvoice")
        /\ IF invoice[o].status = "none" \/ invoice[o].applied
           THEN FinalizeEnds(c) /\ UNCHANGED invoice
           ELSE /\ Goes(c, IF IsDailyPassQuote(QuoteOf[o]) THEN "findLot" ELSE "seed")
                /\ invoice' = [invoice EXCEPT ![o].applied = TRUE]
                /\ UNCHANGED answered
        /\ UNCHANGED <<now, tx, sub, lotEnd, faults, charged, grantCount>>

ReadInvoice(c) ==
    LET o == call[c].order
    IN  /\ At(c, "readInvoice")
        /\ IF invoice[o].status = "none" \/ invoice[o].applied
           THEN FinalizeEnds(c)
           ELSE /\ Goes(c, IF IsDailyPassQuote(QuoteOf[o]) THEN "findLot" ELSE "seed")
                /\ UNCHANGED answered
        /\ UNCHANGED <<now, invoice, tx, sub, lotEnd, faults, charged, grantCount>>

(* A lot this order bought earlier is returned as it is.                   *)
FindLot(c) ==
    /\ At(c, "findLot")
    /\ Goes(c, IF lotEnd[call[c].order] # 0 THEN "markApplied" ELSE "insertLot")
    /\ UNCHANGED <<now, invoice, tx, sub, lotEnd, faults, answered, charged, grantCount>>

(* Mutant: a plain insert after the lookup.                                *)
InsertLotBlindly(c) ==
    LET o == call[c].order
    IN  /\ At(c, "insertLot")
        /\ Goes(c, "markApplied")
        /\ lotEnd' = [lotEnd EXCEPT ![o] = call[c].began + QuoteOf[o].days]
        /\ grantCount' = [grantCount EXCEPT ![o] = @ + 1]
        /\ UNCHANGED <<now, invoice, tx, sub, faults, answered, charged>>

(* The upsert on (provider, order_id) inserts only if no lot is there.     *)
InsertLot(c) ==
    LET o == call[c].order
    IN  /\ At(c, "insertLot")
        /\ Goes(c, "markApplied")
        /\ IF lotEnd[o] = 0
           THEN /\ lotEnd' = [lotEnd EXCEPT ![o] = call[c].began + QuoteOf[o].days]
                /\ grantCount' = [grantCount EXCEPT ![o] = @ + 1]
           ELSE UNCHANGED <<lotEnd, grantCount>>
        /\ UNCHANGED <<now, invoice, tx, sub, faults, answered, charged>>

SeedDocument(c) ==
    LET u == OwnerOf[call[c].order]
    IN  /\ At(c, "seed")
        /\ Goes(c, "grant")
        /\ sub' = [sub EXCEPT ![u] = Seeded(@, Legacy[u])]
        /\ UNCHANGED <<now, invoice, tx, lotEnd, faults, answered, charged, grantCount>>

(* Invoices issued since then carry subscription_upgrade_policy =          *)
(* full_price_v1 and opt into immediate full-price upgrades.               *)
ApplyGrant(c) ==
    LET o == call[c].order
        u == OwnerOf[o]
    IN  /\ At(c, "grant")
        /\ Goes(c, "markApplied")
        /\ IF GrantIsNew(sub[u], o)
           THEN /\ sub' = [sub EXCEPT ![u] =
                              WebGrant(@, QuoteOf[o], o, o \notin Unversioned, call[c].began)]
                /\ grantCount' = [grantCount EXCEPT ![o] = @ + 1]
           ELSE UNCHANGED <<sub, grantCount>>
        /\ UNCHANGED <<now, invoice, tx, lotEnd, faults, answered, charged>>

MarkApplied(c) ==
    /\ At(c, "markApplied")
    /\ invoice' = [invoice EXCEPT ![call[c].order].applied = TRUE]
    /\ FinalizeEnds(c)
    /\ UNCHANGED <<now, tx, sub, lotEnd, faults, charged, grantCount>>

Finalize(c) ==
    \/ ReadInvoice(c) \/ FindLot(c) \/ InsertLot(c)
    \/ SeedDocument(c) \/ ApplyGrant(c) \/ MarkApplied(c)

(***************************************************************************)
(* The environment: time, and tasks that die.  A task is lost at any await *)
(* when the process stops or a database call raises; its provider gets no  *)
(* answer, or an error, and may call again.                                *)
(***************************************************************************)
Tick ==
    /\ now < MaxTime
    /\ now' = now + 1
    /\ UNCHANGED <<invoice, tx, sub, lotEnd, call, faults, answered, charged, grantCount>>

Lost(c) ==
    /\ ~At(c, "idle")
    /\ faults < MaxFaults
    /\ faults' = faults + 1
    /\ Ends(c)
    /\ UNCHANGED <<now, invoice, tx, sub, lotEnd, answered, charged, grantCount>>

Environment == Tick \/ \E c \in Calls : Lost(c)
=============================================================================
