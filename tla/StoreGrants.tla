----------------------------- MODULE StoreGrants -----------------------------
(***************************************************************************)
(* Purchases in the App Store and on Google Play.  The device presents a   *)
(* transaction as often as it likes, and Apple's notifications present it  *)
(* as well.  A handler claims the transaction id by inserting a record,    *)
(* writes the subscription, and marks the record granted; a handler whose  *)
(* write raises takes its claim back, also when the write was applied and  *)
(* only its answer was lost.  The subscription is replaced from an earlier *)
(* read, while web payments and chat charges write it too.                 *)
(***************************************************************************)
EXTENDS SubscriptionDocument, FiniteSets

CONSTANTS
    Users,
    Txs,            \* transaction ids (App Store), order ids (Google Play)
    PlayTxs,        \* those of Google Play
    Chain,          \* Chain[t]: originalTransactionId or purchase token of t
    QuoteOf,        \* QuoteOf[t]: the plan sold by t
    ExpiresOf,      \* ExpiresOf[t]: the end of the period Apple or Google names
    WebOrders,      \* grant keys of web payments
    WebQuote,       \* WebQuote[o]: their quotes
    WebBuyer,       \* WebBuyer[o]: their customers
    Legacy,         \* Legacy[u]: the subscription embedded in the document of u
    Calls,          \* tasks that serve requests
    None,
    MaxTime,        \* bound on the clock
    MaxFaults       \* bound on calls that raise

ASSUME StoreAssumption ==
    /\ PlayTxs \subseteq Txs /\ None \notin Txs /\ None \notin Users
    /\ QuoteOf \in [Txs -> {q \in Quote : ~IsDailyPassQuote(q)}]
    /\ ExpiresOf \in [Txs -> Nat]
    /\ WebQuote \in [WebOrders -> {q \in Quote : ~IsDailyPassQuote(q)}]
    /\ WebBuyer \in [WebOrders -> Users]
    /\ Legacy \in [Users -> {d \in Document(WebOrders) : d.grants = {}}]
    /\ MaxTime \in Nat /\ MaxFaults \in Nat

VARIABLES
    now,
    sub,        \* the users' documents in `subscriptions'
    seller,     \* their field `provider'
    claim,      \* the records of appstore_transactions and playstore_transactions
    acked,      \* Play purchases acknowledged to Google
    call,       \* the requests in progress
    faults,
    written,    \* history: written[t] counts the subscription writes for t
    lost,       \* history: lost[t] counts those whose answer was lost
    due,        \* history: due[u], the credits u was given and has not spent
    crashed     \* history: transactions one of whose handlers was cut off

documents == <<sub, seller, due>>
grants == <<written, lost>>
vars == <<now, documents, claim, acked, call, faults, grants, crashed>>

Claims == [by : Users \cup {None}, granted : BOOLEAN, final : BOOLEAN]
NoClaim == [by |-> None, granted |-> FALSE, final |-> FALSE]

Steps == {"idle", "owner", "claimFinal", "claim", "readSub", "upgrade", "replace", "mark",
          "release", "acknowledge", "revoke"}

CallRecords == [at : Steps, tx : Txs \cup {None}, user : Users \cup {None}, began : Nat,
                left : Nat, start : Nat,
                missed : Nat]   \* history: what was taken off the plan since it was read

Idle == [at |-> "idle", tx |-> None, user |-> None, began |-> 0, left |-> 0, start |-> 0,
         missed |-> 0]

Init ==
    /\ now = 0
    /\ sub = [u \in Users |-> NoDocument]
    /\ seller = [u \in Users |-> "none"]
    /\ claim = [t \in Txs |-> NoClaim]
    /\ acked = {}
    /\ call = [c \in Calls |-> Idle]
    /\ faults = 0
    /\ written = [t \in Txs |-> 0]
    /\ lost = [t \in Txs |-> 0]
    /\ due = [u \in Users |-> Legacy[u].remaining]
    /\ crashed = {}

At(c, step) == call[c].at = step
Goes(c, step) == call' = [call EXCEPT ![c].at = step]
Ends(c) == call' = [call EXCEPT ![c] = Idle]

(* The request keeps its transaction and its user.                         *)
Leaves(c, step) ==
    call' = [call EXCEPT ![c] = [Idle EXCEPT !.at = step, !.tx = call[c].tx,
                                             !.user = call[c].user]]

SellerOf(t) == IF t \in PlayTxs THEN "playstore" ELSE "appstore"

(***************************************************************************)
(* Requests.                                                               *)
(***************************************************************************)
Starts(c, u, t, step) ==
    /\ At(c, "idle")
    /\ call' = [call EXCEPT ![c] = [Idle EXCEPT !.at = step, !.tx = t, !.user = u, !.began = now]]
    /\ UNCHANGED <<now, documents, claim, acked, faults, grants, crashed>>

(* verify_transaction and verify_purchase: any user of the device.         *)
Verify(c, u, t) == Starts(c, u, t, "owner")

(* A renewal notification is attributed by a record of the same chain.     *)
NotifyGrant(c, t) ==
    /\ t \notin PlayTxs
    /\ \E other \in Txs : /\ claim[other].by # None /\ Chain[other] = Chain[t]
                          /\ Starts(c, claim[other].by, t, "owner")

NotifyRevoke(c, t) ==
    /\ t \notin PlayTxs
    /\ \E other \in Txs : /\ claim[other].by # None /\ Chain[other] = Chain[t]
                          /\ Starts(c, claim[other].by, t, "revoke")

(* The request will bring back the balance it has read.                   *)
Carries(r) == r.at = "replace" /\ r.left > 0

(* n credits are taken off the plan of u: requests that carry its earlier  *)
(* balance have missed it.                                                 *)
Missing(u, n) ==
    [d \in Calls |-> IF Carries(call[d]) /\ call[d].user = u
                     THEN [call[d] EXCEPT !.missed = @ + n] ELSE call[d]]

(* The whole of _revoke_subscription: every plan this store has sold.      *)
Revoke(c) ==
    LET r == call[c]
        taken == IF seller[r.user] = "appstore" THEN sub[r.user].remaining ELSE 0
    IN  /\ At(c, "revoke")
        /\ sub' = [sub EXCEPT ![r.user] =
                      IF seller[r.user] = "appstore"
                      THEN [@ EXCEPT !.end = r.began, !.remaining = 0] ELSE @]
        /\ due' = [due EXCEPT ![r.user] = @ - taken]
        /\ call' = [Missing(r.user, taken) EXCEPT ![c] = Idle]
        /\ UNCHANGED <<now, seller, claim, acked, faults, grants, crashed>>

(***************************************************************************)
(* _grant_from_payload and _grant_from_purchase                            *)
(***************************************************************************)
(* Refunded in the payload that was signed, or lapsed.                     *)
GrantsNothing(c, revoked) == revoked \/ ExpiresOf[call[c].tx] <= call[c].began

(* The chain must not belong to somebody else.  A payload signed before a  *)
(* refund does not carry it; Google's carries none.                        *)
CheckOwner(c, revoked) ==
    LET r == call[c]
        taken == \E t \in Txs : Chain[t] = Chain[r.tx] /\ claim[t].by \notin {None, r.user}
    IN  /\ At(c, "owner")
        /\ revoked => r.tx \notin PlayTxs
        /\ IF taken THEN Ends(c)
           ELSE Goes(c, IF GrantsNothing(c, revoked) THEN "claimFinal" ELSE "claim")
        /\ UNCHANGED <<now, documents, claim, acked, faults, grants, crashed>>

(* $setOnInsert: the first one to claim owns the record.                   *)
Claimed(t, u, final) ==
    [claim EXCEPT ![t] = IF @.by = None THEN [by |-> u, granted |-> FALSE, final |-> final] ELSE @]

ClaimFinal(c) ==
    /\ At(c, "claimFinal")
    /\ claim' = Claimed(call[c].tx, call[c].user, TRUE)
    /\ Ends(c)
    /\ UNCHANGED <<now, documents, acked, faults, grants, crashed>>

(* Mutant: whether the id is already claimed is not looked at.             *)
ClaimAgain(c) ==
    /\ At(c, "claim")
    /\ claim' = Claimed(call[c].tx, call[c].user, FALSE)
    /\ Goes(c, "readSub")
    /\ UNCHANGED <<now, documents, acked, faults, grants, crashed>>

(* A claimed transaction is answered as it stands; a Play purchase that    *)
(* was granted before is acknowledged again.                               *)
ClaimTx(c) ==
    LET t == call[c].tx
    IN  /\ At(c, "claim")
        /\ claim' = Claimed(t, call[c].user, FALSE)
        /\ IF claim[t].by = None THEN Goes(c, "readSub")
           ELSE IF t \in PlayTxs /\ claim[t].granted THEN Goes(c, "acknowledge")
           ELSE Ends(c)
        /\ UNCHANGED <<now, documents, acked, faults, grants, crashed>>

(* upsert_subscription: the read that everything but an upgrade is         *)
(* computed from, of the plan embedded in the user's document when there   *)
(* is no other.                                                            *)
ReadSub(c) ==
    LET r == call[c]
        seen == IF sub[r.user].exists THEN sub[r.user] ELSE Legacy[r.user]
        upgrades == UpgradesToPro(seen, QuoteOf[r.tx], TRUE, r.began)
    IN  /\ At(c, "readSub")
        /\ call' = [call EXCEPT
               ![c].at = IF upgrades THEN "upgrade" ELSE "replace",
               ![c].left = CarriedCredits(seen, r.began),
               ![c].start = IF upgrades THEN r.began ELSE Larger(r.began, seen.end)]
        /\ UNCHANGED <<now, documents, claim, acked, faults, grants, crashed>>

StoreDocument(d, r, start, total, remaining) ==
    [d EXCEPT !.exists = TRUE, !.tier = QuoteOf[r.tx].tier, !.period = QuoteOf[r.tx].period,
              !.start = start, !.end = ExpiresOf[r.tx], !.total = total, !.remaining = remaining]

(* Mutant: the upgrade carries the balance that was read before.           *)
UpgradedFromRead(d, r) ==
    LET balance == r.left + QuoteOf[r.tx].credits
    IN  StoreDocument(d, r, r.start, balance, balance)

(* The upgrade carries what is left when it is written.                    *)
Upgraded(d, r) ==
    LET balance == AtLeastZero(d.remaining) + QuoteOf[r.tx].credits
    IN  StoreDocument(d, r, r.start, balance, balance)

(* Everything else carries what was left when the plan was read.           *)
Replacement(d, r) ==
    StoreDocument(d, r, r.start, QuoteOf[r.tx].credits, r.left + QuoteOf[r.tx].credits)

(* The plan is written; `behind' is what the write brings back.            *)
Writes(c, document, behind) ==
    LET r == call[c]
    IN  /\ sub' = [sub EXCEPT ![r.user] = document]
        /\ seller' = [seller EXCEPT ![r.user] = SellerOf(r.tx)]
        /\ written' = [written EXCEPT ![r.tx] = @ + 1]
        /\ due' = [due EXCEPT ![r.user] = @ + QuoteOf[r.tx].credits + behind]

(* One conditional update, for a Standard plan that runs.                  *)
StandardRuns(c) ==
    LET d == sub[call[c].user]
    IN  At(c, "upgrade") /\ d.tier = "standard" /\ d.end > call[c].began

WriteUpgrade(c) ==
    /\ StandardRuns(c)
    /\ Writes(c, Upgraded(sub[call[c].user], call[c]), 0)

(* An unconditional $set.                                                  *)
WriteReplacement(c) ==
    /\ At(c, "replace")
    /\ Writes(c, Replacement(sub[call[c].user], call[c]), call[c].missed)

(* If Standard has ended or gone, Pro is written without a balance carried *)
(* over.                                                                   *)
Upgrade(c) ==
    /\ At(c, "upgrade")
    /\ IF StandardRuns(c)
       THEN WriteUpgrade(c) /\ Leaves(c, "mark")
       ELSE /\ call' = [call EXCEPT ![c].at = "replace", ![c].left = 0]
            /\ UNCHANGED <<documents, written>>
    /\ UNCHANGED <<now, claim, acked, faults, lost, crashed>>

Replace(c) ==
    /\ WriteReplacement(c)
    /\ Leaves(c, "mark")
    /\ UNCHANGED <<now, claim, acked, faults, lost, crashed>>

(* Mutant: every purchase is acknowledged to Google.                       *)
MarkAndAcknowledge(c) ==
    /\ At(c, "mark")
    /\ claim' = [claim EXCEPT ![call[c].tx].granted = TRUE]
    /\ Goes(c, "acknowledge")
    /\ UNCHANGED <<now, documents, acked, faults, grants, crashed>>

MarkGranted(c) ==
    LET t == call[c].tx
    IN  /\ At(c, "mark")
        /\ claim' = [claim EXCEPT ![t].granted = @ \/ claim[t].by # None]
        /\ IF t \in PlayTxs THEN Goes(c, "acknowledge") ELSE Ends(c)
        /\ UNCHANGED <<now, documents, acked, faults, grants, crashed>>

(* Google takes a purchase back that is not acknowledged in three days.    *)
Acknowledge(c) ==
    /\ At(c, "acknowledge")
    /\ acked' = acked \cup {call[c].tx}
    /\ Ends(c)
    /\ UNCHANGED <<now, documents, claim, faults, grants, crashed>>

(* Mutant: a failed grant leaves its claim behind.                         *)
ReleaseNothing(c) ==
    /\ At(c, "release")
    /\ Ends(c)
    /\ UNCHANGED <<now, documents, claim, acked, faults, grants, crashed>>

(* The claim is given up unless it is granted.                             *)
Release(c) ==
    LET t == call[c].tx
    IN  /\ At(c, "release")
        /\ claim' = [claim EXCEPT ![t] = IF @.granted THEN @ ELSE NoClaim]
        /\ Ends(c)
        /\ UNCHANGED <<now, documents, acked, faults, grants, crashed>>

(* A call of the subscription storage raises before it has written.        *)
GrantRaises(c) ==
    /\ call[c].at \in {"readSub", "upgrade", "replace"}
    /\ faults < MaxFaults
    /\ faults' = faults + 1
    /\ Leaves(c, "release")
    /\ UNCHANGED <<now, documents, claim, acked, grants, crashed>>

(* The write is applied and its answer does not come: the driver raises    *)
(* all the same, and the claim is given up.                                *)
GrantIsNotHeardOf(c) ==
    /\ faults < MaxFaults
    /\ faults' = faults + 1
    /\ WriteUpgrade(c) \/ WriteReplacement(c)
    /\ lost' = [lost EXCEPT ![call[c].tx] = @ + 1]
    /\ Leaves(c, "release")
    /\ UNCHANGED <<now, claim, acked, crashed>>

(* Google does not answer the acknowledgement: that is only logged.        *)
AcknowledgeRaises(c) ==
    /\ At(c, "acknowledge")
    /\ faults < MaxFaults
    /\ faults' = faults + 1
    /\ Ends(c)
    /\ UNCHANGED <<now, documents, claim, acked, grants, crashed>>

(* The process stops: nobody takes the claim back.                         *)
Crash(c) ==
    /\ ~At(c, "idle")
    /\ faults < MaxFaults
    /\ faults' = faults + 1
    /\ crashed' = crashed \cup {call[c].tx}
    /\ Ends(c)
    /\ UNCHANGED <<now, documents, claim, acked, grants>>

(***************************************************************************)
(* Everybody else.                                                         *)
(***************************************************************************)
Tick ==
    /\ now < MaxTime
    /\ now' = now + 1
    /\ UNCHANGED <<documents, claim, acked, call, faults, grants, crashed>>

(* A web payment is granted, in one write, to the plan that is there or    *)
(* was seeded from the user's document.                                    *)
WebPayment(o) ==
    LET u == WebBuyer[o]
    IN  /\ GrantIsNew(sub[u], o)
        /\ sub' = [sub EXCEPT ![u] =
                      WebGrant(Seeded(@, Legacy[u]), WebQuote[o], o, TRUE, now)]
        /\ seller' = [seller EXCEPT ![u] = "web"]
        /\ due' = [due EXCEPT ![u] = @ + WebQuote[o].credits]
        /\ UNCHANGED <<now, claim, acked, call, faults, grants, crashed>>

(* A chat charge lowers the balance of the document.                       *)
Spend(u) ==
    /\ ActiveAt(sub[u], now) /\ sub[u].remaining > 0
    /\ sub' = [sub EXCEPT ![u].remaining = @ - 1]
    /\ due' = [due EXCEPT ![u] = @ - 1]
    /\ call' = Missing(u, 1)
    /\ UNCHANGED <<now, seller, claim, acked, faults, grants, crashed>>
=============================================================================
