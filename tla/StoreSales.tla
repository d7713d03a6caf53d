----------------------------- MODULE StoreSales -----------------------------
(***************************************************************************)
(* The stores, the devices and the rest of the system together, and what   *)
(* must hold of them.                                                      *)
(***************************************************************************)
EXTENDS StoreGrants

Progress(c) ==
    \/ \E revoked \in BOOLEAN : CheckOwner(c, revoked)
    \/ ClaimFinal(c) \/ ClaimTx(c) \/ ReadSub(c) \/ Upgrade(c) \/ Replace(c)
    \/ MarkGranted(c) \/ Acknowledge(c) \/ Release(c) \/ Revoke(c)

Request(c) ==
    \E t \in Txs :
        \/ \E u \in Users : Verify(c, u, t)
        \/ NotifyGrant(c, t)
        \/ NotifyRevoke(c, t)

Fails(c) == GrantRaises(c) \/ GrantIsNotHeardOf(c) \/ AcknowledgeRaises(c) \/ Crash(c)

Others ==
    \/ Tick
    \/ \E o \in WebOrders : WebPayment(o)
    \/ \E u \in Users : Spend(u)

Next ==
    \/ \E c \in Calls : Progress(c) \/ Request(c) \/ Fails(c)
    \/ Others

Spec == Init /\ [][Next]_vars

(***************************************************************************)
(* Properties                                                              *)
(***************************************************************************)
(* Every variable has its type.                                            *)
TypeOK ==
    /\ now \in 0 .. MaxTime
    /\ sub \in [Users -> Document(WebOrders)]
    /\ seller \in [Users -> {"none", "web", "appstore", "playstore"}]
    /\ claim \in [Txs -> Claims]
    /\ acked \subseteq PlayTxs /\ crashed \subseteq Txs
    /\ call \in [Calls -> CallRecords]
    /\ faults \in 0 .. MaxFaults
    /\ written \in [Txs -> Nat] /\ lost \in [Txs -> Nat]
    /\ due \in [Users -> Int]

(* However often the device and Apple present a transaction, its           *)
(* subscription is written once more than answers to such a write were     *)
(* lost, and no more: a handler that raised gives its claim back, whatever *)
(* it has written ("Grant (once)", _grant_from_payload, does not hold      *)
(* then).  The transaction is marked granted, and a Play purchase is       *)
(* acknowledged, only when it has been written: Google then stops the      *)
(* automatic refund.                                                       *)
StoreGrantedOnce ==
    \A t \in Txs :
        /\ written[t] <= 1 + lost[t]
        /\ claim[t].granted \/ t \in acked => written[t] >= 1

(* An open claim is held by exactly one task, which will mark it or take   *)
(* it back: only a crash leaves one behind, for which every later verify   *)
(* is answered as in flight.                                               *)
Holds(c, t) == call[c].tx = t /\ call[c].at \in {"readSub", "upgrade", "replace", "mark", "release"}
Open(t) == claim[t].by # None /\ ~claim[t].granted /\ ~claim[t].final

OpenClaimIsHeld ==
    \A t \in Txs : Open(t) /\ t \notin crashed => Cardinality({c \in Calls : Holds(c, t)}) = 1

(* No credits appear on a plan that nobody gave: the balance never exceeds *)
(* what the plans written so far have given the user, less what was spent  *)
(* or taken back.  An upgrade to Pro never restores what is spent after it *)
(* has read the plan ("preserves only its real remaining balance",         *)
(* upsert_subscription); a renewal restores no more than that, once.       *)
BalanceIsBacked == \A u \in Users : sub[u].remaining <= due[u]

=============================================================================
