-------------------------- MODULE StoreSalesProofs --------------------------
(***************************************************************************)
(* Sales of the stores for any users, transactions, chains and requests,   *)
(* and any number of faults.                                               *)
(*                                                                         *)
(* Whether a transaction has been written before depends on who holds its  *)
(* claim: IInv says that a request between its claim and its mark is the   *)
(* only one there for its transaction (HoldersAreAlone), what it has       *)
(* written so far (CallOK), and that of an unclaimed transaction only      *)
(* writes whose answers were lost are there (TxOK).  What backs a balance  *)
(* also backs what the requests are about to bring back (Backed).          *)
(***************************************************************************)
EXTENDS StoreSales, FiniteSetTheorems, TLAPS

Holding == {"readSub", "upgrade", "replace", "mark", "release"}

CallOK(c) ==
    LET r == call[c]
    IN  /\ r.at # "idle" => r.tx \in Txs /\ r.user \in Users
        /\ r.at \in Holding => Open(r.tx)
        /\ r.at \in Holding \ {"mark"} => written[r.tx] <= lost[r.tx]
        /\ r.at = "mark" => written[r.tx] >= 1
        /\ r.at = "acknowledge" => r.tx \in PlayTxs /\ written[r.tx] >= 1

HoldersAreAlone ==
    \A c, d \in Calls : call[c].at \in Holding /\ call[d].at \in Holding
                            /\ call[c].tx = call[d].tx => c = d

TxOK(t) ==
    /\ written[t] <= 1 + lost[t]
    /\ claim[t].by = None => written[t] <= lost[t] /\ ~claim[t].granted
    /\ claim[t].granted \/ t \in acked => written[t] >= 1
    /\ Open(t) => t \in crashed \/ \E c \in Calls : Holds(c, t)

IInv ==
    /\ TypeOK
    /\ HoldersAreAlone
    /\ \A c \in Calls : CallOK(c)
    /\ \A t \in Txs : TxOK(t)

(***************************************************************************)
(* What the steps do to the requests.                                      *)
(***************************************************************************)
LEMMA DocumentsAreTyped ==
    /\ NoDocument \in Document(WebOrders)
    /\ Idle \in CallRecords /\ NoClaim \in Claims
<1>1. NoDocument \in Document(WebOrders)
  BY DEF NoDocument, Document
<1> QED
  BY <1>1 DEF Idle, CallRecords, Steps, NoClaim, Claims

(* A request goes to another step.                                         *)
LEMMA Stepping ==
    ASSUME IInv, NEW c \in Calls, NEW step \in Steps, Goes(c, step)
    PROVE  \E r \in CallRecords :
              /\ call' = [call EXCEPT ![c] = r]
              /\ r.at = step /\ r.tx = call[c].tx /\ r.user = call[c].user
<1> DEFINE r == [call[c] EXCEPT !.at = step]
<1>1. call' = [call EXCEPT ![c] = r]
  BY DEF Goes, IInv, TypeOK
<1>2. r \in CallRecords /\ r.at = step /\ r.tx = call[c].tx /\ r.user = call[c].user
  BY DEF IInv, TypeOK, CallRecords
<1> HIDE DEF r
<1> QED
  BY <1>1, <1>2

(* A request goes on as r: claims and writes of the transaction it holds   *)
(* are its own, and the other requests see nothing of them.                *)
LEMMA RequestMoves ==
    ASSUME IInv, TypeOK', NEW c \in Calls, NEW r \in CallRecords,
           call' = [call EXCEPT ![c] = r],
           \A t \in Txs : t # r.tx /\ t # call[c].tx =>
               /\ claim'[t] = claim[t] /\ written'[t] = written[t] /\ lost'[t] = lost[t]
               /\ t \in acked' => t \in acked,
           crashed \subseteq crashed',
           \A d \in Calls : d # c /\ call[d].at \in Holding =>
               /\ claim'[call[d].tx] = claim[call[d].tx]
               /\ written'[call[d].tx] = written[call[d].tx]
               /\ lost'[call[d].tx] = lost[call[d].tx]
               /\ r.at \in Holding => call[d].tx # r.tx,
           \A t \in Txs : written[t] >= 1 => written'[t] >= 1,
           CallOK(c)',
           \A t \in Txs : t = r.tx \/ t = call[c].tx => TxOK(t)'
    PROVE  IInv'
<1>1. \A d \in Calls : call'[d] = IF d = c THEN r ELSE call[d]
  BY DEF IInv, TypeOK
<1>2. HoldersAreAlone'
  BY <1>1 DEF IInv, HoldersAreAlone
<1>3. ASSUME NEW d \in Calls, d # c PROVE CallOK(d)'
  <2>1. CallOK(d) /\ call'[d] = call[d]
    BY <1>1, <1>3 DEF IInv
  <2>2. call[d].at = "acknowledge" => call[d].tx \in PlayTxs /\ written'[call[d].tx] >= 1
    BY <2>1, StoreAssumption DEF CallOK
  <2>3. call[d].at \in Holding =>
           /\ claim'[call[d].tx] = claim[call[d].tx]
           /\ written'[call[d].tx] = written[call[d].tx]
           /\ lost'[call[d].tx] = lost[call[d].tx]
    BY <1>3
  <2> QED
    BY <2>1, <2>2, <2>3 DEF CallOK, Open, Holding
<1>4. ASSUME NEW t \in Txs, t # r.tx, t # call[c].tx PROVE TxOK(t)'
  <2>1. TxOK(t) /\ claim'[t] = claim[t] /\ written'[t] = written[t] /\ lost'[t] = lost[t]
    BY <1>4 DEF IInv
  <2>2. \A d \in Calls : Holds(d, t) => Holds(d, t)'
    BY <1>1, <1>4 DEF Holds
  <2> QED
    BY <1>4, <2>1, <2>2 DEF TxOK, Open
<1> QED
  BY <1>2, <1>3, <1>4 DEF IInv

(* The same for a request that writes neither a claim nor a subscription,  *)
(* and does not let go of what it holds.                                   *)
LEMMA RequestGoesOn ==
    ASSUME IInv, TypeOK', NEW c \in Calls, NEW r \in CallRecords,
           call' = [call EXCEPT ![c] = r],
           UNCHANGED <<claim, written, lost, acked, crashed>>,
           r.at \in Holding <=> call[c].at \in Holding,
           call[c].at \in Holding => r.tx = call[c].tx,
           CallOK(c)'
    PROVE  IInv'
<1>1. \A d \in Calls : call'[d] = IF d = c THEN r ELSE call[d]
  BY DEF IInv, TypeOK
<1>2. ASSUME NEW t \in Txs PROVE TxOK(t)'
  <2>1. \A d \in Calls : Holds(d, t) => Holds(d, t)'
    BY <1>1 DEF Holds, Holding
  <2> QED
    BY <2>1 DEF IInv, TxOK, Open
<1>3. \A d \in Calls : d # c /\ call[d].at \in Holding /\ r.at \in Holding => call[d].tx # r.tx
  BY DEF IInv, HoldersAreAlone
<1> QED
  BY <1>2, <1>3, RequestMoves

(* A step that takes no part in the sales.                                 *)
LEMMA OthersMove ==
    ASSUME IInv, TypeOK', UNCHANGED <<call, claim, written, lost, acked, crashed>>
    PROVE  IInv'
  BY DEF IInv, HoldersAreAlone, CallOK, TxOK, Open, Holds

(* A step that ends the request c, or none, outside its claim, and changes *)
(* nothing of the others but what they have missed.                        *)
LEMMA ChargeMoves ==
    ASSUME IInv, TypeOK', UNCHANGED <<claim, written, lost, acked, crashed>>,
           \A d \in Calls :
              \/ /\ call'[d].at = call[d].at /\ call'[d].tx = call[d].tx
                 /\ call'[d].user = call[d].user
              \/ call[d].at \notin Holding /\ call'[d].at = "idle"
    PROVE  IInv'
<1>1. \A d \in Calls : call'[d].at \in Holding => call[d].at = call'[d].at /\ call'[d].tx = call[d].tx
  BY DEF Holding
<1>2. HoldersAreAlone'
  BY <1>1 DEF IInv, HoldersAreAlone
<1>3. ASSUME NEW d \in Calls PROVE CallOK(d)'
  <2>1. CallOK(d)
    BY DEF IInv
  <2>2. CASE call'[d].at = "idle"
    BY <2>2 DEF CallOK, Holding
  <2>3. CASE call'[d].at # "idle"
    BY <2>1, <2>3 DEF CallOK, Open, Holding
  <2> QED
    BY <2>2, <2>3
<1>4. ASSUME NEW t \in Txs PROVE TxOK(t)'
  <2>1. \A d \in Calls : Holds(d, t) => Holds(d, t)'
    BY DEF Holds, Holding
  <2> QED
    BY <2>1 DEF IInv, TxOK, Open
<1> QED
  BY <1>2, <1>3, <1>4 DEF IInv

(* What a request that holds a transaction may count on.                   *)
LEMMA Holder ==
    ASSUME IInv, NEW c \in Calls, call[c].at \in Holding
    PROVE  /\ call[c].tx \in Txs /\ call[c].user \in Users
           /\ Open(call[c].tx)
           /\ IF At(c, "mark") THEN written[call[c].tx] >= 1
                              ELSE written[call[c].tx] <= lost[call[c].tx]
           /\ \A d \in Calls : d # c /\ call[d].at \in Holding => call[d].tx # call[c].tx
<1>1. CallOK(c) /\ call[c].at # "idle"
  BY DEF IInv, Holding
<1>2. \A d \in Calls : d # c /\ call[d].at \in Holding => call[d].tx # call[c].tx
  BY DEF IInv, HoldersAreAlone
<1> QED
  BY <1>1, <1>2 DEF CallOK, At

(* Nobody holds a transaction that is not claimed.                         *)
LEMMA Unclaimed ==
    ASSUME IInv, NEW t \in Txs, claim[t].by = None
    PROVE  \A d \in Calls : call[d].at \in Holding => call[d].tx # t
  BY DEF IInv, CallOK, Open

(***************************************************************************)
(* Requests begin, and look at what is there.                              *)
(***************************************************************************)
LEMMA RequestsStart ==
    ASSUME IInv, NEW c \in Calls, NEW t \in Txs, NEW u \in Users,
           NEW step \in {"owner", "revoke"}, Starts(c, u, t, step)
    PROVE  IInv'
<1> DEFINE r1 == [Idle EXCEPT !.at = step]
           r2 == [r1 EXCEPT !.tx = t]
           r3 == [r2 EXCEPT !.user = u]
           r == [r3 EXCEPT !.began = now]
<1>1. call' = [call EXCEPT ![c] = r]
  BY DEF Starts
<1>2. r1 \in CallRecords /\ r1.at = step
  BY DocumentsAreTyped DEF CallRecords, Steps
<1>3. r2 \in CallRecords /\ r2.at = step /\ r2.tx = t
  <2> HIDE DEF r1
  <2> QED
    BY <1>2 DEF CallRecords
<1>4. r3 \in CallRecords /\ r3.at = step /\ r3.tx = t /\ r3.user = u
  <2> HIDE DEF r2
  <2> QED
    BY <1>3 DEF CallRecords
<1>5. now \in Nat
  BY StoreAssumption DEF IInv, TypeOK
<1>6. r \in CallRecords /\ r.at = step /\ r.tx = t /\ r.user = u
  <2> HIDE DEF r3
  <2> QED
    BY <1>4, <1>5 DEF CallRecords
<1> HIDE DEF r
<1>7. TypeOK' /\ call'[c] = r /\ UNCHANGED <<claim, written, lost, acked, crashed>>
  BY <1>1, <1>6 DEF Starts, IInv, TypeOK, documents, grants
<1>8. CallOK(c)'
  BY <1>6, <1>7 DEF CallOK, Holding
<1>9. call[c].at \notin Holding /\ r.at \notin Holding
  BY <1>6 DEF Starts, At, Holding
<1> QED
  BY <1>1, <1>6, <1>7, <1>8, <1>9, RequestGoesOn

LEMMA OwnerIsChecked ==
    ASSUME IInv, NEW c \in Calls, NEW revoked \in BOOLEAN, CheckOwner(c, revoked)
    PROVE  IInv'
<1>1. PICK r \in CallRecords :
         /\ call' = [call EXCEPT ![c] = r]
         /\ r.at \in {"idle", "claimFinal", "claim"}
         /\ r.at # "idle" => r.tx = call[c].tx /\ r.user = call[c].user
  <2>1. CASE Ends(c)
    BY <2>1, DocumentsAreTyped DEF Ends, Idle
  <2>2. CASE \E step \in {"claimFinal", "claim"} : Goes(c, step)
    BY <2>2, Stepping DEF Steps
  <2> QED
    BY <2>1, <2>2 DEF CheckOwner
<1>2. CallOK(c) /\ At(c, "owner") /\ UNCHANGED <<claim, written, lost, acked, crashed>>
  BY DEF IInv, CheckOwner, grants
<1>3. TypeOK' /\ call'[c] = r
  BY <1>1 DEF CheckOwner, IInv, TypeOK, documents, grants
<1>4. CallOK(c)'
  BY <1>1, <1>2, <1>3 DEF CallOK, Holding, At
<1>5. call[c].at \notin Holding /\ r.at \notin Holding
  BY <1>1, <1>2 DEF At, Holding
<1> QED
  BY <1>1, <1>2, <1>3, <1>4, <1>5, RequestGoesOn

LEMMA CarriedIsNat ==
    ASSUME NEW d \in Document(WebOrders), NEW t \in Nat
    PROVE  /\ CarriedCredits(d, t) \in Nat /\ CarriedCredits(d, t) <= d.remaining
           /\ Larger(t, d.end) \in Nat
<1>1. d.remaining \in Nat /\ d.end \in Nat
  BY DEF Document
<1> QED
  BY <1>1 DEF CarriedCredits, AtLeastZero, Larger

(* A request remembers what is left and when the next period starts.       *)
Remembering(r, step, n, m) == [r EXCEPT !.at = step, !.left = n, !.start = m]

LEMMA RememberingIsTyped ==
    ASSUME NEW r \in CallRecords, NEW step \in Steps, NEW n \in Nat, NEW m \in Nat
    PROVE  /\ Remembering(r, step, n, m) \in CallRecords
           /\ Remembering(r, step, n, m).at = step /\ Remembering(r, step, n, m).left = n
           /\ Remembering(r, step, n, m).tx = r.tx /\ Remembering(r, step, n, m).user = r.user
           /\ Remembering(r, step, n, m).missed = r.missed
<1> DEFINE r1 == [r EXCEPT !.at = step]
           r2 == [r1 EXCEPT !.left = n]
           r3 == [r2 EXCEPT !.start = m]
<1>1. r3 = Remembering(r, step, n, m)
  BY DEF Remembering
<1>2. /\ r1 \in CallRecords /\ r1.at = step /\ r1.tx = r.tx /\ r1.user = r.user
      /\ r1.missed = r.missed
  BY DEF CallRecords
<1>3. /\ r2 \in CallRecords /\ r2.at = step /\ r2.tx = r.tx /\ r2.user = r.user
      /\ r2.missed = r.missed /\ r2.left = n
  <2> HIDE DEF r1
  <2> QED
    BY <1>2 DEF CallRecords
<1>4. /\ r3 \in CallRecords /\ r3.at = step /\ r3.tx = r.tx /\ r3.user = r.user
      /\ r3.missed = r.missed /\ r3.left = n
  <2> HIDE DEF r2
  <2> QED
    BY <1>3 DEF CallRecords
<1> HIDE DEF r3
<1> QED
  BY <1>1, <1>4

LEMMA WhatIsRead ==
    ASSUME IInv, NEW c \in Calls, ReadSub(c)
    PROVE  \E u \in Users, t \in Txs, seen \in Document(WebOrders), r \in CallRecords :
              /\ u = call[c].user /\ t = call[c].tx /\ seen \in {sub[u], Legacy[u]}
              /\ sub[u].exists => seen = sub[u]
              /\ call' = [call EXCEPT ![c] = r]
              /\ r.at \in {"upgrade", "replace"} /\ r.tx = t /\ r.user = u
              /\ r.left <= seen.remaining /\ r.missed = call[c].missed
<1>1. PICK u \in Users, t \in Txs : u = call[c].user /\ t = call[c].tx
  BY Holder DEF ReadSub, At, Holding
<1>2. /\ sub[u] \in Document(WebOrders) /\ Legacy[u] \in Document(WebOrders)
      /\ call[c] \in CallRecords /\ call[c].began \in Nat
  BY StoreAssumption DEF IInv, TypeOK, CallRecords
<1>3. PICK seen \in Document(WebOrders) :
         /\ seen = IF sub[u].exists THEN sub[u] ELSE Legacy[u]
         /\ \E step \in {"upgrade", "replace"}, m \in Nat :
               call' = [call EXCEPT ![c].at = step,
                                    ![c].left = CarriedCredits(seen, call[c].began),
                                    ![c].start = m]
  <2> DEFINE seen == IF sub[u].exists THEN sub[u] ELSE Legacy[u]
             upgrades == UpgradesToPro(seen, QuoteOf[t], TRUE, call[c].began)
             m == IF upgrades THEN call[c].began ELSE Larger(call[c].began, seen.end)
  <2>1. seen \in Document(WebOrders)
    BY <1>2
  <2>2. call' = [call EXCEPT ![c].at = IF upgrades THEN "upgrade" ELSE "replace",
                             ![c].left = CarriedCredits(seen, call[c].began),
                             ![c].start = m]
    BY <1>1 DEF ReadSub
  <2> HIDE DEF seen, upgrades
  <2>3. m \in Nat
    BY <1>2, <2>1, CarriedIsNat
  <2> HIDE DEF m
  <2> QED
    BY <2>1, <2>2, <2>3 DEF seen
<1>4. PICK step \in {"upgrade", "replace"}, m \in Nat :
         call' = [call EXCEPT ![c].at = step,
                              ![c].left = CarriedCredits(seen, call[c].began),
                              ![c].start = m]
  BY <1>3
<1>5. PICK n \in Nat : n = CarriedCredits(seen, call[c].began) /\ n <= seen.remaining
  BY <1>2, CarriedIsNat
<1>6. PICK r \in CallRecords :
         /\ r = Remembering(call[c], step, n, m)
         /\ r.at = step /\ r.left = n /\ r.tx = t /\ r.user = u /\ r.missed = call[c].missed
  <2>1. step \in Steps
    BY DEF Steps
  <2>0. call[c] \in CallRecords
    BY <1>2
  <2>2. /\ Remembering(call[c], step, n, m) \in CallRecords
        /\ Remembering(call[c], step, n, m).at = step
        /\ Remembering(call[c], step, n, m).left = n
        /\ Remembering(call[c], step, n, m).tx = call[c].tx
        /\ Remembering(call[c], step, n, m).user = call[c].user
        /\ Remembering(call[c], step, n, m).missed = call[c].missed
    BY <2>0, <2>1, RememberingIsTyped
  <2> QED
    BY <1>1, <2>2
<1>7. call' = [call EXCEPT ![c] = r]
  <2>1. call' = [call EXCEPT ![c] = Remembering(call[c], step, n, m)]
    BY <1>4, <1>5 DEF Remembering, IInv, TypeOK
  <2> QED
    BY <1>6, <2>1
<1>8. /\ seen \in {sub[u], Legacy[u]} /\ (sub[u].exists => seen = sub[u])
      /\ r.left <= seen.remaining
  BY <1>3, <1>5, <1>6
<1> QED
  BY <1>1, <1>6, <1>7, <1>8

LEMMA SubscriptionIsRead ==
    ASSUME IInv, NEW c \in Calls, ReadSub(c)
    PROVE  IInv'
<1>1. PICK u \in Users, t \in Txs, r \in CallRecords :
         /\ u = call[c].user /\ t = call[c].tx /\ call' = [call EXCEPT ![c] = r]
         /\ r.at \in {"upgrade", "replace"} /\ r.tx = t /\ r.user = u
  BY WhatIsRead
<1>2. /\ At(c, "readSub")
      /\ UNCHANGED <<now, sub, seller, due, claim, written, lost, acked, faults, crashed>>
  BY DEF ReadSub, documents, grants
<1>3. CallOK(c)
  BY DEF IInv
<1>4. TypeOK' /\ call'[c] = r
  BY <1>1, <1>2 DEF IInv, TypeOK
<1>5. CallOK(c)'
  BY <1>1, <1>2, <1>3, <1>4 DEF CallOK, Open, Holding, At
<1>6. call[c].at \in Holding /\ r.at \in Holding
  BY <1>1, <1>2 DEF At, Holding
<1> QED
  BY <1>1, <1>2, <1>4, <1>5, <1>6, RequestGoesOn

(***************************************************************************)
(* Claims.                                                                 *)
(***************************************************************************)
LEMMA NothingIsClaimed ==
    ASSUME IInv, NEW c \in Calls, ClaimFinal(c)
    PROVE  IInv'
<1>0. PICK t : t = call[c].tx
  OBVIOUS
<1> DEFINE record == [by |-> call[c].user, granted |-> FALSE, final |-> TRUE]
<1>1. /\ At(c, "claimFinal") /\ t \in Txs /\ call[c].user \in Users /\ call[c].user # None
      /\ CallOK(c) /\ TxOK(t) /\ claim \in [Txs -> Claims]
  BY <1>0, StoreAssumption DEF ClaimFinal, IInv, CallOK, At, TypeOK
<1>2. /\ call' = [call EXCEPT ![c] = Idle]
      /\ claim' = [claim EXCEPT ![t] = IF claim[t].by = None THEN record ELSE claim[t]]
      /\ UNCHANGED <<now, sub, seller, due, acked, faults, written, lost, crashed>>
  BY <1>0, <1>1 DEF ClaimFinal, Claimed, Ends, documents, grants
<1>3. record \in Claims /\ Idle \in CallRecords /\ Idle.at = "idle" /\ Idle.tx = None
  BY <1>1, DocumentsAreTyped DEF Claims, Idle
<1>4. \A x \in Txs : claim'[x] = IF x = t /\ claim[t].by = None THEN record ELSE claim[x]
  BY <1>1, <1>2
<1>5. TypeOK' /\ \A d \in Calls : call'[d] = IF d = c THEN Idle ELSE call[d]
  BY <1>1, <1>2, <1>3 DEF IInv, TypeOK
<1>6. CallOK(c)'
  BY <1>3, <1>5 DEF CallOK, Holding
<1>7. TxOK(t)'
  <2>1. CASE claim[t].by = None
    BY <1>1, <1>2, <1>4, <2>1 DEF TxOK, Open
  <2>2. CASE claim[t].by # None
    <3>1. \A d \in Calls : Holds(d, t) => Holds(d, t)'
      BY <1>0, <1>1, <1>5 DEF Holds, At, Holding
    <3> QED
      BY <1>1, <1>2, <1>4, <2>2, <3>1 DEF TxOK, Open
  <2> QED
    BY <2>1, <2>2
<1>8. \A d \in Calls : d # c /\ call[d].at \in Holding =>
         /\ claim'[call[d].tx] = claim[call[d].tx]
         /\ written'[call[d].tx] = written[call[d].tx]
         /\ lost'[call[d].tx] = lost[call[d].tx]
         /\ Idle.at \in Holding => call[d].tx # Idle.tx
  BY <1>0, <1>1, <1>2, <1>3, <1>4, Holder, Unclaimed DEF Holding
<1>9. \A x \in Txs : x # Idle.tx /\ x # call[c].tx =>
         /\ claim'[x] = claim[x] /\ written'[x] = written[x] /\ lost'[x] = lost[x]
         /\ x \in acked' => x \in acked
  BY <1>0, <1>2, <1>4
<1>10. \A x \in Txs : x = Idle.tx \/ x = call[c].tx => TxOK(x)'
  BY <1>0, <1>3, <1>7, StoreAssumption
<1>11. crashed \subseteq crashed' /\ \A x \in Txs : written[x] >= 1 => written'[x] >= 1
  BY <1>2
<1> QED
  BY <1>2, <1>3, <1>5, <1>6, <1>8, <1>9, <1>10, <1>11, RequestMoves

LEMMA TransactionIsClaimed ==
    ASSUME IInv, NEW c \in Calls, ClaimTx(c)
    PROVE  IInv'
<1>0. PICK t : t = call[c].tx
  OBVIOUS
<1> DEFINE record == [by |-> call[c].user, granted |-> FALSE, final |-> FALSE]
<1>1. /\ At(c, "claim") /\ t \in Txs /\ call[c].user \in Users /\ call[c].user # None
      /\ CallOK(c) /\ TxOK(t) /\ claim \in [Txs -> Claims]
  BY <1>0, StoreAssumption DEF ClaimTx, IInv, CallOK, At, TypeOK
<1>2. /\ claim' = [claim EXCEPT ![t] = IF claim[t].by = None THEN record ELSE claim[t]]
      /\ UNCHANGED <<now, sub, seller, due, acked, faults, written, lost, crashed>>
  BY <1>0, <1>1 DEF ClaimTx, Claimed, documents, grants
<1>3. CASE claim[t].by # None
  <2>1. PICK r \in CallRecords :
           /\ call' = [call EXCEPT ![c] = r]
           /\ r.at \in {"idle", "acknowledge"}
           /\ r.at = "acknowledge" => /\ r.tx = t /\ r.user = call[c].user
                                      /\ t \in PlayTxs /\ claim[t].granted
    <3>1. CASE Ends(c)
      BY <3>1, DocumentsAreTyped DEF Ends, Idle
    <3>2. CASE t \in PlayTxs /\ claim[t].granted /\ Goes(c, "acknowledge")
      BY <1>0, <3>2, Stepping DEF Steps
    <3> QED
      BY <1>0, <1>3, <3>1, <3>2 DEF ClaimTx
  <2>2. claim' = claim
    BY <1>1, <1>2, <1>3
  <2>3. TypeOK' /\ call'[c] = r
    BY <1>2, <2>1, <2>2 DEF IInv, TypeOK
  <2>4. CallOK(c)'
    BY <1>0, <1>1, <1>2, <2>1, <2>3 DEF CallOK, TxOK, Holding
  <2>5. call[c].at \notin Holding /\ r.at \notin Holding
    BY <1>1, <2>1 DEF At, Holding
  <2> QED
    BY <1>2, <2>1, <2>2, <2>3, <2>4, <2>5, RequestGoesOn
<1>4. CASE claim[t].by = None
  <2>1. PICK r \in CallRecords :
           /\ call' = [call EXCEPT ![c] = r]
           /\ r.at = "readSub" /\ r.tx = t /\ r.user = call[c].user
    BY <1>0, <1>4, Stepping DEF ClaimTx, Steps
  <2>2. record \in Claims
    BY <1>1 DEF Claims
  <2>3. \A x \in Txs : claim'[x] = IF x = t THEN record ELSE claim[x]
    BY <1>1, <1>2, <1>4
  <2>4. TypeOK' /\ \A d \in Calls : call'[d] = IF d = c THEN r ELSE call[d]
    BY <1>1, <1>2, <2>1, <2>2 DEF IInv, TypeOK
  <2>5. written[t] <= lost[t]
    BY <1>1, <1>4 DEF TxOK
  <2>6. Open(t)'
    BY <1>1, <2>3 DEF Open
  <2>7. CallOK(c)'
    BY <1>1, <1>2, <2>1, <2>4, <2>5, <2>6 DEF CallOK, Open, Holding
  <2>8. TxOK(t)'
    BY <1>1, <1>2, <2>1, <2>3, <2>4, <2>5 DEF TxOK, Holds
  <2>9. \A d \in Calls : d # c /\ call[d].at \in Holding =>
           /\ claim'[call[d].tx] = claim[call[d].tx]
           /\ written'[call[d].tx] = written[call[d].tx]
           /\ lost'[call[d].tx] = lost[call[d].tx]
           /\ r.at \in Holding => call[d].tx # r.tx
    BY <1>0, <1>1, <1>2, <1>4, <2>1, <2>3, Holder, Unclaimed
  <2>10. \A x \in Txs : x # r.tx /\ x # call[c].tx =>
           /\ claim'[x] = claim[x] /\ written'[x] = written[x] /\ lost'[x] = lost[x]
           /\ x \in acked' => x \in acked
    BY <1>0, <1>2, <2>3
  <2>11. \A x \in Txs : x = r.tx \/ x = call[c].tx => TxOK(x)'
    BY <1>0, <2>1, <2>8
  <2>12. crashed \subseteq crashed' /\ \A x \in Txs : written[x] >= 1 => written'[x] >= 1
    BY <1>2
  <2> QED
    BY <2>1, <2>4, <2>7, <2>9, <2>10, <2>11, <2>12, RequestMoves
<1> QED
  BY <1>3, <1>4

(***************************************************************************)
(* The subscription is written.                                            *)
(***************************************************************************)
LEMMA QuotesAreTyped ==
    ASSUME NEW t \in Txs
    PROVE  /\ QuoteOf[t].tier \in PoolTiers /\ QuoteOf[t].period \in PoolPeriods
           /\ QuoteOf[t].credits \in Nat /\ ExpiresOf[t] \in Nat
<1>1. QuoteOf[t] \in Quote /\ ~IsDailyPassQuote(QuoteOf[t]) /\ ExpiresOf[t] \in Nat
  BY StoreAssumption
<1> QED
  BY <1>1 DEF Quote, IsDailyPassQuote, PoolTiers, PoolPeriods

LEMMA StoreDocumentIsTyped ==
    ASSUME NEW d \in Document(WebOrders), NEW r, r.tx \in Txs,
           NEW start, NEW total, NEW remaining, {start, total, remaining} \subseteq Nat
    PROVE  /\ StoreDocument(d, r, start, total, remaining) \in Document(WebOrders)
           /\ StoreDocument(d, r, start, total, remaining).remaining = remaining
           /\ StoreDocument(d, r, start, total, remaining).exists
<1> DEFINE d1 == [d EXCEPT !.exists = TRUE]
           d2 == [d1 EXCEPT !.tier = QuoteOf[r.tx].tier]
           d3 == [d2 EXCEPT !.period = QuoteOf[r.tx].period]
           d4 == [d3 EXCEPT !.start = start]
           d5 == [d4 EXCEPT !.end = ExpiresOf[r.tx]]
           d6 == [d5 EXCEPT !.total = total]
           d7 == [d6 EXCEPT !.remaining = remaining]
<1>1. StoreDocument(d, r, start, total, remaining) = d7
  BY DEF StoreDocument
<1>2. d1 \in Document(WebOrders) /\ d1.exists
  BY DEF Document
<1>3. d2 \in Document(WebOrders) /\ d2.exists
  <2> HIDE DEF d1
  <2> QED
    BY <1>2, QuotesAreTyped DEF Document
<1>4. d3 \in Document(WebOrders) /\ d3.exists
  <2> HIDE DEF d2
  <2> QED
    BY <1>3, QuotesAreTyped DEF Document
<1>5. d4 \in Document(WebOrders) /\ d4.exists
  <2> HIDE DEF d3
  <2> QED
    BY <1>4 DEF Document
<1>6. d5 \in Document(WebOrders) /\ d5.exists
  <2> HIDE DEF d4
  <2> QED
    BY <1>5, QuotesAreTyped DEF Document
<1>7. d6 \in Document(WebOrders) /\ d6.exists
  <2> HIDE DEF d5
  <2> QED
    BY <1>6 DEF Document
<1>8. d7 \in Document(WebOrders) /\ d7.remaining = remaining /\ d7.exists
  <2> HIDE DEF d6
  <2> QED
    BY <1>7 DEF Document
<1> HIDE DEF d7
<1> QED
  BY <1>1, <1>8

(* A request that keeps nothing but its transaction and its user.          *)
Reduced(step, t, u) == [Idle EXCEPT !.at = step, !.tx = t, !.user = u]

LEMMA ReducedIsTyped ==
    ASSUME NEW t \in Txs, NEW u \in Users, NEW step \in Steps
    PROVE  /\ Reduced(step, t, u) \in CallRecords
           /\ Reduced(step, t, u).at = step
           /\ Reduced(step, t, u).tx = t /\ Reduced(step, t, u).user = u
<1> DEFINE r1 == [Idle EXCEPT !.at = step]
           r2 == [r1 EXCEPT !.tx = t]
           r == [r2 EXCEPT !.user = u]
<1>1. r = Reduced(step, t, u)
  BY DEF Reduced
<1>2. r1 \in CallRecords /\ r1.at = step
  BY DocumentsAreTyped DEF CallRecords
<1>3. r2 \in CallRecords /\ r2.at = step /\ r2.tx = t
  <2> HIDE DEF r1
  <2> QED
    BY <1>2 DEF CallRecords
<1>4. r \in CallRecords /\ r.at = step /\ r.tx = t /\ r.user = u
  <2> HIDE DEF r2
  <2> QED
    BY <1>3 DEF CallRecords
<1> HIDE DEF r
<1> QED
  BY <1>1, <1>4

(* The plan is written, and the request hears of it (it goes on to its     *)
(* mark) or not (it gives the claim up).                                   *)
LEMMA SubscriptionIsWritten ==
    ASSUME IInv, NEW c \in Calls, call[c].at \in {"upgrade", "replace"},
           NEW document \in Document(WebOrders), NEW behind \in Nat,
           Writes(c, document, behind),
           NEW step \in {"mark", "release"}, Leaves(c, step),
           step = "mark" => lost' = lost,
           step = "release" => lost' = [lost EXCEPT ![call[c].tx] = @ + 1],
           faults' \in 0 .. MaxFaults, UNCHANGED <<now, claim, acked, crashed>>
    PROVE  IInv'
<1>0. PICK t \in Txs, u \in Users : t = call[c].tx /\ u = call[c].user
  BY Holder DEF Holding
<1>1. PICK r \in CallRecords :
         r = Reduced(step, t, u) /\ r.at = step /\ r.tx = t /\ r.user = u
  BY ReducedIsTyped DEF Steps
<1>2. /\ call' = [call EXCEPT ![c] = r]
      /\ sub' = [sub EXCEPT ![u] = document]
      /\ seller' = [seller EXCEPT ![u] = SellerOf(t)]
      /\ written' = [written EXCEPT ![t] = written[t] + 1]
      /\ due' = [due EXCEPT ![u] = due[u] + QuoteOf[t].credits + behind]
      /\ lost' = IF step = "mark" THEN lost ELSE [lost EXCEPT ![t] = lost[t] + 1]
  BY <1>0, <1>1 DEF Writes, Leaves, Reduced
<1>3. /\ Open(t) /\ written[t] <= lost[t] /\ TxOK(t)
      /\ \A d \in Calls : d # c /\ call[d].at \in Holding => call[d].tx # t
  BY <1>0, Holder DEF Holding, At, IInv
<1>4. /\ SellerOf(t) \in {"appstore", "playstore"} /\ written[t] \in Nat /\ lost[t] \in Nat
      /\ due[u] \in Int /\ QuoteOf[t].credits \in Nat
  BY QuotesAreTyped DEF SellerOf, IInv, TypeOK
<1>5. \A x \in Txs : /\ written'[x] = IF x = t THEN written[t] + 1 ELSE written[x]
                     /\ lost'[x] = IF x = t /\ step = "release" THEN lost[t] + 1 ELSE lost[x]
  BY <1>2 DEF IInv, TypeOK
<1>6. /\ sub' \in [Users -> Document(WebOrders)]
      /\ seller' \in [Users -> {"none", "web", "appstore", "playstore"}]
      /\ written' \in [Txs -> Nat] /\ lost' \in [Txs -> Nat]
  BY <1>2, <1>4 DEF IInv, TypeOK
<1>7. due' \in [Users -> Int]
  <2>1. due[u] + QuoteOf[t].credits + behind \in Int
    BY <1>4
  <2> QED
    BY <1>2, <2>1 DEF IInv, TypeOK
<1>8. TypeOK' /\ \A d \in Calls : call'[d] = IF d = c THEN r ELSE call[d]
  BY <1>2, <1>6, <1>7 DEF IInv, TypeOK
<1>9. CallOK(c)' /\ TxOK(t)'
  <2>1. Open(t)' /\ call'[c] = r
    BY <1>3, <1>8 DEF Open
  <2>2. Holds(c, t)'
    BY <1>1, <2>1 DEF Holds
  <2>3. /\ written'[t] >= 1 /\ written'[t] <= 1 + lost'[t]
        /\ step = "release" => written'[t] <= lost'[t]
    BY <1>3, <1>4, <1>5
  <2> QED
    BY <1>1, <2>1, <2>2, <2>3 DEF CallOK, TxOK, Open, Holding
<1>10. \A d \in Calls : d # c /\ call[d].at \in Holding =>
         /\ claim'[call[d].tx] = claim[call[d].tx]
         /\ written'[call[d].tx] = written[call[d].tx]
         /\ lost'[call[d].tx] = lost[call[d].tx]
         /\ r.at \in Holding => call[d].tx # r.tx
  BY <1>1, <1>3, <1>5, Holder
<1>11. \A x \in Txs : x # r.tx /\ x # call[c].tx =>
         /\ claim'[x] = claim[x] /\ written'[x] = written[x] /\ lost'[x] = lost[x]
         /\ x \in acked' => x \in acked
  BY <1>1, <1>5
<1>12. \A x \in Txs : x = r.tx \/ x = call[c].tx => TxOK(x)'
  BY <1>0, <1>1, <1>9
<1>13. crashed \subseteq crashed' /\ \A x \in Txs : written[x] >= 1 => written'[x] >= 1
  BY <1>4, <1>5
<1> QED
  BY <1>2, <1>8, <1>9, <1>10, <1>11, <1>12, <1>13, RequestMoves

(* Whichever write it is, the document is typed and nothing comes from     *)
(* nowhere.                                                                *)
LEMMA WhatIsWritten ==
    ASSUME IInv, NEW c \in Calls, WriteUpgrade(c) \/ WriteReplacement(c)
    PROVE  \E u \in Users, t \in Txs, document \in Document(WebOrders), behind \in Nat :
              /\ u = call[c].user /\ t = call[c].tx /\ Writes(c, document, behind)
              /\ document.exists
              /\ At(c, "upgrade") => document.remaining = sub[u].remaining + QuoteOf[t].credits
              /\ At(c, "replace") =>
                    /\ document.remaining = call[c].left + QuoteOf[t].credits
                    /\ behind = call[c].missed
<1>1. PICK u \in Users, t \in Txs : u = call[c].user /\ t = call[c].tx
  BY Holder DEF WriteUpgrade, StandardRuns, WriteReplacement, At, Holding
<1>2. /\ sub[u] \in Document(WebOrders) /\ call[c] \in CallRecords
      /\ call[c].left \in Nat /\ call[c].start \in Nat /\ call[c].missed \in Nat
  BY DEF IInv, TypeOK, CallRecords
<1>3. sub[u].remaining \in Nat
  BY <1>2 DEF Document
<1>4. QuoteOf[call[c].tx].credits \in Nat /\ call[c].tx \in Txs
  BY <1>1, QuotesAreTyped
<1>5. CASE WriteUpgrade(c)
  <2>1. AtLeastZero(sub[u].remaining) = sub[u].remaining
    BY <1>3 DEF AtLeastZero, Larger
  <2> DEFINE balance == sub[u].remaining + QuoteOf[call[c].tx].credits
  <2>2. balance \in Nat
    BY <1>3, <1>4
  <2>3. Upgraded(sub[u], call[c])
            = StoreDocument(sub[u], call[c], call[c].start, balance, balance)
    BY <2>1 DEF Upgraded
  <2> HIDE DEF balance
  <2>4. Upgraded(sub[u], call[c]) \in Document(WebOrders)
        /\ Upgraded(sub[u], call[c]).remaining = balance /\ Upgraded(sub[u], call[c]).exists
    BY <1>2, <1>4, <2>2, <2>3, StoreDocumentIsTyped
  <2>5. Writes(c, Upgraded(sub[u], call[c]), 0) /\ call[c].at = "upgrade"
    BY <1>1, <1>5 DEF WriteUpgrade, StandardRuns, At
  <2> QED
    BY <1>1, <2>4, <2>5 DEF balance, At
<1>6. CASE WriteReplacement(c)
  <2> DEFINE balance == call[c].left + QuoteOf[call[c].tx].credits
  <2>1. balance \in Nat
    BY <1>2, <1>4
  <2>2. Replacement(sub[u], call[c])
            = StoreDocument(sub[u], call[c], call[c].start, QuoteOf[call[c].tx].credits, balance)
    BY DEF Replacement
  <2> HIDE DEF balance
  <2>3. Replacement(sub[u], call[c]) \in Document(WebOrders)
        /\ Replacement(sub[u], call[c]).remaining = balance /\ Replacement(sub[u], call[c]).exists
    BY <1>2, <1>4, <2>1, <2>2, StoreDocumentIsTyped
  <2>4. Writes(c, Replacement(sub[u], call[c]), call[c].missed) /\ call[c].at = "replace"
    BY <1>1, <1>6 DEF WriteReplacement, At
  <2> QED
    BY <1>1, <1>2, <2>3, <2>4 DEF balance, At
<1> QED
  BY <1>5, <1>6

LEMMA UpgradeDecides ==
    ASSUME IInv, NEW c \in Calls, Upgrade(c) \/ Replace(c)
    PROVE  IInv'
<1>1. PICK u \in Users, t \in Txs : u = call[c].user /\ t = call[c].tx
  BY Holder DEF Upgrade, Replace, WriteReplacement, At, Holding
<1>2. call[c] \in CallRecords /\ CallOK(c) /\ faults \in 0 .. MaxFaults
  BY DEF IInv, TypeOK
<1>3. CASE Upgrade(c) /\ ~StandardRuns(c)
  <2> DEFINE r1 == [call[c] EXCEPT !.at = "replace"]
             r == [r1 EXCEPT !.left = 0]
  <2>1. call' = [call EXCEPT ![c] = r]
    BY <1>3 DEF Upgrade, IInv, TypeOK
  <2>2. r1 \in CallRecords /\ r1.at = "replace" /\ r1.tx = t /\ r1.user = u
    BY <1>1, <1>2 DEF CallRecords, Steps
  <2>3. r \in CallRecords /\ r.at = "replace" /\ r.tx = t /\ r.user = u
    <3> HIDE DEF r1
    <3> QED
      BY <2>2 DEF CallRecords
  <2> HIDE DEF r
  <2>4. UNCHANGED <<now, sub, seller, due, claim, acked, faults, written, lost, crashed>>
    BY <1>3 DEF Upgrade, documents
  <2>5. TypeOK' /\ call'[c] = r
    BY <2>1, <2>3, <2>4 DEF IInv, TypeOK
  <2>6. call[c].at = "upgrade"
    BY <1>3 DEF Upgrade, At
  <2>7. CallOK(c)'
    BY <1>1, <1>2, <2>3, <2>4, <2>5, <2>6 DEF CallOK, Holding, Open
  <2> QED
    BY <1>1, <2>1, <2>3, <2>4, <2>5, <2>6, <2>7, RequestGoesOn DEF Holding
<1>4. CASE (Upgrade(c) /\ StandardRuns(c)) \/ Replace(c)
  <2>1. /\ WriteUpgrade(c) \/ WriteReplacement(c)
        /\ Leaves(c, "mark") /\ call[c].at \in {"upgrade", "replace"}
        /\ UNCHANGED <<now, claim, acked, faults, lost, crashed>>
    BY <1>4 DEF Upgrade, Replace, WriteReplacement, At
  <2> QED
    BY <1>2, <2>1, WhatIsWritten, SubscriptionIsWritten
<1> QED
  BY <1>3, <1>4

(***************************************************************************)
(* The claim is marked, or given up.                                       *)
(***************************************************************************)
(* A request stops holding its transaction, whose claim becomes record.    *)
LEMMA HolderLetsGo ==
    ASSUME IInv, NEW c \in Calls, call[c].at \in {"mark", "release"},
           NEW r \in CallRecords, NEW record \in Claims,
           call' = [call EXCEPT ![c] = r],
           r.at = "idle" \/ (r.at = "acknowledge" /\ call[c].at = "mark"
                             /\ call[c].tx \in PlayTxs /\ r.tx = call[c].tx
                             /\ r.user = call[c].user),
           r.at = "idle" => r.tx = None,
           claim' = [claim EXCEPT ![call[c].tx] = record],
           UNCHANGED <<now, sub, seller, due, acked, faults, written, lost, crashed>>,
           IF call[c].at = "mark" THEN record.by # None /\ record.granted
           ELSE record = NoClaim
    PROVE  IInv'
<1>0. PICK t \in Txs : t = call[c].tx /\ call[c].user \in Users
  BY Holder DEF Holding
<1>1. /\ Open(t) /\ TxOK(t)
      /\ IF call[c].at = "mark" THEN written[t] >= 1 ELSE written[t] <= lost[t]
      /\ \A d \in Calls : d # c /\ call[d].at \in Holding => call[d].tx # t
  BY <1>0, Holder DEF Holding, At, IInv
<1>2. \A x \in Txs : claim'[x] = IF x = t THEN record ELSE claim[x]
  BY <1>0 DEF IInv, TypeOK
<1>3. TypeOK' /\ \A d \in Calls : call'[d] = IF d = c THEN r ELSE call[d]
  BY DEF IInv, TypeOK
<1>4. CallOK(c)'
  BY <1>0, <1>1, <1>3 DEF CallOK, Holding
<1>5. TxOK(t)'
  BY <1>0, <1>1, <1>2 DEF TxOK, Open, NoClaim
<1>6. \A d \in Calls : d # c /\ call[d].at \in Holding =>
         /\ claim'[call[d].tx] = claim[call[d].tx]
         /\ written'[call[d].tx] = written[call[d].tx]
         /\ lost'[call[d].tx] = lost[call[d].tx]
         /\ r.at \in Holding => call[d].tx # r.tx
  BY <1>1, <1>2, Holder DEF Holding
<1>7. \A x \in Txs : x # r.tx /\ x # call[c].tx =>
         /\ claim'[x] = claim[x] /\ written'[x] = written[x] /\ lost'[x] = lost[x]
         /\ x \in acked' => x \in acked
  BY <1>0, <1>2
<1>8. \A x \in Txs : x = r.tx \/ x = call[c].tx => TxOK(x)'
  BY <1>0, <1>5, StoreAssumption
<1>9. crashed \subseteq crashed' /\ \A x \in Txs : written[x] >= 1 => written'[x] >= 1
  OBVIOUS
<1> QED
  BY <1>3, <1>4, <1>6, <1>7, <1>8, <1>9, RequestMoves

LEMMA ClaimIsMarked ==
    ASSUME IInv, NEW c \in Calls, MarkGranted(c)
    PROVE  IInv'
<1>0. PICK t \in Txs : t = call[c].tx /\ Open(t) /\ claim[t] \in Claims
  BY Holder DEF MarkGranted, At, Holding, IInv, TypeOK
<1> DEFINE record == [claim[t] EXCEPT !.granted = TRUE]
<1>1. record \in Claims /\ record.by # None /\ record.granted
  BY <1>0 DEF Claims, Open
<1>2. claim' = [claim EXCEPT ![t] = record]
  BY <1>0 DEF MarkGranted, Open, IInv, TypeOK
<1>3. PICK r \in CallRecords :
         /\ call' = [call EXCEPT ![c] = r]
         /\ r.at = "idle" \/ (r.at = "acknowledge" /\ t \in PlayTxs /\ r.tx = t
                              /\ r.user = call[c].user)
         /\ r.at = "idle" => r.tx = None
  <2>1. CASE t \in PlayTxs
    BY <1>0, <2>1, Stepping DEF MarkGranted, Steps
  <2>2. CASE t \notin PlayTxs
    BY <1>0, <2>2, DocumentsAreTyped DEF MarkGranted, Ends, Idle
  <2> QED
    BY <2>1, <2>2
<1>4. /\ call[c].at = "mark"
      /\ UNCHANGED <<now, sub, seller, due, acked, faults, written, lost, crashed>>
  BY DEF MarkGranted, At, documents, grants
<1> HIDE DEF record
<1> QED
  BY <1>0, <1>1, <1>2, <1>3, <1>4, HolderLetsGo

LEMMA ClaimIsReleased ==
    ASSUME IInv, NEW c \in Calls, Release(c)
    PROVE  IInv'
<1>0. PICK t \in Txs : t = call[c].tx /\ Open(t)
  BY Holder DEF Release, At, Holding
<1>1. /\ call[c].at = "release" /\ claim' = [claim EXCEPT ![call[c].tx] = NoClaim]
      /\ call' = [call EXCEPT ![c] = Idle]
      /\ UNCHANGED <<now, sub, seller, due, acked, faults, written, lost, crashed>>
  BY <1>0 DEF Release, Ends, At, Open, documents, grants
<1>2. Idle \in CallRecords /\ NoClaim \in Claims /\ Idle.at = "idle" /\ Idle.tx = None
  BY DocumentsAreTyped DEF Idle
<1> QED
  BY <1>1, <1>2, HolderLetsGo

(***************************************************************************)
(* A Play purchase is acknowledged.                                        *)
(***************************************************************************)
LEMMA PurchaseIsAcknowledged ==
    ASSUME IInv, NEW c \in Calls, Acknowledge(c)
    PROVE  IInv'
<1>0. PICK t \in PlayTxs : t = call[c].tx /\ t \in Txs /\ written[t] >= 1 /\ TxOK(t)
  BY StoreAssumption DEF IInv, CallOK, Acknowledge, At
<1>1. /\ call[c].at = "acknowledge" /\ acked' = acked \cup {t}
      /\ call' = [call EXCEPT ![c] = Idle]
      /\ UNCHANGED <<now, sub, seller, due, claim, faults, written, lost, crashed>>
  BY <1>0 DEF Acknowledge, At, Ends, documents, grants
<1>2. Idle \in CallRecords /\ Idle.at = "idle" /\ Idle.tx = None
  BY DocumentsAreTyped DEF Idle
<1>3. TypeOK' /\ \A d \in Calls : call'[d] = IF d = c THEN Idle ELSE call[d]
  BY <1>0, <1>1, <1>2 DEF IInv, TypeOK
<1>4. CallOK(c)'
  BY <1>2, <1>3 DEF CallOK, Holding
<1>5. TxOK(t)'
  <2>1. \A d \in Calls : Holds(d, t) => Holds(d, t)'
    BY <1>1, <1>3 DEF Holds
  <2> QED
    BY <1>0, <1>1, <2>1 DEF TxOK, Open
<1>6. \A d \in Calls : d # c /\ call[d].at \in Holding =>
         /\ claim'[call[d].tx] = claim[call[d].tx]
         /\ written'[call[d].tx] = written[call[d].tx]
         /\ lost'[call[d].tx] = lost[call[d].tx]
         /\ Idle.at \in Holding => call[d].tx # Idle.tx
  BY <1>1, <1>2 DEF Holding
<1>7. \A x \in Txs : x # Idle.tx /\ x # call[c].tx =>
         /\ claim'[x] = claim[x] /\ written'[x] = written[x] /\ lost'[x] = lost[x]
         /\ x \in acked' => x \in acked
  BY <1>0, <1>1
<1>8. \A x \in Txs : x = Idle.tx \/ x = call[c].tx => TxOK(x)'
  BY <1>0, <1>2, <1>5, StoreAssumption
<1>9. crashed \subseteq crashed' /\ \A x \in Txs : written[x] >= 1 => written'[x] >= 1
  BY <1>1
<1> QED
  BY <1>1, <1>2, <1>3, <1>4, <1>6, <1>7, <1>8, <1>9, RequestMoves

(***************************************************************************)
(* Faults.                                                                 *)
(***************************************************************************)
LEMMA GrantFails ==
    ASSUME IInv, NEW c \in Calls, GrantRaises(c)
    PROVE  IInv'
<1>0. PICK t \in Txs, u \in Users : t = call[c].tx /\ u = call[c].user
  BY Holder DEF GrantRaises, Holding
<1>1. PICK r \in CallRecords :
         r = Reduced("release", t, u) /\ r.at = "release" /\ r.tx = t /\ r.user = u
  BY ReducedIsTyped DEF Steps
<1>2. /\ call[c].at \in {"readSub", "upgrade", "replace"}
      /\ call' = [call EXCEPT ![c] = r] /\ faults < MaxFaults /\ faults' = faults + 1
      /\ UNCHANGED <<now, sub, seller, due, claim, acked, written, lost, crashed>>
  BY <1>0, <1>1 DEF GrantRaises, Leaves, Reduced, documents, grants
<1>3. faults' \in 0 .. MaxFaults
  BY <1>2, StoreAssumption DEF IInv, TypeOK
<1>4. TypeOK' /\ call'[c] = r
  BY <1>2, <1>3 DEF IInv, TypeOK
<1>5. CallOK(c)
  BY DEF IInv
<1>6. CallOK(c)'
  BY <1>0, <1>1, <1>2, <1>4, <1>5 DEF CallOK, Holding, Open
<1>7. call[c].at \in Holding /\ r.at \in Holding
  BY <1>1, <1>2 DEF Holding
<1> QED
  BY <1>0, <1>1, <1>2, <1>4, <1>6, <1>7, RequestGoesOn

LEMMA GrantGoesUnheard ==
    ASSUME IInv, NEW c \in Calls, GrantIsNotHeardOf(c)
    PROVE  IInv'
<1>1. /\ WriteUpgrade(c) \/ WriteReplacement(c)
      /\ Leaves(c, "release") /\ call[c].at \in {"upgrade", "replace"}
      /\ lost' = [lost EXCEPT ![call[c].tx] = @ + 1]
      /\ UNCHANGED <<now, claim, acked, crashed>>
  BY DEF GrantIsNotHeardOf, WriteUpgrade, StandardRuns, WriteReplacement, At
<1>2. faults' \in 0 .. MaxFaults
  BY StoreAssumption DEF GrantIsNotHeardOf, IInv, TypeOK
<1> QED
  BY <1>1, <1>2, WhatIsWritten, SubscriptionIsWritten

LEMMA RequestDies ==
    ASSUME IInv, NEW c \in Calls, AcknowledgeRaises(c) \/ Crash(c)
    PROVE  IInv'
<1>0. PICK t \in Txs : t = call[c].tx /\ TxOK(t)
  BY DEF IInv, CallOK, AcknowledgeRaises, Crash, At
<1>1. /\ call' = [call EXCEPT ![c] = Idle] /\ faults < MaxFaults /\ faults' = faults + 1
      /\ UNCHANGED <<now, sub, seller, due, claim, acked, written, lost>>
      /\ crashed' \in {crashed, crashed \cup {t}}
      /\ crashed' = crashed => call[c].at = "acknowledge" \/ t \in crashed
  BY <1>0 DEF AcknowledgeRaises, Crash, Ends, At, documents, grants
<1>2. Idle \in CallRecords /\ Idle.at = "idle" /\ Idle.tx = None
  BY DocumentsAreTyped DEF Idle
<1>3. faults' \in 0 .. MaxFaults /\ crashed' \subseteq Txs
  BY <1>1, StoreAssumption DEF IInv, TypeOK
<1>4. TypeOK' /\ \A d \in Calls : call'[d] = IF d = c THEN Idle ELSE call[d]
  BY <1>1, <1>2, <1>3 DEF IInv, TypeOK
<1>5. CallOK(c)'
  BY <1>2, <1>4 DEF CallOK, Holding
<1>6. TxOK(t)'
  <2>1. CASE t \in crashed'
    BY <1>0, <1>1, <2>1 DEF TxOK, Open
  <2>2. CASE t \notin crashed'
    <3>1. call[c].at = "acknowledge" /\ crashed' = crashed
      BY <1>1, <2>2
    <3>2. \A d \in Calls : Holds(d, t) => Holds(d, t)'
      BY <1>4, <3>1 DEF Holds
    <3> QED
      BY <1>0, <1>1, <3>1, <3>2 DEF TxOK, Open
  <2> QED
    BY <2>1, <2>2
<1>7. \A d \in Calls : d # c /\ call[d].at \in Holding =>
         /\ claim'[call[d].tx] = claim[call[d].tx]
         /\ written'[call[d].tx] = written[call[d].tx]
         /\ lost'[call[d].tx] = lost[call[d].tx]
         /\ Idle.at \in Holding => call[d].tx # Idle.tx
  BY <1>1, <1>2 DEF Holding
<1>8. \A x \in Txs : x # Idle.tx /\ x # call[c].tx =>
         /\ claim'[x] = claim[x] /\ written'[x] = written[x] /\ lost'[x] = lost[x]
         /\ x \in acked' => x \in acked
  BY <1>1
<1>9. \A x \in Txs : x = Idle.tx \/ x = call[c].tx => TxOK(x)'
  BY <1>0, <1>2, <1>6, StoreAssumption
<1>10. crashed \subseteq crashed' /\ \A x \in Txs : written[x] >= 1 => written'[x] >= 1
  BY <1>1
<1> QED
  BY <1>1, <1>2, <1>4, <1>5, <1>7, <1>8, <1>9, <1>10, RequestMoves

(***************************************************************************)
(* Everybody else.                                                         *)
(***************************************************************************)
(* The plan of u is charged: nothing else of a request changes.            *)
Charged(d, u, n) == IF Carries(call[d]) /\ call[d].user = u THEN call[d].missed + n
                    ELSE call[d].missed

LEMMA MissingIsTyped ==
    ASSUME IInv, NEW u, NEW n \in Nat
    PROVE  /\ Missing(u, n) \in [Calls -> CallRecords]
           /\ \A d \in Calls :
                 /\ Missing(u, n)[d].at = call[d].at /\ Missing(u, n)[d].tx = call[d].tx
                 /\ Missing(u, n)[d].user = call[d].user /\ Missing(u, n)[d].left = call[d].left
                 /\ Missing(u, n)[d].missed = Charged(d, u, n)
<1>1. ASSUME NEW e \in Calls
      PROVE  /\ Missing(u, n)[e] \in CallRecords
             /\ Missing(u, n)[e].at = call[e].at /\ Missing(u, n)[e].tx = call[e].tx
             /\ Missing(u, n)[e].user = call[e].user /\ Missing(u, n)[e].left = call[e].left
             /\ Missing(u, n)[e].missed = Charged(e, u, n)
  <2>1. call[e] \in CallRecords /\ call[e].missed + n \in Nat
    BY DEF IInv, TypeOK, CallRecords
  <2> DEFINE q == [call[e] EXCEPT !.missed = call[e].missed + n]
  <2>2. /\ q \in CallRecords /\ q.at = call[e].at /\ q.tx = call[e].tx
        /\ q.user = call[e].user /\ q.left = call[e].left /\ q.missed = call[e].missed + n
    BY <2>1 DEF CallRecords
  <2>3. Missing(u, n)[e] = IF Carries(call[e]) /\ call[e].user = u THEN q ELSE call[e]
    BY DEF Missing
  <2> HIDE DEF q
  <2> QED
    BY <2>1, <2>2, <2>3 DEF Charged
<1>2. Missing(u, n) \in [Calls -> CallRecords]
  BY <1>1 DEF Missing
<1> QED
  BY <1>1, <1>2

LEMMA PlanIsRevoked ==
    ASSUME IInv, NEW c \in Calls, Revoke(c)
    PROVE  /\ IInv'
           /\ \E u \in Users, n \in Nat :
                 /\ n <= sub[u].remaining
                 /\ due' = [due EXCEPT ![u] = due[u] - n]
                 /\ \A v \in Users :
                       /\ sub'[v].exists = sub[v].exists
                       /\ sub'[v].remaining
                              = IF v = u THEN sub[u].remaining - n ELSE sub[v].remaining
                 /\ \A d \in Calls : d # c => call'[d] = Missing(u, n)[d]
                 /\ call'[c].at = "idle"
<1>0. PICK u \in Users : u = call[c].user /\ call[c].began \in Nat /\ sub[u].remaining \in Nat
  BY DEF IInv, CallOK, Revoke, At, TypeOK, CallRecords, Document
<1>1. PICK n \in Nat : n = IF seller[u] = "appstore" THEN sub[u].remaining ELSE 0
  BY <1>0
<1> DEFINE closed == [sub[u] EXCEPT !.end = call[c].began]
           revoked == [closed EXCEPT !.remaining = 0]
<1>2. /\ sub' = [sub EXCEPT ![u] = IF seller[u] = "appstore" THEN revoked ELSE sub[u]]
      /\ due' = [due EXCEPT ![u] = due[u] - n]
      /\ call' = [Missing(u, n) EXCEPT ![c] = Idle]
      /\ UNCHANGED <<now, seller, claim, acked, faults, written, lost, crashed>>
      /\ call[c].at = "revoke"
  BY <1>0, <1>1 DEF Revoke, At, grants
<1>3. closed \in Document(WebOrders) /\ closed.exists = sub[u].exists
  <2>1. sub[u] \in Document(WebOrders)
    BY DEF IInv, TypeOK
  <2>2. PICK e \in Nat : e = call[c].began
    BY <1>0
  <2> QED
    BY <2>1, <2>2 DEF Document
<1>4. revoked \in Document(WebOrders) /\ revoked.remaining = 0 /\ revoked.exists = sub[u].exists
  <2> HIDE DEF closed
  <2> QED
    BY <1>3 DEF Document
<1> HIDE DEF revoked
<1>5. sub' \in [Users -> Document(WebOrders)]
  BY <1>2, <1>4 DEF IInv, TypeOK
<1>6. due' \in [Users -> Int]
  <2>1. due[u] - n \in Int
    BY <1>1 DEF IInv, TypeOK
  <2> QED
    BY <1>2, <2>1 DEF IInv, TypeOK
<1>7. Idle \in CallRecords /\ Idle.at = "idle" /\ Idle.tx = None
  BY DocumentsAreTyped DEF Idle
<1>8. Missing(u, n) \in [Calls -> CallRecords]
  BY MissingIsTyped
<1>9. /\ TypeOK' /\ call'[c] = Idle
      /\ \A d \in Calls : d # c => call'[d] = Missing(u, n)[d]
  BY <1>2, <1>5, <1>6, <1>7, <1>8 DEF IInv, TypeOK
<1>10. \A d \in Calls : d # c =>
          /\ call'[d].at = call[d].at /\ call'[d].tx = call[d].tx /\ call'[d].user = call[d].user
  BY <1>9, MissingIsTyped
<1>11. IInv'
  <2>1. call[c].at \notin Holding /\ call'[c].at = "idle"
    BY <1>2, <1>7, <1>9 DEF Holding
  <2>2. UNCHANGED <<claim, written, lost, acked, crashed>>
    BY <1>2
  <2> QED
    BY <1>9, <1>10, <2>1, <2>2, ChargeMoves
<1>12. \A v \in Users :
          /\ sub'[v].exists = sub[v].exists
          /\ sub'[v].remaining = IF v = u THEN sub[u].remaining - n ELSE sub[v].remaining
  BY <1>0, <1>1, <1>2, <1>4 DEF IInv, TypeOK
<1>13. n <= sub[u].remaining /\ call'[c].at = "idle"
  BY <1>0, <1>1, <1>7, <1>9
<1> QED
  BY <1>2, <1>9, <1>11, <1>12, <1>13

LEMMA WebGrantIsTyped ==
    ASSUME NEW d \in Document(WebOrders), NEW q \in Quote, ~IsDailyPassQuote(q),
           NEW o \in WebOrders, NEW fullPrice, NEW t \in Nat
    PROVE  WebGrant(d, q, o, fullPrice, t) \in Document(WebOrders)
<1> DEFINE upgrade == UpgradesToPro(d, q, fullPrice, t)
           start == IF upgrade THEN t ELSE Larger(t, d.end)
           balance == CarriedCredits(d, t) + q.credits
<1>1. q.tier \in PoolTiers /\ q.period \in PoolPeriods /\ q.days \in Nat /\ q.credits \in Nat
  BY DEF Quote, IsDailyPassQuote
<1>2. d.remaining \in Nat /\ d.end \in Nat /\ d.grants \cup {o} \subseteq WebOrders
  BY DEF Document
<1>3. start \in Nat /\ CarriedCredits(d, t) \in Nat
  BY <1>2 DEF CarriedCredits, AtLeastZero, Larger
<1>4. balance \in Nat /\ start + q.days \in Nat
  BY <1>1, <1>3
<1>5. WebGrant(d, q, o, fullPrice, t) =
         [exists |-> TRUE, tier |-> q.tier, period |-> q.period, start |-> start,
          end |-> start + q.days, total |-> IF upgrade THEN balance ELSE q.credits,
          remaining |-> balance, grants |-> d.grants \cup {o}]
  BY DEF WebGrant
<1> HIDE DEF upgrade, start, balance
<1> QED
  BY <1>1, <1>2, <1>3, <1>4, <1>5 DEF Document

(* Somebody pays on the web, or a chat is charged.                         *)
LEMMA WebIsPaid ==
    ASSUME IInv, NEW o \in WebOrders, WebPayment(o)
    PROVE  /\ IInv' /\ UNCHANGED call
           /\ \E u \in Users, n \in Nat :
                 /\ due' = [due EXCEPT ![u] = due[u] + n]
                 /\ sub'[u].remaining <= n + (IF sub[u].exists THEN sub[u].remaining
                                                              ELSE Legacy[u].remaining)
                 /\ sub'[u].exists
                 /\ \A v \in Users : v # u => sub'[v] = sub[v]
<1>1. PICK u \in Users, n \in Nat : u = WebBuyer[o] /\ n = WebQuote[o].credits
  BY StoreAssumption DEF Quote
<1>2. /\ sub[u] \in Document(WebOrders) /\ now \in Nat /\ Legacy[u] \in Document(WebOrders)
      /\ WebQuote[o] \in Quote /\ ~IsDailyPassQuote(WebQuote[o])
  BY StoreAssumption DEF IInv, TypeOK
<1> DEFINE old == [Legacy[u] EXCEPT !.exists = TRUE]
<1>3. old \in Document(WebOrders) /\ old.remaining = Legacy[u].remaining
  BY <1>2 DEF Document
<1>4. PICK d \in Document(WebOrders) :
         /\ d = Seeded(sub[u], Legacy[u])
         /\ d.remaining = IF sub[u].exists THEN sub[u].remaining ELSE Legacy[u].remaining
  BY <1>2, <1>3 DEF Seeded
<1>5. PICK w \in Document(WebOrders) : w = WebGrant(d, WebQuote[o], o, TRUE, now)
  BY <1>2, WebGrantIsTyped
<1>6. CarriedCredits(d, now) \in Nat /\ CarriedCredits(d, now) <= d.remaining
  BY <1>2, CarriedIsNat
<1>7. w.exists /\ w.remaining = CarriedCredits(d, now) + n
  BY <1>1, <1>5 DEF WebGrant
<1>8. w.remaining <= n + d.remaining
  BY <1>6, <1>7 DEF Document
<1>9. /\ sub' = [sub EXCEPT ![u] = w] /\ due' = [due EXCEPT ![u] = due[u] + n]
      /\ seller' = [seller EXCEPT ![u] = "web"]
      /\ UNCHANGED <<now, claim, acked, call, faults, written, lost, crashed>>
  BY <1>1, <1>4, <1>5 DEF WebPayment, grants, IInv, TypeOK
<1>10. due' \in [Users -> Int]
  <2>1. due[u] + n \in Int
    BY DEF IInv, TypeOK
  <2> QED
    BY <1>9, <2>1 DEF IInv, TypeOK
<1>11. TypeOK'
  BY <1>9, <1>10 DEF IInv, TypeOK
<1>12. IInv'
  BY <1>9, <1>11, OthersMove
<1>13. sub'[u] = w /\ \A v \in Users : v # u => sub'[v] = sub[v]
  BY <1>9 DEF IInv, TypeOK
<1> QED
  BY <1>4, <1>7, <1>8, <1>9, <1>12, <1>13

LEMMA ChatIsCharged ==
    ASSUME IInv, NEW u \in Users, Spend(u)
    PROVE  /\ IInv'
           /\ due' = [due EXCEPT ![u] = due[u] - 1] /\ sub[u].remaining >= 1
           /\ \A v \in Users : /\ sub'[v].exists = sub[v].exists
                               /\ sub'[v].remaining
                                        = IF v = u THEN sub[u].remaining - 1 ELSE sub[v].remaining
           /\ \A d \in Calls : call'[d] = Missing(u, 1)[d]
<1> DEFINE spent == [sub[u] EXCEPT !.remaining = sub[u].remaining - 1]
<1>1. /\ sub' = [sub EXCEPT ![u] = spent] /\ due' = [due EXCEPT ![u] = due[u] - 1]
      /\ call' = Missing(u, 1) /\ sub[u].remaining > 0
      /\ UNCHANGED <<now, seller, claim, acked, faults, written, lost, crashed>>
  BY DEF Spend, grants, IInv, TypeOK
<1>2. sub[u] \in Document(WebOrders) /\ sub[u].remaining \in Nat /\ sub[u].remaining - 1 \in Nat
  BY <1>1 DEF IInv, TypeOK, Document
<1>3. /\ spent \in Document(WebOrders) /\ spent.remaining = sub[u].remaining - 1
      /\ spent.exists = sub[u].exists
  BY <1>2 DEF Document
<1> HIDE DEF spent
<1>4. due' \in [Users -> Int] /\ call' \in [Calls -> CallRecords]
  <2>1. due[u] - 1 \in Int
    BY DEF IInv, TypeOK
  <2>2. PICK n \in Nat : n = 1
    OBVIOUS
  <2>3. Missing(u, 1) \in [Calls -> CallRecords]
    BY <2>2, MissingIsTyped
  <2> QED
    BY <1>1, <2>1, <2>3 DEF IInv, TypeOK
<1>5. TypeOK'
  BY <1>1, <1>3, <1>4 DEF IInv, TypeOK
<1>6. \A d \in Calls :
         /\ call'[d].at = call[d].at /\ call'[d].tx = call[d].tx /\ call'[d].user = call[d].user
  <2>1. PICK n \in Nat : n = 1
    OBVIOUS
  <2> QED
    BY <1>1, <2>1, MissingIsTyped
<1>7. IInv'
  BY <1>1, <1>5, <1>6, ChargeMoves
<1> QED
  BY <1>1, <1>2, <1>3, <1>7 DEF IInv, TypeOK

LEMMA OthersStep ==
    ASSUME IInv, Others
    PROVE  IInv'
<1>1. CASE Tick
  <2>1. now' \in 0 .. MaxTime
    BY <1>1, StoreAssumption DEF Tick, IInv, TypeOK
  <2> QED
    BY <1>1, <2>1, OthersMove DEF Tick, IInv, TypeOK, documents, grants
<1> QED
  BY <1>1, WebIsPaid, ChatIsCharged DEF Others

(***************************************************************************)
(* The invariant.                                                          *)
(***************************************************************************)
LEMMA InitIsConsistent == Init => IInv
<1> SUFFICES ASSUME Init PROVE IInv
  OBVIOUS
<1>1. TypeOK
  <2>1. \A u \in Users : Legacy[u].remaining \in Int
    BY StoreAssumption DEF Document
  <2>2. due \in [Users -> Int] /\ faults \in 0 .. MaxFaults /\ now \in 0 .. MaxTime
    BY <2>1, StoreAssumption DEF Init
  <2> QED
    BY <2>2, DocumentsAreTyped DEF Init, TypeOK
<1>2. \A c \in Calls : call[c].at = "idle"
  BY DEF Init, Idle
<1>3. \A c \in Calls : CallOK(c)
  BY <1>2 DEF CallOK, Holding
<1>4. HoldersAreAlone
  BY <1>2 DEF HoldersAreAlone, Holding
<1>5. \A t \in Txs : TxOK(t)
  BY DEF Init, TxOK, Open, NoClaim
<1> QED
  BY <1>1, <1>3, <1>4, <1>5 DEF IInv

LEMMA StepIsConsistent == IInv /\ [Next]_vars => IInv'
<1> SUFFICES ASSUME IInv, [Next]_vars PROVE IInv'
  OBVIOUS
<1>1. ASSUME NEW c \in Calls, Request(c) PROVE IInv'
  <2>1. PICK t \in Txs, u \in Users, step \in {"owner", "revoke"} : Starts(c, u, t, step)
    BY <1>1 DEF Request, Verify, NotifyGrant, NotifyRevoke, IInv, TypeOK, Claims
  <2> QED
    BY <2>1, RequestsStart
<1>2. ASSUME NEW c \in Calls, Progress(c) PROVE IInv'
  BY <1>2, OwnerIsChecked, NothingIsClaimed, TransactionIsClaimed, SubscriptionIsRead,
     UpgradeDecides, ClaimIsMarked, PurchaseIsAcknowledged, ClaimIsReleased, PlanIsRevoked
     DEF Progress
<1>3. ASSUME NEW c \in Calls, Fails(c) PROVE IInv'
  BY <1>3, GrantFails, GrantGoesUnheard, RequestDies DEF Fails
<1>4. CASE Others
  BY <1>4, OthersStep
<1>5. CASE UNCHANGED vars
  <2>1. TypeOK'
    BY <1>5 DEF vars, documents, grants, IInv, TypeOK
  <2> QED
    BY <1>5, <2>1, OthersMove DEF vars, documents, grants
<1> QED
  BY <1>1, <1>2, <1>3, <1>4, <1>5 DEF Next

(* The inductive invariant: types, and what each request and transaction   *)
(* at its step means for the other.                                        *)
THEOREM Consistent == Spec => []IInv
  BY InitIsConsistent, StepIsConsistent, PTL DEF Spec

THEOREM Typed == Spec => []TypeOK
<1>1. IInv => TypeOK
  BY DEF IInv
<1> QED
  BY <1>1, Consistent, PTL

(* However often a transaction is presented, and whatever fails, it is     *)
(* written once and as often again as answers to its writes were lost, and *)
(* marked or acknowledged only when it was.                                *)
THEOREM GrantedOnce == Spec => []StoreGrantedOnce
<1>1. IInv => StoreGrantedOnce
  BY DEF IInv, TxOK, StoreGrantedOnce
<1> QED
  BY <1>1, Consistent, PTL

(* A claim that is neither granted nor final has exactly one request that  *)
(* will settle it, unless a process has stopped.                           *)
THEOREM ClaimsAreHeld == Spec => []OpenClaimIsHeld
<1>1. ASSUME IInv PROVE OpenClaimIsHeld
  <2>1. SUFFICES ASSUME NEW t \in Txs, Open(t), t \notin crashed
                 PROVE  Cardinality({c \in Calls : Holds(c, t)}) = 1
    BY DEF OpenClaimIsHeld
  <2>2. PICK c \in Calls : Holds(c, t)
    BY <1>1, <2>1 DEF IInv, TxOK
  <2>3. {d \in Calls : Holds(d, t)} = {c}
    BY <1>1, <2>2 DEF IInv, HoldersAreAlone, Holds, Holding
  <2> QED
    BY <2>3, FS_Singleton
<1> QED
  BY <1>1, Consistent, PTL

(***************************************************************************)
(* Every credit of a balance was given.                                    *)
(***************************************************************************)
Backed ==
    /\ BalanceIsBacked
    /\ \A u \in Users : ~sub[u].exists => sub[u].remaining = 0 /\ Legacy[u].remaining <= due[u]
    /\ \A c \in Calls : Carries(call[c]) => call[c].left <= due[call[c].user] + call[c].missed

BalancesAreTyped ==
    /\ \A u \in Users : /\ sub[u].remaining \in Nat /\ due[u] \in Int
                        /\ Legacy[u].remaining \in Nat
    /\ \A c \in Calls : /\ call[c].left \in Nat /\ call[c].missed \in Nat
                        /\ Carries(call[c]) => call[c].user \in Users

LEMMA BalancesTyped == IInv => BalancesAreTyped
<1> SUFFICES ASSUME IInv PROVE BalancesAreTyped
  OBVIOUS
<1>1. ASSUME NEW u \in Users
      PROVE  sub[u].remaining \in Nat /\ due[u] \in Int /\ Legacy[u].remaining \in Nat
  BY StoreAssumption DEF IInv, TypeOK, Document
<1>2. ASSUME NEW c \in Calls
      PROVE  /\ call[c].left \in Nat /\ call[c].missed \in Nat
             /\ Carries(call[c]) => call[c].user \in Users
  BY Holder DEF IInv, TypeOK, CallRecords, Carries, Holding
<1> QED
  BY <1>1, <1>2 DEF BalancesAreTyped

(* The plans stay as they are; requests only stop carrying, or begin with  *)
(* a balance that is backed.                                               *)
LEMMA PlansStay ==
    ASSUME IInv, Backed, UNCHANGED <<sub, due>>,
           \A d \in Calls :
              \/ call'[d] = call[d]
              \/ ~Carries(call'[d])
              \/ call'[d].left <= due[call'[d].user] + call'[d].missed
    PROVE  Backed'
  BY DEF Backed, BalanceIsBacked

(* The plan of u is written, and given n credits.                          *)
LEMMA PlanIsGiven ==
    ASSUME IInv, Backed, IInv', NEW u \in Users, NEW n \in Nat,
           due' = [due EXCEPT ![u] = due[u] + n],
           sub'[u].remaining <= due[u] + n, sub'[u].exists,
           \A v \in Users : v # u => sub'[v] = sub[v],
           \A d \in Calls : call'[d] = call[d] \/ ~Carries(call'[d])
    PROVE  Backed'
<1>1. BalancesAreTyped
  BY BalancesTyped
<1>2. \A v \in Users : due'[v] = IF v = u THEN due[u] + n ELSE due[v]
  BY DEF IInv, TypeOK
<1>3. \A v \in Users : due[v] <= due'[v]
  BY <1>1, <1>2 DEF BalancesAreTyped
<1>4. BalanceIsBacked'
  BY <1>2 DEF Backed, BalanceIsBacked
<1>5. \A v \in Users : ~sub'[v].exists => sub'[v].remaining = 0 /\ Legacy[v].remaining <= due'[v]
  BY <1>2 DEF Backed
<1>6. ASSUME NEW d \in Calls, Carries(call'[d])
      PROVE  call'[d].left <= due'[call'[d].user] + call'[d].missed
  <2>1. PICK v \in Users, l \in Nat, m \in Nat :
           /\ call'[d] = call[d] /\ v = call[d].user /\ l = call[d].left /\ m = call[d].missed
    BY <1>1, <1>6 DEF BalancesAreTyped
  <2>2. l <= due[v] + m
    BY <1>6, <2>1 DEF Backed
  <2>3. l <= due'[v] + m
    BY <1>1, <1>2, <2>2 DEF BalancesAreTyped
  <2> QED
    BY <2>1, <2>3
<1> QED
  BY <1>4, <1>5, <1>6 DEF Backed

(* n credits of u's plan are spent or taken back.                          *)
LEMMA PlanIsCharged ==
    ASSUME IInv, Backed, NEW u \in Users, NEW n \in Nat, n <= sub[u].remaining,
           due' = [due EXCEPT ![u] = due[u] - n],
           \A v \in Users :
              /\ sub'[v].exists = sub[v].exists
              /\ sub'[v].remaining = IF v = u THEN sub[u].remaining - n ELSE sub[v].remaining,
           \A d \in Calls : call'[d] = Missing(u, n)[d] \/ call'[d].at = "idle"
    PROVE  Backed'
<1>1. BalancesAreTyped
  BY BalancesTyped
<1>2. \A v \in Users : due'[v] = IF v = u THEN due[u] - n ELSE due[v]
  BY DEF IInv, TypeOK
<1>3. ASSUME NEW v \in Users
      PROVE  /\ sub'[v].remaining <= due'[v]
             /\ ~sub'[v].exists => sub'[v].remaining = 0 /\ Legacy[v].remaining <= due'[v]
  <2>1. PICK a \in Nat, b \in Int, l \in Nat :
           a = sub[v].remaining /\ b = due[v] /\ l = Legacy[v].remaining
    BY <1>1 DEF BalancesAreTyped
  <2>2. a <= b /\ (~sub[v].exists => a = 0 /\ l <= b)
    BY <2>1 DEF Backed, BalanceIsBacked
  <2>3. CASE v = u
    <3>1. sub'[v].remaining = a - n /\ due'[v] = b - n /\ n <= a
      BY <1>2, <2>1, <2>3
    <3> QED
      BY <2>1, <2>2, <3>1
  <2>4. CASE v # u
    BY <1>2, <2>1, <2>2, <2>4
  <2> QED
    BY <2>3, <2>4
<1>4. ASSUME NEW d \in Calls, Carries(call'[d])
      PROVE  call'[d].left <= due'[call'[d].user] + call'[d].missed
  <2>1. /\ call'[d].at = call[d].at /\ call'[d].user = call[d].user
        /\ call'[d].left = call[d].left /\ call'[d].missed = Charged(d, u, n)
    <3>1. call'[d] = Missing(u, n)[d]
      BY <1>4 DEF Carries
    <3> QED
      BY <3>1, MissingIsTyped
  <2>2. Carries(call[d])
    BY <1>4, <2>1 DEF Carries
  <2>3. PICK v \in Users, l \in Nat, m \in Nat, b \in Int :
           v = call[d].user /\ l = call[d].left /\ m = call[d].missed /\ b = due[v]
    BY <1>1, <2>2 DEF BalancesAreTyped
  <2>4. l <= b + m
    BY <2>2, <2>3 DEF Backed
  <2>5. CASE v = u
    <3>1. call'[d].missed = m + n /\ due'[v] = b - n
      BY <1>2, <2>1, <2>2, <2>3, <2>5 DEF Charged
    <3>2. l <= (b - n) + (m + n)
      BY <2>4
    <3> QED
      BY <2>1, <2>3, <3>1, <3>2
  <2>6. CASE v # u
    <3>1. call'[d].missed = m /\ due'[v] = b
      BY <1>2, <2>1, <2>2, <2>3, <2>6 DEF Charged
    <3> QED
      BY <2>1, <2>3, <2>4, <3>1
  <2> QED
    BY <2>5, <2>6
<1> QED
  BY <1>3, <1>4 DEF Backed, BalanceIsBacked

(* Most steps leave the plans alone, and carry nothing.                    *)
LEMMA PlansAreLeft ==
    ASSUME IInv, Backed, NEW c \in Calls,
           \/ Request(c) \/ ClaimFinal(c) \/ ClaimTx(c) \/ MarkGranted(c) \/ Acknowledge(c)
           \/ Release(c) \/ GrantRaises(c) \/ AcknowledgeRaises(c) \/ Crash(c)
           \/ \E revoked \in BOOLEAN : CheckOwner(c, revoked)
    PROVE  Backed'
<1>1. /\ UNCHANGED <<sub, due>>
      /\ \/ Ends(c) \/ GrantRaises(c) \/ Request(c)
         \/ \E step \in Steps \ {"replace"} : Goes(c, step)
  BY DEF Request, Verify, NotifyGrant, NotifyRevoke, Starts, ClaimFinal, ClaimTx, MarkGranted,
         Acknowledge, Release, GrantRaises, AcknowledgeRaises, Crash, CheckOwner, Steps, documents
<1>2. call \in [Calls -> CallRecords]
  BY DEF IInv, TypeOK
<1>3. \A d \in Calls : call'[d] = call[d] \/ call'[d].at # "replace"
  <2>1. CASE Ends(c)
    BY <1>2, <2>1 DEF Ends, Idle
  <2>2. CASE GrantRaises(c)
    <3>1. PICK t \in Txs, u \in Users : t = call[c].tx /\ u = call[c].user
      BY <2>2, Holder DEF GrantRaises, Holding
    <3>2. call' = [call EXCEPT ![c] = Reduced("release", t, u)]
      BY <2>2, <3>1 DEF GrantRaises, Leaves, Reduced
    <3>3. Reduced("release", t, u).at = "release"
      BY <3>1, ReducedIsTyped DEF Steps
    <3> QED
      BY <1>2, <3>2, <3>3
  <2>3. CASE Request(c)
    <3>1. PICK t \in Txs, u \in Users, step \in {"owner", "revoke"} : Starts(c, u, t, step)
      BY <2>3 DEF Request, Verify, NotifyGrant, NotifyRevoke, IInv, TypeOK, Claims
    <3> DEFINE r == [Idle EXCEPT !.at = step, !.tx = t, !.user = u, !.began = now]
    <3>2. call' = [call EXCEPT ![c] = r]
      BY <3>1 DEF Starts
    <3>3. r.at = step
      BY DEF Idle
    <3> HIDE DEF r
    <3> QED
      BY <1>2, <3>2, <3>3
  <2>4. CASE \E step \in Steps \ {"replace"} : Goes(c, step)
    BY <1>2, <2>4 DEF Goes, CallRecords
  <2> QED
    BY <1>1, <2>1, <2>2, <2>3, <2>4
<1> QED
  BY <1>1, <1>3, PlansStay DEF Carries

(* What is read is backed, for it is the plan itself.                      *)
LEMMA ReadIsBacked ==
    ASSUME IInv, Backed, NEW c \in Calls, ReadSub(c)
    PROVE  Backed'
<1>1. PICK u \in Users, seen \in Document(WebOrders), r \in CallRecords :
         /\ seen \in {sub[u], Legacy[u]} /\ (sub[u].exists => seen = sub[u])
         /\ call' = [call EXCEPT ![c] = r] /\ r.user = u
         /\ r.left <= seen.remaining
  BY WhatIsRead
<1>2. \A d \in Calls : call'[d] = IF d = c THEN r ELSE call[d]
  BY <1>1 DEF IInv, TypeOK
<1>3. PICK l \in Nat, m \in Nat, a \in Nat, b \in Int :
         l = r.left /\ m = r.missed /\ a = seen.remaining /\ b = due[u]
  BY DEF CallRecords, Document, IInv, TypeOK
<1>4. a <= b
  BY <1>1, <1>3 DEF Backed, BalanceIsBacked
<1>5. l <= b + m
  BY <1>1, <1>3, <1>4
<1>6. UNCHANGED <<sub, due>>
  BY DEF ReadSub, documents
<1> QED
  BY <1>1, <1>2, <1>3, <1>5, <1>6, PlansStay

LEMMA WriteIsBacked ==
    ASSUME IInv, Backed, IInv', NEW c \in Calls, WriteUpgrade(c) \/ WriteReplacement(c),
           NEW step \in {"mark", "release"}, Leaves(c, step)
    PROVE  Backed'
<1>1. PICK u \in Users, t \in Txs, document \in Document(WebOrders), behind \in Nat :
         /\ u = call[c].user /\ t = call[c].tx /\ Writes(c, document, behind) /\ document.exists
         /\ At(c, "upgrade") => document.remaining = sub[u].remaining + QuoteOf[t].credits
         /\ At(c, "replace") => /\ document.remaining = call[c].left + QuoteOf[t].credits
                                /\ behind = call[c].missed
  BY WhatIsWritten
<1>2. PICK k \in Nat : k = QuoteOf[t].credits
  BY QuotesAreTyped
<1>3. PICK n \in Nat : n = k + behind
  OBVIOUS
<1>4. PICK b \in Int, a \in Nat, l \in Nat, m \in Nat :
         b = due[u] /\ a = sub[u].remaining /\ l = call[c].left /\ m = call[c].missed
  BY BalancesTyped DEF BalancesAreTyped
<1>5. a <= b
  BY <1>4 DEF Backed, BalanceIsBacked
<1>6. document.remaining <= b + n
  <2>1. CASE At(c, "upgrade")
    BY <1>1, <1>2, <1>3, <1>4, <1>5, <2>1
  <2>2. CASE At(c, "replace")
    <3>1. l <= b + m
      <4>1. CASE l > 0
        BY <1>1, <1>4, <2>2, <4>1 DEF Backed, Carries, At
      <4>2. CASE l = 0
        BY <1>5, <4>2
      <4> QED
        BY <4>1, <4>2
    <3>2. document.remaining = l + k /\ behind = m
      BY <1>1, <1>2, <1>4, <2>2
    <3> QED
      BY <1>3, <3>1, <3>2
  <2> QED
    BY <2>1, <2>2 DEF WriteUpgrade, StandardRuns, WriteReplacement
<1>7. sub' = [sub EXCEPT ![u] = document] /\ due' = [due EXCEPT ![u] = b + k + behind]
  BY <1>1, <1>2, <1>4 DEF Writes
<1>8. due' = [due EXCEPT ![u] = due[u] + n]
  <2>1. b + k + behind = b + n
    BY <1>3
  <2> QED
    BY <1>4, <1>7, <2>1
<1>9. sub'[u] = document /\ \A v \in Users : v # u => sub'[v] = sub[v]
  BY <1>7 DEF IInv, TypeOK
<1>10. \A d \in Calls : call'[d] = call[d] \/ ~Carries(call'[d])
  <2>1. call' = [call EXCEPT ![c] = Reduced(step, t, u)]
    BY <1>1 DEF Leaves, Reduced
  <2>2. Reduced(step, t, u).at = step
    BY ReducedIsTyped DEF Steps
  <2> QED
    BY <2>1, <2>2 DEF Carries, IInv, TypeOK
<1> QED
  BY <1>1, <1>4, <1>6, <1>8, <1>9, <1>10, PlanIsGiven

LEMMA UpgradeIsBacked ==
    ASSUME IInv, Backed, IInv', NEW c \in Calls, Upgrade(c) \/ Replace(c)
    PROVE  Backed'
<1>1. CASE Upgrade(c) /\ ~StandardRuns(c)
  <2>1. /\ UNCHANGED <<sub, due>>
        /\ call' = [call EXCEPT ![c].at = "replace", ![c].left = 0]
    BY <1>1 DEF Upgrade, documents
  <2>2. \A d \in Calls : call'[d] = call[d] \/ call'[d].left = 0
    BY <2>1 DEF IInv, TypeOK, CallRecords
  <2>3. \A d \in Calls : call'[d] = call[d] \/ ~Carries(call'[d])
    BY <2>2 DEF Carries
  <2> QED
    BY <2>1, <2>3, PlansStay
<1>2. CASE (Upgrade(c) /\ StandardRuns(c)) \/ Replace(c)
  <2>1. (WriteUpgrade(c) \/ WriteReplacement(c)) /\ Leaves(c, "mark")
    BY <1>2 DEF Upgrade, Replace
  <2> QED
    BY <2>1, WriteIsBacked
<1> QED
  BY <1>1, <1>2

LEMMA RevocationIsBacked ==
    ASSUME IInv, Backed, NEW c \in Calls, Revoke(c)
    PROVE  Backed'
<1>1. PICK u \in Users, n \in Nat :
         /\ n <= sub[u].remaining
         /\ due' = [due EXCEPT ![u] = due[u] - n]
         /\ \A v \in Users :
               /\ sub'[v].exists = sub[v].exists
               /\ sub'[v].remaining = IF v = u THEN sub[u].remaining - n ELSE sub[v].remaining
         /\ \A d \in Calls : d # c => call'[d] = Missing(u, n)[d]
         /\ call'[c].at = "idle"
  BY PlanIsRevoked
<1>2. \A d \in Calls : call'[d] = Missing(u, n)[d] \/ call'[d].at = "idle"
  BY <1>1
<1> QED
  BY <1>1, <1>2, PlanIsCharged

LEMMA PaymentIsBacked ==
    ASSUME IInv, Backed, IInv', NEW o \in WebOrders, WebPayment(o)
    PROVE  Backed'
<1>1. PICK u \in Users, n \in Nat :
         /\ due' = [due EXCEPT ![u] = due[u] + n]
         /\ sub'[u].remaining <= n + (IF sub[u].exists THEN sub[u].remaining
                                                      ELSE Legacy[u].remaining)
         /\ sub'[u].exists
         /\ \A v \in Users : v # u => sub'[v] = sub[v]
  BY WebIsPaid
<1>2. PICK b \in Int, a \in Nat, l \in Nat, z \in Nat :
         b = due[u] /\ a = sub[u].remaining /\ l = Legacy[u].remaining /\ z = sub'[u].remaining
  BY BalancesTyped DEF BalancesAreTyped, IInv, TypeOK, Document
<1>3. a <= b /\ (~sub[u].exists => l <= b)
  BY <1>2 DEF Backed, BalanceIsBacked
<1>4. z <= n + (IF sub[u].exists THEN a ELSE l)
  BY <1>1, <1>2
<1>5. z <= b + n
  <2>1. CASE sub[u].exists
    BY <1>3, <1>4, <2>1
  <2>2. CASE ~sub[u].exists
    BY <1>3, <1>4, <2>2
  <2> QED
    BY <2>1, <2>2
<1>6. UNCHANGED call
  BY WebIsPaid
<1> QED
  BY <1>1, <1>2, <1>5, <1>6, PlanIsGiven

LEMMA SpendingIsBacked ==
    ASSUME IInv, Backed, NEW u \in Users, Spend(u)
    PROVE  Backed'
<1>1. PICK n \in Nat : n = 1
  OBVIOUS
<1>2. /\ due' = [due EXCEPT ![u] = due[u] - n] /\ n <= sub[u].remaining
      /\ \A v \in Users :
            /\ sub'[v].exists = sub[v].exists
            /\ sub'[v].remaining = IF v = u THEN sub[u].remaining - n ELSE sub[v].remaining
      /\ \A d \in Calls : call'[d] = Missing(u, n)[d]
  BY <1>1, ChatIsCharged DEF IInv, TypeOK, Document
<1> QED
  BY <1>2, PlanIsCharged

LEMMA StepIsBacked == IInv /\ Backed /\ [Next]_vars => Backed'
<1> SUFFICES ASSUME IInv, Backed, [Next]_vars PROVE Backed'
  OBVIOUS
<1>1. IInv'
  BY StepIsConsistent
<1>2. ASSUME NEW c \in Calls, Progress(c) PROVE Backed'
  BY <1>1, <1>2, PlansAreLeft, ReadIsBacked, UpgradeIsBacked, RevocationIsBacked DEF Progress
<1>3. ASSUME NEW c \in Calls, Request(c) PROVE Backed'
  BY <1>3, PlansAreLeft
<1>4. ASSUME NEW c \in Calls, Fails(c) PROVE Backed'
  <2>1. CASE GrantIsNotHeardOf(c)
    BY <1>1, <2>1, WriteIsBacked DEF GrantIsNotHeardOf
  <2> QED
    BY <1>4, <2>1, PlansAreLeft DEF Fails
<1>5. CASE Others
  <2>1. CASE Tick
    BY <2>1, PlansStay DEF Tick, documents
  <2> QED
    BY <1>1, <1>5, <2>1, PaymentIsBacked, SpendingIsBacked DEF Others
<1>6. CASE UNCHANGED vars
  BY <1>6, PlansStay DEF vars, documents
<1> QED
  BY <1>2, <1>3, <1>4, <1>5, <1>6 DEF Next

(* No balance exceeds what was given and not yet spent or taken back,      *)
(* whichever writes, charges and lost answers overlap.                     *)
THEOREM BalancesAreBacked == Spec => []BalanceIsBacked
<1>1. Init => Backed
  <2> SUFFICES ASSUME Init PROVE Backed
    OBVIOUS
  <2>1. \A u \in Users : Legacy[u].remaining \in Nat
    BY StoreAssumption DEF Document
  <2>2. \A c \in Calls : call[c].at = "idle"
    BY DEF Init, Idle
  <2> QED
    BY <2>1, <2>2 DEF Init, NoDocument, Backed, BalanceIsBacked, Carries
<1>2. Backed => BalanceIsBacked
  BY DEF Backed
<1> QED
  BY <1>1, <1>2, Consistent, StepIsBacked, PTL DEF Spec
=============================================================================
