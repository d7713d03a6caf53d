--------------------------- MODULE Administration ---------------------------
(***************************************************************************)
(* AdminSubscriptionService: an operator grants, extends, adjusts or       *)
(* revokes the plan of a user whose requests go on charging it.  An action *)
(* reserves its request id in the audit log, changes the plan in several   *)
(* reads and writes, and closes the audit entry.  `updated_at_ms`, the     *)
(* optimistic lock, is the time at which the handler of the last writer    *)
(* began: it names that writer, and all writes of one action alike.  Two   *)
(* handlers are taken to begin in different milliseconds, every document   *)
(* to have the field, and the account to have no legacy record.            *)
(***************************************************************************)
EXTENDS CreditLedger

CONSTANTS
    Admins,         \* slots for administrative requests in progress
    Ids,            \* request ids (the Idempotency-Key of an action)
    Actions,        \* what administrators may ask for
    GrantQuote      \* the quote of a plan they grant

Action ==
    [kind : {"grant"}, fresh : BOOLEAN, overrides : BOOLEAN]
        \cup [kind : {"extend"}, days : Nat \ {0}, preserves : BOOLEAN]
        \cup [kind : {"set"}, credits : Nat]
        \cup [kind : {"delta"}, credits : Int]
        \cup [kind : {"revoke"}, zeroes : BOOLEAN]

ASSUME AdministrationAssumption ==
    /\ Actions \subseteq Action
    /\ GrantQuote \in Quote /\ ~IsDailyPassQuote(GrantQuote)
    /\ Ids \cap {"none", "other", "old"} = {}

VARIABLES
    body,       \* the body each request id is sent with
    audit,      \* admin_audit_logs: result of the entry of each id
    admin,      \* the administrative requests in progress
    stamp,      \* updated_at_ms: the id of the action that wrote last, or "other"
    log         \* history, see Log

adminVars == <<vars, body, audit, admin, stamp, log>>

Results == {"none", "in_progress", "success", "error"}
AdminSteps == {"read", "balanceRead", "balanceUsage", "cut", "upsertRead", "upsertWrite", "extendWrite",
               "reconcileRead", "reconcileUsage", "reconcileWrite", "verifyRead", "verifyUsage",
               "revokeWrite", "succeed", "fail"}

(* began: now_ms of the handler; stamp: updated_at_ms at the first read,   *)
(* "old" when it was that of a customer's write and is gone for good;      *)
(* until: the end an extension computed then; plan: the document last      *)
(* read; used: creditusage read before the write; retried: the balance was *)
(* verified and was wrong.  Histories of the time since the first read:    *)
(* current: nothing has written the document; alone: nobody else has       *)
(* charged or written the account; moved: what requests have charged or    *)
(* given back while the document was current.                              *)
Stamps == Ids \cup {"none", "other", "old"}

AdminRecords ==
    [at : {"idle"} \cup AdminSteps, id : Ids \cup {"none"}, began : Nat, plan : Document(Purchases),
     stamp : Stamps, until : Nat, used : Int, desired : Nat, retried : BOOLEAN,
     current : BOOLEAN, alone : BOOLEAN, moved : Nat]

NoAction == [at |-> "idle", id |-> "none", began |-> 0, plan |-> NoDocument, stamp |-> "none",
             until |-> 0, used |-> 0, desired |-> 0, retried |-> FALSE, current |-> FALSE,
             alone |-> FALSE, moved |-> 0]

(* handled: how often the handler of an id was started; left: the balance  *)
(* that the last purchase or action meant to leave; spent: what the pool   *)
(* was charged since then, less every refund; adrift: the plan was to      *)
(* start later.                                                            *)
Log == [handled : [Ids -> Nat], left : Int, spent : Int, adrift : BOOLEAN]

UsedSince(doc) == SumOver(UsedOn, {d \in Dates : Date(doc.start) <= d})

(* A write that means to leave a balance and has counted part of what the  *)
(* days of the plan are charged with.                                      *)
Leaves(doc, balance, counted) ==
    log' = [log EXCEPT !.left = balance, !.spent = UsedSince(doc) - counted,
                       !.adrift = doc.start > now]

AdminInit ==
    /\ Init
    /\ body \in [Ids -> Actions]
    /\ audit = [i \in Ids |-> "none"]
    /\ admin = [a \in Admins |-> NoAction]
    /\ stamp = "other"
    /\ log = [handled |-> [i \in Ids |-> 0], left |-> 0, spent |-> 0, adrift |-> FALSE]

Doing(a, step) == admin[a].at = step
Asked(a) == body[admin[a].id]
Over(a, how) == [NoAction EXCEPT !.at = how, !.id = admin[a].id]
Fails(a) == admin' = [admin EXCEPT ![a] = Over(a, "fail")]

(* Another writer or reader of the account comes in between.               *)
Disturbed(r, writes, cost) ==
    [r EXCEPT !.stamp = IF writes /\ @ = "other" THEN "old" ELSE @,
              !.current = @ /\ ~writes, !.alone = FALSE,
              !.moved = IF r.current /\ ~writes THEN @ + cost ELSE 0]

(* The request of a goes on as r after writing the document.  A second     *)
(* write of the same action leaves updated_at_ms as the first has set it.  *)
Writes(a, r) ==
    /\ stamp' = admin[a].id
    /\ admin' = [b \in Admins |->
                     IF b = a THEN [r EXCEPT !.stamp = "none", !.current = FALSE, !.moved = 0]
                              ELSE Disturbed(admin[b], TRUE, 0)]

(***************************************************************************)
(* AdminAuditService                                                       *)
(***************************************************************************)
(* Mutant: an id whose entry was never closed may be used again.           *)
UnusedOrOpen(i) == audit[i] \in {"none", "in_progress"}

(* The unique index on request_id.                                         *)
Unused(i) == audit[i] = "none"

(* claim: a second request with the id is answered 409.                    *)
Claim(a, i) ==
    /\ Doing(a, "idle")
    /\ IF Unused(i)
       THEN /\ audit' = [audit EXCEPT ![i] = "in_progress"]
            /\ admin' = [admin EXCEPT ![a] = [NoAction EXCEPT !.at = "read", !.id = i]]
            /\ log' = [log EXCEPT !.handled[i] = @ + 1]
       ELSE UNCHANGED <<audit, admin, log>>
    /\ UNCHANGED <<vars, body, stamp>>

(* finalize                                                                *)
Close(a) ==
    /\ admin[a].at \in {"succeed", "fail"}
    /\ audit' = [audit EXCEPT ![admin[a].id] = IF Doing(a, "succeed") THEN "success" ELSE "error"]
    /\ admin' = [admin EXCEPT ![a] = NoAction]
    /\ UNCHANGED <<vars, body, stamp, log>>

(***************************************************************************)
(* The handlers up to their first write.                                   *)
(***************************************************************************)
(* validate_subscription_eligibility of a pool plan, or its override.      *)
MayHave(asked, plan) ==
    \/ asked.overrides
    \/ ~ActiveAt(plan, now)
    \/ plan.tier \notin PoolTiers
    \/ plan.tier = "standard" /\ GrantQuote.tier = "pro" /\ plan.period = GrantQuote.period

(* What an action finds wrong with the plan at its first read.             *)
Refused(asked) ==
    \/ asked.kind = "grant" /\ ~MayHave(asked, sub)
    \/ asked.kind # "grant" /\ ~sub.exists
    \/ asked.kind \in {"set", "delta"} /\ ~ActiveAt(sub, now)

(* Where it goes from there.                                               *)
Begins(asked) ==
    CASE asked.kind = "revoke" -> "revokeWrite"
      [] asked.kind = "grant" /\ asked.fresh -> "cut"
      [] OTHER -> "balanceRead"

(* The kinds of action that compare updated_at_ms with what they read.     *)
Locks(kind) == kind \in {"extend", "set", "delta"}

(* What such an action keeps of its first read.                            *)
Read(asked) == IF Locks(asked.kind) THEN stamp ELSE "none"
ExtendedEnd(asked) == IF asked.kind = "extend" THEN Larger(now, sub.end) + asked.days ELSE 0

ReadPlan(a) ==
    /\ Doing(a, "read")
    /\ IF Refused(Asked(a))
       THEN Fails(a)
       ELSE admin' = [admin EXCEPT ![a] = [@ EXCEPT !.at = Begins(Asked(a)), !.began = now,
                                                    !.stamp = Read(Asked(a)),
                                                    !.until = ExtendedEnd(Asked(a)),
                                                    !.current = Locks(Asked(a).kind),
                                                    !.alone = TRUE]]
    /\ UNCHANGED <<vars, body, audit, stamp, log>>

(* _computed_remaining: the plan is read once more, then its usage.        *)
ReadForBalance(a) ==
    /\ Doing(a, "balanceRead")
    /\ admin' = [admin EXCEPT ![a] = [@ EXCEPT !.at = "balanceUsage", !.plan = sub]]
    /\ UNCHANGED <<vars, body, audit, stamp, log>>

(* Mutant: a correction may take more than there is.                       *)
DesiredUnclipped(asked, offered) ==
    CASE asked.kind = "grant" -> offered + GrantQuote.credits
      [] asked.kind = "extend" -> offered
      [] asked.kind = "set" -> asked.credits
      [] asked.kind = "delta" -> offered + asked.credits

(* The balance an action means to leave, computed from what is offered.    *)
Desired(asked, offered) ==
    CASE asked.kind = "grant" -> offered + GrantQuote.credits
      [] asked.kind = "extend" -> offered
      [] asked.kind = "set" -> asked.credits
      [] asked.kind = "delta" -> AtLeastZero(offered + asked.credits)

AfterBalance(kind) ==
    CASE kind = "grant" -> "upsertRead" [] kind = "extend" -> "extendWrite" [] OTHER -> "reconcileRead"

ReadBalance(a) ==
    /\ Doing(a, "balanceUsage")
    /\ admin' = [admin EXCEPT ![a].at = AfterBalance(Asked(a).kind),
                              ![a].desired = Desired(Asked(a), PoolRemaining(admin[a].plan)),
                              ![a].plan = NoDocument]
    /\ UNCHANGED <<vars, body, audit, stamp, log>>

(***************************************************************************)
(* grant                                                                   *)
(***************************************************************************)
(* start_mode "now": the running window is closed, whatever it is.         *)
CutWindow(a) ==
    LET cut == [sub EXCEPT !.end = admin[a].began - 1]
        next == [admin[a] EXCEPT !.at = "upsertRead", !.desired = GrantQuote.credits]
    IN  /\ Doing(a, "cut")
        /\ IF sub.exists
           THEN /\ sub' = cut
                /\ Writes(a, next)
           ELSE /\ admin' = [admin EXCEPT ![a] = next]
                /\ UNCHANGED <<sub, stamp>>
        /\ UNCHANGED <<now, usage, welcome, lot, task, faults, book, body, audit, log>>

UpsertRead(a) ==
    /\ Doing(a, "upsertRead")
    /\ admin' = [admin EXCEPT ![a] = [@ EXCEPT !.at = "upsertWrite", !.plan = sub]]
    /\ UNCHANGED <<vars, body, audit, stamp, log>>

(* upsert_subscription without a grant key: the document is replaced by    *)
(* one computed from the earlier read; the keys in it stay.                *)
Granted(read, t) ==
    LET start == Larger(t, read.end)
    IN  [exists |-> TRUE, tier |-> GrantQuote.tier, period |-> GrantQuote.period, start |-> start,
         end |-> start + GrantQuote.days, total |-> GrantQuote.credits,
         remaining |-> CarriedCredits(read, t) + GrantQuote.credits, grants |-> sub.grants]

UpsertWrite(a) ==
    LET granted == Granted(admin[a].plan, admin[a].began)
    IN  /\ Doing(a, "upsertWrite")
        /\ sub' = granted
        /\ Writes(a, [admin[a] EXCEPT !.at = "reconcileRead", !.plan = NoDocument])
        /\ Leaves(granted, GrantQuote.credits, 0)
        /\ UNCHANGED <<now, usage, welcome, lot, task, faults, book, body, audit>>

(***************************************************************************)
(* extend and revoke                                                       *)
(***************************************************************************)
ExtendWrite(a) ==
    LET r == admin[a]
        asked == Asked(a)
        next == IF asked.preserves
                THEN [r EXCEPT !.at = "reconcileRead", !.until = 0]
                ELSE Over(a, "succeed")
    IN  /\ Doing(a, "extendWrite")
        /\ IF r.stamp = stamp
           THEN /\ sub' = [sub EXCEPT !.end = r.until]
                /\ Writes(a, next)
           ELSE Fails(a) /\ UNCHANGED <<sub, stamp>>
        /\ UNCHANGED <<now, usage, welcome, lot, task, faults, book, body, audit, log>>

Revoked(r, zeroes) ==
    [sub EXCEPT !.end = r.began - 1, !.remaining = IF zeroes THEN 0 ELSE @,
                !.total = IF zeroes THEN 0 ELSE @]

RevokeWrite(a) ==
    LET zeroes == Asked(a).zeroes
        revoked == Revoked(admin[a], zeroes)
    IN  /\ Doing(a, "revokeWrite")
        /\ sub' = revoked
        /\ IF zeroes THEN Leaves(revoked, 0, 0) ELSE UNCHANGED log
        /\ Writes(a, Over(a, "succeed"))
        /\ UNCHANGED <<now, usage, welcome, lot, task, faults, book, body, audit>>

(***************************************************************************)
(* reconcile_pool_entitlement and _verify_effective_balance                *)
(***************************************************************************)
(* No document ever disappears, so the 404 here is never answered.         *)
ReconcileRead(a) ==
    /\ Doing(a, "reconcileRead")
    /\ admin' = [admin EXCEPT ![a].at = "reconcileUsage", ![a].plan = sub]
    /\ UNCHANGED <<vars, body, audit, stamp, log>>

ReconcileUsage(a) ==
    /\ Doing(a, "reconcileUsage")
    /\ admin' = [admin EXCEPT ![a].at = "reconcileWrite", ![a].used = UsedInPeriod(admin[a].plan),
                              ![a].plan = NoDocument]
    /\ UNCHANGED <<vars, body, audit, stamp, log>>

(* Mutant: the balance is put on top of the old ceiling, not of the usage. *)
ReconciledOnTop(r) == [sub EXCEPT !.total = @ + r.desired, !.remaining = r.desired]

(* Mutant: the ceiling leaves out what has been used.                      *)
ReconciledBare(r) == [sub EXCEPT !.total = r.desired, !.remaining = r.desired]

Reconciled(r) == [sub EXCEPT !.total = r.used + r.desired, !.remaining = r.desired]

(* Mutant: the adjustment does not insist on the plan it has read.         *)
NothingNewer(a) == TRUE

(* Only the first write of an adjustment is guarded by the lock.           *)
LockHolds(a) ==
    \/ admin[a].stamp = stamp
    \/ admin[a].retried
    \/ ~Locks(Asked(a).kind)
    \/ Asked(a).kind = "extend"

ReconcileWrite(a) ==
    LET r == admin[a]
    IN  /\ Doing(a, "reconcileWrite")
        /\ IF LockHolds(a)
           THEN /\ sub' = Reconciled(r)
                /\ Leaves(sub, r.desired, r.used)
                /\ Writes(a, [r EXCEPT !.at = "verifyRead", !.used = 0])
           ELSE Fails(a) /\ UNCHANGED <<sub, stamp, log>>
        /\ UNCHANGED <<now, usage, welcome, lot, task, faults, book, body, audit>>

VerifyRead(a) ==
    /\ Doing(a, "verifyRead")
    /\ admin' = [admin EXCEPT ![a] = [@ EXCEPT !.at = "verifyUsage", !.plan = sub]]
    /\ UNCHANGED <<vars, body, audit, stamp, log>>

(* The second attempt does not hold the lock.                              *)
VerifyUsage(a) ==
    LET r == admin[a]
        exact == PoolRemaining(r.plan) = r.desired
    IN  /\ Doing(a, "verifyUsage")
        /\ admin' = [admin EXCEPT ![a] =
                IF exact THEN Over(a, "succeed")
                ELSE IF r.retried THEN Over(a, "fail")
                ELSE [r EXCEPT !.at = "reconcileRead", !.plan = NoDocument, !.retried = TRUE]]
        /\ UNCHANGED <<vars, body, audit, stamp, log>>

(***************************************************************************)
(* Failures.  What raises inside the handler is recorded as an error; what *)
(* raises outside of it, and a process that stops, leaves the entry open.  *)
(***************************************************************************)
HandlerRaises(a) ==
    /\ admin[a].at \in AdminSteps \ {"succeed", "fail"}
    /\ Fails(a)

Abandoned(a) == admin[a].at \in AdminSteps /\ admin' = [admin EXCEPT ![a] = NoAction]

AdminFault(a) ==
    /\ faults < MaxFaults
    /\ faults' = faults + 1
    /\ HandlerRaises(a) \/ Abandoned(a)
    /\ UNCHANGED <<now, sub, usage, welcome, lot, task, book, body, audit, stamp, log>>

AdminStep(a) ==
    \/ \E i \in Ids : Claim(a, i)
    \/ ReadPlan(a) \/ ReadForBalance(a) \/ ReadBalance(a) \/ CutWindow(a) \/ UpsertRead(a)
    \/ UpsertWrite(a) \/ ExtendWrite(a) \/ RevokeWrite(a) \/ ReconcileRead(a) \/ ReconcileUsage(a)
    \/ ReconcileWrite(a) \/ VerifyRead(a) \/ VerifyUsage(a) \/ Close(a) \/ AdminFault(a)

(***************************************************************************)
(* The customer.                                                           *)
(***************************************************************************)
(* A purchase and the two syncs of a balance bump updated_at_ms.           *)
Meanwhile(writes, cost) ==
    /\ stamp' = IF writes THEN "other" ELSE stamp
    /\ admin' = [a \in Admins |->
                     IF writes \/ usage' # usage THEN Disturbed(admin[a], writes, cost) ELSE admin[a]]

(* A charge of the quota is no expense of the pool, even where it counts.  *)
Spent(t) ==
    CASE usage' # usage /\ At(t, "poolIncrement") -> task[t].cost
      [] usage' # usage /\ At(t, "refundUsage") -> -task[t].cost
      [] OTHER -> 0

ChatStep(t) ==
    /\ RequestStep(t)
    /\ Meanwhile(task[t].at \in {"poolSync", "refundSync"} /\ faults' = faults, task[t].cost)
    /\ log' = [log EXCEPT !.spent = @ + Spent(t)]
    /\ UNCHANGED <<body, audit>>

Purchase(k) ==
    /\ BuyPlan(k)
    /\ Meanwhile(TRUE, 0)
    /\ Leaves(sub', sub'.total, 0)
    /\ UNCHANGED <<body, audit>>

Passes == Tick /\ UNCHANGED <<body, audit, admin, stamp, log>>

AdminNext ==
    \/ Passes
    \/ \E k \in Purchases : Purchase(k)
    \/ \E t \in Tasks : ChatStep(t)
    \/ \E a \in Admins : AdminStep(a)

AdminSpec == AdminInit /\ [][AdminNext]_adminVars

(***************************************************************************)
(* Properties                                                              *)
(***************************************************************************)
(* Every variable of the ledger and of the administration has its type.    *)
AdminTypeOK ==
    /\ TypeOK
    /\ body \in [Ids -> Actions]
    /\ audit \in [Ids -> Results]
    /\ admin \in [Admins -> AdminRecords]
    /\ stamp \in Ids \cup {"other"}
    /\ log \in Log

(* A request id acts once, whatever became of the first request with it:   *)
(* "a replayed request id is rejected rather than applied twice" (execute).*)
HandledOnce == \A i \in Ids : log.handled[i] <= 1

(* "The effective balance lands exactly where the operator asked" (module  *)
(* docstring): an action nobody interferes with never has to correct its   *)
(* own write, so neither branch of the computed balance hides the other.   *)
(* Refunds made on another day than their charges can leave the ledger of  *)
(* the window below zero: there alone the two branches cannot agree.       *)
FirstWriteIsExact ==
    \A a \in Admins : admin[a].retried /\ admin[a].alone => UsedInPeriod(sub) < 0

(* Whatever administrators and requests write over each other, nobody is   *)
(* offered more than the last purchase or action meant to leave, less what *)
(* was charged since.  Excepted is a plan that was to start later: until   *)
(* then charges may go uncounted (see early_renewal).                      *)
NeverOverGranted ==
    (ActiveAt(sub, now) /\ ~log.adrift) =>
        PoolRemaining(sub) <= AtLeastZero(log.left - log.spent)

Corrects(a) == Doing(a, "reconcileWrite") /\ Asked(a).kind = "delta" /\ ~admin[a].retried

(* The lock takes a document for unchanged that was written: by a further  *)
(* write of the very action that had written it when a read it.            *)
Overtaken(a) == admin[a].stamp = stamp /\ ~admin[a].current

(* A correction by so many credits is a correction of the balance the user *)
(* has at that moment, not of one read earlier: purchases, finished        *)
(* charges and other actions in between are kept, give or take charges and *)
(* refunds that have not reached the document.  Where refunds have left    *)
(* the ledger of the window below zero, that much may be lost.  Excepted   *)
(* is the correction of a plan that another action has not finished        *)
(* writing, which the lock does not see.                                   *)
DeltaIsRelative ==
    [][\A a \in Admins :
          Corrects(a) /\ Doing(a, "verifyRead")' /\ ~Overtaken(a) =>
              LET fair == PoolRemaining(sub) + Asked(a).credits
                  least == fair - admin[a].moved - AtLeastZero(-admin[a].used)
              IN  PoolRemaining(sub)' \in AtLeastZero(least) .. AtLeastZero(fair) + admin[a].moved
      ]_adminVars
=============================================================================
