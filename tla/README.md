# A TLA+ model of wakil-ai/rest-fast-api

The program is the backend of a legal assistant: a FastAPI service over
MongoDB that sells plans and daily passes, charges credits per question, and
hands questions and files to an inference service. Several worker processes
serve requests, every handler is a coroutine, and no handler holds a lock or a
multi-document transaction. Its correctness therefore rests on single-document
updates and on the order in which a handler makes them. That is what is
modelled here: **one step per database call**, with everything another request
can do in between, lost calls and crashes included.

Contents: [system](#1-the-system) · [modules](#2-the-modules) ·
[runs](#3-what-the-runs-check) · [proofs](#4-what-is-proved) ·
[limits](#5-what-is-only-model-checked-and-what-is-left-out) · [plan](#6-plan)

## 1. The system

| component | state | operations | what is hard |
|---|---|---|---|
| payment finalization (`services/payments/base.py`) | `invoices`: status, `subscription_applied`, frozen quote | `init_payment`, `validate_subscription_eligibility`, `_finalize_subscription_invoice` | callbacks of one order in parallel, crash between grant and mark |
| Payme (`payme.py`) | `transactions` with Payme states | CheckPerform, Create, Perform, Cancel, Check | stale unconditional writes, lazy expiry, provider retries |
| Click (`click.py`) | click transactions | Prepare, Complete | a retry that only says ALREADY_PAID |
| Uzum (`uzum.py`) | uzum transactions | check, create, confirm, reverse, status | swallowed failure of finalization |
| subscription storage (`subscription_storage.py`) | `subscriptions` (one document per user), `daily_subscriptions` (one per lot) | web grants, store upserts, lot charges, admin edits | concurrent first purchases, carried credits |
| credit accounting (`rate_limit_service.py`) | `creditusage` per user and day, welcome counters of the user | `check_and_decrement_credits`, `refund_credits`, status | check before increment, derived balances, midnight, swallowed exceptions |
| App Store / Google Play (`appstore.py`, `playstore.py`) | claims by transaction or order id | verify, notifications | crash between claim and grant |
| chat (`chat_service.py`, `utils/streaming.py`, `llm_service_client.py`) | messages, stream queue | stream, stop, persist | cancellation at every await, refund exactly once |
| files (`file_management.py`) | file records, the project's count, processing jobs, pollers of each process | upload, poll, resume, resubmit, delete | several pollers of one job, deletion and resubmission meanwhile, crashes |
| projects and invites (`project_service.py`, `project_member_service.py`) | projects, members, invites | invite, accept, revoke, remove | single-use links without a transaction |
| administration (`admin_subscription_service.py`, `admin_audit_service.py`) | audit entries, the same subscription | claim, grant, extend, adjust, revoke, reconcile | crash after claim, optimistic lock against payments and charges |
| accounts (`account_archive_service.py`, `chat_history_service.py`, `security/dependencies.py`) | users, chats, messages, share links, status cached in Redis | sign up, block, guard, delete, share | inserts behind the sweep, stale cache, repeated deletion |
| promo codes, referrals, one-time codes | codes, assignments, Redis counters | assign, apply, count | double assignment |
| reporting (`meta_capi_service.py`, `bitrix24_service.py`) | none | fire and forget | none modelled |

How they meet: a provider callback writes its transaction, then the invoice,
then calls finalization, which writes the subscription or a lot. The chat
handler charges credits before it calls the inference service and refunds when
nothing was generated; charging reads the same subscription and lots that
payments write, and the administration corrects it. A file record is written by
whoever polls its job: the process that uploaded it, one that found it in a listing,
or a chat request that waits for it. Nothing is called back, so the database
documents are the only shared state.

What makes each part correct: a purchase is granted once, only when paid for,
and never forgotten once the provider has been answered; a grant takes nothing
away that an earlier one paid for; a charge falls on one bucket and a refund
reverses it; a balance never exceeds what was bought; a file is reported as what
its job came to, and counted once; a link admits those it was meant for; what was
deleted stays deleted.

## 2. The modules

### Checkout

* **SubscriptionDocument** has no state: the document of `subscriptions` and the
  writes that turn one into another (`Seeded`, `WebGrant`), translated from the
  aggregation pipeline of `_apply_web_payment_grant`. Checkout, credits, stores and
  administration use it.
  The test tier of `PoolTiers` exists only in DEBUG builds and is left out.
* **Finalization** holds the state of checkout: `invoice`, `tx`, `sub`,
  `lotEnd` (the lot of a daily-pass order, 0 when there is none), `call` (the
  tasks, with the step each is at and what it has read), and histories that no
  action reads (`charged`, `answered`, `grantCount`). Its actions are
  `InitPayment` and the calls of `_finalize_subscription_invoice`: `ReadInvoice`,
  `FindLot`, `InsertLot`, `SeedDocument`, `ApplyGrant`, `MarkApplied`; and the
  environment, `Tick` and `Lost` (a task dies or its call raises and the handler
  gives up).
* **Payme**, **Click**, **Uzum** model the handlers of one provider each, one
  action per database call. A handler that ends in finalization moves its task to
  `readInvoice`; where a handler catches what finalization raises
  (`ClickFinalizeRaises`, `UzumFinalizeRaises`) the action says what it answers
  then. Signatures, amounts and authorisation only refuse requests and change
  nothing: requests that fail them are not enumerated.
* **WebCheckout** composes them (`Next`, `Spec`, `LiveSpec`), states the
  properties and the inductive invariant `IInv`.
* **CheckoutAccounts** adds the accounting property `PlanIsPaidFor`.
* **PaidOrders** is the abstract specification: a set of orders is paid, a subset
  of it granted, a subset of that settled. Checkout implements it with paid as the
  orders charged, granted as the orders whose purchase is stored, and settled as
  the invoices marked applied.

A user's record is never removed (archiving only flags it), so lookups of the
user succeed. The legacy record a user may have from before the `subscriptions`
collection is the constant `Legacy`; `Unversioned` orders are those whose invoice
has no `full_price_upgrade` terms.

### Credits

* **CreditBuckets** holds one user's account (accounts share nothing): the
  subscription document, `usage` by date, the welcome counters, the lots, and
  `task`, the requests in progress. The record `book` is a history.
  A day has `DayLength` units of the clock.
* **PoolCredits**: `_get_active_pool_subscription`, `_consume_pool_credits` and
  the refund of a pool charge. `PoolRemaining(doc)` is the derived balance: the
  document is the one the request read, the usage documents are current.
* **PassCredits**: the lot-by-lot charge, its rollback, and the refund.
* **FreeCredits**: promo status, welcome pool (one conditional update and a
  second write that marks it exhausted) and daily quota.
* **Sums** writes the sum of a function over a finite set once, for these modules and
  for the accounts of checkout; **SumsProofs** holds the facts about it.
* **CreditLedger** composes them, adds what each part makes of an exception
  (`Raises`: swallowed as "no pool", as "no pass", by the sync, or fail-open),
  crashes, and the properties.

Values that a request never reads again are dropped from `task`, which keeps the
state space small and changes nothing.

### Stores

* **StoreGrants** holds the documents of `subscriptions` again (with their
  `provider`, called `seller`), the claims of `appstore_transactions` and
  `playstore_transactions`, the tasks, and histories: `written` and `lost` (writes for a
  transaction, and those whose answer was lost) and `due` (credits given to a user and not
  spent). `Legacy` is the plan embedded in a user's document, which a read falls back to. One action per database call of
  `_grant_from_payload` and `_grant_from_purchase`, which differ only in that Play
  purchases are acknowledged afterwards, and one per call of
  `upsert_subscription` for these sellers: the read, the conditional upgrade, the
  unconditional replacement.
* **StoreSales** composes them with what else writes the document: a web payment
  (one write here; Finalization has its steps) and a chat charge (`Spend`).
* **MCStoreSales** has two scenes: one customer who also chats, or a device with two users.

Every transaction has an expiry date. A call of the storage may raise before it has written
(`GrantRaises`), or the write is applied and its answer is lost (`GrantIsNotHeardOf`): the
handler cannot tell, and gives its claim back in both cases. A raise of the write that marks
a claim is the same as `Crash`.

### Chat

* **ChatTurn** is one question: the handler (charge, look up session and project,
  answer directly or start a stream), the producer task that runs
  `astream_orchestrated_chat`, the queue it fills, and the refund. A step ends where
  the code awaits. `Cancel` says what a cancellation does at each await.
* **ChatStream** adds the response that reads the queue, the client who stops it,
  and an inference service that may hang.

Questions share nothing but the credits, so one is enough; what a charge or a refund
does to the credits is the Credits model's business, here it is a counter. Text is
`"word"`, or `"blank"` for an empty chunk or progress text. A stop reaches a started producer only:
the response starts it before it first awaits. Keepalives tell the client nothing
and are left out.

### Projects

* **FileRecords** holds the records of uploaded files, `docs` (the count in the
  project document), the jobs of the inference service, `watch` (who polls which job)
  and the requests. `IsCurrent` is the filter of `update_file_processing_fields`:
  only the job a record names may settle it, once.
* **FilePolling**: the background task of a process, or a chat request that waits for
  a file, polls a job, writes its outcome and counts it; a listing resumes the polling
  of unfinished files; a process that stops takes its table of pollers with it. A job
  that failed, was skipped, is unknown or has timed out is `GivesUp`: the code
  writes the same record for all of these. Queued and started jobs are `"active"`.
* **FileUploads**: upload with deduplication by hash (an upload to a chat looks in
  every scope, each upload only among the uploader's own records: `Holding`), submission, the write of the job id, resubmission, deletion.
* **ProjectFiles** composes them.
* **Members**: one project, its members and invite links; `accept_invite` reads the
  link, the project and the membership, inserts the member, and then marks the link.
* **MCProjects** joins both into one state: a behaviour works on files or on members
  (`focus`), which share nothing; where it works on files, either one member uploads, with
  deletions and faults, or two members do, without.

A poller is keyed by the process, or the waiting request, and the job.
The `files` list of a project, settings and `used_as_ai_reference` are left out.

### Accounts

* **AccountRecords** holds one user, the user's chats, messages and share links, the
  status cached in Redis, and the requests.
* **SignIn**: `create_or_get_user` and the callbacks of Google and Telegram (which are
  not guarded), advertising ids, blocking, and the guard with its cache.
* **Conversations**: creating a chat, storing and sharing a message, following a link,
  deleting a chat. `upsert_message` behaves as `add_message` does.
* **Accounts** adds the deletion of an account and the listing of messages, which does
  not ask for the chat. Two of the swept collections stand for all of them; the user is
  swept last.

`Mixes` says which kinds of requests are served in one behaviour: all of those of the
user, and all of those of the chats next to deletion.

### Administration

* **Administration** extends **CreditLedger**: operators grant, extend, adjust and revoke
  the plan that the requests of the ledger charge. An action is claimed in the audit log,
  reads, writes, reconciles and verifies (`_verify_effective_balance`) with one step per
  call. What the first read refuses is `Refused`, where the action goes otherwise is
  `Begins`. The optimistic lock, `updated_at_ms`, is the time at which the handler of the last
  writer began, the same for all writes of one action. It is modelled as `stamp`, which names
  that writer: `LockHolds` compares it with the one an action has read first, and so does
  not see that the same writer has written again. Two handlers are taken to begin in
  different milliseconds, every document to have the field (without it the code does not lock
  at all), and the account to have no legacy record. `current` (nothing has written the
  document since the action first read it), `alone`, `moved` and the log are histories: `moved` adds up what requests have
  charged or given back while the action was `current`; `left` is the balance that the last
  purchase or action meant to leave (`Leaves`), `spent` what the pool was charged since, less
  refunds; `adrift` marks a plan that was to start later than it was written.

## 3. What the runs check

One clock unit of checkout is a day and a "month" is two of them. All runs allow
deadlock: orders, purchases and time are bounded, so a behaviour may end.

| run | instance | checks | states |
|---|---|---|---|
| `checkout_race` | Click and Uzum order, 2 tasks, 1 fault, times 0..2, legacy plan | `IInv`, `AppliedIsGranted`, `PlanIsPaidFor`, `PaidBalanceSurvives`, `ImplementsPaidOrders` | 756 k |
| `payme` | one pass order, 2 Payme transactions, 2 tasks, 1 fault, fair | `GrantedOnceIfCharged`, `PaymeAnswerIsGranted`, `PaidIsSettled` | 457 k |
| `uzum_answer` | Uzum, 1 fault | `UzumAnswerIsGranted`: **violated** | |
| `credits` | 2 requests of cost 2; a plan of 4, lots of 1 and 2, or welcome credits and quota; midnight, 1 fault | `LotsConserved`, `ChargedToOneBucket`, `WelcomeNeverOverdrawn`, `NeverOverCredited`, `OverspendIsBounded` | 771 k |
| `pool_refund` | 1 request, no fault | `RefundReversesCharge`: **violated** | |
| `early_renewal` | 1 request, two plans, no fault | `NeverOverCredited`: **violated** | |
| `store_sales` | Standard in the App Store, Pro on Play, a web payment, a legacy plan, 2 tasks, 1 fault, times 0..1; 1 user who spends, or 2 who do not | `TypeOK`, `StoreGrantedOnce`, `OpenClaimIsHeld`, `BalanceIsBacked` | 1.4 M |
| `chat_stream` | one question, 4 events, fair producer | `TypeOK`, `RefundIsDue`, `StopIsRefunded`, `HistoryAgrees`, `StopSettles` | 241 k |
| `early_stop` | one question | `EarlyStopIsRefunded`: **violated** | |
| `projects` | 2 requests, 1 process, 1 content, 3 file ids, 2 jobs, and 1 uploader, 1 deleted file, 1 fault, or 2 uploaders without; or 4 invitees, 2 requests, 1 link, 1 lost | `ProjectTypeOK`, `RecordSpeaksOfItsJob`, `CountedOnce`, `OneRecordPerContent`, `VerdictStands`, `InviteOveruseIsBounded`, `AcceptorStands` | 1.2 M |
| `accounts` | 2 requests, 1 chat, 1 message, 3 links, 1 fault, fair | `AccountsOK`, `ArchiveIsWhole`, `NothingIsRevived`, `AdIdsStayGone`, `LinksAreBounded`, `RefusalSettles` | 577 k |
| `administration` | 2 operators, or 1 and a request of cost 2; 2 request ids, 10 kinds of action, 1 purchase, a daily quota of 2, times 0..2, 1 fault | `AdminTypeOK`, `HandledOnce`, `FirstWriteIsExact`, `NeverOverGranted`, `DeltaIsRelative` | 1.3 M |

**Why the bounds are enough.** Every check-then-write race of the code is between
two tasks, each holding one earlier read; two tasks and two transactions per order
show it, a third adds only repetitions of the same steps. The time bound lets a
plan or a lot be bought, run and expire. One fault reaches every handler of
an exception. In `credits` a behaviour has a plan, lots or neither (`scene`): the
buckets are tried one after the other, and each scene reaches the quota behind its
bucket. Two lots mean that a charge needs both, so a charge can fail after a lot was
taken; a rollback of more than one lot is not reached. `WelcomeLimit` equals one
charge, so that the second write (`MarkExhausted`) happens. In `projects` one process
suffices for rival pollers, since a chat request that waits polls beside it; three file
ids let a content be uploaded twice at a time and once more after one of the two is
deleted (`MaxDeleted`), and two members each upload it in turn; four invitees are one more than the bound the property allows,
so that it could be exceeded. In `accounts`
three links let two requests draw one each and a third follow. In `administration` two
operators meet each other or one of them a chat request; the two together are out of
reach. In `store_sales` a second user matters only to the claims, and spending only to the
balance of one plan, so no behaviour has both. The quota equals one charge, so that a charge of the quota can be counted in the
window of a plan, and its refund too. Requests are alike, which makes the symmetry sets
sound; liveness is checked without symmetry.

**Fairness.** In `payme` (`LiveSpec`) a task that is running makes its
next call (weak fairness of its progress): the event loop does not forget a
coroutine. Payme repeats PerformTransaction until it has an answer, which is its
protocol and what the code's comments on idempotent retries rely on (strong
fairness of the request: all tasks may be busy now and then). Nothing is assumed of
faults, cancellations or time. In `chat_stream` only the producer's own steps are fair;
the inference service may never send anything, and the call that stops it ends after
three seconds because the code limits it. In `accounts` a request that is not lost goes on,
and a key of Redis that has a time to live expires.

**Findings.**

1. `uzum_answer`: `/confirm` marks the transaction CONFIRMED, catches any exception
   of finalization (`uzum.py:370-377`) and answers CONFIRMED. A further `/confirm` would
   finalize the transaction (`uzum.py:323-335`, modelled by `UzumConfirm`), but Uzum repeats
   the call only on 5xx or a timeout, and this answer was a success. The customer has paid,
   nothing is granted, and nobody is told to ask again. `docs/uzum-integration.md:88` promises
   that the first successful confirmation grants.
2. `pool_refund`: a charge lowers `credits_remaining`; the refund lowers
   `creditusage` but then takes the higher of the two usages, which is the old
   one, and writes it back. The credits do not come back at once (the next
   charges of the same size are free instead, if there are any).
3. `early_renewal`: a plan granted while another runs (two invoices opened side by
   side; eligibility is only checked when they are issued) starts at the end of the
   first. Until then its usage window is in the future and charges are not counted:
   the subscriber can spend without limit, and then the carried credits are gone.
4. `early_stop`: `answer_chunks` is bound after the context of the question has been
   collected (`chat_service.py:615`, `629`). A stop before that makes the handler of the
   cancellation raise `UnboundLocalError`: the user who stopped earliest is not refunded.
   A stop during the refund of a failed or empty answer refunds twice
   (`RefundIsDue` allows exactly that case).

Seen while modelling, without a run of its own:

* "Each invite is single-use" (`docs/api-reference.md:166`,
  `docs/database-architecture.md:391`): requests that use a link at the same time all
  join, since the member is inserted before the link is marked. `InviteOveruseIsBounded`
  says how many, and is proved.
* "So both branches of that `max()` agree and the effective balance lands exactly where
  the operator asked" (`admin_subscription_service.py:13-15`) has an exception, which the
  proof of `FirstWriteIsExact` brought up and TLC confirms with two chat requests. A
  refund goes to today's usage document, whatever day the charge was made on: refunds
  can leave the usage of a plan's window below zero. `reconcile_pool_entitlement` then
  writes a ceiling below the balance, the two branches differ, and the first write offers
  less than was asked. The property excuses that case by name.
* "Grant (once)" (`appstore.py:279`, `playstore.py:231`): the claim is given back on any exception of the write
  (`appstore.py:398-404`, `playstore.py:345-349`), also when the write was applied and only its
  answer did not come. The retry writes again, and a renewal or an upgrade then gives its
  credits twice. `StoreGrantedOnce` allows one more write for each answer that was lost.
* "either no subscription exists or another writer moved it first"
  (`admin_set_pool_fields`): an adjustment that first reads between the grant of another
  operator and the reconciliation of that grant passes the lock and overwrites it: 4 left,
  a grant of 4, an adjustment by +2, and 6 are left instead of 10, without a 409.
  `DeltaIsRelative` excepts this case as `Overtaken`.
* A message of a deleted chat can still be listed (`ListMessages`), although
  `chat_history_service.py:698-700` claims that every read asks for the chat.
* The number of documents of a project is not exact: a crash between the
  completion of a record and its count loses one, the deletion of a file that was
  never counted takes one off, and the cap is compared with that number.
* A correction of a balance that has to be repeated is written without the lock
  (hazard at `admin_subscription_service.py:187`).

## 4. What is proved

Eight modules of proofs, checked by TLAPS: one per component, and one about sums. The
theorems hold for any values of the constants that satisfy the assumptions named in the
modules, so for any number of users, requests, orders, lots, files, jobs or links, of
faults and of time, where the runs have two or three of each. All components follow one
plan. The property is not inductive: whether a write is right depends on what the request
that makes it has read earlier, and on what others did since. The inductive invariant
(`IInv`, or the one named below) therefore says for each request, at each of its steps,
what it knows and what nobody can have undone. One lemma per action (or group of alike
actions) shows that it is preserved, with one step per conjunct the action disturbs; what
the action leaves alone goes through lemmas of its own. `TLC` has checked each of these
invariants before it was proved.

`WebCheckoutProofs`, on `WebCheckout`: `GrantedOnceIfCharged` is not inductive. Whether a
grant is the first one depends on what the task about to write has read, on the
transaction it belongs to and on the order's history. `IInv` says so: `CallOK` (a task at
a step behind a recorded payment belongs to a charged order whose invoice exists, ...),
`TxOK` (a transaction that is paid belongs to a charged order, an answered one is
granted) and `OrderOK` (the number of grants of an order is one exactly if its
purchase is stored). What a sleeping task knows must survive what others do: `Forward`
lists what no step takes back, and `CallOK` and `TxOK` are shown to be stable under it,
so each action only has to be checked for the task that takes it.

| theorem | statement |
|---|---|
| `Consistent` | `Spec => []IInv` |
| `GrantIsDue` | `Spec => []GrantedOnceIfCharged` |
| `ClosedInvoiceIsGranted` | `Spec => []AppliedIsGranted` |
| `PaymeAnswerIsSafe` | `Spec => []PaymeAnswerIsGranted` |
| `NothingIsForgotten` | `Spec => [][Forward]_vars` |
| `PurchasesAddUp` | `Spec => PaidBalanceSurvives` |
| `CheckoutIsALedger` | `Spec => ImplementsPaidOrders` (refinement) |
| `PlansArePaidFor` | `Spec => []PlanIsPaidFor` |

The last one adds sums to the invariant: a grant changes the set of purchases by one
order, and the document by no more than that order's quote, since the step before it has
shown that the order was not granted yet. A seeded document holds at most the legacy one.

`ChatStreamProofs` does the same for `ChatStream`: the runs bound the events of the
inference service by 4, the theorems hold for streams of any length. What was given
back cannot be judged from the refund alone, so `IInv` ties the step of the producer
to everything else: what the lists hold has been sent (`TextOK`), a refund is under
way only for an answer worth nothing and only a stop makes a second one
(`RefundOK`), storing comes after a complete answer (`StoreOK`), a producer without a
reader is on its way to a refund or to its end (`StopOK`), and the end event is put
into the queue last (`EndOK`). One lemma per group of actions, with one case per
action and one step per conjunct; lemmas about the queue say what appending to it
and reading from it preserves.

| theorem | statement |
|---|---|
| `Consistent` | `Spec => []IInv` |
| `Typed` | `Spec => []TypeOK` |
| `RefundsAreDue` | `Spec => []RefundIsDue` |
| `StopRefunds` | `Spec => []StopIsRefunded` |
| `EndAndHistoryAgree` | `Spec => []HistoryAgrees` |

`AccountsProofs`, on `Accounts`: a deletion owes what existed when deletion was first asked
for, and each of its steps what it has swept so far (`RequestOK`, by kind and by step).
Archiving is never taken back (`Forward`), so an earlier deletion that crashed, and any
other request that is served meanwhile, leaves a later one nothing to undo; a message
stored behind the sweep did not exist then and is owed by nobody.

| theorem | statement |
|---|---|
| `Consistent` | `Spec => []IInv` |
| `AccountsAreConsistent` | `Spec => []AccountsOK` |
| `DeletionIsWhole` | `Spec => []ArchiveIsWhole` |
| `DeletionIsFinal` | `Spec => NothingIsRevived` |
| `AdIdsAreGone` | `Spec => AdIdsStayGone` |
| `LinksAreFew` | `Spec => []LinksAreBounded` |

`LinksAreFew` needs a count: the links handed out for a message, together with those that
requests are about to hand out, are no more than the requests (`LinksInv`), because a
request that comes after the first link was stored finds it.

`ProjectFilesProofs`, on `ProjectFiles`: the fence of a record names its job, so all turns on
what may be watched. A job is watched only once its id was saved in a record of its own
file (`WatchOK`, `JobOK`), at most one poller is between the completion of a record and
its count, and then the job is no longer current and never will be again; the request
that saves a job id is the only one to hold it; a deletion that still has to be counted
is the one that removed the record (`CallOK`, `FileOK`).

| theorem | statement |
|---|---|
| `Consistent` | `Spec => []IInv` |
| `TypesHold` | `Spec => []TypeOK` |
| `RecordsAreHonest` | `Spec => []RecordSpeaksOfItsJob` |
| `CountsAreSingle` | `Spec => []CountedOnce` |
| `VerdictsStand` | `Spec => VerdictStands` |
| `ContentsAreFew` | `Spec => []OneRecordPerContent` |

`ContentsAreFew` counts too, per content and member, since a member's upload does not find
what another has uploaded: while the content has a record of the member, those requests of
that member which have looked before it was there and are about to insert another are among
the requests that run, and nobody joins them.

`MembersProofs`, on `Members`: while a link is pending, those who joined through it are
requests about to mark it, or were lost; the request that is to insert a link is
the only one to know of it. Once the link is marked or revoked, those who joined and
those who still may are bounded by the requests that run, plus the lost ones. The two
bounds are inequalities between cardinalities of sets that each step changes by at most
one element. A step of the joined project (`MCProjects`) is a step of its files or of its
members, so a behaviour of it is one of each (`ProjectHasItsParts`), and what is proved of
either holds in `projects` too.

| theorem | statement |
|---|---|
| `MembersStayConsistent` | `MembersSpec => []MembersInv` |
| `MembersAreConsistent` | `MembersSpec => []MembersOK` |
| `InviteOveruseBounded` | `MembersSpec => []InviteOveruseIsBounded` |
| `AcceptorsStand` | `MembersSpec => AcceptorStands` |
| `ProjectTyped` | `ProjectSpec => []ProjectTypeOK` |

`StoreSalesProofs`, on `StoreSales`: whether a subscription was written before depends on
who holds the claim of the transaction. `HoldersAreAlone` says that at most one request is
between its claim and its mark; `CallOK` that a holder finds its claim open and has
written nothing that it has heard of until it is about to mark it; `TxOK` that the writes for
an unclaimed transaction are exactly those whose answers were lost, so each claim that is
given back makes room for one write and no more. A claim that a crash left open is excused by
name (`crashed`). `BalancesAreBacked` follows, through all writers of the plan, what a request
that will replace the plan has read: the balance it carries is covered by what the user is
due and what was taken off since (`missed`).

| theorem | statement |
|---|---|
| `Consistent` | `Spec => []IInv` |
| `Typed` | `Spec => []TypeOK` |
| `GrantedOnce` | `Spec => []StoreGrantedOnce` |
| `ClaimsAreHeld` | `Spec => []OpenClaimIsHeld` |
| `BalancesAreBacked` | `Spec => []BalanceIsBacked` |

`SumsProofs`, on `Sums`: the sum is the library's fold, a recursive function on the subsets
of a set, and induction over sets is not available to the provers. A smallest
counterexample is: strict inclusion of finite sets is well-founded, so a subset for which
a claim fails has one that is smallest, and without one of its elements the claim holds.
With it, the fold is shown to agree with any table of sums (`SumFromTable`), and from then
on six facts suffice: an element can be set apart (`SumSplit`), a change of one value
changes the sum by as much (`SumChanges`), sums add up (`SumAdds`), and the sum is monotonic, covers each
of its naturals and is bounded (`SumMonotonic`, `SumCovers`, `SumIsBounded`).

`CreditProofs`, on `CreditLedger` and `Administration`: `LedgerInv` says what a request has
taken from the lots by the step it is at (`TaskOK`), keeps an account of every lot (what
is left, what requests hold, what finished ones took) and one of the welcome pool: it
covers every charge that may still be given back, the one between its two writes included,
which `WelcomeNeverOverdrawn` does not count. Each step of a request is first reduced to what it
does to the request's record, the lots and the welcome pool (`Moves`); the sums over all
requests then change in one place. `AdminInv` adds what an action of an operator knows: as
long as it is `alone`, the usage it has read is that of the plan it is about to write, and
the ceiling it has written agrees with the balance. `Stamped` says whom the lock can name. The steps of the administration
leave the lots and the welcome pool alone, so the theorems about the ledger hold
among operators too.

`GrantInv` is about what operators and purchases leave. A write happens long after the
reads it was computed from, so no equation between the document and the usage survives;
one inequality does (`Funded`): the ceiling, with what was spent since, is no more than what
was meant to be left and all that the days of the plan were charged with. A reconciliation
establishes it whatever it has overwritten, since it adds to the balance only usage it has
read in a ledger; charges of the pool and refunds move both sides alike, since they fall
on today and the plan has started (`SpendingIsCounted`), and a daily charge only helps. While the plan runs,
its usage is that of all days since it started, because no later day is charged
with anything (`RunningPlanUsesItsDays`, from `UsageInv`, shown again for the steps of
operators); and an action that goes on has a plan to write (`Rooted`).

`DeltaInv` follows one correction (`Relative`): while it is `current` the document is the one
it has read (and what passes the lock is current, unless the last writer wrote again), so the
balance it is about to leave (`Outcome`) and the one it should leave now (`Fair`) differ only by charges and refunds
that have reached the usage and not the document. `PoolMovesLittle` says that a charge
moves the usage of a window by no more than itself, and `BalanceFalls` that both balances
fall with it, together. The steps of an action are reduced to what they do to its own record
and the plan (`Proceeds`), and those of everybody else to `Disturbed`.

What requests that run together can overspend takes three more invariants. `UsageInv`: a
day is charged with everything that requests may still give back to it, up to the refunds
that strayed to another day. `QuotaInv`: what a day is charged with and what requests
behind their check of the quota are about to add stays within the quota and `OthersCost`,
because the last one to pass saw everything but the others. `PlanInv`, for plans bought in
turn: the plan's charges and the daily charges its window still holds are counted in the
usage of its days, up to strayed refunds (and, once the plan is over, up to one charge per
request that had looked at it before); and the charges with the commitments, those of
requests that have seen enough left or that act on the document of an earlier plan, stay
within what was paid, what strayed, and `OthersCost`. A step of a request is first reduced
to what it does to the days and the plan (`Acts`: it waits, charges a day or refunds).

| theorem | statement |
|---|---|
| `LedgerTyped` | `Spec => []TypeOK` |
| `LotsStayConserved` | `Spec => []LotsConserved` |
| `OneBucketPerCharge` | `Spec => []ChargedToOneBucket` |
| `WelcomeStaysCovered` | `Spec => []WelcomeNeverOverdrawn` |
| `AdministrationTyped` | `AdminSpec => []AdminTypeOK` |
| `IdsAreHandledOnce` | `AdminSpec => []HandledOnce` |
| `FirstWritesAreExact` | `AdminSpec => []FirstWriteIsExact` |
| `LedgerUnderAdministration` | `AdminSpec => [](LotsConserved /\ ChargedToOneBucket /\ WelcomeNeverOverdrawn)` |
| `NothingIsOverGranted` | `AdminSpec => []NeverOverGranted` |
| `CorrectionsAreRelative` | `AdminSpec => DeltaIsRelative` |
| `QuotaOverspendStaysBounded` | `Spec => []QuotaOverspendIsBounded` |
| `OverCreditNeedsARenewal` | `Spec /\ [][InTurn]_vars => []NeverOverCredited` |
| `OverspendStaysBounded` | `Spec /\ [][InTurn]_vars => []OverspendIsBounded` |

`InTurn` says that no plan is granted while another runs (see section 5 for why it is
needed). In `credits`, with its one purchase, every behaviour is of that kind; the
theorems allow any number of plans, one after the other.

The proofs assume what the modules name: finite sets of requests, lots, costs and orders,
quotes and limits that are natural numbers, at least one unit of time. `CreditAssumption`
also says that there is a request and a cost, and that a plan holds enough for any one
question: the smallest of the catalog holds 6000 credits (2100 among the test plans), and
a question costs 25 at most.

## 5. What is only model-checked, and what is left out

* `PaidIsSettled`, `StopSettles` and `RefusalSettles` are liveness under fairness, out of
  the prover's reach.
* `NeverOverCredited` and the half of `OverspendIsBounded` about the pool are proved for plans
  bought in turn only. A renewal paid while a plan runs puts the usage window into the
  future, and charges are not counted until then: TLC finds `NeverOverCredited` violated
  (`early_renewal`), so `InTurn` is not a convenience of the proof. An upgrade of a running
  plan carries the balance stored in the document, which follows behind the charges in
  progress; there the property fails too.
* `NeverOverGranted` and `DeltaIsRelative` are proved for any number of operators, requests,
  purchases and faults, with daily quotas or without. What they grant to the code is in their
  statements: a plan that was to start later when it was written is excepted (its charges may
  go uncounted until then, see `early_renewal`); a refund of a daily charge counts as credits
  given back, because inside the window of a plan the code counts it so; a correction
  whose window was left below zero by refunds may lose that much; and a correction that
  passed the lock although the action which had written last wrote again (`Overtaken`) is
  excepted from `DeltaIsRelative`, since it undoes that second write.
* Left out of checkout: statements and fiscal data (reports), the price lists, and
  the response texts. Left out of credits: read-only status reports, users from
  before the welcome pool was tracked, and lots from before `credits_remaining`
  existed.
* Left out of the stores: signatures and product lists (they refuse requests),
  Play purchases that are still pending (nothing is recorded for them), and
  transactions of one chain presented by two users before either is claimed.
  `Replace` overwrites what another seller granted or a chat spent since the read; the
  model has that step, and nothing in the repository says what should hold.
  `BalanceIsBacked` names the credits such a write brings back; a grant that it
  overwrites is lost, which no property forbids.
* Left out of projects: reports of progress, texts, the link between a chat and its
  files, and settings (`project_service.py:249` reads and rewrites them, so two edits can
  lose one). Left out of accounts: edits of profiles, names, pins and feedback, which are
  single writes, the Bitrix lead, and a stale cached status of a user created meanwhile.
  Left out of the administration: daily-pass lots and grants, `new_end_ms`,
  `credits_override`, and diagnostics.
* The unique indexes are taken to exist. The audit log's is created at the first use, and a
  failure of that is only logged (`admin_audit_service.py:77-78`); it is not modelled.
* `RefusalSettles` follows a deleted account to its end, not a blocked one, which another
  write may unblock. The copy of a user that `users.py` caches for a day is left out.
* Not modelled: reporting to Meta and Bitrix24, which nothing reads back; routing and
  configuration, which hold no state; assignment of promo codes and the price lists (see the
  plan); the one-time codes, whose counters are single commands of Redis.
* Hazards without a property are listed as such in `PROJECT.json`, each with the reason.

## 6. Plan

1. Checkout, stores, chat, accounts, files, members, credits and administration: modelled,
   checked and proved, every safety property of the passing runs included (done).
2. Bounds on what requests that run together can overspend, for any number of requests:
   proved for the daily quota and for plans bought in turn (done).
3. Stores with more than one transaction per chain.
4. Promo assignment, and the price computation as pure operators checked against reference
   definitions.
