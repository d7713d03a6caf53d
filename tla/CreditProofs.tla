----------------------------- MODULE CreditProofs -----------------------------
(***************************************************************************)
(* What is proved about the credits of an account, for every number of     *)
(* requests, lots, purchases, operators and failures.                      *)
(*                                                                         *)
(* LedgerInv, the inductive invariant of the ledger, adds to the types     *)
(* what a request has taken from the lots by the step it is at (TaskOK,    *)
(* Clean), an account of every lot (LotOK: what is left, what requests     *)
(* hold and what finished ones took; nothing before it is bought) and of   *)
(* the welcome pool (WelcomeOK: it covers the charges of all requests that *)
(* may still give back, the one between its two writes included).  A step  *)
(* of a request is reduced to Moves, what it does to its own record, the   *)
(* lots and the welcome pool; SumsProofs then gives the sums over all of   *)
(* them.                                                                   *)
(*                                                                         *)
(* UsageInv says that a day is charged with everything that requests may   *)
(* still give back to it, up to the refunds that went to another day.      *)
(* QuotaInv adds to a day what requests that have passed its check are     *)
(* about to add, and PlanInv to the plan's charges what requests that have *)
(* looked at it may still charge; both are bounded because only the others *)
(* can have passed before the last one.  A step of a request is reduced to *)
(* Acts: it waits, charges a day or gives a charge back.                   *)
(*                                                                         *)
(* AdminInv adds what an administrative action knows at each of its steps: *)
(* as long as nobody interferes, the usage it has read is that of the plan *)
(* it is about to write, and the ceiling it has written agrees with the    *)
(* balance.                                                                *)
(*                                                                         *)
(* GrantInv is about what the user is offered: the ceiling of the plan is  *)
(* covered by what the last purchase or action meant to leave and by what  *)
(* the days of the plan were charged with (Funded).  DeltaInv follows a    *)
(* correction while nothing has written the plan it has read (Relative).   *)
(* A step of an action is reduced to what it does to its own record and to *)
(* the plan (Proceeds), one of anybody else to Disturbed and Adds.         *)
(***************************************************************************)
EXTENDS Administration, SumsProofs, TLAPS

(***************************************************************************)
(* The inductive invariant of the ledger.                                  *)
(***************************************************************************)
Steps == {"idle", "served"} \cup ChargeSteps \cup RefundSteps
PassSteps == {"passTake", "passRollback", "passReport"}
BeforeLots == {"readPool", "poolUsage", "poolCheck", "poolIncrement", "poolBalance", "poolSync",
               "passSummary", "passRead"}

(* What a request has taken from the lots by the step it is at.            *)
TaskOK(r) ==
    /\ r.at = "idle" => r.taken = NothingTaken
    /\ r.at # "idle" => r.cost \in Costs
    /\ r.at \in ChargeSteps => r.kind = "none"
    /\ r.at \in BeforeLots => r.taken = NothingTaken
    /\ r.at = "passTake" => Total(r.taken) < r.cost
    /\ r.at = "passReport" => Total(r.taken) = r.cost
    /\ r.at = "refundWelcome" => r.kind = "welcome"

(* The same as long as no call has raised.                                 *)
Clean(r) ==
    /\ r.at \in ChargeSteps \ PassSteps => r.taken = NothingTaken
    /\ r.at = "served" => IF r.kind = "pass" THEN Total(r.taken) = r.cost
                                             ELSE r.taken = NothingTaken

(* What is left of a lot, what requests hold of it and what they took.     *)
Held == [l \in Lots |-> [t \in Tasks |-> task[t].taken[l]]]
LotOK(l) ==
    lot[l].remaining + book.lots[l] + SumOver(Held[l], Tasks)
        = IF lot[l].end = 0 THEN 0 ELSE LotQuote[l].credits

(* What a request may still give back to the welcome pool.                 *)
FromWelcome(r) == IF r.kind = "welcome" \/ r.at = "welcomeMark" THEN r.cost ELSE 0
Welcomed == [t \in Tasks |-> FromWelcome(task[t])]
WelcomeOK == welcome.used <= WelcomeLimit /\ welcome.used >= SumOver(Welcomed, Tasks)

DataOK ==
    /\ now \in 1 .. MaxTime
    /\ sub \in Document(Purchases)
    /\ usage \in [Dates -> UsageDocument]
    /\ welcome \in WelcomePool
    /\ lot \in [Lots -> LotDocument]
    /\ faults \in 0 .. MaxFaults
    /\ book \in Book

TasksOK == task \in [Tasks -> TaskRecords] /\ \A t \in Tasks : TaskOK(task[t])

LedgerInv ==
    /\ DataOK
    /\ TasksOK
    /\ faults = 0 => \A t \in Tasks : Clean(task[t])
    /\ \A l \in Lots : LotOK(l)
    /\ WelcomeOK

(* What a step of one request does to the record of the request, to the    *)
(* lots and to the welcome pool.                                           *)
LotsKept(t, r) ==
    \A l \in Lots :
        /\ lot'[l].end = lot[l].end
        /\ lot'[l].remaining + book'.lots[l] + r.taken[l]
             = lot[l].remaining + book.lots[l] + task[t].taken[l]
WelcomeKept(t, r) ==
    /\ welcome'.used <= WelcomeLimit
    /\ welcome'.used - FromWelcome(r) >= welcome.used - FromWelcome(task[t])
Moves(t, r) ==
    /\ task' = [task EXCEPT ![t] = r]
    /\ r \in TaskRecords /\ TaskOK(r) /\ (faults' = 0 => faults = 0 /\ Clean(r))
    /\ LotsKept(t, r) /\ WelcomeKept(t, r)

LEMMA Acting ==
    ASSUME LedgerInv, NEW t \in Tasks
    PROVE  task[t] \in TaskRecords /\ TaskOK(task[t]) /\ (faults = 0 => Clean(task[t]))
  BY DEF LedgerInv, TasksOK

LEMMA CostsArePositive ==
    ASSUME LedgerInv, NEW t \in Tasks
    PROVE  task[t].cost \in Nat /\ (~At(t, "idle") => task[t].cost > 0)
  BY Acting, CreditAssumption DEF TaskRecords, TaskOK, At

(* The sums over the requests change with the one that moves.              *)
LEMMA LotsAreKept ==
    ASSUME LedgerInv, DataOK', NEW t \in Tasks, NEW r, Moves(t, r), NEW l \in Lots
    PROVE  LotOK(l)'
<1>1. task \in [Tasks -> TaskRecords] /\ task' \in [Tasks -> TaskRecords]
  BY DEF Moves, LedgerInv, TasksOK
<1>2. PICK f : f = Held[l]
  OBVIOUS
<1>3. PICK g : g = Held'[l]
  OBVIOUS
<1>4. /\ \A u \in Tasks : f[u] = task[u].taken[l] /\ f[u] \in Nat
      /\ \A u \in Tasks : g[u] = task'[u].taken[l] /\ g[u] \in Nat
  BY <1>1, <1>2, <1>3 DEF Held, TaskRecords
<1>5. IntegersOn(f, Tasks) /\ IntegersOn(g, Tasks)
  BY <1>4 DEF IntegersOn
<1>6. \A u \in Tasks \ {t} : g[u] = f[u]
  BY <1>1, <1>4 DEF Moves
<1>7. SumOver(g, Tasks) = SumOver(f, Tasks) + g[t] - f[t]
  BY <1>5, <1>6, SumChanges, CreditAssumption
<1>8. SumOver(f, Tasks) \in Int
  BY <1>5, SumIsInteger, CreditAssumption
<1>9. f[t] = task[t].taken[l] /\ g[t] = r.taken[l] /\ f[t] \in Nat /\ g[t] \in Nat
  BY <1>1, <1>4 DEF Moves
<1>10. /\ lot'[l].end = lot[l].end
       /\ lot'[l].remaining + book'.lots[l] + g[t] = lot[l].remaining + book.lots[l] + f[t]
  BY <1>9 DEF Moves, LotsKept
<1>11. /\ lot'[l].remaining \in Nat /\ lot[l].remaining \in Nat
       /\ book'.lots[l] \in Nat /\ book.lots[l] \in Nat
  BY DEF LedgerInv, DataOK, LotDocument, Book
<1>12. lot[l].remaining + book.lots[l] + SumOver(f, Tasks)
         = IF lot[l].end = 0 THEN 0 ELSE LotQuote[l].credits
  BY <1>2 DEF LedgerInv, LotOK
<1>13. lot'[l].remaining + book'.lots[l] + SumOver(g, Tasks)
         = lot[l].remaining + book.lots[l] + SumOver(f, Tasks)
  BY <1>7, <1>8, <1>9, <1>10, <1>11
<1> QED
  BY <1>3, <1>10, <1>12, <1>13 DEF LotOK

LEMMA WelcomeIsKept ==
    ASSUME LedgerInv, DataOK', NEW t \in Tasks, NEW r, Moves(t, r)
    PROVE  WelcomeOK'
<1>1. task \in [Tasks -> TaskRecords] /\ task' \in [Tasks -> TaskRecords]
  BY DEF Moves, LedgerInv, TasksOK
<1>2. PICK f : f = Welcomed
  OBVIOUS
<1>3. PICK g : g = Welcomed'
  OBVIOUS
<1>4. /\ \A u \in Tasks : f[u] = FromWelcome(task[u]) /\ f[u] \in Nat
      /\ \A u \in Tasks : g[u] = FromWelcome(task'[u]) /\ g[u] \in Nat
  BY <1>1, <1>2, <1>3 DEF Welcomed, TaskRecords, FromWelcome
<1>5. IntegersOn(f, Tasks) /\ IntegersOn(g, Tasks)
  BY <1>4 DEF IntegersOn
<1>6. \A u \in Tasks \ {t} : g[u] = f[u]
  BY <1>1, <1>4 DEF Moves
<1>7. SumOver(g, Tasks) = SumOver(f, Tasks) + g[t] - f[t]
  BY <1>5, <1>6, SumChanges, CreditAssumption
<1>8. SumOver(f, Tasks) \in Int
  BY <1>5, SumIsInteger, CreditAssumption
<1>9. f[t] = FromWelcome(task[t]) /\ g[t] = FromWelcome(r) /\ f[t] \in Nat /\ g[t] \in Nat
  BY <1>1, <1>4 DEF Moves
<1>10. welcome'.used <= WelcomeLimit /\ welcome'.used - g[t] >= welcome.used - f[t]
  BY <1>9 DEF Moves, WelcomeKept
<1>11. welcome'.used \in Int /\ welcome.used \in Int
  BY DEF LedgerInv, DataOK, WelcomePool
<1>12. welcome.used >= SumOver(f, Tasks)
  BY <1>2 DEF LedgerInv, WelcomeOK
<1>13. welcome'.used >= SumOver(g, Tasks)
  BY <1>7, <1>8, <1>9, <1>10, <1>11, <1>12
<1> QED
  BY <1>3, <1>10, <1>13 DEF WelcomeOK

LEMMA OneRequestMoves ==
    ASSUME LedgerInv, DataOK', NEW t \in Tasks, NEW r, Moves(t, r)
    PROVE  LedgerInv'
<1>1. ASSUME NEW u \in Tasks
      PROVE  TaskOK(task[u])' /\ (faults' = 0 => Clean(task[u])')
  <2>1. PICK q : q = task'[u]
    OBVIOUS
  <2>2. q = IF u = t THEN r ELSE task[u]
    BY <2>1 DEF Moves, LedgerInv, TasksOK
  <2>3. TaskOK(q) /\ (faults' = 0 => Clean(q))
    BY <2>2, Acting DEF Moves
  <2> QED
    BY <2>1, <2>3 DEF TaskOK, Clean
<1>2. task' \in [Tasks -> TaskRecords]
  BY DEF Moves, LedgerInv, TasksOK
<1> QED
  BY <1>1, <1>2, LotsAreKept, WelcomeIsKept DEF LedgerInv, TasksOK

(***************************************************************************)
(* The records of the requests.                                            *)
(***************************************************************************)
SameCharge(q, r) == q.kind = r.kind /\ q.cost = r.cost /\ q.taken = r.taken

(* A request goes to another step, or keeps what it has read.              *)
LEMMA StepIsSet ==
    ASSUME NEW r \in TaskRecords, NEW step \in Steps, NEW q, q = [r EXCEPT !.at = step]
    PROVE  q \in TaskRecords /\ q.at = step /\ SameCharge(q, r)
  BY DEF TaskRecords, Steps, SameCharge

LEMMA ReadingIsSet ==
    ASSUME NEW r \in TaskRecords, NEW q,
           \/ \E v \in Document(Purchases) : q = [r EXCEPT !.doc = v]
           \/ \E v \in WelcomePool : q = [r EXCEPT !.seen = v]
           \/ \E v \in Nat : \/ q = [r EXCEPT !.passLeft = v]
                             \/ q = [r EXCEPT !.began = v]
                             \/ q = [r EXCEPT !.balance = v]
                             \/ q = [r EXCEPT !.limit = v]
                             \/ q = [r EXCEPT !.date = v]
           \/ \E v \in [Lots -> Nat] : q = [r EXCEPT !.offered = v]
    PROVE  q \in TaskRecords /\ q.at = r.at /\ SameCharge(q, r)
  BY DEF TaskRecords, SameCharge

LEMMA TakenIsSet ==
    ASSUME NEW r \in TaskRecords, NEW v \in [Lots -> Nat], NEW q, q = [r EXCEPT !.taken = v]
    PROVE  /\ q \in TaskRecords /\ q.at = r.at /\ q.kind = r.kind /\ q.cost = r.cost
           /\ q.taken = v
  BY DEF TaskRecords

LEMMA CostIsSet ==
    ASSUME NEW r \in TaskRecords, NEW v \in Nat, NEW q, q = [r EXCEPT !.cost = v]
    PROVE  /\ q \in TaskRecords /\ q.at = r.at /\ q.kind = r.kind /\ q.taken = r.taken
           /\ q.cost = v
  BY DEF TaskRecords

LEMMA KindIsSet ==
    ASSUME NEW r \in TaskRecords, NEW v \in Kinds, NEW q, q = [r EXCEPT !.kind = v]
    PROVE  /\ q \in TaskRecords /\ q.at = r.at /\ q.cost = r.cost /\ q.taken = r.taken
           /\ q.kind = v
  BY DEF TaskRecords

LEMMA NothingIsTaken ==
    NothingTaken \in [Lots -> Nat] /\ Total(NothingTaken) = 0
<1>1. \A l \in Lots : NothingTaken[l] = 0
  BY DEF NothingTaken
<1>2. SumOver(NothingTaken, Lots) = 0
  BY <1>1, SumOfZeros, CreditAssumption
<1> QED
  BY <1>2 DEF NothingTaken, Total

LEMMA IdleIsOK ==
    /\ Idle \in TaskRecords /\ Idle.at = "idle" /\ Idle.kind = "none" /\ Idle.cost = 0
    /\ Idle.taken = NothingTaken
<1>1. NoDocument \in Document(Purchases)
  BY DEF NoDocument, Document
<1>2. [used |-> 0, exhausted |-> FALSE] \in WelcomePool
  BY DEF WelcomePool
<1> QED
  BY <1>1, <1>2, NothingIsTaken DEF Idle, TaskRecords, Kinds

(* What is left of a request that may be answered.                         *)
LEMMA ServedIsOK ==
    ASSUME NEW kind \in Kinds, NEW r, r.cost \in Nat, r.taken \in [Lots -> Nat], r.date \in Nat,
           NEW q, q = ServedBy(kind, r)
    PROVE  /\ q \in TaskRecords /\ q.at = "served" /\ q.kind = kind /\ q.cost = r.cost
           /\ q.taken = r.taken
<1>1. PICK s : s = [Idle EXCEPT !.at = "served"]
  OBVIOUS
<1>2. s \in TaskRecords /\ s.at = "served" /\ SameCharge(s, Idle)
  BY <1>1, StepIsSet, IdleIsOK DEF Steps
<1>3. PICK k : k = [s EXCEPT !.kind = kind]
  OBVIOUS
<1>4. k \in TaskRecords /\ k.at = "served" /\ k.kind = kind
  BY <1>2, <1>3, KindIsSet
<1>5. PICK c : c = [k EXCEPT !.cost = r.cost]
  OBVIOUS
<1>6. c \in TaskRecords /\ c.at = "served" /\ c.kind = kind /\ c.cost = r.cost
  BY <1>4, <1>5, CostIsSet
<1>7. PICK n : n = [c EXCEPT !.taken = r.taken]
  OBVIOUS
<1>8. /\ n \in TaskRecords /\ n.at = "served" /\ n.kind = kind /\ n.cost = r.cost
      /\ n.taken = r.taken
  BY <1>6, <1>7, TakenIsSet
<1>9. q = [n EXCEPT !.date = r.date]
  BY <1>1, <1>3, <1>5, <1>7 DEF ServedBy
<1> QED
  BY <1>8, <1>9, ReadingIsSet DEF SameCharge

(* What is left of one that has got no lots.                               *)
LEMMA WithoutPassIsOK ==
    ASSUME NEW r \in TaskRecords, NEW q, q = WithoutPass(r)
    PROVE  q \in TaskRecords /\ q.at = "promo" /\ SameCharge(q, r)
<1>1. PICK s : s = [r EXCEPT !.at = "promo"]
  OBVIOUS
<1>2. s \in TaskRecords /\ s.at = "promo" /\ SameCharge(s, r)
  BY <1>1, StepIsSet DEF Steps, ChargeSteps
<1>3. PICK b : b = [s EXCEPT !.began = 0]
  OBVIOUS
<1>4. b \in TaskRecords /\ b.at = "promo" /\ SameCharge(b, r)
  BY <1>2, <1>3, ReadingIsSet DEF SameCharge
<1>5. q = [b EXCEPT !.offered = NothingTaken]
  BY <1>1, <1>3 DEF WithoutPass
<1> QED
  BY <1>4, <1>5, ReadingIsSet, NothingIsTaken DEF SameCharge

(***************************************************************************)
(* Steps that take and give back nothing.                                  *)
(***************************************************************************)
NothingMoves ==
    /\ \A l \in Lots : lot'[l] = lot[l] /\ book'.lots[l] = book.lots[l]
    /\ UNCHANGED welcome

(* What a request could give back to the welcome pool grows less.          *)
LEMMA WelcomeStays ==
    ASSUME LedgerInv, NEW t \in Tasks, NEW q \in TaskRecords, UNCHANGED welcome,
           FromWelcome(q) <= FromWelcome(task[t])
    PROVE  WelcomeKept(t, q)
<1>1. FromWelcome(q) \in Nat
  BY DEF FromWelcome, TaskRecords
<1>2. FromWelcome(task[t]) \in Nat
  BY Acting DEF FromWelcome, TaskRecords
<1>3. welcome.used \in Int /\ welcome.used <= WelcomeLimit
  BY DEF LedgerInv, DataOK, WelcomePool, WelcomeOK
<1> QED
  BY <1>1, <1>2, <1>3 DEF WelcomeKept

(* A request goes on.                                                      *)
Plain == ChargeSteps \ (PassSteps \cup {"welcomeMark"})

LEMMA GoesOn ==
    ASSUME LedgerInv, NEW t \in Tasks, NEW q \in TaskRecords, SameCharge(q, task[t]),
           task' = [task EXCEPT ![t] = q], NothingMoves, faults' = faults,
           task[t].at \in Plain, q.at \in Plain,
           q.at \in BeforeLots => task[t].at \in BeforeLots
    PROVE  Moves(t, q)
<1>1. task[t] \in TaskRecords /\ TaskOK(task[t]) /\ (faults = 0 => Clean(task[t]))
  BY Acting
<1>2. TaskOK(q) /\ (faults = 0 => Clean(q))
  BY <1>1 DEF TaskOK, Clean, Plain, PassSteps, ChargeSteps, RefundSteps, BeforeLots, SameCharge
<1>3. LotsKept(t, q)
  BY DEF LotsKept, NothingMoves, SameCharge
<1>4. FromWelcome(q) = FromWelcome(task[t])
  BY DEF FromWelcome, Plain, SameCharge
<1>5. FromWelcome(q) <= FromWelcome(task[t])
  BY <1>1, <1>4 DEF FromWelcome, TaskRecords
<1>6. WelcomeKept(t, q)
  BY <1>5, WelcomeStays DEF NothingMoves
<1> QED
  BY <1>2, <1>3, <1>6 DEF Moves

(* A request gives back what it was charged.                               *)
LEMMA GoesBack ==
    ASSUME LedgerInv, NEW t \in Tasks, NEW q \in TaskRecords, SameCharge(q, task[t]),
           task' = [task EXCEPT ![t] = q], NothingMoves, faults' = faults,
           task[t].at \in RefundSteps \cup {"served"}, q.at \in RefundSteps,
           q.at = "refundWelcome" => q.kind = "welcome"
    PROVE  Moves(t, q)
<1>1. task[t] \in TaskRecords /\ TaskOK(task[t])
  BY Acting
<1>2. TaskOK(q) /\ (faults = 0 => Clean(q))
  BY <1>1 DEF TaskOK, Clean, PassSteps, ChargeSteps, RefundSteps, BeforeLots, SameCharge
<1>3. LotsKept(t, q)
  BY DEF LotsKept, NothingMoves, SameCharge
<1>4. FromWelcome(q) <= FromWelcome(task[t])
  BY <1>1 DEF FromWelcome, SameCharge, RefundSteps, TaskRecords
<1>5. WelcomeKept(t, q)
  BY <1>4, WelcomeStays DEF NothingMoves
<1> QED
  BY <1>2, <1>3, <1>5 DEF Moves

(* A request is over: the observer writes down what it took.               *)
LEMMA LeavesItsLots ==
    ASSUME LedgerInv, NEW t \in Tasks, task' = [task EXCEPT ![t] = Idle], UNCHANGED <<lot, welcome>>,
           \A l \in Lots : book'.lots[l] = book.lots[l] + task[t].taken[l],
           faults' = 0 => faults = 0
    PROVE  Moves(t, Idle)
<1>1. task[t] \in TaskRecords /\ TaskOK(task[t])
  BY Acting
<1>2. TaskOK(Idle) /\ Clean(Idle)
  BY IdleIsOK DEF TaskOK, Clean, PassSteps, ChargeSteps, BeforeLots
<1>3. \A l \in Lots : /\ lot[l].remaining \in Nat /\ book.lots[l] \in Nat /\ task[t].taken[l] \in Nat
                      /\ Idle.taken[l] = 0
  BY <1>1, IdleIsOK DEF LedgerInv, DataOK, Book, LotDocument, TaskRecords, NothingTaken
<1>4. LotsKept(t, Idle)
  BY <1>3 DEF LotsKept
<1>5. FromWelcome(Idle) = 0 /\ FromWelcome(task[t]) \in Nat
  BY <1>1, IdleIsOK DEF FromWelcome, TaskRecords
<1>6. WelcomeKept(t, Idle)
  BY <1>5, WelcomeStays, IdleIsOK
<1> QED
  BY <1>2, <1>4, <1>6, IdleIsOK DEF Moves

LEMMA IsOver ==
    ASSUME LedgerInv, NEW t \in Tasks, Ends(t), UNCHANGED <<lot, welcome>>,
           faults' = 0 => faults = 0
    PROVE  Moves(t, Idle)
<1>1. \A l \in Lots : book'.lots[l] = book.lots[l] + task[t].taken[l]
  BY DEF Ends, LedgerInv, DataOK, Book
<1> QED
  BY <1>1, LeavesItsLots DEF Ends

(* A request is served, from this bucket or from none.                     *)
LEMMA IsServed ==
    ASSUME LedgerInv, NEW t \in Tasks, NEW kind \in Kinds, Served(t, kind), NothingMoves,
           task[t].at \in ChargeSteps, kind = "welcome" => At(t, "welcomeMark"),
           faults' = 0 => /\ faults = 0
                          /\ IF kind = "pass" THEN At(t, "passReport")
                                              ELSE task[t].at \notin PassSteps
    PROVE  \E q : Moves(t, q)
<1>1. /\ task[t] \in TaskRecords /\ TaskOK(task[t]) /\ (faults = 0 => Clean(task[t]))
      /\ task[t].cost \in Nat /\ task[t].taken \in [Lots -> Nat] /\ task[t].date \in Nat
  BY Acting DEF TaskRecords
<1>2. PICK q : q = ServedBy(kind, task[t])
  OBVIOUS
<1>3. /\ q \in TaskRecords /\ q.at = "served" /\ q.kind = kind /\ q.cost = task[t].cost
      /\ q.taken = task[t].taken
  BY <1>1, <1>2, ServedIsOK
<1>4. task' = [task EXCEPT ![t] = q]
  BY <1>2 DEF Served
<1>5. TaskOK(q)
  BY <1>1, <1>3 DEF TaskOK, ChargeSteps, RefundSteps, BeforeLots
<1>6. faults' = 0 => Clean(q)
  BY <1>1, <1>3 DEF TaskOK, Clean, ChargeSteps, PassSteps, At
<1>7. LotsKept(t, q)
  BY <1>3 DEF LotsKept, NothingMoves
<1>8. FromWelcome(q) <= FromWelcome(task[t])
  BY <1>1, <1>3 DEF FromWelcome, At
<1>9. WelcomeKept(t, q)
  BY <1>3, <1>8, WelcomeStays DEF NothingMoves
<1> QED
  BY <1>3, <1>4, <1>5, <1>6, <1>7, <1>9 DEF Moves

(***************************************************************************)
(* The pool.                                                               *)
(***************************************************************************)
LEMMA TodayIsADate ==
    ASSUME LedgerInv
    PROVE  Today \in Dates /\ Today \in Nat
<1>1. now \in Nat /\ MaxTime \in Nat /\ now <= MaxTime
  BY CreditAssumption DEF LedgerInv, DataOK
<1>2. Date(now) \in Nat /\ Date(MaxTime) \in Nat /\ Date(now) <= Date(MaxTime)
  BY <1>1, CreditAssumption DEF Date
<1> QED
  BY <1>2 DEF Today, Dates

LEMMA UsageIsCounted ==
    ASSUME LedgerInv, NEW doc \in Document(Purchases)
    PROVE  UsedInPeriod(doc) \in Int /\ PoolRemaining(doc) \in Nat
<1>1. ASSUME NEW D \in SUBSET Dates PROVE SumOver(UsedOn, D) \in Int
  <2>1. \A d \in D : UsedOn[d] \in Int
    BY <1>1 DEF UsedOn, LedgerInv, DataOK, UsageDocument
  <2>2. IsFiniteSet(Dates)
    <3>1. Date(MaxTime) \in Nat /\ 0 \in Int
      BY CreditAssumption DEF Date
    <3> QED
      BY <3>1, FS_Interval DEF Dates
  <2>3. IsFiniteSet(D)
    BY <2>2, FS_Subset
  <2> QED
    BY <2>1, <2>3, SumIsInteger DEF IntegersOn
<1>2. UsedInPeriod(doc) \in Int
  <2>1. {d \in Dates : Date(doc.start) <= d /\ d <= Date(doc.end)} \in SUBSET Dates
    OBVIOUS
  <2> QED
    BY <1>1, <2>1 DEF UsedInPeriod
<1>3. doc.total \in Int /\ doc.remaining \in Int
  BY DEF Document
<1> QED
  BY <1>2, <1>3 DEF PoolRemaining, AtLeastZero, Larger

LEMMA PoolMoves ==
    ASSUME LedgerInv, NEW t \in Tasks, PoolStep(t)
    PROVE  \E q : Moves(t, q)
<1> DEFINE r == task[t]
<1> USE DEF At, Steps, ChargeSteps, RefundSteps
<1>1. r \in TaskRecords /\ TaskOK(r) /\ (faults = 0 => Clean(r)) /\ task \in [Tasks -> TaskRecords]
  BY Acting DEF LedgerInv, TasksOK
<1>2. ASSUME NEW step \in Steps, Goes(t, step)
      PROVE  \E q \in TaskRecords : /\ task' = [task EXCEPT ![t] = q] /\ q.at = step /\ SameCharge(q, r)
  <2>1. PICK q : q = [r EXCEPT !.at = step]
    OBVIOUS
  <2>2. task' = [task EXCEPT ![t] = q]
    BY <1>2, <2>1 DEF Goes
  <2> QED
    BY <1>1, <2>1, <2>2, StepIsSet, ZenonT(60)
<1>3. ASSUME NEW step \in Steps, NEW v \in Nat,
             \/ task' = [task EXCEPT ![t].at = step, ![t].date = v]
             \/ task' = [task EXCEPT ![t].at = step, ![t].balance = v]
      PROVE  \E q \in TaskRecords : /\ task' = [task EXCEPT ![t] = q] /\ q.at = step /\ SameCharge(q, r)
  <2>1. PICK p : p = [r EXCEPT !.at = step]
    OBVIOUS
  <2>2. p \in TaskRecords /\ p.at = step /\ SameCharge(p, r)
    BY <1>1, <2>1, StepIsSet
  <2>3. PICK q : /\ task' = [task EXCEPT ![t] = q]
                 /\ q = [p EXCEPT !.date = v] \/ q = [p EXCEPT !.balance = v]
    BY <1>1, <1>3, <2>1
  <2>4. q \in TaskRecords /\ q.at = p.at /\ SameCharge(q, p)
    <3>1. CASE q = [p EXCEPT !.date = v]
      BY <2>2, <3>1, ReadingIsSet
    <3>2. CASE q = [p EXCEPT !.balance = v]
      BY <2>2, <3>2, ReadingIsSet
    <3> QED
      BY <2>3, <3>1, <3>2
  <2> QED
    BY <2>2, <2>3, <2>4 DEF SameCharge
<1>4. ASSUME NEW step \in Steps, task' = [task EXCEPT ![t].at = step, ![t].doc = sub]
      PROVE  \E q \in TaskRecords : /\ task' = [task EXCEPT ![t] = q] /\ q.at = step /\ SameCharge(q, r)
  <2>1. PICK p : p = [r EXCEPT !.at = step]
    OBVIOUS
  <2>2. p \in TaskRecords /\ p.at = step /\ SameCharge(p, r)
    BY <1>1, <2>1, StepIsSet
  <2>3. PICK q : task' = [task EXCEPT ![t] = q] /\ q = [p EXCEPT !.doc = sub]
    BY <1>1, <1>4, <2>1
  <2>4. \E v \in Document(Purchases) : q = [p EXCEPT !.doc = v]
    BY <2>3 DEF LedgerInv, DataOK
  <2>5. q \in TaskRecords /\ q.at = p.at /\ SameCharge(q, p)
    BY <2>2, <2>4, ReadingIsSet
  <2> QED
    BY <2>2, <2>3, <2>5 DEF SameCharge
<1>5. CASE ReadPool(t)
  <2>1. NothingMoves /\ faults' = faults /\ r.at = "readPool"
    BY <1>5 DEF ReadPool, NothingMoves
  <2>2. PICK q \in TaskRecords : /\ task' = [task EXCEPT ![t] = q] /\ SameCharge(q, r)
                                /\ q.at \in {"poolUsage", "passSummary"}
    BY <1>2, <1>4, <1>5 DEF ReadPool
  <2> QED
    BY <2>1, <2>2, GoesOn DEF Plain, PassSteps, BeforeLots
<1>6. CASE PoolUsage(t)
  BY <1>2, <1>6, GoesOn DEF PoolUsage, NothingMoves, Plain, PassSteps, BeforeLots
<1>7. CASE PoolCheck(t)
  BY <1>2, <1>7, GoesOn, IsOver DEF PoolCheck, NothingMoves, Plain, PassSteps, BeforeLots
<1>8. CASE PoolIncrement(t)
  <2>1. \A l \in Lots : book'.lots[l] = book.lots[l]
    BY <1>8 DEF PoolIncrement, LedgerInv, DataOK, Book
  <2>2. NothingMoves /\ faults' = faults /\ r.at = "poolIncrement"
    BY <1>8, <2>1 DEF PoolIncrement, NothingMoves
  <2>3. PICK q \in TaskRecords : /\ task' = [task EXCEPT ![t] = q] /\ SameCharge(q, r)
                                /\ q.at = "poolBalance"
    BY <1>3, <1>8, TodayIsADate DEF PoolIncrement
  <2> QED
    BY <2>2, <2>3, GoesOn DEF Plain, PassSteps, BeforeLots
<1>9. CASE PoolBalance(t)
  <2>1. PoolRemaining(r.doc) \in Nat
    BY <1>1, UsageIsCounted DEF TaskRecords
  <2>2. NothingMoves /\ faults' = faults /\ r.at = "poolBalance"
    BY <1>9 DEF PoolBalance, NothingMoves
  <2>3. PICK q \in TaskRecords : /\ task' = [task EXCEPT ![t] = q] /\ SameCharge(q, r)
                                /\ q.at = "poolSync"
    BY <1>3, <1>9, <2>1 DEF PoolBalance
  <2> QED
    BY <2>2, <2>3, GoesOn DEF Plain, PassSteps, BeforeLots
<1>10. CASE PoolSync(t)
  BY <1>10, IsServed DEF PoolSync, NothingMoves, PassSteps, Kinds
<1>11. CASE RefundUsage(t)
  <2>1. CASE r.kind = "pool"
    <3>1. PICK q : q = [r EXCEPT !.at = "refundRead"]
      OBVIOUS
    <3>2. task' = [task EXCEPT ![t] = q]
      BY <1>11, <2>1, <3>1 DEF RefundUsage
    <3>3. q \in TaskRecords /\ q.at = "refundRead" /\ SameCharge(q, r)
      BY <1>1, <3>1, StepIsSet
    <3>4. \A l \in Lots : book'.lots[l] = book.lots[l]
      BY <1>11, <2>1 DEF RefundUsage, LedgerInv, DataOK, Book
    <3>5. NothingMoves /\ faults' = faults /\ r.at = "refundUsage"
      BY <1>11, <3>4 DEF RefundUsage, NothingMoves
    <3> QED
      BY <3>2, <3>3, <3>5, GoesBack
  <2>2. CASE r.kind # "pool"
    <3>1. task' = [task EXCEPT ![t] = Idle] /\ UNCHANGED <<lot, welcome, faults>>
      BY <1>11, <2>2 DEF RefundUsage
    <3>2. \A l \in Lots : book'.lots[l] = book.lots[l] + r.taken[l]
      BY <1>11, <2>2 DEF RefundUsage, LedgerInv, DataOK, Book
    <3> QED
      BY <3>1, <3>2, LeavesItsLots
  <2> QED
    BY <2>1, <2>2
<1>12. CASE RefundRead(t)
  BY <1>4, <1>12, GoesBack, IsOver DEF RefundRead, NothingMoves
<1>13. CASE RefundActive(t)
  BY <1>2, <1>13, GoesBack, IsOver DEF RefundActive, NothingMoves
<1>14. CASE RefundBalance(t)
  <2>1. PoolRemaining(r.doc) \in Nat
    BY <1>1, UsageIsCounted DEF TaskRecords
  <2> QED
    BY <1>3, <1>14, <2>1, GoesBack DEF RefundBalance, NothingMoves
<1>15. CASE RefundSync(t)
  BY <1>15, IsOver DEF RefundSync
<1> QED
  BY <1>5, <1>6, <1>7, <1>8, <1>9, <1>10, <1>11, <1>12, <1>13, <1>14, <1>15 DEF PoolStep

(***************************************************************************)
(* Daily passes.                                                           *)
(***************************************************************************)
LEMMA OfferIsCounted ==
    ASSUME LedgerInv, NEW n
    PROVE  Offered(n) \in [Lots -> Nat] /\ Total(Offered(n)) \in Nat
<1>1. Offered(n) \in [Lots -> Nat]
  BY DEF Offered, LedgerInv, DataOK, LotDocument
<1>2. PICK f \in [Lots -> Nat] : f = Offered(n)
  BY <1>1
<1>3. SumOver(f, Lots) \in Nat
  BY SumIsNatural, CreditAssumption
<1> QED
  BY <1>1, <1>2, <1>3 DEF Total

LEMMA LotsAreAsked ==
    ASSUME LedgerInv, NEW t \in Tasks, ReadSummary(t) \/ ReadLots(t) \/ ReportLots(t)
    PROVE  \E q : Moves(t, q)
<1> DEFINE r == task[t]
<1> USE DEF At, Steps, ChargeSteps, RefundSteps
<1>1. /\ r \in TaskRecords /\ TaskOK(r) /\ (faults = 0 => Clean(r)) /\ task \in [Tasks -> TaskRecords]
      /\ NothingMoves /\ faults' = faults
  BY Acting DEF LedgerInv, TasksOK, NothingMoves, ReadSummary, ReadLots, ReportLots
<1>2. CASE ReadSummary(t)
  <2>1. PICK left \in Nat : left = Total(Offered(now))
    BY OfferIsCounted
  <2>2. PICK step \in {"passRead", "promo"} :
            task' = [task EXCEPT ![t].passLeft = left, ![t].at = step]
    BY <1>2, <2>1 DEF ReadSummary
  <2>3. PICK p : p = [r EXCEPT !.passLeft = left]
    OBVIOUS
  <2>4. p \in TaskRecords /\ p.at = r.at /\ SameCharge(p, r)
    BY <1>1, <2>3, ReadingIsSet
  <2>5. PICK q : task' = [task EXCEPT ![t] = q] /\ q = [p EXCEPT !.at = step]
    BY <1>1, <2>2, <2>3
  <2>6. q \in TaskRecords /\ q.at = step /\ SameCharge(q, r)
    BY <2>4, <2>5, StepIsSet DEF SameCharge
  <2>7. r.at = "passSummary"
    BY <1>2 DEF ReadSummary
  <2> QED
    BY <1>1, <2>5, <2>6, <2>7, GoesOn DEF Plain, PassSteps, BeforeLots
<1>3. CASE ReadLots(t)
  <2>1. r.at = "passRead"
    BY <1>3 DEF ReadLots
  <2>2. CASE Goes(t, "promo")
    <3>1. PICK q : q = [r EXCEPT !.at = "promo"]
      OBVIOUS
    <3>2. task' = [task EXCEPT ![t] = q]
      BY <2>2, <3>1 DEF Goes
    <3>3. q \in TaskRecords /\ q.at = "promo" /\ SameCharge(q, r)
      BY <1>1, <3>1, StepIsSet
    <3> QED
      BY <1>1, <2>1, <3>2, <3>3, GoesOn DEF Plain, PassSteps, BeforeLots
  <2>3. CASE task' = [task EXCEPT ![t].at = "passTake", ![t].began = now, ![t].offered = Offered(now)]
    <3>1. PICK p : p = [r EXCEPT !.at = "passTake"]
      OBVIOUS
    <3>2. p \in TaskRecords /\ p.at = "passTake" /\ SameCharge(p, r)
      BY <1>1, <3>1, StepIsSet
    <3>3. PICK n \in Nat : n = now
      BY DEF LedgerInv, DataOK
    <3>4. PICK b : b = [p EXCEPT !.began = n]
      OBVIOUS
    <3>5. b \in TaskRecords /\ b.at = p.at /\ SameCharge(b, p)
      BY <3>2, <3>4, ReadingIsSet
    <3>6. PICK f \in [Lots -> Nat] : f = Offered(now)
      BY OfferIsCounted
    <3>7. PICK q : task' = [task EXCEPT ![t] = q] /\ q = [b EXCEPT !.offered = f]
      BY <1>1, <2>3, <3>1, <3>3, <3>4, <3>6
    <3>8. q \in TaskRecords /\ q.at = b.at /\ SameCharge(q, b)
      BY <3>5, <3>7, ReadingIsSet
    <3>9. q.at = "passTake" /\ SameCharge(q, r)
      BY <3>2, <3>5, <3>8 DEF SameCharge
    <3>10. TaskOK(q)
      <4>1. q.taken = NothingTaken /\ Total(q.taken) = 0
        BY <1>1, <2>1, <3>9, NothingIsTaken DEF TaskOK, BeforeLots, SameCharge
      <4>2. q.cost > 0 /\ q.cost \in Costs /\ q.kind = "none"
        BY <1>1, <2>1, <3>9, CostsArePositive DEF TaskOK, SameCharge
      <4> QED
        BY <3>9, <4>1, <4>2, CreditAssumption DEF TaskOK, BeforeLots
    <3>11. Clean(q)
      BY <3>9 DEF Clean, PassSteps
    <3>12. LotsKept(t, q)
      BY <1>1, <3>9 DEF LotsKept, NothingMoves, SameCharge
    <3>13. FromWelcome(q) <= FromWelcome(r)
      BY <1>1, <2>1, <3>9 DEF FromWelcome, SameCharge, TaskRecords
    <3>14. WelcomeKept(t, q)
      BY <1>1, <3>8, <3>13, WelcomeStays DEF NothingMoves
    <3> QED
      BY <1>1, <3>7, <3>8, <3>10, <3>11, <3>12, <3>14 DEF Moves
  <2> QED
    BY <1>3, <2>2, <2>3 DEF ReadLots
<1>4. CASE ReportLots(t)
  BY <1>1, <1>4, IsServed DEF ReportLots, Kinds
<1> QED
  BY <1>2, <1>3, <1>4

(* A lot that is taken from covers what is missing, or less.               *)
LEMMA LotIsTaken ==
    ASSUME LedgerInv, NEW t \in Tasks, NEW l \in Lots, TakeLot(t, l)
    PROVE  \E q : Moves(t, q)
<1> DEFINE r == task[t]
<1> USE DEF At, Steps, ChargeSteps, RefundSteps
<1>1. /\ r \in TaskRecords /\ TaskOK(r) /\ (faults = 0 => Clean(r)) /\ task \in [Tasks -> TaskRecords]
      /\ r.at = "passTake" /\ r.kind = "none" /\ r.cost \in Costs
      /\ UNCHANGED <<welcome, faults, book>>
  BY Acting DEF LedgerInv, TasksOK, TakeLot, TaskOK
<1>2. r.taken \in [Lots -> Nat] /\ r.offered \in [Lots -> Nat] /\ r.cost \in Nat
  BY <1>1 DEF TaskRecords
<1>3. PICK f \in [Lots -> Nat] : f = r.taken
  BY <1>2
<1>4. IntegersOn(f, Lots) /\ SumOver(f, Lots) \in Nat
  BY SumIsNatural, CreditAssumption DEF IntegersOn
<1>5. SumOver(f, Lots) < r.cost
  BY <1>1, <1>3 DEF TaskOK, Total
<1>6. CASE CanTake(t, l)
  <2>1. PICK spend : spend = Spend(t, l)
    OBVIOUS
  <2>2. PICK missing : missing = Missing(t)
    OBVIOUS
  <2>3. missing = r.cost - SumOver(f, Lots) /\ missing \in Nat
    BY <1>2, <1>3, <1>4, <1>5, <2>2 DEF Missing, Total
  <2>4. spend \in Nat /\ spend <= missing
    BY <1>2, <2>1, <2>2, <2>3 DEF Spend
  <2>5. f[l] = 0
    BY <1>3, <1>6 DEF TakeLot, NextLots, Wanted
  <2>6. PICK g \in [Lots -> Nat] : g = [f EXCEPT ![l] = spend]
    BY <2>4
  <2>7. g[l] = spend /\ \A m \in Lots \ {l} : g[m] = f[m]
    BY <2>6
  <2>8. SumOver(g, Lots) = SumOver(f, Lots) + spend
    <3>1. IntegersOn(g, Lots)
      BY DEF IntegersOn
    <3>2. SumOver(g, Lots) = SumOver(f, Lots) + g[l] - f[l]
      BY <1>4, <2>7, <3>1, SumChanges, CreditAssumption
    <3> QED
      BY <1>4, <2>4, <2>5, <2>7, <3>2
  <2>9. PICK step \in {"passTake", "passReport"} :
            /\ task' = [task EXCEPT ![t].taken[l] = spend, ![t].at = step]
            /\ step = IF spend = missing THEN "passReport" ELSE "passTake"
    BY <1>1, <1>6, <2>1, <2>2 DEF TakeLot, Takes
  <2>10. PICK p : p = [r EXCEPT !.taken = g]
    OBVIOUS
  <2>11. /\ p \in TaskRecords /\ p.at = r.at /\ p.kind = r.kind /\ p.cost = r.cost /\ p.taken = g
    BY <1>1, <2>10, TakenIsSet
  <2>12. PICK q : task' = [task EXCEPT ![t] = q] /\ q = [p EXCEPT !.at = step]
    BY <1>1, <1>3, <2>6, <2>9, <2>10
  <2>13. /\ q \in TaskRecords /\ q.at = step /\ q.kind = r.kind /\ q.cost = r.cost /\ q.taken = g
    BY <2>11, <2>12, StepIsSet DEF SameCharge
  <2>14. TaskOK(q)
    <3>1. step = "passTake" => SumOver(g, Lots) < r.cost
      BY <1>2, <1>4, <2>3, <2>4, <2>8, <2>9
    <3>2. step = "passReport" => SumOver(g, Lots) = r.cost
      BY <1>2, <1>4, <2>3, <2>4, <2>8, <2>9
    <3> QED
      BY <1>1, <2>9, <2>13, <3>1, <3>2 DEF TaskOK, BeforeLots, Total
  <2>15. Clean(q)
    BY <2>9, <2>13 DEF Clean, PassSteps
  <2>16. LotsKept(t, q)
    <3>1. lot' = [lot EXCEPT ![l].remaining = @ - spend]
      BY <1>6, <2>1 DEF TakeLot, Takes
    <3>2. lot \in [Lots -> LotDocument]
      BY DEF LedgerInv, DataOK
    <3>3. /\ lot'[l].end = lot[l].end /\ lot'[l].remaining = lot[l].remaining - spend
          /\ \A m \in Lots \ {l} : lot'[m] = lot[m]
      BY <3>1, <3>2 DEF LotDocument
    <3>4. ASSUME NEW m \in Lots
          PROVE  /\ lot'[m].end = lot[m].end
                 /\ lot'[m].remaining + book.lots[m] + g[m] = lot[m].remaining + book.lots[m] + f[m]
      <4>1. lot[m].remaining \in Int /\ book.lots[m] \in Int /\ f[m] \in Int
        BY <3>2 DEF LotDocument, LedgerInv, DataOK, Book
      <4> QED
        BY <2>4, <2>5, <2>7, <3>3, <4>1
    <3> QED
      BY <1>1, <1>3, <2>13, <3>4 DEF LotsKept
  <2>17. FromWelcome(q) <= FromWelcome(r)
    BY <1>1, <2>9, <2>13 DEF FromWelcome
  <2>18. WelcomeKept(t, q)
    BY <1>1, <2>13, <2>17, WelcomeStays
  <2> QED
    BY <1>1, <2>12, <2>13, <2>14, <2>15, <2>16, <2>18 DEF Moves
<1>7. CASE ~CanTake(t, l)
  <2>1. PICK q : /\ task' = [task EXCEPT ![t] = q]
                 /\ q = IF r.taken = NothingTaken THEN WithoutPass(r)
                                                  ELSE [r EXCEPT !.at = "passRollback"]
    BY <1>7 DEF TakeLot
  <2>2. /\ q \in TaskRecords /\ SameCharge(q, r)
        /\ q.at = IF r.taken = NothingTaken THEN "promo" ELSE "passRollback"
    BY <1>1, <2>1, WithoutPassIsOK, StepIsSet
  <2>3. TaskOK(q) /\ Clean(q)
    BY <1>1, <2>2 DEF TaskOK, Clean, BeforeLots, PassSteps, SameCharge
  <2>4. LotsKept(t, q)
    BY <1>1, <1>7, <2>2 DEF TakeLot, LotsKept, SameCharge
  <2>5. FromWelcome(q) <= FromWelcome(r)
    BY <1>1, <2>2 DEF FromWelcome, SameCharge
  <2>6. WelcomeKept(t, q)
    BY <1>1, <2>2, <2>5, WelcomeStays
  <2> QED
    BY <1>1, <2>1, <2>2, <2>3, <2>4, <2>6 DEF Moves
<1> QED
  BY <1>6, <1>7

(* What one request held of a lot is given back, or written down as lost.  *)
LEMMA LotIsLetGo ==
    ASSUME LedgerInv, NEW t \in Tasks, NEW l \in Lots
    PROVE  \E p \in TaskRecords :
              /\ p = [task[t] EXCEPT !.taken = [task[t].taken EXCEPT ![l] = 0]]
              /\ p.at = task[t].at /\ p.kind = task[t].kind /\ p.cost = task[t].cost
              /\ p.taken[l] = 0 /\ \A m \in Lots \ {l} : p.taken[m] = task[t].taken[m]
              /\ LastTaken(t, l) => p.taken = NothingTaken
<1>1. task[t] \in TaskRecords
  BY Acting
<1>2. PICK f \in [Lots -> Nat] : f = task[t].taken
  BY <1>1 DEF TaskRecords
<1>3. PICK g : g = [f EXCEPT ![l] = 0]
  OBVIOUS
<1>4. g \in [Lots -> Nat] /\ g[l] = 0 /\ \A m \in Lots \ {l} : g[m] = f[m]
  BY <1>3
<1>5. PICK p : p = [task[t] EXCEPT !.taken = g]
  OBVIOUS
<1>6. /\ p \in TaskRecords /\ p.at = task[t].at /\ p.kind = task[t].kind
      /\ p.cost = task[t].cost /\ p.taken = g
  BY <1>1, <1>4, <1>5, TakenIsSet
<1>7. LastTaken(t, l) => g = NothingTaken
  BY <1>2, <1>4 DEF LastTaken, NothingTaken
<1> QED
  BY <1>2, <1>3, <1>4, <1>5, <1>6, <1>7

LEMMA LotIsGivenBack ==
    ASSUME LedgerInv, NEW t \in Tasks, NEW l \in Lots, GiveBack(t, l), UNCHANGED book,
           NEW q, q.taken[l] = 0, \A m \in Lots \ {l} : q.taken[m] = task[t].taken[m]
    PROVE  LotsKept(t, q)
<1>1. PICK f \in [Lots -> Nat] : f = task[t].taken
  BY Acting DEF TaskRecords
<1>2. lot \in [Lots -> LotDocument]
  BY DEF LedgerInv, DataOK
<1>3. lot' = [lot EXCEPT ![l].remaining = @ + f[l]]
  BY <1>1 DEF GiveBack
<1>4. /\ lot'[l].end = lot[l].end /\ lot'[l].remaining = lot[l].remaining + f[l]
      /\ \A m \in Lots \ {l} : lot'[m] = lot[m]
  BY <1>2, <1>3 DEF LotDocument
<1>5. ASSUME NEW m \in Lots
      PROVE  /\ lot'[m].end = lot[m].end
             /\ lot'[m].remaining + book.lots[m] + q.taken[m]
                  = lot[m].remaining + book.lots[m] + f[m]
  <2>1. lot[m].remaining \in Int /\ book.lots[m] \in Int /\ f[m] \in Int
    BY <1>2 DEF LotDocument, LedgerInv, DataOK, Book
  <2>2. CASE m = l
    BY <1>4, <2>1, <2>2
  <2>3. CASE m # l
    BY <1>1, <1>4, <2>3
  <2> QED
    BY <2>2, <2>3
<1> QED
  BY <1>1, <1>5 DEF LotsKept

LEMMA LotsComeBack ==
    ASSUME LedgerInv, NEW t \in Tasks, NEW l \in Lots, RollBackLot(t, l) \/ RefundLot(t, l)
    PROVE  \E q : Moves(t, q)
<1> DEFINE r == task[t]
<1> USE DEF At, Steps, ChargeSteps, RefundSteps
<1>1. /\ r \in TaskRecords /\ TaskOK(r) /\ task \in [Tasks -> TaskRecords]
      /\ UNCHANGED <<welcome, faults, book>> /\ GiveBack(t, l)
  BY Acting DEF LedgerInv, TasksOK, RollBackLot, RefundLot
<1>2. PICK p \in TaskRecords :
          /\ p = [r EXCEPT !.taken = [r.taken EXCEPT ![l] = 0]]
          /\ p.at = r.at /\ p.kind = r.kind /\ p.cost = r.cost
          /\ p.taken[l] = 0 /\ \A m \in Lots \ {l} : p.taken[m] = r.taken[m]
          /\ LastTaken(t, l) => p.taken = NothingTaken
  BY LotIsLetGo
<1>3. p = [r EXCEPT !.taken[l] = 0]
  BY <1>2
<1>4. CASE RollBackLot(t, l)
  <2>1. r.at = "passRollback"
    BY <1>4 DEF RollBackLot
  <2>2. PICK q : /\ task' = [task EXCEPT ![t] = q]
                 /\ q = IF LastTaken(t, l) THEN WithoutPass(p) ELSE p
    BY <1>3, <1>4 DEF RollBackLot
  <2>3. /\ q \in TaskRecords /\ SameCharge(q, p)
        /\ q.at = IF LastTaken(t, l) THEN "promo" ELSE "passRollback"
    BY <1>2, <2>1, <2>2, WithoutPassIsOK, ZenonT(60) DEF SameCharge
  <2>4. TaskOK(q) /\ Clean(q)
    BY <1>1, <1>2, <2>1, <2>3 DEF TaskOK, Clean, BeforeLots, PassSteps, SameCharge
  <2>5. LotsKept(t, q)
    <3>1. q.taken[l] = 0 /\ \A m \in Lots \ {l} : q.taken[m] = task[t].taken[m]
      BY <1>2, <2>3 DEF SameCharge
    <3> QED
      BY <1>1, <3>1, LotIsGivenBack
  <2>6. FromWelcome(q) <= FromWelcome(r)
    BY <1>1, <1>2, <2>1, <2>3 DEF FromWelcome, SameCharge, TaskRecords
  <2>7. WelcomeKept(t, q)
    BY <1>1, <2>3, <2>6, WelcomeStays
  <2> QED
    BY <1>1, <2>2, <2>3, <2>4, <2>5, <2>7 DEF Moves
<1>5. CASE RefundLot(t, l)
  <2>1. r.at = "refundLots"
    BY <1>5 DEF RefundLot
  <2>2. PICK q : /\ task' = [task EXCEPT ![t] = q]
                 /\ q = IF LastTaken(t, l) THEN Idle ELSE p
    BY <1>3, <1>5 DEF RefundLot
  <2>3. /\ q \in TaskRecords
        /\ q.at = "idle" \/ (q.at = "refundLots" /\ q.kind = r.kind /\ q.cost = r.cost)
        /\ q.at = "idle" => q = Idle
    BY <1>2, <2>1, <2>2, IdleIsOK
  <2>4. q.taken[l] = 0 /\ \A m \in Lots \ {l} : q.taken[m] = r.taken[m]
    BY <1>2, <2>2, IdleIsOK DEF LastTaken, NothingTaken
  <2>5. TaskOK(q) /\ Clean(q)
    BY <1>1, <2>1, <2>3, IdleIsOK DEF TaskOK, Clean, BeforeLots, PassSteps
  <2>6. LotsKept(t, q)
    BY <1>1, <2>4, LotIsGivenBack
  <2>7. FromWelcome(q) <= FromWelcome(r)
    BY <1>1, <2>3, IdleIsOK DEF FromWelcome, TaskRecords
  <2>8. WelcomeKept(t, q)
    BY <1>1, <2>3, <2>7, WelcomeStays
  <2> QED
    BY <1>1, <2>2, <2>3, <2>5, <2>6, <2>8 DEF Moves
<1> QED
  BY <1>4, <1>5

LEMMA PassMoves ==
    ASSUME LedgerInv, NEW t \in Tasks, PassStep(t)
    PROVE  \E q : Moves(t, q)
  BY LotsAreAsked, LotIsTaken, LotsComeBack DEF PassStep

(***************************************************************************)
(* The welcome credits and the quota of the day.                           *)
(***************************************************************************)
(* What a request keeps when it tries a free bucket.                       *)
LEMMA PromoIsRead ==
    ASSUME LedgerInv, NEW t \in Tasks, NEW promo \in Promos, ReadPromo(t, promo)
    PROVE  \E q : Moves(t, q)
<1> DEFINE r == task[t]
<1> USE DEF At, Steps, ChargeSteps, RefundSteps
<1>1. /\ r \in TaskRecords /\ TaskOK(r) /\ task \in [Tasks -> TaskRecords] /\ r.at = "promo"
      /\ UNCHANGED <<welcome, lot, faults>> /\ r.cost \in Nat /\ r.taken \in [Lots -> Nat]
      /\ r.kind = "none"
  BY Acting DEF LedgerInv, TasksOK, ReadPromo, TaskRecords, TaskOK
<1>2. CASE Served(t, "none") /\ UNCHANGED book
  BY <1>1, <1>2, IsServed DEF NothingMoves, PassSteps, Kinds
<1>3. CASE Ends(t)
  BY <1>1, <1>3, IsOver
<1>4. CASE ~(Served(t, "none") /\ UNCHANGED book) /\ ~Ends(t)
  <2>1. PICK step \in {"welcomeTake", "daily"}, limit \in Nat :
            /\ UNCHANGED book
            /\ task' = [task EXCEPT ![t] = [Idle EXCEPT !.at = step, !.cost = r.cost,
                                                        !.taken = r.taken, !.limit = limit]]
    <3>1. LimitWith(promo) \in Nat
      BY CreditAssumption DEF LimitWith
    <3> QED
      BY <1>4, <3>1 DEF ReadPromo
  <2>2. PICK s : s = [Idle EXCEPT !.at = step]
    OBVIOUS
  <2>3. s \in TaskRecords /\ s.at = step /\ s.kind = "none"
    BY <2>2, StepIsSet, IdleIsOK DEF SameCharge
  <2>4. PICK c : c = [s EXCEPT !.cost = r.cost]
    OBVIOUS
  <2>5. c \in TaskRecords /\ c.at = step /\ c.kind = "none" /\ c.cost = r.cost
    BY <1>1, <2>3, <2>4, CostIsSet
  <2>6. PICK n : n = [c EXCEPT !.taken = r.taken]
    OBVIOUS
  <2>7. /\ n \in TaskRecords /\ n.at = step /\ n.kind = "none" /\ n.cost = r.cost
        /\ n.taken = r.taken
    BY <1>1, <2>5, <2>6, TakenIsSet
  <2>8. PICK q : task' = [task EXCEPT ![t] = q] /\ q = [n EXCEPT !.limit = limit]
    BY <2>1, <2>2, <2>4, <2>6
  <2>9. q \in TaskRecords /\ q.at = step /\ SameCharge(q, r)
    BY <1>1, <2>7, <2>8, ReadingIsSet DEF SameCharge
  <2> QED
    BY <1>1, <2>1, <2>8, <2>9, GoesOn DEF NothingMoves, Plain, PassSteps, BeforeLots
<1> QED
  BY <1>2, <1>3, <1>4

(* The welcome pool covers what is taken from it and given back to it.     *)
LEMMA WelcomeIsTaken ==
    ASSUME LedgerInv, NEW t \in Tasks, TakeWelcome(t) \/ MarkExhausted(t) \/ RefundWelcome(t)
    PROVE  \E q : Moves(t, q)
<1> DEFINE r == task[t]
<1> USE DEF At, Steps, ChargeSteps, RefundSteps
<1>1. /\ r \in TaskRecords /\ TaskOK(r) /\ (faults = 0 => Clean(r)) /\ task \in [Tasks -> TaskRecords]
      /\ UNCHANGED <<lot, faults>> /\ r.cost \in Nat
  BY Acting DEF LedgerInv, TasksOK, TakeWelcome, MarkExhausted, RefundWelcome, TaskRecords
<1>2. /\ welcome \in WelcomePool /\ welcome.used \in Int /\ welcome.used <= WelcomeLimit
      /\ WelcomeLimit \in Nat
  BY CreditAssumption DEF LedgerInv, DataOK, WelcomePool, WelcomeOK
<1>3. CASE TakeWelcome(t) /\ WelcomeCovers(r.cost)
  <2>1. /\ r.at = "welcomeTake" /\ r.kind = "none" /\ UNCHANGED book
        /\ faults = 0 => r.taken = NothingTaken
    BY <1>1, <1>3 DEF TakeWelcome, TaskOK, Clean, PassSteps
  <2>2. welcome'.used = welcome.used + r.cost /\ welcome'.used <= WelcomeLimit
    BY <1>2, <1>3 DEF TakeWelcome, WelcomeCovers, WelcomePool
  <2>3. PICK q : /\ task' = [task EXCEPT ![t] = q]
                 /\ q = [r EXCEPT !.at = "welcomeMark"] \/ q = ServedBy("welcome", r)
    BY <1>3 DEF TakeWelcome, Goes, Served
  <2>4. /\ q \in TaskRecords /\ q.cost = r.cost /\ q.taken = r.taken
        /\ \/ q.at = "welcomeMark" /\ q.kind = "none"
           \/ q.at = "served" /\ q.kind = "welcome"
    <3>1. r.taken \in [Lots -> Nat] /\ r.date \in Nat
      BY <1>1 DEF TaskRecords
    <3>2. CASE q = [r EXCEPT !.at = "welcomeMark"]
      BY <1>1, <2>1, <3>2, StepIsSet DEF SameCharge
    <3>3. CASE q = ServedBy("welcome", r)
      BY <1>1, <3>1, <3>3, ServedIsOK DEF Kinds
    <3> QED
      BY <2>3, <3>2, <3>3
  <2>5. TaskOK(q) /\ (faults = 0 => Clean(q))
    BY <1>1, <2>1, <2>4 DEF TaskOK, Clean, BeforeLots
  <2>6. LotsKept(t, q)
    BY <1>1, <2>1, <2>4 DEF LotsKept
  <2>7. FromWelcome(q) = r.cost /\ FromWelcome(r) = 0
    BY <2>1, <2>4 DEF FromWelcome
  <2>8. WelcomeKept(t, q)
    BY <1>1, <1>2, <2>2, <2>7 DEF WelcomeKept
  <2> QED
    BY <1>1, <2>3, <2>4, <2>5, <2>6, <2>8 DEF Moves
<1>4. CASE TakeWelcome(t) /\ ~WelcomeCovers(r.cost)
  <2>1. PICK q : task' = [task EXCEPT ![t] = q] /\ q = [r EXCEPT !.at = "welcomeFresh"]
    BY <1>4 DEF TakeWelcome, Goes
  <2>2. q \in TaskRecords /\ q.at = "welcomeFresh" /\ SameCharge(q, r) /\ r.at = "welcomeTake"
    BY <1>1, <1>4, <2>1, StepIsSet DEF TakeWelcome
  <2> QED
    BY <1>1, <1>4, <2>1, <2>2, GoesOn DEF TakeWelcome, NothingMoves, Plain, PassSteps, BeforeLots
<1>5. CASE MarkExhausted(t)
  <2>1. /\ r.at = "welcomeMark" /\ UNCHANGED book /\ Served(t, "welcome")
        /\ faults = 0 => r.taken = NothingTaken
    BY <1>1, <1>5 DEF MarkExhausted, Clean, PassSteps
  <2>2. PICK q : task' = [task EXCEPT ![t] = q] /\ q = ServedBy("welcome", r)
    BY <2>1 DEF Served
  <2>3. /\ q \in TaskRecords /\ q.cost = r.cost /\ q.taken = r.taken
        /\ q.at = "served" /\ q.kind = "welcome"
    <3>1. r.taken \in [Lots -> Nat] /\ r.date \in Nat
      BY <1>1 DEF TaskRecords
    <3> QED
      BY <1>1, <2>2, <3>1, ServedIsOK DEF Kinds
  <2>4. TaskOK(q) /\ (faults = 0 => Clean(q))
    BY <1>1, <2>1, <2>3 DEF TaskOK, Clean, BeforeLots
  <2>5. LotsKept(t, q)
    BY <1>1, <2>1, <2>3 DEF LotsKept
  <2>6. FromWelcome(q) = r.cost /\ FromWelcome(r) = r.cost
    BY <2>1, <2>3 DEF FromWelcome
  <2>7. welcome'.used = welcome.used
    BY <1>2, <1>5 DEF MarkExhausted, WelcomePool
  <2>8. WelcomeKept(t, q)
    BY <1>1, <1>2, <2>6, <2>7 DEF WelcomeKept
  <2> QED
    BY <1>1, <2>2, <2>3, <2>4, <2>5, <2>8 DEF Moves
<1>6. CASE RefundWelcome(t)
  <2>1. r.at = "refundWelcome" /\ r.kind = "welcome" /\ Ends(t)
    BY <1>1, <1>6 DEF RefundWelcome, TaskOK
  <2>2. welcome'.used = welcome.used - r.cost
    BY <1>6 DEF RefundWelcome
  <2>3. TaskOK(Idle) /\ Clean(Idle)
    BY IdleIsOK DEF TaskOK, Clean, PassSteps, BeforeLots
  <2>4. \A l \in Lots : book'.lots[l] = book.lots[l] + r.taken[l]
    BY <2>1 DEF Ends, LedgerInv, DataOK, Book
  <2>5. \A l \in Lots : /\ lot[l].remaining \in Nat /\ book.lots[l] \in Nat /\ r.taken[l] \in Nat
                        /\ Idle.taken[l] = 0
    BY <1>1, IdleIsOK DEF LedgerInv, DataOK, Book, LotDocument, TaskRecords, NothingTaken
  <2>6. LotsKept(t, Idle)
    BY <1>1, <2>4, <2>5 DEF LotsKept
  <2>7. FromWelcome(Idle) = 0 /\ FromWelcome(r) = r.cost
    BY <2>1, IdleIsOK DEF FromWelcome
  <2>8. WelcomeKept(t, Idle)
    BY <1>1, <1>2, <2>2, <2>7 DEF WelcomeKept
  <2> QED
    BY <1>1, <2>1, <2>3, <2>6, <2>8, IdleIsOK DEF Moves, Ends
<1> QED
  BY <1>3, <1>4, <1>5, <1>6

LEMMA QuotaIsTaken ==
    ASSUME LedgerInv, NEW t \in Tasks,
           ReadUserAgain(t) \/ ReadQuota(t) \/ AddQuota(t) \/ StartQuota(t)
    PROVE  \E q : Moves(t, q)
<1> DEFINE r == task[t]
<1> USE DEF At, Steps, ChargeSteps, RefundSteps
<1>1. /\ r \in TaskRecords /\ TaskOK(r) /\ (faults = 0 => Clean(r)) /\ task \in [Tasks -> TaskRecords]
      /\ UNCHANGED <<welcome, lot, faults>>
  BY Acting DEF LedgerInv, TasksOK, ReadUserAgain, ReadQuota, AddQuota, StartQuota
<1>2. CASE ReadUserAgain(t)
  <2>1. CASE Ends(t)
    BY <1>1, <2>1, IsOver
  <2>2. CASE ~Ends(t)
    <3>1. PICK q : /\ task' = [task EXCEPT ![t] = q] /\ q = [r EXCEPT !.at = "daily"]
                   /\ UNCHANGED book /\ r.at = "welcomeFresh"
      BY <1>2, <2>2 DEF ReadUserAgain, Goes
    <3>2. q \in TaskRecords /\ q.at = "daily" /\ SameCharge(q, r)
      BY <1>1, <3>1, StepIsSet
    <3> QED
      BY <1>1, <3>1, <3>2, GoesOn DEF NothingMoves, Plain, PassSteps, BeforeLots
  <2> QED
    BY <2>1, <2>2
<1>3. CASE ReadQuota(t)
  <2>1. CASE Ends(t)
    BY <1>1, <2>1, IsOver
  <2>2. CASE ~Ends(t)
    <3>1. PICK step \in {"dailyAdd", "dailyNew"}, date \in Nat :
              /\ UNCHANGED book /\ r.at = "daily"
              /\ task' = [task EXCEPT ![t].at = step, ![t].date = date]
      BY <1>3, <2>2, TodayIsADate DEF ReadQuota
    <3>2. PICK s : s = [r EXCEPT !.at = step]
      OBVIOUS
    <3>3. s \in TaskRecords /\ s.at = step /\ SameCharge(s, r)
      BY <1>1, <3>2, StepIsSet
    <3>4. PICK q : task' = [task EXCEPT ![t] = q] /\ q = [s EXCEPT !.date = date]
      BY <1>1, <3>1, <3>2
    <3>5. q \in TaskRecords /\ q.at = step /\ SameCharge(q, r)
      BY <3>3, <3>4, ReadingIsSet DEF SameCharge
    <3> QED
      BY <1>1, <3>1, <3>4, <3>5, GoesOn DEF NothingMoves, Plain, PassSteps, BeforeLots
  <2> QED
    BY <2>1, <2>2
<1>4. CASE AddQuota(t)
  BY <1>1, <1>4, IsServed DEF AddQuota, NothingMoves, PassSteps, Kinds
<1>5. CASE StartQuota(t)
  <2>1. PICK date \in Nat : date = Today
    BY TodayIsADate
  <2>2. PICK s : s = [r EXCEPT !.date = date]
    OBVIOUS
  <2>3. s \in TaskRecords /\ s.at = r.at /\ SameCharge(s, r)
    BY <1>1, <2>2, ReadingIsSet
  <2>4. PICK q : task' = [task EXCEPT ![t] = q] /\ q = ServedBy("daily", s)
    BY <1>5, <2>1, <2>2 DEF StartQuota
  <2>5. s.cost \in Nat /\ s.taken \in [Lots -> Nat] /\ s.date \in Nat
    BY <2>3 DEF TaskRecords
  <2>6. q \in TaskRecords /\ q.at = "served" /\ q.kind = "daily" /\ q.cost = s.cost /\ q.taken = s.taken
    BY <2>4, <2>5, ServedIsOK DEF Kinds
  <2>7. r.at = "dailyNew" /\ UNCHANGED book
    BY <1>5 DEF StartQuota
  <2>8. TaskOK(q) /\ (faults = 0 => Clean(q))
    BY <1>1, <2>3, <2>6, <2>7 DEF TaskOK, Clean, BeforeLots, PassSteps, SameCharge
  <2>9. LotsKept(t, q)
    BY <1>1, <2>3, <2>6, <2>7 DEF LotsKept, SameCharge
  <2>10. FromWelcome(q) <= FromWelcome(r)
    BY <1>1, <2>6, <2>7 DEF FromWelcome, TaskOK
  <2>11. WelcomeKept(t, q)
    BY <1>1, <2>6, <2>10, WelcomeStays
  <2> QED
    BY <1>1, <2>4, <2>6, <2>8, <2>9, <2>11 DEF Moves
<1> QED
  BY <1>2, <1>3, <1>4, <1>5

LEMMA FreeMoves ==
    ASSUME LedgerInv, NEW t \in Tasks, FreeStep(t)
    PROVE  \E q : Moves(t, q)
  BY PromoIsRead, WelcomeIsTaken, QuotaIsTaken DEF FreeStep

(***************************************************************************)
(* The first and the last step of a request, and its failures.             *)
(***************************************************************************)
LEMMA RequestBegins ==
    ASSUME LedgerInv, NEW t \in Tasks, NEW cost \in Costs, Charge(t, cost) \/ UserUnread(t, cost)
    PROVE  \E q : Moves(t, q)
<1> DEFINE r == task[t]
<1> USE DEF At, Steps, ChargeSteps, RefundSteps
<1>1. /\ r \in TaskRecords /\ TaskOK(r) /\ r.at = "idle" /\ cost \in Nat /\ cost > 0
      /\ r.taken = NothingTaken /\ UNCHANGED <<welcome, lot, book>>
      /\ faults' = 0 => faults = 0
  BY Acting, CreditAssumption DEF Charge, UserUnread, TaskOK, LedgerInv, DataOK
<1>2. CASE Charge(t, cost)
  <2>1. PICK s : s = [Idle EXCEPT !.at = "readPool"]
    OBVIOUS
  <2>2. s \in TaskRecords /\ s.at = "readPool" /\ SameCharge(s, Idle)
    BY <2>1, StepIsSet, IdleIsOK
  <2>3. PICK c : c = [s EXCEPT !.cost = cost]
    OBVIOUS
  <2>4. /\ c \in TaskRecords /\ c.at = "readPool" /\ c.cost = cost /\ c.kind = "none"
        /\ c.taken = NothingTaken
    BY <1>1, <2>2, <2>3, CostIsSet, IdleIsOK DEF SameCharge
  <2>5. PICK seen \in WelcomePool : seen = welcome
    BY DEF LedgerInv, DataOK
  <2>6. PICK q : task' = [task EXCEPT ![t] = q] /\ q = [c EXCEPT !.seen = seen]
    BY <1>2, <2>1, <2>3, <2>5 DEF Charge
  <2>7. q \in TaskRecords /\ q.at = "readPool" /\ SameCharge(q, c)
    BY <2>4, <2>6, ReadingIsSet
  <2>8. TaskOK(q) /\ Clean(q)
    BY <2>4, <2>7 DEF TaskOK, Clean, BeforeLots, PassSteps, SameCharge
  <2>9. LotsKept(t, q)
    BY <1>1, <2>4, <2>7 DEF LotsKept, SameCharge
  <2>10. FromWelcome(q) = 0 /\ FromWelcome(r) \in Nat
    BY <1>1, <2>4, <2>7 DEF FromWelcome, SameCharge, TaskRecords
  <2>11. WelcomeKept(t, q)
    BY <1>1, <2>7, <2>10, WelcomeStays
  <2> QED
    BY <1>1, <2>6, <2>7, <2>8, <2>9, <2>11 DEF Moves
<1>3. CASE UserUnread(t, cost)
  <2>1. PICK c : c = [Idle EXCEPT !.cost = cost]
    OBVIOUS
  <2>2. /\ c \in TaskRecords /\ c.cost = cost /\ c.taken = NothingTaken
    BY <1>1, <2>1, CostIsSet, IdleIsOK
  <2>3. c.taken \in [Lots -> Nat] /\ c.date \in Nat
    BY <2>2 DEF TaskRecords
  <2>4. PICK q : task' = [task EXCEPT ![t] = q] /\ q = ServedBy("none", c)
    BY <1>3, <2>1 DEF UserUnread
  <2>5. q \in TaskRecords /\ q.at = "served" /\ q.kind = "none" /\ q.cost = cost /\ q.taken = NothingTaken
    BY <1>1, <2>2, <2>3, <2>4, ServedIsOK DEF Kinds
  <2>6. TaskOK(q) /\ Clean(q)
    BY <2>5 DEF TaskOK, Clean, BeforeLots, PassSteps
  <2>7. LotsKept(t, q)
    BY <1>1, <2>5 DEF LotsKept
  <2>8. FromWelcome(q) = 0 /\ FromWelcome(r) \in Nat
    BY <1>1, <2>5 DEF FromWelcome, TaskRecords
  <2>9. WelcomeKept(t, q)
    BY <1>1, <2>5, <2>8, WelcomeStays
  <2> QED
    BY <1>1, <2>4, <2>5, <2>6, <2>7, <2>9 DEF Moves
<1> QED
  BY <1>2, <1>3

LEMMA RequestEnds ==
    ASSUME LedgerInv, NEW t \in Tasks, Answered(t) \/ Refund(t)
    PROVE  \E q : Moves(t, q)
<1> DEFINE r == task[t]
<1> USE DEF At, Steps, ChargeSteps, RefundSteps
<1>1. r \in TaskRecords /\ r.at = "served" /\ UNCHANGED <<welcome, lot, faults>>
  BY Acting DEF Answered, Refund
<1>2. CASE Answered(t)
  BY <1>1, <1>2, IsOver DEF Answered
<1>3. CASE Refund(t)
  <2>1. PICK first : first = FirstRefundStep(r.kind)
    OBVIOUS
  <2>2. UNCHANGED book /\ first \in RefundSteps /\ (first = "refundWelcome" => r.kind = "welcome")
    <3>1. r.kind \in {"pool", "pass", "welcome", "daily"} /\ UNCHANGED book
      BY <1>1, <1>3 DEF Refund, TaskRecords, Kinds
    <3>2. CASE r.kind \in {"pool", "daily"}
      BY <2>1, <3>1, <3>2 DEF FirstRefundStep
    <3>3. CASE r.kind = "pass"
      BY <2>1, <3>1, <3>3 DEF FirstRefundStep
    <3>4. CASE r.kind = "welcome"
      BY <2>1, <3>1, <3>4 DEF FirstRefundStep
    <3> QED
      BY <3>1, <3>2, <3>3, <3>4
  <2>3. PICK q : task' = [task EXCEPT ![t] = q] /\ q = [r EXCEPT !.at = first]
    BY <1>3, <2>1 DEF Refund, Goes
  <2>4. q \in TaskRecords /\ q.at = first /\ SameCharge(q, r)
    BY <1>1, <2>2, <2>3, StepIsSet
  <2>5. q.at = "refundWelcome" => q.kind = "welcome"
    BY <2>2, <2>4 DEF SameCharge
  <2> QED
    BY <1>1, <2>2, <2>3, <2>4, <2>5, GoesBack DEF NothingMoves
<1> QED
  BY <1>2, <1>3

(* A call raises, or the process stops.                                    *)
LEMMA RequestFails ==
    ASSUME LedgerInv, NEW t \in Tasks, Fault(t)
    PROVE  \E q : Moves(t, q)
<1> DEFINE r == task[t]
<1> USE DEF At, Steps, ChargeSteps, RefundSteps
<1>1. /\ r \in TaskRecords /\ TaskOK(r) /\ task \in [Tasks -> TaskRecords]
      /\ UNCHANGED <<lot, welcome>> /\ faults' # 0
  BY Acting DEF Fault, LedgerInv, TasksOK, DataOK
<1>2. CASE Ends(t)
  BY <1>1, <1>2, IsOver
<1>3. ASSUME NEW l \in Lots, LotRefundRaises(t, l) PROVE \E q : Moves(t, q)
  <2>1. r.at = "refundLots"
    BY <1>3 DEF LotRefundRaises
  <2>2. PICK p \in TaskRecords :
            /\ p = [r EXCEPT !.taken = [r.taken EXCEPT ![l] = 0]]
            /\ p.at = r.at /\ p.kind = r.kind /\ p.cost = r.cost
            /\ p.taken[l] = 0 /\ \A m \in Lots \ {l} : p.taken[m] = r.taken[m]
            /\ LastTaken(t, l) => p.taken = NothingTaken
    BY LotIsLetGo
  <2>3. p = [r EXCEPT !.taken[l] = 0]
    BY <2>2
  <2>4. PICK q : task' = [task EXCEPT ![t] = q] /\ q = IF LastTaken(t, l) THEN Idle ELSE p
    BY <1>3, <2>3 DEF LotRefundRaises
  <2>5. /\ q \in TaskRecords
        /\ q.at = "idle" \/ (q.at = "refundLots" /\ q.kind = r.kind /\ q.cost = r.cost)
        /\ q.at = "idle" => q = Idle
        /\ q.taken[l] = 0 /\ \A m \in Lots \ {l} : q.taken[m] = r.taken[m]
    BY <2>1, <2>2, <2>4, IdleIsOK DEF LastTaken, NothingTaken
  <2>6. TaskOK(q)
    BY <1>1, <2>1, <2>5, IdleIsOK DEF TaskOK, BeforeLots
  <2>7. LotsKept(t, q)
    <3>1. book' = [book EXCEPT !.lots = [book.lots EXCEPT ![l] = @ + r.taken[l]]]
      BY <1>3 DEF LotRefundRaises
    <3>2. book.lots \in [Lots -> Nat] /\ book'.lots = [book.lots EXCEPT ![l] = @ + r.taken[l]]
      BY <3>1 DEF LedgerInv, DataOK, Book
    <3>3. \A m \in Lots : book'.lots[m] = IF m = l THEN book.lots[m] + r.taken[m] ELSE book.lots[m]
      BY <3>2
    <3>4. \A m \in Lots : lot[m].remaining \in Nat /\ book.lots[m] \in Nat /\ r.taken[m] \in Nat
      BY <1>1, <3>2 DEF LedgerInv, DataOK, LotDocument, TaskRecords
    <3> QED
      BY <1>1, <2>5, <3>3, <3>4 DEF LotsKept
  <2>8. FromWelcome(q) <= FromWelcome(r)
    BY <1>1, <2>1, <2>5, IdleIsOK DEF FromWelcome, TaskRecords
  <2>9. WelcomeKept(t, q)
    BY <1>1, <2>5, <2>8, WelcomeStays
  <2> QED
    BY <1>1, <2>4, <2>5, <2>6, <2>7, <2>9 DEF Moves
<1>4. CASE Raises(t) /\ ~Ends(t)
  <2>1. /\ \/ r.at \in SwallowedAsNoPool /\ Goes(t, "passSummary")
           \/ r.at \in SwallowedAsNoPass /\ task' = [task EXCEPT ![t] = WithoutPass(@)]
           \/ r.at \in SwallowedBySync /\ Served(t, "pool")
           \/ r.at \in FailsOpen /\ Served(t, "none")
        /\ UNCHANGED book
    BY <1>4 DEF Raises
  <2>2. CASE Served(t, "pool") \/ Served(t, "none")
    BY <1>1, <2>1, <2>2, IsServed DEF NothingMoves, Kinds, SwallowedBySync, FailsOpen,
       SwallowedAsNoPool, SwallowedAsNoPass
  <2>3. CASE \/ r.at \in SwallowedAsNoPool /\ Goes(t, "passSummary")
             \/ r.at \in SwallowedAsNoPass /\ task' = [task EXCEPT ![t] = WithoutPass(@)]
    <3>1. PICK q : /\ task' = [task EXCEPT ![t] = q]
                   /\ \/ q = [r EXCEPT !.at = "passSummary"] /\ r.at = "readPool"
                      \/ q = WithoutPass(r) /\ r.at \in SwallowedAsNoPass
      BY <2>3 DEF Goes, SwallowedAsNoPool
    <3>2. /\ q \in TaskRecords /\ SameCharge(q, r)
          /\ \/ q.at = "promo" /\ r.at \in SwallowedAsNoPass
             \/ q.at = "passSummary" /\ r.at = "readPool"
      BY <1>1, <3>1, WithoutPassIsOK, StepIsSet
    <3>3. TaskOK(q)
      BY <1>1, <3>2 DEF TaskOK, BeforeLots, SameCharge, SwallowedAsNoPass
    <3>4. LotsKept(t, q)
      BY <1>1, <2>1, <3>2 DEF LotsKept, SameCharge
    <3>5. FromWelcome(q) <= FromWelcome(r)
      BY <1>1, <3>2 DEF FromWelcome, SameCharge, TaskRecords, SwallowedAsNoPass
    <3>6. WelcomeKept(t, q)
      BY <1>1, <3>2, <3>5, WelcomeStays
    <3> QED
      BY <1>1, <3>1, <3>2, <3>3, <3>4, <3>6 DEF Moves
  <2> QED
    BY <2>1, <2>2, <2>3
<1> QED
  BY <1>1, <1>2, <1>3, <1>4 DEF Fault, Crash

LEMMA RequestsMove ==
    ASSUME LedgerInv, NEW t \in Tasks, RequestStep(t)
    PROVE  \E q : Moves(t, q)
  BY RequestBegins, PoolMoves, PassMoves, FreeMoves, RequestEnds, RequestFails DEF RequestStep

(***************************************************************************)
(* The documents keep their types.                                         *)
(***************************************************************************)
Unwritten == UNCHANGED <<now, sub, usage, welcome, lot>>

(* What a request that is over took is added to the book.                  *)
LEMMA LotsAreAdded ==
    ASSUME NEW b \in Book, NEW g \in [Lots -> Nat], NEW c,
           c = [b EXCEPT !.lots = [l \in Lots |-> b.lots[l] + g[l]]]
    PROVE  c \in Book
<1>1. PICK h \in [Lots -> Nat] : h = b.lots
  BY DEF Book
<1>2. PICK f : f = [l \in Lots |-> h[l] + g[l]]
  OBVIOUS
<1>3. f \in [Lots -> Nat]
  BY <1>2
<1>4. c = [b EXCEPT !.lots = f]
  BY <1>1, <1>2
<1> QED
  BY <1>3, <1>4 DEF Book

LEMMA BookIsKept ==
    ASSUME LedgerInv, NEW t \in Tasks, book' = book \/ Ends(t)
    PROVE  book' \in Book
<1>1. CASE book' = book
  BY <1>1 DEF LedgerInv, DataOK
<1>2. CASE Ends(t)
  <2>1. book \in Book /\ task[t].taken \in [Lots -> Nat]
    BY Acting DEF LedgerInv, DataOK, TaskRecords
  <2>2. book' = [book EXCEPT !.lots = [l \in Lots |-> book.lots[l] + task[t].taken[l]]]
    BY <1>2 DEF Ends
  <2> QED
    BY <2>1, <2>2, LotsAreAdded
<1> QED
  BY <1>1, <1>2

LEMMA UsageIsAdded ==
    ASSUME LedgerInv, NEW cost \in Nat, AddUsage(cost) \/ RollBackUsage(cost)
    PROVE  usage' \in [Dates -> UsageDocument]
<1>1. usage \in [Dates -> UsageDocument]
  BY DEF LedgerInv, DataOK
<1>2. CASE AddUsage(cost)
  <2>1. PICK u : u = [there |-> TRUE, used |-> usage[Today].used + cost]
    OBVIOUS
  <2>2. usage' = [usage EXCEPT ![Today] = u]
    BY <1>2, <2>1 DEF AddUsage
  <2>3. Today \in Dates => u \in UsageDocument
    BY <1>1, <2>1 DEF UsageDocument
  <2> QED
    BY <1>1, <2>2, <2>3
<1>3. CASE RollBackUsage(cost)
  <2>1. PICK n : n = IF usage[Today].there THEN usage[Today].used - cost ELSE usage[Today].used
    OBVIOUS
  <2>2. usage' = [usage EXCEPT ![Today].used = n]
    BY <1>3, <2>1 DEF RollBackUsage
  <2>3. Today \in Dates /\ n \in Int
    BY <1>1, <2>1, TodayIsADate DEF UsageDocument
  <2> QED
    BY <1>1, <2>2, <2>3 DEF UsageDocument
<1> QED
  BY <1>2, <1>3

LEMMA BalanceIsWritten ==
    ASSUME LedgerInv, NEW balance \in Nat, SetRemaining(balance)
    PROVE  sub' \in Document(Purchases)
<1>1. sub \in Document(Purchases)
  BY DEF LedgerInv, DataOK
<1>2. PICK n : n = IF sub.exists THEN balance ELSE sub.remaining
  OBVIOUS
<1>3. n \in Nat /\ sub' = [sub EXCEPT !.remaining = n]
  BY <1>1, <1>2 DEF SetRemaining, Document
<1> QED
  BY <1>1, <1>3 DEF Document

LEMMA PoolIsTyped ==
    ASSUME LedgerInv, NEW t \in Tasks, PoolStep(t)
    PROVE  DataOK'
<1> DEFINE r == task[t]
<1>1. DataOK /\ r \in TaskRecords /\ r.cost \in Nat /\ r.balance \in Nat /\ r.taken \in [Lots -> Nat]
  BY Acting DEF LedgerInv, TaskRecords
<1>2. UNCHANGED <<now, welcome, lot, faults>>
  BY DEF PoolStep, ReadPool, PoolUsage, PoolCheck, PoolIncrement, PoolBalance, PoolSync, RefundUsage,
     RefundRead, RefundActive, RefundBalance, RefundSync
<1>3. CASE PoolIncrement(t)
  <2>1. usage' \in [Dates -> UsageDocument]
    BY <1>1, <1>3, UsageIsAdded DEF PoolIncrement
  <2>2. book' \in Book
    BY <1>1, <1>3 DEF PoolIncrement, DataOK, Book
  <2>3. sub' = sub
    BY <1>3 DEF PoolIncrement
  <2> QED
    BY <1>1, <1>2, <2>1, <2>2, <2>3 DEF DataOK
<1>4. CASE RefundUsage(t)
  <2>1. usage' \in [Dates -> UsageDocument]
    BY <1>1, <1>4, UsageIsAdded DEF RefundUsage
  <2>3. PICK s \in Nat :
            s = IF r.date # Today /\ usage[Today].there THEN book.strayed + r.cost ELSE book.strayed
    BY <1>1 DEF DataOK, Book
  <2>4. PICK c \in Int : c = IF r.kind = "pool" THEN book.charged - r.cost ELSE book.charged
    BY <1>1 DEF DataOK, Book
  <2>2. PICK b : b = [book EXCEPT !.charged = c, !.strayed = s]
    OBVIOUS
  <2>5. b \in Book /\ b.lots = book.lots
    BY <1>1, <2>2, <2>3, <2>4 DEF DataOK, Book
  <2>6. book' \in Book
    <3>1. CASE r.kind = "pool"
      <4>1. book' = b
        BY <1>1, <1>4, <2>2, <2>3, <2>4, <3>1 DEF RefundUsage, DataOK, Book
      <4> QED
        BY <2>5, <4>1
    <3>2. CASE r.kind # "pool"
      <4>1. book' = [b EXCEPT !.lots = [l \in Lots |-> b.lots[l] + r.taken[l]]]
        BY <1>1, <1>4, <2>2, <2>3, <2>4, <2>5, <3>2 DEF RefundUsage, DataOK, Book
      <4> QED
        BY <1>1, <2>5, <4>1, LotsAreAdded
    <3> QED
      BY <3>1, <3>2
  <2>7. sub' = sub
    BY <1>4 DEF RefundUsage
  <2> QED
    BY <1>1, <1>2, <2>1, <2>6, <2>7 DEF DataOK
<1>5. CASE PoolSync(t) \/ RefundSync(t)
  <2>1. sub' \in Document(Purchases)
    BY <1>1, <1>5, BalanceIsWritten DEF PoolSync, RefundSync
  <2>2. book' \in Book /\ usage' = usage
    BY <1>5, BookIsKept DEF PoolSync, RefundSync
  <2> QED
    BY <1>1, <1>2, <2>1, <2>2 DEF DataOK
<1>6. CASE ReadPool(t) \/ PoolUsage(t) \/ PoolCheck(t) \/ PoolBalance(t) \/ RefundRead(t)
           \/ RefundActive(t) \/ RefundBalance(t)
  <2>1. book' = book \/ Ends(t)
    BY <1>6 DEF ReadPool, PoolUsage, PoolCheck, PoolBalance, RefundRead, RefundActive, RefundBalance
  <2>2. UNCHANGED <<sub, usage>>
    BY <1>6 DEF ReadPool, PoolUsage, PoolCheck, PoolBalance, RefundRead, RefundActive, RefundBalance
  <2>3. book' \in Book
    BY <2>1, BookIsKept
  <2> QED
    BY <1>1, <1>2, <2>2, <2>3 DEF DataOK
<1> QED
  BY <1>3, <1>4, <1>5, <1>6 DEF PoolStep

LEMMA PassIsTyped ==
    ASSUME LedgerInv, NEW t \in Tasks, PassStep(t)
    PROVE  DataOK'
<1>1. DataOK /\ task[t] \in TaskRecords /\ TaskOK(task[t])
  BY Acting DEF LedgerInv
<1>2. UNCHANGED <<now, sub, usage, welcome, faults, book>>
  BY DEF PassStep, ReadSummary, ReadLots, ReportLots, TakeLot, RollBackLot, RefundLot
<1>3. lot' \in [Lots -> LotDocument]
  <2>1. CASE lot' = lot
    BY <1>1, <2>1 DEF DataOK
  <2>2. ASSUME NEW l \in Lots, NEW n \in Nat, lot' = [lot EXCEPT ![l].remaining = n]
        PROVE  lot' \in [Lots -> LotDocument]
    BY <1>1, <2>2 DEF DataOK, LotDocument
  <2>3. ASSUME NEW l \in Lots, GiveBack(t, l)
        PROVE  lot' \in [Lots -> LotDocument]
    <3>1. lot[l].remaining + task[t].taken[l] \in Nat
      BY <1>1 DEF DataOK, LotDocument, TaskRecords
    <3> QED
      BY <2>2, <2>3, <3>1 DEF GiveBack
  <2>4. ASSUME NEW l \in Lots, TakeLot(t, l), CanTake(t, l)
        PROVE  lot' \in [Lots -> LotDocument]
    <3>1. PICK f \in [Lots -> Nat] : f = task[t].taken
      BY <1>1 DEF TaskRecords
    <3>2. SumOver(f, Lots) \in Nat
      BY SumIsNatural, CreditAssumption
    <3>3. task[t].cost \in Nat /\ task[t].offered \in [Lots -> Nat] /\ SumOver(f, Lots) < task[t].cost
      BY <1>1, <2>4, <3>1 DEF TaskOK, TaskRecords, TakeLot, At, Total
    <3>4. Missing(t) \in Nat
      BY <3>1, <3>2, <3>3 DEF Missing, Total
    <3>5. PICK spend \in Nat : spend = Spend(t, l)
      BY <3>3, <3>4 DEF Spend
    <3>6. lot[l].remaining - spend \in Nat
      BY <1>1, <2>4, <3>5 DEF CanTake, DataOK, LotDocument
    <3>7. lot' = [lot EXCEPT ![l].remaining = lot[l].remaining - spend]
      BY <2>4, <3>5 DEF TakeLot, Takes
    <3> QED
      BY <2>2, <3>6, <3>7
  <2> QED
    BY <2>1, <2>3, <2>4 DEF PassStep, ReadSummary, ReadLots, ReportLots, TakeLot, RollBackLot, RefundLot
<1> QED
  BY <1>1, <1>2, <1>3 DEF DataOK

LEMMA FreeIsTyped ==
    ASSUME LedgerInv, NEW t \in Tasks, FreeStep(t)
    PROVE  DataOK'
<1> DEFINE r == task[t]
<1>1. DataOK /\ r \in TaskRecords /\ r.cost \in Nat /\ r.date \in Nat
  BY Acting DEF LedgerInv, TaskRecords
<1>2. UNCHANGED <<now, sub, lot, faults>>
  BY DEF FreeStep, ReadPromo, TakeWelcome, MarkExhausted, ReadUserAgain, ReadQuota, AddQuota, StartQuota,
     RefundWelcome
<1>3. book' \in Book
  <2>1. book' = book \/ Ends(t)
    BY DEF FreeStep, ReadPromo, TakeWelcome, MarkExhausted, ReadUserAgain, ReadQuota, AddQuota,
       StartQuota, RefundWelcome
  <2> QED
    BY <2>1, BookIsKept
<1>4. welcome' \in WelcomePool
  <2>1. welcome.used + r.cost \in Int /\ welcome.used - r.cost \in Int
    BY <1>1 DEF DataOK, WelcomePool
  <2>2. CASE welcome' = welcome
    BY <1>1, <2>2 DEF DataOK
  <2>3. CASE TakeWelcome(t) /\ welcome' # welcome
    BY <1>1, <2>1, <2>3 DEF TakeWelcome, DataOK, WelcomePool
  <2>4. CASE MarkExhausted(t)
    BY <1>1, <2>4 DEF MarkExhausted, DataOK, WelcomePool
  <2>5. CASE RefundWelcome(t)
    BY <1>1, <2>1, <2>5 DEF RefundWelcome, WelcomePool
  <2> QED
    BY <2>2, <2>3, <2>4, <2>5 DEF FreeStep, ReadPromo, ReadUserAgain, ReadQuota, AddQuota, StartQuota
<1>5. usage' \in [Dates -> UsageDocument]
  <2>1. CASE usage' = usage
    BY <1>1, <2>1 DEF DataOK
  <2>2. CASE AddQuota(t)
    <3>1. PICK n : n = usage[r.date].used + r.cost
      OBVIOUS
    <3>2. usage' = [usage EXCEPT ![r.date].used = n]
      BY <2>2, <3>1 DEF AddQuota
    <3>3. CASE r.date \in Dates
      <4>1. n \in Int
        BY <1>1, <3>1, <3>3 DEF DataOK, UsageDocument
      <4> QED
        BY <1>1, <3>2, <3>3, <4>1 DEF DataOK, UsageDocument
    <3>4. CASE r.date \notin Dates
      BY <1>1, <3>2, <3>4 DEF DataOK
    <3> QED
      BY <3>3, <3>4
  <2>3. CASE StartQuota(t)
    BY <1>1, <2>3, UsageIsAdded DEF StartQuota
  <2> QED
    BY <2>1, <2>2, <2>3 DEF FreeStep, ReadPromo, TakeWelcome, MarkExhausted, ReadUserAgain, ReadQuota,
       RefundWelcome
<1> QED
  BY <1>1, <1>2, <1>3, <1>4, <1>5 DEF DataOK

LEMMA RequestIsTyped ==
    ASSUME LedgerInv, NEW t \in Tasks, RequestStep(t)
    PROVE  DataOK'
<1>1. CASE \E cost \in Costs : Charge(t, cost) \/ UserUnread(t, cost)
  BY <1>1, CreditAssumption DEF Charge, UserUnread, LedgerInv, DataOK
<1>2. CASE Answered(t) \/ Refund(t)
  <2>1. (book' = book \/ Ends(t)) /\ UNCHANGED <<now, sub, usage, welcome, lot, faults>>
    BY <1>2 DEF Answered, Refund
  <2>2. book' \in Book
    BY <2>1, BookIsKept
  <2> QED
    BY <2>1, <2>2 DEF LedgerInv, DataOK
<1>3. CASE Fault(t)
  <2>1. UNCHANGED <<now, sub, usage, welcome, lot>> /\ faults' \in 0 .. MaxFaults
    BY <1>3, CreditAssumption DEF Fault, LedgerInv, DataOK
  <2>2. book' \in Book
    <3>1. CASE book' = book \/ Ends(t)
      BY <3>1, BookIsKept
    <3>2. ASSUME NEW l \in Lots, LotRefundRaises(t, l) PROVE book' \in Book
      <4>1. book \in Book /\ task[t].taken \in [Lots -> Nat]
        BY Acting DEF LedgerInv, DataOK, TaskRecords
      <4>2. PICK n \in Nat : n = book.lots[l] + task[t].taken[l]
        BY <4>1 DEF Book
      <4>3. book' = [book EXCEPT !.lots[l] = n]
        BY <3>2, <4>2 DEF LotRefundRaises
      <4> QED
        BY <4>1, <4>3 DEF Book
    <3> QED
      BY <1>3, <3>1, <3>2 DEF Fault, Raises, Crash
  <2> QED
    BY <2>1, <2>2 DEF LedgerInv, DataOK
<1> QED
  BY <1>1, <1>2, <1>3, PoolIsTyped, PassIsTyped, FreeIsTyped DEF RequestStep

(***************************************************************************)
(* Time and purchases.                                                     *)
(***************************************************************************)
(* What is not about the plan is left alone.                               *)
LedgerKept ==
    /\ UNCHANGED <<welcome, lot, task>>
    /\ \A l \in Lots : book'.lots[l] = book.lots[l]
    /\ faults' = 0 => faults = 0

LEMMA LedgerIsKept ==
    ASSUME LedgerInv, DataOK', LedgerKept
    PROVE  LedgerInv'
<1>1. TasksOK' /\ (faults' = 0 => \A t \in Tasks : Clean(task[t])')
  BY DEF LedgerInv, LedgerKept, TasksOK, TaskOK, Clean
<1>2. Held' = Held /\ Welcomed' = Welcomed
  BY DEF LedgerKept, Held, Welcomed, FromWelcome
<1>3. \A l \in Lots : LotOK(l)'
  BY <1>2 DEF LedgerInv, LedgerKept, LotOK
<1>4. WelcomeOK'
  BY <1>2 DEF LedgerInv, LedgerKept, WelcomeOK
<1> QED
  BY <1>1, <1>3, <1>4 DEF LedgerInv

LEMMA TimePasses ==
    ASSUME LedgerInv, Tick
    PROVE  LedgerInv'
<1>1. now' \in 1 .. MaxTime
  BY CreditAssumption DEF LedgerInv, DataOK, Tick
<1>2. DataOK' /\ LedgerKept
  BY <1>1 DEF LedgerInv, DataOK, Tick, LedgerKept
<1> QED
  BY <1>2, LedgerIsKept

LEMMA NothingHappens ==
    ASSUME LedgerInv, UNCHANGED vars
    PROVE  LedgerInv'
<1>1. DataOK' /\ LedgerKept
  BY DEF LedgerInv, DataOK, vars, LedgerKept
<1> QED
  BY <1>1, LedgerIsKept

LEMMA GrantIsTyped ==
    ASSUME NEW Keys, NEW d \in Document(Keys), NEW q \in Quote, ~IsDailyPassQuote(q), NEW k \in Keys,
           NEW fullPrice \in BOOLEAN, NEW t \in Nat
    PROVE  WebGrant(d, q, k, fullPrice, t) \in Document(Keys)
<1>1. PICK start : start = IF UpgradesToPro(d, q, fullPrice, t) THEN t ELSE Larger(t, d.end)
  OBVIOUS
<1>2. PICK balance : balance = CarriedCredits(d, t) + q.credits
  OBVIOUS
<1>3. /\ q.tier \in PoolTiers /\ q.period \in PoolPeriods /\ q.days \in Nat /\ q.credits \in Nat
      /\ d.grants \cup {k} \in SUBSET Keys
  BY DEF Quote, IsDailyPassQuote, Document
<1>4. start \in Nat
  BY <1>1 DEF Document, Larger
<1>5. balance \in Nat
  BY <1>2, <1>3 DEF Document, CarriedCredits, AtLeastZero, Larger
<1>6. PICK total \in Int : total = IF UpgradesToPro(d, q, fullPrice, t) THEN balance ELSE q.credits
  BY <1>3, <1>5
<1>7. WebGrant(d, q, k, fullPrice, t) =
        [exists |-> TRUE, tier |-> q.tier, period |-> q.period, start |-> start,
         end |-> start + q.days, total |-> total, remaining |-> balance, grants |-> d.grants \cup {k}]
  BY <1>1, <1>2, <1>6 DEF WebGrant
<1> QED
  BY <1>3, <1>4, <1>5, <1>7 DEF Document

LEMMA PlanIsBought ==
    ASSUME LedgerInv, NEW k \in Purchases, BuyPlan(k)
    PROVE  LedgerInv'
<1>1. /\ sub \in Document(Purchases) /\ now \in Nat /\ book \in Book
      /\ PlanQuote[k] \in Quote /\ ~IsDailyPassQuote(PlanQuote[k])
  BY CreditAssumption DEF LedgerInv, DataOK
<1>2. sub' \in Document(Purchases)
  BY <1>1, GrantIsTyped DEF BuyPlan
<1>3. PlanQuote[k].credits \in Nat
  BY <1>1 DEF Quote
<1>4. PICK paid \in Nat :
          paid = PlanQuote[k].credits + IF ActiveAt(sub, now) THEN book.paid ELSE 0
  BY <1>1, <1>3 DEF Book
<1>5. PICK charged \in Int : charged = IF ActiveAt(sub, now) THEN book.charged ELSE 0
  BY <1>1 DEF Book
<1>6. book' = [book EXCEPT !.paid = paid, !.charged = charged]
  BY <1>4, <1>5 DEF BuyPlan
<1>7. book' \in Book /\ book'.lots = book.lots
  BY <1>1, <1>6 DEF Book
<1>8. DataOK' /\ LedgerKept
  BY <1>2, <1>7 DEF LedgerInv, DataOK, BuyPlan, LedgerKept
<1> QED
  BY <1>8, LedgerIsKept

(* A lot that has not been bought has nothing left and gave nothing.       *)
LEMMA LotIsBought ==
    ASSUME LedgerInv, NEW l \in Lots, BuyLot(l)
    PROVE  LedgerInv'
<1>1. /\ lot \in [Lots -> LotDocument] /\ now \in Nat \ {0} /\ book \in Book
      /\ task \in [Tasks -> TaskRecords]
  BY DEF LedgerInv, DataOK, TasksOK
<1>2. LotQuote[l].days \in Nat /\ LotQuote[l].credits \in Nat
  BY CreditAssumption DEF Quote
<1>3. PICK new : new = [end |-> now + LotQuote[l].days, remaining |-> LotQuote[l].credits]
  OBVIOUS
<1>4. new \in LotDocument /\ new.end # 0 /\ new.remaining = LotQuote[l].credits
  BY <1>1, <1>2, <1>3 DEF LotDocument
<1>5. lot' = [lot EXCEPT ![l] = new]
  BY <1>3 DEF BuyLot
<1>6. lot' \in [Lots -> LotDocument]
  BY <1>1, <1>4, <1>5
<1>7. DataOK'
  BY <1>6 DEF LedgerInv, DataOK, BuyLot
<1>8. TasksOK' /\ (faults' = 0 => \A t \in Tasks : Clean(task[t])')
  BY DEF LedgerInv, TasksOK, TaskOK, Clean, BuyLot
<1>9. Held' = Held /\ Welcomed' = Welcomed
  BY DEF BuyLot, Held, Welcomed, FromWelcome
<1>10. WelcomeOK'
  BY <1>9 DEF LedgerInv, WelcomeOK, BuyLot
<1>11. ASSUME NEW m \in Lots PROVE LotOK(m)'
  <2>1. CASE m # l
    BY <1>1, <1>5, <1>9, <2>1 DEF LedgerInv, LotOK, BuyLot
  <2>2. CASE m = l
    <3>1. PICK f : f = Held[l]
      OBVIOUS
    <3>2. \A t \in Tasks : f[t] \in Nat
      BY <1>1, <3>1 DEF Held, TaskRecords
    <3>3. SumOver(f, Tasks) \in Nat
      BY <3>2, SumIsNatural, CreditAssumption
    <3>4. lot[l].remaining \in Nat /\ book.lots[l] \in Nat
      BY <1>1 DEF LotDocument, Book
    <3>5. lot[l].remaining + book.lots[l] + SumOver(f, Tasks) = 0
      BY <3>1 DEF LedgerInv, LotOK, BuyLot
    <3>6. book.lots[l] = 0 /\ SumOver(f, Tasks) = 0
      BY <3>3, <3>4, <3>5
    <3>7. lot'[l].end # 0 /\ lot'[l].remaining = LotQuote[l].credits /\ book' = book
      BY <1>1, <1>4, <1>5 DEF BuyLot
    <3>8. lot'[l].remaining + book'.lots[l] + SumOver(Held'[l], Tasks) = LotQuote[l].credits
      BY <1>2, <1>9, <3>1, <3>6, <3>7
    <3> QED
      BY <2>2, <3>7, <3>8 DEF LotOK
  <2> QED
    BY <2>1, <2>2
<1> QED
  BY <1>7, <1>8, <1>10, <1>11 DEF LedgerInv

LEMMA LedgerBegins ==
    Init => LedgerInv
<1> SUFFICES ASSUME Init PROVE LedgerInv
  OBVIOUS
<1>1. NothingTaken \in [Lots -> Nat] /\ \A l \in Lots : NothingTaken[l] = 0
  BY DEF NothingTaken
<1>2. Idle \in TaskRecords /\ Idle.at = "idle" /\ Idle.kind = "none" /\ Idle.cost = 0
      /\ Idle.taken = NothingTaken
  BY IdleIsOK
<1>3. TaskOK(Idle) /\ Clean(Idle) /\ FromWelcome(Idle) = 0
  BY <1>2 DEF TaskOK, Clean, ChargeSteps, BeforeLots, FromWelcome
<1>4. TasksOK /\ \A t \in Tasks : Clean(task[t])
  BY <1>2, <1>3 DEF Init, TasksOK
<1>5. NoDocument \in Document(Purchases)
  BY DEF NoDocument, Document
<1>6. DataOK
  <2>1. now \in 1 .. MaxTime /\ faults \in 0 .. MaxFaults
    BY CreditAssumption DEF Init
  <2>2. /\ usage \in [Dates -> UsageDocument] /\ welcome \in WelcomePool
        /\ lot \in [Lots -> LotDocument] /\ book \in Book
    BY <1>1 DEF Init, UsageDocument, WelcomePool, NoLot, LotDocument, Book
  <2> QED
    BY <1>5, <2>1, <2>2 DEF DataOK, Init
<1>7. ASSUME NEW l \in Lots PROVE LotOK(l)
  <2>1. \A t \in Tasks : Held[l][t] = 0
    BY <1>1, <1>2 DEF Init, Held
  <2>2. SumOver(Held[l], Tasks) = 0
    BY <2>1, SumOfZeros, CreditAssumption
  <2>3. lot[l].end = 0 /\ lot[l].remaining = 0 /\ book.lots[l] = 0
    BY <1>1 DEF Init, NoLot
  <2> QED
    BY <2>2, <2>3 DEF LotOK
<1>8. WelcomeOK
  <2>1. \A t \in Tasks : Welcomed[t] = 0
    BY <1>3 DEF Init, Welcomed
  <2>2. SumOver(Welcomed, Tasks) = 0
    BY <2>1, SumOfZeros, CreditAssumption
  <2> QED
    BY <2>2, CreditAssumption DEF WelcomeOK, Init
<1> QED
  BY <1>4, <1>6, <1>7, <1>8 DEF LedgerInv

LEMMA LedgerStep ==
    LedgerInv /\ [Next]_vars => LedgerInv'
<1> SUFFICES ASSUME LedgerInv, [Next]_vars PROVE LedgerInv'
  OBVIOUS
<1>1. ASSUME NEW t \in Tasks, RequestStep(t) PROVE LedgerInv'
  <2>1. PICK q : Moves(t, q)
    BY <1>1, RequestsMove
  <2> QED
    BY <1>1, <2>1, RequestIsTyped, OneRequestMoves
<1> QED
  BY <1>1, TimePasses, LotIsBought, PlanIsBought, NothingHappens DEF Next

LEMMA LedgerHolds ==
    Spec => []LedgerInv
  BY LedgerBegins, LedgerStep, PTL DEF Spec

(***************************************************************************)
(* The theorems about the ledger.                                          *)
(***************************************************************************)
LEMMA LedgerIsTyped ==
    LedgerInv => TypeOK
  BY DEF LedgerInv, DataOK, TasksOK, TypeOK

LEMMA LotsAreConserved ==
    LedgerInv => LotsConserved
<1> SUFFICES ASSUME LedgerInv, NEW l \in Lots, lot[l].end # 0
             PROVE  /\ lot[l].remaining >= 0
                    /\ lot[l].remaining + book.lots[l]
                         + SumOver([t \in Tasks |-> task[t].taken[l]], Tasks) = LotQuote[l].credits
  BY DEF LotsConserved
<1>1. lot[l].remaining \in Nat
  BY DEF LedgerInv, DataOK, LotDocument
<1>2. Held[l] = [t \in Tasks |-> task[t].taken[l]]
  BY DEF Held
<1> QED
  BY <1>1, <1>2 DEF LedgerInv, LotOK

LEMMA OneBucketIsCharged ==
    LedgerInv => ChargedToOneBucket
<1> SUFFICES ASSUME LedgerInv, faults = 0, NEW t \in Tasks, At(t, "served")
             PROVE  Total(task[t].taken) = IF task[t].kind = "pass" THEN task[t].cost ELSE 0
  BY DEF ChargedToOneBucket
<1> QED
  BY NothingIsTaken DEF LedgerInv, Clean, At

LEMMA WelcomeIsNotOverdrawn ==
    LedgerInv => WelcomeNeverOverdrawn
<1> SUFFICES ASSUME LedgerInv PROVE WelcomeNeverOverdrawn
  OBVIOUS
<1>1. PICK f : f = [t \in Tasks |-> IF task[t].kind = "welcome" THEN task[t].cost ELSE 0]
  OBVIOUS
<1>2. PICK g : g = Welcomed
  OBVIOUS
<1>3. \A t \in Tasks : f[t] \in Nat /\ g[t] \in Nat /\ f[t] <= g[t]
  BY <1>1, <1>2 DEF LedgerInv, TasksOK, TaskRecords, Welcomed, FromWelcome
<1>4. IntegersOn(f, Tasks) /\ IntegersOn(g, Tasks) /\ \A t \in Tasks : f[t] <= g[t]
  BY <1>3 DEF IntegersOn
<1>5. SumOver(f, Tasks) <= SumOver(g, Tasks)
  BY <1>4, SumMonotonic, CreditAssumption
<1>6. SumOver(f, Tasks) \in Int /\ SumOver(g, Tasks) \in Int
  BY <1>4, SumIsInteger, CreditAssumption
<1>7. welcome.used \in Int /\ welcome.used >= SumOver(g, Tasks) /\ welcome.used <= WelcomeLimit
  BY <1>2 DEF LedgerInv, WelcomeOK, DataOK, WelcomePool
<1>8. welcome.used >= SumOver(f, Tasks)
  BY <1>5, <1>6, <1>7
<1> QED
  BY <1>1, <1>7, <1>8 DEF WelcomeNeverOverdrawn

(* Every variable of the ledger has its type.                              *)
THEOREM LedgerTyped == Spec => []TypeOK
  BY LedgerHolds, LedgerIsTyped, PTL

(* What is left in a lot, what requests in progress have taken of it and   *)
(* what finished ones took make up what was bought, through races,         *)
(* rollbacks over several lots, refunds, swallowed exceptions and crashes. *)
THEOREM LotsStayConserved == Spec => []LotsConserved
  BY LedgerHolds, LotsAreConserved, PTL

(* As long as no call has raised, a request that is answered was charged   *)
(* to the bucket its refund_info names, and to no other.                   *)
THEOREM OneBucketPerCharge == Spec => []ChargedToOneBucket
  BY LedgerHolds, OneBucketIsCharged, PTL

(* The welcome pool is never overdrawn, and holds at any moment what       *)
(* refunds may still give back to it.                                      *)
THEOREM WelcomeStaysCovered == Spec => []WelcomeNeverOverdrawn
  BY LedgerHolds, WelcomeIsNotOverdrawn, PTL

LEMMA UsageStays ==
    ASSUME NEW d, NEW e, usage' = usage, e.start = d.start, e.end = d.end
    PROVE  UsedInPeriod(e)' = UsedInPeriod(d)
<1>1. UsedOn' = UsedOn
  BY DEF UsedOn
<1>2. PICK D : D = {n \in Dates : Date(d.start) <= n /\ n <= Date(d.end)}
  OBVIOUS
<1>3. {n \in Dates : Date(e.start) <= n /\ n <= Date(e.end)} = D
  BY <1>2
<1> QED
  BY <1>1, <1>2, <1>3 DEF UsedInPeriod

(***************************************************************************)
(* The usage documents: what every day is charged with.                    *)
(***************************************************************************)
(* A charge that is counted in a day and may still be given back to it.    *)
HoldsDaily(r) == r.at \in {"served", "refundUsage"} /\ r.kind = "daily"
Holds(r) == \/ r.at \in {"poolBalance", "poolSync"}
            \/ r.at \in {"served", "refundUsage"} /\ r.kind \in {"pool", "daily"}

HeldOn(d, r) == IF Holds(r) /\ r.date = d THEN r.cost ELSE 0
HeldCharges == [d \in Dates |-> [t \in Tasks |-> HeldOn(d, task[t])]]

(* A day without a document has nothing used, the days to come have none,  *)
(* and only refunds of other days' charges can leave a day with less than  *)
(* the charges that it holds.                                              *)
DayOK(d) ==
    /\ ~usage[d].there => usage[d].used = 0
    /\ d > Today => ~usage[d].there
    /\ usage[d].used + book.strayed >= SumOver(HeldCharges[d], Tasks)

(* What a request has read of a day stays true of it.                      *)
RequestOK(r) ==
    /\ r.at = "dailyAdd" => r.date \in Dates /\ r.date <= Today /\ usage[r.date].there
    /\ r.at = "dailyNew" => r.date <= Today
    /\ Holds(r) => r.date <= Today
    /\ r.at = "refundUsage" => Holds(r)

UsageInv ==
    /\ ~sub.exists => sub = NoDocument
    /\ \A d \in Dates : DayOK(d)
    /\ \A t \in Tasks : RequestOK(task[t])

(***************************************************************************)
(* The quota of a user without a plan.                                     *)
(***************************************************************************)
QuotaSteps == {"welcomeTake", "welcomeFresh", "daily", "dailyAdd", "dailyNew"}
PlanSteps == {"poolUsage", "poolCheck", "poolIncrement"}
Quota == LimitWith("limited")

(* What a request that has passed the check is about to add to a day: to   *)
(* the day it has read, or, where there was no document, to the day on     *)
(* which it will write, which may be a later one.                          *)
About(d, r) ==
    IF (r.at = "dailyAdd" /\ r.date = d) \/ (r.at = "dailyNew" /\ r.date <= d) THEN r.cost ELSE 0
Awaited == [d \in Dates |-> [t \in Tasks |-> About(d, task[t])]]

QuotaInv ==
    ~sub.exists =>
        /\ \A d \in Dates : usage[d].used + SumOver(Awaited[d], Tasks) <= Quota + OthersCost
        /\ \A t \in Tasks : /\ task[t].at \notin PlanSteps
                            /\ task[t].at \in QuotaSteps => task[t].limit <= Quota

(***************************************************************************)
(* The pool of plans that are bought in turn.                              *)
(***************************************************************************)
(* No plan is granted while another runs.                                  *)
InTurn == \A k \in Purchases : BuyPlan(k) => ~ActiveAt(sub, now)

InWindow(d) == Date(sub.start) <= d /\ d <= Date(sub.end)
HeldInWindow(r) == IF HoldsDaily(r) /\ InWindow(r.date) THEN r.cost ELSE 0
QuotaCharges == [t \in Tasks |-> HeldInWindow(task[t])]

(* The document a request has read is that of the plan.                    *)
IsCurrentPlan(doc) == doc.start = sub.start /\ doc.end = sub.end /\ doc.total = sub.total

OnPlan(r) == r.at \in PlanSteps
(* What a request may add to the plan's charges without another look at    *)
(* what the plan has left.                                                 *)
Committed(r) ==
    IF r.at = "poolIncrement" \/ (OnPlan(r) /\ ~IsCurrentPlan(r.doc)) THEN r.cost ELSE 0
Commitments == [t \in Tasks |-> Committed(task[t])]

(* Every request that is past the plan may have charged it once after its  *)
(* end, on a day outside its window.                                       *)
Allowance(r) == IF OnPlan(r) THEN 0 ELSE MaxCost
Allowances == [t \in Tasks |-> Allowance(task[t])]

PlanInv ==
    sub.exists =>
        /\ 0 < sub.start /\ sub.start <= now /\ sub.start < sub.end
        /\ sub.total = book.paid /\ MaxCost <= book.paid
        /\ book.charged + SumOver(QuotaCharges, Tasks)
             <= UsedInPeriod(sub) + book.strayed + IF ActiveAt(sub, now) THEN 0 ELSE SumOver(Allowances, Tasks)
        /\ book.charged + SumOver(Commitments, Tasks) <= book.paid + book.strayed + OthersCost

(***************************************************************************)
(* What a step of a request does to the usage documents and to the book.   *)
(***************************************************************************)
SamePlan == /\ sub'.exists = sub.exists /\ sub'.start = sub.start
            /\ sub'.end = sub.end /\ sub'.total = sub.total
            /\ sub = NoDocument => sub' = NoDocument
SameBook == /\ book'.paid = book.paid /\ book'.charged = book.charged
            /\ book'.strayed = book.strayed

(* It comes closer to a charge of the plan,                                *)
AsksPlan(r, q) ==
    /\ q.cost = r.cost
    /\ \/ r.at = "readPool" /\ q.at = "poolUsage" /\ q.doc = sub /\ ActiveAt(sub, now)
       \/ r.at = "poolUsage" /\ q.at = "poolCheck" /\ q.doc = r.doc
       \/ r.at = "poolCheck" /\ q.at = "poolIncrement" /\ q.doc = r.doc /\ PoolRemaining(r.doc) >= r.cost

(* or of the quota,                                                        *)
AsksQuota(r, q) ==
    /\ q.limit <= Quota \/ (r.at \in QuotaSteps /\ q.limit = r.limit)
    /\ q.at \in {"dailyAdd", "dailyNew"} =>
          /\ r.at = "daily" /\ q.limit = r.limit /\ q.cost = r.cost /\ q.date = Today
          /\ q.at = IF usage[Today].there THEN "dailyAdd" ELSE "dailyNew"
          /\ (IF usage[Today].there THEN usage[Today].used ELSE 0) + r.cost <= r.limit

(* or does neither;                                                        *)
Waits(t, q) ==
    /\ usage' = usage /\ SameBook
    /\ Holds(q) => Holds(task[t]) /\ q.date = task[t].date /\ q.cost = task[t].cost
    /\ HoldsDaily(q) => HoldsDaily(task[t])
    /\ q.at = "refundUsage" => Holds(q)
    /\ q.at \in PlanSteps => AsksPlan(task[t], q)
    /\ q.at \in QuotaSteps => AsksQuota(task[t], q)

(* it charges a day;                                                       *)
Charges(t, q, d) ==
    /\ d <= Today
    /\ usage'[d].there /\ usage'[d].used = usage[d].used + task[t].cost
    /\ \A e \in Dates \ {d} : usage'[e] = usage[e]
    /\ q.at \in {"poolBalance", "served"} /\ Holds(q) /\ q.date = d /\ q.cost = task[t].cost
    /\ book'.paid = book.paid /\ book'.strayed = book.strayed
    /\ \/ /\ task[t].at = "poolIncrement" /\ d = Today /\ ~HoldsDaily(q)
          /\ book'.charged = book.charged + task[t].cost
       \/ /\ \/ task[t].at = "dailyAdd" /\ d = task[t].date
             \/ task[t].at = "dailyNew" /\ d = Today
          /\ HoldsDaily(q) /\ book'.charged = book.charged

(* or it gives a charge back, to the present day.                          *)
Refunds(t, q) ==
    LET cost == task[t].cost
        there == usage[Today].there
    IN  /\ task[t].at = "refundUsage"
        /\ q.at \in {"refundRead", "idle"}
        /\ \A e \in Dates \ {Today} : usage'[e] = usage[e]
        /\ usage'[Today].there = there
        /\ usage'[Today].used = usage[Today].used - IF there THEN cost ELSE 0
        /\ book'.paid = book.paid
        /\ book'.charged = book.charged - IF task[t].kind = "pool" THEN cost ELSE 0
        /\ book'.strayed = book.strayed + IF task[t].date # Today /\ there THEN cost ELSE 0

Acts(t, q) ==
    /\ task' = [task EXCEPT ![t] = q] /\ q \in TaskRecords
    /\ now' = now /\ SamePlan
    /\ Waits(t, q) \/ (\E d \in Dates : Charges(t, q, d)) \/ Refunds(t, q)

(* Steps at which a request has nothing to do with a day or a plan.        *)
FreeSteps == {"passRead", "promo", "passTake", "passReport", "passRollback", "passSummary", "idle",
              "readPool", "welcomeMark"} \cup (RefundSteps \ {"refundUsage"})

(* The step a request goes to neither holds nor asks for a charge.         *)
LEMMA StepIsFree ==
    ASSUME NEW t \in Tasks, NEW q, q.at \in FreeSteps, usage' = usage, SameBook
    PROVE  Waits(t, q)
  BY DEF FreeSteps, RefundSteps, Waits, Holds, HoldsDaily, PlanSteps, QuotaSteps

(* The record of the request after the common kinds of steps.              *)
LEMMA RecordAfter ==
    ASSUME LedgerInv, NEW t \in Tasks, NEW q, task' = [task EXCEPT ![t] = q]
    PROVE  /\ Ends(t) => q = Idle
           /\ \A kind \in Kinds : Served(t, kind) => q = ServedBy(kind, task[t])
           /\ \A step \in Steps : Goes(t, step) => q = [task[t] EXCEPT !.at = step]
<1>1. q = task'[t]
  BY DEF LedgerInv, TasksOK
<1>2. Ends(t) => q = Idle
  BY <1>1 DEF LedgerInv, TasksOK, Ends
<1>3. \A kind \in Kinds : Served(t, kind) => q = ServedBy(kind, task[t])
  BY <1>1 DEF LedgerInv, TasksOK, Served
<1>4. \A step \in Steps : Goes(t, step) => q = [task[t] EXCEPT !.at = step]
  BY <1>1 DEF LedgerInv, TasksOK, Goes
<1> QED
  BY <1>2, <1>3, <1>4

LEMMA StepAfter ==
    ASSUME LedgerInv, NEW t \in Tasks, NEW q, task' = [task EXCEPT ![t] = q],
           NEW step \in Steps, Goes(t, step)
    PROVE  /\ q.at = step /\ q.limit = task[t].limit /\ q.cost = task[t].cost
           /\ q.date = task[t].date /\ q.kind = task[t].kind /\ q.doc = task[t].doc
<1>1. task[t] \in TaskRecords
  BY Acting
<1>2. q = [task[t] EXCEPT !.at = step]
  BY RecordAfter
<1> QED
  BY <1>1, <1>2 DEF TaskRecords

(* A request is served: only of the pool and the quota it holds a charge.  *)
LEMMA ServedAfter ==
    ASSUME NEW kind \in Kinds, NEW r \in TaskRecords, NEW q, q = ServedBy(kind, r)
    PROVE  q.at = "served" /\ q.kind = kind /\ q.cost = r.cost /\ q.date = r.date
  BY DEF ServedBy, Idle

LEMMA BookIsSame ==
    ASSUME LedgerInv, NEW t \in Tasks, book' = book \/ Ends(t)
    PROVE  SameBook
  BY DEF LedgerInv, DataOK, Book, SameBook, Ends

LEMMA RequestIsServed ==
    ASSUME LedgerInv, NEW t \in Tasks, NEW q, task' = [task EXCEPT ![t] = q],
           NEW kind \in Kinds, Served(t, kind), usage' = usage, book' = book,
           kind # "daily", kind = "pool" => task[t].at = "poolSync"
    PROVE  Waits(t, q)
<1>1. q = ServedBy(kind, task[t])
  BY RecordAfter
<1>2. q.at = "served" /\ q.kind = kind /\ q.cost = task[t].cost /\ q.date = task[t].date
  BY <1>1, Acting, ServedAfter
<1> QED
  BY <1>2 DEF Waits, SameBook, Holds, HoldsDaily, PlanSteps, QuotaSteps

LEMMA PoolActs ==
    ASSUME LedgerInv, UsageInv, NEW t \in Tasks, PoolStep(t),
           NEW q \in TaskRecords, task' = [task EXCEPT ![t] = q]
    PROVE  Waits(t, q) \/ (\E d \in Dates : Charges(t, q, d)) \/ Refunds(t, q)
<1> DEFINE r == task[t]
<1> USE DEF At, Steps, ChargeSteps, RefundSteps
<1>1. /\ r \in TaskRecords /\ q = task'[t] /\ task \in [Tasks -> TaskRecords]
      /\ usage \in [Dates -> UsageDocument] /\ book \in Book /\ r.cost \in Nat
      /\ Today \in Dates /\ Today \in Nat
  BY Acting, TodayIsADate DEF LedgerInv, TasksOK, DataOK, TaskRecords
<1>2. CASE (ReadPool(t) /\ ~Goes(t, "passSummary")) \/ (RefundRead(t) /\ ~Ends(t))
  <2>0. sub \in Document(Purchases)
    BY DEF LedgerInv, DataOK
  <2>1. PICK step \in {"poolUsage", "refundActive"}, doc \in Document(Purchases) :
            step = (IF ReadPool(t) THEN "poolUsage" ELSE "refundActive") /\ doc = sub
    BY <2>0
  <2>2. /\ q = [r EXCEPT !.at = step, !.doc = doc] /\ ActiveAt(sub, now)
        /\ usage' = usage /\ book' = book
        /\ step = "poolUsage" => r.at = "readPool"
    BY <1>1, <1>2, <2>1 DEF ReadPool, RefundRead
  <2>3. q.at = step /\ q.doc = doc /\ q.cost = r.cost
    <3>1. PICK s : s = [r EXCEPT !.at = step]
      OBVIOUS
    <3>2. s \in TaskRecords /\ s.at = step /\ s.cost = r.cost
      BY <1>1, <3>1, StepIsSet DEF SameCharge
    <3>3. q = [s EXCEPT !.doc = doc]
      BY <2>2, <3>1
    <3>4. q.at = s.at /\ q.doc = doc /\ q.cost = s.cost
      BY <3>2, <3>3 DEF TaskRecords
    <3> QED
      BY <3>2, <3>4
  <2>4. CASE step = "poolUsage"
    BY <2>1, <2>2, <2>3, <2>4 DEF Waits, AsksPlan, SameBook, Holds, HoldsDaily, QuotaSteps
  <2>5. CASE step = "refundActive"
    BY <2>2, <2>3, <2>5, StepIsFree DEF FreeSteps, SameBook
  <2> QED
    BY <2>1, <2>4, <2>5
<1>3. CASE Ends(t) /\ ~RefundUsage(t)
  <2>1. q.at = "idle" /\ SameBook
    BY <1>3, RecordAfter, BookIsSame, IdleIsOK
  <2>2. usage' = usage
    BY <1>1, <1>3, IdleIsOK DEF PoolStep, ReadPool, PoolUsage, PoolCheck, PoolIncrement, PoolBalance, PoolSync, Ends,
       RefundRead, RefundActive, RefundBalance, RefundSync, TaskRecords
  <2> QED
    BY <2>1, <2>2, StepIsFree DEF FreeSteps
<1>4. CASE \/ ReadPool(t) /\ Goes(t, "passSummary")
           \/ PoolUsage(t) /\ Goes(t, "passSummary")
           \/ RefundActive(t) /\ Goes(t, "refundBalance")
  <2>1. q.at \in {"passSummary", "refundBalance"}
    BY <1>4, StepAfter
  <2>2. usage' = usage /\ SameBook
    BY <1>1, <1>3, <1>4, <2>1, IdleIsOK, RecordAfter DEF ReadPool, PoolUsage, RefundActive, SameBook
  <2> QED
    BY <2>1, <2>2, StepIsFree DEF FreeSteps
<1>5. CASE PoolUsage(t) /\ Goes(t, "poolCheck")
  <2>1. q.at = "poolCheck" /\ q.cost = r.cost /\ q.doc = r.doc
    BY <1>5, StepAfter
  <2>2. r.at = "poolUsage" /\ usage' = usage /\ book' = book
    BY <1>5 DEF PoolUsage
  <2> QED
    BY <2>1, <2>2 DEF Waits, AsksPlan, SameBook, Holds, HoldsDaily, QuotaSteps
<1>6. CASE PoolCheck(t) /\ ~Ends(t)
  <2>1. /\ Goes(t, "poolIncrement") /\ usage' = usage /\ book' = book /\ r.at = "poolCheck"
        /\ ~(PoolRemaining(r.doc) < r.cost)
    BY <1>6 DEF PoolCheck
  <2>2. PoolRemaining(r.doc) \in Nat
    BY <1>1, UsageIsCounted DEF TaskRecords
  <2>3. PoolRemaining(r.doc) >= r.cost
    BY <1>1, <2>1, <2>2
  <2>4. q.at = "poolIncrement" /\ q.cost = r.cost /\ q.doc = r.doc
    BY <2>1, StepAfter, ZenonT(60)
  <2> QED
    BY <2>1, <2>3, <2>4 DEF Waits, AsksPlan, SameBook, Holds, HoldsDaily, QuotaSteps
<1>7. CASE PoolIncrement(t)
  <2>1. PICK date \in Dates : date = Today /\ date \in Nat
    BY <1>1
  <2>2. q = [r EXCEPT !.at = "poolBalance", !.date = date]
    BY <1>1, <1>7, <2>1 DEF PoolIncrement
  <2>3. q.at = "poolBalance" /\ q.date = date /\ q.cost = r.cost
    <3>1. PICK s : s = [r EXCEPT !.at = "poolBalance"]
      OBVIOUS
    <3>2. s \in TaskRecords /\ s.at = "poolBalance" /\ s.cost = r.cost
      BY <1>1, <3>1, StepIsSet DEF SameCharge
    <3>3. q = [s EXCEPT !.date = date]
      BY <2>2, <3>1
    <3>4. q.at = s.at /\ q.date = date /\ q.cost = s.cost
      BY <2>1, <3>2, <3>3 DEF TaskRecords
    <3> QED
      BY <3>2, <3>4
  <2>4. PICK n : n = usage[date].used + r.cost
    OBVIOUS
  <2>5. usage' = [usage EXCEPT ![date] = [there |-> TRUE, used |-> n]]
    BY <1>7, <2>1, <2>4 DEF PoolIncrement, AddUsage
  <2>6. /\ usage'[date].there /\ usage'[date].used = n
        /\ \A e \in Dates \ {date} : usage'[e] = usage[e]
    BY <1>1, <2>5
  <2>7. /\ book'.paid = book.paid /\ book'.strayed = book.strayed
        /\ book'.charged = book.charged + r.cost
    BY <1>1, <1>7 DEF PoolIncrement, Book
  <2>8. r.at = "poolIncrement"
    BY <1>7 DEF PoolIncrement
  <2>9. Charges(t, q, date)
    <3>1. date <= Today /\ Holds(q) /\ ~HoldsDaily(q)
      BY <1>1, <2>1, <2>3 DEF Holds, HoldsDaily
    <3> QED
      BY <2>1, <2>3, <2>4, <2>6, <2>7, <2>8, <3>1 DEF Charges
  <2> QED
    BY <2>9
<1>8. CASE PoolBalance(t) \/ RefundBalance(t)
  <2>1. PICK balance \in Nat, step \in {"poolSync", "refundSync"} :
            /\ task' = [task EXCEPT ![t].at = step, ![t].balance = balance]
            /\ step = "poolSync" => r.at = "poolBalance"
    <3>1. PoolRemaining(r.doc) \in Nat
      BY <1>1, UsageIsCounted DEF TaskRecords
    <3> QED
      BY <1>8, <3>1 DEF PoolBalance, RefundBalance
  <2>2. q = [r EXCEPT !.at = step, !.balance = balance]
    BY <1>1, <2>1
  <2>3. q.at = step /\ q.date = r.date /\ q.cost = r.cost
    BY <1>1, <2>2 DEF TaskRecords
  <2>4. usage' = usage /\ SameBook
    BY <1>8 DEF PoolBalance, RefundBalance, SameBook
  <2>5. CASE step = "poolSync"
    BY <2>1, <2>3, <2>4, <2>5 DEF Waits, Holds, HoldsDaily, PlanSteps, QuotaSteps
  <2>6. CASE step = "refundSync"
    BY <2>3, <2>4, <2>6, StepIsFree DEF FreeSteps
  <2> QED
    BY <2>5, <2>6
<1>9. CASE PoolSync(t)
  BY <1>9, RequestIsServed DEF PoolSync, Kinds
<1>10. CASE RefundUsage(t)
  <2>1. q.at \in {"refundRead", "idle"} /\ r.at = "refundUsage"
    <3>1. PICK p : p = [r EXCEPT !.at = "refundRead"]
      OBVIOUS
    <3>2. p.at = "refundRead"
      BY <1>1, <3>1 DEF TaskRecords
    <3>3. (q = p \/ q = Idle) /\ r.at = "refundUsage"
      BY <1>1, <1>10, <3>1 DEF RefundUsage
    <3> QED
      BY <3>2, <3>3, IdleIsOK
  <2>2. PICK n : n = IF usage[Today].there THEN usage[Today].used - r.cost ELSE usage[Today].used
    OBVIOUS
  <2>3. usage' = [usage EXCEPT ![Today].used = n]
    BY <1>10, <2>2 DEF RefundUsage, RollBackUsage
  <2>4. /\ usage'[Today].there = usage[Today].there /\ usage'[Today].used = n
        /\ \A e \in Dates \ {Today} : usage'[e] = usage[e]
    BY <1>1, <2>3 DEF UsageDocument
  <2>5. usage[Today].used \in Int
    BY <1>1 DEF UsageDocument
  <2>6. PICK charged, strayed, lots :
            /\ book' = [book EXCEPT !.charged = charged, !.strayed = strayed, !.lots = lots]
            /\ charged = IF r.kind = "pool" THEN book.charged - r.cost ELSE book.charged
            /\ strayed = IF r.date # Today /\ usage[Today].there THEN book.strayed + r.cost
                                                                 ELSE book.strayed
    BY <1>10 DEF RefundUsage
  <2>7. book'.paid = book.paid /\ book'.charged = charged /\ book'.strayed = strayed
    BY <1>1, <2>6 DEF Book
  <2>8. book.charged \in Int /\ book.strayed \in Int
    BY <1>1 DEF Book
  <2> QED
    BY <1>1, <2>1, <2>2, <2>4, <2>5, <2>6, <2>7, <2>8 DEF Refunds
<1> QED
  BY <1>2, <1>3, <1>4, <1>5, <1>6, <1>7, <1>8, <1>9, <1>10
  DEF PoolStep, ReadPool, PoolUsage, RefundRead, RefundActive, RefundSync, PoolCheck

LEMMA SpendIsCounted ==
    ASSUME LedgerInv, NEW t \in Tasks, At(t, "passTake"), NEW l \in Lots
    PROVE  Spend(t, l) \in Nat
<1> DEFINE r == task[t]
<1>1. /\ r.taken \in [Lots -> Nat] /\ r.offered \in [Lots -> Nat] /\ r.cost \in Nat /\ TaskOK(r)
      /\ r.at = "passTake"
  BY Acting DEF TaskRecords, At
<1>2. PICK f \in [Lots -> Nat] : f = r.taken
  BY <1>1
<1>3. SumOver(f, Lots) \in Nat
  BY SumIsNatural, CreditAssumption
<1>4. SumOver(f, Lots) < r.cost
  BY <1>1, <1>2 DEF TaskOK, Total
<1>5. Missing(t) = r.cost - SumOver(f, Lots) /\ Missing(t) \in Nat
  BY <1>1, <1>2, <1>3, <1>4 DEF Missing, Total
<1> QED
  BY <1>1, <1>5 DEF Spend

LEMMA PassActs ==
    ASSUME LedgerInv, NEW t \in Tasks, PassStep(t),
           NEW q \in TaskRecords, task' = [task EXCEPT ![t] = q]
    PROVE  Waits(t, q)
<1> DEFINE r == task[t]
<1> USE DEF At, Steps, ChargeSteps, RefundSteps
<1>1. /\ r \in TaskRecords /\ q = task'[t] /\ task \in [Tasks -> TaskRecords]
      /\ usage' = usage /\ book' = book
  BY Acting DEF LedgerInv, TasksOK, PassStep, ReadSummary, ReadLots, ReportLots, TakeLot,
     RollBackLot, RefundLot
<1>2. ASSUME q.at \in {"passRead", "promo", "passTake", "passReport", "passRollback", "idle",
                       "refundLots"}
      PROVE  Waits(t, q)
  BY <1>1, <1>2, StepIsFree DEF FreeSteps, SameBook
<1>3. CASE ReadSummary(t)
  <2>1. PICK left \in Nat : left = Total(Offered(now))
    BY OfferIsCounted
  <2>2. PICK step \in {"passRead", "promo"} :
            task' = [task EXCEPT ![t].passLeft = left, ![t].at = step]
    BY <1>3, <2>1 DEF ReadSummary
  <2>3. PICK p : p = [r EXCEPT !.passLeft = left]
    OBVIOUS
  <2>4. p \in TaskRecords
    BY <1>1, <2>3, ReadingIsSet
  <2>5. q = [p EXCEPT !.at = step]
    BY <1>1, <2>2, <2>3
  <2>6. q.at = step
    BY <2>4, <2>5, StepIsSet
  <2> QED
    BY <1>2, <2>6
<1>4. CASE ReadLots(t)
  <2>1. CASE Goes(t, "promo")
    BY <1>1, <1>2, <2>1, StepAfter, ZenonT(60)
  <2>2. CASE ~Goes(t, "promo")
    <3>1. PICK began, offered :
              task' = [task EXCEPT ![t].at = "passTake", ![t].began = began, ![t].offered = offered]
      BY <1>4, <2>2 DEF ReadLots
    <3>2. q = [r EXCEPT !.at = "passTake", !.began = began, !.offered = offered]
      BY <1>1, <3>1
    <3>3. q.at = "passTake"
      BY <1>1, <3>2 DEF TaskRecords
    <3> QED
      BY <1>2, <3>3
  <2> QED
    BY <2>1, <2>2
<1>5. CASE ReportLots(t)
  BY <1>1, <1>5, RequestIsServed DEF ReportLots, Kinds
<1>6. ASSUME NEW l \in Lots, TakeLot(t, l)
      PROVE  Waits(t, q)
  <2>1. CASE CanTake(t, l)
    <3>1. PICK n \in Nat : n = Spend(t, l)
      BY <1>6, SpendIsCounted DEF TakeLot
    <3>2. PICK f \in [Lots -> Nat] : f = r.taken
      BY <1>1 DEF TaskRecords
    <3>3. PICK step \in {"passReport", "passTake"} :
              task' = [task EXCEPT ![t].taken[l] = n, ![t].at = step]
      BY <1>1, <1>6, <2>1, <3>1 DEF TakeLot, Takes
    <3>4. PICK p : p = [r EXCEPT !.taken = [f EXCEPT ![l] = n]]
      OBVIOUS
    <3>5. p \in TaskRecords
      BY <1>1, <3>4, TakenIsSet
    <3>6. q = [p EXCEPT !.at = step]
      BY <1>1, <3>2, <3>3, <3>4
    <3>7. q.at = step
      BY <3>5, <3>6, StepIsSet
    <3> QED
      BY <1>2, <3>7
  <2>2. CASE ~CanTake(t, l)
    <3>1. PICK p : p = [r EXCEPT !.at = "passRollback"]
      OBVIOUS
    <3>2. q = WithoutPass(r) \/ q = p
      BY <1>1, <1>6, <2>2, <3>1 DEF TakeLot
    <3>3. p.at = "passRollback" /\ WithoutPass(r).at = "promo"
      BY <1>1, <3>1, WithoutPassIsOK DEF TaskRecords
    <3> QED
      BY <1>2, <3>2, <3>3
  <2> QED
    BY <2>1, <2>2
<1>7. ASSUME NEW l \in Lots, RollBackLot(t, l) \/ RefundLot(t, l)
      PROVE  Waits(t, q)
  <2>1. PICK p \in TaskRecords : p = [r EXCEPT !.taken[l] = 0] /\ p.at = r.at
    BY LotIsLetGo
  <2>2. WithoutPass(p).at = "promo" /\ Idle.at = "idle"
    BY <2>1, WithoutPassIsOK, IdleIsOK
  <2>3. CASE RollBackLot(t, l)
    <3>1. r.at = "passRollback" /\ (q = WithoutPass(p) \/ q = p)
      BY <1>1, <2>1, <2>3 DEF RollBackLot
    <3> QED
      BY <1>2, <2>1, <2>2, <3>1
  <2>4. CASE RefundLot(t, l)
    <3>1. r.at = "refundLots" /\ (q = Idle \/ q = p)
      BY <1>1, <2>1, <2>4 DEF RefundLot
    <3> QED
      BY <1>2, <2>1, <2>2, <3>1
  <2> QED
    BY <1>7, <2>3, <2>4
<1> QED
  BY <1>3, <1>4, <1>5, <1>6, <1>7 DEF PassStep

LEMMA PromoActs ==
    ASSUME LedgerInv, NEW t \in Tasks, NEW promo \in Promos, ReadPromo(t, promo),
           NEW q \in TaskRecords, task' = [task EXCEPT ![t] = q]
    PROVE  Waits(t, q)
<1> DEFINE r == task[t]
<1>1. /\ r \in TaskRecords /\ q = task'[t] /\ task \in [Tasks -> TaskRecords]
      /\ usage' = usage
  BY Acting DEF LedgerInv, TasksOK, ReadPromo
<1>2. CASE Served(t, "none") /\ book' = book
  BY <1>1, <1>2, RequestIsServed DEF Kinds
<1>3. CASE Ends(t)
  <2>1. q.at = "idle" /\ SameBook
    BY <1>3, RecordAfter, BookIsSame, IdleIsOK
  <2> QED
    BY <1>1, <2>1, StepIsFree DEF FreeSteps
<1>4. CASE ~(Served(t, "none") /\ book' = book) /\ ~Ends(t)
  <2>1. PICK step \in {"welcomeTake", "daily"} :
            task' = [task EXCEPT ![t] = [Idle EXCEPT !.at = step, !.cost = r.cost, !.taken = r.taken,
                                                     !.limit = LimitWith(promo)]]
    BY <1>4 DEF ReadPromo
  <2>2. PICK limit \in Nat : limit = LimitWith(promo) /\ limit <= Quota
    BY CreditAssumption DEF LimitWith, Quota
  <2>3. q = [Idle EXCEPT !.at = step, !.cost = r.cost, !.taken = r.taken, !.limit = limit]
    BY <1>1, <2>1, <2>2
  <2>4. q.at = step /\ q.limit = limit
    BY <2>3 DEF Idle
  <2>5. SameBook
    BY <1>4 DEF ReadPromo, SameBook
  <2> QED
    BY <1>1, <2>2, <2>4, <2>5 DEF Waits, AsksQuota, Holds, HoldsDaily, PlanSteps
<1> QED
  BY <1>2, <1>3, <1>4

LEMMA WelcomeActs ==
    ASSUME LedgerInv, NEW t \in Tasks,
           TakeWelcome(t) \/ MarkExhausted(t) \/ ReadUserAgain(t) \/ RefundWelcome(t),
           NEW q \in TaskRecords, task' = [task EXCEPT ![t] = q]
    PROVE  Waits(t, q)
<1> DEFINE r == task[t]
<1> USE DEF At, Steps, ChargeSteps, RefundSteps
<1>1. r \in TaskRecords /\ usage' = usage
  BY Acting DEF TakeWelcome, MarkExhausted, ReadUserAgain, RefundWelcome
<1>2. \/ Ends(t) \/ (Served(t, "welcome") /\ book' = book)
      \/ Goes(t, "welcomeMark") /\ book' = book
      \/ r.at \in QuotaSteps /\ (Goes(t, "welcomeFresh") \/ Goes(t, "daily")) /\ book' = book
  BY DEF TakeWelcome, MarkExhausted, ReadUserAgain, RefundWelcome, QuotaSteps
<1>3. CASE Ends(t)
  <2>1. q.at = "idle" /\ SameBook
    BY <1>3, RecordAfter, BookIsSame, IdleIsOK
  <2> QED
    BY <1>1, <2>1, StepIsFree DEF FreeSteps
<1>4. CASE Served(t, "welcome") /\ book' = book
  BY <1>1, <1>4, RequestIsServed DEF Kinds
<1>5. CASE Goes(t, "welcomeMark") /\ book' = book
  <2>1. q.at = "welcomeMark"
    BY <1>5, StepAfter
  <2> QED
    BY <1>1, <1>5, <2>1, StepIsFree DEF FreeSteps, SameBook
<1>6. CASE r.at \in QuotaSteps /\ (Goes(t, "welcomeFresh") \/ Goes(t, "daily")) /\ book' = book
  <2>1. q.at \in {"welcomeFresh", "daily"} /\ q.limit = r.limit
    BY <1>6, StepAfter
  <2> QED
    BY <1>1, <1>6, <2>1 DEF Waits, AsksQuota, SameBook, Holds, HoldsDaily, PlanSteps
<1> QED
  BY <1>2, <1>3, <1>4, <1>5, <1>6

LEMMA CheckActs ==
    ASSUME LedgerInv, NEW t \in Tasks, ReadQuota(t),
           NEW q \in TaskRecords, task' = [task EXCEPT ![t] = q]
    PROVE  Waits(t, q)
<1> DEFINE r == task[t]
<1>1. /\ r \in TaskRecords /\ usage' = usage /\ q = task'[t]
      /\ task \in [Tasks -> TaskRecords] /\ r.at = "daily"
      /\ usage \in [Dates -> UsageDocument] /\ r.limit \in Nat /\ r.cost \in Nat
  BY Acting DEF ReadQuota, LedgerInv, TasksOK, DataOK, At, TaskRecords
<1>2. CASE Ends(t)
  <2>1. q.at = "idle" /\ SameBook
    BY <1>2, RecordAfter, BookIsSame, IdleIsOK
  <2> QED
    BY <1>1, <2>1, StepIsFree DEF FreeSteps
<1>3. CASE ~Ends(t)
  <2>1. PICK date \in Nat : date = Today /\ date \in Dates
    BY TodayIsADate
  <2>2. PICK step \in {"dailyAdd", "dailyNew"} :
            step = IF usage[date].there THEN "dailyAdd" ELSE "dailyNew"
    OBVIOUS
  <2>3. PICK used \in Int : used = IF usage[date].there THEN usage[date].used ELSE 0
    BY <1>1, <2>1 DEF UsageDocument
  <2>4. /\ task' = [task EXCEPT ![t].at = step, ![t].date = date]
        /\ QuotaCovers(t, used) /\ book' = book
    BY <1>3, <2>1, <2>2, <2>3 DEF ReadQuota
  <2>5. used + r.cost <= r.limit
    BY <1>1, <2>4 DEF QuotaCovers
  <2>6. PICK s : s = [r EXCEPT !.at = step]
    OBVIOUS
  <2>7. s \in TaskRecords /\ s.at = step /\ s.cost = r.cost /\ s.limit = r.limit
    BY <1>1, <2>6 DEF TaskRecords, ChargeSteps
  <2>8. q = [s EXCEPT !.date = date]
    BY <1>1, <2>4, <2>6
  <2>9. q.at = s.at /\ q.date = date /\ q.cost = s.cost /\ q.limit = s.limit
    BY <2>7, <2>8 DEF TaskRecords
  <2>10. AsksQuota(r, q)
    BY <1>1, <2>1, <2>2, <2>3, <2>5, <2>7, <2>9 DEF AsksQuota, QuotaSteps
  <2>11. usage' = usage /\ SameBook
    BY <1>1, <2>4 DEF SameBook
  <2> QED
    BY <2>2, <2>7, <2>9, <2>10, <2>11 DEF Waits, Holds, HoldsDaily, PlanSteps
<1> QED
  BY <1>2, <1>3

(* The quota is charged.                                                   *)
LEMMA QuotaActs ==
    ASSUME LedgerInv, UsageInv, NEW t \in Tasks, AddQuota(t) \/ StartQuota(t),
           NEW q \in TaskRecords, task' = [task EXCEPT ![t] = q]
    PROVE  \E d \in Dates : Charges(t, q, d)
<1> DEFINE r == task[t]
<1>1. /\ r \in TaskRecords /\ q = task'[t] /\ task \in [Tasks -> TaskRecords]
      /\ usage \in [Dates -> UsageDocument] /\ RequestOK(r) /\ r.cost \in Nat /\ book' = book
      /\ Today \in Dates /\ Today \in Nat
  BY Acting, TodayIsADate DEF AddQuota, StartQuota, UsageInv, LedgerInv, TasksOK, DataOK, TaskRecords
<1>2. CASE AddQuota(t)
  <2>1. PICK d \in Dates : d = r.date /\ d <= Today /\ usage[d].there
    BY <1>1, <1>2 DEF AddQuota, RequestOK, At
  <2>2. q = ServedBy("daily", r)
    BY <1>2, RecordAfter DEF AddQuota, Kinds
  <2>3. q.at = "served" /\ q.kind = "daily" /\ q.cost = r.cost /\ q.date = d
    BY <1>1, <2>1, <2>2, ServedAfter DEF Kinds
  <2>4. PICK n : n = usage[d].used + r.cost
    OBVIOUS
  <2>5. usage' = [usage EXCEPT ![d].used = n] /\ r.at = "dailyAdd"
    BY <1>2, <2>1, <2>4 DEF AddQuota, At
  <2>6. /\ usage'[d].there /\ usage'[d].used = n
        /\ \A e \in Dates \ {d} : usage'[e] = usage[e]
    BY <1>1, <2>1, <2>5 DEF UsageDocument
  <2>7. Charges(t, q, d)
    BY <1>1, <2>1, <2>3, <2>4, <2>5, <2>6 DEF Charges, Holds, HoldsDaily
  <2> QED
    BY <2>7
<1>3. CASE StartQuota(t)
  <2>1. PICK d \in Dates : d = Today /\ d \in Nat
    BY <1>1
  <2>2. PICK s : s = [r EXCEPT !.date = d]
    OBVIOUS
  <2>3. s \in TaskRecords /\ s.cost = r.cost /\ s.date = d
    BY <1>1, <2>1, <2>2 DEF TaskRecords
  <2>4. q = ServedBy("daily", s)
    BY <1>1, <1>3, <2>1, <2>2 DEF StartQuota
  <2>5. q.at = "served" /\ q.kind = "daily" /\ q.cost = r.cost /\ q.date = d
    BY <2>3, <2>4, ServedAfter DEF Kinds
  <2>6. PICK n : n = usage[d].used + r.cost
    OBVIOUS
  <2>7. usage' = [usage EXCEPT ![d] = [there |-> TRUE, used |-> n]] /\ r.at = "dailyNew"
    BY <1>3, <2>1, <2>6 DEF StartQuota, AddUsage, At
  <2>8. /\ usage'[d].there /\ usage'[d].used = n
        /\ \A e \in Dates \ {d} : usage'[e] = usage[e]
    BY <1>1, <2>7
  <2>9. d <= Today
    BY <1>1, <2>1
  <2>10. Charges(t, q, d)
    BY <1>1, <2>1, <2>5, <2>6, <2>7, <2>8, <2>9 DEF Charges, Holds, HoldsDaily
  <2> QED
    BY <2>10
<1> QED
  BY <1>2, <1>3

LEMMA RequestBeginsOrEnds ==
    ASSUME LedgerInv, NEW t \in Tasks,
           \/ \E cost \in Costs : Charge(t, cost) \/ UserUnread(t, cost)
           \/ Answered(t) \/ Refund(t),
           NEW q \in TaskRecords, task' = [task EXCEPT ![t] = q]
    PROVE  Waits(t, q)
<1> DEFINE r == task[t]
<1>1. /\ r \in TaskRecords /\ usage' = usage /\ q = task'[t]
      /\ task \in [Tasks -> TaskRecords]
  BY Acting DEF Charge, UserUnread, Answered, Refund, LedgerInv, TasksOK
<1>2. ASSUME NEW cost \in Costs, Charge(t, cost)
      PROVE  Waits(t, q)
  <2>1. q = [Idle EXCEPT !.at = "readPool", !.cost = cost, !.seen = welcome]
    BY <1>1, <1>2 DEF Charge
  <2>2. q.at = "readPool"
    BY <2>1 DEF Idle
  <2>3. SameBook
    BY <1>2 DEF Charge, SameBook
  <2> QED
    BY <1>1, <2>2, <2>3, StepIsFree DEF FreeSteps
<1>3. ASSUME NEW cost \in Costs, UserUnread(t, cost)
      PROVE  Waits(t, q)
  <2>1. PICK s : s = [Idle EXCEPT !.cost = cost]
    OBVIOUS
  <2>2. cost \in Nat
    BY CreditAssumption
  <2>3. s \in TaskRecords
    BY <2>1, <2>2, IdleIsOK, CostIsSet
  <2>4. q = ServedBy("none", s)
    BY <1>1, <1>3, <2>1 DEF UserUnread
  <2>5. q.at = "served" /\ q.kind = "none"
    BY <2>3, <2>4, ServedAfter DEF Kinds
  <2>6. SameBook
    BY <1>3 DEF UserUnread, SameBook
  <2> QED
    BY <1>1, <2>5, <2>6 DEF Waits, Holds, HoldsDaily, PlanSteps, QuotaSteps
<1>4. CASE Answered(t)
  <2>1. q.at = "idle" /\ SameBook
    BY <1>4, RecordAfter, BookIsSame, IdleIsOK DEF Answered
  <2> QED
    BY <1>1, <2>1, StepIsFree DEF FreeSteps
<1>5. CASE Refund(t)
  <2>1. PICK step \in {"refundUsage", "refundLots", "refundWelcome"} :
            step = FirstRefundStep(r.kind) /\ (step = "refundUsage" => r.kind \in {"pool", "daily"})
    BY <1>1, <1>5 DEF Refund, FirstRefundStep, TaskRecords, Kinds
  <2>2. Goes(t, step) /\ r.at = "served" /\ book' = book
    BY <1>5, <2>1 DEF Refund, At
  <2>3. q.at = step /\ q.kind = r.kind /\ q.date = r.date /\ q.cost = r.cost
    BY <2>2, StepAfter, ZenonT(60) DEF Steps, RefundSteps
  <2> QED
    BY <1>1, <2>1, <2>2, <2>3 DEF Waits, SameBook, Holds, HoldsDaily, PlanSteps, QuotaSteps
<1> QED
  BY <1>2, <1>3, <1>4, <1>5

LEMMA FaultActs ==
    ASSUME LedgerInv, NEW t \in Tasks, Fault(t),
           NEW q \in TaskRecords, task' = [task EXCEPT ![t] = q]
    PROVE  Waits(t, q)
<1> DEFINE r == task[t]
<1>1. /\ r \in TaskRecords /\ usage' = usage /\ q = task'[t]
      /\ task \in [Tasks -> TaskRecords] /\ book \in Book
  BY Acting DEF Fault, LedgerInv, TasksOK, DataOK
<1>2. ASSUME NEW l \in Lots, LotRefundRaises(t, l)
      PROVE  Waits(t, q)
  <2>1. PICK p \in TaskRecords : p = [r EXCEPT !.taken[l] = 0] /\ p.at = r.at
    BY LotIsLetGo
  <2>2. r.at = "refundLots" /\ (q = Idle \/ q = p)
    BY <1>1, <1>2, <2>1 DEF LotRefundRaises, At
  <2>3. q.at \in {"idle", "refundLots"}
    BY <2>1, <2>2, IdleIsOK
  <2>4. PICK n : n = book.lots[l] + r.taken[l]
    OBVIOUS
  <2>5. book' = [book EXCEPT !.lots[l] = n]
    BY <1>2, <2>4 DEF LotRefundRaises
  <2>6. SameBook
    BY <1>1, <2>5 DEF SameBook, Book
  <2> QED
    BY <1>1, <2>3, <2>6, StepIsFree DEF FreeSteps, RefundSteps
<1>3. CASE (Raises(t) \/ Crash(t)) /\ Ends(t)
  <2>1. q.at = "idle" /\ SameBook
    BY <1>3, RecordAfter, BookIsSame, IdleIsOK
  <2> QED
    BY <1>1, <2>1, StepIsFree DEF FreeSteps
<1>4. CASE (Raises(t) \/ Crash(t)) /\ ~Ends(t)
  <2>1. /\ book' = book
        /\ \/ Goes(t, "passSummary") \/ (Served(t, "pool") /\ r.at = "poolSync") \/ Served(t, "none")
           \/ task' = [task EXCEPT ![t] = WithoutPass(@)]
    BY <1>4 DEF Raises, Crash, SwallowedBySync
  <2>2. CASE Goes(t, "passSummary")
    <3>1. q.at = "passSummary"
      BY <2>2, StepAfter DEF Steps, ChargeSteps
    <3> QED
      BY <1>1, <2>1, <3>1, StepIsFree DEF FreeSteps, SameBook
  <2>3. CASE (Served(t, "pool") /\ r.at = "poolSync") \/ Served(t, "none")
    BY <1>1, <2>1, <2>3, RequestIsServed DEF Kinds
  <2>4. CASE task' = [task EXCEPT ![t] = WithoutPass(@)]
    <3>1. q.at = "promo"
      BY <1>1, <2>4, WithoutPassIsOK
    <3> QED
      BY <1>1, <2>1, <3>1, StepIsFree DEF FreeSteps, SameBook
  <2> QED
    BY <2>1, <2>2, <2>3, <2>4
<1> QED
  BY <1>2, <1>3, <1>4 DEF Fault

(* A request writes nothing of the plan but its balance.                   *)
LEMMA PlanStays ==
    ASSUME LedgerInv, NEW t \in Tasks, RequestStep(t)
    PROVE  SamePlan /\ now' = now
<1>1. sub \in Document(Purchases) /\ task[t].balance \in Nat
  BY Acting DEF LedgerInv, DataOK, TaskRecords
<1>2. ASSUME SetRemaining(task[t].balance)
      PROVE  SamePlan
  <2>1. PICK n \in Nat : n = IF sub.exists THEN task[t].balance ELSE sub.remaining
    BY <1>1 DEF Document
  <2>2. sub' = [sub EXCEPT !.remaining = n]
    BY <1>2, <2>1 DEF SetRemaining
  <2>3. sub'.exists = sub.exists /\ sub'.start = sub.start /\ sub'.end = sub.end /\ sub'.total = sub.total
    BY <1>1, <2>2 DEF Document
  <2>4. sub = NoDocument => n = sub.remaining
    BY <2>1 DEF NoDocument
  <2>5. sub = NoDocument => sub' = NoDocument
    BY <2>2, <2>4 DEF NoDocument
  <2> QED
    BY <2>3, <2>5 DEF SamePlan
<1>3. CASE PoolSync(t) \/ RefundSync(t)
  BY <1>2, <1>3 DEF PoolSync, RefundSync
<1>4. CASE ~(PoolSync(t) \/ RefundSync(t))
  <2>1. sub' = sub /\ now' = now
    BY <1>4 DEF RequestStep, Charge, UserUnread, PoolStep, PassStep, FreeStep, Answered, Refund,
       Fault, ReadPool, PoolUsage, PoolCheck, PoolIncrement, PoolBalance, RefundUsage, RefundRead,
       RefundActive, RefundBalance, ReadSummary, ReadLots, ReportLots, TakeLot, RollBackLot,
       RefundLot, ReadPromo, TakeWelcome, MarkExhausted, ReadUserAgain, ReadQuota, AddQuota,
       StartQuota, RefundWelcome
  <2> QED
    BY <2>1 DEF SamePlan
<1> QED
  BY <1>3, <1>4

LEMMA RequestActs ==
    ASSUME LedgerInv, UsageInv, NEW t \in Tasks, RequestStep(t)
    PROVE  \E q : Acts(t, q)
<1>1. PICK q : Moves(t, q)
  BY RequestsMove
<1>2. q \in TaskRecords /\ task' = [task EXCEPT ![t] = q]
  BY <1>1 DEF Moves
<1>3. Waits(t, q) \/ (\E d \in Dates : Charges(t, q, d)) \/ Refunds(t, q)
  <2>1. CASE PoolStep(t) \/ PassStep(t)
    BY <1>2, <2>1, PoolActs, PassActs
  <2>2. CASE FreeStep(t)
    BY <1>2, <2>2, PromoActs, WelcomeActs, CheckActs, QuotaActs DEF FreeStep
  <2>3. CASE Fault(t)
    BY <1>2, <2>3, FaultActs
  <2>4. CASE \/ \E cost \in Costs : Charge(t, cost) \/ UserUnread(t, cost)
             \/ Answered(t) \/ Refund(t)
    BY <1>2, <2>4, RequestBeginsOrEnds
  <2> QED
    BY <2>1, <2>2, <2>3, <2>4 DEF RequestStep
<1> QED
  BY <1>2, <1>3, PlanStays DEF Acts

LEMMA DatesAreOrdered ==
    ASSUME NEW m \in Nat, NEW n \in Nat, m <= n
    PROVE  Date(m) \in Nat /\ Date(n) \in Nat /\ Date(m) <= Date(n)
  BY CreditAssumption DEF Date

LEMMA HeldIsCounted ==
    ASSUME NEW d, NEW r \in TaskRecords
    PROVE  HeldOn(d, r) \in Nat
  BY DEF HeldOn, TaskRecords

(* What is held of a day changes with the request that moves.              *)
LEMMA HeldChanges ==
    ASSUME LedgerInv, LedgerInv', NEW t \in Tasks, NEW q \in TaskRecords,
           task' = [task EXCEPT ![t] = q], NEW d \in Dates
    PROVE  /\ SumOver(HeldCharges[d], Tasks) \in Nat /\ SumOver(HeldCharges'[d], Tasks) \in Nat
           /\ SumOver(HeldCharges'[d], Tasks)
                = SumOver(HeldCharges[d], Tasks) + HeldOn(d, q) - HeldOn(d, task[t])
<1>1. task \in [Tasks -> TaskRecords] /\ task' \in [Tasks -> TaskRecords]
  BY DEF LedgerInv, TasksOK
<1>2. PICK f : f = HeldCharges[d]
  OBVIOUS
<1>3. PICK g : g = HeldCharges'[d]
  OBVIOUS
<1>4. \A u \in Tasks : f[u] = HeldOn(d, task[u]) /\ g[u] = HeldOn(d, task'[u])
  BY <1>2, <1>3 DEF HeldCharges
<1>5. \A u \in Tasks : f[u] \in Nat /\ g[u] \in Nat
  BY <1>1, <1>4, HeldIsCounted
<1>6. \A u \in Tasks \ {t} : g[u] = f[u]
  BY <1>1, <1>4
<1>7. f[t] = HeldOn(d, task[t]) /\ g[t] = HeldOn(d, q)
  BY <1>1, <1>4
<1>8. IntegersOn(f, Tasks) /\ IntegersOn(g, Tasks)
  BY <1>5 DEF IntegersOn
<1>9. SumOver(g, Tasks) = SumOver(f, Tasks) + g[t] - f[t]
  BY <1>6, <1>8, SumChanges, CreditAssumption
<1>10. SumOver(f, Tasks) \in Nat /\ SumOver(g, Tasks) \in Nat
  BY <1>5, SumIsNatural, CreditAssumption
<1> QED
  BY <1>2, <1>3, <1>7, <1>9, <1>10

LEMMA DaysAreKept ==
    ASSUME LedgerInv, LedgerInv', UsageInv, NEW t \in Tasks, NEW q, Acts(t, q), NEW d \in Dates
    PROVE  DayOK(d)' /\ (usage[d].there => usage'[d].there)
<1> DEFINE r == task[t]
<1>1. /\ r \in TaskRecords /\ q \in TaskRecords /\ r.cost \in Nat
      /\ Today' = Today /\ Today \in Dates /\ Today \in Nat /\ d \in Nat
      /\ DayOK(d) /\ RequestOK(r)
      /\ usage \in [Dates -> UsageDocument] /\ usage' \in [Dates -> UsageDocument]
  <2>1. r \in TaskRecords /\ q \in TaskRecords /\ r.cost \in Nat
    BY Acting DEF Acts, TaskRecords
  <2>2. Today' = Today /\ Today \in Dates /\ Today \in Nat /\ d \in Nat
    BY TodayIsADate DEF Acts, Today, Dates
  <2>3. usage \in [Dates -> UsageDocument] /\ usage' \in [Dates -> UsageDocument]
    BY DEF LedgerInv, DataOK
  <2> QED
    BY <2>1, <2>2, <2>3 DEF UsageInv
<1>2. /\ usage[d].used \in Int /\ usage'[d].used \in Int /\ book.strayed \in Int /\ book'.strayed \in Int
      /\ HeldOn(d, r) \in Nat /\ HeldOn(d, q) \in Nat
  BY <1>1, HeldIsCounted DEF LedgerInv, DataOK, UsageDocument, Book
<1>3. PICK held \in Nat : held = SumOver(HeldCharges[d], Tasks)
  BY HeldChanges DEF Acts
<1>4. PICK next \in Nat : next = SumOver(HeldCharges'[d], Tasks) /\ next = held + HeldOn(d, q) - HeldOn(d, r)
  BY <1>3, HeldChanges DEF Acts
<1>5. usage[d].used + book.strayed >= held /\ (~usage[d].there => usage[d].used = 0)
      /\ (d > Today => ~usage[d].there)
  BY <1>1, <1>3 DEF DayOK
<1>6. SUFFICES /\ usage'[d].used + book'.strayed >= next
               /\ ~usage'[d].there => usage'[d].used = 0
               /\ d > Today => ~usage'[d].there
               /\ usage[d].there => usage'[d].there
  BY <1>1, <1>4 DEF DayOK
<1>7. CASE Waits(t, q)
  <2>1. HeldOn(d, q) <= HeldOn(d, r)
    BY <1>1, <1>2, <1>7 DEF Waits, HeldOn
  <2>2. usage' = usage /\ book'.strayed = book.strayed
    BY <1>7 DEF Waits, SameBook
  <2> QED
    BY <1>2, <1>4, <1>5, <2>1, <2>2
<1>8. ASSUME NEW e \in Dates, Charges(t, q, e)
      PROVE  /\ usage'[d].used + book'.strayed >= next
             /\ ~usage'[d].there => usage'[d].used = 0
             /\ d > Today => ~usage'[d].there
             /\ usage[d].there => usage'[d].there
  <2>1. book'.strayed = book.strayed /\ e <= Today
    BY <1>8 DEF Charges
  <2>2. CASE d = e
    <3>1. HeldOn(d, q) = r.cost /\ usage'[d].used = usage[d].used + r.cost /\ usage'[d].there
      BY <1>8, <2>2 DEF Charges, HeldOn
    <3>2. ~(d > Today)
      BY <1>1, <2>1, <2>2
    <3> QED
      BY <1>1, <1>2, <1>4, <1>5, <2>1, <3>1, <3>2
  <2>3. CASE d # e
    <3>1. HeldOn(d, q) = 0 /\ usage'[d] = usage[d]
      BY <1>8, <2>3 DEF Charges, HeldOn
    <3> QED
      BY <1>2, <1>4, <1>5, <2>1, <3>1
  <2> QED
    BY <2>2, <2>3
<1>9. CASE Refunds(t, q)
  <2>1. /\ HeldOn(d, q) = 0
        /\ HeldOn(d, r) = IF r.date = d THEN r.cost ELSE 0
    BY <1>1, <1>9 DEF Refunds, HeldOn, Holds, HoldsDaily, RequestOK
  <2>2. CASE d = Today
    <3>1. /\ usage'[d].there = usage[d].there
          /\ usage'[d].used = usage[d].used - IF usage[d].there THEN r.cost ELSE 0
          /\ book'.strayed = book.strayed + IF r.date # d /\ usage[d].there THEN r.cost ELSE 0
      BY <1>9, <2>2 DEF Refunds
    <3>2. CASE usage[d].there
      BY <1>1, <1>2, <1>4, <1>5, <2>1, <3>1, <3>2
    <3>3. CASE ~usage[d].there
      <4>1. usage'[d].used = usage[d].used /\ book'.strayed = book.strayed
        BY <1>2, <3>1, <3>3
      <4>2. HeldOn(d, q) <= HeldOn(d, r)
        BY <1>2, <2>1
      <4> QED
        BY <1>2, <1>4, <1>5, <3>1, <3>3, <4>1, <4>2
    <3> QED
      BY <3>2, <3>3
  <2>3. CASE d # Today
    <3>1. usage'[d] = usage[d]
      BY <1>1, <1>9, <2>3 DEF Refunds
    <3>2. PICK n \in Nat : book'.strayed = book.strayed + n
      BY <1>1, <1>9 DEF Refunds
    <3> QED
      BY <1>1, <1>2, <1>4, <1>5, <2>1, <3>1, <3>2
  <2> QED
    BY <2>2, <2>3
<1> QED
  BY <1>7, <1>8, <1>9 DEF Acts

LEMMA UsageIsKept ==
    ASSUME LedgerInv, LedgerInv', UsageInv, NEW t \in Tasks, NEW q, Acts(t, q)
    PROVE  UsageInv'
<1> DEFINE r == task[t]
<1>1. /\ task \in [Tasks -> TaskRecords] /\ task' = [task EXCEPT ![t] = q]
      /\ Today' = Today /\ Today \in Dates /\ Today \in Nat /\ q \in TaskRecords
  BY TodayIsADate DEF LedgerInv, TasksOK, Acts, Today
<1>2. ASSUME NEW p, RequestOK(p)
      PROVE  RequestOK(p)'
  <2>1. \A d \in Dates : usage[d].there => usage'[d].there
    BY DaysAreKept
  <2> QED
    BY <1>1, <1>2, <2>1 DEF RequestOK
<1>3. RequestOK(r)
  BY DEF UsageInv
<1>4. RequestOK(q)
  <2>1. CASE Waits(t, q)
    <3>1. q.at \in {"dailyAdd", "dailyNew"} =>
              q.date = Today /\ (q.at = "dailyAdd" => usage[Today].there)
      BY <2>1 DEF Waits, AsksQuota, QuotaSteps
    <3>2. Holds(q) => q.date <= Today
      BY <1>3, <2>1 DEF Waits, RequestOK
    <3>3. q.at = "refundUsage" => Holds(q)
      BY <2>1 DEF Waits
    <3> QED
      BY <1>1, <3>1, <3>2, <3>3 DEF RequestOK
  <2>2. ASSUME NEW d \in Dates, Charges(t, q, d)
        PROVE  RequestOK(q)
    BY <2>2 DEF Charges, RequestOK
  <2>3. CASE Refunds(t, q)
    BY <2>3 DEF Refunds, RequestOK, Holds
  <2> QED
    BY <2>1, <2>2, <2>3 DEF Acts
<1>5. ASSUME NEW u \in Tasks
      PROVE  RequestOK(task[u])'
  <2>1. PICK p : p = task'[u]
    OBVIOUS
  <2>2. RequestOK(p)
    <3>1. p = IF u = t THEN q ELSE task[u]
      BY <1>1, <2>1
    <3> QED
      BY <1>4, <3>1 DEF UsageInv
  <2>3. RequestOK(p)'
    BY <1>2, <2>2
  <2> QED
    BY <2>1, <2>3 DEF RequestOK
<1>6. ~sub'.exists => sub' = NoDocument
  BY DEF UsageInv, Acts, SamePlan
<1>7. \A d \in Dates : DayOK(d)'
  BY DaysAreKept
<1> QED
  BY <1>5, <1>6, <1>7 DEF UsageInv

(* Time passes, or something is bought.                                    *)
LEMMA OthersKeepUsage ==
    ASSUME LedgerInv, LedgerInv', UsageInv, UNCHANGED <<usage, task>>,
           book'.strayed = book.strayed, now <= now', ~sub'.exists => sub' = NoDocument
    PROVE  UsageInv'
<1>1. Today \in Int /\ Today' \in Int /\ Today <= Today'
  <2>1. PICK a \in Nat : a = now
    BY DEF LedgerInv, DataOK
  <2>2. PICK b \in Nat : b = now' /\ a <= b
    BY <2>1 DEF LedgerInv, DataOK
  <2>3. Today = Date(a) /\ Today' = Date(b)
    BY <2>1, <2>2 DEF Today, Date
  <2> QED
    BY <2>2, <2>3, DatesAreOrdered
<1>2. ASSUME NEW d \in Dates
      PROVE  DayOK(d)'
  <2>1. DayOK(d) /\ d \in Int
    BY DEF UsageInv, Dates
  <2>2. HeldCharges' = HeldCharges
    BY DEF HeldCharges
  <2> QED
    BY <1>1, <2>1, <2>2 DEF DayOK
<1>3. ASSUME NEW t \in Tasks
      PROVE  RequestOK(task[t])'
  <2>1. RequestOK(task[t]) /\ task[t].date \in Nat
    BY Acting DEF UsageInv, TaskRecords
  <2> QED
    BY <1>1, <2>1 DEF RequestOK
<1> QED
  BY <1>2, <1>3 DEF UsageInv

LEMMA UsageBegins ==
    Init => UsageInv
<1> SUFFICES ASSUME Init PROVE UsageInv
  OBVIOUS
<1>1. ASSUME NEW d \in Dates
      PROVE  DayOK(d)
  <2>1. \A t \in Tasks : HeldCharges[d][t] = 0
    BY DEF Init, HeldCharges, HeldOn, Holds, HoldsDaily, Idle
  <2>2. SumOver(HeldCharges[d], Tasks) = 0
    BY <2>1, SumOfZeros, CreditAssumption
  <2>3. usage[d].used = 0 /\ usage[d].there = FALSE /\ book.strayed = 0
    BY DEF Init
  <2> QED
    BY <2>2, <2>3 DEF DayOK
<1>2. \A t \in Tasks : RequestOK(task[t])
  BY DEF Init, RequestOK, Idle, Holds
<1> QED
  BY <1>1, <1>2 DEF UsageInv, Init

LEMMA UsageStep ==
    LedgerInv /\ LedgerInv' /\ UsageInv /\ [Next]_vars => UsageInv'
<1> SUFFICES ASSUME LedgerInv, LedgerInv', UsageInv, [Next]_vars PROVE UsageInv'
  OBVIOUS
<1>1. ASSUME NEW t \in Tasks, RequestStep(t)
      PROVE  UsageInv'
  BY <1>1, RequestActs, UsageIsKept
<1>2. now \in Nat
  BY DEF LedgerInv, DataOK
<1>3. ASSUME NEW k \in Purchases, BuyPlan(k)
      PROVE  UsageInv'
  <2>1. sub'.exists
    BY <1>3 DEF BuyPlan, WebGrant
  <2>2. PICK paid, charged : book' = [book EXCEPT !.paid = paid, !.charged = charged]
    BY <1>3 DEF BuyPlan
  <2>3. book'.strayed = book.strayed
    BY <2>2 DEF LedgerInv, DataOK, Book
  <2>4. UNCHANGED <<now, usage, task>>
    BY <1>3 DEF BuyPlan
  <2> QED
    BY <1>2, <2>1, <2>3, <2>4, OthersKeepUsage
<1>4. CASE Tick
  <2>1. UNCHANGED <<sub, usage, task, book>> /\ now' = now + 1
    BY <1>4 DEF Tick
  <2> QED
    BY <1>2, <2>1, OthersKeepUsage DEF UsageInv
<1>5. CASE (\E l \in Lots : BuyLot(l)) \/ UNCHANGED vars
  <2>1. UNCHANGED <<now, sub, usage, task, book>>
    BY <1>5 DEF BuyLot, vars
  <2> QED
    BY <1>2, <2>1, OthersKeepUsage DEF UsageInv
<1> QED
  BY <1>1, <1>3, <1>4, <1>5 DEF Next

LEMMA UsageHolds ==
    Spec => []UsageInv
<1>1. LedgerInv /\ LedgerInv' /\ UsageInv /\ [Next]_vars => UsageInv'
  BY UsageStep
<1> QED
  BY <1>1, UsageBegins, LedgerHolds, PTL DEF Spec

LEMMA LargestCost ==
    MaxCost \in Costs /\ \A c \in Costs : c <= MaxCost
<1> DEFINE B == {T \in SUBSET Costs : T # {} /\ ~\E m \in T : \A c \in T : c <= m}
<1>1. Costs \subseteq Nat /\ IsFiniteSet(Costs) /\ Costs # {}
  BY CreditAssumption
<1>2. B = {}
  <2>1. SUFFICES ASSUME B # {} PROVE FALSE
    OBVIOUS
  <2>2. B \subseteq SUBSET Costs /\ B # {}
    BY <2>1
  <2>3. PICK T \in B : \A U \in B : U \subseteq T => U = T
    <3> HIDE DEF B
    <3>1. IsFiniteSet(Costs)
      BY <1>1
    <3> QED
      BY <2>2, <3>1, SmallestSubset
  <2>4. PICK x \in T : T \in SUBSET Nat /\ x \in Nat
    BY <1>1
  <2>5. CASE T \ {x} = {}
    <3>1. \A c \in T : c <= x
      BY <2>4, <2>5
    <3> QED
      BY <3>1
  <2>6. CASE T \ {x} # {}
    <3>1. T \ {x} \notin B
      BY <2>3
    <3>2. PICK m \in T \ {x} : \A c \in T \ {x} : c <= m
      BY <2>6, <3>1
    <3>3. (\A c \in T : c <= m) \/ (\A c \in T : c <= x)
      BY <2>4, <3>2
    <3> QED
      BY <3>2, <3>3
  <2> QED
    BY <2>5, <2>6
<1>3. \E m \in Costs : \A c \in Costs : c <= m
  BY <1>1, <1>2
<1> QED
  BY <1>3 DEF MaxCost

LEMMA OthersAreCounted ==
    /\ MaxCost \in Nat /\ Cardinality(Tasks) \in Nat /\ Cardinality(Tasks) > 0
    /\ OthersCost \in Nat /\ Quota \in Nat
<1>1. MaxCost \in Nat
  BY LargestCost, CreditAssumption
<1>2. Cardinality(Tasks) \in Nat /\ Cardinality(Tasks) # 0
  BY CreditAssumption, FS_CardinalityType, FS_EmptySet
<1>3. \A m, n \in Nat : n > 0 => (n - 1) * m \in Nat
  OBVIOUS
<1>4. OthersCost \in Nat
  BY <1>1, <1>2, <1>3 DEF OthersCost
<1> QED
  BY <1>1, <1>2, <1>4, CreditAssumption DEF Quota, LimitWith

(* What all the requests but one may add.                                  *)
LEMMA OthersAreBounded ==
    ASSUME NEW f, \A u \in Tasks : f[u] \in Nat /\ f[u] <= MaxCost, NEW t \in Tasks
    PROVE  SumOver(f, Tasks) \in Nat /\ SumOver(f, Tasks) - f[t] <= OthersCost
<1>1. IsFiniteSet(Tasks \ {t}) /\ Cardinality(Tasks \ {t}) = Cardinality(Tasks) - 1
  BY CreditAssumption, FS_RemoveElement
<1>2. IntegersOn(f, Tasks \ {t}) /\ MaxCost \in Int /\ \A u \in Tasks \ {t} : f[u] <= MaxCost
  BY OthersAreCounted DEF IntegersOn
<1>3. SumOver(f, Tasks \ {t}) <= Cardinality(Tasks \ {t}) * MaxCost
  BY <1>1, <1>2, SumIsBounded
<1>4. IntegersOn(f, Tasks)
  BY DEF IntegersOn
<1>5. SumOver(f, Tasks) = f[t] + SumOver(f, Tasks \ {t}) /\ SumOver(f, Tasks \ {t}) \in Int
  BY <1>4, SumSplit, CreditAssumption
<1>6. SumOver(f, Tasks \ {t}) <= OthersCost
  BY <1>1, <1>3 DEF OthersCost
<1>7. f[t] \in Nat
  OBVIOUS
<1>8. SumOver(f, Tasks) \in Nat
  BY SumIsNatural, CreditAssumption
<1> QED
  BY <1>5, <1>6, <1>7, <1>8, OthersAreCounted

LEMMA AboutIsBounded ==
    ASSUME LedgerInv, NEW d, NEW t \in Tasks
    PROVE  About(d, task[t]) \in Nat /\ About(d, task[t]) <= MaxCost
<1>1. task[t] \in TaskRecords /\ TaskOK(task[t])
  BY Acting
<1>2. task[t].cost \in Nat /\ (task[t].at # "idle" => task[t].cost <= MaxCost)
  BY <1>1, LargestCost DEF TaskOK, TaskRecords
<1> QED
  BY <1>2, OthersAreCounted DEF About

(* Without a plan, a request adds to a day what it was about to add, or    *)
(* what the quota covers.                                                  *)
LEMMA DayIsCharged ==
    ASSUME LedgerInv, LedgerInv', UsageInv, QuotaInv, ~sub.exists,
           NEW t \in Tasks, NEW q, Acts(t, q), NEW d \in Dates
    PROVE  \/ usage'[d].used + About(d, q) <= usage[d].used + About(d, task[t])
           \/ usage'[d].used + About(d, q) <= Quota
<1> DEFINE r == task[t]
<1>1. /\ r \in TaskRecords /\ q \in TaskRecords /\ r.cost \in Nat /\ r.limit \in Nat
      /\ Today \in Dates /\ Today \in Nat /\ d \in Nat
      /\ DayOK(d) /\ DayOK(Today) /\ RequestOK(r)
      /\ usage \in [Dates -> UsageDocument]
      /\ r.at \notin PlanSteps /\ (r.at \in QuotaSteps => r.limit <= Quota)
  <2>1. r \in TaskRecords /\ q \in TaskRecords /\ r.cost \in Nat /\ r.limit \in Nat
    BY Acting DEF Acts, TaskRecords
  <2>2. Today \in Dates /\ Today \in Nat /\ d \in Nat /\ usage \in [Dates -> UsageDocument]
    BY TodayIsADate DEF LedgerInv, DataOK, Dates
  <2> QED
    BY <2>1, <2>2 DEF UsageInv, QuotaInv
<1>2. /\ usage[d].used \in Int /\ usage'[d].used \in Int /\ usage[Today].used \in Int
      /\ About(d, r) \in Nat /\ Quota \in Nat
  BY <1>1, AboutIsBounded, OthersAreCounted DEF LedgerInv, DataOK, UsageDocument
<1>3. CASE Waits(t, q) /\ q.at \notin {"dailyAdd", "dailyNew"}
  <2>1. About(d, q) = 0 /\ usage' = usage
    BY <1>3 DEF Waits, About
  <2> QED
    BY <1>2, <2>1
<1>4. CASE Waits(t, q) /\ q.at \in {"dailyAdd", "dailyNew"}
  <2>1. /\ r.at = "daily" /\ q.cost = r.cost /\ q.date = Today
        /\ q.at = IF usage[Today].there THEN "dailyAdd" ELSE "dailyNew"
        /\ (IF usage[Today].there THEN usage[Today].used ELSE 0) + r.cost <= r.limit
        /\ usage' = usage
    BY <1>4 DEF Waits, AsksQuota, QuotaSteps
  <2>2. About(d, r) = 0 /\ r.limit <= Quota
    BY <1>1, <2>1 DEF About, QuotaSteps
  <2>3. About(d, q) \in Nat /\ About(d, q) <= r.cost
    BY <1>1, <2>1 DEF About
  <2>4. usage[Today].used + r.cost <= Quota
    BY <1>1, <1>2, <2>1, <2>2 DEF DayOK
  <2>5. CASE d = Today
    BY <1>1, <1>2, <2>1, <2>3, <2>4, <2>5
  <2>6. CASE d > Today /\ q.at = "dailyNew"
    <3>1. usage[d].used = 0 /\ usage[Today].used = 0
      BY <1>1, <2>1, <2>6 DEF DayOK
    <3> QED
      BY <1>1, <1>2, <2>1, <2>3, <2>4, <3>1
  <2>7. CASE d # Today /\ ~(d > Today /\ q.at = "dailyNew")
    <3>1. About(d, q) = 0
      BY <1>1, <2>1, <2>7 DEF About
    <3> QED
      BY <1>2, <2>1, <2>2, <3>1
  <2> QED
    BY <1>1, <2>5, <2>6, <2>7
<1>5. ASSUME NEW e \in Dates, Charges(t, q, e)
      PROVE  usage'[d].used + About(d, q) <= usage[d].used + About(d, r)
  <2>1. About(d, q) = 0
    BY <1>5 DEF Charges, About
  <2>2. CASE d = e
    <3>1. About(d, r) = r.cost
      BY <1>1, <1>5, <2>2 DEF Charges, About, RequestOK, PlanSteps
    <3>2. usage'[d].used = usage[d].used + r.cost
      BY <1>5, <2>2 DEF Charges
    <3> QED
      BY <1>1, <1>2, <2>1, <3>1, <3>2
  <2>3. CASE d # e
    <3>1. usage'[d] = usage[d]
      BY <1>5, <2>3 DEF Charges
    <3> QED
      BY <1>2, <2>1, <3>1
  <2> QED
    BY <2>2, <2>3
<1>6. CASE Refunds(t, q)
  <2>1. About(d, q) = 0
    BY <1>6 DEF Refunds, About
  <2>2. usage'[d].used <= usage[d].used
    <3>1. CASE d = Today
      BY <1>1, <1>2, <1>6, <3>1 DEF Refunds
    <3>2. CASE d # Today
      BY <1>2, <1>6, <3>2 DEF Refunds
    <3> QED
      BY <3>1, <3>2
  <2> QED
    BY <1>2, <2>1, <2>2
<1> QED
  BY <1>3, <1>4, <1>5, <1>6 DEF Acts

LEMMA QuotaIsKept ==
    ASSUME LedgerInv, LedgerInv', UsageInv, QuotaInv, NEW t \in Tasks, NEW q, Acts(t, q)
    PROVE  QuotaInv'
<1> SUFFICES ASSUME ~sub'.exists PROVE QuotaInv'
  BY DEF QuotaInv
<1> DEFINE r == task[t]
<1>1. ~sub.exists /\ sub = NoDocument /\ now \in Nat
  BY DEF Acts, SamePlan, UsageInv, LedgerInv, DataOK
<1>2. /\ task \in [Tasks -> TaskRecords] /\ task' \in [Tasks -> TaskRecords]
      /\ task' = [task EXCEPT ![t] = q]
  BY DEF LedgerInv, TasksOK, Acts
<1>3. q.at \notin PlanSteps
  <2>1. r.at \notin PlanSteps
    BY <1>1 DEF QuotaInv
  <2>2. ~ActiveAt(sub, now)
    BY <1>1 DEF ActiveAt, NoDocument
  <2>3. CASE Waits(t, q)
    BY <2>1, <2>2, <2>3 DEF Waits, AsksPlan, PlanSteps
  <2>4. CASE Refunds(t, q) \/ \E d \in Dates : Charges(t, q, d)
    BY <2>4 DEF Refunds, Charges, PlanSteps
  <2> QED
    BY <2>3, <2>4 DEF Acts
<1>4. q.at \in QuotaSteps => q.limit <= Quota
  <2>1. r.at \in QuotaSteps => r.limit <= Quota
    BY <1>1 DEF QuotaInv
  <2>2. CASE Waits(t, q)
    BY <2>1, <2>2 DEF Waits, AsksQuota
  <2>3. CASE Refunds(t, q) \/ \E d \in Dates : Charges(t, q, d)
    BY <2>3 DEF Refunds, Charges, QuotaSteps
  <2> QED
    BY <2>2, <2>3 DEF Acts
<1>5. ASSUME NEW u \in Tasks
      PROVE  task'[u].at \notin PlanSteps /\ (task'[u].at \in QuotaSteps => task'[u].limit <= Quota)
  <2>1. task'[u] = IF u = t THEN q ELSE task[u]
    BY <1>2
  <2> QED
    BY <1>1, <1>3, <1>4, <2>1 DEF QuotaInv
<1>6. ASSUME NEW d \in Dates
      PROVE  usage'[d].used + SumOver(Awaited'[d], Tasks) <= Quota + OthersCost
  <2>1. PICK f : f = Awaited[d]
    OBVIOUS
  <2>2. PICK g : g = Awaited'[d]
    OBVIOUS
  <2>3. \A u \in Tasks : f[u] = About(d, task[u]) /\ g[u] = About(d, task'[u])
    BY <2>1, <2>2 DEF Awaited
  <2>4. \A u \in Tasks : f[u] \in Nat /\ f[u] <= MaxCost
    BY <2>3, AboutIsBounded
  <2>5. \A u \in Tasks : g[u] \in Nat
    BY <1>2, <2>3 DEF About, TaskRecords
  <2>6. \A u \in Tasks \ {t} : g[u] = f[u]
    BY <1>2, <2>3
  <2>7. f[t] = About(d, r) /\ g[t] = About(d, q)
    BY <1>2, <2>3
  <2>8. IntegersOn(f, Tasks) /\ IntegersOn(g, Tasks)
    BY <2>4, <2>5 DEF IntegersOn
  <2>9. SumOver(g, Tasks) = SumOver(f, Tasks) + g[t] - f[t]
    BY <2>6, <2>8, SumChanges, CreditAssumption
  <2>10. SumOver(f, Tasks) \in Nat /\ SumOver(f, Tasks) - f[t] <= OthersCost
    BY <2>4, OthersAreBounded
  <2>11. usage[d].used + SumOver(f, Tasks) <= Quota + OthersCost
    BY <1>1, <2>1 DEF QuotaInv
  <2>12. \/ usage'[d].used + g[t] <= usage[d].used + f[t]
         \/ usage'[d].used + g[t] <= Quota
    BY <1>1, <2>7, DayIsCharged
  <2>13. usage[d].used \in Int /\ usage'[d].used \in Int
    BY DEF LedgerInv, DataOK, UsageDocument
  <2>14. f[t] \in Nat /\ g[t] \in Nat /\ Quota \in Nat /\ OthersCost \in Nat
    BY <2>4, <2>5, OthersAreCounted
  <2>15. usage'[d].used + SumOver(g, Tasks) <= Quota + OthersCost
    BY <2>9, <2>10, <2>11, <2>12, <2>13, <2>14
  <2> QED
    BY <2>2, <2>15
<1> QED
  BY <1>5, <1>6 DEF QuotaInv

LEMMA QuotaBegins ==
    Init => QuotaInv
<1> SUFFICES ASSUME Init PROVE QuotaInv
  OBVIOUS
<1>1. ASSUME NEW d \in Dates
      PROVE  usage[d].used + SumOver(Awaited[d], Tasks) <= Quota + OthersCost
  <2>1. \A t \in Tasks : Awaited[d][t] = 0
    BY DEF Init, Awaited, About, Idle
  <2>2. SumOver(Awaited[d], Tasks) = 0
    BY <2>1, SumOfZeros, CreditAssumption
  <2>3. usage[d].used = 0
    BY DEF Init
  <2> QED
    BY <2>2, <2>3, OthersAreCounted
<1>2. \A t \in Tasks : task[t].at = "idle"
  BY DEF Init, Idle
<1> QED
  BY <1>1, <1>2 DEF QuotaInv, PlanSteps, QuotaSteps

LEMMA QuotaStep ==
    LedgerInv /\ LedgerInv' /\ UsageInv /\ QuotaInv /\ [Next]_vars => QuotaInv'
<1> SUFFICES ASSUME LedgerInv, LedgerInv', UsageInv, QuotaInv, [Next]_vars PROVE QuotaInv'
  OBVIOUS
<1>1. ASSUME NEW t \in Tasks, RequestStep(t)
      PROVE  QuotaInv'
  BY <1>1, RequestActs, QuotaIsKept
<1>2. ASSUME NEW k \in Purchases, BuyPlan(k)
      PROVE  QuotaInv'
  BY <1>2 DEF BuyPlan, WebGrant, QuotaInv
<1>3. CASE Tick \/ (\E l \in Lots : BuyLot(l)) \/ UNCHANGED vars
  <2>1. UNCHANGED <<sub, usage, task>>
    BY <1>3 DEF Tick, BuyLot, vars
  <2>2. Awaited' = Awaited
    BY <2>1 DEF Awaited
  <2> QED
    BY <2>1, <2>2 DEF QuotaInv
<1> QED
  BY <1>1, <1>2, <1>3 DEF Next

LEMMA QuotaHolds ==
    Spec => []QuotaInv
<1>1. LedgerInv /\ LedgerInv' /\ UsageInv /\ QuotaInv /\ [Next]_vars => QuotaInv'
  BY QuotaStep
<1> QED
  BY <1>1, QuotaBegins, UsageHolds, LedgerHolds, PTL DEF Spec

LEMMA QuotaIsBounded ==
    LedgerInv /\ QuotaInv => QuotaOverspendIsBounded
<1> SUFFICES ASSUME LedgerInv, QuotaInv, sub.exists = FALSE, NEW d \in Dates
             PROVE  usage[d].used <= LimitWith("limited") + OthersCost
  BY DEF QuotaOverspendIsBounded
<1>1. PICK f : f = Awaited[d]
  OBVIOUS
<1>2. \A t \in Tasks : f[t] \in Nat
  BY <1>1, AboutIsBounded DEF Awaited
<1>3. SumOver(f, Tasks) \in Nat
  BY <1>2, SumIsNatural, CreditAssumption
<1>4. usage[d].used + SumOver(f, Tasks) <= Quota + OthersCost
  BY <1>1 DEF QuotaInv
<1>5. usage[d].used \in Int
  BY DEF LedgerInv, DataOK, UsageDocument
<1> QED
  BY <1>3, <1>4, <1>5, OthersAreCounted DEF Quota

(* Without a plan, however many requests run together and whatever fails,  *)
(* a day ends up over the quota by no more than the others of them cost.   *)
THEOREM QuotaOverspendStaysBounded == Spec => []QuotaOverspendIsBounded
  BY QuotaIsBounded, LedgerHolds, QuotaHolds, PTL

(* The plan runs from a day that has begun.                                *)
PlanRuns == 0 < sub.start /\ sub.start <= now /\ sub.start < sub.end

LEMMA PlanIsDated ==
    ASSUME LedgerInv, PlanRuns
    PROVE  /\ sub.start \in Nat /\ sub.end \in Nat /\ now \in Nat
           /\ Date(sub.start) \in Nat /\ Date(sub.end) \in Nat
           /\ Date(sub.start) <= Today
           /\ ActiveAt(sub, now) => InWindow(Today)
<1>1. sub.start \in Nat /\ sub.end \in Nat /\ now \in Nat
  BY DEF LedgerInv, DataOK, Document
<1>2. PICK start \in Nat, end \in Nat, time \in Nat :
          /\ start = sub.start /\ end = sub.end /\ time = now
          /\ start <= time /\ start < end
  BY <1>1 DEF PlanRuns
<1>3. Date(start) \in Nat /\ Date(end) \in Nat /\ Date(start) <= Date(time)
  BY <1>2, DatesAreOrdered
<1>4. end > time => Date(time) <= Date(end)
  BY <1>2, DatesAreOrdered
<1> QED
  BY <1>1, <1>2, <1>3, <1>4 DEF Today, InWindow, ActiveAt

(* What the plan's days are charged with, after a step.                    *)
LEMMA PlanDaysStay ==
    ASSUME SamePlan, usage' = usage
    PROVE  UsedInPeriod(sub)' = UsedInPeriod(sub)
<1>1. PICK d : d = sub
  OBVIOUS
<1>2. PICK e : e = sub'
  OBVIOUS
<1>3. UsedInPeriod(e)' = UsedInPeriod(d)
  BY <1>1, <1>2, UsageStays DEF SamePlan
<1>4. UsedInPeriod(sub)' = UsedInPeriod(e)'
  BY <1>2 DEF UsedInPeriod
<1> QED
  BY <1>1, <1>3, <1>4

LEMMA PlanDaysChange ==
    ASSUME LedgerInv, LedgerInv', SamePlan, PlanRuns, NEW d \in Dates,
           \A e \in Dates \ {d} : usage'[e] = usage[e]
    PROVE  /\ UsedInPeriod(sub) \in Int /\ UsedInPeriod(sub)' \in Int
           /\ InWindow(d) => UsedInPeriod(sub)' = UsedInPeriod(sub) + usage'[d].used - usage[d].used
           /\ ~InWindow(d) => UsedInPeriod(sub)' = UsedInPeriod(sub)
<1>1. PICK W : W = {e \in Dates : Date(sub.start) <= e /\ e <= Date(sub.end)}
  OBVIOUS
<1>2. PICK f : f = UsedOn
  OBVIOUS
<1>3. PICK g : g = UsedOn'
  OBVIOUS
<1>4. ~(sub.start = 0 \/ sub.end = 0 \/ sub.end < sub.start)
  BY PlanIsDated DEF PlanRuns
<1>5. UsedInPeriod(sub) = SumOver(f, W)
  BY <1>1, <1>2, <1>4 DEF UsedInPeriod
<1>6. UsedInPeriod(sub)' = SumOver(g, W)
  <2>1. sub'.start = sub.start /\ sub'.end = sub.end
    BY DEF SamePlan
  <2>2. ~(sub'.start = 0 \/ sub'.end = 0 \/ sub'.end < sub'.start)
    BY <1>4, <2>1
  <2>3. {e \in Dates : Date(sub'.start) <= e /\ e <= Date(sub'.end)} = W
    BY <1>1, <2>1
  <2>4. UsedInPeriod(sub)' = SumOver(g, {e \in Dates : Date(sub'.start) <= e /\ e <= Date(sub'.end)})
    BY <1>3, <2>2 DEF UsedInPeriod
  <2> QED
    BY <2>3, <2>4
<1>7. \A e \in Dates : /\ f[e] = usage[e].used /\ g[e] = usage'[e].used
                       /\ f[e] \in Int /\ g[e] \in Int
  BY <1>2, <1>3 DEF UsedOn, LedgerInv, DataOK, UsageDocument
<1>8. IsFiniteSet(W)
  <2>1. Date(MaxTime) \in Nat /\ 0 \in Int
    BY CreditAssumption DEF Date
  <2>2. IsFiniteSet(Dates)
    BY <2>1, FS_Interval DEF Dates
  <2> QED
    BY <1>1, <2>2, FS_Subset
<1>9. W \subseteq Dates /\ (d \in W <=> InWindow(d))
  BY <1>1 DEF InWindow
<1>10. IntegersOn(f, W) /\ IntegersOn(g, W)
  BY <1>7, <1>9 DEF IntegersOn
<1>11. SumOver(f, W) \in Int /\ SumOver(g, W) \in Int
  BY <1>8, <1>10, SumIsInteger
<1>12. CASE d \in W
  <2>1. \A e \in W \ {d} : g[e] = f[e]
    BY <1>7, <1>9
  <2>2. SumOver(g, W) = SumOver(f, W) + g[d] - f[d]
    BY <1>8, <1>10, <1>12, <2>1, SumChanges
  <2> QED
    BY <1>5, <1>6, <1>7, <1>9, <1>11, <1>12, <2>2
<1>13. CASE d \notin W
  <2>1. \A e \in W : g[e] = f[e]
    BY <1>7, <1>9, <1>13
  <2>2. SumOver(g, W) = SumOver(f, W)
    BY <1>8, <1>10, <2>1, SumSame
  <2> QED
    BY <1>5, <1>6, <1>9, <1>11, <1>13, <2>2
<1> QED
  BY <1>12, <1>13

(***************************************************************************)
(* What the requests hold and may add, and how a step changes it.          *)
(***************************************************************************)
LEMMA SharesAreCounted ==
    ASSUME NEW r \in TaskRecords
    PROVE  HeldInWindow(r) \in Nat /\ Committed(r) \in Nat /\ Allowance(r) \in Nat
  BY OthersAreCounted DEF HeldInWindow, Committed, Allowance, TaskRecords

LEMMA SharesAreBounded ==
    ASSUME LedgerInv, NEW t \in Tasks
    PROVE  Committed(task[t]) + Allowance(task[t]) <= MaxCost
<1>1. task[t] \in TaskRecords /\ TaskOK(task[t])
  BY Acting
<1>2. task[t].cost \in Nat /\ (task[t].at # "idle" => task[t].cost <= MaxCost)
  BY <1>1, LargestCost DEF TaskOK, TaskRecords
<1>3. OnPlan(task[t]) => task[t].at # "idle"
  BY DEF OnPlan, PlanSteps
<1>4. task[t].at = "poolIncrement" => OnPlan(task[t])
  BY DEF OnPlan, PlanSteps
<1> QED
  BY <1>2, <1>3, <1>4, OthersAreCounted DEF Committed, Allowance

LEMMA ShareChanges ==
    ASSUME NEW t \in Tasks, NEW f, NEW g, \A u \in Tasks : f[u] \in Nat /\ g[u] \in Nat,
           \A u \in Tasks \ {t} : g[u] = f[u]
    PROVE  /\ SumOver(f, Tasks) \in Nat /\ SumOver(g, Tasks) \in Nat
           /\ SumOver(g, Tasks) = SumOver(f, Tasks) + g[t] - f[t]
<1>1. IntegersOn(f, Tasks) /\ IntegersOn(g, Tasks)
  BY DEF IntegersOn
<1>2. SumOver(f, Tasks) \in Nat /\ SumOver(g, Tasks) \in Nat
  BY SumIsNatural, CreditAssumption
<1> QED
  BY <1>1, <1>2, SumChanges, CreditAssumption

LEMMA SharesChange ==
    ASSUME LedgerInv, LedgerInv', NEW t \in Tasks, NEW q, Acts(t, q)
    PROVE  /\ SumOver(QuotaCharges, Tasks) \in Nat /\ SumOver(QuotaCharges', Tasks) \in Nat
           /\ SumOver(QuotaCharges', Tasks)
                = SumOver(QuotaCharges, Tasks) + HeldInWindow(q) - HeldInWindow(task[t])
           /\ SumOver(Commitments, Tasks) \in Nat /\ SumOver(Commitments', Tasks) \in Nat
           /\ SumOver(Commitments', Tasks)
                = SumOver(Commitments, Tasks) + Committed(q) - Committed(task[t])
           /\ SumOver(Allowances, Tasks) \in Nat /\ SumOver(Allowances', Tasks) \in Nat
           /\ SumOver(Allowances', Tasks)
                = SumOver(Allowances, Tasks) + Allowance(q) - Allowance(task[t])
<1>1. /\ task \in [Tasks -> TaskRecords] /\ task' \in [Tasks -> TaskRecords]
      /\ task' = [task EXCEPT ![t] = q]
      /\ sub'.start = sub.start /\ sub'.end = sub.end /\ sub'.total = sub.total
  BY DEF LedgerInv, TasksOK, Acts, SamePlan
<1>2. task'[t] = q /\ \A u \in Tasks \ {t} : task'[u] = task[u]
  BY <1>1
<1>3. /\ SumOver(QuotaCharges, Tasks) \in Nat /\ SumOver(QuotaCharges', Tasks) \in Nat
      /\ SumOver(QuotaCharges', Tasks)
           = SumOver(QuotaCharges, Tasks) + HeldInWindow(q) - HeldInWindow(task[t])
  <2>1. PICK f : f = QuotaCharges
    OBVIOUS
  <2>2. PICK g : g = QuotaCharges'
    OBVIOUS
  <2>3. \A u \in Tasks : f[u] = HeldInWindow(task[u]) /\ g[u] = HeldInWindow(task'[u])
    BY <1>1, <2>1, <2>2 DEF QuotaCharges, HeldInWindow, InWindow, HoldsDaily
  <2>4. \A u \in Tasks : f[u] \in Nat /\ g[u] \in Nat
    BY <1>1, <2>3, SharesAreCounted
  <2>5. \A u \in Tasks \ {t} : g[u] = f[u]
    BY <1>2, <2>3
  <2> QED
    BY <1>2, <2>1, <2>2, <2>3, <2>4, <2>5, ShareChanges
<1>4. /\ SumOver(Commitments, Tasks) \in Nat /\ SumOver(Commitments', Tasks) \in Nat
      /\ SumOver(Commitments', Tasks)
           = SumOver(Commitments, Tasks) + Committed(q) - Committed(task[t])
  <2>1. PICK f : f = Commitments
    OBVIOUS
  <2>2. PICK g : g = Commitments'
    OBVIOUS
  <2>3. \A u \in Tasks : f[u] = Committed(task[u]) /\ g[u] = Committed(task'[u])
    BY <1>1, <2>1, <2>2 DEF Commitments, Committed, OnPlan, IsCurrentPlan
  <2>4. \A u \in Tasks : f[u] \in Nat /\ g[u] \in Nat
    BY <1>1, <2>3, SharesAreCounted
  <2>5. \A u \in Tasks \ {t} : g[u] = f[u]
    BY <1>2, <2>3
  <2> QED
    BY <1>2, <2>1, <2>2, <2>3, <2>4, <2>5, ShareChanges
<1>5. /\ SumOver(Allowances, Tasks) \in Nat /\ SumOver(Allowances', Tasks) \in Nat
      /\ SumOver(Allowances', Tasks)
           = SumOver(Allowances, Tasks) + Allowance(q) - Allowance(task[t])
  <2>1. PICK f : f = Allowances
    OBVIOUS
  <2>2. PICK g : g = Allowances'
    OBVIOUS
  <2>3. \A u \in Tasks : f[u] = Allowance(task[u]) /\ g[u] = Allowance(task'[u])
    BY <1>1, <2>1, <2>2 DEF Allowances, Allowance, OnPlan
  <2>4. \A u \in Tasks : f[u] \in Nat /\ g[u] \in Nat
    BY <1>1, <2>3, SharesAreCounted
  <2>5. \A u \in Tasks \ {t} : g[u] = f[u]
    BY <1>2, <2>3
  <2> QED
    BY <1>2, <2>1, <2>2, <2>3, <2>4, <2>5, ShareChanges
<1> QED
  BY <1>3, <1>4, <1>5

(* The others' commitments and allowances together.                        *)
LEMMA OthersShares ==
    ASSUME LedgerInv, NEW t \in Tasks
    PROVE  /\ SumOver(Commitments, Tasks) \in Nat /\ SumOver(Allowances, Tasks) \in Nat
           /\ SumOver(Commitments, Tasks) + SumOver(Allowances, Tasks)
                - Committed(task[t]) - Allowance(task[t]) <= OthersCost
<1>1. task \in [Tasks -> TaskRecords]
  BY DEF LedgerInv, TasksOK
<1>2. PICK f : f = Commitments
  OBVIOUS
<1>3. PICK g : g = Allowances
  OBVIOUS
<1>4. PICK h : h = [u \in Tasks |-> f[u] + g[u]]
  OBVIOUS
<1>5. \A u \in Tasks : f[u] = Committed(task[u]) /\ g[u] = Allowance(task[u])
  BY <1>2, <1>3 DEF Commitments, Allowances
<1>6. \A u \in Tasks : f[u] \in Nat /\ g[u] \in Nat
  BY <1>1, <1>5, SharesAreCounted
<1>7. \A u \in Tasks : h[u] = f[u] + g[u] /\ h[u] \in Nat /\ h[u] <= MaxCost
  <2>1. \A u \in Tasks : f[u] + g[u] <= MaxCost
    BY <1>5, SharesAreBounded
  <2> QED
    BY <1>4, <1>6, <2>1
<1>8. IntegersOn(f, Tasks) /\ IntegersOn(g, Tasks)
  BY <1>6 DEF IntegersOn
<1>9. SumOver(h, Tasks) = SumOver(f, Tasks) + SumOver(g, Tasks)
  BY <1>7, <1>8, SumAdds, CreditAssumption
<1>10. SumOver(h, Tasks) - h[t] <= OthersCost
  BY <1>7, OthersAreBounded
<1>11. SumOver(f, Tasks) \in Nat /\ SumOver(g, Tasks) \in Nat
  BY <1>6, SumIsNatural, CreditAssumption
<1>12. f[t] \in Nat /\ g[t] \in Nat /\ h[t] = f[t] + g[t] /\ f[t] = Committed(task[t]) /\ g[t] = Allowance(task[t])
  BY <1>5, <1>6, <1>7
<1>13. SumOver(f, Tasks) + SumOver(g, Tasks) - f[t] - g[t] <= OthersCost
  BY <1>9, <1>10, <1>11, <1>12, OthersAreCounted
<1> QED
  BY <1>2, <1>3, <1>11, <1>12, <1>13

(***************************************************************************)
(* The pool of the plan, step by step.                                     *)
(***************************************************************************)
(* What a request may have charged outside the window, once it is over.    *)
Slack(r) == IF ActiveAt(sub, now) THEN 0 ELSE Allowance(r)

(* What a step adds to the plan's charges shows in the days of its window. *)
StaysCounted(t, q) ==
    book'.charged + HeldInWindow(q) + UsedInPeriod(sub) + book.strayed + Slack(task[t])
      <= book.charged + HeldInWindow(task[t]) + UsedInPeriod(sub)' + book'.strayed + Slack(q)

LEMMA SlackIsCounted ==
    ASSUME NEW r \in TaskRecords
    PROVE  Slack(r) \in Nat /\ Slack(r) <= MaxCost
  BY OthersAreCounted DEF Slack, Allowance

(* The figures of a request that is not about to charge the plan.          *)
LEMMA OffThePlan ==
    ASSUME NEW r \in TaskRecords, r.at \notin PlanSteps
    PROVE  Committed(r) = 0 /\ Allowance(r) = MaxCost
  BY DEF Committed, Allowance, OnPlan, PlanSteps

LEMMA WaitsCounted ==
    ASSUME LedgerInv, UsageInv, PlanRuns, NEW t \in Tasks, NEW q, Acts(t, q), Waits(t, q)
    PROVE  StaysCounted(t, q)
<1> DEFINE r == task[t]
<1>1. /\ r \in TaskRecords /\ q \in TaskRecords /\ usage' = usage /\ SamePlan
      /\ book'.charged = book.charged /\ book'.strayed = book.strayed
  BY Acting DEF Acts, Waits, SameBook
<1>2. /\ book.charged \in Int /\ book.strayed \in Int
      /\ HeldInWindow(r) \in Nat /\ HeldInWindow(q) \in Nat
      /\ Slack(r) \in Nat /\ Slack(q) \in Nat
  BY <1>1, SharesAreCounted, SlackIsCounted DEF LedgerInv, DataOK, Book
<1>3. PICK used \in Int : used = UsedInPeriod(sub) /\ used = UsedInPeriod(sub)'
  <2>1. sub \in Document(Purchases)
    BY DEF LedgerInv, DataOK
  <2> QED
    BY <1>1, <2>1, PlanDaysStay, UsageIsCounted
<1>4. HeldInWindow(q) <= HeldInWindow(r)
  <2>1. HoldsDaily(q) => HoldsDaily(r) /\ q.date = r.date /\ q.cost = r.cost
    BY DEF Waits, Holds, HoldsDaily
  <2> QED
    BY <1>2, <2>1 DEF HeldInWindow
<1>5. Slack(r) <= Slack(q)
  <2>1. CASE ActiveAt(sub, now)
    BY <2>1 DEF Slack
  <2>2. CASE ~ActiveAt(sub, now)
    <3>1. OnPlan(q) => OnPlan(r)
      BY <2>2 DEF Waits, AsksPlan, OnPlan, PlanSteps
    <3> QED
      BY <2>2, <3>1, OthersAreCounted DEF Slack, Allowance
  <2> QED
    BY <2>1, <2>2
<1> QED
  BY <1>1, <1>2, <1>3, <1>4, <1>5 DEF StaysCounted

LEMMA ChargesCounted ==
    ASSUME LedgerInv, LedgerInv', UsageInv, PlanRuns, NEW t \in Tasks, NEW q, Acts(t, q),
           NEW d \in Dates, Charges(t, q, d)
    PROVE  StaysCounted(t, q)
<1> DEFINE r == task[t]
<1>1. /\ r \in TaskRecords /\ q \in TaskRecords /\ SamePlan /\ r.cost \in Nat /\ r.cost <= MaxCost
      /\ r.at \in {"poolIncrement", "dailyAdd", "dailyNew"} /\ q.at \in {"poolBalance", "served"}
  <2>1. r \in TaskRecords /\ TaskOK(r) /\ q \in TaskRecords /\ SamePlan
    BY Acting DEF Acts
  <2>2. r.at \in {"poolIncrement", "dailyAdd", "dailyNew"} /\ q.at \in {"poolBalance", "served"}
    BY DEF Charges
  <2> QED
    BY <2>1, <2>2, LargestCost DEF TaskOK, TaskRecords
<1>2. /\ book.charged \in Int /\ book.strayed \in Int /\ book'.strayed = book.strayed
      /\ HeldInWindow(q) \in Nat /\ HeldInWindow(r) = 0
      /\ Slack(r) \in Nat /\ Slack(q) \in Nat /\ Slack(r) <= Slack(q)
  <2>1. book.charged \in Int /\ book.strayed \in Int /\ book'.strayed = book.strayed
    BY DEF LedgerInv, DataOK, Book, Charges
  <2>2. HeldInWindow(q) \in Nat /\ HeldInWindow(r) = 0
    BY <1>1, SharesAreCounted DEF HeldInWindow, HoldsDaily
  <2>3. ~OnPlan(q)
    BY <1>1 DEF OnPlan, PlanSteps
  <2>4. Slack(r) <= Slack(q)
    BY <2>3, OthersAreCounted DEF Slack, Allowance
  <2> QED
    BY <1>1, <2>1, <2>2, <2>4, SlackIsCounted
<1>3. PICK a \in Int, b \in Int :
          /\ a = UsedInPeriod(sub) /\ b = UsedInPeriod(sub)'
          /\ InWindow(d) => b = a + r.cost
          /\ ~InWindow(d) => b = a
  <2>1. /\ UsedInPeriod(sub) \in Int /\ UsedInPeriod(sub)' \in Int
        /\ InWindow(d) => UsedInPeriod(sub)' = UsedInPeriod(sub) + usage'[d].used - usage[d].used
        /\ ~InWindow(d) => UsedInPeriod(sub)' = UsedInPeriod(sub)
    BY <1>1, PlanDaysChange DEF Charges
  <2>2. usage[d].used \in Int /\ usage'[d].used = usage[d].used + r.cost
    BY DEF LedgerInv, DataOK, UsageDocument, Charges
  <2> QED
    BY <1>1, <2>1, <2>2
<1>4. CASE r.at = "poolIncrement"
  <2>1. book'.charged = book.charged + r.cost /\ d = Today /\ HeldInWindow(q) = 0
    BY <1>4 DEF Charges, HeldInWindow
  <2>2. CASE InWindow(d)
    BY <1>1, <1>2, <1>3, <2>1, <2>2 DEF StaysCounted
  <2>3. CASE ~InWindow(d)
    <3>1. ~ActiveAt(sub, now)
      BY <2>1, <2>3, PlanIsDated
    <3>2. Slack(r) = 0 /\ Slack(q) = MaxCost
      BY <1>1, <1>4, <3>1 DEF Slack, Allowance, OnPlan, PlanSteps
    <3> QED
      BY <1>1, <1>2, <1>3, <2>1, <2>3, <3>2, OthersAreCounted DEF StaysCounted
  <2> QED
    BY <2>2, <2>3
<1>5. CASE r.at # "poolIncrement"
  <2>1. /\ book'.charged = book.charged
        /\ HeldInWindow(q) = IF InWindow(d) THEN r.cost ELSE 0
    BY <1>5 DEF Charges, HeldInWindow
  <2>2. CASE InWindow(d)
    BY <1>1, <1>2, <1>3, <2>1, <2>2 DEF StaysCounted
  <2>3. CASE ~InWindow(d)
    BY <1>1, <1>2, <1>3, <2>1, <2>3 DEF StaysCounted
  <2> QED
    BY <2>2, <2>3
<1> QED
  BY <1>4, <1>5

LEMMA RefundsCounted ==
    ASSUME LedgerInv, LedgerInv', UsageInv, PlanRuns, NEW t \in Tasks, NEW q, Acts(t, q),
           Refunds(t, q)
    PROVE  StaysCounted(t, q)
<1> DEFINE r == task[t]
<1>1. /\ r \in TaskRecords /\ q \in TaskRecords /\ SamePlan /\ r.cost \in Nat
      /\ r.at = "refundUsage" /\ q.at \in {"refundRead", "idle"}
      /\ r.kind \in {"pool", "daily"} /\ Today \in Dates
  <2>1. r \in TaskRecords /\ RequestOK(r) /\ q \in TaskRecords /\ SamePlan
    BY Acting DEF Acts, UsageInv
  <2>2. r.at = "refundUsage" /\ q.at \in {"refundRead", "idle"}
    BY DEF Refunds
  <2>3. r.kind \in {"pool", "daily"}
    BY <2>1, <2>2 DEF RequestOK, Holds
  <2> QED
    BY <2>1, <2>2, <2>3, TodayIsADate DEF TaskRecords
<1>2. /\ book.charged \in Int /\ book.strayed \in Int
      /\ HeldInWindow(q) = 0 /\ Slack(r) = Slack(q) /\ Slack(q) \in Nat
      /\ HeldInWindow(r) = IF r.kind = "daily" /\ InWindow(r.date) THEN r.cost ELSE 0
  <2>1. book.charged \in Int /\ book.strayed \in Int
    BY DEF LedgerInv, DataOK, Book
  <2>2. ~OnPlan(q) /\ ~OnPlan(r)
    BY <1>1 DEF OnPlan, PlanSteps
  <2>3. Slack(r) = Slack(q)
    BY <2>2 DEF Slack, Allowance
  <2>4. /\ HeldInWindow(q) = 0
        /\ HeldInWindow(r) = IF r.kind = "daily" /\ InWindow(r.date) THEN r.cost ELSE 0
    BY <1>1 DEF HeldInWindow, HoldsDaily
  <2> QED
    BY <1>1, <2>1, <2>3, <2>4, SlackIsCounted
<1>3. PICK a \in Int, b \in Int :
          /\ a = UsedInPeriod(sub) /\ b = UsedInPeriod(sub)'
          /\ b = a - IF InWindow(Today) /\ usage[Today].there THEN r.cost ELSE 0
  <2>1. /\ UsedInPeriod(sub) \in Int /\ UsedInPeriod(sub)' \in Int
        /\ InWindow(Today) => UsedInPeriod(sub)'
                                = UsedInPeriod(sub) + usage'[Today].used - usage[Today].used
        /\ ~InWindow(Today) => UsedInPeriod(sub)' = UsedInPeriod(sub)
    BY <1>1, PlanDaysChange DEF Refunds
  <2>2. usage[Today].used \in Int
    BY <1>1 DEF LedgerInv, DataOK, UsageDocument
  <2>3. usage'[Today].used = usage[Today].used - IF usage[Today].there THEN r.cost ELSE 0
    BY DEF Refunds
  <2> QED
    BY <1>1, <2>1, <2>2, <2>3
<1>4. PICK charged \in Int, strayed \in Int :
          /\ charged = book'.charged /\ strayed = book'.strayed
          /\ charged = book.charged - IF r.kind = "pool" THEN r.cost ELSE 0
          /\ strayed = book.strayed + IF r.date # Today /\ usage[Today].there THEN r.cost ELSE 0
  BY <1>1, <1>2 DEF Refunds
<1>5. SUFFICES charged + a + book.strayed <= book.charged + HeldInWindow(r) + b + strayed
  <2>1. PICK held \in Nat : held = HeldInWindow(r)
    BY <1>1, SharesAreCounted
  <2>2. PICK slack \in Nat : slack = Slack(r) /\ slack = Slack(q)
    BY <1>2
  <2>3. SUFFICES charged + 0 + a + book.strayed + slack <= book.charged + held + b + strayed + slack
    BY <1>2, <1>3, <1>4, <2>1, <2>2 DEF StaysCounted
  <2> QED
    BY <1>2, <2>1
<1>6. CASE r.kind = "pool"
  <2>1. charged = book.charged - r.cost /\ HeldInWindow(r) = 0
    BY <1>2, <1>4, <1>6
  <2>2. b >= a - r.cost /\ strayed >= book.strayed
    BY <1>1, <1>2, <1>3, <1>4
  <2> QED
    BY <1>1, <1>2, <2>1, <2>2
<1>7. CASE r.kind = "daily"
  <2>1. charged = book.charged
    BY <1>2, <1>4, <1>7
  <2>2. CASE ~usage[Today].there
    BY <1>1, <1>2, <1>3, <1>4, <2>1, <2>2
  <2>3. CASE usage[Today].there /\ r.date # Today
    BY <1>1, <1>2, <1>3, <1>4, <2>1, <2>3
  <2>4. CASE usage[Today].there /\ r.date = Today
    BY <1>1, <1>2, <1>3, <1>4, <1>7, <2>1, <2>4
  <2> QED
    BY <2>2, <2>3, <2>4
<1> QED
  BY <1>1, <1>6, <1>7

(* A step that brings no new commitment.                                   *)
StaysCommitted(t, q) ==
    book'.charged + Committed(q) + book.strayed <= book.charged + Committed(task[t]) + book'.strayed

(* The plan was found to have enough left.                                 *)
Commits(t, q) ==
    /\ Waits(t, q) /\ task[t].at = "poolCheck" /\ q.at = "poolIncrement"
    /\ IsCurrentPlan(task[t].doc)

LEMMA NothingIsCommitted ==
    ASSUME LedgerInv, LedgerInv', UsageInv, NEW t \in Tasks, NEW q, Acts(t, q), ~Commits(t, q)
    PROVE  StaysCommitted(t, q)
<1> DEFINE r == task[t]
<1>1. /\ r \in TaskRecords /\ q \in TaskRecords /\ r.cost \in Nat
      /\ Committed(r) \in Nat /\ Committed(q) \in Nat
      /\ book.charged \in Int /\ book.strayed \in Int
  <2>1. r \in TaskRecords /\ q \in TaskRecords
    BY Acting DEF Acts
  <2> QED
    BY <2>1, SharesAreCounted DEF LedgerInv, DataOK, Book, TaskRecords
<1>2. CASE Waits(t, q)
  <2>1. Committed(q) <= Committed(r)
    <3>1. CASE ~OnPlan(q)
      <4>1. Committed(q) = 0
        BY <3>1 DEF Committed, OnPlan, PlanSteps
      <4> QED
        BY <1>1, <4>1
    <3>2. CASE OnPlan(q)
      <4>1. AsksPlan(r, q)
        BY <1>2, <3>2 DEF Waits, OnPlan
      <4>2. CASE r.at = "readPool"
        <5>1. q.at = "poolUsage" /\ IsCurrentPlan(q.doc)
          BY <4>1, <4>2 DEF AsksPlan, IsCurrentPlan
        <5>2. Committed(q) = 0
          BY <5>1 DEF Committed
        <5> QED
          BY <1>1, <5>2
      <4>3. CASE r.at = "poolUsage"
        <5>1. q.at = "poolCheck" /\ q.doc = r.doc /\ q.cost = r.cost
          BY <4>1, <4>3 DEF AsksPlan
        <5>2. Committed(q) = Committed(r)
          BY <4>3, <5>1 DEF Committed, OnPlan, PlanSteps
        <5> QED
          BY <1>1, <5>2
      <4>4. CASE r.at = "poolCheck"
        <5>1. q.at = "poolIncrement" /\ q.cost = r.cost /\ ~IsCurrentPlan(r.doc)
          BY <1>2, <4>1, <4>4 DEF AsksPlan, Commits
        <5>2. Committed(q) = Committed(r)
          BY <4>4, <5>1 DEF Committed, OnPlan, PlanSteps
        <5> QED
          BY <1>1, <5>2
      <4> QED
        BY <4>1, <4>2, <4>3, <4>4 DEF AsksPlan
    <3> QED
      BY <3>1, <3>2
  <2>2. book'.charged = book.charged /\ book'.strayed = book.strayed
    BY <1>2 DEF Waits, SameBook
  <2> QED
    BY <1>1, <2>1, <2>2 DEF StaysCommitted
<1>3. ASSUME NEW d \in Dates, Charges(t, q, d)
      PROVE  StaysCommitted(t, q)
  <2>1. Committed(q) = 0 /\ book'.strayed = book.strayed
    BY <1>3 DEF Charges, Committed, OnPlan, PlanSteps
  <2>2. CASE r.at = "poolIncrement"
    <3>1. Committed(r) = r.cost /\ book'.charged = book.charged + r.cost
      BY <1>3, <2>2 DEF Charges, Committed
    <3> QED
      BY <1>1, <2>1, <3>1 DEF StaysCommitted
  <2>3. CASE r.at # "poolIncrement"
    <3>1. book'.charged = book.charged
      BY <1>3, <2>3 DEF Charges
    <3> QED
      BY <1>1, <2>1, <3>1 DEF StaysCommitted
  <2> QED
    BY <2>2, <2>3
<1>4. CASE Refunds(t, q)
  <2>1. Committed(q) = 0 /\ Committed(r) = 0
    BY <1>4 DEF Refunds, Committed, OnPlan, PlanSteps
  <2>2. PICK charged \in Int, strayed \in Int :
            /\ charged = book'.charged /\ strayed = book'.strayed
            /\ charged <= book.charged /\ strayed >= book.strayed
    BY <1>1, <1>4 DEF Refunds
  <2> QED
    BY <1>1, <2>1, <2>2 DEF StaysCommitted
<1> QED
  BY <1>2, <1>3, <1>4 DEF Acts

(* What is committed was left in the plan.                                 *)
LEMMA CommitmentIsCovered ==
    ASSUME LedgerInv, UsageInv, PlanInv, sub.exists, NEW t \in Tasks, NEW q, Acts(t, q), Commits(t, q)
    PROVE  /\ UsedInPeriod(sub) \in Int
           /\ UsedInPeriod(sub) + task[t].cost <= book.paid
           /\ Committed(q) = task[t].cost /\ Committed(task[t]) = 0 /\ Allowance(task[t]) = 0
<1> DEFINE r == task[t]
<1>1. /\ r \in TaskRecords /\ r.at = "poolCheck" /\ q.at = "poolIncrement" /\ q.cost = r.cost
      /\ PoolRemaining(r.doc) >= r.cost /\ IsCurrentPlan(r.doc)
  BY Acting DEF Commits, Waits, AsksPlan, PlanSteps
<1>2. r.cost \in Nat /\ r.cost > 0 /\ r.doc \in Document(Purchases) /\ sub \in Document(Purchases)
  BY <1>1, CostsArePositive DEF At, TaskRecords, LedgerInv, DataOK
<1>3. PICK doc \in Document(Purchases) : doc = r.doc
  BY <1>2
<1>4. UsedInPeriod(doc) = UsedInPeriod(sub)
  <2>1. doc.start = sub.start /\ doc.end = sub.end
    BY <1>1, <1>3 DEF IsCurrentPlan
  <2> QED
    BY <2>1 DEF UsedInPeriod
<1>5. PICK used \in Int : used = UsedInPeriod(doc) /\ used = UsedInPeriod(sub)
  BY <1>2, <1>4, UsageIsCounted
<1>6. doc.total \in Int /\ doc.remaining \in Int /\ doc.total = book.paid
  BY <1>1, <1>3 DEF Document, IsCurrentPlan, PlanInv
<1>7. used + r.cost <= doc.total
  <2>1. PICK legacy \in Int : legacy = AtLeastZero(doc.total - doc.remaining)
    BY <1>6 DEF AtLeastZero, Larger
  <2>2. PoolRemaining(doc) = AtLeastZero(doc.total - Larger(used, legacy))
    BY <1>5, <2>1 DEF PoolRemaining
  <2>3. AtLeastZero(doc.total - Larger(used, legacy)) >= r.cost
    BY <1>1, <1>3, <2>2
  <2> QED
    BY <1>2, <1>6, <2>3 DEF AtLeastZero, Larger
<1>8. Committed(q) = r.cost /\ Committed(r) = 0 /\ Allowance(r) = 0
  BY <1>1 DEF Committed, Allowance, OnPlan, PlanSteps
<1> QED
  BY <1>5, <1>6, <1>7, <1>8

LEMMA CommitmentsAreKept ==
    ASSUME LedgerInv, LedgerInv', UsageInv, PlanInv, sub.exists, NEW t \in Tasks, NEW q, Acts(t, q)
    PROVE  book'.charged + SumOver(Commitments', Tasks) <= book'.paid + book'.strayed + OthersCost
<1> DEFINE r == task[t]
<1>1. /\ book.charged \in Int /\ book'.charged \in Int /\ book.strayed \in Int /\ book'.strayed \in Int
      /\ book.paid \in Int /\ book'.paid = book.paid /\ OthersCost \in Nat
  BY OthersAreCounted DEF LedgerInv, DataOK, Book, Acts, Waits, SameBook, Charges, Refunds
<1>2. r \in TaskRecords /\ q \in TaskRecords /\ r.cost \in Nat
  BY Acting DEF Acts, TaskRecords
<1>3. Committed(r) \in Nat /\ Committed(q) \in Nat /\ Allowance(r) \in Nat
  BY <1>2, SharesAreCounted
<1>4. PICK before \in Nat : before = SumOver(Commitments, Tasks)
  BY OthersShares
<1>5. PICK after \in Nat : after = SumOver(Commitments', Tasks) /\ after = before + Committed(q) - Committed(r)
  BY <1>4, SharesChange
<1>6. book.charged + before <= book.paid + book.strayed + OthersCost
  BY <1>4 DEF PlanInv
<1>7. CASE ~Commits(t, q)
  <2>1. book'.charged + Committed(q) + book.strayed <= book.charged + Committed(r) + book'.strayed
    BY <1>7, NothingIsCommitted DEF StaysCommitted
  <2> QED
    BY <1>1, <1>3, <1>5, <1>6, <2>1
<1>8. CASE Commits(t, q)
  <2>1. PICK used \in Int : /\ used = UsedInPeriod(sub) /\ used + r.cost <= book.paid
                            /\ Committed(q) = r.cost /\ Committed(r) = 0 /\ Allowance(r) = 0
    BY <1>8, CommitmentIsCovered
  <2>2. PICK allowed \in Nat : allowed = SumOver(Allowances, Tasks) /\ before + allowed <= OthersCost
    <3>1. /\ SumOver(Allowances, Tasks) \in Nat
          /\ SumOver(Commitments, Tasks) + SumOver(Allowances, Tasks)
               - Committed(r) - Allowance(r) <= OthersCost
      BY OthersShares
    <3> QED
      BY <1>4, <2>1, <3>1
  <2>3. PICK held \in Nat : held = SumOver(QuotaCharges, Tasks)
    BY SharesChange
  <2>4. book.charged + held <= used + book.strayed + allowed
    <3>1. book.charged + held <= used + book.strayed + IF ActiveAt(sub, now) THEN 0 ELSE allowed
      BY <2>1, <2>2, <2>3 DEF PlanInv
    <3> QED
      BY <1>1, <2>2, <3>1
  <2>5. book'.charged = book.charged /\ book'.strayed = book.strayed
    BY <1>8 DEF Commits, Waits, SameBook
  <2> QED
    BY <1>1, <1>2, <1>5, <2>1, <2>2, <2>4, <2>5
<1> QED
  BY <1>7, <1>8

LEMMA PlanIsKept ==
    ASSUME LedgerInv, LedgerInv', UsageInv, PlanInv, NEW t \in Tasks, NEW q, Acts(t, q)
    PROVE  PlanInv'
<1> SUFFICES ASSUME sub'.exists PROVE PlanInv'
  BY DEF PlanInv
<1> DEFINE r == task[t]
<1>1. /\ sub.exists /\ PlanRuns /\ SamePlan /\ now' = now
      /\ sub.total = book.paid /\ MaxCost <= book.paid
  BY DEF Acts, SamePlan, PlanInv, PlanRuns
<1>2. r \in TaskRecords /\ q \in TaskRecords
  BY Acting DEF Acts
<1>3. book'.paid = book.paid
  BY DEF Acts, Waits, SameBook, Charges, Refunds
<1>4. StaysCounted(t, q)
  BY <1>1, WaitsCounted, ChargesCounted, RefundsCounted DEF Acts
<1>5. PICK used \in Int, next \in Int : used = UsedInPeriod(sub) /\ next = UsedInPeriod(sub)'
  <2>1. \E n \in Int : n = UsedInPeriod(sub)
    BY UsageIsCounted DEF LedgerInv, DataOK
  <2>2. \E n \in Int : n = UsedInPeriod(sub)'
    <3>1. UsedInPeriod(sub)' \in Int
      <4>1. CASE Waits(t, q)
        BY <1>1, <2>1, <4>1, PlanDaysStay DEF Waits
      <4>2. ASSUME NEW d \in Dates, Charges(t, q, d) PROVE UsedInPeriod(sub)' \in Int
        BY <1>1, <4>2, PlanDaysChange DEF Charges
      <4>3. CASE Refunds(t, q)
        BY <1>1, <4>3, PlanDaysChange, TodayIsADate DEF Refunds
      <4> QED
        BY <4>1, <4>2, <4>3 DEF Acts
    <3> QED
      BY <3>1
  <2> QED
    BY <2>1, <2>2
<1>6. PICK held \in Nat, held2 \in Nat, slack \in Nat, slack2 \in Nat :
          /\ held = SumOver(QuotaCharges, Tasks) /\ held2 = SumOver(QuotaCharges', Tasks)
          /\ held2 = held + HeldInWindow(q) - HeldInWindow(r)
          /\ slack = SumOver(Allowances, Tasks) /\ slack2 = SumOver(Allowances', Tasks)
          /\ slack2 = slack + Allowance(q) - Allowance(r)
  BY SharesChange
<1>7. /\ book.charged \in Int /\ book'.charged \in Int /\ book.strayed \in Int /\ book'.strayed \in Int
      /\ HeldInWindow(q) \in Nat /\ HeldInWindow(r) \in Nat
      /\ Allowance(q) \in Nat /\ Allowance(r) \in Nat
  BY <1>2, SharesAreCounted DEF LedgerInv, DataOK, Book
<1>8. ActiveAt(sub', now') = ActiveAt(sub, now)
  BY <1>1 DEF ActiveAt, SamePlan
<1>9. book'.charged + held2 <= next + book'.strayed + IF ActiveAt(sub, now) THEN 0 ELSE slack2
  <2>1. book.charged + held <= used + book.strayed + IF ActiveAt(sub, now) THEN 0 ELSE slack
    BY <1>1, <1>5, <1>6 DEF PlanInv
  <2>2. CASE ActiveAt(sub, now)
    <3>1. Slack(q) = 0 /\ Slack(r) = 0
      BY <2>2 DEF Slack
    <3>2. book'.charged + HeldInWindow(q) + used + book.strayed
            <= book.charged + HeldInWindow(r) + next + book'.strayed
      BY <1>4, <1>5, <1>7, <3>1 DEF StaysCounted
    <3> QED
      BY <1>6, <1>7, <2>1, <2>2, <3>2
  <2>3. CASE ~ActiveAt(sub, now)
    <3>1. Slack(q) = Allowance(q) /\ Slack(r) = Allowance(r)
      BY <2>3 DEF Slack
    <3>2. book'.charged + HeldInWindow(q) + used + book.strayed + Allowance(r)
            <= book.charged + HeldInWindow(r) + next + book'.strayed + Allowance(q)
      BY <1>4, <1>5, <3>1 DEF StaysCounted
    <3> QED
      BY <1>6, <1>7, <2>1, <2>3, <3>2
  <2> QED
    BY <2>2, <2>3
<1>10. book'.charged + SumOver(Commitments', Tasks) <= book'.paid + book'.strayed + OthersCost
  BY <1>1, CommitmentsAreKept
<1>11. 0 < sub'.start /\ sub'.start <= now' /\ sub'.start < sub'.end /\ sub'.total = book'.paid
  BY <1>1, <1>3 DEF SamePlan, PlanRuns
<1> QED
  BY <1>1, <1>3, <1>5, <1>6, <1>8, <1>9, <1>10, <1>11 DEF PlanInv, ActiveAt

(* A plan that begins has been charged with nothing but what its first day *)
(* was charged with before.                                                *)
LEMMA PlanBegins ==
    ASSUME LedgerInv, NEW k \in Purchases, BuyPlan(k), ~ActiveAt(sub, now)
    PROVE  /\ sub'.start = now /\ sub'.end \in Nat /\ sub'.end > now /\ sub'.exists
           /\ sub'.total = book'.paid /\ MaxCost <= book'.paid
           /\ book'.charged = 0 /\ book'.strayed = book.strayed
<1>1. PICK p \in Quote : p = PlanQuote[k] /\ ~IsDailyPassQuote(p) /\ MaxCost <= p.credits
  BY LargestCost, CreditAssumption
<1>2. p.days \in Nat \ {0} /\ p.credits \in Nat \ {0}
  BY <1>1 DEF Quote
<1>3. sub \in Document(Purchases) /\ now \in Nat /\ sub.end \in Nat /\ book \in Book
  BY DEF LedgerInv, DataOK, Document
<1>4. Larger(now, sub.end) = now
  BY <1>3 DEF Larger, ActiveAt
<1>5. ~UpgradesToPro(sub, p, TRUE, now)
  BY DEF UpgradesToPro
<1>6. /\ sub'.start = now /\ sub'.end = now + p.days /\ sub'.exists /\ sub'.total = p.credits
  BY <1>1, <1>4, <1>5 DEF BuyPlan, WebGrant
<1>7. PICK paid \in Int : paid = p.credits + IF ActiveAt(sub, now) THEN book.paid ELSE 0
  BY <1>2, <1>3 DEF Book
<1>8. PICK charged \in Int : charged = IF ActiveAt(sub, now) THEN book.charged ELSE 0
  BY <1>3 DEF Book
<1>9. book' = [book EXCEPT !.paid = paid, !.charged = charged]
  BY <1>1, <1>7, <1>8 DEF BuyPlan
<1>10. book'.paid = paid /\ book'.charged = charged /\ book'.strayed = book.strayed
  BY <1>3, <1>9 DEF Book
<1> QED
  BY <1>1, <1>2, <1>3, <1>6, <1>7, <1>8, <1>10

(* The days to come are still empty.                                       *)
LEMMA FirstDayIsCounted ==
    ASSUME LedgerInv, UsageInv, usage' = usage, NEW end \in Nat, end > now,
           sub'.start = now, sub'.end = end
    PROVE  UsedInPeriod(sub)' = usage[Today].used
<1>1. /\ now \in Nat /\ now > 0 /\ Today \in Dates /\ Today \in Nat /\ usage \in [Dates -> UsageDocument]
  BY TodayIsADate DEF LedgerInv, DataOK
<1>2. PICK time \in Nat : time = now /\ Date(time) = Today
  BY <1>1 DEF Today
<1>3. Today <= Date(end) /\ Date(end) \in Nat
  BY <1>2, DatesAreOrdered
<1>4. PICK W : W = {e \in Dates : Today <= e /\ e <= Date(end)}
  OBVIOUS
<1>5. PICK f : f = UsedOn
  OBVIOUS
<1>6. UsedInPeriod(sub)' = SumOver(f, W)
  <2>1. ~(sub'.start = 0 \/ sub'.end = 0 \/ sub'.end < sub'.start)
    BY <1>1
  <2>2. f = UsedOn'
    BY <1>5 DEF UsedOn
  <2>3. {e \in Dates : Date(sub'.start) <= e /\ e <= Date(sub'.end)} = W
    BY <1>4 DEF Today
  <2>4. UsedInPeriod(sub)' = SumOver(f, {e \in Dates : Date(sub'.start) <= e /\ e <= Date(sub'.end)})
    BY <2>1, <2>2 DEF UsedInPeriod
  <2> QED
    BY <2>3, <2>4
<1>7. \A e \in Dates : f[e] = usage[e].used /\ f[e] \in Int /\ e \in Nat
  BY <1>1, <1>5 DEF UsedOn, UsageDocument, Dates
<1>8. Today \in W /\ W \subseteq Dates
  BY <1>1, <1>3, <1>4
<1>9. IsFiniteSet(W) /\ IsFiniteSet(W \ {Today})
  <2>1. Date(MaxTime) \in Nat /\ 0 \in Int
    BY CreditAssumption DEF Date
  <2>2. IsFiniteSet(Dates)
    BY <2>1, FS_Interval DEF Dates
  <2>3. IsFiniteSet(W)
    BY <1>8, <2>2, FS_Subset
  <2> QED
    BY <2>3, FS_Subset
<1>10. \A e \in W \ {Today} : f[e] = 0
  <2>1. SUFFICES ASSUME NEW e \in W \ {Today} PROVE f[e] = 0
    OBVIOUS
  <2>2. e \in Dates /\ e > Today
    BY <1>1, <1>4, <1>7
  <2>3. usage[e].used = 0
    BY <2>2 DEF UsageInv, DayOK
  <2> QED
    BY <1>7, <2>2, <2>3
<1>11. IntegersOn(f, W)
  BY <1>7, <1>8 DEF IntegersOn
<1>12. SumOver(f, W) = f[Today] + SumOver(f, W \ {Today})
  BY <1>8, <1>9, <1>11, SumSplit
<1>13. SumOver(f, W \ {Today}) = 0
  BY <1>9, <1>10, SumOfZeros
<1> QED
  BY <1>6, <1>7, <1>8, <1>12, <1>13

LEMMA PlanIsBoughtInTurn ==
    ASSUME LedgerInv, LedgerInv', UsageInv, NEW k \in Purchases, BuyPlan(k), ~ActiveAt(sub, now)
    PROVE  PlanInv'
<1>1. /\ UNCHANGED <<now, usage, task>>
      /\ task \in [Tasks -> TaskRecords] /\ now \in Nat /\ now > 0
      /\ Today \in Dates /\ Today \in Nat
      /\ book.strayed \in Int /\ book'.strayed \in Nat /\ book'.paid \in Int
      /\ usage[Today].used \in Int
  <2>1. UNCHANGED <<now, usage, task>>
    BY DEF BuyPlan
  <2>2. task \in [Tasks -> TaskRecords] /\ now \in Nat /\ now > 0
    BY DEF LedgerInv, TasksOK, DataOK
  <2>3. book.strayed \in Int /\ book'.strayed \in Nat /\ book'.paid \in Int
    BY DEF LedgerInv, DataOK, Book
  <2> QED
    BY <2>1, <2>2, <2>3, TodayIsADate DEF LedgerInv, DataOK, UsageDocument
<1>2. PICK end \in Nat :
          /\ sub'.start = now /\ sub'.end = end /\ end > now /\ sub'.exists
          /\ sub'.total = book'.paid /\ MaxCost <= book'.paid
          /\ book'.charged = 0 /\ book'.strayed = book.strayed
  BY PlanBegins
<1>3. UsedInPeriod(sub)' = usage[Today].used
  BY <1>1, <1>2, FirstDayIsCounted
<1>4. ActiveAt(sub', now')
  BY <1>1, <1>2 DEF ActiveAt
<1>5. SumOver(QuotaCharges', Tasks) <= usage[Today].used + book.strayed
  <2>1. PICK f : f = HeldCharges[Today]
    OBVIOUS
  <2>2. PICK g : g = QuotaCharges'
    OBVIOUS
  <2>3. \A u \in Tasks : f[u] = HeldOn(Today, task[u]) /\ f[u] \in Nat
    BY <1>1, <2>1, HeldIsCounted DEF HeldCharges
  <2>4. ASSUME NEW u \in Tasks
        PROVE  g[u] \in Nat /\ g[u] <= f[u]
    <3>1. PICK r \in TaskRecords : r = task[u] /\ r = task'[u]
      BY <1>1
    <3>2. r.cost \in Nat /\ r.date \in Nat /\ RequestOK(r)
      BY <3>1 DEF TaskRecords, UsageInv
    <3>3. g[u] = IF HoldsDaily(r) /\ Date(sub'.start) <= r.date /\ r.date <= Date(sub'.end)
                 THEN r.cost ELSE 0
      BY <2>2, <3>1 DEF QuotaCharges, HeldInWindow, InWindow, HoldsDaily
    <3>4. HoldsDaily(r) => Holds(r) /\ r.date <= Today
      BY <3>2 DEF HoldsDaily, Holds, RequestOK
    <3>5. Date(sub'.start) = Today
      BY <1>2 DEF Today
    <3>6. CASE HoldsDaily(r) /\ Today <= r.date
      <4>1. HeldOn(Today, r) = r.cost
        BY <1>1, <3>2, <3>4, <3>6 DEF HeldOn
      <4>2. f[u] = r.cost
        BY <2>3, <3>1, <4>1
      <4>3. g[u] = r.cost \/ g[u] = 0
        BY <3>3
      <4>4. r.cost \in Nat
        BY <3>2
      <4> QED
        BY <4>2, <4>3, <4>4
    <3>7. CASE ~(HoldsDaily(r) /\ Today <= r.date)
      BY <2>3, <3>3, <3>5, <3>7
    <3> QED
      BY <3>6, <3>7
  <2>5. IntegersOn(f, Tasks) /\ IntegersOn(g, Tasks)
    BY <2>3, <2>4 DEF IntegersOn
  <2>6. SumOver(g, Tasks) <= SumOver(f, Tasks)
    BY <2>4, <2>5, SumMonotonic, CreditAssumption
  <2>7. SumOver(f, Tasks) \in Int /\ SumOver(g, Tasks) \in Int
    BY <2>5, SumIsInteger, CreditAssumption
  <2>8. usage[Today].used + book.strayed >= SumOver(f, Tasks)
    BY <1>1, <2>1 DEF UsageInv, DayOK
  <2> QED
    BY <1>1, <2>2, <2>6, <2>7, <2>8
<1>6. SumOver(Commitments', Tasks) \in Nat /\ SumOver(Commitments', Tasks) <= MaxCost + OthersCost
  <2>1. PICK f : f = Commitments'
    OBVIOUS
  <2>2. ASSUME NEW u \in Tasks
        PROVE  f[u] \in Nat /\ f[u] <= MaxCost
    <3>1. PICK r \in TaskRecords : r = task[u] /\ r = task'[u] /\ TaskOK(r)
      BY <1>1, Acting
    <3>2. r.cost \in Nat /\ (r.at # "idle" => r.cost <= MaxCost)
      BY <3>1, LargestCost DEF TaskOK, TaskRecords
    <3>3. f[u] = 0 \/ (f[u] = r.cost /\ r.at \in PlanSteps)
      BY <2>1, <3>1 DEF Commitments, Committed, OnPlan, PlanSteps
    <3> QED
      BY <3>2, <3>3, OthersAreCounted DEF PlanSteps
  <2>3. PICK t \in Tasks : TRUE
    BY CreditAssumption
  <2>4. SumOver(f, Tasks) \in Nat /\ SumOver(f, Tasks) - f[t] <= OthersCost
    BY <2>2, OthersAreBounded
  <2> QED
    BY <2>1, <2>2, <2>4, OthersAreCounted
<1>7. book'.charged + SumOver(Commitments', Tasks) <= book'.paid + book'.strayed + OthersCost
  BY <1>1, <1>2, <1>6, OthersAreCounted
<1>8. book'.charged + SumOver(QuotaCharges', Tasks) <= UsedInPeriod(sub)' + book'.strayed
  <2>1. SumOver(QuotaCharges', Tasks) \in Int
    <3>1. PICK g : g = QuotaCharges'
      OBVIOUS
    <3>2. \A u \in Tasks : g[u] \in Int
      <4>1. task' \in [Tasks -> TaskRecords]
        BY <1>1
      <4> QED
        BY <3>1, <4>1 DEF QuotaCharges, HeldInWindow, TaskRecords
    <3> QED
      BY <3>1, <3>2, SumIsInteger, CreditAssumption DEF IntegersOn
  <2> QED
    BY <1>1, <1>2, <1>3, <1>5, <2>1
<1>9. 0 < sub'.start /\ sub'.start <= now' /\ sub'.start < sub'.end
  BY <1>1, <1>2
<1>10. UsedInPeriod(sub)' \in Int
  BY <1>1, <1>3
<1> QED
  BY <1>1, <1>2, <1>4, <1>7, <1>8, <1>9, <1>10 DEF PlanInv, ActiveAt

(* Time passes, or lots are bought.                                        *)
LEMMA OthersKeepPlan ==
    ASSUME LedgerInv, LedgerInv', PlanInv, UNCHANGED <<sub, usage, task, book>>, now <= now'
    PROVE  PlanInv'
<1> SUFFICES ASSUME sub.exists PROVE PlanInv'
  BY DEF PlanInv
<1>1. /\ now \in Nat /\ now' \in Nat /\ sub.start \in Nat /\ sub.end \in Nat
      /\ book.charged \in Int /\ book.strayed \in Int
  BY DEF LedgerInv, DataOK, Document, Book
<1>2. QuotaCharges' = QuotaCharges
  BY DEF QuotaCharges, HeldInWindow, InWindow
<1>3. Commitments' = Commitments
  BY DEF Commitments, Committed, IsCurrentPlan
<1>4. Allowances' = Allowances
  BY DEF Allowances
<1>5. PICK used \in Int : used = UsedInPeriod(sub) /\ used = UsedInPeriod(sub)'
  <2>1. SamePlan
    BY DEF SamePlan
  <2> QED
    BY <2>1, PlanDaysStay, UsageIsCounted DEF LedgerInv, DataOK
<1>6. PICK slack \in Nat : slack = SumOver(Allowances, Tasks)
  <2>1. \E t : t \in Tasks
    BY CreditAssumption
  <2> QED
    BY <2>1, OthersShares
<1>7. PICK held : held = SumOver(QuotaCharges, Tasks)
  OBVIOUS
<1>8. ActiveAt(sub', now') => ActiveAt(sub, now)
  BY <1>1 DEF ActiveAt
<1>9. book.charged + held <= used + book.strayed + IF ActiveAt(sub, now) THEN 0 ELSE slack
  BY <1>5, <1>6, <1>7 DEF PlanInv
<1>10. PICK total \in Int : total = book.charged + held
  <2>1. held \in Int
    <3>1. \A u \in Tasks : QuotaCharges[u] \in Int
      BY SharesAreCounted DEF QuotaCharges, LedgerInv, TasksOK
    <3> QED
      BY <1>7, <3>1, SumIsInteger, CreditAssumption DEF IntegersOn
  <2> QED
    BY <1>1, <2>1
<1>11. total <= used + book.strayed + IF ActiveAt(sub', now') THEN 0 ELSE slack
  BY <1>1, <1>6, <1>8, <1>9, <1>10
<1>12. sub.start <= now => sub.start <= now'
  BY <1>1
<1> QED
  BY <1>2, <1>3, <1>4, <1>5, <1>6, <1>7, <1>10, <1>11, <1>12 DEF PlanInv, ActiveAt

LEMMA PlanStep ==
    LedgerInv /\ LedgerInv' /\ UsageInv /\ PlanInv /\ [Next]_vars /\ [InTurn]_vars => PlanInv'
<1> SUFFICES ASSUME LedgerInv, LedgerInv', UsageInv, PlanInv, [Next]_vars, [InTurn]_vars PROVE PlanInv'
  OBVIOUS
<1>1. ASSUME NEW t \in Tasks, RequestStep(t)
      PROVE  PlanInv'
  BY <1>1, RequestActs, PlanIsKept
<1>2. now \in Nat
  BY DEF LedgerInv, DataOK
<1>3. CASE Tick \/ (\E l \in Lots : BuyLot(l)) \/ UNCHANGED vars
  <2>1. UNCHANGED <<sub, usage, task, book>> /\ (now' = now \/ now' = now + 1)
    BY <1>3 DEF Tick, BuyLot, vars
  <2>2. now <= now'
    BY <1>2, <2>1
  <2> QED
    BY <2>1, <2>2, OthersKeepPlan
<1>4. ASSUME NEW k \in Purchases, BuyPlan(k), InTurn
      PROVE  PlanInv'
  BY <1>4, PlanIsBoughtInTurn DEF InTurn
<1> QED
  BY <1>1, <1>3, <1>4 DEF Next

LEMMA PlanHolds ==
    Spec /\ [][InTurn]_vars => []PlanInv
<1>1. Init => PlanInv
  BY DEF Init, PlanInv, NoDocument
<1>2. LedgerInv /\ LedgerInv' /\ UsageInv /\ PlanInv /\ [Next]_vars /\ [InTurn]_vars => PlanInv'
  BY PlanStep
<1> QED
  BY <1>1, <1>2, UsageHolds, LedgerHolds, PTL DEF Spec

LEMMA NothingIsGivenAway ==
    LedgerInv /\ UsageInv /\ PlanInv => NeverOverCredited
<1> SUFFICES ASSUME LedgerInv, UsageInv, PlanInv, ActiveAt(sub, now)
             PROVE  PoolRemaining(sub) <= AtLeastZero(book.paid - book.charged + book.strayed)
  BY DEF NeverOverCredited
<1>1. sub \in Document(Purchases) /\ now \in Nat /\ book.paid \in Int /\ book.charged \in Int /\ book.strayed \in Int
  BY DEF LedgerInv, DataOK, Book
<1>2. sub.exists
  BY <1>1 DEF UsageInv, NoDocument, ActiveAt
<1>3. PICK used \in Int : used = UsedInPeriod(sub)
  BY <1>1, UsageIsCounted
<1>4. sub.total = book.paid
  BY <1>2 DEF PlanInv
<1>5. PICK held \in Nat : held = SumOver(QuotaCharges, Tasks)
  <2>1. \A u \in Tasks : QuotaCharges[u] \in Nat
    BY SharesAreCounted DEF QuotaCharges, LedgerInv, TasksOK
  <2> QED
    BY <2>1, SumIsNatural, CreditAssumption
<1>6. book.charged + held <= used + book.strayed
  <2>1. book.charged + held <= used + book.strayed + 0
    BY <1>2, <1>3, <1>5 DEF PlanInv
  <2> QED
    BY <1>1, <1>3, <2>1
<1>7. PICK legacy \in Int : legacy = AtLeastZero(sub.total - sub.remaining)
  BY <1>1 DEF Document, AtLeastZero, Larger
<1>8. PoolRemaining(sub) = AtLeastZero(book.paid - Larger(used, legacy))
  BY <1>3, <1>4, <1>7 DEF PoolRemaining
<1>9. AtLeastZero(book.paid - Larger(used, legacy)) <= AtLeastZero(book.paid - book.charged + book.strayed)
  BY <1>1, <1>5, <1>6 DEF AtLeastZero, Larger
<1> QED
  BY <1>8, <1>9

LEMMA PoolIsBounded ==
    LedgerInv /\ PlanInv => PoolOverspendIsBounded
<1> SUFFICES ASSUME LedgerInv, PlanInv, sub.exists
             PROVE  book.charged <= book.paid + book.strayed + OthersCost
  BY DEF PoolOverspendIsBounded
<1>1. PICK committed \in Nat : committed = SumOver(Commitments, Tasks)
  <2>1. \E t : t \in Tasks
    BY CreditAssumption
  <2> QED
    BY <2>1, OthersShares
<1>2. book.charged + committed <= book.paid + book.strayed + OthersCost
  BY <1>1 DEF PlanInv
<1>3. book.charged \in Int /\ book.paid \in Int /\ book.strayed \in Int
  BY DEF LedgerInv, DataOK, Book
<1> QED
  BY <1>1, <1>2, <1>3, OthersAreCounted

(* Where plans are bought one after the other, requests that run together, *)
(* refunds on other days and failures never leave a subscriber with more   *)
(* credits than were paid for and not charged.                             *)
THEOREM OverCreditNeedsARenewal == Spec /\ [][InTurn]_vars => []NeverOverCredited
  BY NothingIsGivenAway, PlanHolds, UsageHolds, LedgerHolds, PTL

(* There, requests that run together overspend a plan, and without a plan  *)
(* a day's quota, by no more than the others of them cost.                 *)
THEOREM OverspendStaysBounded == Spec /\ [][InTurn]_vars => []OverspendIsBounded
<1>1. LedgerInv /\ QuotaInv /\ PlanInv => OverspendIsBounded
  BY QuotaIsBounded, PoolIsBounded DEF OverspendIsBounded
<1> QED
  BY <1>1, PlanHolds, QuotaHolds, LedgerHolds, PTL
(***************************************************************************)
(* Administration: what an action knows at the step it is at.              *)
(***************************************************************************)
Correcting == {"reconcileRead", "reconcileUsage", "reconcileWrite", "verifyRead", "verifyUsage"}

(* An action nobody interferes with has read what is still there, and has  *)
(* written a ceiling and a balance that agree with each other.             *)
Exact(r) ==
    /\ r.at = "reconcileUsage" => r.plan = sub
    /\ r.at = "reconcileWrite" => r.used = UsedInPeriod(sub)
    /\ r.at \in {"verifyRead", "verifyUsage"} =>
           sub.total = UsedInPeriod(sub) + r.desired /\ sub.remaining = r.desired
    /\ r.at = "verifyUsage" => r.plan = sub
    /\ r.retried => UsedInPeriod(sub) < 0

AdminOK(r) ==
    /\ r.at # "idle" => r.id \in Ids
    /\ r.at \in {"cut", "revokeWrite"} => r.began > 0
    /\ r.at \in {"balanceRead", "balanceUsage"} => body[r.id].kind # "revoke"
    /\ r.at = "extendWrite" => body[r.id].kind = "extend"
    /\ r.at = "revokeWrite" => body[r.id].kind = "revoke"
    /\ r.retried => r.at \in Correcting
    /\ r.alone => Exact(r)

(* The audit log has an entry for every id that was handled.               *)
AuditOK ==
    /\ audit \in [Ids -> Results]
    /\ log \in Log
    /\ \A i \in Ids : log.handled[i] <= 1 /\ (audit[i] = "none" => log.handled[i] = 0)

Stamped == stamp \in Ids \cup {"other"}

AdminInv ==
    /\ LedgerInv
    /\ body \in [Ids -> Actions]
    /\ admin \in [Admins -> AdminRecords]
    /\ Stamped
    /\ \A a \in Admins : AdminOK(admin[a])
    /\ AuditOK

(* An action becomes q; the others are disturbed if it has written.        *)
Decides(a, q) ==
    /\ q \in AdminRecords /\ AdminOK(q)'
    /\ body' = body
    /\ \/ admin' = [admin EXCEPT ![a] = q] /\ UNCHANGED <<sub, usage>>
       \/ admin' = [b \in Admins |-> IF b = a THEN q ELSE Disturbed(admin[b], TRUE, 0)]

LEMMA Deciding ==
    ASSUME AdminInv, NEW a \in Admins
    PROVE  admin[a] \in AdminRecords /\ AdminOK(admin[a])
  BY DEF AdminInv

LEMMA DisturbedIsOK ==
    ASSUME AdminInv, NEW a \in Admins, NEW writes \in BOOLEAN, NEW cost \in Nat, body' = body
    PROVE  \E q \in AdminRecords : q = Disturbed(admin[a], writes, cost) /\ AdminOK(q)'
<1>1. PICK r : r = admin[a]
  OBVIOUS
<1>2. r \in AdminRecords /\ AdminOK(r)
  BY <1>1, Deciding
<1>3. PICK c \in BOOLEAN : c = (r.current /\ ~writes)
  BY <1>2 DEF AdminRecords
<1>9. PICK moved \in Nat : moved = IF c THEN r.moved + cost ELSE 0
  BY <1>2 DEF AdminRecords
<1>10. PICK s \in Stamps : s = IF writes /\ r.stamp = "other" THEN "old" ELSE r.stamp
  BY <1>2 DEF AdminRecords, Stamps
<1>4. PICK q : q = [r EXCEPT !.stamp = s, !.current = c, !.alone = FALSE, !.moved = moved]
  OBVIOUS
<1>5. q \in AdminRecords
  BY <1>2, <1>4 DEF AdminRecords
<1>6. /\ q.at = r.at /\ q.id = r.id /\ q.began = r.began /\ q.retried = r.retried
      /\ q.alone = FALSE
  BY <1>2, <1>4 DEF AdminRecords
<1>7. AdminOK(q)'
  BY <1>2, <1>6 DEF AdminOK
<1>8. q = Disturbed(admin[a], writes, cost)
  BY <1>1, <1>2, <1>3, <1>4, <1>9, <1>10 DEF Disturbed, AdminRecords
<1> QED
  BY <1>5, <1>7, <1>8

LEMMA UndisturbedIsOK ==
    ASSUME AdminInv, NEW a \in Admins, body' = body, UNCHANGED <<sub, usage>>
    PROVE  \E q \in AdminRecords : q = admin[a] /\ AdminOK(q)'
<1>1. PICK q : q = admin[a]
  OBVIOUS
<1>2. q \in AdminRecords /\ AdminOK(q)
  BY <1>1, Deciding
<1>3. PICK s : s = sub
  OBVIOUS
<1>4. UsedInPeriod(s)' = UsedInPeriod(s)
  BY UsageStays
<1>5. UsedInPeriod(sub)' = UsedInPeriod(sub)
  BY <1>3, <1>4
<1>6. Exact(q) => Exact(q)'
  BY <1>5 DEF Exact
<1>7. AdminOK(q)'
  BY <1>2, <1>6 DEF AdminOK
<1> QED
  BY <1>1, <1>2, <1>7

(* It is enough that every action can be judged by itself.                 *)
LEMMA EveryoneIsOK ==
    ASSUME AdminInv, Stamped', LedgerInv', AuditOK', body' = body, NEW f, admin' = [a \in Admins |-> f[a]],
           \A a \in Admins : \E q \in AdminRecords : q = f[a] /\ AdminOK(q)'
    PROVE  AdminInv'
<1>1. admin' \in [Admins -> AdminRecords]
  OBVIOUS
<1>2. ASSUME NEW a \in Admins PROVE AdminOK(admin[a])'
  <2>1. PICK q \in AdminRecords : q = f[a] /\ AdminOK(q)'
    OBVIOUS
  <2>2. q = admin'[a]
    BY <2>1
  <2> QED
    BY <2>1, <2>2 DEF AdminOK, Exact
<1> QED
  BY <1>1, <1>2 DEF AdminInv

LEMMA OneDecides ==
    ASSUME AdminInv, Stamped', LedgerInv', AuditOK', NEW a \in Admins, NEW q, Decides(a, q)
    PROVE  AdminInv'
<1>1. admin \in [Admins -> AdminRecords] /\ body' = body
  BY DEF AdminInv, Decides
<1>2. PICK f : f = admin'
  OBVIOUS
<1>3. admin' = [b \in Admins |-> f[b]] /\ f[a] = q
  BY <1>1, <1>2 DEF Decides
<1>4. ASSUME NEW b \in Admins PROVE \E p \in AdminRecords : p = f[b] /\ AdminOK(p)'
  <2>1. CASE b = a
    BY <1>3, <2>1 DEF Decides
  <2>2. CASE b # a
    <3>1. CASE admin' = [admin EXCEPT ![a] = q] /\ UNCHANGED <<sub, usage>>
      <4>1. f[b] = admin[b]
        BY <1>1, <1>2, <2>2, <3>1
      <4> QED
        BY <1>1, <3>1, <4>1, UndisturbedIsOK
    <3>2. CASE admin' = [c \in Admins |-> IF c = a THEN q ELSE Disturbed(admin[c], TRUE, 0)]
      <4>1. f[b] = Disturbed(admin[b], TRUE, 0)
        BY <1>2, <2>2, <3>2
      <4> QED
        BY <1>1, <4>1, DisturbedIsOK
    <3> QED
      BY <3>1, <3>2 DEF Decides
  <2> QED
    BY <2>1, <2>2
<1> QED
  BY <1>1, <1>3, <1>4, EveryoneIsOK

(* What an administrator may have asked for.                               *)
LEMMA AskedIsAnAction ==
    ASSUME AdminInv, NEW a \in Admins, ~Doing(a, "idle")
    PROVE  /\ Asked(a).kind \in {"grant", "extend", "set", "delta", "revoke"}
           /\ Asked(a).kind = "extend" => Asked(a).days \in Nat /\ Asked(a).preserves \in BOOLEAN
           /\ Asked(a).kind = "set" => Asked(a).credits \in Nat
           /\ Asked(a).kind = "delta" => Asked(a).credits \in Int
           /\ Asked(a).kind = "revoke" => Asked(a).zeroes \in BOOLEAN
<1>1. Asked(a) \in Action
  BY Deciding, AdministrationAssumption DEF AdminInv, AdminOK, Asked, Doing
<1> QED
  BY <1>1 DEF Action

LEMMA DatesAreFinite ==
    IsFiniteSet(Dates)
<1>1. Date(MaxTime) \in Nat /\ 0 \in Int
  BY CreditAssumption DEF Date
<1> QED
  BY <1>1, FS_Interval DEF Dates

LEMMA UsageSinceIsCounted ==
    ASSUME LedgerInv, NEW doc
    PROVE  UsedSince(doc) \in Int
<1>1. PICK D : D = {d \in Dates : Date(doc.start) <= d}
  OBVIOUS
<1>2. IntegersOn(UsedOn, D) /\ IsFiniteSet(D)
  <2>1. IsFiniteSet(Dates)
    BY DatesAreFinite
  <2>2. D \subseteq Dates
    BY <1>1
  <2>3. IsFiniteSet(D)
    BY <2>1, <2>2, FS_Subset
  <2> QED
    BY <2>2, <2>3 DEF LedgerInv, DataOK, UsageDocument, UsedOn, IntegersOn
<1> QED
  BY <1>1, <1>2, SumIsInteger DEF UsedSince

LEMMA AuditIsKept ==
    ASSUME AdminInv, audit' = audit,
           log' = log \/ \E doc \in Document(Purchases), left \in Int, n \in Int : Leaves(doc, left, n)
    PROVE  AuditOK'
<1>1. log \in Log /\ AuditOK
  BY DEF AdminInv, AuditOK
<1>2. log' \in Log /\ log'.handled = log.handled
  <2>1. ASSUME NEW doc \in Document(Purchases), NEW left \in Int, NEW n \in Int, Leaves(doc, left, n)
        PROVE  log' \in Log /\ log'.handled = log.handled
    <3>1. PICK spent \in Int : spent = UsedSince(doc) - n
      BY UsageSinceIsCounted DEF AdminInv
    <3>2. PICK later \in BOOLEAN : later = (doc.start > now)
      <4>1. (doc.start > now) \in BOOLEAN
        OBVIOUS
      <4> QED
        BY <4>1
    <3>3. PICK l \in Log : l = [log EXCEPT !.adrift = later]
      BY <1>1 DEF Log
    <3>4. l.handled = log.handled
      BY <1>1, <3>3 DEF Log
    <3>5. log' = [l EXCEPT !.left = left, !.spent = spent]
      BY <1>1, <2>1, <3>1, <3>2, <3>3 DEF Leaves, Log
    <3> QED
      BY <3>4, <3>5 DEF Log
  <2> QED
    BY <1>1, <2>1
<1> QED
  BY <1>1, <1>2 DEF AuditOK

(* An action is over, one way or the other.                                *)
LEMMA ActionIsOver ==
    ASSUME AdminInv, NEW a \in Admins, ~Doing(a, "idle"), NEW how \in AdminSteps,
           how \in {"succeed", "fail"}, NEW q, q = Over(a, how) \/ q = NoAction
    PROVE  q \in AdminRecords /\ AdminOK(q)'
<1>1. admin[a].id \in Ids
  BY Deciding DEF AdminOK, Doing
<1>2. NoDocument \in Document(Purchases)
  BY DEF NoDocument, Document
<1>3. NoAction \in AdminRecords /\ NoAction.at = "idle" /\ ~NoAction.retried /\ ~NoAction.alone
  BY <1>2 DEF NoAction, AdminRecords, Stamps
<1>4. CASE q = NoAction
  BY <1>3, <1>4 DEF AdminOK
<1>5. CASE q = Over(a, how)
  <2>1. /\ q \in AdminRecords /\ q.at \in {"succeed", "fail"} /\ q.id \in Ids
        /\ ~q.retried /\ ~q.alone
    BY <1>1, <1>3, <1>5 DEF Over, NoAction, AdminRecords
  <2> QED
    BY <2>1 DEF AdminOK
<1> QED
  BY <1>4, <1>5

(***************************************************************************)
(* Administration: the steps that write nothing.                           *)
(***************************************************************************)
LEMMA AnIdIsClaimed ==
    ASSUME AdminInv, Stamped', LedgerInv', NEW a \in Admins, NEW i \in Ids, Claim(a, i)
    PROVE  AdminInv'
<1>1. AuditOK /\ audit \in [Ids -> Results] /\ log \in Log /\ log.handled \in [Ids -> Nat]
  BY DEF AdminInv, AuditOK, Log
<1>2. UNCHANGED <<sub, usage, body>>
  BY DEF Claim, vars
<1>3. CASE Unused(i)
  <2>1. PICK q : q = [NoAction EXCEPT !.at = "read", !.id = i]
    OBVIOUS
  <2>2. NoDocument \in Document(Purchases)
    BY DEF NoDocument, Document
  <2>3. q \in AdminRecords /\ q.at = "read" /\ q.id = i /\ ~q.retried /\ ~q.alone
    <3>1. PICK n : n = NoAction
      OBVIOUS
    <3>2. n \in AdminRecords /\ ~n.retried /\ ~n.alone
      BY <2>2, <3>1 DEF NoAction, AdminRecords, Stamps
    <3>3. q = [n EXCEPT !.at = "read", !.id = i]
      BY <2>1, <3>1
    <3> QED
      BY <3>2, <3>3 DEF AdminRecords, AdminSteps
  <2>4. AdminOK(q)'
    BY <2>3 DEF AdminOK
  <2>5. Decides(a, q)
    BY <1>2, <1>3, <2>1, <2>3, <2>4 DEF Decides, Claim
  <2>6. AuditOK'
    <3>1. PICK h : h = [log.handled EXCEPT ![i] = @ + 1]
      OBVIOUS
    <3>2. log' = [log EXCEPT !.handled = h] /\ audit' = [audit EXCEPT ![i] = "in_progress"]
      BY <1>3, <3>1 DEF Claim
    <3>3. h \in [Ids -> Nat] /\ log.handled[i] = 0 /\ audit[i] = "none"
      BY <1>1, <1>3, <3>1 DEF AuditOK, Unused
    <3>4. log' \in Log /\ log'.handled = h /\ audit' \in [Ids -> Results]
      BY <1>1, <3>2, <3>3 DEF Log, Results
    <3>5. ASSUME NEW j \in Ids
          PROVE  h[j] <= 1 /\ (audit'[j] = "none" => h[j] = 0)
      BY <1>1, <3>1, <3>2, <3>3 DEF AuditOK
    <3> QED
      BY <3>4, <3>5 DEF AuditOK
  <2> QED
    BY <2>5, <2>6, OneDecides
<1>4. CASE ~Unused(i)
  <2>1. PICK q : q = admin[a] /\ q \in AdminRecords /\ AdminOK(q)'
    BY <1>2, UndisturbedIsOK
  <2>2. admin' = [admin EXCEPT ![a] = q]
    BY <1>4, <2>1 DEF Claim, AdminInv
  <2>3. Decides(a, q)
    BY <1>2, <2>1, <2>2 DEF Decides
  <2>4. AuditOK'
    BY <1>1, <1>4 DEF Claim, AuditOK
  <2> QED
    BY <2>3, <2>4, OneDecides
<1> QED
  BY <1>3, <1>4

(* What an action keeps of its first read.                                 *)
LEMMA PlanIsNoted ==
    ASSUME AdminInv, NEW a \in Admins, ~Doing(a, "idle")
    PROVE  \E s \in Stamps, u \in Nat : s = Read(Asked(a)) /\ u = ExtendedEnd(Asked(a))
<1>1. Read(Asked(a)) \in Stamps
  BY DEF AdminInv, Stamped, Stamps, Read
<1>2. now \in Nat /\ sub.end \in Nat
  BY DEF AdminInv, LedgerInv, DataOK, Document
<1>3. ExtendedEnd(Asked(a)) \in Nat
  BY <1>2, AskedIsAnAction DEF ExtendedEnd, Larger
<1> QED
  BY <1>1, <1>3

LEMMA PlanIsRead ==
    ASSUME AdminInv, NEW a \in Admins, ReadPlan(a)
    PROVE  \E q : Decides(a, q)
<1>1. PICK r : r = admin[a]
  OBVIOUS
<1>2. r \in AdminRecords /\ AdminOK(r) /\ r.at = "read" /\ ~Doing(a, "idle") /\ now \in Nat \ {0}
  BY <1>1, Deciding DEF ReadPlan, Doing, AdminInv, LedgerInv, DataOK
<1>3. UNCHANGED <<sub, usage, body>>
  BY DEF ReadPlan, vars
<1>4. PICK next : next = Begins(Asked(a))
  OBVIOUS
<1>5. CASE Refused(Asked(a))
  <2>1. PICK q : q = Over(a, "fail")
    OBVIOUS
  <2>2. q \in AdminRecords /\ AdminOK(q)'
    BY <1>2, <2>1, ActionIsOver DEF AdminSteps
  <2> QED
    BY <1>3, <1>5, <2>1, <2>2 DEF Decides, ReadPlan, Fails
<1>6. CASE ~Refused(Asked(a))
  <2>1. /\ next \in {"cut", "balanceRead", "revokeWrite"}
        /\ next = "balanceRead" => Asked(a).kind # "revoke"
        /\ next = "revokeWrite" => Asked(a).kind = "revoke"
    BY <1>2, <1>4, AskedIsAnAction DEF Begins
  <2>2. PICK locks : locks = Locks(Asked(a).kind) /\ locks \in BOOLEAN
    <3>1. Locks(Asked(a).kind) \in BOOLEAN
      BY DEF Locks
    <3> QED
      BY <3>1
  <2>8. PICK s \in Stamps, u \in Nat : s = Read(Asked(a)) /\ u = ExtendedEnd(Asked(a))
    BY <1>2, PlanIsNoted
  <2>3. PICK q : q = [r EXCEPT !.at = next, !.began = now, !.stamp = s, !.until = u,
                               !.current = locks, !.alone = TRUE]
    OBVIOUS
  <2>4. /\ q \in AdminRecords /\ q.at = next /\ q.id = r.id /\ q.began = now
        /\ q.retried = r.retried
    BY <1>2, <2>1, <2>2, <2>3 DEF AdminRecords, AdminSteps
  <2>5. ~q.retried /\ q.id \in Ids /\ body'[q.id] = Asked(a)
    BY <1>1, <1>2, <1>3, <2>4 DEF AdminOK, Correcting, Asked
  <2>6. AdminOK(q)'
    BY <1>2, <2>1, <2>4, <2>5 DEF AdminOK, Exact
  <2>7. admin' = [admin EXCEPT ![a] = q]
    BY <1>1, <1>4, <1>6, <2>2, <2>3, <2>8 DEF ReadPlan
  <2> QED
    BY <1>3, <2>4, <2>6, <2>7 DEF Decides
<1> QED
  BY <1>5, <1>6

(* The plan is read again, or its usage.                                   *)
LEMMA PlanIsReadAgain ==
    ASSUME AdminInv, NEW a \in Admins,
           ReadForBalance(a) \/ UpsertRead(a) \/ ReconcileRead(a) \/ VerifyRead(a)
    PROVE  \E q : Decides(a, q)
<1>1. PICK r : r = admin[a]
  OBVIOUS
<1>2. r \in AdminRecords /\ AdminOK(r) /\ sub \in Document(Purchases)
  BY <1>1, Deciding DEF AdminInv, LedgerInv, DataOK
<1>3. UNCHANGED <<sub, usage, body>>
  BY DEF ReadForBalance, UpsertRead, ReconcileRead, VerifyRead, vars
<1>4. PICK q : /\ admin' = [admin EXCEPT ![a] = q]
               /\ \/ r.at = "balanceRead" /\ q = [r EXCEPT !.at = "balanceUsage", !.plan = sub]
                  \/ r.at = "upsertRead" /\ q = [r EXCEPT !.at = "upsertWrite", !.plan = sub]
                  \/ r.at = "reconcileRead" /\ q = [r EXCEPT !.at = "reconcileUsage", !.plan = sub]
                  \/ r.at = "verifyRead" /\ q = [r EXCEPT !.at = "verifyUsage", !.plan = sub]
  <2>1. CASE ReadForBalance(a)
    BY <1>1, <2>1 DEF ReadForBalance, Doing
  <2>2. CASE UpsertRead(a)
    BY <1>1, <2>2 DEF UpsertRead, Doing
  <2>3. CASE VerifyRead(a)
    BY <1>1, <2>3 DEF VerifyRead, Doing
  <2>4. CASE ReconcileRead(a)
    BY <1>1, <2>4 DEF ReconcileRead, Doing, AdminInv
  <2> QED
    BY <2>1, <2>2, <2>3, <2>4
<1>5. /\ q \in AdminRecords /\ q.id = r.id /\ q.plan = sub /\ q.retried = r.retried
      /\ q.alone = r.alone /\ q.desired = r.desired
      /\ \/ r.at = "balanceRead" /\ q.at = "balanceUsage"
         \/ r.at = "upsertRead" /\ q.at = "upsertWrite"
         \/ r.at = "reconcileRead" /\ q.at = "reconcileUsage"
         \/ r.at = "verifyRead" /\ q.at = "verifyUsage"
  BY <1>2, <1>4, ZenonT(60) DEF AdminRecords, AdminSteps
<1>6. AdminOK(q)
  BY <1>2, <1>5 DEF AdminOK, Exact, Correcting
<1>7. PICK s : s = sub
  OBVIOUS
<1>8. UsedInPeriod(s)' = UsedInPeriod(s)
  BY <1>3, UsageStays
<1>9. UsedInPeriod(sub)' = UsedInPeriod(sub)
  BY <1>3, <1>7, <1>8
<1>10. AdminOK(q)'
  BY <1>3, <1>6, <1>9 DEF AdminOK, Exact
<1> QED
  BY <1>3, <1>4, <1>5, <1>10 DEF Decides

LEMMA BalanceIsRead ==
    ASSUME AdminInv, NEW a \in Admins, ReadBalance(a)
    PROVE  \E q : Decides(a, q)
<1>1. PICK r : r = admin[a]
  OBVIOUS
<1>2. r \in AdminRecords /\ AdminOK(r) /\ r.at = "balanceUsage" /\ ~Doing(a, "idle")
  BY <1>1, Deciding DEF ReadBalance, Doing
<1>3. UNCHANGED <<sub, usage, body>>
  BY DEF ReadBalance, vars
<1>4. PoolRemaining(r.plan) \in Nat
  BY <1>2, UsageIsCounted DEF AdminInv, AdminRecords
<1>5. Asked(a).kind \in {"grant", "extend", "set", "delta"}
  BY <1>1, <1>2, AskedIsAnAction DEF AdminOK, Asked
<1>6. PICK desired : desired = Desired(Asked(a), PoolRemaining(r.plan))
  OBVIOUS
<1>7. desired \in Nat
  <2>1. GrantQuote.credits \in Nat
    BY AdministrationAssumption DEF Quote
  <2>2. CASE Asked(a).kind = "grant"
    BY <1>4, <1>6, <2>1, <2>2 DEF Desired
  <2>3. CASE Asked(a).kind = "extend"
    BY <1>4, <1>6, <2>3 DEF Desired
  <2>4. CASE Asked(a).kind = "set"
    BY <1>2, <1>6, <2>4, AskedIsAnAction DEF Desired
  <2>5. CASE Asked(a).kind = "delta"
    BY <1>2, <1>4, <1>6, <2>5, AskedIsAnAction DEF Desired, AtLeastZero, Larger
  <2> QED
    BY <1>5, <2>2, <2>3, <2>4, <2>5
<1>8. PICK next : next = AfterBalance(Asked(a).kind)
  OBVIOUS
<1>9. /\ next \in {"upsertRead", "extendWrite", "reconcileRead"}
      /\ next = "extendWrite" => Asked(a).kind = "extend"
  BY <1>8 DEF AfterBalance
<1>10. PICK plan \in Document(Purchases) : plan = NoDocument
  <2>1. NoDocument \in Document(Purchases)
    BY DEF NoDocument, Document
  <2> QED
    BY <2>1
<1>11. PICK q : q = [r EXCEPT !.at = next, !.desired = desired, !.plan = plan]
  OBVIOUS
<1>12. q \in AdminRecords /\ q.at = next /\ q.id = r.id /\ q.retried = r.retried
  BY <1>2, <1>7, <1>9, <1>11 DEF AdminRecords, AdminSteps
<1>13. ~q.retried /\ q.id \in Ids /\ body'[q.id] = Asked(a)
  BY <1>1, <1>2, <1>3, <1>12 DEF AdminOK, Correcting, Asked
<1>14. AdminOK(q)'
  BY <1>9, <1>12, <1>13 DEF AdminOK, Exact
<1>15. admin' = [admin EXCEPT ![a] = q]
  BY <1>1, <1>6, <1>8, <1>10, <1>11 DEF ReadBalance
<1> QED
  BY <1>3, <1>12, <1>14, <1>15 DEF Decides

LEMMA UsageIsReadAgain ==
    ASSUME AdminInv, NEW a \in Admins, ReconcileUsage(a)
    PROVE  \E q : Decides(a, q)
<1>1. PICK r : r = admin[a]
  OBVIOUS
<1>2. r \in AdminRecords /\ AdminOK(r) /\ r.at = "reconcileUsage"
  BY <1>1, Deciding DEF ReconcileUsage, Doing
<1>3. UNCHANGED <<sub, usage, body>>
  BY DEF ReconcileUsage, vars
<1>4. PICK used \in Int : used = UsedInPeriod(r.plan)
  BY <1>2, UsageIsCounted DEF AdminInv, AdminRecords
<1>5. PICK q : q = [r EXCEPT !.at = "reconcileWrite", !.used = used, !.plan = NoDocument]
  OBVIOUS
<1>6. NoDocument \in Document(Purchases)
  BY DEF NoDocument, Document
<1>7. /\ q \in AdminRecords /\ q.at = "reconcileWrite" /\ q.id = r.id /\ q.used = used
      /\ q.retried = r.retried /\ q.alone = r.alone
  BY <1>2, <1>5, <1>6 DEF AdminRecords, AdminSteps
<1>8. AdminOK(q)
  BY <1>2, <1>4, <1>7 DEF AdminOK, Exact, Correcting
<1>9. PICK s : s = sub
  OBVIOUS
<1>10. UsedInPeriod(s)' = UsedInPeriod(s)
  BY <1>3, UsageStays
<1>11. UsedInPeriod(sub)' = UsedInPeriod(sub)
  BY <1>3, <1>9, <1>10
<1>12. AdminOK(q)'
  BY <1>3, <1>8, <1>11 DEF AdminOK, Exact
<1>13. admin' = [admin EXCEPT ![a] = q]
  BY <1>1, <1>4, <1>5 DEF ReconcileUsage
<1> QED
  BY <1>3, <1>7, <1>12, <1>13 DEF Decides

(* The ceiling and the balance agree unless the ledger is below zero.      *)
LEMMA BalanceIsVerified ==
    ASSUME AdminInv, NEW a \in Admins, VerifyUsage(a)
    PROVE  \E q : Decides(a, q)
<1>1. PICK r : r = admin[a]
  OBVIOUS
<1>2. r \in AdminRecords /\ AdminOK(r) /\ r.at = "verifyUsage" /\ ~Doing(a, "idle")
  BY <1>1, Deciding DEF VerifyUsage, Doing
<1>3. UNCHANGED <<sub, usage, body>>
  BY DEF VerifyUsage, vars
<1>4. CASE admin' = [admin EXCEPT ![a] = Over(a, "succeed")] \/ admin' = [admin EXCEPT ![a] = Over(a, "fail")]
  <2>1. PICK how \in {"succeed", "fail"} : admin' = [admin EXCEPT ![a] = Over(a, how)]
    BY <1>4
  <2>2. PICK q : q = Over(a, how)
    OBVIOUS
  <2>3. q \in AdminRecords /\ AdminOK(q)'
    BY <1>2, <2>2, ActionIsOver DEF AdminSteps
  <2> QED
    BY <1>3, <2>1, <2>2, <2>3 DEF Decides
<1>5. CASE /\ PoolRemaining(r.plan) # r.desired
           /\ admin' = [admin EXCEPT ![a] =
                           [r EXCEPT !.at = "reconcileRead", !.plan = NoDocument, !.retried = TRUE]]
  <2>1. PICK q : q = [r EXCEPT !.at = "reconcileRead", !.plan = NoDocument, !.retried = TRUE]
    OBVIOUS
  <2>2. NoDocument \in Document(Purchases)
    BY DEF NoDocument, Document
  <2>3. q \in AdminRecords /\ q.at = "reconcileRead" /\ q.id = r.id /\ q.alone = r.alone
    BY <1>2, <2>1, <2>2 DEF AdminRecords, AdminSteps
  <2>4. r.alone => UsedInPeriod(sub) < 0
    <3>1. SUFFICES ASSUME r.alone, ~(UsedInPeriod(sub) < 0) PROVE FALSE
      OBVIOUS
    <3>2. r.plan = sub /\ sub.total = UsedInPeriod(sub) + r.desired /\ sub.remaining = r.desired
      BY <1>2, <3>1 DEF AdminOK, Exact
    <3>3. UsedInPeriod(sub) \in Int
      BY UsageIsCounted DEF AdminInv, LedgerInv, DataOK
    <3>4. r.desired \in Nat
      BY <1>2 DEF AdminRecords
    <3>5. PICK u \in Nat : u = UsedInPeriod(sub)
      BY <3>1, <3>3
    <3>6. PoolRemaining(sub) = AtLeastZero(sub.total - Larger(u, AtLeastZero(sub.total - sub.remaining)))
      BY <3>5 DEF PoolRemaining
    <3>7. sub.total = u + r.desired
      BY <3>2, <3>5
    <3>8. PoolRemaining(sub) = r.desired
      BY <3>2, <3>4, <3>6, <3>7 DEF AtLeastZero, Larger
    <3> QED
      BY <1>5, <3>2, <3>8
  <2>5. PICK s : s = sub
    OBVIOUS
  <2>6. UsedInPeriod(s)' = UsedInPeriod(s)
    BY <1>3, UsageStays
  <2>7. q.alone => UsedInPeriod(sub)' < 0
    BY <1>3, <2>3, <2>4, <2>5, <2>6
  <2>8. AdminOK(q)'
    BY <1>2, <2>3, <2>7 DEF AdminOK, Exact, Correcting
  <2> QED
    BY <1>3, <1>5, <2>1, <2>3, <2>8 DEF Decides
<1> QED
  BY <1>1, <1>4, <1>5 DEF VerifyUsage

LEMMA ActionIsClosed ==
    ASSUME AdminInv, Stamped', LedgerInv', NEW a \in Admins, Close(a)
    PROVE  AdminInv'
<1>1. admin[a].id \in Ids /\ ~Doing(a, "idle")
  BY Deciding DEF Close, Doing, AdminOK
<1>2. PICK q : q = NoAction
  OBVIOUS
<1>3. q \in AdminRecords /\ AdminOK(q)'
  BY <1>1, <1>2, ActionIsOver DEF AdminSteps
<1>4. Decides(a, q)
  BY <1>2, <1>3 DEF Close, Decides, vars
<1>5. AuditOK'
  <2>1. PICK i \in Ids : i = admin[a].id
    BY <1>1
  <2>2. PICK result \in {"success", "error"} : audit' = [audit EXCEPT ![i] = result]
    BY <2>1 DEF Close
  <2>3. audit \in [Ids -> Results] /\ log' = log /\ AuditOK
    BY DEF AdminInv, AuditOK, Close
  <2> QED
    BY <2>2, <2>3 DEF AuditOK, Results
<1> QED
  BY <1>4, <1>5, OneDecides

LEMMA ActionFails ==
    ASSUME AdminInv, NEW a \in Admins, AdminFault(a)
    PROVE  \E q : Decides(a, q)
<1>1. ~Doing(a, "idle") /\ UNCHANGED <<sub, usage, body>>
  BY DEF AdminFault, HandlerRaises, Abandoned, AdminSteps, Doing
<1>2. PICK q : (q = Over(a, "fail") \/ q = NoAction) /\ admin' = [admin EXCEPT ![a] = q]
  BY DEF AdminFault, HandlerRaises, Abandoned, Fails
<1>3. q \in AdminRecords /\ AdminOK(q)'
  BY <1>1, <1>2, ActionIsOver DEF AdminSteps
<1> QED
  BY <1>1, <1>2, <1>3 DEF Decides

(***************************************************************************)
(* Administration: the steps that write the plan.                          *)
(***************************************************************************)
(* An action that writes leaves the rest of the ledger as it was.          *)
LEMMA PlanIsWritten ==
    ASSUME AdminInv, Stamped', NEW a \in Admins, NEW q, Decides(a, q), AuditOK',
           UNCHANGED <<now, usage, welcome, lot, task, faults, book>>, sub' \in Document(Purchases)
    PROVE  AdminInv'
<1>1. LedgerInv
  BY DEF AdminInv
<1>2. DataOK' /\ LedgerKept
  BY <1>1 DEF LedgerInv, DataOK, LedgerKept
<1> QED
  BY <1>1, <1>2, LedgerIsKept, OneDecides

LEMMA WindowIsCut ==
    ASSUME AdminInv, Stamped', NEW a \in Admins, CutWindow(a)
    PROVE  AdminInv'
<1>1. PICK r : r = admin[a]
  OBVIOUS
<1>2. /\ r \in AdminRecords /\ AdminOK(r) /\ r.at = "cut"
      /\ sub \in Document(Purchases) /\ book \in Book
  BY <1>1, Deciding DEF CutWindow, Doing, AdminInv, LedgerInv, DataOK
<1>3. GrantQuote.credits \in Nat
  BY AdministrationAssumption DEF Quote
<1>4. PICK q : q = [r EXCEPT !.at = "upsertRead", !.desired = GrantQuote.credits]
  OBVIOUS
<1>5. PICK p : p = IF sub.exists THEN [q EXCEPT !.stamp = "none", !.current = FALSE, !.moved = 0] ELSE q
  OBVIOUS
<1>6. q \in AdminRecords /\ q.at = "upsertRead" /\ q.id = r.id /\ q.retried = r.retried
  BY <1>2, <1>3, <1>4 DEF AdminRecords, AdminSteps
<1>7. p \in AdminRecords /\ p.at = "upsertRead" /\ p.id = r.id /\ p.retried = r.retried
  BY <1>5, <1>6 DEF AdminRecords, Stamps
<1>8. ~p.retried /\ p.id \in Ids
  BY <1>2, <1>7 DEF AdminOK, Correcting
<1>9. AdminOK(p)'
  BY <1>7, <1>8 DEF AdminOK, Exact
<1>10. UNCHANGED <<now, usage, welcome, lot, task, faults, book, body, audit, log>>
  BY DEF CutWindow
<1>11. CASE sub.exists
  <2>1. PICK cut : cut = [sub EXCEPT !.end = r.began - 1]
    OBVIOUS
  <2>2. sub' = cut /\ Writes(a, q)
    BY <1>1, <1>4, <1>11, <2>1 DEF CutWindow
  <2>3. r.began - 1 \in Nat
    BY <1>2 DEF AdminOK, AdminRecords
  <2>4. sub' \in Document(Purchases)
    BY <1>2, <2>1, <2>2, <2>3 DEF Document
  <2>5. Decides(a, p)
    BY <1>5, <1>7, <1>9, <1>10, <1>11, <2>2 DEF Decides, Writes
  <2>6. AuditOK'
    BY <1>10, <2>2, AuditIsKept
  <2> QED
    BY <1>2, <1>10, <2>4, <2>5, <2>6, PlanIsWritten
<1>12. CASE ~sub.exists
  <2>1. admin' = [admin EXCEPT ![a] = q] /\ UNCHANGED <<sub, log>>
    BY <1>1, <1>4, <1>12 DEF CutWindow
  <2>2. Decides(a, p)
    BY <1>5, <1>7, <1>9, <1>10, <1>12, <2>1 DEF Decides
  <2>3. AuditOK'
    BY <1>10, <2>1, AuditIsKept
  <2> QED
    BY <1>2, <1>10, <2>1, <2>2, <2>3, PlanIsWritten
<1> QED
  BY <1>11, <1>12

LEMMA PlanIsGranted ==
    ASSUME AdminInv, Stamped', NEW a \in Admins, UpsertWrite(a)
    PROVE  AdminInv'
<1>1. PICK r : r = admin[a]
  OBVIOUS
<1>2. /\ r \in AdminRecords /\ AdminOK(r) /\ r.at = "upsertWrite"
      /\ sub \in Document(Purchases) /\ book \in Book /\ LedgerInv
  BY <1>1, Deciding DEF UpsertWrite, Doing, AdminInv, LedgerInv, DataOK
<1>3. /\ GrantQuote.credits \in Nat /\ GrantQuote.days \in Nat
      /\ GrantQuote.tier \in PoolTiers /\ GrantQuote.period \in PoolPeriods
  BY AdministrationAssumption DEF Quote, IsDailyPassQuote
<1>4. PICK granted : granted = Granted(r.plan, r.began)
  OBVIOUS
<1>5. granted \in Document(Purchases)
  <2>1. PICK start : start = Larger(r.began, r.plan.end)
    OBVIOUS
  <2>2. r.plan.end \in Nat /\ r.plan.remaining \in Nat /\ r.began \in Nat
    BY <1>2 DEF AdminRecords, Document
  <2>3. start \in Nat
    BY <2>1, <2>2 DEF Larger
  <2>4. PICK balance : balance = CarriedCredits(r.plan, r.began) + GrantQuote.credits
    OBVIOUS
  <2>5. balance \in Nat
    BY <1>3, <2>2, <2>4 DEF CarriedCredits, AtLeastZero, Larger
  <2>6. sub.grants \in SUBSET Purchases
    BY <1>2 DEF Document
  <2>7. granted = [exists |-> TRUE, tier |-> GrantQuote.tier, period |-> GrantQuote.period,
                   start |-> start, end |-> start + GrantQuote.days, total |-> GrantQuote.credits,
                   remaining |-> balance, grants |-> sub.grants]
    BY <1>4, <2>1, <2>4 DEF Granted
  <2> QED
    BY <1>3, <2>3, <2>5, <2>6, <2>7 DEF Document
<1>7. /\ sub' = granted /\ Leaves(granted, GrantQuote.credits, 0)
      /\ Writes(a, [r EXCEPT !.at = "reconcileRead", !.plan = NoDocument])
      /\ UNCHANGED <<now, usage, welcome, lot, task, faults, book, body, audit>>
  BY <1>1, <1>4 DEF UpsertWrite
<1>9. PICK q : q = [r EXCEPT !.at = "reconcileRead", !.plan = NoDocument, !.stamp = "none",
                             !.current = FALSE, !.moved = 0]
  OBVIOUS
<1>10. NoDocument \in Document(Purchases)
  BY DEF NoDocument, Document
<1>11. q \in AdminRecords /\ q.at = "reconcileRead" /\ q.id = r.id /\ q.retried = r.retried
  BY <1>2, <1>9, <1>10 DEF AdminRecords, AdminSteps, Stamps
<1>12. ~q.retried /\ q.id \in Ids
  BY <1>2, <1>11 DEF AdminOK, Correcting
<1>13. AdminOK(q)'
  BY <1>11, <1>12 DEF AdminOK, Exact
<1>14. Decides(a, q)
  BY <1>7, <1>9, <1>11, <1>13 DEF Decides, Writes
<1>15. AuditOK'
  BY <1>3, <1>5, <1>7, AuditIsKept
<1> QED
  BY <1>5, <1>7, <1>14, <1>15, PlanIsWritten

LEMMA PlanIsExtended ==
    ASSUME AdminInv, Stamped', NEW a \in Admins, ExtendWrite(a)
    PROVE  AdminInv'
<1>1. PICK r : r = admin[a]
  OBVIOUS
<1>2. /\ r \in AdminRecords /\ AdminOK(r) /\ r.at = "extendWrite" /\ ~Doing(a, "idle")
      /\ sub \in Document(Purchases) /\ book \in Book
  BY <1>1, Deciding DEF ExtendWrite, Doing, AdminInv, LedgerInv, DataOK
<1>3. UNCHANGED <<now, usage, welcome, lot, task, faults, book, body, audit, log>>
  BY DEF ExtendWrite
<1>5. AuditOK'
  BY <1>3, AuditIsKept
<1>6. CASE r.stamp = stamp
  <2>1. PICK n : n = r.until
    OBVIOUS
  <2>2. n \in Nat
    BY <1>2, <2>1 DEF AdminRecords
  <2>3. sub' = [sub EXCEPT !.end = n]
    BY <1>1, <1>6, <2>1 DEF ExtendWrite
  <2>4. sub' \in Document(Purchases)
    BY <1>2, <2>2, <2>3 DEF Document
  <2>5. PICK p : /\ Writes(a, p)
                 /\ \/ p = [r EXCEPT !.at = "reconcileRead", !.until = 0]
                    \/ p = Over(a, "succeed")
    BY <1>1, <1>6 DEF ExtendWrite
  <2>6. PICK q : q = [p EXCEPT !.stamp = "none", !.current = FALSE, !.moved = 0]
    OBVIOUS
  <2>7. PICK zero \in Nat : zero = 0
    OBVIOUS
  <2>8. ~r.retried /\ r.id \in Ids
    BY <1>2 DEF AdminOK, Correcting
  <2>9. /\ p \in AdminRecords /\ p.at \in {"reconcileRead", "succeed"} /\ p.id \in Ids
        /\ ~p.retried
    <3>1. CASE p = [r EXCEPT !.at = "reconcileRead", !.until = 0]
      BY <1>2, <2>7, <2>8, <3>1 DEF AdminRecords, AdminSteps
    <3>2. CASE p = Over(a, "succeed")
      <4>1. p \in AdminRecords
        BY <1>2, <3>2, ActionIsOver DEF AdminSteps
      <4>2. p.at = "succeed" /\ p.id = r.id /\ ~p.retried
        BY <1>1, <3>2 DEF Over, NoAction
      <4> QED
        BY <2>8, <4>1, <4>2
    <3> QED
      BY <2>5, <3>1, <3>2
  <2>10. /\ q \in AdminRecords /\ q.at \in {"reconcileRead", "succeed"} /\ q.id \in Ids
         /\ ~q.retried
    BY <2>6, <2>9 DEF AdminRecords, Stamps
  <2>11. AdminOK(q)'
    BY <2>10 DEF AdminOK, Exact
  <2>12. Decides(a, q)
    BY <1>3, <2>5, <2>6, <2>10, <2>11 DEF Decides, Writes
  <2> QED
    BY <1>2, <1>3, <1>5, <2>4, <2>12, PlanIsWritten
<1>7. CASE r.stamp # stamp
  <2>1. PICK q : q = Over(a, "fail")
    OBVIOUS
  <2>2. admin' = [admin EXCEPT ![a] = q] /\ sub' = sub
    BY <1>1, <1>7, <2>1 DEF ExtendWrite, Fails
  <2>3. q \in AdminRecords /\ AdminOK(q)'
    BY <1>2, <2>1, ActionIsOver DEF AdminSteps
  <2>4. Decides(a, q)
    BY <1>3, <2>2, <2>3 DEF Decides
  <2> QED
    BY <1>2, <1>3, <1>5, <2>2, <2>4, PlanIsWritten
<1> QED
  BY <1>6, <1>7

LEMMA PlanIsRevoked ==
    ASSUME AdminInv, Stamped', NEW a \in Admins, RevokeWrite(a)
    PROVE  AdminInv'
<1>1. PICK r : r = admin[a]
  OBVIOUS
<1>2. /\ r \in AdminRecords /\ AdminOK(r) /\ r.at = "revokeWrite" /\ ~Doing(a, "idle")
      /\ sub \in Document(Purchases) /\ book \in Book
  BY <1>1, Deciding DEF RevokeWrite, Doing, AdminInv, LedgerInv, DataOK
<1>3. PICK zeroes : zeroes = Asked(a).zeroes
  OBVIOUS
<1>4. PICK revoked : revoked = Revoked(r, zeroes)
  OBVIOUS
<1>5. /\ sub' = revoked /\ Writes(a, Over(a, "succeed"))
      /\ log' = log \/ Leaves(revoked, 0, 0)
      /\ UNCHANGED <<now, usage, welcome, lot, task, faults, book, body, audit>>
  BY <1>1, <1>3, <1>4 DEF RevokeWrite
<1>6. PICK end \in Nat : end = r.began - 1
  BY <1>2 DEF AdminOK, AdminRecords
<1>7. PICK remaining : remaining = IF zeroes THEN 0 ELSE sub.remaining
  OBVIOUS
<1>8. PICK total : total = IF zeroes THEN 0 ELSE sub.total
  OBVIOUS
<1>9. remaining \in Nat /\ total \in Int
  BY <1>2, <1>7, <1>8 DEF Document
<1>10. revoked = [sub EXCEPT !.end = end, !.remaining = remaining, !.total = total]
  BY <1>2, <1>4, <1>6, <1>7, <1>8 DEF Revoked, Document
<1>11. sub' \in Document(Purchases)
  BY <1>2, <1>5, <1>9, <1>10 DEF Document
<1>13. PICK q : q = [Over(a, "succeed") EXCEPT !.stamp = "none", !.current = FALSE, !.moved = 0]
  OBVIOUS
<1>14. PICK over : over = Over(a, "succeed")
  OBVIOUS
<1>15. q \in AdminRecords /\ AdminOK(q)'
  <2>1. over \in AdminRecords
    BY <1>2, <1>14, ActionIsOver DEF AdminSteps
  <2>2. over.at = "succeed" /\ over.id = r.id /\ ~over.retried /\ ~over.alone
    BY <1>1, <1>14 DEF Over, NoAction
  <2>3. /\ q \in AdminRecords /\ q.at = "succeed" /\ q.id = r.id /\ ~q.retried /\ ~q.alone
    BY <1>13, <1>14, <2>1, <2>2 DEF AdminRecords, Stamps
  <2>4. q.id \in Ids
    BY <1>2, <2>3 DEF AdminOK
  <2> QED
    BY <2>3, <2>4 DEF AdminOK
<1>16. Decides(a, q)
  BY <1>5, <1>13, <1>15 DEF Decides, Writes
<1>17. AuditOK'
  BY <1>5, <1>11, AuditIsKept
<1> QED
  BY <1>5, <1>11, <1>16, <1>17, PlanIsWritten

LEMMA BalanceIsCorrected ==
    ASSUME AdminInv, Stamped', NEW a \in Admins, ReconcileWrite(a)
    PROVE  AdminInv'
<1>1. PICK r : r = admin[a]
  OBVIOUS
<1>2. /\ r \in AdminRecords /\ AdminOK(r) /\ r.at = "reconcileWrite" /\ ~Doing(a, "idle")
      /\ sub \in Document(Purchases) /\ book \in Book /\ LedgerInv
  BY <1>1, Deciding DEF ReconcileWrite, Doing, AdminInv, LedgerInv, DataOK
<1>3. UNCHANGED <<now, usage, welcome, lot, task, faults, book, body, audit>>
  BY DEF ReconcileWrite
<1>4. CASE LockHolds(a)
  <2>1. PICK s : s = sub
    OBVIOUS
  <2>2. PICK d : d = Reconciled(r)
    OBVIOUS
  <2>4. /\ sub' = d /\ Leaves(s, r.desired, r.used)
        /\ Writes(a, [r EXCEPT !.at = "verifyRead", !.used = 0])
    BY <1>1, <1>4, <2>1, <2>2 DEF ReconcileWrite
  <2>5. r.desired \in Nat /\ r.used \in Int /\ UsedInPeriod(s) \in Int
    BY <1>2, <2>1, UsageIsCounted DEF AdminRecords
  <2>6. d = [s EXCEPT !.total = r.used + r.desired, !.remaining = r.desired]
    BY <2>1, <2>2 DEF Reconciled
  <2>7. /\ d \in Document(Purchases) /\ d.start = s.start /\ d.end = s.end
        /\ d.total = r.used + r.desired /\ d.remaining = r.desired
    <3>1. PICK total \in Int : total = r.used + r.desired
      BY <2>5
    <3>2. d = [s EXCEPT !.total = total, !.remaining = r.desired]
      BY <2>6, <3>1
    <3>3. s \in Document(Purchases)
      BY <1>2, <2>1
    <3> QED
      BY <2>5, <3>1, <3>2, <3>3 DEF Document
  <2>9. UsedInPeriod(d)' = UsedInPeriod(s)
    BY <1>3, <2>7, UsageStays
  <2>10. UsedInPeriod(sub)' = UsedInPeriod(s)
    BY <2>4, <2>9
  <2>11. PICK q : q = [r EXCEPT !.at = "verifyRead", !.used = 0, !.stamp = "none",
                               !.current = FALSE, !.moved = 0]
    OBVIOUS
  <2>12. /\ q \in AdminRecords /\ q.at = "verifyRead" /\ q.id = r.id /\ q.desired = r.desired
         /\ q.retried = r.retried /\ q.alone = r.alone
    <3>1. PICK none \in Int : none = 0
      OBVIOUS
    <3>2. q = [r EXCEPT !.at = "verifyRead", !.used = none, !.stamp = "none",
                       !.current = FALSE, !.moved = 0]
      BY <2>11, <3>1
    <3> QED
      BY <1>2, <3>2 DEF AdminRecords, AdminSteps, Stamps
  <2>13. r.alone => r.used = UsedInPeriod(s) /\ (r.retried => UsedInPeriod(s) < 0)
    BY <1>2, <2>1 DEF AdminOK, Exact
  <2>14. /\ q.alone => /\ sub'.total = UsedInPeriod(sub)' + q.desired /\ sub'.remaining = q.desired
                       /\ q.retried => UsedInPeriod(sub)' < 0
    BY <2>4, <2>7, <2>10, <2>12, <2>13
  <2>15. AdminOK(q)'
    BY <1>2, <2>12, <2>14 DEF AdminOK, Exact, Correcting
  <2>16. Decides(a, q)
    BY <1>3, <2>4, <2>11, <2>12, <2>15 DEF Decides, Writes
  <2>17. AuditOK'
    BY <1>2, <1>3, <2>1, <2>4, <2>5, AuditIsKept
  <2> QED
    BY <1>3, <2>4, <2>7, <2>16, <2>17, PlanIsWritten
<1>5. CASE ~LockHolds(a)
  <2>1. PICK q : q = Over(a, "fail")
    OBVIOUS
  <2>2. admin' = [admin EXCEPT ![a] = q] /\ UNCHANGED <<sub, log>>
    BY <1>5, <2>1 DEF ReconcileWrite, Fails
  <2>3. q \in AdminRecords /\ AdminOK(q)'
    BY <1>2, <2>1, ActionIsOver DEF AdminSteps
  <2>4. Decides(a, q)
    BY <1>3, <2>2, <2>3 DEF Decides
  <2>5. AuditOK'
    BY <1>3, <2>2, AuditIsKept
  <2> QED
    BY <1>2, <1>3, <2>2, <2>4, <2>5, PlanIsWritten
<1> QED
  BY <1>4, <1>5

(***************************************************************************)
(* Administration: the customer, and the theorems.                         *)
(***************************************************************************)
LEMMA PlanIsSynced ==
    ASSUME NEW t, RequestStep(t)
    PROVE  sub' = sub \/ (task[t].at \in {"poolSync", "refundSync"} /\ faults' = faults)
<1>1. CASE \E cost \in Costs : Charge(t, cost) \/ UserUnread(t, cost)
  BY <1>1 DEF Charge, UserUnread
<1>2. CASE PoolStep(t)
  BY <1>2 DEF PoolStep, ReadPool, PoolUsage, PoolCheck, PoolIncrement, PoolBalance, PoolSync,
     RefundUsage, RefundRead, RefundActive, RefundBalance, RefundSync, At
<1>3. CASE PassStep(t)
  BY <1>3 DEF PassStep, ReadSummary, ReadLots, ReportLots, TakeLot, RollBackLot, RefundLot
<1>4. CASE FreeStep(t)
  BY <1>4 DEF FreeStep, ReadPromo, TakeWelcome, MarkExhausted, ReadUserAgain, ReadQuota, AddQuota,
     StartQuota, RefundWelcome
<1>5. CASE Answered(t) \/ Refund(t) \/ Fault(t)
  BY <1>5 DEF Answered, Refund, Fault
<1> QED
  BY <1>1, <1>2, <1>3, <1>4, <1>5 DEF RequestStep

LEMMA CustomerActs ==
    ASSUME AdminInv, Stamped', LedgerInv', AuditOK', body' = body, NEW writes \in BOOLEAN, NEW cost \in Nat,
           Meanwhile(writes, cost),
           writes \/ sub' = sub
    PROVE  AdminInv'
<1>1. PICK f : f = admin'
  OBVIOUS
<1>2. PICK moved \in BOOLEAN : moved = (writes \/ usage' # usage)
  OBVIOUS
<1>3. f = [a \in Admins |-> IF moved THEN Disturbed(admin[a], writes, cost) ELSE admin[a]]
  BY <1>1, <1>2 DEF Meanwhile
<1>4. ASSUME NEW a \in Admins PROVE \E q \in AdminRecords : q = f[a] /\ AdminOK(q)'
  <2>1. CASE moved
    BY <1>3, <2>1, DisturbedIsOK
  <2>2. CASE ~moved
    <3>1. UNCHANGED <<sub, usage>>
      BY <1>2, <2>2
    <3> QED
      BY <1>3, <2>2, <3>1, UndisturbedIsOK
  <2> QED
    BY <2>1, <2>2
<1>5. admin' = [a \in Admins |-> f[a]]
  BY <1>1, <1>3
<1> QED
  BY <1>4, <1>5, EveryoneIsOK

LEMMA NobodyActs ==
    ASSUME AdminInv, Stamped', LedgerInv', UNCHANGED <<sub, usage, body, audit, admin, log>>
    PROVE  AdminInv'
<1>1. AuditOK'
  BY AuditIsKept
<1>2. PICK f : f = admin
  OBVIOUS
<1>3. admin' = [a \in Admins |-> f[a]]
  BY <1>2 DEF AdminInv
<1>4. \A a \in Admins : \E q \in AdminRecords : q = f[a] /\ AdminOK(q)'
  BY <1>2, UndisturbedIsOK
<1> QED
  BY <1>1, <1>3, <1>4, EveryoneIsOK

LEMMA AdminBegins ==
    AdminInit => AdminInv
<1> SUFFICES ASSUME AdminInit PROVE AdminInv
  OBVIOUS
<1>1. LedgerInv
  BY LedgerBegins DEF AdminInit
<1>2. NoDocument \in Document(Purchases)
  BY DEF NoDocument, Document
<1>3. NoAction \in AdminRecords /\ NoAction.at = "idle" /\ ~NoAction.retried /\ ~NoAction.alone
  BY <1>2 DEF NoAction, AdminRecords, Stamps
<1>4. AdminOK(NoAction)
  BY <1>3 DEF AdminOK
<1>5. admin \in [Admins -> AdminRecords] /\ \A a \in Admins : AdminOK(admin[a])
  BY <1>3, <1>4 DEF AdminInit
<1>6. AuditOK
  BY DEF AdminInit, AuditOK, Results, Log
<1> QED
  BY <1>1, <1>5, <1>6 DEF AdminInv, AdminInit, Stamped

LEMMA AdminActs ==
    ASSUME AdminInv, Stamped', NEW a \in Admins, AdminStep(a)
    PROVE  AdminInv'
<1>1. LedgerInv
  BY DEF AdminInv
<1>2. CASE UNCHANGED vars
  <2>1. LedgerInv'
    BY <1>1, <1>2, NothingHappens
  <2>2. CASE \/ \E i \in Ids : Claim(a, i)
             \/ Close(a)
    BY <2>1, <2>2, AnIdIsClaimed, ActionIsClosed
  <2>3. CASE \/ ReadPlan(a) \/ ReadForBalance(a) \/ ReadBalance(a) \/ UpsertRead(a)
             \/ ReconcileRead(a) \/ ReconcileUsage(a) \/ VerifyRead(a) \/ VerifyUsage(a)
    <3>1. PICK q : Decides(a, q)
      BY <2>3, PlanIsRead, PlanIsReadAgain, BalanceIsRead, UsageIsReadAgain, BalanceIsVerified
    <3>2. AuditOK'
      BY <2>3, AuditIsKept DEF ReadPlan, ReadForBalance, ReadBalance, UpsertRead, ReconcileRead,
         ReconcileUsage, VerifyRead, VerifyUsage
    <3> QED
      BY <2>1, <3>1, <3>2, OneDecides
  <2>4. CASE \/ CutWindow(a) \/ UpsertWrite(a) \/ ExtendWrite(a) \/ RevokeWrite(a)
             \/ ReconcileWrite(a)
    BY <2>4, WindowIsCut, PlanIsGranted, PlanIsExtended, PlanIsRevoked, BalanceIsCorrected
  <2>5. CASE AdminFault(a)
    <3>1. PICK q : Decides(a, q)
      BY <2>5, ActionFails
    <3>2. AuditOK'
      BY <2>5, AuditIsKept DEF AdminFault
    <3> QED
      BY <2>1, <3>1, <3>2, OneDecides
  <2> QED
    BY <2>2, <2>3, <2>4, <2>5 DEF AdminStep
<1>3. CASE \/ CutWindow(a) \/ UpsertWrite(a) \/ ExtendWrite(a) \/ RevokeWrite(a)
           \/ ReconcileWrite(a)
  BY <1>3, WindowIsCut, PlanIsGranted, PlanIsExtended, PlanIsRevoked, BalanceIsCorrected
<1>4. CASE AdminFault(a)
  <2>1. PICK q : Decides(a, q)
    BY <1>4, ActionFails
  <2>2. AuditOK'
    BY <1>4, AuditIsKept DEF AdminFault
  <2>3. DataOK' /\ LedgerKept
    <3>1. faults' \in 0 .. MaxFaults /\ UNCHANGED <<now, sub, usage, welcome, lot, task, book>>
      BY <1>1, <1>4, CreditAssumption DEF AdminFault, LedgerInv, DataOK
    <3>2. faults' # 0
      BY <1>1, <1>4 DEF AdminFault, LedgerInv, DataOK
    <3> QED
      BY <1>1, <3>1, <3>2 DEF LedgerInv, DataOK, LedgerKept
  <2>4. LedgerInv'
    BY <1>1, <2>3, LedgerIsKept
  <2> QED
    BY <2>1, <2>2, <2>4, OneDecides
<1> QED
  BY <1>2, <1>3, <1>4 DEF AdminStep, Claim, ReadPlan, ReadForBalance, ReadBalance, UpsertRead,
     ReconcileRead, ReconcileUsage, VerifyRead, VerifyUsage, Close

LEMMA SpendingIsLogged ==
    ASSUME AdminInv, NEW t \in Tasks, audit' = audit, log' = [log EXCEPT !.spent = @ + Spent(t)]
    PROVE  AuditOK'
<1>1. log \in Log /\ AuditOK /\ task[t].cost \in Nat
  BY DEF AdminInv, AuditOK, LedgerInv, TasksOK, TaskRecords
<1>2. Spent(t) \in Int
  BY <1>1 DEF Spent
<1>3. PICK spent \in Int : spent = log.spent + Spent(t)
  BY <1>1, <1>2 DEF Log
<1>4. log' = [log EXCEPT !.spent = spent]
  BY <1>1, <1>3 DEF Log
<1>5. log' \in Log /\ log'.handled = log.handled
  BY <1>1, <1>4 DEF Log
<1> QED
  BY <1>1, <1>5 DEF AuditOK

(* The document is stamped by whoever writes it.                           *)
LEMMA WritersAreNamed ==
    ASSUME AdminInv, [AdminNext]_adminVars
    PROVE  Stamped'
<1>1. Stamped
  BY DEF AdminInv
<1>2. ASSUME NEW a \in Admins, NEW r, ~Doing(a, "idle"), Writes(a, r) PROVE Stamped'
  BY <1>2, Deciding DEF AdminOK, Doing, Writes, Stamped
<1>3. ASSUME NEW writes, NEW cost, Meanwhile(writes, cost) PROVE Stamped'
  BY <1>1, <1>3 DEF Meanwhile, Stamped
<1>4. ASSUME NEW a \in Admins, AdminStep(a) PROVE Stamped'
  <2>1. CASE CutWindow(a)
    BY <1>1, <1>2, <2>1 DEF CutWindow, Doing, Stamped
  <2>2. CASE UpsertWrite(a)
    BY <1>2, <2>2 DEF UpsertWrite, Doing
  <2>3. CASE ExtendWrite(a)
    BY <1>1, <1>2, <2>3 DEF ExtendWrite, Doing, Stamped
  <2>4. CASE RevokeWrite(a)
    BY <1>2, <2>4 DEF RevokeWrite, Doing
  <2>5. CASE ReconcileWrite(a)
    BY <1>1, <1>2, <2>5 DEF ReconcileWrite, Doing, Stamped
  <2>6. CASE stamp' = stamp
    BY <1>1, <2>6 DEF Stamped
  <2> QED
    BY <1>4, <2>1, <2>2, <2>3, <2>4, <2>5, <2>6 DEF AdminStep, Claim, ReadPlan, ReadForBalance,
       ReadBalance, UpsertRead, ReconcileRead, ReconcileUsage, VerifyRead, VerifyUsage, Close,
       AdminFault
<1>5. CASE Passes \/ UNCHANGED adminVars
  BY <1>1, <1>5 DEF Passes, adminVars, Stamped
<1>6. ASSUME NEW t \in Tasks, ChatStep(t) PROVE Stamped'
  BY <1>3, <1>6 DEF ChatStep
<1>7. ASSUME NEW k \in Purchases, Purchase(k) PROVE Stamped'
  BY <1>3, <1>7 DEF Purchase
<1> QED
  BY <1>4, <1>5, <1>6, <1>7 DEF AdminNext

LEMMA AdminNextStep ==
    AdminInv /\ [AdminNext]_adminVars => AdminInv'
<1> SUFFICES ASSUME AdminInv, [AdminNext]_adminVars PROVE AdminInv'
  OBVIOUS
<1>6. Stamped'
  BY WritersAreNamed
<1>1. LedgerInv
  BY DEF AdminInv
<1>2. CASE Passes
  <2>1. LedgerInv'
    BY <1>1, <1>2, TimePasses DEF Passes
  <2> QED
    BY <1>2, <1>6, <2>1, NobodyActs DEF Passes, Tick
<1>3. ASSUME NEW k \in Purchases, Purchase(k) PROVE AdminInv'
  <2>1. LedgerInv'
    BY <1>1, <1>3, PlanIsBought DEF Purchase
  <2>2. AuditOK'
    <3>1. PICK s : s = sub'
      OBVIOUS
    <3>2. s \in Document(Purchases) /\ s.total \in Int
      BY <2>1, <3>1 DEF LedgerInv, DataOK, Document
    <3>3. Leaves(s, s.total, 0) /\ audit' = audit
      BY <1>3, <3>1 DEF Purchase
    <3> QED
      BY <3>2, <3>3, AuditIsKept
  <2> QED
    BY <1>3, <1>6, <2>1, <2>2, CustomerActs DEF Purchase
<1>4. ASSUME NEW t \in Tasks, ChatStep(t) PROVE AdminInv'
  <2>1. LedgerInv'
    BY <1>1, <1>4, RequestsMove, RequestIsTyped, OneRequestMoves DEF ChatStep
  <2>2. AuditOK' /\ body' = body
    BY <1>4, SpendingIsLogged DEF ChatStep
  <2>3. PICK writes \in BOOLEAN : writes = (task[t].at \in {"poolSync", "refundSync"} /\ faults' = faults)
    OBVIOUS
  <2>4. Meanwhile(writes, task[t].cost) /\ task[t].cost \in Nat
    BY <1>1, <1>4, <2>3 DEF ChatStep, LedgerInv, TasksOK, TaskRecords
  <2>5. writes \/ sub' = sub
    BY <1>4, <2>3, PlanIsSynced DEF ChatStep
  <2> QED
    BY <1>6, <2>1, <2>2, <2>4, <2>5, CustomerActs
<1>5. CASE UNCHANGED adminVars
  <2>1. LedgerInv'
    BY <1>1, <1>5, NothingHappens DEF adminVars
  <2> QED
    BY <1>5, <1>6, <2>1, NobodyActs DEF adminVars, vars
<1> QED
  BY <1>2, <1>3, <1>4, <1>5, <1>6, AdminActs DEF AdminNext

LEMMA AdminHolds ==
    AdminSpec => []AdminInv
  BY AdminBegins, AdminNextStep, PTL DEF AdminSpec

(* Every variable of the ledger and of the administration has its type.    *)
THEOREM AdministrationTyped == AdminSpec => []AdminTypeOK
<1>1. AdminInv => AdminTypeOK
  BY LedgerIsTyped DEF AdminInv, AuditOK, AdminTypeOK, Stamped
<1> QED
  BY <1>1, AdminHolds, PTL

(* No handler is started twice for one request id.                         *)
THEOREM IdsAreHandledOnce == AdminSpec => []HandledOnce
<1>1. AdminInv => HandledOnce
  BY DEF AdminInv, AuditOK, HandledOnce
<1> QED
  BY <1>1, AdminHolds, PTL

(* An action nobody interferes with leaves the balance it was asked for by *)
(* its first write, unless refunds have left the ledger below zero.        *)
THEOREM FirstWritesAreExact == AdminSpec => []FirstWriteIsExact
<1>1. AdminInv => FirstWriteIsExact
  BY DEF AdminInv, AdminOK, Exact, FirstWriteIsExact
<1> QED
  BY <1>1, AdminHolds, PTL

(* Whatever administrators write, no lot loses or gains a credit, no       *)
(* charge is split, and the welcome pool covers its refunds.               *)
THEOREM LedgerUnderAdministration ==
    AdminSpec => [](LotsConserved /\ ChargedToOneBucket /\ WelcomeNeverOverdrawn)
<1>1. AdminInv => LotsConserved /\ ChargedToOneBucket /\ WelcomeNeverOverdrawn
  BY LotsAreConserved, OneBucketIsCharged, WelcomeIsNotOverdrawn DEF AdminInv
<1> QED
  BY <1>1, AdminHolds, PTL

(***************************************************************************)
(* Administration: what the user is offered.                               *)
(***************************************************************************)
Underway == AdminSteps \ {"read", "succeed", "fail"}

(* An action that is under way began at some time, and only a grant may    *)
(* find no plan before it has written one.                                 *)
Rooted(r) ==
    r.at \in Underway =>
        /\ r.began > 0
        /\ sub.exists \/ (body[r.id].kind = "grant" /\ r.at \notin Correcting)

(* The plan runs from a time that has come, and what its ceiling leaves    *)
(* over all that its days were charged with is covered by what was meant   *)
(* to be left and by what was spent since.                                 *)
Funded ==
    ~log.adrift => /\ sub.start <= now
                   /\ sub.total + log.spent <= log.left + UsedSince(sub)

GrantInv ==
    /\ UsageInv
    /\ sub.exists => sub.start > 0
    /\ \A a \in Admins : Rooted(admin[a])
    /\ Funded

(* What a correction would leave if it were made now, and what it will     *)
(* leave once it has read the usage of the plan.                           *)
Fair(r) == PoolRemaining(sub) + body[r.id].credits
Outcome(r) ==
    AtLeastZero(r.used + r.desired - Larger(UsedInPeriod(sub), AtLeastZero(r.used)))

(* As long as nothing has written the plan, a correction is off by no more *)
(* than what requests have charged or given back since it began.           *)
Relative(r) ==
    /\ r.at \in {"verifyRead", "verifyUsage"} => ~r.current
    /\ r.current /\ body[r.id].kind = "delta" =>
          /\ r.at \in {"balanceUsage", "reconcileUsage"} => r.plan = sub
          /\ r.at \in {"reconcileRead", "reconcileUsage", "reconcileWrite"} =>
                r.desired <= AtLeastZero(Fair(r) + r.moved)
          /\ r.at \in {"reconcileRead", "reconcileUsage"} => Fair(r) - r.moved <= r.desired
          /\ r.at = "reconcileWrite" =>
                Fair(r) - r.moved - AtLeastZero(-r.used) <= Outcome(r)

DeltaInv == \A a \in Admins : Relative(admin[a])

(***************************************************************************)
(* How what the days are charged with changes.                             *)
(***************************************************************************)
LEMMA DaysAreCounted ==
    ASSUME LedgerInv, LedgerInv', NEW D \in SUBSET Dates, NEW d \in Dates,
           \A e \in Dates \ {d} : usage'[e] = usage[e]
    PROVE  /\ SumOver(UsedOn, D) \in Int /\ SumOver(UsedOn', D) \in Int
           /\ d \in D =>
                SumOver(UsedOn', D) = SumOver(UsedOn, D) + usage'[d].used - usage[d].used
           /\ d \notin D => SumOver(UsedOn', D) = SumOver(UsedOn, D)
<1>1. PICK f : f = UsedOn
  OBVIOUS
<1>2. PICK g : g = UsedOn'
  OBVIOUS
<1>3. \A e \in Dates : /\ f[e] = usage[e].used /\ g[e] = usage'[e].used
                       /\ f[e] \in Int /\ g[e] \in Int
  BY <1>1, <1>2 DEF UsedOn, LedgerInv, DataOK, UsageDocument
<1>4. IsFiniteSet(D) /\ IntegersOn(f, D) /\ IntegersOn(g, D)
  BY <1>3, DatesAreFinite, FS_Subset DEF IntegersOn
<1>5. SumOver(f, D) \in Int /\ SumOver(g, D) \in Int
  BY <1>4, SumIsInteger
<1>6. CASE d \in D
  <2>1. \A e \in D \ {d} : g[e] = f[e]
    BY <1>3
  <2>2. SumOver(g, D) = SumOver(f, D) + g[d] - f[d]
    BY <1>4, <1>6, <2>1, SumChanges
  <2> QED
    BY <1>1, <1>2, <1>3, <1>5, <1>6, <2>2
<1>7. CASE d \notin D
  <2>1. \A e \in D : g[e] = f[e]
    BY <1>3, <1>7
  <2>2. SumOver(g, D) = SumOver(f, D)
    BY <1>4, <2>1, SumSame
  <2> QED
    BY <1>1, <1>2, <1>5, <1>7, <2>2
<1> QED
  BY <1>6, <1>7

LEMMA UsageSinceChanges ==
    ASSUME LedgerInv, LedgerInv', NEW doc, NEW d \in Dates,
           \A e \in Dates \ {d} : usage'[e] = usage[e]
    PROVE  /\ UsedSince(doc) \in Int /\ UsedSince(doc)' \in Int
           /\ Date(doc.start) <= d =>
                UsedSince(doc)' = UsedSince(doc) + usage'[d].used - usage[d].used
           /\ ~(Date(doc.start) <= d) => UsedSince(doc)' = UsedSince(doc)
<1>1. PICK D \in SUBSET Dates : D = {e \in Dates : Date(doc.start) <= e}
  OBVIOUS
<1>2. UsedSince(doc) = SumOver(UsedOn, D) /\ UsedSince(doc)' = SumOver(UsedOn', D)
  BY <1>1 DEF UsedSince
<1>3. d \in D <=> Date(doc.start) <= d
  BY <1>1
<1> QED
  BY <1>2, <1>3, DaysAreCounted

LEMMA UsageInPeriodChanges ==
    ASSUME LedgerInv, LedgerInv', NEW doc, NEW d \in Dates,
           \A e \in Dates \ {d} : usage'[e] = usage[e]
    PROVE  \/ UsedInPeriod(doc)' = UsedInPeriod(doc)
           \/ UsedInPeriod(doc)' = UsedInPeriod(doc) + usage'[d].used - usage[d].used
<1>1. CASE doc.start = 0 \/ doc.end = 0 \/ doc.end < doc.start
  BY <1>1 DEF UsedInPeriod
<1>2. CASE ~(doc.start = 0 \/ doc.end = 0 \/ doc.end < doc.start)
  <2>1. PICK D \in SUBSET Dates : D = {e \in Dates : Date(doc.start) <= e /\ e <= Date(doc.end)}
    OBVIOUS
  <2>2. UsedInPeriod(doc) = SumOver(UsedOn, D) /\ UsedInPeriod(doc)' = SumOver(UsedOn', D)
    BY <1>2, <2>1 DEF UsedInPeriod
  <2> QED
    BY <2>2, DaysAreCounted
<1> QED
  BY <1>1, <1>2

LEMMA UsageSinceStays ==
    ASSUME NEW d, NEW e, usage' = usage, e.start = d.start
    PROVE  UsedSince(e)' = UsedSince(d)
<1>1. UsedOn' = UsedOn
  BY DEF UsedOn
<1>2. PICK D : D = {n \in Dates : Date(d.start) <= n}
  OBVIOUS
<1>3. {n \in Dates : Date(e.start) <= n} = D
  BY <1>2
<1> QED
  BY <1>1, <1>2, <1>3 DEF UsedSince

(* No day after the present one is charged with anything, so that a plan   *)
(* that runs has used what its days are charged with since it started.     *)
LEMMA RunningPlanUsesItsDays ==
    ASSUME LedgerInv, UsageInv, 0 < sub.start, sub.start <= now, ActiveAt(sub, now)
    PROVE  UsedInPeriod(sub) = UsedSince(sub)
<1>1. PICK start \in Nat, end \in Nat, time \in Nat :
          /\ start = sub.start /\ end = sub.end /\ time = now
          /\ 0 < start /\ start <= time /\ time < end
  BY DEF LedgerInv, DataOK, Document, ActiveAt
<1>2. PICK S \in SUBSET Dates : S = {d \in Dates : Date(sub.start) <= d}
  OBVIOUS
<1>3. PICK W \in SUBSET S : W = {d \in Dates : Date(sub.start) <= d /\ d <= Date(sub.end)}
  BY <1>2
<1>4. PICK f : f = UsedOn
  OBVIOUS
<1>5. \A d \in Dates : f[d] = usage[d].used /\ f[d] \in Int
  BY <1>4 DEF UsedOn, LedgerInv, DataOK, UsageDocument
<1>6. IsFiniteSet(S) /\ IntegersOn(f, S)
  BY <1>5, DatesAreFinite, FS_Subset DEF IntegersOn
<1>7. ASSUME NEW d \in S \ W
      PROVE  f[d] = 0
  <2>1. d \in Nat /\ ~(d <= Date(sub.end))
    BY <1>2, <1>3, <1>7 DEF Dates
  <2>2. Date(end) \in Nat /\ Date(time) \in Nat /\ Date(time) <= Date(end)
    BY <1>1, DatesAreOrdered
  <2>3. Today = Date(time) /\ Date(sub.end) = Date(end)
    BY <1>1 DEF Today
  <2>4. d > Today
    BY <2>1, <2>2, <2>3
  <2>5. d \in Dates /\ DayOK(d)
    BY <1>2, <1>7 DEF UsageInv
  <2> QED
    BY <1>5, <2>4, <2>5 DEF DayOK
<1>8. SumOver(f, S) = SumOver(f, W)
  BY <1>6, <1>7, SumWithoutZeros
<1>9. ~(sub.start = 0 \/ sub.end = 0 \/ sub.end < sub.start)
  BY <1>1
<1> QED
  BY <1>2, <1>3, <1>4, <1>8, <1>9 DEF UsedInPeriod, UsedSince

(* What a step of a request adds to the days, and what of it is noted.     *)
Adds(t, d, n) ==
    /\ \A e \in Dates \ {d} : usage'[e] = usage[e]
    /\ usage'[d].used = usage[d].used + n
    /\ -task[t].cost <= n /\ n <= task[t].cost
    /\ (Spent(t) = n /\ d = Today) \/ (Spent(t) = 0 /\ n >= 0)

LEMMA SpendingIsCounted ==
    ASSUME LedgerInv, LedgerInv', NEW t \in Tasks, NEW q, Acts(t, q)
    PROVE  \E d \in Dates, n \in Int : Adds(t, d, n)
<1>1. PICK cost \in Nat : cost = task[t].cost
  BY Acting DEF TaskRecords
<1>2. /\ Today \in Dates
      /\ usage \in [Dates -> UsageDocument] /\ usage' \in [Dates -> UsageDocument]
      /\ \A d \in Dates : usage[d].used \in Int
  BY TodayIsADate DEF LedgerInv, DataOK, UsageDocument
<1>3. CASE usage' = usage
  <2>1. Spent(t) = 0
    BY <1>3 DEF Spent
  <2>2. Adds(t, Today, 0)
    BY <1>1, <1>2, <1>3, <2>1 DEF Adds
  <2> QED
    BY <1>2, <2>2
<1>4. ASSUME usage' # usage, NEW d \in Dates, Charges(t, q, d)
      PROVE  Adds(t, d, cost)
  <2>1. /\ \A e \in Dates \ {d} : usage'[e] = usage[e]
        /\ usage'[d].used = usage[d].used + cost
    BY <1>1, <1>4 DEF Charges
  <2>2. CASE task[t].at = "poolIncrement"
    <3>1. d = Today
      BY <1>4, <2>2 DEF Charges
    <3>2. Spent(t) = cost
      BY <1>1, <1>4, <2>2 DEF Spent, At
    <3> QED
      BY <1>1, <2>1, <3>1, <3>2 DEF Adds
  <2>3. CASE task[t].at \in {"dailyAdd", "dailyNew"}
    <3>1. Spent(t) = 0
      BY <2>3 DEF Spent, At
    <3> QED
      BY <1>1, <2>1, <3>1 DEF Adds
  <2> QED
    BY <1>4, <2>2, <2>3 DEF Charges
<1>5. ASSUME usage' # usage, Refunds(t, q)
      PROVE  Adds(t, Today, -cost)
  <2>1. /\ task[t].at = "refundUsage"
        /\ \A e \in Dates \ {Today} : usage'[e] = usage[e]
        /\ usage'[Today].there = usage[Today].there
        /\ usage'[Today].used = usage[Today].used - IF usage[Today].there THEN cost ELSE 0
    BY <1>1, <1>5 DEF Refunds
  <2>2. CASE usage[Today].there
    <3>1. Spent(t) = -cost
      BY <1>1, <1>5, <2>1 DEF Spent, At
    <3>2. usage'[Today].used = usage[Today].used + (-cost)
      BY <1>2, <2>1, <2>2
    <3> QED
      BY <1>1, <2>1, <3>1, <3>2 DEF Adds
  <2>3. CASE ~usage[Today].there
    <3>1. usage'[Today].used = usage[Today].used
      BY <1>2, <2>1, <2>3
    <3>2. usage'[Today] = usage[Today]
      BY <1>2, <2>1, <3>1 DEF UsageDocument
    <3>3. \A e \in Dates : usage'[e] = usage[e]
      BY <2>1, <3>2
    <3>4. usage' = usage
      BY <1>2, <3>3
    <3> QED
      BY <1>5, <3>4
  <2> QED
    BY <2>2, <2>3
<1>6. -cost \in Int /\ cost \in Int
  BY <1>1
<1>7. usage' = usage \/ (\E d \in Dates : Charges(t, q, d)) \/ Refunds(t, q)
  BY DEF Acts, Waits
<1> QED
  BY <1>2, <1>3, <1>4, <1>5, <1>6, <1>7

(***************************************************************************)
(* What a step of an action does to its request.                           *)
(***************************************************************************)
(* It reads and keeps what it has learnt, without writing anything;        *)
Reads(a, r, q) ==
    /\ r.at \in Underway /\ q.id = r.id /\ q.began = r.began
    /\ q.current = r.current /\ q.moved = r.moved
    /\ UNCHANGED <<sub, log>>
    /\ \/ r.at = "balanceRead" /\ q.at = "balanceUsage" /\ q.plan = sub
       \/ /\ r.at = "balanceUsage" /\ q.at = AfterBalance(Asked(a).kind)
          /\ q.desired = Desired(Asked(a), PoolRemaining(r.plan))
       \/ r.at = "upsertRead" /\ q.at = "upsertWrite" /\ q.plan = sub
       \/ r.at = "reconcileRead" /\ q.at = "reconcileUsage" /\ q.plan = sub /\ q.desired = r.desired
       \/ /\ r.at = "reconcileUsage" /\ q.at = "reconcileWrite"
          /\ q.used = UsedInPeriod(r.plan) /\ q.desired = r.desired
       \/ r.at = "verifyRead" /\ q.at = "verifyUsage"
       \/ r.at = "verifyUsage" /\ q.at = "reconcileRead"

(* it begins, and finds a plan unless it is a grant;                       *)
Starts(a, r, q) ==
    /\ r.at = "read" /\ q.at \in {"cut", "balanceRead", "revokeWrite"}
    /\ q.id = r.id /\ q.began = now
    /\ sub.exists \/ Asked(a).kind = "grant"
    /\ UNCHANGED <<sub, log>>

(* it closes the window, if there is one;                                  *)
Cuts(r, q) ==
    /\ r.at = "cut" /\ q.at = "upsertRead" /\ q.id = r.id /\ q.began = r.began
    /\ sub' = IF sub.exists THEN [sub EXCEPT !.end = r.began - 1] ELSE sub
    /\ log' = log

(* it writes the plan it grants;                                           *)
Grants(r, q) ==
    /\ r.at = "upsertWrite" /\ q.at = "reconcileRead"
    /\ q.id = r.id /\ q.began = r.began /\ ~q.current
    /\ sub' = Granted(r.plan, r.began)
    /\ Leaves(Granted(r.plan, r.began), GrantQuote.credits, 0)

(* it writes another end;                                                  *)
Extends(a, r, q) ==
    /\ r.at = "extendWrite"
    /\ \/ q.at \notin Underway
       \/ q.at = "reconcileRead" /\ q.id = r.id /\ q.began = r.began /\ ~q.current
    /\ sub' = [sub EXCEPT !.end = r.until]
    /\ log' = log

(* it revokes the plan;                                                    *)
Revokes(a, r, q) ==
    /\ r.at = "revokeWrite" /\ q.at \notin Underway
    /\ sub' = Revoked(r, Asked(a).zeroes)
    /\ IF Asked(a).zeroes THEN Leaves(Revoked(r, TRUE), 0, 0) ELSE log' = log

(* it writes a balance, under the lock at first;                           *)
Corrected(a, r, q) ==
    /\ r.at = "reconcileWrite" /\ q.at = "verifyRead"
    /\ q.id = r.id /\ q.began = r.began /\ ~q.current
    /\ LockHolds(a)
    /\ sub' = Reconciled(r)
    /\ Leaves(sub, r.desired, r.used)

(* or it has not begun, or it is over.                                     *)
Rests(q) == q.at \notin Underway /\ sub' = sub /\ log'.left = log.left
            /\ log'.spent = log.spent /\ log'.adrift = log.adrift

Proceeds(a, q) ==
    /\ UNCHANGED <<now, usage, task, book, body>>
    /\ \/ Rests(q) \/ Reads(a, admin[a], q) \/ Starts(a, admin[a], q) \/ Cuts(admin[a], q)
       \/ Grants(admin[a], q) \/ Extends(a, admin[a], q) \/ Revokes(a, admin[a], q)
       \/ Corrected(a, admin[a], q)

(* The others go on, or have to take the plan for changed.                 *)
OthersGoOn(a) ==
    \A b \in Admins \ {a} : \/ admin'[b] = admin[b] /\ sub' = sub
                            \/ admin'[b] = Disturbed(admin[b], TRUE, 0)

LEMMA RestingIs ==
    ASSUME NEW a, NEW how \in {"succeed", "fail"}
    PROVE  /\ Over(a, how).at \notin Underway
           /\ NoAction.at \notin Underway
  BY DEF Over, NoAction, Underway, AdminSteps

LEMMA OthersAreLeft ==
    ASSUME AdminInv, NEW a \in Admins, AdminStep(a)
    PROVE  OthersGoOn(a)
<1>1. admin \in [Admins -> AdminRecords]
  BY DEF AdminInv
<1>2. ASSUME NEW q, Writes(a, q) PROVE OthersGoOn(a)
  BY <1>2 DEF Writes, OthersGoOn
<1>3. ASSUME NEW q, admin' = [admin EXCEPT ![a] = q], sub' = sub PROVE OthersGoOn(a)
  BY <1>1, <1>3 DEF OthersGoOn
<1>4. CASE \E i \in Ids : Claim(a, i)
  <2>1. admin' = admin \/ \E q : admin' = [admin EXCEPT ![a] = q]
    BY <1>4 DEF Claim
  <2> QED
    BY <1>1, <1>3, <1>4, <2>1 DEF Claim, vars, OthersGoOn
<1>5. CASE ReadPlan(a) \/ ReadForBalance(a) \/ ReadBalance(a) \/ UpsertRead(a)
  <2>1. (\E q : admin' = [admin EXCEPT ![a] = q]) /\ sub' = sub
    BY <1>5 DEF ReadPlan, ReadForBalance, ReadBalance, UpsertRead, Fails, vars
  <2> QED
    BY <1>3, <2>1
<1>6. CASE ReconcileRead(a) \/ ReconcileUsage(a) \/ VerifyRead(a) \/ VerifyUsage(a) \/ Close(a)
  <2>1. (\E q : admin' = [admin EXCEPT ![a] = q]) /\ sub' = sub
    BY <1>6 DEF ReconcileRead, ReconcileUsage, VerifyRead, VerifyUsage, Close, vars
  <2> QED
    BY <1>3, <2>1
<1>7. CASE AdminFault(a)
  <2>1. (\E q : admin' = [admin EXCEPT ![a] = q]) /\ sub' = sub
    BY <1>7 DEF AdminFault, HandlerRaises, Abandoned, Fails
  <2> QED
    BY <1>3, <2>1
<1>8. CASE CutWindow(a)
  BY <1>2, <1>3, <1>8 DEF CutWindow
<1>9. CASE UpsertWrite(a) \/ RevokeWrite(a)
  BY <1>2, <1>9 DEF UpsertWrite, RevokeWrite
<1>10. CASE ExtendWrite(a)
  BY <1>2, <1>3, <1>10 DEF ExtendWrite, Fails
<1>11. CASE ReconcileWrite(a)
  BY <1>2, <1>3, <1>11 DEF ReconcileWrite, Fails
<1> QED
  BY <1>4, <1>5, <1>6, <1>7, <1>8, <1>9, <1>10, <1>11 DEF AdminStep

LEMMA RequestRests ==
    ASSUME AdminInv, NEW a \in Admins,
           \/ \E i \in Ids : Claim(a, i)
           \/ Close(a) \/ AdminFault(a)
           \/ ReadPlan(a) /\ Refused(Asked(a))
    PROVE  Proceeds(a, admin'[a])
<1>1. admin \in [Admins -> AdminRecords] /\ log \in Log
  BY DEF AdminInv, AuditOK
<1>2. UNCHANGED <<now, sub, usage, task, book, body>>
  BY DEF Claim, Close, AdminFault, ReadPlan, vars
<1>3. log'.left = log.left /\ log'.spent = log.spent /\ log'.adrift = log.adrift
  <2>1. ASSUME NEW i \in Ids, Claim(a, i)
        PROVE  log'.left = log.left /\ log'.spent = log.spent /\ log'.adrift = log.adrift
    <3>1. log' = log \/ \E h : log' = [log EXCEPT !.handled = h]
      BY <2>1 DEF Claim
    <3> QED
      BY <1>1, <3>1 DEF Log
  <2> QED
    BY <2>1 DEF Close, AdminFault, ReadPlan
<1>4. admin'[a].at \notin Underway
  <2>1. CASE \E i \in Ids : Claim(a, i)
    <3>1. PICK i \in Ids : Claim(a, i)
      BY <2>1
    <3>2. CASE Unused(i)
      <4>1. admin'[a] = [NoAction EXCEPT !.at = "read", !.id = i]
        BY <1>1, <3>1, <3>2 DEF Claim
      <4> QED
        BY <4>1 DEF NoAction, Underway
    <3>3. CASE ~Unused(i)
      BY <3>1, <3>3 DEF Claim, Doing, Underway, AdminSteps
    <3> QED
      BY <3>2, <3>3
  <2>2. CASE Close(a) \/ AdminFault(a) \/ (ReadPlan(a) /\ Refused(Asked(a)))
    <3>1. admin'[a] = NoAction \/ admin'[a] = Over(a, "fail")
      BY <1>1, <2>2 DEF Close, AdminFault, HandlerRaises, Abandoned, ReadPlan, Fails
    <3> QED
      BY <3>1, RestingIs
  <2> QED
    BY <2>1, <2>2
<1> QED
  BY <1>2, <1>3, <1>4 DEF Proceeds, Rests

LEMMA RequestStarts ==
    ASSUME AdminInv, NEW a \in Admins, ReadPlan(a), ~Refused(Asked(a))
    PROVE  Proceeds(a, admin'[a])
<1>1. PICK r : r = admin[a]
  OBVIOUS
<1>2. r \in AdminRecords /\ r.at = "read" /\ now \in Nat /\ ~Doing(a, "idle")
  BY <1>1, Deciding DEF ReadPlan, Doing, AdminInv, LedgerInv, DataOK
<1>3. PICK next : next = Begins(Asked(a))
  OBVIOUS
<1>4. /\ next \in {"cut", "balanceRead", "revokeWrite"}
      /\ sub.exists \/ Asked(a).kind = "grant"
  BY <1>3 DEF Begins, Refused
<1>5. PICK locks \in BOOLEAN : locks = Locks(Asked(a).kind)
  <2>1. Locks(Asked(a).kind) \in BOOLEAN
    BY DEF Locks
  <2> QED
    BY <2>1
<1>9. PICK s \in Stamps, u \in Nat : s = Read(Asked(a)) /\ u = ExtendedEnd(Asked(a))
  BY <1>2, PlanIsNoted
<1>6. PICK q : q = [r EXCEPT !.at = next, !.began = now, !.stamp = s, !.until = u,
                             !.current = locks, !.alone = TRUE]
  OBVIOUS
<1>7. admin'[a] = q
  BY <1>1, <1>3, <1>5, <1>6, <1>9 DEF ReadPlan, AdminInv
<1>8. q.at = next /\ q.id = r.id /\ q.began = now
  BY <1>2, <1>6 DEF AdminRecords
<1> QED
  BY <1>1, <1>2, <1>4, <1>7, <1>8 DEF Proceeds, Starts, ReadPlan, vars

LEMMA RequestReads ==
    ASSUME AdminInv, NEW a \in Admins,
           \/ ReadForBalance(a) \/ ReadBalance(a) \/ UpsertRead(a) \/ ReconcileRead(a)
           \/ ReconcileUsage(a) \/ VerifyRead(a)
    PROVE  Proceeds(a, admin'[a])
<1>1. PICK r : r = admin[a]
  OBVIOUS
<1>2. r \in AdminRecords
  BY <1>1, Deciding
<1>3. admin \in [Admins -> AdminRecords]
  BY DEF AdminInv
<1>4. UNCHANGED <<now, sub, usage, task, book, body, log>>
  BY DEF ReadForBalance, ReadBalance, UpsertRead, ReconcileRead, ReconcileUsage, VerifyRead, vars
<1>5. SUFFICES Reads(a, r, admin'[a])
  BY <1>1, <1>4 DEF Proceeds
<1>6. CASE ReadForBalance(a) \/ UpsertRead(a) \/ ReconcileRead(a) \/ VerifyRead(a)
  <2>1. PICK at : /\ admin'[a] = [r EXCEPT !.at = at, !.plan = sub]
                  /\ \/ r.at = "balanceRead" /\ at = "balanceUsage"
                     \/ r.at = "upsertRead" /\ at = "upsertWrite"
                     \/ r.at = "reconcileRead" /\ at = "reconcileUsage"
                     \/ r.at = "verifyRead" /\ at = "verifyUsage"
    BY <1>1, <1>3, <1>6 DEF ReadForBalance, UpsertRead, ReconcileRead, VerifyRead, Doing
  <2>2. PICK q : q = admin'[a]
    OBVIOUS
  <2>3. /\ q.at = at /\ q.plan = sub /\ q.id = r.id /\ q.began = r.began
        /\ q.current = r.current /\ q.moved = r.moved /\ q.desired = r.desired
    BY <1>2, <2>1, <2>2 DEF AdminRecords
  <2> QED
    BY <1>4, <2>1, <2>2, <2>3 DEF Reads, Underway, AdminSteps
<1>7. CASE ReadBalance(a)
  <2>1. PICK at : at = AfterBalance(Asked(a).kind)
    OBVIOUS
  <2>2. PICK desired : desired = Desired(Asked(a), PoolRemaining(r.plan))
    OBVIOUS
  <2>3. PICK plan : plan = NoDocument
    OBVIOUS
  <2>4. PICK q : q = [r EXCEPT !.at = at, !.desired = desired, !.plan = plan]
    OBVIOUS
  <2>5. admin'[a] = q /\ r.at = "balanceUsage"
    BY <1>1, <1>3, <1>7, <2>1, <2>2, <2>3, <2>4 DEF ReadBalance, Doing
  <2>6. /\ q.at = at /\ q.id = r.id /\ q.began = r.began
        /\ q.current = r.current /\ q.moved = r.moved /\ q.desired = desired
    BY <1>2, <2>4 DEF AdminRecords
  <2> QED
    BY <1>4, <2>1, <2>2, <2>5, <2>6 DEF Reads, Underway, AdminSteps
<1>8. CASE ReconcileUsage(a)
  <2>1. PICK used : used = UsedInPeriod(r.plan)
    OBVIOUS
  <2>2. PICK q : q = [r EXCEPT !.at = "reconcileWrite", !.used = used, !.plan = NoDocument]
    OBVIOUS
  <2>3. admin'[a] = q /\ r.at = "reconcileUsage"
    BY <1>1, <1>3, <1>8, <2>1, <2>2 DEF ReconcileUsage, Doing
  <2>4. /\ q.at = "reconcileWrite" /\ q.id = r.id /\ q.began = r.began
        /\ q.current = r.current /\ q.moved = r.moved /\ q.desired = r.desired /\ q.used = used
    BY <1>2, <2>2 DEF AdminRecords
  <2> QED
    BY <1>4, <2>1, <2>3, <2>4 DEF Reads, Underway, AdminSteps
<1> QED
  BY <1>6, <1>7, <1>8

LEMMA RequestVerifies ==
    ASSUME AdminInv, NEW a \in Admins, VerifyUsage(a)
    PROVE  Proceeds(a, admin'[a])
<1>1. PICK r : r = admin[a]
  OBVIOUS
<1>2. r \in AdminRecords /\ r.at = "verifyUsage" /\ log \in Log
  BY <1>1, Deciding DEF VerifyUsage, Doing, AdminInv, AuditOK
<1>3. UNCHANGED <<now, sub, usage, task, book, body, log>>
  BY DEF VerifyUsage, vars
<1>4. PICK q : q = [r EXCEPT !.at = "reconcileRead", !.plan = NoDocument, !.retried = TRUE]
  OBVIOUS
<1>5. \/ admin'[a] = Over(a, "succeed") \/ admin'[a] = Over(a, "fail")
      \/ admin'[a] = q
  BY <1>1, <1>4 DEF VerifyUsage, AdminInv
<1>6. CASE admin'[a] = q
  <2>1. /\ q.at = "reconcileRead" /\ q.id = r.id /\ q.began = r.began
        /\ q.current = r.current /\ q.moved = r.moved
    BY <1>2, <1>4 DEF AdminRecords
  <2> QED
    BY <1>1, <1>2, <1>3, <1>6, <2>1 DEF Proceeds, Reads, Underway, AdminSteps
<1>7. CASE admin'[a] # q
  BY <1>3, <1>5, <1>7, RestingIs DEF Proceeds, Rests
<1> QED
  BY <1>6, <1>7

LEMMA RequestWrites ==
    ASSUME AdminInv, NEW a \in Admins, NEW r \in AdminRecords, Writes(a, r)
    PROVE  /\ admin'[a].at = r.at /\ admin'[a].id = r.id /\ admin'[a].began = r.began
           /\ ~admin'[a].current
<1>1. PICK q : q = [r EXCEPT !.stamp = "none", !.current = FALSE, !.moved = 0]
  OBVIOUS
<1>2. q.at = r.at /\ q.id = r.id /\ q.began = r.began /\ ~q.current
  BY <1>1 DEF AdminRecords
<1> QED
  BY <1>1, <1>2 DEF Writes

LEMMA RequestCuts ==
    ASSUME AdminInv, NEW a \in Admins, CutWindow(a)
    PROVE  Proceeds(a, admin'[a])
<1>1. PICK r : r = admin[a]
  OBVIOUS
<1>2. r \in AdminRecords /\ r.at = "cut" /\ GrantQuote.credits \in Nat
  BY <1>1, Deciding, AdministrationAssumption DEF CutWindow, Doing, Quote
<1>3. PICK n \in AdminRecords : n = [r EXCEPT !.at = "upsertRead", !.desired = GrantQuote.credits]
  BY <1>2 DEF AdminRecords, AdminSteps
<1>4. n.at = "upsertRead" /\ n.id = r.id /\ n.began = r.began
  BY <1>2, <1>3 DEF AdminRecords
<1>5. UNCHANGED <<now, usage, task, book, body, log>>
  BY DEF CutWindow
<1>6. CASE sub.exists
  <2>1. Writes(a, n) /\ sub' = [sub EXCEPT !.end = r.began - 1]
    BY <1>1, <1>3, <1>6 DEF CutWindow
  <2>2. Cuts(r, admin'[a])
    BY <1>2, <1>4, <1>5, <1>6, <2>1, RequestWrites DEF Cuts
  <2> QED
    BY <1>1, <1>5, <2>2 DEF Proceeds
<1>7. CASE ~sub.exists
  <2>1. admin'[a] = n /\ sub' = sub
    BY <1>1, <1>3, <1>7 DEF CutWindow, AdminInv
  <2>2. Cuts(r, admin'[a])
    BY <1>2, <1>4, <1>5, <1>7, <2>1 DEF Cuts
  <2> QED
    BY <1>1, <1>5, <2>2 DEF Proceeds
<1> QED
  BY <1>6, <1>7

LEMMA RequestGrants ==
    ASSUME AdminInv, NEW a \in Admins, UpsertWrite(a)
    PROVE  Proceeds(a, admin'[a])
<1>1. PICK r : r = admin[a]
  OBVIOUS
<1>2. r \in AdminRecords /\ r.at = "upsertWrite" /\ NoDocument \in Document(Purchases)
  BY <1>1, Deciding DEF UpsertWrite, Doing, NoDocument, Document
<1>3. PICK n \in AdminRecords : n = [r EXCEPT !.at = "reconcileRead", !.plan = NoDocument]
  BY <1>2 DEF AdminRecords, AdminSteps
<1>4. n.at = "reconcileRead" /\ n.id = r.id /\ n.began = r.began
  BY <1>2, <1>3 DEF AdminRecords
<1>5. /\ UNCHANGED <<now, usage, task, book, body>>
      /\ Writes(a, n)
      /\ sub' = Granted(r.plan, r.began)
      /\ Leaves(Granted(r.plan, r.began), GrantQuote.credits, 0)
  BY <1>1, <1>3 DEF UpsertWrite
<1>6. Grants(r, admin'[a])
  BY <1>2, <1>4, <1>5, RequestWrites DEF Grants
<1> QED
  BY <1>1, <1>5, <1>6 DEF Proceeds

LEMMA RequestIsOver ==
    ASSUME AdminInv, NEW a \in Admins, ~Doing(a, "idle"), Writes(a, Over(a, "succeed"))
    PROVE  admin'[a].at \notin Underway
<1>1. Over(a, "succeed") \in AdminRecords
  BY ActionIsOver DEF AdminSteps
<1>2. admin'[a].at = Over(a, "succeed").at
  BY <1>1, RequestWrites
<1> QED
  BY <1>2, RestingIs

LEMMA RequestExtends ==
    ASSUME AdminInv, NEW a \in Admins, ExtendWrite(a)
    PROVE  Proceeds(a, admin'[a])
<1>1. PICK r : r = admin[a]
  OBVIOUS
<1>2. /\ r \in AdminRecords /\ r.at = "extendWrite"
      /\ ~Doing(a, "idle") /\ log \in Log
  BY <1>1, Deciding DEF ExtendWrite, Doing, AdminInv, AuditOK
<1>3. UNCHANGED <<now, usage, task, book, body, log>>
  BY DEF ExtendWrite
<1>4. CASE r.stamp = stamp
  <2>1. sub' = [sub EXCEPT !.end = r.until]
    BY <1>1, <1>4 DEF ExtendWrite
  <2>4. PICK zero \in Nat : zero = 0
    OBVIOUS
  <2>2. CASE Asked(a).preserves
    <3>1. PICK n \in AdminRecords : n = [r EXCEPT !.at = "reconcileRead", !.until = zero]
      BY <1>2 DEF AdminRecords, AdminSteps
    <3>2. n.at = "reconcileRead" /\ n.id = r.id /\ n.began = r.began
      BY <1>2, <3>1 DEF AdminRecords
    <3>3. Writes(a, n)
      BY <1>1, <1>4, <2>2, <2>4, <3>1 DEF ExtendWrite
    <3>4. Extends(a, r, admin'[a])
      BY <1>2, <1>3, <2>1, <3>2, <3>3, RequestWrites DEF Extends
    <3> QED
      BY <1>1, <1>3, <3>4 DEF Proceeds
  <2>3. CASE ~Asked(a).preserves
    <3>1. Writes(a, Over(a, "succeed"))
      BY <1>1, <1>4, <2>3 DEF ExtendWrite
    <3>2. Extends(a, r, admin'[a])
      BY <1>2, <1>3, <2>1, <3>1, RequestIsOver DEF Extends
    <3> QED
      BY <1>1, <1>3, <3>2 DEF Proceeds
  <2> QED
    BY <2>2, <2>3
<1>5. CASE r.stamp # stamp
  <2>1. admin'[a] = Over(a, "fail") /\ sub' = sub
    BY <1>1, <1>5 DEF ExtendWrite, Fails, AdminInv
  <2> QED
    BY <1>3, <2>1, RestingIs DEF Proceeds, Rests
<1> QED
  BY <1>4, <1>5

LEMMA RequestRevokes ==
    ASSUME AdminInv, NEW a \in Admins, RevokeWrite(a)
    PROVE  Proceeds(a, admin'[a])
<1>1. PICK r : r = admin[a]
  OBVIOUS
<1>2. r.at = "revokeWrite" /\ ~Doing(a, "idle")
  BY <1>1 DEF RevokeWrite, Doing
<1>3. PICK zeroes : zeroes = Asked(a).zeroes
  OBVIOUS
<1>4. zeroes \in BOOLEAN
  BY <1>1, <1>2, <1>3, Deciding, AskedIsAnAction DEF AdminOK, Asked
<1>5. /\ UNCHANGED <<now, usage, task, book, body>>
      /\ Writes(a, Over(a, "succeed"))
      /\ sub' = Revoked(r, zeroes)
      /\ IF zeroes THEN Leaves(Revoked(r, zeroes), 0, 0) ELSE log' = log
  BY <1>1, <1>3 DEF RevokeWrite
<1>6. IF zeroes THEN Leaves(Revoked(r, TRUE), 0, 0) ELSE log' = log
  <2>1. CASE zeroes
    <3>1. zeroes = TRUE
      BY <1>4, <2>1
    <3> QED
      BY <1>5, <3>1
  <2>2. CASE ~zeroes
    BY <1>5, <2>2
  <2> QED
    BY <2>1, <2>2
<1>7. Revokes(a, r, admin'[a])
  BY <1>2, <1>3, <1>5, <1>6, RequestIsOver DEF Revokes
<1> QED
  BY <1>1, <1>5, <1>7 DEF Proceeds

LEMMA RequestCorrects ==
    ASSUME AdminInv, NEW a \in Admins, ReconcileWrite(a)
    PROVE  Proceeds(a, admin'[a])
<1>1. PICK r : r = admin[a]
  OBVIOUS
<1>2. r \in AdminRecords /\ r.at = "reconcileWrite" /\ 0 \in Int
  BY <1>1, Deciding DEF ReconcileWrite, Doing
<1>3. UNCHANGED <<now, usage, task, book, body>>
  BY DEF ReconcileWrite
<1>4. CASE LockHolds(a)
  <2>1. PICK zero \in Int : zero = 0
    OBVIOUS
  <2>2. PICK n \in AdminRecords : n = [r EXCEPT !.at = "verifyRead", !.used = zero]
    BY <1>2 DEF AdminRecords, AdminSteps
  <2>3. n.at = "verifyRead" /\ n.id = r.id /\ n.began = r.began
    BY <1>2, <2>2 DEF AdminRecords
  <2>4. Writes(a, n) /\ sub' = Reconciled(r) /\ Leaves(sub, r.desired, r.used)
    BY <1>1, <1>4, <2>1, <2>2 DEF ReconcileWrite
  <2>5. Corrected(a, r, admin'[a])
    BY <1>2, <1>4, <2>3, <2>4, RequestWrites DEF Corrected
  <2> QED
    BY <1>1, <1>3, <2>5 DEF Proceeds
<1>5. CASE ~LockHolds(a)
  <2>1. admin'[a] = Over(a, "fail") /\ UNCHANGED <<sub, log>>
    BY <1>1, <1>5 DEF ReconcileWrite, Fails, AdminInv
  <2> QED
    BY <1>3, <2>1, RestingIs DEF Proceeds, Rests
<1> QED
  BY <1>4, <1>5

LEMMA ActionsProceed ==
    ASSUME AdminInv, NEW a \in Admins, AdminStep(a)
    PROVE  Proceeds(a, admin'[a])
<1>1. CASE (\E i \in Ids : Claim(a, i)) \/ Close(a) \/ AdminFault(a)
  BY <1>1, RequestRests
<1>2. CASE ReadPlan(a)
  BY <1>2, RequestRests, RequestStarts
<1>3. CASE \/ ReadForBalance(a) \/ ReadBalance(a) \/ UpsertRead(a) \/ ReconcileRead(a)
           \/ ReconcileUsage(a) \/ VerifyRead(a) \/ VerifyUsage(a)
  BY <1>3, RequestReads, RequestVerifies
<1>4. CASE \/ CutWindow(a) \/ UpsertWrite(a) \/ ExtendWrite(a) \/ RevokeWrite(a)
           \/ ReconcileWrite(a)
  BY <1>4, RequestCuts, RequestGrants, RequestExtends, RequestRevokes, RequestCorrects
<1> QED
  BY <1>1, <1>2, <1>3, <1>4 DEF AdminStep

(***************************************************************************)
(* Nothing is over-granted.                                                *)
(***************************************************************************)
LEMMA DisturbedIs ==
    ASSUME NEW r \in AdminRecords, NEW writes \in BOOLEAN, NEW cost \in Nat,
           NEW q, q = Disturbed(r, writes, cost)
    PROVE  /\ q.at = r.at /\ q.id = r.id /\ q.began = r.began /\ q.plan = r.plan
           /\ q.used = r.used /\ q.desired = r.desired
           /\ q.current = (r.current /\ ~writes)
           /\ q.current => q.moved = r.moved + cost
<1>1. PICK c \in BOOLEAN : c = (r.current /\ ~writes)
  BY DEF AdminRecords
<1>2. PICK moved \in Nat : moved = IF c THEN r.moved + cost ELSE 0
  BY DEF AdminRecords
<1>9. PICK s \in Stamps : s = IF writes /\ r.stamp = "other" THEN "old" ELSE r.stamp
  BY DEF AdminRecords, Stamps
<1>3. q = [r EXCEPT !.stamp = s, !.current = c, !.alone = FALSE, !.moved = moved]
  BY <1>1, <1>2, <1>9 DEF Disturbed, AdminRecords
<1> QED
  BY <1>1, <1>2, <1>3 DEF AdminRecords

LEMMA DisturbedGoesOn ==
    ASSUME NEW r \in AdminRecords, NEW writes \in BOOLEAN, NEW cost \in Nat,
           NEW q, q = Disturbed(r, writes, cost)
    PROVE  /\ q.at = r.at /\ q.id = r.id /\ q.plan = r.plan /\ q.used = r.used /\ q.desired = r.desired
           /\ q.current => r.current
           /\ writes => ~q.current
           /\ q.current => q.moved = r.moved + cost
<1>1. PICK c \in BOOLEAN : c = (r.current /\ ~writes)
  BY DEF AdminRecords
<1>2. PICK moved \in Nat : moved = IF c THEN r.moved + cost ELSE 0
  BY DEF AdminRecords
<1>9. PICK s \in Stamps : s = IF writes /\ r.stamp = "other" THEN "old" ELSE r.stamp
  BY DEF AdminRecords, Stamps
<1>3. q = [r EXCEPT !.stamp = s, !.current = c, !.alone = FALSE, !.moved = moved]
  BY <1>1, <1>2, <1>9 DEF Disturbed, AdminRecords
<1>4. q.current = c /\ q.moved = moved
  BY <1>3 DEF AdminRecords
<1>5. (c => r.current) /\ (writes => ~c)
  BY <1>1
<1>6. /\ q.current => r.current
      /\ writes => ~q.current
      /\ q.current => q.moved = r.moved + cost
  BY <1>2, <1>4, <1>5
<1> QED
  BY <1>3, <1>6 DEF AdminRecords

LEMMA RootedStays ==
    ASSUME NEW r, NEW q, Rooted(r), q.at = r.at, q.id = r.id, q.began = r.began,
           body' = body, sub.exists => sub'.exists
    PROVE  Rooted(q)'
  BY DEF Rooted

LEMMA FundedStays ==
    ASSUME LedgerInv, LedgerInv', Funded, now <= now', usage' = usage,
           sub'.start = sub.start, sub'.total = sub.total,
           log'.left = log.left, log'.spent = log.spent, log'.adrift = log.adrift
    PROVE  Funded'
<1>1. PICK s : s = sub
  OBVIOUS
<1>2. PICK e : e = sub'
  OBVIOUS
<1>3. UsedSince(e)' = UsedSince(s)
  BY <1>1, <1>2, UsageSinceStays
<1>4. UsedSince(sub)' = UsedSince(sub)
  BY <1>1, <1>2, <1>3
<1>5. sub.start <= now => sub'.start <= now'
  BY DEF LedgerInv, DataOK, Document
<1> QED
  BY <1>4, <1>5 DEF Funded

LEMMA LeavesIsFunded ==
    ASSUME LedgerInv, log \in Log, usage' = usage, now' = now,
           NEW doc, NEW left \in Int, NEW n \in Int, doc.start \in Nat, Leaves(doc, left, n),
           sub'.start = doc.start, sub'.total = left + n
    PROVE  Funded'
<1>1. PICK spent \in Int : spent = UsedSince(doc) - n
  BY UsageSinceIsCounted
<1>2. PICK later \in BOOLEAN : later = (doc.start > now)
  <2>1. (doc.start > now) \in BOOLEAN
    OBVIOUS
  <2> QED
    BY <2>1
<1>3. PICK l \in Log : l = [log EXCEPT !.adrift = later]
  BY DEF Log
<1>4. log' = [l EXCEPT !.left = left, !.spent = spent]
  BY <1>1, <1>2, <1>3 DEF Leaves, Log
<1>5. log'.left = left /\ log'.spent = spent /\ log'.adrift = later
  BY <1>3, <1>4 DEF Log
<1>6. PICK e : e = sub'
  OBVIOUS
<1>7. UsedSince(e)' = UsedSince(doc)
  BY <1>6, UsageSinceStays
<1>8. UsedSince(sub)' = UsedSince(doc) /\ UsedSince(doc) \in Int
  BY <1>6, <1>7, UsageSinceIsCounted
<1>9. ~later => sub'.start <= now'
  <2>1. PICK start \in Nat, time \in Nat : start = doc.start /\ time = now
    BY DEF LedgerInv, DataOK
  <2>2. ~later => ~(start > time)
    BY <1>2, <2>1
  <2>3. ~(start > time) => start <= time
    BY <2>1
  <2> QED
    BY <2>1, <2>2, <2>3
<1>10. sub'.total + spent <= left + UsedSince(sub)'
  BY <1>1, <1>8
<1> QED
  BY <1>5, <1>9, <1>10 DEF Funded

(* An action that changes the plan leaves one that is rooted and funded.   *)
LEMMA PlanIsFunded ==
    ASSUME AdminInv, LedgerInv', GrantInv, NEW a \in Admins, NEW q, Proceeds(a, q)
    PROVE  /\ sub.exists => sub'.exists
           /\ ~sub'.exists => sub' = NoDocument
           /\ sub'.exists => sub'.start > 0
           /\ Funded'
<1>1. PICK r : r = admin[a]
  OBVIOUS
<1>2. /\ r \in AdminRecords /\ AdminOK(r) /\ Rooted(r) /\ log \in Log
      /\ sub \in Document(Purchases) /\ LedgerInv /\ now \in Nat /\ Funded
      /\ ~sub.exists => sub = NoDocument
      /\ sub.exists => sub.start > 0
      /\ UNCHANGED <<now, usage>>
  BY <1>1, Deciding DEF AdminInv, LedgerInv, DataOK, AuditOK, GrantInv, UsageInv, Proceeds
<1>3. r.at \in Underway => r.began \in Nat /\ r.began > 0
  BY <1>2 DEF Rooted, AdminRecords
<1>4. CASE Rests(q) \/ Reads(a, r, q) \/ Starts(a, r, q)
  <2>1. /\ sub' = sub
        /\ log'.left = log.left /\ log'.spent = log.spent /\ log'.adrift = log.adrift
    BY <1>4 DEF Rests, Reads, Starts
  <2> QED
    BY <1>2, <2>1, FundedStays
<1>5. CASE Cuts(r, q)
  <2>1. sub'.exists = sub.exists /\ sub'.start = sub.start /\ sub'.total = sub.total /\ log' = log
    BY <1>2, <1>5 DEF Cuts, Document
  <2>2. ~sub.exists => sub' = sub
    BY <1>5 DEF Cuts
  <2> QED
    BY <1>2, <2>1, <2>2, FundedStays
<1>6. CASE Grants(r, q)
  <2>1. PICK doc : doc = Granted(r.plan, r.began)
    OBVIOUS
  <2>2. r.began \in Nat /\ r.began > 0 /\ r.plan.end \in Nat
    BY <1>2, <1>3, <1>6 DEF Grants, Underway, AdminSteps, AdminRecords, Document
  <2>3. /\ doc.exists /\ doc.start \in Nat /\ doc.start > 0
        /\ doc.total = GrantQuote.credits
    BY <2>1, <2>2 DEF Granted, Larger
  <2>4. GrantQuote.credits \in Int
    BY AdministrationAssumption DEF Quote
  <2>5. sub' = doc /\ Leaves(doc, GrantQuote.credits, 0)
    BY <1>6, <2>1 DEF Grants
  <2>6. doc.total = GrantQuote.credits + 0
    BY <2>3, <2>4
  <2>7. Funded'
    BY <1>2, <2>3, <2>4, <2>5, <2>6, LeavesIsFunded
  <2> QED
    BY <2>3, <2>5, <2>7
<1>7. CASE Extends(a, r, q)
  <2>1. sub.exists
    BY <1>1, <1>2, <1>7 DEF Extends, Rooted, AdminOK, Underway, AdminSteps, Correcting
  <2>2. sub'.exists = sub.exists /\ sub'.start = sub.start /\ sub'.total = sub.total /\ log' = log
    BY <1>2, <1>7 DEF Extends, Document
  <2> QED
    BY <1>2, <2>1, <2>2, FundedStays
<1>8. CASE Revokes(a, r, q)
  <2>1. sub.exists
    BY <1>1, <1>2, <1>8 DEF Revokes, Rooted, AdminOK, Underway, AdminSteps, Correcting
  <2>2. CASE Asked(a).zeroes
    <3>1. PICK doc : doc = Revoked(r, TRUE)
      OBVIOUS
    <3>2. sub' = Revoked(r, Asked(a).zeroes) /\ Leaves(doc, 0, 0)
      BY <1>8, <2>2, <3>1 DEF Revokes
    <3>3. sub'.exists = sub.exists /\ sub'.start = sub.start /\ sub'.total = 0
      BY <1>2, <2>2, <3>2 DEF Revoked, Document
    <3>4. doc.start = sub.start
      BY <1>2, <3>1 DEF Revoked, Document
    <3>5. sub'.start = doc.start /\ doc.start \in Nat /\ sub'.total = 0 + 0 /\ 0 \in Int
      BY <1>2, <3>3, <3>4 DEF Document
    <3>6. Funded'
      BY <1>2, <3>2, <3>5, LeavesIsFunded
    <3> QED
      BY <1>2, <2>1, <3>3, <3>6
  <2>3. CASE ~Asked(a).zeroes
    <3>1. sub' = Revoked(r, Asked(a).zeroes) /\ log' = log
      BY <1>8, <2>3 DEF Revokes
    <3>2. sub'.exists = sub.exists /\ sub'.start = sub.start /\ sub'.total = sub.total
      BY <1>2, <2>3, <3>1 DEF Revoked, Document
    <3> QED
      BY <1>2, <2>1, <3>1, <3>2, FundedStays
  <2> QED
    BY <2>2, <2>3
<1>9. CASE Corrected(a, r, q)
  <2>1. sub.exists
    BY <1>2, <1>9 DEF Corrected, Rooted, Underway, AdminSteps, Correcting
  <2>2. r.desired \in Nat /\ r.used \in Int
    BY <1>2 DEF AdminRecords
  <2>3. PICK doc : doc = sub
    OBVIOUS
  <2>4. sub' = Reconciled(r) /\ Leaves(doc, r.desired, r.used)
    BY <1>9, <2>3 DEF Corrected
  <2>5. sub'.exists = sub.exists /\ sub'.start = sub.start /\ sub'.total = r.desired + r.used
    <3>1. PICK total \in Int : total = r.used + r.desired
      BY <2>2
    <3>2. sub' = [sub EXCEPT !.total = total, !.remaining = r.desired]
      BY <2>4, <3>1 DEF Reconciled
    <3>3. total = r.desired + r.used
      BY <2>2, <3>1
    <3> QED
      BY <1>2, <3>2, <3>3 DEF Document
  <2>6. doc.start \in Nat /\ sub'.start = doc.start
    BY <1>2, <2>3, <2>5 DEF Document
  <2>7. Funded'
    BY <1>2, <2>2, <2>4, <2>5, <2>6, LeavesIsFunded
  <2> QED
    BY <1>2, <2>1, <2>5, <2>7
<1> QED
  BY <1>1, <1>4, <1>5, <1>6, <1>7, <1>8, <1>9 DEF Proceeds

LEMMA RequestIsRooted ==
    ASSUME AdminInv, LedgerInv', GrantInv, NEW a \in Admins, NEW q, Proceeds(a, q)
    PROVE  Rooted(q)'
<1>1. PICK r : r = admin[a]
  OBVIOUS
<1>2. /\ r \in AdminRecords /\ AdminOK(r) /\ Rooted(r) /\ now \in Nat /\ now > 0
      /\ body' = body /\ now' = now
  BY <1>1, Deciding DEF AdminInv, LedgerInv, DataOK, GrantInv, Proceeds
<1>3. sub.exists => sub'.exists
  BY PlanIsFunded
<1>4. CASE q.at \notin Underway
  BY <1>4 DEF Rooted
<1>5. CASE Starts(a, r, q)
  BY <1>1, <1>2, <1>3, <1>5 DEF Starts, Rooted, Asked, Correcting
<1>6. ASSUME r.at \in Underway, q.id = r.id, q.began = r.began,
             (q.at \in Correcting /\ body[r.id].kind = "grant") =>
                 r.at \in Correcting \/ sub'.exists
      PROVE  Rooted(q)'
  BY <1>2, <1>3, <1>6 DEF Rooted
<1>7. CASE Reads(a, r, q)
  BY <1>1, <1>6, <1>7 DEF Reads, Asked, AfterBalance, Correcting
<1>8. CASE Cuts(r, q)
  BY <1>6, <1>8 DEF Cuts, Correcting, Underway, AdminSteps
<1>9. CASE Grants(r, q)
  <2>1. sub'.exists
    BY <1>9 DEF Grants, Granted
  <2> QED
    BY <1>6, <1>9, <2>1 DEF Grants, Underway, AdminSteps
<1>10. CASE Extends(a, r, q) /\ q.at \in Underway
  BY <1>2, <1>6, <1>10 DEF Extends, Underway, AdminSteps, AdminOK
<1>11. CASE Corrected(a, r, q)
  BY <1>6, <1>11 DEF Corrected, Correcting, Underway, AdminSteps
<1> QED
  BY <1>1, <1>4, <1>5, <1>7, <1>8, <1>9, <1>10, <1>11 DEF Proceeds, Rests, Revokes

(* A request that charges or gives back on some day.                       *)
LEMMA ChargesAreFunded ==
    ASSUME AdminInv, LedgerInv', GrantInv, NEW t \in Tasks, NEW q, Acts(t, q),
           log' = [log EXCEPT !.spent = @ + Spent(t)]
    PROVE  Funded'
<1>1. PICK d \in Dates, n \in Int : Adds(t, d, n)
  BY SpendingIsCounted DEF AdminInv
<1>2. PICK s : s = sub
  OBVIOUS
<1>3. PICK e : e = sub'
  OBVIOUS
<1>4. /\ e.start = s.start /\ e.total = s.total /\ now' = now
      /\ s.start \in Nat /\ s.total \in Int /\ now \in Nat
  BY <1>2, <1>3 DEF Acts, SamePlan, AdminInv, LedgerInv, DataOK, Document
<1>5. UsedSince(e)' = UsedSince(s)'
  BY <1>4 DEF UsedSince
<1>6. /\ UsedSince(s) \in Int /\ UsedSince(s)' \in Int
      /\ Date(s.start) <= d => UsedSince(s)' = UsedSince(s) + usage'[d].used - usage[d].used
      /\ ~(Date(s.start) <= d) => UsedSince(s)' = UsedSince(s)
  BY <1>1, UsageSinceChanges DEF AdminInv, Adds
<1>7. usage'[d].used = usage[d].used + n /\ usage[d].used \in Int /\ Spent(t) \in Int
  BY <1>1 DEF Adds, AdminInv, LedgerInv, DataOK, UsageDocument
<1>8. /\ log.left \in Int /\ log.spent \in Int
      /\ log'.left = log.left /\ log'.spent = log.spent + Spent(t) /\ log'.adrift = log.adrift
  <2>1. log \in Log
    BY DEF AdminInv, AuditOK
  <2>2. PICK spent \in Int : spent = log.spent + Spent(t)
    BY <1>7, <2>1 DEF Log
  <2>3. log' = [log EXCEPT !.spent = spent]
    BY <2>1, <2>2 DEF Log
  <2> QED
    BY <2>1, <2>2, <2>3 DEF Log
<1>9. SUFFICES ASSUME ~log.adrift
               PROVE  /\ e.start <= now
                      /\ e.total + log'.spent <= log.left + UsedSince(e)'
  BY <1>3, <1>4, <1>8 DEF Funded
<1>10. s.start <= now /\ s.total + log.spent <= log.left + UsedSince(s)
  BY <1>2, <1>9 DEF GrantInv, Funded
<1>11. UsedSince(s)' >= UsedSince(s) + Spent(t)
  <2>1. CASE Spent(t) = n /\ d = Today
    <3>1. Date(s.start) <= d
      BY <1>4, <1>10, <2>1, DatesAreOrdered DEF Today
    <3> QED
      BY <1>6, <1>7, <2>1, <3>1
  <2>2. CASE Spent(t) = 0 /\ n >= 0
    <3>1. UsedSince(s)' = UsedSince(s) \/ UsedSince(s)' = UsedSince(s) + n
      BY <1>6, <1>7
    <3> QED
      BY <1>6, <2>2, <3>1
  <2> QED
    BY <1>1, <2>1, <2>2 DEF Adds
<1>12. e.total + log'.spent <= log.left + UsedSince(s)'
  BY <1>4, <1>6, <1>7, <1>8, <1>10, <1>11
<1> QED
  BY <1>4, <1>5, <1>10, <1>12

LEMMA GrantsBegin ==
    AdminInit => GrantInv
<1> SUFFICES ASSUME AdminInit PROVE GrantInv
  OBVIOUS
<1>1. UsageInv /\ LedgerInv
  BY UsageBegins, LedgerBegins DEF AdminInit
<1>2. ~sub.exists /\ sub.start = 0 /\ sub.total = 0 /\ now = 1
  BY DEF AdminInit, Init, NoDocument
<1>3. \A a \in Admins : Rooted(admin[a])
  BY DEF AdminInit, Rooted, NoAction, Underway, AdminSteps
<1>4. Funded
  <2>1. UsedSince(sub) = 0
    <3>1. PICK D \in SUBSET Dates : D = {d \in Dates : Date(sub.start) <= d}
      OBVIOUS
    <3>2. PICK f : f = UsedOn
      OBVIOUS
    <3>3. \A d \in D : f[d] = 0
      BY <3>2 DEF UsedOn, AdminInit, Init
    <3>4. SumOver(f, D) = 0
      BY <3>3, DatesAreFinite, FS_Subset, SumOfZeros
    <3> QED
      BY <3>1, <3>2, <3>4 DEF UsedSince
  <2> QED
    BY <1>2, <2>1 DEF Funded, AdminInit
<1> QED
  BY <1>1, <1>2, <1>3, <1>4 DEF GrantInv

LEMMA AdminKeepsGrants ==
    ASSUME AdminInv, AdminInv', GrantInv, NEW a \in Admins, AdminStep(a)
    PROVE  GrantInv'
<1>1. PICK q : q = admin'[a]
  OBVIOUS
<1>2. Proceeds(a, q) /\ LedgerInv /\ LedgerInv'
  BY <1>1, ActionsProceed DEF AdminInv
<1>3. UNCHANGED <<now, usage, task, book, body>>
  BY <1>2 DEF Proceeds
<1>4. /\ sub.exists => sub'.exists
      /\ ~sub'.exists => sub' = NoDocument
      /\ sub'.exists => sub'.start > 0
      /\ Funded'
  BY <1>2, PlanIsFunded
<1>5. UsageInv'
  <2>1. now <= now'
    BY <1>2, <1>3 DEF LedgerInv, DataOK
  <2> QED
    BY <1>2, <1>3, <1>4, <2>1, OthersKeepUsage DEF GrantInv
<1>6. ASSUME NEW b \in Admins PROVE Rooted(admin[b])'
  <2>1. CASE b = a
    <3>1. Rooted(q)'
      BY <1>2, RequestIsRooted
    <3> QED
      BY <1>1, <2>1, <3>1 DEF Rooted
  <2>2. CASE b # a
    <3>1. PICK r : r = admin[b]
      OBVIOUS
    <3>2. PICK p : p = admin'[b]
      OBVIOUS
    <3>3. r \in AdminRecords /\ Rooted(r)
      BY <3>1, Deciding DEF GrantInv
    <3>4. p = r \/ p = Disturbed(r, TRUE, 0)
      BY <2>2, <3>1, <3>2, OthersAreLeft DEF OthersGoOn
    <3>5. p.at = r.at /\ p.id = r.id /\ p.began = r.began
      <4>1. PICK writes \in BOOLEAN, cost \in Nat : p = r \/ p = Disturbed(r, writes, cost)
        BY <3>4
      <4> QED
        BY <3>3, <4>1, DisturbedIs
    <3>6. Rooted(p)'
      BY <1>3, <1>4, <3>3, <3>5, RootedStays
    <3> QED
      BY <3>2, <3>6 DEF Rooted
  <2> QED
    BY <2>1, <2>2
<1> QED
  BY <1>4, <1>5, <1>6 DEF GrantInv

(* The customer leaves the actions where they are.                         *)
LEMMA CustomerKeepsActions ==
    ASSUME AdminInv, GrantInv, NEW writes \in BOOLEAN, NEW cost \in Nat,
           Meanwhile(writes, cost) \/ admin' = admin, body' = body, sub.exists => sub'.exists
    PROVE  \A a \in Admins : Rooted(admin[a])'
<1>1. SUFFICES ASSUME NEW a \in Admins PROVE Rooted(admin[a])'
  OBVIOUS
<1>2. PICK r : r = admin[a]
  OBVIOUS
<1>3. PICK p : p = admin'[a]
  OBVIOUS
<1>4. r \in AdminRecords /\ Rooted(r)
  BY <1>2, Deciding DEF GrantInv
<1>5. p = r \/ p = Disturbed(r, writes, cost)
  BY <1>2, <1>3 DEF Meanwhile
<1>6. p.at = r.at /\ p.id = r.id /\ p.began = r.began
  BY <1>4, <1>5, DisturbedIs
<1>7. Rooted(p)'
  BY <1>4, <1>6, RootedStays
<1> QED
  BY <1>3, <1>7 DEF Rooted

LEMMA RequestsKeepGrants ==
    ASSUME AdminInv, AdminInv', GrantInv, NEW t \in Tasks, ChatStep(t)
    PROVE  GrantInv'
<1>1. LedgerInv /\ LedgerInv' /\ UsageInv
  BY DEF AdminInv, GrantInv
<1>2. PICK q : Acts(t, q)
  BY <1>1, RequestActs DEF ChatStep
<1>3. UsageInv'
  BY <1>1, <1>2, UsageIsKept
<1>4. sub'.exists = sub.exists /\ sub'.start = sub.start /\ now' = now
  BY <1>2 DEF Acts, SamePlan
<1>5. log' = [log EXCEPT !.spent = @ + Spent(t)] /\ body' = body
  BY DEF ChatStep
<1>6. Funded'
  BY <1>1, <1>2, <1>5, ChargesAreFunded
<1>7. PICK writes \in BOOLEAN : writes = (task[t].at \in {"poolSync", "refundSync"} /\ faults' = faults)
  OBVIOUS
<1>8. Meanwhile(writes, task[t].cost) /\ task[t].cost \in Nat
  BY <1>1, <1>7, Acting DEF ChatStep, TaskRecords
<1>9. \A a \in Admins : Rooted(admin[a])'
  BY <1>4, <1>5, <1>8, CustomerKeepsActions
<1>10. sub'.exists => sub'.start > 0
  BY <1>4 DEF GrantInv
<1> QED
  BY <1>3, <1>6, <1>9, <1>10 DEF GrantInv

LEMMA PurchasesKeepGrants ==
    ASSUME AdminInv, AdminInv', GrantInv, NEW k \in Purchases, Purchase(k)
    PROVE  GrantInv'
<1>1. LedgerInv /\ LedgerInv' /\ UsageInv
  BY DEF AdminInv, GrantInv
<1>2. BuyPlan(k) /\ Meanwhile(TRUE, 0) /\ body' = body
  BY DEF Purchase
<1>3. UsageInv'
  BY <1>1, <1>2, UsageStep DEF Next
<1>4. PICK doc : doc = sub'
  OBVIOUS
<1>5. doc \in Document(Purchases) /\ log \in Log
  BY <1>1, <1>4 DEF LedgerInv, DataOK, AdminInv, AuditOK
<1>6. Leaves(doc, doc.total, 0) /\ usage' = usage /\ now' = now
  BY <1>2, <1>4 DEF Purchase, BuyPlan
<1>7. doc.total \in Int /\ doc.start \in Nat /\ doc.total = doc.total + 0 /\ 0 \in Int
  BY <1>5 DEF Document
<1>8. Funded'
  BY <1>1, <1>4, <1>5, <1>6, <1>7, LeavesIsFunded
<1>9. doc.exists /\ doc.start > 0
  <2>1. now \in Nat /\ now > 0 /\ sub.end \in Nat
    BY <1>1 DEF LedgerInv, DataOK, Document
  <2>2. doc = WebGrant(sub, PlanQuote[k], k, TRUE, now)
    BY <1>2, <1>4 DEF BuyPlan
  <2>3. doc.exists /\ (doc.start = now \/ doc.start = Larger(now, sub.end))
    BY <2>2 DEF WebGrant
  <2> QED
    BY <2>1, <2>3 DEF Larger
<1>10. \A a \in Admins : Rooted(admin[a])'
  BY <1>2, <1>4, <1>9, CustomerKeepsActions
<1> QED
  BY <1>3, <1>4, <1>8, <1>9, <1>10 DEF GrantInv

LEMMA GrantStep ==
    AdminInv /\ AdminInv' /\ GrantInv /\ [AdminNext]_adminVars => GrantInv'
<1> SUFFICES ASSUME AdminInv, AdminInv', GrantInv, [AdminNext]_adminVars PROVE GrantInv'
  OBVIOUS
<1>1. LedgerInv /\ LedgerInv' /\ UsageInv
  BY DEF AdminInv, GrantInv
<1>2. CASE Passes \/ UNCHANGED adminVars
  <2>1. UNCHANGED <<sub, usage, body, admin, log>>
    BY <1>2 DEF Passes, Tick, adminVars, vars
  <2>2. UsageInv'
    BY <1>1, <1>2, UsageStep DEF Passes, adminVars, Next
  <2>3. now <= now'
    BY <1>1, <1>2 DEF LedgerInv, DataOK, Passes, Tick, adminVars, vars
  <2>4. Funded'
    BY <1>1, <2>1, <2>3, FundedStays DEF GrantInv
  <2>5. \A a \in Admins : Rooted(admin[a])'
    BY <2>1, CustomerKeepsActions
  <2> QED
    BY <2>1, <2>2, <2>4, <2>5 DEF GrantInv
<1>3. CASE \E k \in Purchases : Purchase(k)
  BY <1>3, PurchasesKeepGrants
<1>4. CASE \E t \in Tasks : ChatStep(t)
  BY <1>4, RequestsKeepGrants
<1>5. CASE \E a \in Admins : AdminStep(a)
  BY <1>5, AdminKeepsGrants
<1> QED
  BY <1>2, <1>3, <1>4, <1>5 DEF AdminNext

LEMMA GrantHolds ==
    AdminSpec => []GrantInv
<1>1. AdminInv /\ AdminInv' /\ GrantInv /\ [AdminNext]_adminVars => GrantInv'
  BY GrantStep
<1> QED
  BY <1>1, GrantsBegin, AdminHolds, PTL DEF AdminSpec

LEMMA OffersAreFunded ==
    AdminInv /\ GrantInv => NeverOverGranted
<1> SUFFICES ASSUME AdminInv, GrantInv, ActiveAt(sub, now), ~log.adrift
             PROVE  PoolRemaining(sub) <= AtLeastZero(log.left - log.spent)
  BY DEF NeverOverGranted
<1>1. /\ LedgerInv /\ UsageInv /\ sub \in Document(Purchases) /\ log \in Log /\ now \in Nat
  BY DEF AdminInv, AuditOK, GrantInv, LedgerInv, DataOK
<1>2. sub.exists
  BY <1>1 DEF UsageInv, NoDocument, ActiveAt
<1>3. 0 < sub.start /\ sub.start <= now /\ sub.total + log.spent <= log.left + UsedSince(sub)
  BY <1>1, <1>2 DEF GrantInv, Funded, Document
<1>4. UsedInPeriod(sub) = UsedSince(sub)
  BY <1>1, <1>3, RunningPlanUsesItsDays
<1>5. PICK used \in Int : used = UsedInPeriod(sub)
  BY <1>1, UsageIsCounted
<1>6. PICK total \in Int, left \in Int, spent \in Int, balance \in Nat :
          total = sub.total /\ left = log.left /\ spent = log.spent /\ balance = sub.remaining
  BY <1>1 DEF Document, Log
<1>7. total - used <= left - spent
  BY <1>3, <1>4, <1>5, <1>6
<1>8. PoolRemaining(sub) = AtLeastZero(total - Larger(used, AtLeastZero(total - balance)))
  BY <1>5, <1>6 DEF PoolRemaining
<1>9. AtLeastZero(total - Larger(used, AtLeastZero(total - balance))) <= AtLeastZero(left - spent)
  BY <1>7 DEF AtLeastZero, Larger
<1> QED
  BY <1>6, <1>8, <1>9

(* Whatever administrators and requests write over each other, nobody is   *)
(* offered more than the last purchase or action meant to leave, less what *)
(* was charged since.                                                      *)
THEOREM NothingIsOverGranted == AdminSpec => []NeverOverGranted
  BY OffersAreFunded, AdminHolds, GrantHolds, PTL

(***************************************************************************)
(* Corrections are relative.                                               *)
(***************************************************************************)
(* What is left of c after u, or a floor of it, has been used falls as u   *)
(* rises, and by no more.                                                  *)
LEMMA BalanceFalls ==
    ASSUME NEW c \in Int, NEW floor \in Int, NEW u \in Int, NEW v \in Int, u <= v
    PROVE  /\ AtLeastZero(c - Larger(v, floor)) <= AtLeastZero(c - Larger(u, floor))
           /\ AtLeastZero(c - Larger(u, floor)) <= AtLeastZero(c - Larger(v, floor)) + (v - u)
  BY DEF AtLeastZero, Larger

(* Reading the usage of the plan turns the balance that is meant into the  *)
(* outcome of the write.                                                   *)
LEMMA OutcomeOfReading ==
    ASSUME NEW used \in Int, NEW desired \in Nat
    PROVE  desired - AtLeastZero(-used)
               <= AtLeastZero(used + desired - Larger(used, AtLeastZero(used)))
  BY DEF AtLeastZero, Larger

(* The write leaves no more than what is meant.                            *)
LEMMA OutcomeIsMeant ==
    ASSUME NEW used \in Int, NEW desired \in Nat, NEW u \in Int
    PROVE  AtLeastZero(used + desired - Larger(u, AtLeastZero(used))) \in 0 .. desired
  BY DEF AtLeastZero, Larger

LEMMA PoolStays ==
    ASSUME UNCHANGED <<sub, usage>>
    PROVE  /\ UsedInPeriod(sub)' = UsedInPeriod(sub)
           /\ PoolRemaining(sub)' = PoolRemaining(sub)
<1>1. PICK s : s = sub
  OBVIOUS
<1>2. UsedInPeriod(s)' = UsedInPeriod(s)
  BY UsageStays
<1>3. UsedInPeriod(sub)' = UsedInPeriod(sub)
  BY <1>1, <1>2
<1> QED
  BY <1>3 DEF PoolRemaining

LEMMA RelativeStays ==
    ASSUME NEW q, Relative(q), UNCHANGED <<sub, usage, body>>
    PROVE  Relative(q)'
<1>1. Fair(q)' = Fair(q) /\ Outcome(q)' = Outcome(q)
  BY PoolStays DEF Fair, Outcome
<1> QED
  BY <1>1 DEF Relative

LEMMA RelativeInVain ==
    ASSUME NEW q, ~q.current \/ q.at \in {"cut", "balanceRead", "revokeWrite", "upsertRead"}
                  \/ q.at \notin Underway
    PROVE  Relative(q)'
  BY DEF Relative, Underway, AdminSteps

(* What a correction is about: an amount, and a balance.                   *)
LEMMA CorrectionIsCounted ==
    ASSUME AdminInv, NEW r \in AdminRecords, AdminOK(r), r.at # "idle", body[r.id].kind = "delta"
    PROVE  /\ body[r.id].credits \in Int /\ PoolRemaining(sub) \in Nat /\ Fair(r) \in Int
           /\ UsedInPeriod(sub) \in Int
<1>1. body[r.id] \in Action
  BY AdministrationAssumption DEF AdminInv, AdminOK
<1>2. body[r.id].credits \in Int
  BY <1>1 DEF Action
<1>3. PoolRemaining(sub) \in Nat /\ UsedInPeriod(sub) \in Int
  BY UsageIsCounted DEF AdminInv, LedgerInv, DataOK
<1> QED
  BY <1>2, <1>3 DEF Fair

LEMMA ReadingIsRelative ==
    ASSUME AdminInv, DeltaInv, NEW a \in Admins, NEW r, r = admin[a], NEW q, Reads(a, r, q)
    PROVE  Relative(q)
<1>1. r \in AdminRecords /\ AdminOK(r) /\ Relative(r) /\ Asked(a) = body[r.id] /\ r.moved \in Nat
  BY Deciding DEF DeltaInv, Asked, AdminRecords
<1>2. CASE r.at \in {"balanceRead", "upsertRead"}
  BY <1>2 DEF Reads, Relative
<1>3. CASE r.at \in {"verifyRead", "verifyUsage"}
  BY <1>1, <1>3 DEF Reads, Relative
<1>4. CASE ~q.current \/ body[r.id].kind # "delta"
  <2>1. q.at \in {"verifyRead", "verifyUsage"} => ~q.current
    BY <1>1, <1>4 DEF Reads, Relative, AfterBalance
  <2> QED
    BY <1>4, <2>1 DEF Reads, Relative
<1>5. ASSUME r.at \in {"balanceUsage", "reconcileRead", "reconcileUsage"}, q.current,
             body[r.id].kind = "delta"
      PROVE  Relative(q)
  <2>1. r.current /\ q.id = r.id /\ q.moved = r.moved /\ Fair(q) = Fair(r)
    BY <1>5 DEF Reads, Fair
  <2>2. body[r.id].credits \in Int /\ PoolRemaining(sub) \in Nat /\ Fair(r) \in Int
        /\ UsedInPeriod(sub) \in Int
    BY <1>1, <1>5, CorrectionIsCounted
  <2>3. CASE r.at = "balanceUsage"
    <3>1. r.plan = sub
      BY <1>1, <1>5, <2>1, <2>3 DEF Relative
    <3>2. q.at = "reconcileRead" /\ q.desired = Desired(Asked(a), PoolRemaining(sub))
      BY <1>1, <1>5, <2>3, <3>1 DEF Reads, AfterBalance
    <3>3. q.desired = AtLeastZero(Fair(r))
      BY <1>1, <1>5, <3>2 DEF Desired, Fair
    <3>4. /\ q.desired <= AtLeastZero(Fair(r) + r.moved)
          /\ Fair(r) - r.moved <= q.desired
      BY <1>1, <2>2, <3>3 DEF AtLeastZero, Larger
    <3> QED
      BY <2>1, <3>2, <3>4 DEF Relative
  <2>4. CASE r.at = "reconcileRead"
    BY <1>1, <1>5, <2>1, <2>4 DEF Reads, Relative
  <2>5. CASE r.at = "reconcileUsage"
    <3>1. /\ r.plan = sub
          /\ r.desired <= AtLeastZero(Fair(r) + r.moved)
          /\ Fair(r) - r.moved <= r.desired
      BY <1>1, <1>5, <2>1, <2>5 DEF Relative
    <3>2. q.at = "reconcileWrite" /\ q.used = UsedInPeriod(sub) /\ q.desired = r.desired
      BY <2>5, <3>1 DEF Reads
    <3>3. PICK used \in Int : used = UsedInPeriod(sub)
      BY <2>2
    <3>4. r.desired \in Nat
      BY <1>1 DEF AdminRecords
    <3>5. Fair(r) - r.moved - AtLeastZero(-q.used) <= Outcome(q)
      <4>1. PICK x : x = AtLeastZero(used + r.desired - Larger(used, AtLeastZero(used)))
        OBVIOUS
      <4>2. Outcome(q) = x
        BY <3>2, <3>3, <4>1 DEF Outcome
      <4>3. r.desired - AtLeastZero(-used) <= x
        BY <3>4, <4>1, OutcomeOfReading
      <4>4. PICK short \in Nat : short = AtLeastZero(-used)
        BY DEF AtLeastZero, Larger
      <4>5. x \in Nat
        BY <3>4, <4>1 DEF AtLeastZero, Larger
      <4>6. Fair(r) - r.moved - short <= x
        BY <1>1, <2>2, <3>1, <3>4, <4>3, <4>4, <4>5
      <4> QED
        BY <3>2, <3>3, <4>2, <4>4, <4>6
    <3> QED
      BY <2>1, <3>1, <3>2, <3>5 DEF Relative
  <2> QED
    BY <1>5, <2>3, <2>4, <2>5
<1> QED
  BY <1>2, <1>3, <1>4, <1>5 DEF Reads

LEMMA ActionIsRelative ==
    ASSUME AdminInv, DeltaInv, NEW a \in Admins, NEW q, Proceeds(a, q)
    PROVE  Relative(q)'
<1>1. PICK r : r = admin[a]
  OBVIOUS
<1>2. UNCHANGED <<usage, body>>
  BY DEF Proceeds
<1>3. CASE Reads(a, r, q)
  <2>1. Relative(q) /\ sub' = sub
    BY <1>1, <1>3, ReadingIsRelative DEF Reads
  <2> QED
    BY <1>2, <2>1, RelativeStays
<1>4. CASE ~Reads(a, r, q)
  <2>1. ~q.current \/ q.at \in {"cut", "balanceRead", "revokeWrite", "upsertRead"}
        \/ q.at \notin Underway
    BY <1>1, <1>4 DEF Proceeds, Rests, Starts, Cuts, Grants, Extends, Revokes, Corrected
  <2> QED
    BY <2>1, RelativeInVain
<1> QED
  BY <1>3, <1>4

LEMMA PoolMovesLittle ==
    ASSUME LedgerInv, LedgerInv', sub' = sub, NEW t \in Tasks, NEW d \in Dates, NEW n \in Int,
           Adds(t, d, n)
    PROVE  \E m \in Int : /\ -task[t].cost <= m /\ m <= task[t].cost
                          /\ UsedInPeriod(sub)' = UsedInPeriod(sub) + m
<1>1. PICK s : s = sub
  OBVIOUS
<1>2. PICK cost \in Nat : cost = task[t].cost
  BY Acting DEF TaskRecords
<1>3. PICK old \in Int : old = usage[d].used
  BY DEF LedgerInv, DataOK, UsageDocument
<1>4. usage'[d].used = old + n /\ -cost <= n /\ n <= cost
  BY <1>2, <1>3 DEF Adds
<1>5. PICK u \in Int : u = UsedInPeriod(s)
  BY <1>1, UsageIsCounted DEF LedgerInv, DataOK
<1>6. UsedInPeriod(s)' = u \/ UsedInPeriod(s)' = u + (old + n) - old
  BY <1>3, <1>4, <1>5, UsageInPeriodChanges DEF Adds
<1>7. UsedInPeriod(s)' = u + 0 \/ UsedInPeriod(s)' = u + n
  BY <1>3, <1>5, <1>6
<1>8. UsedInPeriod(sub)' = UsedInPeriod(s)' /\ UsedInPeriod(sub) = u
  BY <1>1, <1>5
<1> QED
  BY <1>2, <1>4, <1>7, <1>8

(* A request charges or gives back while the plan stays as it is: what the *)
(* user is offered and what the write will leave move together, and by no  *)
(* more than the charge.                                                   *)
LEMMA RelativeThroughCharges ==
    ASSUME AdminInv, LedgerInv', NEW r \in AdminRecords, AdminOK(r), Relative(r),
           sub' = sub, body' = body, NEW t \in Tasks, NEW d \in Dates, NEW n \in Int, Adds(t, d, n),
           NEW writes \in BOOLEAN, ~writes, NEW cost \in Nat, cost = task[t].cost,
           NEW q, q = Disturbed(r, writes, cost)
    PROVE  Relative(q)'
<1>2. /\ q.at = r.at /\ q.id = r.id /\ q.plan = r.plan /\ q.used = r.used /\ q.desired = r.desired
      /\ q.current => r.current
      /\ q.current => q.moved = r.moved + cost
  BY DisturbedGoesOn
<1>3. r.used \in Int /\ r.desired \in Nat /\ r.moved \in Nat
  BY DEF AdminRecords
<1>4. CASE ~(q.current /\ body[r.id].kind = "delta")
  BY <1>2, <1>4 DEF Relative
<1>5. CASE q.at \notin {"balanceUsage", "reconcileRead", "reconcileUsage", "reconcileWrite"}
  BY <1>2, <1>5 DEF Relative
<1>6. ASSUME q.current, body[r.id].kind = "delta",
             q.at \in {"balanceUsage", "reconcileRead", "reconcileUsage", "reconcileWrite"}
      PROVE  Relative(q)'
  <2>1. /\ body[r.id].credits \in Int /\ PoolRemaining(sub) \in Nat /\ UsedInPeriod(sub) \in Int
    BY <1>2, <1>6, CorrectionIsCounted
  <2>2. PICK credits \in Int, u \in Int : credits = body[r.id].credits /\ u = UsedInPeriod(sub)
    BY <2>1
  <2>3. PICK m \in Int : -cost <= m /\ m <= cost /\ UsedInPeriod(sub)' = u + m
    BY <2>2, PoolMovesLittle DEF AdminInv
  <2>4. PICK v \in Int : v = UsedInPeriod(sub)' /\ -cost <= v - u /\ v - u <= cost
    BY <2>3
  <2>5. PICK total \in Int, floor \in Int :
            total = sub.total /\ floor = AtLeastZero(sub.total - sub.remaining)
    BY DEF AdminInv, LedgerInv, DataOK, Document, AtLeastZero, Larger
  <2>6. /\ AtLeastZero(total - Larger(u, floor)) \in Int
        /\ AtLeastZero(total - Larger(v, floor)) \in Int
    BY DEF AtLeastZero, Larger
  <2>7. PICK old \in Int, new \in Int :
            /\ old = AtLeastZero(total - Larger(u, floor))
            /\ new = AtLeastZero(total - Larger(v, floor))
    BY <2>6
  <2>8. PoolRemaining(sub) = old /\ PoolRemaining(sub)' = new
    BY <2>2, <2>4, <2>5, <2>7 DEF PoolRemaining
  <2>9. PICK used \in Int, desired \in Nat, moved \in Nat :
            used = r.used /\ desired = r.desired /\ moved = r.moved
    BY <1>3
  <2>10. AtLeastZero(used) \in Nat /\ AtLeastZero(-used) \in Nat
    BY DEF AtLeastZero, Larger
  <2>11. PICK low \in Nat, short \in Nat : low = AtLeastZero(used) /\ short = AtLeastZero(-used)
    BY <2>10
  <2>12. PICK c \in Int : c = used + desired
    OBVIOUS
  <2>13. /\ AtLeastZero(c - Larger(u, low)) \in Int
         /\ AtLeastZero(c - Larger(v, low)) \in Int
    BY DEF AtLeastZero, Larger
  <2>14. PICK x \in Int, y \in Int :
            /\ x = AtLeastZero(c - Larger(u, low))
            /\ y = AtLeastZero(c - Larger(v, low))
    BY <2>13
  <2>15. Outcome(r) = x
    <3>1. r.used + r.desired = c /\ AtLeastZero(r.used) = low
      BY <2>9, <2>11, <2>12
    <3>2. Larger(u, low) \in Int
      BY DEF Larger
    <3>3. PICK w \in Int : w = Larger(u, low)
      BY <3>2
    <3>4. Outcome(r) = AtLeastZero(c - w)
      <4>1. Larger(UsedInPeriod(sub), AtLeastZero(r.used)) = w
        BY <2>2, <3>1, <3>3
      <4>2. Outcome(r) = AtLeastZero(r.used + r.desired - w)
        BY <4>1 DEF Outcome
      <4> QED
        BY <2>9, <2>12, <4>2
    <3> QED
      BY <2>14, <3>3, <3>4
  <2>16. Outcome(q)' = y
    <3>1. q.used = used /\ q.desired = desired
      BY <1>2, <2>9
    <3>2. q.used + q.desired = c /\ AtLeastZero(q.used) = low
      BY <2>11, <2>12, <3>1
    <3>3. Larger(v, low) \in Int
      BY DEF Larger
    <3>4. PICK w \in Int : w = Larger(v, low)
      BY <3>3
    <3>5. Outcome(q)' = AtLeastZero(c - w)
      <4>1. Larger(UsedInPeriod(sub)', AtLeastZero(q.used)) = w
        BY <2>4, <3>2, <3>4
      <4>2. Outcome(q)' = AtLeastZero(q.used + q.desired - w)
        BY <4>1 DEF Outcome
      <4> QED
        BY <2>12, <3>1, <4>2
    <3> QED
      BY <2>14, <3>4, <3>5
  <2>17. Fair(r) = old + credits
    BY <2>2, <2>8 DEF Fair
  <2>18. Fair(q)' = new + credits
    BY <1>2, <2>2, <2>8 DEF Fair
  <2>19. /\ old <= new + cost /\ new <= old + cost
         /\ x + new <= y + old + cost
         /\ y + old <= x + new + cost
    <3>1. CASE u <= v
      <4>1. /\ new <= old /\ old <= new + (v - u)
            /\ y <= x /\ x <= y + (v - u)
        BY <2>7, <2>14, <3>1, BalanceFalls
      <4> QED
        BY <2>4, <3>1, <4>1
    <3>2. CASE v <= u
      <4>1. /\ old <= new /\ new <= old + (u - v)
            /\ x <= y /\ y <= x + (u - v)
        BY <2>7, <2>14, <3>2, BalanceFalls
      <4> QED
        BY <2>4, <3>2, <4>1
    <3> QED
      BY <3>1, <3>2
  <2>20. q.moved = moved + cost /\ q.desired = desired /\ q.used = used /\ r.current
    BY <1>2, <1>6, <2>9
  <2>21. PICK next \in Nat : next = moved + cost
    OBVIOUS
  <2>22. PICK fair \in Int : fair = new + credits
    OBVIOUS
  <2>23. Fair(q)' = fair /\ q.moved = next
    BY <2>18, <2>20, <2>21, <2>22
  <2>24. q.at \in {"balanceUsage", "reconcileUsage"} => q.plan = sub'
    BY <1>2, <1>6, <2>20 DEF Relative
  <2>25. q.at \in {"reconcileRead", "reconcileUsage", "reconcileWrite"} =>
             q.desired <= AtLeastZero(Fair(q)' + q.moved)
    <3>1. SUFFICES ASSUME q.at \in {"reconcileRead", "reconcileUsage", "reconcileWrite"}
                   PROVE  desired <= AtLeastZero(new + credits + next)
      <4>1. AtLeastZero(Fair(q)' + q.moved) = AtLeastZero(new + credits + next)
        BY <2>22, <2>23
      <4> QED
        BY <2>20, <4>1
    <3>2. desired <= AtLeastZero(old + credits + moved)
      <4>1. AtLeastZero(Fair(r) + r.moved) = AtLeastZero(old + credits + moved)
        BY <2>9, <2>17
      <4>2. r.desired <= AtLeastZero(Fair(r) + r.moved)
        BY <1>2, <1>6, <2>20, <3>1 DEF Relative
      <4> QED
        BY <2>9, <4>1, <4>2
    <3> QED
      BY <2>19, <2>21, <3>2 DEF AtLeastZero, Larger
  <2>26. q.at \in {"reconcileRead", "reconcileUsage"} => Fair(q)' - q.moved <= q.desired
    <3>1. SUFFICES ASSUME q.at \in {"reconcileRead", "reconcileUsage"}
                   PROVE  new + credits - next <= desired
      BY <2>20, <2>22, <2>23
    <3>2. old + credits - moved <= desired
      <4>1. Fair(r) - r.moved <= r.desired
        BY <1>2, <1>6, <2>20, <3>1 DEF Relative
      <4> QED
        BY <2>9, <2>17, <4>1
    <3> QED
      BY <2>19, <2>21, <3>2
  <2>27. q.at = "reconcileWrite" => Fair(q)' - q.moved - AtLeastZero(-q.used) <= Outcome(q)'
    <3>1. SUFFICES ASSUME q.at = "reconcileWrite"
                   PROVE  new + credits - next - short <= y
      <4>1. Fair(q)' - q.moved - AtLeastZero(-q.used) = new + credits - next - short
        BY <2>11, <2>20, <2>22, <2>23
      <4> QED
        BY <2>16, <4>1
    <3>2. old + credits - moved - short <= x
      <4>1. Fair(r) - r.moved - AtLeastZero(-r.used) = old + credits - moved - short
        BY <2>9, <2>11, <2>17
      <4>2. Fair(r) - r.moved - AtLeastZero(-r.used) <= Outcome(r)
        BY <1>2, <1>6, <2>20, <3>1 DEF Relative
      <4> QED
        BY <2>15, <4>1, <4>2
    <3> QED
      BY <2>19, <2>21, <3>2
  <2>28. q.at \notin {"verifyRead", "verifyUsage"}
    BY <1>6
  <2> QED
    BY <2>24, <2>25, <2>26, <2>27, <2>28 DEF Relative
<1> QED
  BY <1>2, <1>4, <1>5, <1>6

LEMMA DeltaBegins ==
    AdminInit => DeltaInv
  BY DEF AdminInit, DeltaInv, Relative, NoAction

LEMMA AdminKeepsDeltas ==
    ASSUME AdminInv, DeltaInv, NEW a \in Admins, AdminStep(a)
    PROVE  DeltaInv'
<1>1. Proceeds(a, admin'[a]) /\ OthersGoOn(a)
  BY ActionsProceed, OthersAreLeft
<1>2. ASSUME NEW b \in Admins PROVE Relative(admin[b])'
  <2>1. PICK r : r = admin[b]
    OBVIOUS
  <2>2. PICK q : q = admin'[b]
    OBVIOUS
  <2>3. r \in AdminRecords /\ Relative(r)
    BY <2>1, Deciding DEF DeltaInv
  <2>4. CASE b = a
    <3>1. Relative(q)'
      BY <1>1, <2>2, <2>4, ActionIsRelative
    <3> QED
      BY <2>2, <3>1 DEF Relative, Fair, Outcome
  <2>5. CASE b # a /\ q = r /\ sub' = sub
    <3>1. Relative(q)'
      BY <1>1, <2>3, <2>5, RelativeStays DEF Proceeds
    <3> QED
      BY <2>2, <3>1 DEF Relative, Fair, Outcome
  <2>6. CASE b # a /\ q = Disturbed(r, TRUE, 0)
    <3>1. PICK writes \in BOOLEAN, cost \in Nat : writes = TRUE /\ cost = 0
      OBVIOUS
    <3>2. q = Disturbed(r, writes, cost)
      BY <2>6, <3>1
    <3>3. ~q.current
      BY <2>3, <3>1, <3>2, DisturbedGoesOn
    <3>4. Relative(q)'
      BY <3>3, RelativeInVain
    <3> QED
      BY <2>2, <3>4 DEF Relative, Fair, Outcome
  <2> QED
    BY <1>1, <2>1, <2>2, <2>4, <2>5, <2>6 DEF OthersGoOn
<1> QED
  BY <1>2 DEF DeltaInv

LEMMA CustomerKeepsDeltas ==
    ASSUME AdminInv, LedgerInv', DeltaInv, body' = body,
           NEW writes \in BOOLEAN, NEW cost \in Nat, Meanwhile(writes, cost),
           \/ writes
           \/ /\ sub' = sub
              /\ \E t \in Tasks : cost = task[t].cost /\ \E d \in Dates, n \in Int : Adds(t, d, n)
    PROVE  DeltaInv'
<1>1. SUFFICES ASSUME NEW a \in Admins PROVE Relative(admin[a])'
  BY DEF DeltaInv
<1>2. PICK r : r = admin[a]
  OBVIOUS
<1>3. PICK q : q = admin'[a]
  OBVIOUS
<1>4. r \in AdminRecords /\ AdminOK(r) /\ Relative(r)
  BY <1>2, Deciding DEF DeltaInv
<1>5. SUFFICES Relative(q)'
  BY <1>3 DEF Relative, Fair, Outcome
<1>6. q = IF writes \/ usage' # usage THEN Disturbed(r, writes, cost) ELSE r
  BY <1>2, <1>3 DEF Meanwhile
<1>7. CASE writes
  <2>1. q = Disturbed(r, writes, cost)
    BY <1>6, <1>7
  <2>2. ~q.current
    BY <1>4, <1>7, <2>1, DisturbedGoesOn
  <2> QED
    BY <2>2, RelativeInVain
<1>8. CASE ~writes /\ usage' = usage
  <2>1. q = r /\ sub' = sub
    BY <1>6, <1>8
  <2> QED
    BY <1>4, <1>8, <2>1, RelativeStays
<1>9. CASE ~writes /\ usage' # usage
  <2>1. PICK t \in Tasks, d \in Dates, n \in Int : cost = task[t].cost /\ Adds(t, d, n)
    BY <1>9
  <2>2. q = Disturbed(r, writes, cost) /\ sub' = sub
    BY <1>6, <1>9
  <2> QED
    BY <1>4, <1>9, <2>1, <2>2, RelativeThroughCharges
<1> QED
  BY <1>7, <1>8, <1>9

LEMMA DeltaStep ==
    AdminInv /\ AdminInv' /\ GrantInv /\ DeltaInv /\ [AdminNext]_adminVars => DeltaInv'
<1> SUFFICES ASSUME AdminInv, AdminInv', GrantInv, DeltaInv, [AdminNext]_adminVars PROVE DeltaInv'
  OBVIOUS
<1>1. LedgerInv /\ LedgerInv' /\ UsageInv
  BY DEF AdminInv, GrantInv
<1>2. CASE Passes \/ UNCHANGED adminVars
  <2>1. UNCHANGED <<sub, usage, body, admin>>
    BY <1>2 DEF Passes, Tick, adminVars, vars
  <2>2. ASSUME NEW a \in Admins PROVE Relative(admin[a])'
    <3>1. PICK r : r = admin[a]
      OBVIOUS
    <3>2. Relative(r)'
      BY <2>1, <3>1, RelativeStays DEF DeltaInv
    <3> QED
      BY <2>1, <3>1, <3>2 DEF Relative, Fair, Outcome
  <2> QED
    BY <2>2 DEF DeltaInv
<1>3. ASSUME NEW k \in Purchases, Purchase(k) PROVE DeltaInv'
  <2>1. PICK writes \in BOOLEAN, cost \in Nat : writes = TRUE /\ cost = 0
    OBVIOUS
  <2>2. Meanwhile(writes, cost) /\ body' = body
    BY <1>3, <2>1 DEF Purchase
  <2> QED
    BY <1>1, <2>1, <2>2, CustomerKeepsDeltas
<1>4. ASSUME NEW t \in Tasks, ChatStep(t) PROVE DeltaInv'
  <2>1. PICK q : Acts(t, q)
    BY <1>1, <1>4, RequestActs DEF ChatStep
  <2>2. \E d \in Dates, n \in Int : Adds(t, d, n)
    BY <1>1, <2>1, SpendingIsCounted
  <2>3. PICK writes \in BOOLEAN : writes = (task[t].at \in {"poolSync", "refundSync"} /\ faults' = faults)
    OBVIOUS
  <2>4. PICK cost \in Nat : cost = task[t].cost
    BY <1>1, Acting DEF TaskRecords
  <2>5. Meanwhile(writes, cost) /\ body' = body
    BY <1>4, <2>3, <2>4 DEF ChatStep
  <2>6. writes \/ sub' = sub
    BY <1>4, <2>3, PlanIsSynced DEF ChatStep
  <2> QED
    BY <1>1, <2>2, <2>4, <2>5, <2>6, CustomerKeepsDeltas
<1>5. CASE \E a \in Admins : AdminStep(a)
  BY <1>5, AdminKeepsDeltas
<1> QED
  BY <1>2, <1>3, <1>4, <1>5 DEF AdminNext

LEMMA DeltaHolds ==
    AdminSpec => []DeltaInv
<1>1. AdminInv /\ AdminInv' /\ GrantInv /\ DeltaInv /\ [AdminNext]_adminVars => DeltaInv'
  BY DeltaStep
<1> QED
  BY <1>1, DeltaBegins, AdminHolds, GrantHolds, PTL DEF AdminSpec

(* A correction's write is a step of its own request, made under the lock. *)
LEMMA CorrectingStep ==
    ASSUME AdminInv, AdminInv', NEW a \in Admins, Corrects(a), Doing(a, "verifyRead")',
           [AdminNext]_adminVars
    PROVE  Corrected(a, admin[a], admin'[a]) /\ usage' = usage
<1>1. PICK r : r = admin[a]
  OBVIOUS
<1>2. r \in AdminRecords /\ r.at = "reconcileWrite" /\ admin'[a].at = "verifyRead"
  BY <1>1, Deciding DEF Corrects, Doing
<1>3. ASSUME NEW writes \in BOOLEAN, NEW cost \in Nat, admin'[a] = r \/ admin'[a] = Disturbed(r, writes, cost)
      PROVE  FALSE
  <2>1. admin'[a].at = r.at
    BY <1>2, <1>3, DisturbedGoesOn
  <2> QED
    BY <1>2, <2>1
<1>4. ASSUME admin' = admin PROVE FALSE
  <2>1. PICK writes \in BOOLEAN, cost \in Nat : TRUE
    OBVIOUS
  <2> QED
    BY <1>1, <1>3, <1>4
<1>5. ASSUME NEW writes \in BOOLEAN, NEW cost \in Nat, Meanwhile(writes, cost) PROVE FALSE
  <2>1. admin'[a] = r \/ admin'[a] = Disturbed(r, writes, cost)
    BY <1>1, <1>5 DEF Meanwhile
  <2> QED
    BY <1>3, <2>1
<1>6. ~(Passes \/ UNCHANGED adminVars)
  BY <1>4 DEF Passes, adminVars
<1>7. ASSUME NEW k \in Purchases, Purchase(k) PROVE FALSE
  <2>1. PICK writes \in BOOLEAN, cost \in Nat : writes = TRUE /\ cost = 0
    OBVIOUS
  <2> QED
    BY <1>5, <1>7, <2>1 DEF Purchase
<1>8. ASSUME NEW t \in Tasks, ChatStep(t) PROVE FALSE
  <2>1. PICK writes \in BOOLEAN : writes = (task[t].at \in {"poolSync", "refundSync"} /\ faults' = faults)
    OBVIOUS
  <2>2. Meanwhile(writes, task[t].cost) /\ task[t].cost \in Nat
    BY <1>8, <2>1, Acting DEF ChatStep, TaskRecords, AdminInv
  <2> QED
    BY <1>5, <2>2
<1>9. ASSUME NEW b \in Admins \ {a}, AdminStep(b) PROVE FALSE
  <2>1. PICK writes \in BOOLEAN, cost \in Nat : writes = TRUE /\ cost = 0
    OBVIOUS
  <2>2. admin'[a] = r \/ admin'[a] = Disturbed(r, writes, cost)
    BY <1>1, <1>9, <2>1, OthersAreLeft DEF OthersGoOn
  <2> QED
    BY <1>3, <2>2
<1>10. AdminStep(a)
  BY <1>6, <1>7, <1>8, <1>9 DEF AdminNext
<1>11. Proceeds(a, admin'[a])
  BY <1>10, ActionsProceed
<1> QED
  BY <1>1, <1>2, <1>11 DEF Proceeds, Rests, Reads, Starts, Cuts, Grants, Extends, Revokes, Corrected,
     Underway, AdminSteps

LEMMA CorrectionIsRelative ==
    ASSUME AdminInv, AdminInv', DeltaInv, NEW a \in Admins, Corrects(a), Doing(a, "verifyRead")',
           ~Overtaken(a), [AdminNext]_adminVars, NEW fair, fair = PoolRemaining(sub) + Asked(a).credits
    PROVE  PoolRemaining(sub)' \in AtLeastZero(fair - admin[a].moved - AtLeastZero(-admin[a].used))
                                       .. AtLeastZero(fair) + admin[a].moved
<1>1. PICK r : r = admin[a]
  OBVIOUS
<1>2. /\ r \in AdminRecords /\ AdminOK(r) /\ Relative(r) /\ r.at = "reconcileWrite"
      /\ body[r.id].kind = "delta" /\ ~r.retried
  BY <1>1, Deciding DEF DeltaInv, Corrects, Doing, Asked
<1>3. Corrected(a, r, admin'[a]) /\ usage' = usage
  BY <1>1, CorrectingStep
<1>4. r.current
  BY <1>1, <1>2, <1>3 DEF Corrected, LockHolds, Locks, Asked, Overtaken
<1>5. /\ r.desired <= AtLeastZero(Fair(r) + r.moved)
      /\ Fair(r) - r.moved - AtLeastZero(-r.used) <= Outcome(r)
  BY <1>2, <1>4 DEF Relative
<1>6. fair = Fair(r) /\ fair \in Int /\ UsedInPeriod(sub) \in Int
  BY <1>1, <1>2, CorrectionIsCounted DEF Fair, Asked
<1>7. PICK used \in Int, desired \in Nat, moved \in Nat, u \in Int, short \in Nat, out \in Nat :
          /\ used = r.used /\ desired = r.desired /\ moved = r.moved /\ u = UsedInPeriod(sub)
          /\ short = AtLeastZero(-used)
          /\ out = AtLeastZero(used + desired - Larger(u, AtLeastZero(used)))
  <2>1. r.used \in Int /\ r.desired \in Nat /\ r.moved \in Nat
    BY <1>2 DEF AdminRecords
  <2>2. PICK used \in Int, desired \in Nat, moved \in Nat, u \in Int :
            used = r.used /\ desired = r.desired /\ moved = r.moved /\ u = UsedInPeriod(sub)
    BY <1>6, <2>1
  <2>3. /\ AtLeastZero(-used) \in Nat
        /\ AtLeastZero(used + desired - Larger(u, AtLeastZero(used))) \in Nat
    BY DEF AtLeastZero, Larger
  <2> QED
    BY <2>2, <2>3
<1>8. out = Outcome(r)
  BY <1>7 DEF Outcome
<1>9. out \in 0 .. desired
  BY <1>7, OutcomeIsMeant
<1>10. PoolRemaining(sub)' = out
  <2>1. PICK s : s = sub
    OBVIOUS
  <2>2. PICK e : e = sub'
    OBVIOUS
  <2>3. PICK total \in Int : total = used + desired
    OBVIOUS
  <2>4. e = [s EXCEPT !.total = total, !.remaining = desired] /\ s \in Document(Purchases)
    BY <1>3, <1>7, <2>1, <2>2, <2>3 DEF Corrected, Reconciled, AdminInv, LedgerInv, DataOK
  <2>5. e.start = s.start /\ e.end = s.end /\ e.total = total /\ e.remaining = desired
    BY <2>4 DEF Document
  <2>6. UsedInPeriod(e)' = u
    BY <1>3, <1>7, <2>1, <2>5, UsageStays
  <2>7. UsedInPeriod(sub)' = u
    BY <2>2, <2>6
  <2>8. total - desired = used
    BY <2>3
  <2>9. PoolRemaining(sub)' = AtLeastZero(total - Larger(u, AtLeastZero(total - desired)))
    BY <2>2, <2>5, <2>7 DEF PoolRemaining
  <2>10. PoolRemaining(sub)' = AtLeastZero(used + desired - Larger(u, AtLeastZero(used)))
    <3>1. AtLeastZero(total - desired) = AtLeastZero(used)
      BY <2>8
    <3>2. PICK w \in Int : w = Larger(u, AtLeastZero(used))
      <4>1. Larger(u, AtLeastZero(used)) \in Int
        BY DEF AtLeastZero, Larger
      <4> QED
        BY <4>1
    <3>3. AtLeastZero(total - w) = AtLeastZero(used + desired - w)
      BY <2>3
    <3> QED
      BY <2>9, <3>1, <3>2, <3>3
  <2> QED
    BY <1>7, <2>10
<1>11. AtLeastZero(fair - moved - short) <= out
  <2>1. fair - moved - short <= out
    BY <1>5, <1>6, <1>7, <1>8
  <2> QED
    BY <1>6, <2>1 DEF AtLeastZero, Larger
<1>12. out <= AtLeastZero(fair) + moved
  <2>1. desired <= AtLeastZero(fair + moved)
    BY <1>5, <1>6, <1>7
  <2> QED
    BY <1>6, <1>9, <2>1 DEF AtLeastZero, Larger
<1>13. AtLeastZero(fair - moved - short) \in Int /\ AtLeastZero(fair) + moved \in Int
  BY <1>6 DEF AtLeastZero, Larger
<1>14. out \in AtLeastZero(fair - moved - short) .. AtLeastZero(fair) + moved
  BY <1>11, <1>12, <1>13
<1> QED
  BY <1>1, <1>7, <1>10, <1>14

(* A correction by so many credits corrects the balance of that moment,    *)
(* give or take charges and refunds that came in between: purchases and    *)
(* other actions are neither lost nor counted twice, unless an action goes *)
(* on to write again the document that it had written at the first read.   *)
THEOREM CorrectionsAreRelative == AdminSpec => DeltaIsRelative
<1>1. AdminInv /\ AdminInv' /\ DeltaInv /\ [AdminNext]_adminVars =>
          [\A a \in Admins :
              Corrects(a) /\ Doing(a, "verifyRead")' /\ ~Overtaken(a) =>
                  LET fair == PoolRemaining(sub) + Asked(a).credits
                      least == fair - admin[a].moved - AtLeastZero(-admin[a].used)
                  IN  PoolRemaining(sub)' \in AtLeastZero(least) .. AtLeastZero(fair) + admin[a].moved
          ]_adminVars
  BY CorrectionIsRelative
<1> QED
  BY <1>1, AdminHolds, DeltaHolds, PTL DEF AdminSpec, DeltaIsRelative

=============================================================================
