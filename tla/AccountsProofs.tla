--------------------------- MODULE AccountsProofs ---------------------------
(***************************************************************************)
(* The deletion of an account for any requests, chats and messages.        *)
(*                                                                         *)
(* ArchiveIsWhole is not inductive: the flag of the user is set by a       *)
(* request that has swept everything before, while others insert, activate *)
(* and share.  IInv adds what a request knows at each step (RequestOK).    *)
(* Forward lists what no step takes back; what a request knows is made of  *)
(* such facts, so it survives the steps of the others (RequestStays).      *)
(* LinksInv counts the links: those handed out for a message together with *)
(* those that requests are about to hand out are no more than the requests.*)
(***************************************************************************)
EXTENDS Accounts, FiniteSetTheorems, TLAPS

(***************************************************************************)
(* The inductive invariant.                                                *)
(***************************************************************************)
SweptSessions == \A d \in owed \cap Sessions : session[d].archived
SweptMessages == \A d \in owed \cap Messages : message[d].archived

GuardSteps == {"guard", "readStatus", "setCache"}
UserSteps == {"existing", "create", "insertUser"}
ChatSteps == {"findSession", "insertMessage", "activate", "archiveSession"}
ShareSteps == {"findMessage", "writeLink", "findLink", "parent"}
SweepSteps == {"sweepSessions", "sweepMessages", "archiveUser"}

(* What kind of request is at a step, and on what it works.                *)
KindOK(r) ==
    /\ r.at \in GuardSteps =>
           r.kind \in {"login", "block", "unblock", "createSession", "shareMessage", "deleteSession"}
    /\ r.at \in UserSteps => r.kind \in {"login", "signIn"}
    /\ r.at = "readUser" => r.kind \in {"createSession", "deleteAccount"}
    /\ r.at \in ChatSteps => r.kind \in {"addMessage", "deleteSession"}
    /\ r.at \in ShareSteps => r.kind \in {"shareMessage", "getShare"}
    /\ r.at # "idle" /\ r.kind \in {"addMessage", "deleteSession"} =>
           r.session \in Sessions /\ SessionExists(r.session)
    /\ r.at # "idle" /\ r.kind \in {"shareMessage", "getShare"} => r.message \in Messages

(* What it has found or done by then.                                      *)
StepOK(r) ==
    /\ r.link <= links
    /\ r.at = "writeLink" => r.link > 0
    /\ r.kind = "login" /\ r.late => user.archived /\ r.at \notin {"create", "insertUser", "saveAds"}
    /\ r.at = "saveAds" => user.exists /\ r.kind = "login"
    /\ r.at \in SweepSteps => user.exists /\ owed # None
    /\ r.at \in {"sweepMessages", "archiveUser"} => SweptSessions
    /\ r.at = "archiveUser" => SweptMessages

UserOK == user \in UserRecords /\ (user.archived \/ user.blocked \/ user.ads => user.exists)

ChatsOK ==
    /\ session \in [Sessions -> SessionRecords]
    /\ message \in [Messages -> MessageRecords]
    /\ \A m \in Messages : MessageExists(m) => SessionExists(message[m].session)

LinksOK ==
    /\ links \in 0 .. MaxLinks
    /\ handed \in [Messages -> SUBSET (1 .. MaxLinks)]
    /\ \A m \in Messages : message[m].link <= links /\ handed[m] \subseteq 1 .. links

CountersOK == cached \in Statuses \cup {None} /\ faults \in 0 .. MaxFaults

(* At most one request inserts the user.                                   *)
InsertionOK ==
    /\ created \in 0 .. 1
    /\ created = 1 => user.exists
    /\ \A c \in Calls : request[c].inserted => user.exists /\ created = 0
    /\ \A c, d \in Calls : request[c].inserted /\ request[d].inserted => c = d

OwedOK ==
    owed # None =>
        /\ \A d \in owed \cap Sessions : SessionExists(d)
        /\ \A d \in owed \cap Messages : MessageExists(d)

RequestsOK == request \in [Calls -> RequestRecords]

DataOK == UserOK /\ ChatsOK /\ LinksOK /\ CountersOK /\ OwedOK /\ ArchiveIsWhole

IInv ==
    /\ DataOK
    /\ InsertionOK
    /\ RequestsOK
    /\ \A c \in Calls : KindOK(request[c]) /\ StepOK(request[c])

(* What no step takes back.                                                *)
Forward ==
    /\ user.exists => user'.exists
    /\ user.archived => user'.archived
    /\ \A s \in Sessions : SessionExists(s) => SessionExists(s)'
    /\ \A s \in Sessions : session[s].archived => session'[s].archived
    /\ \A m \in Messages : MessageExists(m) => MessageExists(m)'
    /\ \A m \in Messages : message[m].archived => message'[m].archived
    /\ links <= links'
    /\ owed # None => owed' = owed

(***************************************************************************)
(* What one request knows survives the steps of the others.                *)
(***************************************************************************)
(* What a request has found or done stays true under every step that goes  *)
(* forward.                                                                *)
LEMMA RequestStays ==
    ASSUME Forward, DataOK, LinksOK', NEW r \in RequestRecords, KindOK(r), StepOK(r)
    PROVE  KindOK(r)' /\ StepOK(r)'
<1>1. KindOK(r)'
  BY DEF Forward, KindOK
<1>2. r.link <= links'
  BY DEF Forward, StepOK, DataOK, LinksOK, RequestRecords
<1>3. r.at \in {"sweepMessages", "archiveUser"} => SweptSessions'
  BY DEF Forward, StepOK, SweptSessions, SweepSteps
<1>4. r.at = "archiveUser" => SweptMessages'
  BY DEF Forward, StepOK, SweptMessages, SweepSteps
<1> QED
  BY <1>1, <1>2, <1>3, <1>4 DEF Forward, StepOK

(* Only the acting request and the data remain to be looked at.            *)
LEMMA OneRequestActs ==
    ASSUME IInv, DataOK', InsertionOK', Forward, NEW c \in Calls, NEW r \in RequestRecords,
           request' = [request EXCEPT ![c] = r], KindOK(r)', StepOK(r)'
    PROVE  IInv'
<1>1. RequestsOK'
  BY DEF IInv, RequestsOK
<1>2. LinksOK'
  BY DEF DataOK
<1>3. ASSUME NEW d \in Calls PROVE KindOK(request[d])' /\ StepOK(request[d])'
  <2>1. CASE d = c
    <3>1. request'[d] = r
      BY <2>1 DEF IInv, RequestsOK
    <3> QED
      BY <3>1 DEF KindOK, StepOK
  <2>2. CASE d # c
    <3>1. request'[d] = request[d] /\ request[d] \in RequestRecords
      BY <2>2 DEF IInv, RequestsOK
    <3>2. PICK q \in RequestRecords : q = request[d]
      BY <3>1
    <3>3. KindOK(q) /\ StepOK(q)
      BY <3>2 DEF IInv
    <3>4. KindOK(q)' /\ StepOK(q)'
      BY <3>3, <1>2, RequestStays DEF IInv
    <3> QED
      BY <3>1, <3>2, <3>4 DEF KindOK, StepOK
  <2> QED
    BY <2>1, <2>2
<1> QED
  BY <1>1, <1>3 DEF IInv

(* The insertions are as they were when no request is told of a new one.   *)
LEMMA InsertionStays ==
    ASSUME IInv, NEW c \in Calls, NEW r \in RequestRecords,
           request' = [request EXCEPT ![c] = r], r.inserted => request[c].inserted,
           created' = created, user.exists => user'.exists
    PROVE  InsertionOK'
<1>1. \A d \in Calls : request'[d].inserted => request[d].inserted
  BY DEF IInv, RequestsOK
<1> QED
  BY <1>1 DEF IInv, InsertionOK

(* A step of one request that writes at most to Redis.                     *)
LEMMA OnlyTheRequestMoves ==
    ASSUME IInv, NEW c \in Calls, NEW r \in RequestRecords, KindOK(r), StepOK(r),
           request' = [request EXCEPT ![c] = r], r.inserted => request[c].inserted,
           CountersOK', UNCHANGED <<user, session, message, links, owed, created, handed>>
    PROVE  IInv' /\ Forward
<1>1. DataOK'
  BY DEF IInv, DataOK, UserOK, ChatsOK, LinksOK, OwedOK, ArchiveIsWhole, SessionExists, MessageExists
<1>2. Forward
  BY DEF Forward, SessionExists, MessageExists, IInv, DataOK, LinksOK
<1>3. InsertionOK'
  BY InsertionStays
<1>4. KindOK(r)' /\ StepOK(r)'
  BY <1>1, <1>2, RequestStays DEF IInv, DataOK
<1> QED
  BY <1>1, <1>2, <1>3, <1>4, OneRequestActs

(* What holds of the request that acts.                                    *)
LEMMA Acting ==
    ASSUME IInv, NEW c \in Calls
    PROVE  request[c] \in RequestRecords /\ KindOK(request[c]) /\ StepOK(request[c])
  BY DEF IInv, RequestsOK

(* A request goes on to its next call of the database.                     *)
LEMMA RequestGoes ==
    ASSUME IInv, NEW c \in Calls, NEW step \in RequestSteps, ToStep(c, step),
           KindOK([request[c] EXCEPT !.at = step]), StepOK([request[c] EXCEPT !.at = step]),
           CountersOK', UNCHANGED <<user, session, message, links, owed, created, handed>>
    PROVE  IInv' /\ Forward
<1> DEFINE r == [request[c] EXCEPT !.at = step]
<1>1. r \in RequestRecords /\ r.inserted = request[c].inserted
  BY Acting DEF RequestRecords
<1>2. request' = [request EXCEPT ![c] = r]
  BY DEF ToStep, IInv, RequestsOK
<1>3. KindOK(r) /\ StepOK(r)
  OBVIOUS
<1> HIDE DEF r
<1> QED
  BY <1>1, <1>2, <1>3, OnlyTheRequestMoves

(* A request that is over knows nothing.                                   *)
LEMMA NothingIsOK ==
    ASSUME DataOK
    PROVE  NoRequest \in RequestRecords /\ KindOK(NoRequest) /\ StepOK(NoRequest)
<1>1. NoRequest \in RequestRecords
  BY AccountAssumption DEF NoRequest, RequestRecords, RequestSteps
<1>2. KindOK(NoRequest)
  BY DEF NoRequest, KindOK, GuardSteps, UserSteps, ChatSteps, ShareSteps
<1>3. StepOK(NoRequest)
  BY DEF NoRequest, StepOK, SweepSteps, DataOK, LinksOK
<1> QED
  BY <1>1, <1>2, <1>3

(* A request is answered, refused or lost.                                 *)
LEMMA RequestAnswers ==
    ASSUME IInv, NEW c \in Calls, Answers(c),
           CountersOK', UNCHANGED <<user, session, message, links, owed, created, handed>>
    PROVE  IInv' /\ Forward
<1>1. NoRequest \in RequestRecords /\ KindOK(NoRequest) /\ StepOK(NoRequest)
  BY NothingIsOK DEF IInv
<1>2. ~NoRequest.inserted
  BY DEF NoRequest
<1> QED
  BY <1>1, <1>2, OnlyTheRequestMoves DEF Answers

(* A request begins.                                                       *)
LEMMA RequestBegins ==
    ASSUME IInv, NEW c \in Calls, NEW kind \in Kinds, NEW step \in RequestSteps,
           NEW s \in Sessions \cup {None}, NEW m \in Messages \cup {None}, NEW l \in 0 .. links,
           Begins(c, kind, step, s, m, l),
           step \in {"guard", "existing", "readUser", "findSession", "findLink"},
           KindOK([kind |-> kind, at |-> step, saw |-> None, session |-> s, message |-> m,
                   link |-> l, inserted |-> FALSE, late |-> FALSE]),
           kind = "login" => step = "guard",
           UNCHANGED <<user, cached, session, message, links, faults, owed, created, handed>>
    PROVE  IInv' /\ Forward
<1> DEFINE late == \/ kind = "login" /\ user.archived
                   \/ kind = "getShare" /\ session[s].archived
           r == [kind |-> kind, at |-> step, saw |-> None, session |-> s, message |-> m,
                 link |-> l, inserted |-> FALSE, late |-> late]
<1>1. request' = [request EXCEPT ![c] = r]
  BY DEF Begins
<1>2. late \in BOOLEAN
  OBVIOUS
<1>3. l \in 0 .. MaxLinks /\ l <= links
  BY AccountAssumption DEF IInv, DataOK, LinksOK
<1>4. r \in RequestRecords
  BY <1>2, <1>3 DEF RequestRecords
<1>5. KindOK(r)
  BY DEF KindOK
<1>6. StepOK(r)
  BY <1>3 DEF StepOK, SweepSteps
<1>7. CountersOK'
  BY DEF IInv, DataOK, CountersOK
<1>8. ~r.inserted
  OBVIOUS
<1> HIDE DEF r
<1> QED
  BY <1>1, <1>4, <1>5, <1>6, <1>7, <1>8, OnlyTheRequestMoves

(***************************************************************************)
(* Requests that begin, are lost, or only read.                            *)
(***************************************************************************)
(* A request begins: nothing is written yet.                               *)
LEMMA RequestsBegin ==
    ASSUME IInv, NEW c \in Calls, SignsIn(c) \/ Blocks(c) \/ Requests(c) \/ DeleteAccount(c)
    PROVE  IInv' /\ Forward
<1> USE DEF RequestSteps, Kinds
<1>0. 0 \in 0 .. links
  BY AccountAssumption DEF IInv, DataOK, LinksOK
<1>1. ASSUME NEW kind \in {"login", "block", "unblock", "createSession"},
             Begins(c, kind, "guard", None, None, 0),
             UNCHANGED <<user, cached, session, message, links, faults, owed, created, handed>>
      PROVE  IInv' /\ Forward
  BY <1>0, <1>1, RequestBegins
     DEF KindOK, GuardSteps, UserSteps, ChatSteps, ShareSteps
<1>2. CASE SignsIn(c)
  <2>1. CASE Begins(c, "signIn", "existing", None, None, 0)
    BY <1>0, <1>2, <2>1, RequestBegins
       DEF SignsIn, historyVars, KindOK, GuardSteps, UserSteps, ChatSteps, ShareSteps
  <2> QED
    BY <1>1, <1>2, <2>1 DEF SignsIn, historyVars
<1>3. CASE Blocks(c)
  BY <1>1, <1>3 DEF Blocks, historyVars
<1>4. CASE Requests(c)
  <2> USE DEF KindOK, GuardSteps, UserSteps, ChatSteps, ShareSteps
  <2>0. UNCHANGED <<user, cached, session, message, links, faults, owed, created, handed>>
    BY <1>4 DEF Requests, historyVars
  <2>1. ASSUME NEW s \in Sessions, SessionExists(s), Begins(c, "addMessage", "findSession", s, None, 0)
        PROVE  IInv' /\ Forward
    BY <1>0, <2>0, <2>1, RequestBegins
  <2>2. ASSUME NEW s \in Sessions, SessionExists(s), Begins(c, "deleteSession", "guard", s, None, 0)
        PROVE  IInv' /\ Forward
    BY <1>0, <2>0, <2>2, RequestBegins
  <2>3. ASSUME NEW m \in Messages
        PROVE  message[m].session \in Sessions \cup {None} /\ handed[m] \subseteq 0 .. links
    BY DEF IInv, DataOK, ChatsOK, LinksOK, MessageRecords
  <2>4. ASSUME NEW m \in Messages, Begins(c, "shareMessage", "guard", message[m].session, m, 0)
        PROVE  IInv' /\ Forward
    BY <1>0, <2>0, <2>3, <2>4, RequestBegins
  <2>5. ASSUME NEW m \in Messages, NEW l \in handed[m],
               Begins(c, "getShare", "findLink", message[m].session, m, l)
        PROVE  IInv' /\ Forward
    BY <2>0, <2>3, <2>5, RequestBegins
  <2> HIDE DEF KindOK, GuardSteps, UserSteps, ChatSteps, ShareSteps
  <2> QED
    BY <1>1, <1>4, <2>0, <2>1, <2>2, <2>4, <2>5 DEF Requests
<1>5. CASE DeleteAccount(c)
  BY <1>0, <1>5, RequestBegins
     DEF DeleteAccount, historyVars, KindOK, GuardSteps, UserSteps, ChatSteps, ShareSteps
<1> QED
  BY <1>2, <1>3, <1>4, <1>5

(* The step that follows the guard is one of the kind's own.               *)
LEMMA FirstStepIsOK ==
    ASSUME NEW q \in RequestRecords, q.at \in GuardSteps, KindOK(q), StepOK(q)
    PROVE  /\ FirstStep(q.kind) \in RequestSteps
           /\ KindOK([q EXCEPT !.at = FirstStep(q.kind)])
           /\ StepOK([q EXCEPT !.at = FirstStep(q.kind)])
<1>1. PICK first : first = FirstStep(q.kind)
  OBVIOUS
<1>2. /\ q.kind = "login" => first = "existing"
      /\ q.kind \in {"block", "unblock"} => first = "setBlocked"
      /\ q.kind = "createSession" => first = "readUser"
      /\ q.kind = "shareMessage" => first = "findMessage"
      /\ q.kind = "deleteSession" => first = "findSession"
  BY <1>1 DEF FirstStep
<1>3. first \in {"existing", "setBlocked", "readUser", "findMessage", "findSession"}
  BY <1>2 DEF KindOK
<1>4. first \in RequestSteps
  BY <1>3 DEF RequestSteps
<1>5. KindOK([q EXCEPT !.at = first])
  BY <1>2, <1>3 DEF RequestRecords, KindOK, GuardSteps, UserSteps, ChatSteps, ShareSteps
<1>6. StepOK([q EXCEPT !.at = first])
  BY <1>3 DEF RequestRecords, StepOK, SweepSteps
<1> QED
  BY <1>1, <1>4, <1>5, <1>6

(* What the guard has seen is no part of what a request knows.             *)
LEMMA SeeingIsOK ==
    ASSUME NEW q \in RequestRecords, KindOK(q), StepOK(q), NEW saw \in Statuses \cup {None}
    PROVE  LET r == [q EXCEPT !.saw = saw]
           IN  /\ r \in RequestRecords /\ KindOK(r) /\ StepOK(r)
               /\ r.at = q.at /\ r.inserted = q.inserted
<1> DEFINE r == [q EXCEPT !.saw = saw]
<1>1. /\ r \in RequestRecords
      /\ r.at = q.at /\ r.kind = q.kind /\ r.session = q.session /\ r.message = q.message
      /\ r.link = q.link /\ r.late = q.late /\ r.inserted = q.inserted
  BY DEF RequestRecords
<1> HIDE DEF r
<1>2. KindOK(r)
  BY <1>1 DEF KindOK
<1>3. StepOK(r)
  BY <1>1 DEF StepOK
<1> QED
  BY <1>1, <1>2, <1>3 DEF r

(* A request that passes or is refused by the guard.                       *)
LEMMA RequestIsLetIn ==
    ASSUME IInv, NEW c \in Calls, NEW q \in RequestRecords, NEW status, LetIn(c, status, q),
           q.at \in GuardSteps, KindOK(q), StepOK(q), q.inserted => request[c].inserted,
           CountersOK', UNCHANGED <<user, session, message, links, owed, created, handed>>
    PROVE  IInv' /\ Forward
<1>1. CASE Answers(c)
  BY <1>1, RequestAnswers
<1>2. CASE ~Answers(c)
  <2> DEFINE r == [q EXCEPT !.at = FirstStep(q.kind)]
  <2>1. request' = [request EXCEPT ![c] = r]
    BY <1>2 DEF LetIn
  <2>2. FirstStep(q.kind) \in RequestSteps /\ KindOK(r) /\ StepOK(r)
    BY FirstStepIsOK
  <2>3. r \in RequestRecords /\ r.inserted = q.inserted
    BY <2>2 DEF RequestRecords
  <2> HIDE DEF r
  <2> QED
    BY <2>1, <2>2, <2>3, OnlyTheRequestMoves
<1> QED
  BY <1>1, <1>2

(* The guard lets a request in or refuses it.                              *)
LEMMA GuardPasses ==
    ASSUME IInv, NEW c \in Calls, Guard(c) \/ ReadStatus(c) \/ SetCache(c)
    PROVE  IInv' /\ Forward
<1>1. request[c] \in RequestRecords /\ KindOK(request[c]) /\ StepOK(request[c])
  BY Acting
<1>2. UNCHANGED <<user, session, message, links, faults, owed, created, handed>>
  BY DEF Guard, ReadStatus, SetCache, historyVars
<1>3. CASE Guard(c)
  <2>1. CountersOK'
    BY <1>2, <1>3 DEF Guard, IInv, DataOK, CountersOK
  <2>2. request[c].at = "guard"
    BY <1>3 DEF Guard, At
  <2>3. CASE ToStep(c, "readStatus")
    <3>1. KindOK([request[c] EXCEPT !.at = "readStatus"])
      BY <1>1, <2>2 DEF RequestRecords, KindOK, GuardSteps, UserSteps, ChatSteps, ShareSteps
    <3>2. StepOK([request[c] EXCEPT !.at = "readStatus"])
      BY <1>1, <2>2 DEF RequestRecords, StepOK, SweepSteps
    <3> QED
      BY <1>2, <2>1, <2>3, <3>1, <3>2, RequestGoes DEF RequestSteps
  <2>4. CASE LetIn(c, cached, request[c])
    <3>1. PICK q \in RequestRecords : q = request[c]
      BY <1>1
    <3>2. q.at \in GuardSteps /\ KindOK(q) /\ StepOK(q) /\ (q.inserted => request[c].inserted)
      BY <1>1, <2>2, <3>1 DEF GuardSteps
    <3>3. LetIn(c, cached, q)
      BY <2>4, <3>1
    <3> QED
      BY <1>2, <2>1, <3>2, <3>3, RequestIsLetIn
  <2> QED
    BY <1>3, <2>3, <2>4 DEF Guard
<1>4. CASE ReadStatus(c)
  <2> DEFINE p == [request[c] EXCEPT !.at = "setCache"]
             r == [p EXCEPT !.saw = StatusOf(user)]
  <2>0. request[c].at = "readStatus" /\ request' = [request EXCEPT ![c] = r]
    BY <1>4 DEF ReadStatus, At
  <2>1. StatusOf(user) \in Statuses \cup {None}
    BY DEF StatusOf, Statuses, IInv, DataOK, UserOK, UserRecords
  <2>2. p \in RequestRecords /\ p.inserted = request[c].inserted
    BY <1>1 DEF RequestRecords, RequestSteps
  <2>3. KindOK(p)
    BY <1>1, <2>0 DEF RequestRecords, KindOK, GuardSteps, UserSteps, ChatSteps, ShareSteps
  <2>4. StepOK(p)
    BY <1>1, <2>0 DEF RequestRecords, StepOK, SweepSteps
  <2>5. CountersOK'
    BY <1>4 DEF ReadStatus, IInv, DataOK, CountersOK
  <2> HIDE DEF p
  <2>6. r \in RequestRecords /\ KindOK(r) /\ StepOK(r) /\ r.inserted = p.inserted
    BY <2>1, <2>2, <2>3, <2>4, SeeingIsOK
  <2> HIDE DEF r
  <2> QED
    BY <1>2, <2>0, <2>2, <2>5, <2>6, OnlyTheRequestMoves
<1>5. CASE SetCache(c)
  <2> DEFINE q == [request[c] EXCEPT !.saw = None]
  <2>1. q \in RequestRecords /\ KindOK(q) /\ StepOK(q)
        /\ q.at = request[c].at /\ q.inserted = request[c].inserted
    BY <1>1, SeeingIsOK
  <2>2. CountersOK'
    BY <1>1, <1>2, <1>5 DEF SetCache, IInv, DataOK, CountersOK, RequestRecords
  <2>3. LetIn(c, request[c].saw, q) /\ request[c].at \in GuardSteps
    BY <1>5 DEF SetCache, At, GuardSteps
  <2> HIDE DEF q
  <2> QED
    BY <1>2, <2>1, <2>2, <2>3, RequestIsLetIn
<1> QED
  BY <1>3, <1>4, <1>5

(* The reads of users, chats, messages and links.                          *)
LEMMA RequestReads ==
    ASSUME IInv, NEW c \in Calls,
           Existing(c) \/ Create(c) \/ FindSession(c) \/ FindLink(c) \/ Parent(c)
    PROVE  IInv' /\ Forward
<1> USE DEF RequestSteps
<1>1. request[c] \in RequestRecords /\ KindOK(request[c]) /\ StepOK(request[c])
  BY Acting
<1>2. /\ UNCHANGED <<user, cached, session, message, links, faults, owed, created, handed>>
      /\ CountersOK'
  BY DEF Existing, Create, FindSession, FindLink, Parent, historyVars, IInv, DataOK, CountersOK
<1>3. CASE Answers(c)
  BY <1>2, <1>3, RequestAnswers
<1>4. ASSUME NEW step \in RequestSteps, ToStep(c, step),
             \/ step \in {"saveAds", "invalidate"} /\ user.exists
                                                  /\ request[c].kind = "login"
                                                  /\ (request[c].late => step = "invalidate")
             \/ step \in {"create", "insertUser"} /\ ~user.archived
                                                 /\ request[c].kind \in {"login", "signIn"}
             \/ step \in {"insertMessage", "archiveSession"} /\ request[c].at \in ChatSteps
             \/ step = "parent" /\ request[c].at \in ShareSteps
      PROVE  IInv' /\ Forward
  <2>1. KindOK([request[c] EXCEPT !.at = step])
    BY <1>1, <1>4 DEF RequestRecords, KindOK, GuardSteps, UserSteps, ChatSteps, ShareSteps
  <2>2. StepOK([request[c] EXCEPT !.at = step])
    BY <1>1, <1>4 DEF RequestRecords, StepOK, SweepSteps, ChatSteps, ShareSteps, KindOK
  <2> QED
    BY <1>2, <1>4, <2>1, <2>2, RequestGoes
<1>5. CASE Existing(c)
  BY <1>1, <1>3, <1>4, <1>5 DEF Existing, At, SavesAds, Proceeds, KindOK, StepOK, UserSteps,
     IInv, DataOK, UserOK
<1>6. CASE Create(c)
  BY <1>1, <1>3, <1>4, <1>6 DEF Create, At, Proceeds, KindOK, StepOK, UserSteps,
     IInv, DataOK, UserOK
<1>7. CASE FindSession(c)
  BY <1>3, <1>4, <1>7 DEF FindSession, At, Proceeds, ChatSteps
<1>8. CASE FindLink(c)
  BY <1>3, <1>4, <1>8 DEF FindLink, At, Proceeds, ShareSteps
<1>9. CASE Parent(c)
  BY <1>3, <1>9 DEF Parent
<1> QED
  BY <1>5, <1>6, <1>7, <1>8, <1>9

(***************************************************************************)
(* Requests that write.                                                    *)
(***************************************************************************)
(* The record of a request that goes on.                                   *)
LEMMA Moving ==
    ASSUME IInv, NEW c \in Calls, NEW step \in RequestSteps, ToStep(c, step)
    PROVE  \E r \in RequestRecords :
              /\ request' = [request EXCEPT ![c] = r]
              /\ r.at = step /\ r.kind = request[c].kind /\ r.session = request[c].session
              /\ r.message = request[c].message /\ r.link = request[c].link
              /\ r.late = request[c].late /\ r.inserted = request[c].inserted
<1> DEFINE r == [request[c] EXCEPT !.at = step]
<1>1. request' = [request EXCEPT ![c] = r]
  BY DEF ToStep, IInv, RequestsOK
<1>2. /\ r \in RequestRecords
      /\ r.at = step /\ r.kind = request[c].kind /\ r.session = request[c].session
      /\ r.message = request[c].message /\ r.link = request[c].link
      /\ r.late = request[c].late /\ r.inserted = request[c].inserted
  BY Acting DEF RequestRecords
<1> HIDE DEF r
<1> QED
  BY <1>1, <1>2

(* A request that writes and goes on.                                      *)
LEMMA WriterMoves ==
    ASSUME IInv, DataOK', Forward, NEW c \in Calls, NEW r \in RequestRecords,
           request' = [request EXCEPT ![c] = r], KindOK(r), StepOK(r)',
           r.inserted => request[c].inserted, created' = created
    PROVE  IInv'
<1>1. InsertionOK'
  BY InsertionStays DEF Forward
<1>2. KindOK(r)'
  BY DEF Forward, KindOK
<1> QED
  BY <1>1, <1>2, OneRequestActs

(* A request that writes last.                                             *)
LEMMA WriterAnswers ==
    ASSUME IInv, DataOK', Forward, NEW c \in Calls, Answers(c), created' = created
    PROVE  IInv'
<1>1. NoRequest \in RequestRecords /\ KindOK(NoRequest) /\ StepOK(NoRequest)
  BY NothingIsOK DEF IInv
<1>2. PICK r \in RequestRecords : r = NoRequest
  BY <1>1
<1>3. KindOK(r) /\ StepOK(r) /\ ~r.inserted
  BY <1>1, <1>2 DEF NoRequest
<1>4. StepOK(r)'
  BY <1>3, RequestStays DEF IInv, DataOK
<1>5. request' = [request EXCEPT ![c] = r]
  BY <1>2 DEF Answers
<1> QED
  BY <1>3, <1>4, <1>5, WriterMoves

(* What deletion owes stays settled when chats and messages are written.   *)
LEMMA DebtStays ==
    ASSUME IInv, Forward, UserOK', ChatsOK', LinksOK', CountersOK',
           owed' = owed, user'.archived = user.archived
    PROVE  DataOK'
  BY DEF DataOK, OwedOK, ArchiveIsWhole, Forward, IInv

(* Chats are created, activated and deleted, messages inserted.            *)
LEMMA ChatsAreWritten ==
    ASSUME IInv, NEW c \in Calls,
           InsertSession(c) \/ InsertMessage(c) \/ Activate(c) \/ ArchiveSession(c)
    PROVE  IInv' /\ Forward
<1> USE DEF historyVars
<1>1. request[c] \in RequestRecords /\ KindOK(request[c]) /\ StepOK(request[c])
  BY Acting
<1>2. /\ UNCHANGED <<user, cached, links, faults, owed, created, handed>>
      /\ UserOK' /\ CountersOK'
  BY DEF InsertSession, InsertMessage, Activate, ArchiveSession, IInv, DataOK, UserOK, CountersOK
<1>3. session \in [Sessions -> SessionRecords] /\ message \in [Messages -> MessageRecords]
  BY DEF IInv, DataOK, ChatsOK
<1>4. ASSUME request[c].at \in ChatSteps
      PROVE  request[c].session \in Sessions /\ SessionExists(request[c].session)
  BY <1>1, <1>4 DEF KindOK, ChatSteps
<1>5. CASE InsertSession(c)
  <2>1. PICK s \in Sessions : /\ session[s].status = "none"
                              /\ session' = [session EXCEPT ![s].status = "draft"]
    BY <1>5 DEF InsertSession
  <2>2. message' = message /\ Answers(c)
    BY <1>5 DEF InsertSession
  <2>3. /\ session' \in [Sessions -> SessionRecords]
        /\ \A x \in Sessions : session'[x].archived = session[x].archived
        /\ \A x \in Sessions : SessionExists(x) => SessionExists(x)'
    BY <1>3, <2>1 DEF SessionRecords, SessionExists
  <2>4. Forward
    BY <1>2, <2>2, <2>3 DEF Forward, MessageExists, IInv, DataOK, LinksOK
  <2>5. ChatsOK'
    BY <2>2, <2>3 DEF IInv, DataOK, ChatsOK, MessageExists, MessageRecords
  <2>6. LinksOK'
    BY <1>2, <2>2 DEF IInv, DataOK, LinksOK
  <2>7. DataOK'
    BY <1>2, <2>4, <2>5, <2>6, DebtStays
  <2> QED
    BY <1>2, <2>2, <2>4, <2>7, WriterAnswers
<1>6. CASE InsertMessage(c)
  <2>1. request[c].session \in Sessions /\ SessionExists(request[c].session)
    BY <1>4, <1>6 DEF InsertMessage, At, ChatSteps
  <2>2. PICK m \in Messages : /\ ~MessageExists(m)
                              /\ message' = [message EXCEPT ![m].session = request[c].session]
    BY <1>6 DEF InsertMessage
  <2>3. session' = session /\ ToStep(c, "activate") /\ request[c].at = "insertMessage"
    BY <1>6 DEF InsertMessage, At
  <2>4. /\ message' \in [Messages -> MessageRecords]
        /\ \A x \in Messages : message'[x].archived = message[x].archived
        /\ \A x \in Messages : message'[x].link = message[x].link
        /\ \A x \in Messages : x # m => message'[x].session = message[x].session
        /\ message'[m].session = request[c].session
    BY <1>3, <2>1, <2>2 DEF MessageRecords
  <2>5. \A x \in Messages : MessageExists(x) => MessageExists(x)'
    BY <2>2, <2>4 DEF MessageExists
  <2>6. Forward
    BY <1>2, <2>3, <2>4, <2>5 DEF Forward, SessionExists, IInv, DataOK, LinksOK
  <2>7. ChatsOK'
    <3>1. ASSUME NEW x \in Messages, MessageExists(x)' PROVE SessionExists(message[x].session)'
      <4>1. CASE x = m
        BY <2>1, <2>3, <2>4, <4>1 DEF SessionExists
      <4>2. CASE x # m
        BY <2>3, <2>4, <3>1, <4>2 DEF IInv, DataOK, ChatsOK, MessageExists, SessionExists
      <4> QED
        BY <4>1, <4>2
    <3> QED
      BY <1>3, <2>3, <2>4, <3>1 DEF ChatsOK
  <2>8. LinksOK'
    BY <1>2, <2>4 DEF IInv, DataOK, LinksOK
  <2>9. DataOK'
    BY <1>2, <2>6, <2>7, <2>8, DebtStays
  <2>10. PICK r \in RequestRecords :
            /\ request' = [request EXCEPT ![c] = r]
            /\ r.at = "activate" /\ r.kind = request[c].kind /\ r.session = request[c].session
            /\ r.message = request[c].message /\ r.link = request[c].link
            /\ r.late = request[c].late /\ r.inserted = request[c].inserted
    BY <2>3, Moving DEF RequestSteps
  <2>11. KindOK(r)
    BY <1>1, <2>3, <2>10 DEF KindOK, GuardSteps, UserSteps, ChatSteps, ShareSteps
  <2>12. StepOK(r)
    BY <1>1, <2>3, <2>10 DEF StepOK, SweepSteps
  <2>13. StepOK(r)'
    BY <2>6, <2>8, <2>11, <2>12, RequestStays DEF IInv
  <2> QED
    BY <1>2, <2>6, <2>9, <2>10, <2>11, <2>13, WriterMoves
<1>7. CASE Activate(c) \/ ArchiveSession(c)
  <2>1. request[c].session \in Sessions /\ SessionExists(request[c].session)
    BY <1>4, <1>7 DEF Activate, ArchiveSession, At, ChatSteps
  <2>2. message' = message /\ Answers(c)
    BY <1>7 DEF Activate, ArchiveSession
  <2>3. /\ session' \in [Sessions -> SessionRecords]
        /\ \A x \in Sessions : session[x].archived => session'[x].archived
        /\ \A x \in Sessions : SessionExists(x) => SessionExists(x)'
    BY <1>3, <1>7, <2>1 DEF Activate, ArchiveSession, SessionRecords, SessionExists
  <2>4. Forward
    BY <1>2, <2>2, <2>3 DEF Forward, MessageExists, IInv, DataOK, LinksOK
  <2>5. ChatsOK'
    BY <2>2, <2>3 DEF IInv, DataOK, ChatsOK, MessageExists, MessageRecords
  <2>6. LinksOK'
    BY <1>2, <2>2 DEF IInv, DataOK, LinksOK
  <2>7. DataOK'
    BY <1>2, <2>4, <2>5, <2>6, DebtStays
  <2> QED
    BY <1>2, <2>2, <2>4, <2>7, WriterAnswers
<1> QED
  BY <1>5, <1>6, <1>7

(* A link is drawn, handed out again, or written to its message.           *)
LEMMA LinksAreWritten ==
    ASSUME IInv, NEW c \in Calls, FindMessage(c) \/ WriteLink(c)
    PROVE  IInv' /\ Forward
<1> USE DEF historyVars
<1>1. request[c] \in RequestRecords /\ KindOK(request[c]) /\ StepOK(request[c])
  BY Acting
<1>2. /\ UNCHANGED <<user, cached, session, faults, owed, created>>
      /\ UserOK' /\ CountersOK'
  BY DEF FindMessage, WriteLink, IInv, DataOK, UserOK, CountersOK
<1>3. /\ session \in [Sessions -> SessionRecords] /\ message \in [Messages -> MessageRecords]
      /\ links \in 0 .. MaxLinks /\ handed \in [Messages -> SUBSET (1 .. MaxLinks)]
      /\ \A m \in Messages : message[m].link <= links /\ handed[m] \subseteq 1 .. links
  BY DEF IInv, DataOK, ChatsOK, LinksOK
<1>4. ASSUME request[c].at \in ShareSteps
      PROVE  request[c].message \in Messages
  BY <1>1, <1>4 DEF KindOK, ShareSteps
<1>5. CASE FindMessage(c)
  <2> DEFINE m == request[c].message
  <2>1. request[c].at = "findMessage" /\ m \in Messages /\ message' = message
    BY <1>4, <1>5 DEF FindMessage, At, ShareSteps
  <2>2. CASE Answers(c) /\ UNCHANGED <<links, handed>>
    BY <1>2, <2>1, <2>2, RequestAnswers
  <2>3. CASE /\ Shared(m) /\ Answers(c) /\ UNCHANGED links
             /\ handed' = [handed EXCEPT ![m] = @ \cup {message[m].link}]
    <3>1. message[m].link \in 1 .. links
      BY <1>3, <2>1, <2>3 DEF Shared, MessageRecords
    <3>2. LinksOK'
      <4> HIDE DEF m
      <4>1. PICK l : l = message[m].link
        OBVIOUS
      <4>2. l \in 1 .. links /\ l \in 1 .. MaxLinks
        BY <1>3, <3>1, <4>1, AccountAssumption
      <4>3. handed' = [handed EXCEPT ![m] = @ \cup {l}]
        BY <2>3, <4>1
      <4>4. handed' \in [Messages -> SUBSET (1 .. MaxLinks)]
        BY <1>3, <4>2, <4>3
      <4>5. ASSUME NEW x \in Messages PROVE handed'[x] \subseteq 1 .. links
        BY <1>3, <2>1, <4>2, <4>3
      <4> QED
        BY <1>3, <2>1, <2>3, <4>4, <4>5 DEF LinksOK
    <3>3. ChatsOK'
      BY <1>2, <2>1 DEF IInv, DataOK, ChatsOK, MessageExists, SessionExists
    <3>4. Forward
      BY <1>2, <1>3, <2>1, <2>3 DEF Forward, SessionExists, MessageExists
    <3>5. DataOK'
      BY <1>2, <3>2, <3>3, <3>4, DebtStays
    <3> QED
      BY <1>2, <2>3, <3>4, <3>5, WriterAnswers
  <2>4. CASE /\ links < MaxLinks /\ links' = links + 1 /\ UNCHANGED handed
             /\ request' = [request EXCEPT
                    ![c] = [request[c] EXCEPT !.at = "writeLink", !.link = links + 1]]
    <3> DEFINE p == [request[c] EXCEPT !.at = "writeLink"]
               r == [p EXCEPT !.link = links + 1]
    <3>1. request' = [request EXCEPT ![c] = r]
      BY <2>4
    <3>2. LinksOK'
      BY <1>3, <2>1, <2>4, AccountAssumption DEF LinksOK, MessageRecords
    <3>3. ChatsOK'
      BY <1>2, <2>1 DEF IInv, DataOK, ChatsOK, MessageExists, SessionExists
    <3>4. Forward
      BY <1>2, <1>3, <2>1, <2>4 DEF Forward, SessionExists, MessageExists
    <3>5. DataOK'
      BY <1>2, <3>2, <3>3, <3>4, DebtStays
    <3>6. /\ p \in RequestRecords /\ p.inserted = request[c].inserted
          /\ p.at = "writeLink" /\ p.kind = request[c].kind /\ p.session = request[c].session
          /\ p.message = request[c].message /\ p.late = request[c].late
      BY <1>1 DEF RequestRecords, RequestSteps
    <3> HIDE DEF p
    <3>7. links + 1 \in 0 .. MaxLinks
      BY <1>3, <2>4, AccountAssumption
    <3>8. /\ r \in RequestRecords /\ r.inserted = p.inserted /\ r.link = links + 1
          /\ r.at = p.at /\ r.kind = p.kind /\ r.session = p.session
          /\ r.message = p.message /\ r.late = p.late
      BY <3>6, <3>7 DEF RequestRecords
    <3> HIDE DEF r
    <3>9. PICK q \in RequestRecords : q = r
      BY <3>8
    <3>10. KindOK(q)
      BY <1>1, <2>1, <3>6, <3>8, <3>9 DEF KindOK, GuardSteps, UserSteps, ChatSteps, ShareSteps
    <3>11. StepOK(q)'
      BY <1>1, <1>2, <1>3, <2>1, <2>4, <3>6, <3>8, <3>9 DEF StepOK, SweepSteps
    <3> QED
      BY <1>2, <3>1, <3>4, <3>5, <3>6, <3>8, <3>9, <3>10, <3>11, WriterMoves
  <2> QED
    BY <1>5, <2>2, <2>3, <2>4 DEF FindMessage
<1>6. CASE WriteLink(c)
  <2> DEFINE m == request[c].message
  <2>1. /\ request[c].at = "writeLink" /\ m \in Messages /\ Answers(c) /\ links' = links
        /\ message' = [message EXCEPT ![m].link = request[c].link]
        /\ handed' = [handed EXCEPT ![m] = @ \cup {request[c].link}]
    BY <1>4, <1>6 DEF WriteLink, At, ShareSteps
  <2>2. request[c].link \in 1 .. links /\ request[c].link \in 0 .. MaxLinks
    BY <1>1, <1>3, <2>1 DEF StepOK, RequestRecords
  <2> HIDE DEF m
  <2>3. /\ message' \in [Messages -> MessageRecords]
        /\ \A x \in Messages : message'[x].archived = message[x].archived
        /\ \A x \in Messages : message'[x].session = message[x].session
        /\ \A x \in Messages : x # m => message'[x].link = message[x].link
        /\ message'[m].link = request[c].link
    BY <1>3, <2>1, <2>2 DEF MessageRecords
  <2>4. Forward
    BY <1>2, <1>3, <2>1, <2>3 DEF Forward, SessionExists, MessageExists
  <2>5. ChatsOK'
    BY <1>2, <2>3 DEF IInv, DataOK, ChatsOK, MessageExists, SessionExists
  <2>6. ASSUME NEW x \in Messages
        PROVE  message'[x].link <= links /\ handed'[x] \subseteq 1 .. links
    <3>1. CASE x = m
      BY <1>3, <2>1, <2>2, <2>3, <3>1
    <3>2. CASE x # m
      BY <1>3, <2>1, <2>3, <3>2
    <3> QED
      BY <3>1, <3>2
  <2>7. handed' \in [Messages -> SUBSET (1 .. MaxLinks)]
    BY <1>3, <2>1, <2>2
  <2>8. LinksOK'
    BY <1>3, <2>1, <2>6, <2>7 DEF LinksOK
  <2>9. DataOK'
    BY <1>2, <2>4, <2>5, <2>8, DebtStays
  <2> QED
    BY <1>2, <2>1, <2>4, <2>9, WriterAnswers
<1> QED
  BY <1>5, <1>6

(* The user is written, but for the flag of deletion.                      *)
LEMMA UserIsWritten ==
    ASSUME IInv, UserOK', user.exists => user'.exists, user'.archived = user.archived,
           UNCHANGED <<cached, session, message, links, faults, owed, handed>>
    PROVE  DataOK' /\ Forward
<1>1. Forward
  BY DEF Forward, SessionExists, MessageExists, IInv, DataOK, LinksOK
<1>2. ChatsOK' /\ LinksOK' /\ CountersOK'
  BY DEF IInv, DataOK, ChatsOK, LinksOK, CountersOK, SessionExists, MessageExists
<1> QED
  BY <1>1, <1>2, DebtStays

(* A user is inserted once: of the requests that find none, one is told.   *)
LEMMA UserIsInserted ==
    ASSUME IInv, NEW c \in Calls, InsertUser(c)
    PROVE  IInv' /\ Forward
<1> USE DEF historyVars
<1>1. request[c] \in RequestRecords /\ KindOK(request[c]) /\ StepOK(request[c])
  BY Acting
<1>2. /\ UNCHANGED <<cached, session, message, links, faults, owed, created, handed>>
      /\ user' = [user EXCEPT !.exists = TRUE] /\ request[c].at = "insertUser"
  BY DEF InsertUser, At
<1>3. user \in UserRecords
  BY DEF IInv, DataOK, UserOK
<1>4. UserOK' /\ user'.exists /\ user'.archived = user.archived
  BY <1>2, <1>3 DEF UserOK, UserRecords
<1>5. DataOK' /\ Forward
  BY <1>2, <1>4, UserIsWritten
<1>6. CASE Answers(c)
  BY <1>2, <1>5, <1>6, WriterAnswers
<1>7. CASE /\ request[c].kind = "login"
           /\ request' = [request EXCEPT
                ![c] = [request[c] EXCEPT !.at = "saveAds", !.inserted = ~user.exists]]
  <2> DEFINE p == [request[c] EXCEPT !.at = "saveAds"]
             r == [p EXCEPT !.inserted = ~user.exists]
  <2>1. request' = [request EXCEPT ![c] = r]
    BY <1>7
  <2>2. /\ p \in RequestRecords /\ p.link = request[c].link
        /\ p.at = "saveAds" /\ p.kind = request[c].kind /\ p.session = request[c].session
        /\ p.message = request[c].message /\ p.late = request[c].late
    BY <1>1 DEF RequestRecords, RequestSteps
  <2> HIDE DEF p
  <2>3. /\ r \in RequestRecords /\ r.link = p.link
        /\ r.at = p.at /\ r.kind = p.kind /\ r.session = p.session
        /\ r.message = p.message /\ r.late = p.late
    BY <2>2 DEF RequestRecords
  <2>4. r.inserted => ~user.exists
    BY <2>2 DEF RequestRecords
  <2> HIDE DEF r
  <2>5. PICK q \in RequestRecords : q = r
    BY <2>3
  <2>6. KindOK(q)
    BY <1>1, <1>7, <2>2, <2>3, <2>5 DEF KindOK, GuardSteps, UserSteps, ChatSteps, ShareSteps
  <2>7. KindOK(q)'
    BY <1>5, <2>6 DEF Forward, KindOK
  <2>8. StepOK(q)'
    BY <1>1, <1>2, <1>4, <1>7, <2>2, <2>3, <2>5 DEF StepOK, SweepSteps
  <2>9. request' = [request EXCEPT ![c] = q] /\ (q.inserted => ~user.exists)
    BY <2>1, <2>4, <2>5
  <2>10. request'[c] = q /\ \A d \in Calls : d # c => request'[d] = request[d]
    BY <2>9 DEF IInv, RequestsOK
  <2>11. \A d \in Calls : request[d].inserted => user.exists
    BY DEF IInv, InsertionOK
  <2>12. q.inserted => created = 0
    BY <2>9 DEF IInv, InsertionOK
  <2>13. \A d \in Calls : request'[d].inserted => created = 0
    BY <2>10, <2>12 DEF IInv, InsertionOK
  <2>14. \A d, e \in Calls : request'[d].inserted /\ request'[e].inserted => d = e
    BY <2>9, <2>10, <2>11 DEF IInv, InsertionOK
  <2>15. InsertionOK'
    BY <1>2, <1>4, <2>13, <2>14 DEF IInv, InsertionOK
  <2> QED
    BY <1>5, <2>7, <2>8, <2>9, <2>15, OneRequestActs
<1> QED
  BY <1>6, <1>7 DEF InsertUser

(* Advertising ids are saved, users blocked and unblocked.                 *)
LEMMA UserIsChanged ==
    ASSUME IInv, NEW c \in Calls, SaveAds(c) \/ SetBlocked(c)
    PROVE  IInv' /\ Forward
<1> USE DEF historyVars
<1>1. request[c] \in RequestRecords /\ KindOK(request[c]) /\ StepOK(request[c])
  BY Acting
<1>2. UNCHANGED <<cached, session, message, links, faults, owed, created, handed>>
  BY DEF SaveAds, SetBlocked
<1>3. user \in UserRecords /\ (user.archived \/ user.blocked \/ user.ads => user.exists)
  BY DEF IInv, DataOK, UserOK
<1>4. CASE Answers(c) /\ UNCHANGED user
  BY <1>2, <1>4, RequestAnswers DEF IInv, DataOK, CountersOK
<1>5. ASSUME ToStep(c, "invalidate"), UserOK', user.exists => user'.exists,
             user'.archived = user.archived
      PROVE  IInv' /\ Forward
  <2>1. DataOK' /\ Forward
    BY <1>2, <1>5, UserIsWritten
  <2>2. PICK r \in RequestRecords :
            /\ request' = [request EXCEPT ![c] = r]
            /\ r.at = "invalidate" /\ r.kind = request[c].kind /\ r.session = request[c].session
            /\ r.message = request[c].message /\ r.link = request[c].link
            /\ r.late = request[c].late /\ r.inserted = request[c].inserted
    BY <1>5, Moving DEF RequestSteps
  <2>3. request[c].at # "idle"
    BY DEF SaveAds, SetBlocked, At
  <2>4. KindOK(r)
    BY <1>1, <2>2, <2>3 DEF KindOK, GuardSteps, UserSteps, ChatSteps, ShareSteps
  <2>5. StepOK(r)
    BY <1>1, <2>2 DEF StepOK, SweepSteps
  <2>6. StepOK(r)'
    BY <2>1, <2>4, <2>5, RequestStays DEF IInv, DataOK
  <2> QED
    BY <1>2, <2>1, <2>2, <2>4, <2>6, WriterMoves
<1>6. CASE SaveAds(c)
  <2>1. user.exists /\ user' = [user EXCEPT !.ads = TRUE] /\ ToStep(c, "invalidate")
    BY <1>1, <1>6 DEF SaveAds, At, StepOK
  <2>2. UserOK' /\ user'.exists /\ user'.archived = user.archived
    BY <1>3, <2>1 DEF UserOK, UserRecords
  <2> QED
    BY <1>5, <2>1, <2>2
<1>7. CASE SetBlocked(c) /\ ~(Answers(c) /\ UNCHANGED user)
  <2> DEFINE blocks == request[c].kind = "block"
             u == [user EXCEPT !.exists = TRUE]
  <2>1. user' = [u EXCEPT !.blocked = blocks] /\ ToStep(c, "invalidate")
    BY <1>7 DEF SetBlocked
  <2>2. u \in UserRecords /\ u.exists /\ u.archived = user.archived /\ u.ads = user.ads
    BY <1>3 DEF UserRecords
  <2> HIDE DEF u
  <2>3. blocks \in BOOLEAN
    OBVIOUS
  <2> HIDE DEF blocks
  <2>4. UserOK' /\ user'.exists /\ user'.archived = user.archived
    BY <2>1, <2>2, <2>3 DEF UserOK, UserRecords
  <2> QED
    BY <1>5, <2>1, <2>4
<1> QED
  BY <1>4, <1>6, <1>7

(* The cached status is removed, and a sign-up is answered 201 only if it  *)
(* inserted the user.                                                      *)
LEMMA StatusIsRemoved ==
    ASSUME IInv, NEW c \in Calls, Invalidate(c)
    PROVE  IInv' /\ Forward
<1> USE DEF historyVars
<1>1. /\ UNCHANGED <<user, session, message, links, faults, owed, handed>>
      /\ cached' = None /\ Answers(c)
      /\ created' = IF request[c].inserted THEN created + 1 ELSE created
  BY DEF Invalidate
<1>2. DataOK'
  BY <1>1 DEF IInv, DataOK, UserOK, ChatsOK, LinksOK, CountersOK, OwedOK, ArchiveIsWhole,
     SessionExists, MessageExists
<1>3. Forward
  BY <1>1 DEF Forward, SessionExists, MessageExists, IInv, DataOK, LinksOK
<1>4. NoRequest \in RequestRecords /\ KindOK(NoRequest) /\ StepOK(NoRequest) /\ ~NoRequest.inserted
  BY NothingIsOK DEF IInv, NoRequest
<1>5. PICK r \in RequestRecords : r = NoRequest
  BY <1>4
<1>6. KindOK(r)' /\ StepOK(r)'
  BY <1>2, <1>3, <1>4, <1>5, RequestStays DEF IInv, DataOK
<1>7. request' = [request EXCEPT ![c] = r] /\ ~r.inserted
  BY <1>1, <1>4, <1>5 DEF Answers
<1>8. request'[c] = r /\ \A d \in Calls : d # c => request'[d] = request[d]
  BY <1>7 DEF IInv, RequestsOK
<1>9. CASE request[c].inserted
  <2>1. created' = 1 /\ user'.exists
    BY <1>1, <1>9 DEF IInv, InsertionOK
  <2>2. \A d \in Calls : ~request'[d].inserted
    BY <1>7, <1>8, <1>9 DEF IInv, InsertionOK
  <2>3. InsertionOK'
    BY <2>1, <2>2 DEF InsertionOK
  <2> QED
    BY <1>2, <1>3, <1>6, <1>7, <2>3, OneRequestActs
<1>10. CASE ~request[c].inserted
  <2>1. InsertionOK'
    BY <1>1, <1>7, <1>10, InsertionStays
  <2> QED
    BY <1>2, <1>3, <1>6, <1>7, <2>1, OneRequestActs
<1> QED
  BY <1>9, <1>10

(***************************************************************************)
(* Deletion.                                                               *)
(***************************************************************************)
(* The first deletion that finds the user notes what exists.               *)
LEMMA UserIsRead ==
    ASSUME IInv, NEW c \in Calls, ReadUser(c)
    PROVE  IInv' /\ Forward
<1> USE DEF historyVars
<1> DEFINE deletes == request[c].kind = "deleteAccount"
           step == IF deletes THEN "sweepSessions" ELSE "insertSession"
<1>1. request[c] \in RequestRecords /\ KindOK(request[c]) /\ StepOK(request[c])
  BY Acting
<1>2. /\ request[c].at = "readUser" /\ Proceeds(c, user.exists, step)
      /\ owed' = IF deletes /\ user.exists /\ owed = None THEN Owned ELSE owed
      /\ UNCHANGED <<user, cached, session, message, links, faults, created, handed>>
  BY DEF ReadUser, At
<1>3. Owned \in SUBSET (Sessions \cup Messages) /\ Owned # None
  BY AccountAssumption DEF Owned
<1>4. Forward
  BY <1>2 DEF Forward, SessionExists, MessageExists, IInv, DataOK, LinksOK
<1>5. UserOK' /\ ChatsOK' /\ LinksOK' /\ CountersOK'
  BY <1>2 DEF IInv, DataOK, UserOK, ChatsOK, LinksOK, CountersOK, SessionExists, MessageExists
<1>6. OwedOK'
  <2>1. \A d \in Owned \cap Sessions : SessionExists(d)
    BY AccountAssumption DEF Owned
  <2>2. \A d \in Owned \cap Messages : MessageExists(d)
    BY AccountAssumption DEF Owned
  <2> QED
    BY <1>2, <2>1, <2>2 DEF IInv, DataOK, OwedOK, SessionExists, MessageExists
<1>7. ArchiveIsWhole'
  BY <1>2 DEF IInv, DataOK, ArchiveIsWhole
<1>8. DataOK'
  BY <1>5, <1>6, <1>7 DEF DataOK
<1>9. CASE Answers(c)
  BY <1>2, <1>4, <1>8, <1>9, WriterAnswers
<1>10. CASE user.exists /\ ToStep(c, step)
  <2>0. step \in RequestSteps
    BY DEF RequestSteps
  <2>1. PICK r \in RequestRecords :
            /\ request' = [request EXCEPT ![c] = r]
            /\ r.at = step /\ r.kind = request[c].kind /\ r.session = request[c].session
            /\ r.message = request[c].message /\ r.link = request[c].link
            /\ r.late = request[c].late /\ r.inserted = request[c].inserted
    BY <1>10, <2>0, Moving
  <2>2. KindOK(r)
    BY <1>1, <1>2, <2>1 DEF KindOK, GuardSteps, UserSteps, ChatSteps, ShareSteps
  <2>3. r.at \in SweepSteps => deletes /\ r.at = "sweepSessions"
    BY <2>1 DEF SweepSteps
  <2>4. owed' # None \/ ~deletes
    BY <1>2, <1>3, <1>10
  <2>5. StepOK(r)'
    BY <1>1, <1>2, <1>10, <2>1, <2>3, <2>4 DEF StepOK
  <2> QED
    BY <1>2, <1>4, <1>8, <2>1, <2>2, <2>5, WriterMoves
<1> QED
  BY <1>2, <1>9, <1>10 DEF Proceeds

(* The chats, the messages, and at last the user are stamped.              *)
LEMMA Sweeps ==
    ASSUME IInv, NEW c \in Calls, SweepSessions(c) \/ SweepMessages(c) \/ ArchiveUser(c)
    PROVE  IInv' /\ Forward
<1> USE DEF historyVars
<1>1. request[c] \in RequestRecords /\ KindOK(request[c]) /\ StepOK(request[c])
  BY Acting
<1>2. UNCHANGED <<cached, links, faults, owed, created, handed>> /\ CountersOK'
  BY DEF SweepSessions, SweepMessages, ArchiveUser, IInv, DataOK, CountersOK
<1>3. session \in [Sessions -> SessionRecords] /\ message \in [Messages -> MessageRecords]
  BY DEF IInv, DataOK, ChatsOK
<1>4. owed # None /\ user.exists /\ OwedOK
  BY <1>1 DEF SweepSessions, SweepMessages, ArchiveUser, At, StepOK, SweepSteps, IInv, DataOK
<1>5. ASSUME DataOK', Forward, NEW step \in {"sweepMessages", "archiveUser", "invalidate"},
             ToStep(c, step), step # "invalidate" => SweptSessions',
             step = "archiveUser" => SweptMessages', request[c].at \in SweepSteps
      PROVE  IInv'
  <2>1. PICK r \in RequestRecords :
            /\ request' = [request EXCEPT ![c] = r]
            /\ r.at = step /\ r.kind = request[c].kind /\ r.session = request[c].session
            /\ r.message = request[c].message /\ r.link = request[c].link
            /\ r.late = request[c].late /\ r.inserted = request[c].inserted
    BY <1>5, Moving DEF RequestSteps
  <2>2. KindOK(r)
    BY <1>1, <1>5, <2>1 DEF KindOK, GuardSteps, UserSteps, ChatSteps, ShareSteps, SweepSteps
  <2>3. r.kind = "login" /\ r.late => user'.archived
    BY <1>1, <1>5, <2>1 DEF StepOK, Forward
  <2>4. StepOK(r)'
    BY <1>1, <1>2, <1>4, <1>5, <2>1, <2>3 DEF StepOK, Forward, SweepSteps
  <2> QED
    BY <1>2, <1>5, <2>1, <2>2, <2>4, WriterMoves
<1>6. CASE SweepSessions(c)
  <2>1. /\ UNCHANGED <<user, message>> /\ ToStep(c, "sweepMessages")
        /\ request[c].at \in SweepSteps
    BY <1>6 DEF SweepSessions, At, SweepSteps
  <2>2. /\ session' \in [Sessions -> SessionRecords]
        /\ \A x \in Sessions : session[x].archived => session'[x].archived
        /\ \A x \in Sessions : SessionExists(x) => SessionExists(x)'
        /\ \A x \in Sessions : SessionExists(x) => session'[x].archived
    BY <1>3, <1>6 DEF SweepSessions, SessionRecords, SessionExists
  <2>3. Forward
    BY <1>2, <2>1, <2>2 DEF Forward, MessageExists, IInv, DataOK, LinksOK
  <2>4. ChatsOK'
    BY <2>1, <2>2 DEF IInv, DataOK, ChatsOK, MessageExists, MessageRecords
  <2>5. LinksOK' /\ UserOK'
    BY <1>2, <2>1 DEF IInv, DataOK, LinksOK, UserOK
  <2>6. DataOK'
    BY <1>2, <2>1, <2>3, <2>4, <2>5, DebtStays
  <2>7. SweptSessions'
    BY <1>2, <1>4, <2>2 DEF SweptSessions, OwedOK
  <2> QED
    BY <1>5, <2>1, <2>3, <2>6, <2>7
<1>7. CASE SweepMessages(c)
  <2>1. /\ UNCHANGED <<user, session>> /\ ToStep(c, "archiveUser")
        /\ request[c].at \in SweepSteps /\ SweptSessions
    BY <1>1, <1>7 DEF SweepMessages, At, SweepSteps, StepOK
  <2>2. /\ message' \in [Messages -> MessageRecords]
        /\ \A x \in Messages : message[x].archived => message'[x].archived
        /\ \A x \in Messages : message'[x].session = message[x].session
        /\ \A x \in Messages : message'[x].link = message[x].link
        /\ \A x \in Messages : MessageExists(x) => message'[x].archived
    BY <1>3, <1>7 DEF SweepMessages, MessageRecords, MessageExists
  <2>3. Forward
    BY <1>2, <2>1, <2>2 DEF Forward, MessageExists, SessionExists, IInv, DataOK, LinksOK
  <2>4. ChatsOK'
    BY <1>3, <2>1, <2>2 DEF IInv, DataOK, ChatsOK, MessageExists, SessionExists
  <2>5. LinksOK' /\ UserOK'
    BY <1>2, <2>1, <2>2 DEF IInv, DataOK, LinksOK, UserOK
  <2>6. DataOK'
    BY <1>2, <2>1, <2>3, <2>4, <2>5, DebtStays
  <2>7. SweptMessages' /\ SweptSessions'
    BY <1>2, <1>4, <2>1, <2>2 DEF SweptMessages, SweptSessions, OwedOK
  <2> QED
    BY <1>5, <2>1, <2>3, <2>6, <2>7
<1>8. CASE ArchiveUser(c)
  <2>1. /\ UNCHANGED <<session, message>> /\ ToStep(c, "invalidate")
        /\ request[c].at \in SweepSteps /\ SweptSessions /\ SweptMessages
        /\ user' = IF user.archived THEN user
                   ELSE [user EXCEPT !.archived = TRUE, !.ads = FALSE]
    BY <1>1, <1>8 DEF ArchiveUser, At, SweepSteps, StepOK
  <2>2. user \in UserRecords
    BY DEF IInv, DataOK, UserOK
  <2>3. user'.archived /\ user' \in UserRecords /\ user'.exists
    <3>1. CASE user.archived
      BY <1>4, <2>1, <2>2, <3>1
    <3>2. CASE ~user.archived
      <4> DEFINE u == [user EXCEPT !.archived = TRUE]
      <4>1. user' = [u EXCEPT !.ads = FALSE]
        BY <2>1, <3>2
      <4>2. u \in UserRecords /\ u.archived /\ u.exists
        BY <1>4, <2>2 DEF UserRecords
      <4> HIDE DEF u
      <4> QED
        BY <4>1, <4>2 DEF UserRecords
    <3> QED
      BY <3>1, <3>2
  <2>4. Forward
    BY <1>2, <2>1, <2>3 DEF Forward, MessageExists, SessionExists, IInv, DataOK, LinksOK
  <2>5. ChatsOK' /\ LinksOK' /\ OwedOK'
    BY <1>2, <2>1 DEF IInv, DataOK, ChatsOK, LinksOK, OwedOK, MessageExists, SessionExists
  <2>6. ArchiveIsWhole'
    BY <1>2, <1>4, <2>1 DEF ArchiveIsWhole, SweptSessions, SweptMessages
  <2>7. DataOK'
    BY <1>2, <2>3, <2>5, <2>6 DEF DataOK, UserOK
  <2> QED
    BY <1>5, <2>1, <2>4, <2>7
<1> QED
  BY <1>6, <1>7, <1>8

(***************************************************************************)
(* Faults, the cache, and requests that are over at once.                  *)
(***************************************************************************)
(* A request is lost, or a failure of Redis is swallowed.                  *)
LEMMA RequestFails ==
    ASSUME IInv, NEW c \in Calls, LoseRequest(c) \/ Swallowed(c)
    PROVE  IInv' /\ Forward
<1> USE DEF historyVars
<1>1. request[c] \in RequestRecords /\ KindOK(request[c]) /\ StepOK(request[c])
  BY Acting
<1>2. /\ UNCHANGED <<user, session, message, links, owed, created, handed>>
      /\ CountersOK'
  BY AccountAssumption DEF LoseRequest, Swallowed, IInv, DataOK, CountersOK
<1>3. CASE Answers(c)
  BY <1>2, <1>3, RequestAnswers
<1>4. CASE At(c, "saveAds") /\ ToStep(c, "invalidate")
  <2>1. KindOK([request[c] EXCEPT !.at = "invalidate"])
    BY <1>1, <1>4 DEF At, RequestRecords, KindOK, GuardSteps, UserSteps, ChatSteps, ShareSteps
  <2>2. StepOK([request[c] EXCEPT !.at = "invalidate"])
    BY <1>1, <1>4 DEF At, RequestRecords, StepOK, SweepSteps
  <2> QED
    BY <1>2, <1>4, <2>1, <2>2, RequestGoes DEF RequestSteps
<1>5. CASE At(c, "setCache") /\ LetIn(c, request[c].saw, [request[c] EXCEPT !.saw = None])
  <2> DEFINE q == [request[c] EXCEPT !.saw = None]
  <2>1. q \in RequestRecords /\ KindOK(q) /\ StepOK(q)
        /\ q.at = request[c].at /\ q.inserted = request[c].inserted
    BY <1>1, SeeingIsOK
  <2>2. LetIn(c, request[c].saw, q) /\ request[c].at \in GuardSteps
    BY <1>5 DEF At, GuardSteps
  <2> HIDE DEF q
  <2> QED
    BY <1>2, <2>1, <2>2, RequestIsLetIn
<1> QED
  BY <1>3, <1>4, <1>5 DEF LoseRequest, Swallowed

(* What Redis holds expires, messages are listed, or nothing happens.      *)
LEMMA NoRequestActs ==
    ASSUME IInv, CacheExpires \/ ListMessages \/ UNCHANGED vars
    PROVE  IInv' /\ Forward
<1>1. /\ UNCHANGED <<user, session, message, request, links, faults, owed, created, handed>>
      /\ cached' \in {None, cached}
  BY DEF CacheExpires, ListMessages, vars, accountVars, historyVars
<1>2. DataOK'
  BY <1>1 DEF IInv, DataOK, UserOK, ChatsOK, LinksOK, CountersOK, OwedOK, ArchiveIsWhole,
     SessionExists, MessageExists
<1>3. Forward
  BY <1>1 DEF Forward, SessionExists, MessageExists, IInv, DataOK, LinksOK
<1>4. InsertionOK' /\ RequestsOK'
  BY <1>1 DEF IInv, InsertionOK, RequestsOK
<1>5. ASSUME NEW c \in Calls PROVE KindOK(request[c])' /\ StepOK(request[c])'
  <2>1. PICK q \in RequestRecords : q = request[c]
    BY Acting
  <2>2. KindOK(q) /\ StepOK(q)
    BY <2>1, Acting
  <2>3. KindOK(q)' /\ StepOK(q)'
    BY <1>2, <1>3, <2>2, RequestStays DEF IInv, DataOK
  <2> QED
    BY <1>1, <2>1, <2>3 DEF KindOK, StepOK
<1> QED
  BY <1>2, <1>3, <1>4, <1>5 DEF IInv

(***************************************************************************)
(* The theorems.                                                           *)
(***************************************************************************)
(* The invariant holds when nothing exists but perhaps the user.           *)
LEMMA InitIsOK ==
    ASSUME Init
    PROVE  IInv
<1> USE AccountAssumption DEF Init
<1>1. UserOK
  BY DEF UserOK, UserRecords
<1>2. ChatsOK
  BY DEF ChatsOK, SessionRecords, MessageRecords, MessageExists
<1>3. LinksOK
  BY DEF LinksOK
<1>4. CountersOK /\ OwedOK
  BY DEF CountersOK, OwedOK
<1>5. ArchiveIsWhole
  BY DEF ArchiveIsWhole
<1>6. DataOK
  BY <1>1, <1>2, <1>3, <1>4, <1>5 DEF DataOK
<1>7. NoRequest \in RequestRecords /\ KindOK(NoRequest) /\ StepOK(NoRequest) /\ ~NoRequest.inserted
  BY <1>6, NothingIsOK DEF NoRequest
<1>8. InsertionOK
  BY <1>7 DEF InsertionOK
<1> QED
  BY <1>6, <1>7, <1>8 DEF IInv, RequestsOK

(* Every step keeps the invariant and goes forward.                        *)
LEMMA StepsAreOK ==
    ASSUME IInv, [Next]_vars
    PROVE  IInv' /\ Forward
<1>1. ASSUME NEW c \in Calls, RequestStep(c) PROVE IInv' /\ Forward
  <2>1. CASE SignInStep(c)
    BY <2>1, GuardPasses, RequestReads, UserIsInserted, UserIsChanged, StatusIsRemoved
       DEF SignInStep
  <2>2. CASE ConversationStep(c)
    BY <2>2, ChatsAreWritten, RequestReads, LinksAreWritten DEF ConversationStep
  <2>3. CASE DeletionStep(c)
    BY <2>3, UserIsRead, Sweeps DEF DeletionStep
  <2> QED
    BY <1>1, <2>1, <2>2, <2>3 DEF RequestStep
<1>2. ASSUME NEW c \in Calls,
             \/ SignsIn(c) \/ Blocks(c) \/ Requests(c) \/ DeleteAccount(c)
             \/ LoseRequest(c) \/ Swallowed(c)
      PROVE  IInv' /\ Forward
  BY <1>2, RequestsBegin, RequestFails
<1> QED
  BY <1>1, <1>2, NoRequestActs DEF Next

(* What every request knows is true in every reachable state.              *)
THEOREM Consistent == Spec => []IInv
  BY InitIsOK, StepsAreOK, PTL DEF Spec

(* Types, and at most one sign-up is answered 201, however many race.      *)
THEOREM AccountsAreConsistent == Spec => []AccountsOK
<1>1. IInv => AccountsOK
  BY DEF IInv, DataOK, UserOK, ChatsOK, LinksOK, CountersOK, InsertionOK, RequestsOK, AccountsOK
<1> QED
  BY <1>1, Consistent, PTL

(* When the user is archived, all is archived that existed when deletion   *)
(* was first asked for, whatever was lost, repeated or served meanwhile.   *)
THEOREM DeletionIsWhole == Spec => []ArchiveIsWhole
<1>1. IInv => ArchiveIsWhole
  BY DEF IInv, DataOK
<1> QED
  BY <1>1, Consistent, PTL

(* No request brings back what was deleted.                                *)
THEOREM DeletionIsFinal == Spec => NothingIsRevived
<1>1. IInv /\ [Next]_vars =>
        [/\ user.archived => user'.archived
         /\ \A s \in Sessions : session[s].archived => session'[s].archived
         /\ \A m \in Messages : message[m].archived => message'[m].archived]_vars
  BY StepsAreOK DEF Forward
<1> QED
  BY <1>1, Consistent, PTL DEF Spec, NothingIsRevived

(* Nothing but a login writes advertising ids.                             *)
LEMMA AdsAreSaved ==
    ASSUME IInv, [Next]_vars, ~user.ads, user'.ads
    PROVE  \E c \in Calls : SaveAds(c)
<1>1. user \in UserRecords
  BY DEF IInv, DataOK, UserOK
<1>2. ASSUME NEW c \in Calls, InsertUser(c) PROVE FALSE
  BY <1>1, <1>2 DEF InsertUser, UserRecords
<1>3. ASSUME NEW c \in Calls, SetBlocked(c) PROVE FALSE
  <2> DEFINE u == [user EXCEPT !.exists = TRUE]
             blocks == request[c].kind = "block"
  <2>1. user' = [u EXCEPT !.blocked = blocks]
    BY <1>3 DEF SetBlocked
  <2>2. u.ads = user.ads /\ u \in UserRecords
    BY <1>1 DEF UserRecords
  <2> HIDE DEF u, blocks
  <2> QED
    BY <2>1, <2>2 DEF UserRecords
<1>4. ASSUME NEW c \in Calls, ArchiveUser(c) PROVE FALSE
  <2> DEFINE u == [user EXCEPT !.archived = TRUE]
  <2>1. user' = user \/ user' = [u EXCEPT !.ads = FALSE]
    BY <1>4 DEF ArchiveUser
  <2>2. u \in UserRecords
    BY <1>1 DEF UserRecords
  <2> HIDE DEF u
  <2> QED
    BY <2>1, <2>2 DEF UserRecords
<1>5. CASE \E c \in Calls : RequestStep(c)
  <2>1. PICK c \in Calls : RequestStep(c)
    BY <1>5
  <2>2. CASE SignInStep(c) /\ ~SaveAds(c)
    BY <1>2, <1>3, <2>2 DEF SignInStep, Guard, ReadStatus, SetCache, Existing, Create, Invalidate
  <2>3. CASE ConversationStep(c)
    BY <2>3 DEF ConversationStep, InsertSession, FindSession, InsertMessage, Activate,
       ArchiveSession, FindMessage, WriteLink, FindLink, Parent
  <2>4. CASE DeletionStep(c)
    BY <1>4, <2>4 DEF DeletionStep, ReadUser, SweepSessions, SweepMessages
  <2> QED
    BY <2>1, <2>2, <2>3, <2>4 DEF RequestStep
<1>6. CASE ~\E c \in Calls : RequestStep(c)
  BY <1>6 DEF Next, SignsIn, Blocks, Requests, DeleteAccount, LoseRequest, Swallowed,
     CacheExpires, ListMessages, vars, accountVars
<1> QED
  BY <1>5, <1>6

(* Ids that deletion has removed are written only by a login that had      *)
(* begun before.                                                           *)
THEOREM AdIdsAreGone == Spec => AdIdsStayGone
<1>1. IInv /\ [Next]_vars =>
        [user.archived /\ ~user.ads /\ user'.ads =>
           \E c \in Calls : At(c, "saveAds") /\ ~request[c].late]_vars
  <2> SUFFICES ASSUME IInv, [Next]_vars, ~user.ads, user'.ads
               PROVE  \E c \in Calls : At(c, "saveAds") /\ ~request[c].late
    OBVIOUS
  <2>1. PICK c \in Calls : SaveAds(c)
    BY AdsAreSaved
  <2>2. At(c, "saveAds") /\ StepOK(request[c])
    BY <2>1, Acting DEF SaveAds
  <2> QED
    BY <2>2 DEF At, StepOK
<1> QED
  BY <1>1, Consistent, PTL DEF Spec, AdIdsStayGone

(***************************************************************************)
(* The links of a message.                                                 *)
(***************************************************************************)
(* The requests that found the message without a link and have drawn one.  *)
Writing(m) == {c \in Calls : At(c, "writeLink") /\ request[c].message = m}

(* Every link handed out was drawn by one of the requests that all found   *)
(* the message without one; the first of them that writes ends this.       *)
LinkOK(m) ==
    /\ Cardinality(handed[m]) + Cardinality(Writing(m)) <= Cardinality(Calls)
    /\ IF message[m].link = 0 THEN handed[m] = {} ELSE message[m].link \in handed[m]
    /\ handed[m] # {} => MessageExists(m)

(* What a request is about stays so from its first step to its last.       *)
AimOK(r) ==
    r.at # "idle" =>
        /\ r.late => r.kind \in {"login", "getShare"}
        /\ r.late /\ r.kind = "getShare" => r.session \in Sessions /\ session[r.session].archived
        /\ r.kind \in {"shareMessage", "getShare"} => r.message \in Messages /\ MessageExists(r.message)

Unshown == \A m \in Messages : <<"link", m>> \notin shown

LinksInv ==
    /\ \A m \in Messages : LinkOK(m)
    /\ \A c \in Calls : AimOK(request[c])
    /\ Unshown

(* A request that is served keeps its aim until it is over.                *)
Serves(c, r) ==
    /\ request' = [request EXCEPT ![c] = r]
    /\ \/ r.at = "idle"
       \/ /\ request[c].at # "idle"
          /\ r.kind = request[c].kind /\ r.late = request[c].late
          /\ r.session = request[c].session /\ r.message = request[c].message

LEMMA AimStays ==
    ASSUME Forward, NEW r, AimOK(r)
    PROVE  AimOK(r)'
  BY DEF Forward, AimOK

LEMMA AimsAreKept ==
    ASSUME IInv, LinksInv, Forward, NEW c \in Calls, NEW r \in RequestRecords, Serves(c, r)
    PROVE  \A d \in Calls : AimOK(request[d])'
<1>1. ASSUME NEW d \in Calls PROVE AimOK(request[d])'
  <2>1. PICK q \in RequestRecords : q = request[d]
    BY Acting
  <2>2. AimOK(q)'
    BY <2>1, AimStays DEF LinksInv
  <2>3. PICK p \in RequestRecords : p = request'[d]
    BY DEF Serves, IInv, RequestsOK
  <2>4. \/ p.at = "idle"
        \/ /\ q.at # "idle"
           /\ p.kind = q.kind /\ p.late = q.late /\ p.session = q.session /\ p.message = q.message
        \/ p = q
    BY <2>1, <2>3 DEF Serves, IInv, RequestsOK
  <2>5. AimOK(p)'
    BY <2>2, <2>4 DEF AimOK
  <2> QED
    BY <2>3, <2>5 DEF AimOK
<1> QED
  BY <1>1

LEMMA WritingIsFinite ==
    ASSUME NEW m
    PROVE  /\ IsFiniteSet(Writing(m)) /\ Cardinality(Writing(m)) \in Nat
           /\ Cardinality(Calls) \in Nat /\ Cardinality(Writing(m)) <= Cardinality(Calls)
<1>1. Writing(m) \subseteq Calls
  BY DEF Writing
<1> QED
  BY <1>1, AccountAssumption, FS_Subset, FS_CardinalityType

LEMMA HandedIsFinite ==
    ASSUME IInv, NEW m \in Messages
    PROVE  IsFiniteSet(handed[m]) /\ Cardinality(handed[m]) \in Nat
<1>1. handed[m] \subseteq 1 .. MaxLinks
  BY DEF IInv, DataOK, LinksOK
<1>2. IsFiniteSet(1 .. MaxLinks)
  <2>1. 1 \in Int /\ MaxLinks \in Int
    BY AccountAssumption
  <2> QED
    BY <2>1, FS_Interval
<1> QED
  BY <1>1, <1>2, FS_Subset, FS_CardinalityType

(* A step that writes no link and after which no more requests write one.  *)
LEMMA LinkStays ==
    ASSUME IInv, LinksInv, Forward, handed' = handed, NEW m \in Messages,
           message'[m].link = message[m].link,
           \A d \in Calls : request'[d].at = "writeLink" => request'[d] = request[d]
    PROVE  LinkOK(m)'
<1>1. Writing(m)' \subseteq Writing(m)
  BY DEF Writing, At
<1>2. LinkOK(m)
  BY DEF LinksInv
<1>3. IsFiniteSet(Writing(m)) /\ Cardinality(Writing(m)) \in Nat /\ Cardinality(Calls) \in Nat
  BY WritingIsFinite
<1>4. Cardinality(Writing(m)') \in Nat /\ Cardinality(Writing(m)') <= Cardinality(Writing(m))
  BY <1>1, <1>3, FS_Subset, FS_CardinalityType
<1>5. Cardinality(handed[m]) \in Nat
  BY HandedIsFinite
<1>6. Cardinality(handed[m]) + Cardinality(Writing(m)') <= Cardinality(Calls)
  BY <1>2, <1>3, <1>4, <1>5 DEF LinkOK
<1>7. Cardinality(handed[m])' + Cardinality(Writing(m))' <= Cardinality(Calls)
  BY <1>6
<1> QED
  BY <1>2, <1>7 DEF LinkOK, Forward

(* A request that is served and draws and writes no link.                  *)
LEMMA NoLinkIsWritten ==
    ASSUME IInv, LinksInv, Forward, NEW c \in Calls, NEW r \in RequestRecords, Serves(c, r),
           r.at # "writeLink", handed' = handed,
           \A m \in Messages : message'[m].link = message[m].link, Unshown'
    PROVE  LinksInv'
<1>1. \A d \in Calls : request'[d].at = "writeLink" => request'[d] = request[d]
  BY DEF Serves, IInv, RequestsOK
<1>2. \A m \in Messages : LinkOK(m)'
  BY <1>1, LinkStays
<1> QED
  BY <1>2, AimsAreKept DEF LinksInv

(* A step to another than the writing of a link, or an answer.             *)
LEMMA StepServes ==
    ASSUME IInv, NEW c \in Calls, NEW step \in RequestSteps, step # "writeLink",
           ~At(c, "idle"), ToStep(c, step)
    PROVE  \E r \in RequestRecords : Serves(c, r) /\ r.at # "writeLink"
  BY Moving DEF Serves, At

LEMMA AnswerServes ==
    ASSUME IInv, NEW c \in Calls, Answers(c)
    PROVE  \E r \in RequestRecords : Serves(c, r) /\ r.at # "writeLink"
<1>1. NoRequest \in RequestRecords /\ NoRequest.at = "idle"
  BY NothingIsOK DEF IInv, NoRequest
<1> QED
  BY <1>1 DEF Answers, Serves

LEMMA LettingInServes ==
    ASSUME IInv, NEW c \in Calls, NEW status, NEW q \in RequestRecords, ~At(c, "idle"),
           q.kind = request[c].kind, q.late = request[c].late, q.session = request[c].session,
           q.message = request[c].message, q.at \in GuardSteps, KindOK(q), StepOK(q),
           LetIn(c, status, q)
    PROVE  \E r \in RequestRecords : Serves(c, r) /\ r.at # "writeLink"
<1>1. CASE Answers(c)
  BY <1>1, AnswerServes
<1>2. CASE request' = [request EXCEPT ![c] = [q EXCEPT !.at = FirstStep(q.kind)]]
  <2>1. FirstStep(q.kind) \in RequestSteps
    BY FirstStepIsOK
  <2>2. FirstStep(q.kind) # "writeLink"
    BY DEF KindOK, GuardSteps, FirstStep
  <2>3. PICK r : r = [q EXCEPT !.at = FirstStep(q.kind)]
    OBVIOUS
  <2>4. /\ r \in RequestRecords /\ r.at = FirstStep(q.kind) /\ r.kind = q.kind /\ r.late = q.late
        /\ r.session = q.session /\ r.message = q.message
    BY <2>1, <2>3 DEF RequestRecords
  <2> QED
    BY <1>2, <2>2, <2>3, <2>4 DEF Serves, At
<1> QED
  BY <1>1, <1>2 DEF LetIn

(* A request that begins is about a message that is there, and a link that *)
(* is followed late leads to a chat that is gone.                          *)
LEMMA LinksStayBeginning ==
    ASSUME IInv, LinksInv, Forward, NEW c \in Calls,
           SignsIn(c) \/ Blocks(c) \/ Requests(c) \/ DeleteAccount(c)
    PROVE  LinksInv'
<1>1. UNCHANGED <<user, session, message, handed, shown>>
  BY DEF SignsIn, Blocks, Requests, DeleteAccount, historyVars
<1>2. request \in [Calls -> RequestRecords]
  BY DEF IInv, RequestsOK
<1>3. ASSUME NEW r, request' = [request EXCEPT ![c] = r], AimOK(r)', r.at # "writeLink"
      PROVE  LinksInv'
  <2>1. ASSUME NEW d \in Calls PROVE AimOK(request[d])'
    <3>1. CASE d = c
      <4>1. request'[d] = r
        BY <1>2, <1>3, <3>1
      <4> QED
        BY <1>3, <4>1 DEF AimOK
    <3>2. CASE d # c
      <4>1. PICK q : q = request[d]
        OBVIOUS
      <4>2. AimOK(q)'
        BY <4>1, AimStays DEF LinksInv
      <4>3. request'[d] = q
        BY <1>2, <1>3, <3>2, <4>1
      <4> QED
        BY <4>2, <4>3 DEF AimOK
    <3> QED
      BY <3>1, <3>2
  <2>2. \A d \in Calls : request'[d].at = "writeLink" => request'[d] = request[d]
    BY <1>2, <1>3
  <2>3. \A m \in Messages : LinkOK(m)'
    BY <1>1, <2>2, LinkStays
  <2> QED
    BY <1>1, <2>1, <2>3 DEF LinksInv, Unshown
<1>4. ASSUME NEW kind, NEW step, NEW s, NEW m, NEW l, Begins(c, kind, step, s, m, l),
             kind \notin {"shareMessage", "getShare"}, step # "writeLink"
      PROVE  LinksInv'
  <2>1. PICK r : r = [kind |-> kind, at |-> step, saw |-> None, session |-> s, message |-> m,
                      link |-> l, inserted |-> FALSE, late |-> kind = "login" /\ user.archived]
    OBVIOUS
  <2>2. request' = [request EXCEPT ![c] = r] /\ r.at = step /\ r.kind = kind /\ (r.late => kind = "login")
    BY <1>4, <2>1 DEF Begins
  <2>3. AimOK(r)'
    BY <1>4, <2>2 DEF AimOK
  <2> QED
    BY <1>3, <1>4, <2>2, <2>3
<1>5. ASSUME NEW m \in Messages, MessageExists(m), NEW kind \in {"shareMessage", "getShare"},
             NEW step \in {"guard", "findLink"}, NEW l, Begins(c, kind, step, message[m].session, m, l)
      PROVE  LinksInv'
  <2>1. PICK s : s = message[m].session
    OBVIOUS
  <2>2. s \in Sessions /\ MessageExists(m)'
    BY <1>1, <1>5, <2>1 DEF IInv, DataOK, ChatsOK, MessageRecords, MessageExists
  <2>3. PICK late : late = (kind = "getShare" /\ session[s].archived)
    OBVIOUS
  <2>4. PICK r : r = [kind |-> kind, at |-> step, saw |-> None, session |-> s, message |-> m,
                      link |-> l, inserted |-> FALSE, late |-> late]
    OBVIOUS
  <2>5. /\ request' = [request EXCEPT ![c] = r] /\ r.at = step /\ r.kind = kind
        /\ r.session = s /\ r.message = m /\ r.late = late
    BY <1>5, <2>1, <2>3, <2>4 DEF Begins
  <2>6. AimOK(r)'
    BY <1>1, <1>5, <2>2, <2>3, <2>5 DEF AimOK
  <2> QED
    BY <1>3, <1>5, <2>5, <2>6
<1>6. \A m \in Messages : handed[m] # {} => MessageExists(m)
  BY DEF LinksInv, LinkOK
<1>7. CASE SignsIn(c)
  BY <1>4, <1>7 DEF SignsIn
<1>8. CASE Blocks(c)
  BY <1>4, <1>8 DEF Blocks
<1>9. CASE DeleteAccount(c)
  BY <1>4, <1>9 DEF DeleteAccount
<1>10. CASE Requests(c)
  BY <1>4, <1>5, <1>6, <1>10 DEF Requests
<1> QED
  BY <1>7, <1>8, <1>9, <1>10

(* The steps of a request between the first and the last call.             *)
LEMMA Stepping ==
    ASSUME IInv, NEW c \in Calls, ~At(c, "idle"),
           \/ Answers(c)
           \/ \E step \in RequestSteps \ {"writeLink"} : ToStep(c, step)
    PROVE  \E r \in RequestRecords : Serves(c, r) /\ r.at # "writeLink"
  BY StepServes, AnswerServes

LEMMA SignInServes ==
    ASSUME IInv, NEW c \in Calls, SignInStep(c)
    PROVE  /\ \E r \in RequestRecords : Serves(c, r) /\ r.at # "writeLink"
           /\ UNCHANGED <<message, handed, shown>>
<1>0. request[c] \in RequestRecords /\ KindOK(request[c]) /\ StepOK(request[c])
  BY Acting
<1>1. UNCHANGED <<message, handed, shown>>
  BY DEF SignInStep, Guard, ReadStatus, SetCache, Existing, Create, InsertUser, SaveAds,
     SetBlocked, Invalidate, historyVars
<1> SUFFICES \E r \in RequestRecords : Serves(c, r) /\ r.at # "writeLink"
  BY <1>1
<1>2. CASE Guard(c)
  <2>1. CASE ToStep(c, "readStatus")
    BY <1>2, <2>1, Stepping DEF Guard, At, RequestSteps
  <2>2. CASE LetIn(c, cached, request[c])
    <3>1. ~At(c, "idle") /\ request[c].at \in GuardSteps
      BY <1>2 DEF Guard, At, GuardSteps
    <3> QED
      BY <1>0, <2>2, <3>1, LettingInServes
  <2> QED
    BY <1>2, <2>1, <2>2 DEF Guard
<1>3. CASE ReadStatus(c)
  <2> DEFINE q == [request[c] EXCEPT !.at = "setCache"]
  <2>1. PICK seen : seen = StatusOf(user)
    OBVIOUS
  <2>2. seen \in Statuses \cup {None}
    BY <2>1 DEF IInv, DataOK, UserOK, UserRecords, StatusOf, Statuses
  <2>3. PICK r : r = [q EXCEPT !.saw = seen]
    OBVIOUS
  <2>4. /\ q \in RequestRecords /\ q.at = "setCache"
        /\ q.kind = request[c].kind /\ q.late = request[c].late
        /\ q.session = request[c].session /\ q.message = request[c].message
    BY <1>0 DEF RequestRecords, RequestSteps
  <2>5. request' = [request EXCEPT ![c] = r]
    BY <1>3, <2>1, <2>3 DEF ReadStatus
  <2> HIDE DEF q
  <2>6. /\ r \in RequestRecords /\ r.at = q.at /\ r.kind = q.kind /\ r.late = q.late
        /\ r.session = q.session /\ r.message = q.message
    BY <2>2, <2>3, <2>4 DEF RequestRecords
  <2> QED
    BY <1>3, <2>4, <2>5, <2>6 DEF Serves, ReadStatus, At
<1>4. CASE SetCache(c)
  <2> DEFINE q == [request[c] EXCEPT !.saw = None]
  <2>1. /\ q \in RequestRecords /\ KindOK(q) /\ StepOK(q) /\ q.at = request[c].at
    BY <1>0, SeeingIsOK
  <2>2. /\ q.kind = request[c].kind /\ q.late = request[c].late
        /\ q.session = request[c].session /\ q.message = request[c].message
    BY <1>0 DEF RequestRecords
  <2>3. LetIn(c, request[c].saw, q) /\ request[c].at = "setCache"
    BY <1>4 DEF SetCache, At
  <2> HIDE DEF q
  <2>4. ~At(c, "idle") /\ q.at \in GuardSteps
    BY <2>1, <2>3 DEF At, GuardSteps
  <2> QED
    BY <2>1, <2>2, <2>3, <2>4, LettingInServes
<1>5. CASE Existing(c)
  BY <1>5, Stepping DEF Existing, At, RequestSteps, Proceeds
<1>6. CASE Create(c)
  BY <1>6, Stepping DEF Create, At, RequestSteps, Proceeds
<1>7. CASE InsertUser(c)
  <2>1. ~At(c, "idle")
    BY <1>7 DEF InsertUser, At
  <2>2. CASE Answers(c)
    BY <2>1, <2>2, Stepping
  <2>3. CASE ~Answers(c)
    <3> DEFINE q == [request[c] EXCEPT !.at = "saveAds"]
    <3>1. PICK new \in BOOLEAN : new = ~user.exists
      OBVIOUS
    <3>2. PICK r : r = [q EXCEPT !.inserted = new]
      OBVIOUS
    <3>3. /\ q \in RequestRecords /\ q.at = "saveAds"
          /\ q.kind = request[c].kind /\ q.late = request[c].late
          /\ q.session = request[c].session /\ q.message = request[c].message
      BY <1>0 DEF RequestRecords, RequestSteps
    <3>4. request' = [request EXCEPT ![c] = r]
      BY <1>7, <2>3, <3>1, <3>2 DEF InsertUser
    <3> HIDE DEF q
    <3>5. /\ r \in RequestRecords /\ r.at = q.at /\ r.kind = q.kind /\ r.late = q.late
          /\ r.session = q.session /\ r.message = q.message
      BY <3>1, <3>2, <3>3 DEF RequestRecords
    <3> QED
      BY <2>1, <3>3, <3>4, <3>5 DEF Serves, At
  <2> QED
    BY <2>2, <2>3
<1>8. CASE SaveAds(c)
  BY <1>8, Stepping DEF SaveAds, At, RequestSteps
<1>9. CASE SetBlocked(c)
  BY <1>9, Stepping DEF SetBlocked, At, RequestSteps
<1>10. CASE Invalidate(c)
  BY <1>10, Stepping DEF Invalidate, At, RequestSteps
<1> QED
  BY <1>2, <1>3, <1>4, <1>5, <1>6, <1>7, <1>8, <1>9, <1>10 DEF SignInStep

(* Deletion, and the requests that read and write chats.                   *)
LEMMA ChatsServe ==
    ASSUME IInv, NEW c \in Calls,
           \/ DeletionStep(c) \/ InsertSession(c) \/ FindSession(c) \/ InsertMessage(c)
           \/ Activate(c) \/ ArchiveSession(c) \/ FindLink(c)
    PROVE  /\ \E r \in RequestRecords : Serves(c, r) /\ r.at # "writeLink"
           /\ \A m \in Messages : message'[m].link = message[m].link
           /\ UNCHANGED <<handed, shown>>
<1>1. UNCHANGED <<handed, shown>>
  BY DEF DeletionStep, ReadUser, SweepSessions, SweepMessages, ArchiveUser, InsertSession, FindSession,
     InsertMessage, Activate, ArchiveSession, FindLink, historyVars
<1>2. message \in [Messages -> MessageRecords]
  BY DEF IInv, DataOK, ChatsOK
<1>3. \A m \in Messages : message'[m].link = message[m].link
  <2>1. CASE UNCHANGED message
    BY <2>1
  <2>2. CASE InsertMessage(c)
    BY <1>2, <2>2 DEF InsertMessage, MessageRecords
  <2>3. CASE SweepMessages(c)
    BY <1>2, <2>3 DEF SweepMessages, MessageRecords
  <2> QED
    BY <2>1, <2>2, <2>3 DEF DeletionStep, ReadUser, SweepSessions, ArchiveUser, InsertSession,
       FindSession, Activate, ArchiveSession, FindLink
<1>4. ~At(c, "idle")
  BY DEF DeletionStep, ReadUser, SweepSessions, SweepMessages, ArchiveUser, InsertSession, FindSession,
     InsertMessage, Activate, ArchiveSession, FindLink, At
<1>5. \/ Answers(c)
      \/ \E step \in RequestSteps \ {"writeLink"} : ToStep(c, step)
  BY DEF DeletionStep, ReadUser, SweepSessions, SweepMessages, ArchiveUser, InsertSession, FindSession,
     InsertMessage, Activate, ArchiveSession, FindLink, Proceeds, RequestSteps
<1> QED
  BY <1>1, <1>3, <1>4, <1>5, Stepping

LEMMA FailingServes ==
    ASSUME IInv, NEW c \in Calls, LoseRequest(c) \/ Swallowed(c)
    PROVE  /\ \E r \in RequestRecords : Serves(c, r) /\ r.at # "writeLink"
           /\ UNCHANGED <<message, handed, shown>>
<1>0. request[c] \in RequestRecords /\ KindOK(request[c]) /\ StepOK(request[c])
  BY Acting
<1>1. UNCHANGED <<message, handed, shown>>
  BY DEF LoseRequest, Swallowed, historyVars
<1>2. CASE LoseRequest(c)
  BY <1>1, <1>2, AnswerServes DEF LoseRequest
<1>3. CASE At(c, "saveAds") /\ ToStep(c, "invalidate")
  BY <1>1, <1>3, Stepping DEF At, RequestSteps
<1>4. CASE At(c, "setCache") /\ LetIn(c, request[c].saw, [request[c] EXCEPT !.saw = None])
  <2> DEFINE q == [request[c] EXCEPT !.saw = None]
  <2>1. /\ q \in RequestRecords /\ KindOK(q) /\ StepOK(q) /\ q.at = request[c].at
    BY <1>0, SeeingIsOK
  <2>2. /\ q.kind = request[c].kind /\ q.late = request[c].late
        /\ q.session = request[c].session /\ q.message = request[c].message
    BY <1>0 DEF RequestRecords
  <2>3. LetIn(c, request[c].saw, q) /\ request[c].at = "setCache"
    BY <1>4 DEF At
  <2> HIDE DEF q
  <2>4. ~At(c, "idle") /\ q.at \in GuardSteps
    BY <2>1, <2>3 DEF At, GuardSteps
  <2> QED
    BY <1>1, <2>1, <2>2, <2>3, <2>4, LettingInServes
<1> QED
  BY <1>2, <1>3, <1>4 DEF Swallowed

(* A request that draws a link found the message without one.              *)
LEMMA MessageIsFound ==
    ASSUME IInv, LinksInv, Forward, NEW c \in Calls, FindMessage(c)
    PROVE  LinksInv'
<1>0. request[c] \in RequestRecords /\ KindOK(request[c]) /\ request[c].at = "findMessage"
  BY Acting DEF FindMessage, At
<1>1. PICK m : m = request[c].message
  OBVIOUS
<1>2. m \in Messages /\ UNCHANGED <<message, shown>> /\ ~At(c, "idle")
  BY <1>0, <1>1 DEF KindOK, ShareSteps, FindMessage, At
<1>3. CASE Answers(c)
  <2>1. handed' = handed
    <3>1. handed' = handed \/ (message[m].link # 0 /\ handed' = [handed EXCEPT ![m] = @ \cup {message[m].link}])
      BY <1>3, <1>1 DEF FindMessage, Shared
    <3>2. message[m].link # 0 => message[m].link \in handed[m]
      BY <1>2 DEF LinksInv, LinkOK
    <3>3. handed \in [Messages -> SUBSET (1 .. MaxLinks)]
      BY DEF IInv, DataOK, LinksOK
    <3>4. message[m].link \in handed[m] => handed[m] \cup {message[m].link} = handed[m]
      OBVIOUS
    <3> QED
      BY <3>1, <3>2, <3>3, <3>4
  <2>2. PICK r \in RequestRecords : Serves(c, r) /\ r.at # "writeLink"
    BY <1>3, AnswerServes
  <2> QED
    BY <1>2, <2>1, <2>2, NoLinkIsWritten DEF LinksInv, Unshown
<1>4. CASE ~Answers(c)
  <2>1. /\ ~Shared(m) /\ handed' = handed
        /\ request' = [request EXCEPT ![c] = [request[c] EXCEPT !.at = "writeLink", !.link = links + 1]]
    BY <1>4, <1>1 DEF FindMessage
  <2>2. links < MaxLinks
    BY <1>4 DEF FindMessage
  <2> DEFINE q == [request[c] EXCEPT !.at = "writeLink"]
  <2>3. PICK l : l = links + 1
    OBVIOUS
  <2>4. l \in 0 .. MaxLinks
    BY <2>2, <2>3, AccountAssumption DEF IInv, DataOK, LinksOK
  <2>5. PICK r : r = [q EXCEPT !.link = l]
    OBVIOUS
  <2>6. /\ q \in RequestRecords /\ q.at = "writeLink"
        /\ q.kind = request[c].kind /\ q.late = request[c].late
        /\ q.session = request[c].session /\ q.message = request[c].message
    BY <1>0 DEF RequestRecords, RequestSteps
  <2>7. request' = [request EXCEPT ![c] = r]
    BY <2>1, <2>3, <2>5
  <2> HIDE DEF q
  <2>8. /\ r \in RequestRecords /\ r.at = q.at /\ r.kind = q.kind /\ r.late = q.late
        /\ r.session = q.session /\ r.message = q.message
    BY <2>4, <2>5, <2>6 DEF RequestRecords
  <2>9. Serves(c, r)
    BY <1>2, <2>6, <2>7, <2>8 DEF Serves, At
  <2>10. \A d \in Calls : d # c => request'[d] = request[d]
    BY <2>7 DEF IInv, RequestsOK
  <2>11. ASSUME NEW n \in Messages PROVE LinkOK(n)'
    <3>1. CASE n = m
      <4>1. message[m].link = 0 /\ handed[m] = {}
        BY <1>2, <2>1 DEF Shared, LinksInv, LinkOK
      <4>2. Cardinality(Writing(m)') \in Nat /\ Cardinality(Calls) \in Nat
            /\ Cardinality(Writing(m)') <= Cardinality(Calls)
        <5>1. Writing(m)' \subseteq Calls
          BY DEF Writing
        <5> QED
          BY <5>1, AccountAssumption, FS_Subset, FS_CardinalityType
      <4>3. handed'[m] = {} /\ message'[m].link = 0 /\ Cardinality({}) = 0
        BY <1>2, <2>1, <4>1, FS_EmptySet
      <4>4. Cardinality(handed'[m]) + Cardinality(Writing(m)') <= Cardinality(Calls)
        BY <4>2, <4>3
      <4>5. handed'[n] = {} /\ message'[n].link = 0
        BY <3>1, <4>3
      <4>6. Writing(n)' = Writing(m)'
        BY <3>1 DEF Writing, At
      <4>7. Cardinality(handed'[n]) + Cardinality(Writing(n)') <= Cardinality(Calls)
        BY <3>1, <4>4, <4>6
      <4> QED
        BY <4>5, <4>7 DEF LinkOK
    <3>2. CASE n # m
      <4>1. Writing(n)' \subseteq Writing(n)
        <5>1. ASSUME NEW d \in Calls, request'[d].at = "writeLink", request'[d].message = n
              PROVE  d # c
          <6>1. CASE d = c
            <7>1. request'[c] = r
              BY <2>7 DEF IInv, RequestsOK
            <7>2. request'[c].message = m
              BY <1>1, <2>6, <2>8, <7>1
            <7> QED
              BY <3>2, <5>1, <6>1, <7>2
          <6> QED
            BY <6>1
        <5> QED
          BY <2>10, <5>1 DEF Writing, At
      <4>2. LinkOK(n)
        BY DEF LinksInv
      <4>3. IsFiniteSet(Writing(n)) /\ Cardinality(Writing(n)) \in Nat /\ Cardinality(Calls) \in Nat
        BY WritingIsFinite
      <4>4. Cardinality(Writing(n)') \in Nat /\ Cardinality(Writing(n)') <= Cardinality(Writing(n))
        BY <4>1, <4>3, FS_Subset, FS_CardinalityType
      <4>5. Cardinality(handed[n]) \in Nat
        BY HandedIsFinite
      <4>6. Cardinality(handed[n]) + Cardinality(Writing(n)') <= Cardinality(Calls)
        BY <4>2, <4>3, <4>4, <4>5 DEF LinkOK
      <4>7. handed'[n] = handed[n] /\ message' = message
        BY <1>2, <2>1
      <4>8. Cardinality(handed'[n]) + Cardinality(Writing(n)') <= Cardinality(Calls)
        BY <4>6, <4>7
      <4> QED
        BY <4>2, <4>7, <4>8 DEF LinkOK, Forward
    <3> QED
      BY <3>1, <3>2
  <2> QED
    BY <1>2, <2>8, <2>9, <2>11, AimsAreKept DEF LinksInv, Unshown
<1> QED
  BY <1>3, <1>4

(* The link a request writes and hands out was counted when it was drawn.  *)
LEMMA LinkIsWritten ==
    ASSUME IInv, LinksInv, Forward, NEW c \in Calls, WriteLink(c)
    PROVE  LinksInv'
<1>0. request[c] \in RequestRecords /\ KindOK(request[c]) /\ StepOK(request[c])
      /\ request[c].at = "writeLink"
  BY Acting DEF WriteLink, At
<1>1. PICK m \in Messages : m = request[c].message
  BY <1>0 DEF KindOK, ShareSteps
<1>2. PICK l : l = request[c].link
  OBVIOUS
<1>3. l > 0 /\ l \in Nat
  BY <1>0, <1>2 DEF StepOK, RequestRecords
<1>4. /\ message' = [message EXCEPT ![m].link = l]
      /\ handed' = [handed EXCEPT ![m] = @ \cup {l}]
      /\ shown' = shown
  BY <1>1, <1>2 DEF WriteLink
<1>5. MessageExists(m)
  BY <1>0, <1>1 DEF LinksInv, AimOK, KindOK, ShareSteps
<1>6. PICK r \in RequestRecords : Serves(c, r) /\ r.at # "writeLink"
  BY AnswerServes DEF WriteLink
<1>7. \A d \in Calls : d # c => request'[d] = request[d]
  BY <1>6 DEF Serves, IInv, RequestsOK
<1>8. request'[c].at # "writeLink"
  BY <1>6 DEF Serves, IInv, RequestsOK
<1>9. message \in [Messages -> MessageRecords] /\ handed \in [Messages -> SUBSET (1 .. MaxLinks)]
  BY DEF IInv, DataOK, ChatsOK, LinksOK
<1>10. ASSUME NEW n \in Messages PROVE LinkOK(n)'
  <2>1. CASE n # m
    <3>1. message'[n] = message[n] /\ handed'[n] = handed[n]
      BY <1>4, <1>9, <2>1
    <3>2. Writing(n)' \subseteq Writing(n)
      BY <1>7, <1>8 DEF Writing, At
    <3>3. LinkOK(n)
      BY DEF LinksInv
    <3>4. IsFiniteSet(Writing(n)) /\ Cardinality(Writing(n)) \in Nat /\ Cardinality(Calls) \in Nat
      BY WritingIsFinite
    <3>5. Cardinality(Writing(n)') \in Nat /\ Cardinality(Writing(n)') <= Cardinality(Writing(n))
      BY <3>2, <3>4, FS_Subset, FS_CardinalityType
    <3>6. Cardinality(handed[n]) \in Nat
      BY HandedIsFinite
    <3>7. Cardinality(handed'[n]) + Cardinality(Writing(n)') <= Cardinality(Calls)
      BY <3>1, <3>3, <3>4, <3>5, <3>6 DEF LinkOK
    <3> QED
      BY <3>1, <3>3, <3>7 DEF LinkOK, Forward
  <2>2. CASE n = m
    <3>1. handed'[m] = handed[m] \cup {l} /\ message'[m].link = l
      BY <1>4, <1>9 DEF MessageRecords
    <3>2. c \in Writing(m)
      BY <1>0, <1>1 DEF Writing, At
    <3>3. Writing(m)' \subseteq Writing(m) \ {c}
      BY <1>7, <1>8 DEF Writing, At
    <3>4. IsFiniteSet(Writing(m)) /\ Cardinality(Writing(m)) \in Nat /\ Cardinality(Calls) \in Nat
      BY WritingIsFinite
    <3>5. /\ IsFiniteSet(Writing(m) \ {c})
          /\ Cardinality(Writing(m) \ {c}) = Cardinality(Writing(m)) - 1
      BY <3>2, <3>4, FS_RemoveElement
    <3>6. /\ Cardinality(Writing(m) \ {c}) \in Nat /\ Cardinality(Writing(m)') \in Nat
          /\ Cardinality(Writing(m)') <= Cardinality(Writing(m) \ {c})
      BY <3>3, <3>5, FS_Subset, FS_CardinalityType
    <3>7. IsFiniteSet(handed[m]) /\ Cardinality(handed[m]) \in Nat
      BY HandedIsFinite
    <3>8. /\ Cardinality(handed[m] \cup {l}) \in Nat
          /\ Cardinality(handed[m] \cup {l}) <= Cardinality(handed[m]) + 1
      <4>1. /\ IsFiniteSet(handed[m] \cup {l})
            /\ Cardinality(handed[m] \cup {l}) =
                 IF l \in handed[m] THEN Cardinality(handed[m]) ELSE Cardinality(handed[m]) + 1
        BY <3>7, FS_AddElement
      <4> QED
        BY <3>7, <4>1, FS_CardinalityType
    <3>9. Cardinality(handed[m]) + Cardinality(Writing(m)) <= Cardinality(Calls)
      BY DEF LinksInv, LinkOK
    <3>10. Cardinality(handed[m] \cup {l}) + Cardinality(Writing(m)') <= Cardinality(Calls)
      BY <3>4, <3>5, <3>6, <3>7, <3>8, <3>9
    <3>11. Cardinality(handed'[m]) + Cardinality(Writing(m)') <= Cardinality(Calls)
      BY <3>1, <3>10
    <3>12. MessageExists(m)' /\ message'[m].link # 0
      BY <1>3, <1>5, <3>1 DEF Forward
    <3> QED
      BY <2>2, <3>1, <3>11, <3>12 DEF LinkOK
  <2> QED
    BY <2>1, <2>2
<1> QED
  BY <1>4, <1>6, <1>10, AimsAreKept DEF LinksInv, Unshown

(* A request that follows a link late finds the chat archived.             *)
LEMMA ParentIsRead ==
    ASSUME IInv, LinksInv, Forward, NEW c \in Calls, Parent(c)
    PROVE  LinksInv'
<1>1. request[c].at = "parent" /\ AimOK(request[c]) /\ KindOK(request[c])
  BY Acting DEF Parent, At, LinksInv
<1>2. request[c].late => ~ActiveSession(request[c].session)
  BY <1>1 DEF AimOK, KindOK, ShareSteps, ActiveSession
<1>3. UNCHANGED <<message, handed, shown>>
  BY <1>2 DEF Parent, Shows
<1>4. PICK r \in RequestRecords : Serves(c, r) /\ r.at # "writeLink"
  BY AnswerServes DEF Parent
<1> QED
  BY <1>3, <1>4, NoLinkIsWritten DEF LinksInv, Unshown

(* The links hold in the first state, and every step keeps them.           *)
LEMMA LinksBegin ==
    ASSUME Init
    PROVE  LinksInv
<1>1. \A c \in Calls : request[c].at = "idle"
  BY DEF Init, NoRequest
<1>2. ASSUME NEW m \in Messages PROVE LinkOK(m)
  <2>1. Writing(m) = {} /\ handed[m] = {} /\ message[m].link = 0
    BY <1>1 DEF Init, Writing, At
  <2>2. Cardinality(Calls) \in Nat /\ Cardinality({}) = 0
    BY AccountAssumption, FS_CardinalityType, FS_EmptySet
  <2> QED
    BY <2>1, <2>2 DEF LinkOK
<1> QED
  BY <1>1, <1>2 DEF LinksInv, AimOK, Unshown, Init

LEMMA LinksAreKept ==
    ASSUME IInv, LinksInv, [Next]_vars
    PROVE  LinksInv'
<1>0. Forward
  BY StepsAreOK
<1>1. ASSUME NEW c \in Calls, NEW r \in RequestRecords, Serves(c, r), r.at # "writeLink",
             \A m \in Messages : message'[m].link = message[m].link, UNCHANGED <<handed, shown>>
      PROVE  LinksInv'
  BY <1>0, <1>1, NoLinkIsWritten DEF LinksInv, Unshown
<1>2. ASSUME NEW c \in Calls, RequestStep(c) PROVE LinksInv'
  <2>1. CASE SignInStep(c)
    BY <1>1, <2>1, SignInServes
  <2>2. CASE FindMessage(c) \/ WriteLink(c) \/ Parent(c)
    BY <1>0, <2>2, MessageIsFound, LinkIsWritten, ParentIsRead
  <2>3. CASE \/ DeletionStep(c) \/ InsertSession(c) \/ FindSession(c) \/ InsertMessage(c)
             \/ Activate(c) \/ ArchiveSession(c) \/ FindLink(c)
    BY <1>1, <2>3, ChatsServe
  <2> QED
    BY <1>2, <2>1, <2>2, <2>3 DEF RequestStep, ConversationStep
<1>3. ASSUME NEW c \in Calls, LoseRequest(c) \/ Swallowed(c) PROVE LinksInv'
  BY <1>1, <1>3, FailingServes
<1>4. ASSUME UNCHANGED <<message, request, handed>>, Unshown' PROVE LinksInv'
  <2>1. \A m \in Messages : LinkOK(m)'
    BY <1>0, <1>4, LinkStays
  <2>2. ASSUME NEW c \in Calls PROVE AimOK(request[c])'
    <3>1. PICK q : q = request[c]
      OBVIOUS
    <3>2. AimOK(q)'
      BY <1>0, <3>1, AimStays DEF LinksInv
    <3> QED
      BY <1>4, <3>1, <3>2 DEF AimOK
  <2> QED
    BY <1>4, <2>1, <2>2 DEF LinksInv
<1>5. CASE CacheExpires \/ UNCHANGED vars
  BY <1>4, <1>5 DEF CacheExpires, vars, accountVars, historyVars, LinksInv, Unshown
<1>6. CASE ListMessages
  <2>1. UNCHANGED <<message, request, handed>>
    BY <1>6 DEF ListMessages, accountVars
  <2>2. \A m \in Messages : <<"link", m>> \in shown' => <<"link", m>> \in shown
    BY <1>6 DEF ListMessages, Shows
  <2> QED
    BY <1>4, <2>1, <2>2 DEF LinksInv, Unshown
<1> QED
  BY <1>0, <1>2, <1>3, <1>5, <1>6, LinksStayBeginning DEF Next

(* A message is never handed out under more links than requests run at the *)
(* same time, and no link shows a chat that was deleted before it was      *)
(* followed.                                                               *)
THEOREM LinksAreFew == Spec => []LinksAreBounded
<1>1. IInv /\ LinksInv => LinksAreBounded
  <2> SUFFICES ASSUME IInv, LinksInv, NEW m \in Messages
               PROVE  Cardinality(handed[m]) <= Cardinality(Calls) /\ <<"link", m>> \notin shown
    BY DEF LinksAreBounded
  <2>1. /\ Cardinality(Writing(m)) \in Nat /\ Cardinality(Calls) \in Nat
        /\ Cardinality(handed[m]) \in Nat
    BY WritingIsFinite, HandedIsFinite
  <2>2. Cardinality(handed[m]) + Cardinality(Writing(m)) <= Cardinality(Calls)
    BY DEF LinksInv, LinkOK
  <2> QED
    BY <2>1, <2>2 DEF LinksInv, Unshown
<1>2. IInv /\ LinksInv /\ [Next]_vars => LinksInv'
  BY LinksAreKept
<1>3. Init => LinksInv
  BY LinksBegin
<1> QED
  BY <1>1, <1>2, <1>3, Consistent, PTL DEF Spec
=============================================================================
