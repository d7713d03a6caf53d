--------------------------- MODULE AccountRecords ---------------------------
(***************************************************************************)
(* The user, the chats of the user, the cached authentication status, and  *)
(* the requests that work on them (services/chat_history_service.py,       *)
(* services/account_archive_service.py, security/dependencies.py).  One    *)
(* step of a request is one call of the database or of Redis.              *)
(***************************************************************************)
EXTENDS Integers, FiniteSets

CONSTANTS
    Calls,          \* requests that are served at the same time
    Sessions,       \* ids of chats
    Messages,       \* ids of messages
    Mixes,          \* sets of kinds of requests that are served side by side
    MaxLinks,       \* bound on the share links drawn
    MaxFaults,      \* bound on lost requests and failing calls
    None

ASSUME AccountAssumption ==
    /\ IsFiniteSet(Calls)
    /\ None \notin Calls \cup Sessions \cup Messages
    /\ \A ids \in SUBSET (Sessions \cup Messages) : ids # None
    /\ Sessions \cap Messages = {}
    /\ MaxLinks \in Nat /\ MaxFaults \in Nat

VARIABLES
    mix,            \* the kinds of requests of this behaviour
    user,           \* the document of the user
    cached,         \* auth:user-status:<id> in Redis
    session,        \* the documents of the chats
    message,        \* the documents of the messages
    request,        \* the requests
    links,          \* how many share links were drawn
    faults,
    owed,           \* history: what existed when deletion was first asked for
    created,        \* history: sign-ups that were answered 201
    handed,         \* history: the links handed out for a message
    shown           \* history: what was shown of chats deleted before

accountVars == <<user, cached, session, message, request, links, faults>>
historyVars == <<owed, created, handed, shown>>
vars == <<mix, accountVars, historyVars>>

Statuses == [exists : BOOLEAN, blocked : BOOLEAN, archived : BOOLEAN]
UserRecords == [exists : BOOLEAN, blocked : BOOLEAN, archived : BOOLEAN, ads : BOOLEAN]
SessionRecords == [status : {"none", "draft", "active"}, archived : BOOLEAN]
MessageRecords ==
    [session : Sessions \cup {None}, archived : BOOLEAN, link : 0 .. MaxLinks]
Kinds ==
    {"login", "signIn", "block", "unblock", "deleteAccount",
     "createSession", "addMessage", "shareMessage", "getShare", "deleteSession"}
RequestSteps ==
    {"idle", "guard", "readStatus", "setCache", "existing", "create", "insertUser",
     "saveAds", "invalidate", "setBlocked", "readUser", "sweepSessions",
     "sweepMessages", "archiveUser", "insertSession", "findSession", "insertMessage",
     "activate", "archiveSession", "findMessage", "writeLink", "findLink", "parent"}
RequestRecords ==
    [kind : Kinds \cup {None}, at : RequestSteps, saw : Statuses \cup {None},
     session : Sessions \cup {None}, message : Messages \cup {None},
     link : 0 .. MaxLinks, inserted : BOOLEAN, late : BOOLEAN]
NoRequest ==
    [kind |-> None, at |-> "idle", saw |-> None, session |-> None, message |-> None,
     link |-> 0, inserted |-> FALSE, late |-> FALSE]

Init ==
    /\ mix \in Mixes
    /\ \E known \in BOOLEAN :
         user = [exists |-> known, blocked |-> FALSE, archived |-> FALSE, ads |-> FALSE]
    /\ cached = None
    /\ session = [s \in Sessions |-> [status |-> "none", archived |-> FALSE]]
    /\ message = [m \in Messages |-> [session |-> None, archived |-> FALSE, link |-> 0]]
    /\ request = [c \in Calls |-> NoRequest]
    /\ links = 0 /\ faults = 0
    /\ owed = None /\ created = 0
    /\ handed = [m \in Messages |-> {}] /\ shown = {}

SessionExists(s) == session[s].status # "none"
MessageExists(m) == message[m].session # None

(* _ACTIVE_ONLY.                                                           *)
ActiveSession(s) == SessionExists(s) /\ ~session[s].archived
ActiveMessage(m) == MessageExists(m) /\ ~message[m].archived

At(c, step) == request[c].at = step
ToStep(c, step) == request' = [request EXCEPT ![c].at = step]
Answers(c) == request' = [request EXCEPT ![c] = NoRequest]
Proceeds(c, condition, step) == IF condition THEN ToStep(c, step) ELSE Answers(c)

Begins(c, kind, step, s, m, link) ==
    /\ At(c, "idle") /\ kind \in mix
    /\ request' = [request EXCEPT ![c] =
         [kind |-> kind, at |-> step, saw |-> None, session |-> s, message |-> m,
          link |-> link, inserted |-> FALSE,
          late |-> \/ kind = "login" /\ user.archived
                   \/ kind = "getShare" /\ session[s].archived]]
=============================================================================
