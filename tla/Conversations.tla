---------------------------- MODULE Conversations ----------------------------
(***************************************************************************)
(* The chats of a user: sessions, messages, and the links under which      *)
(* single messages are shown to anybody (services/chat_history_service.py).*)
(***************************************************************************)
EXTENDS SignIn

(* Sessions are created, shared and deleted on behalf of the user; the     *)
(* routes for messages and links name no user and are not guarded.         *)
Requests(c) ==
    /\ \/ Begins(c, "createSession", "guard", None, None, 0)
       \/ \E s \in Sessions :
            \/ SessionExists(s) /\ Begins(c, "addMessage", "findSession", s, None, 0)
            \/ SessionExists(s) /\ Begins(c, "deleteSession", "guard", s, None, 0)
       \/ \E m \in Messages :
            \/ MessageExists(m) /\ Begins(c, "shareMessage", "guard", message[m].session, m, 0)
            \/ \E l \in handed[m] :
                 Begins(c, "getShare", "findLink", message[m].session, m, l)
    /\ UNCHANGED <<mix, user, cached, session, message, links, faults, historyVars>>

(* The user must exist; whether the account is archived is not asked.      *)
InsertSession(c) ==
    /\ At(c, "insertSession")
    /\ \E s \in Sessions :
         /\ session[s].status = "none"
         /\ session' = [session EXCEPT ![s].status = "draft"]
    /\ Answers(c)
    /\ UNCHANGED <<mix, user, cached, message, links, faults, historyVars>>

(* _ensure_session_exists.                                                 *)
FindSession(c) ==
    /\ At(c, "findSession")
    /\ Proceeds(c, ActiveSession(request[c].session),
                IF request[c].kind = "addMessage" THEN "insertMessage" ELSE "archiveSession")
    /\ UNCHANGED <<mix, user, cached, session, message, links, faults, historyVars>>

InsertMessage(c) ==
    /\ At(c, "insertMessage")
    /\ \E m \in Messages :
         /\ ~MessageExists(m)
         /\ message' = [message EXCEPT ![m].session = request[c].session]
    /\ ToStep(c, "activate")
    /\ UNCHANGED <<mix, user, cached, session, links, faults, historyVars>>

(* As if the session were written back as it was read.                     *)
ActivateRead(c) ==
    /\ At(c, "activate")
    /\ session' = [session EXCEPT ![request[c].session] = [status |-> "active", archived |-> FALSE]]
    /\ Answers(c)
    /\ UNCHANGED <<mix, user, cached, message, links, faults, historyVars>>

Activate(c) ==
    /\ At(c, "activate")
    /\ session' = [session EXCEPT ![request[c].session].status = "active"]
    /\ Answers(c)
    /\ UNCHANGED <<mix, user, cached, message, links, faults, historyVars>>

(* Only the session is stamped; its messages stay.                         *)
ArchiveSession(c) ==
    /\ At(c, "archiveSession")
    /\ session' = [session EXCEPT ![request[c].session].archived = TRUE]
    /\ Answers(c)
    /\ UNCHANGED <<mix, user, cached, message, links, faults, historyVars>>

(* A message that is shared already keeps its link.                        *)
NeverShared(m) == ~ActiveMessage(m)
Shared(m) == message[m].link # 0
FindMessage(c) ==
    LET m == request[c].message IN
    /\ At(c, "findMessage")
    /\ \/ ~ActiveMessage(m) /\ Answers(c) /\ UNCHANGED <<links, handed>>
       \/ /\ ActiveMessage(m) /\ Shared(m)
          /\ handed' = [handed EXCEPT ![m] = @ \cup {message[m].link}]
          /\ Answers(c) /\ UNCHANGED links
       \/ /\ ActiveMessage(m) /\ ~Shared(m) /\ links < MaxLinks
          /\ links' = links + 1
          /\ request' = [request EXCEPT
                             ![c] = [request[c] EXCEPT !.at = "writeLink", !.link = links + 1]]
          /\ UNCHANGED handed
    /\ UNCHANGED <<mix, user, cached, session, message, faults, owed, created, shown>>

WriteLink(c) ==
    LET m == request[c].message IN
    /\ At(c, "writeLink")
    /\ message' = [message EXCEPT ![m].link = request[c].link]
    /\ handed' = [handed EXCEPT ![m] = @ \cup {request[c].link}]
    /\ Answers(c)
    /\ UNCHANGED <<mix, user, cached, session, links, faults, owed, created, shown>>

FindLink(c) ==
    LET m == request[c].message IN
    /\ At(c, "findLink")
    /\ Proceeds(c, ActiveMessage(m) /\ message[m].link = request[c].link, "parent")
    /\ UNCHANGED <<mix, user, cached, session, message, links, faults, historyVars>>

(* What a request shows counts if the chat was deleted before it began.    *)
Shows(how, m, late) == shown' = IF late THEN shown \cup {<<how, m>>} ELSE shown

(* A share dies with its chat.                                             *)
Parent(c) ==
    LET r == request[c] IN
    /\ At(c, "parent")
    /\ \/ ActiveSession(r.session) /\ Shows("link", r.message, r.late)
       \/ ~ActiveSession(r.session) /\ UNCHANGED shown
    /\ Answers(c)
    /\ UNCHANGED <<mix, user, cached, session, message, links, faults, owed, created, handed>>

(* get_messages and get_message read the messages alone.                   *)
ListMessages ==
    /\ \E m \in Messages :
         ActiveMessage(m) /\ Shows("list", m, session[message[m].session].archived)
    /\ UNCHANGED <<mix, accountVars, owed, created, handed>>

ConversationStep(c) ==
    \/ InsertSession(c) \/ FindSession(c) \/ InsertMessage(c) \/ Activate(c)
    \/ ArchiveSession(c) \/ FindMessage(c) \/ WriteLink(c) \/ FindLink(c) \/ Parent(c)
=============================================================================
