------------------------------- MODULE SignIn -------------------------------
(***************************************************************************)
(* Sign-in, blocking, and the guard that every request on behalf of a user *)
(* passes: it trusts the status in Redis for                               *)
(* AUTH_USER_STATUS_CACHE_TTL_SECONDS (security/dependencies.py,           *)
(* api/v2/history/users.py, api/v2/auth.py).                               *)
(***************************************************************************)
EXTENDS AccountRecords

StatusOf(u) == [exists |-> u.exists, blocked |-> u.blocked, archived |-> u.archived]

(* What a request does once it is let in.                                  *)
FirstStep(kind) ==
    CASE kind = "login" -> "existing"
      [] kind \in {"block", "unblock"} -> "setBlocked"
      [] kind = "createSession" -> "readUser"
      [] kind = "shareMessage" -> "findMessage"
      [] kind = "deleteSession" -> "findSession"

(* An archived user is refused; blocked and unknown users only with a      *)
(* token of their own, not with the key of a service.                      *)
LetIn(c, status, r) ==
    \/ /\ ~status.archived
       /\ request' = [request EXCEPT ![c] = [r EXCEPT !.at = FirstStep(r.kind)]]
    \/ (status.archived \/ status.blocked \/ ~status.exists) /\ Answers(c)

Guard(c) ==
    /\ At(c, "guard")
    /\ \/ cached = None /\ ToStep(c, "readStatus")
       \/ cached # None /\ LetIn(c, cached, request[c])
    /\ UNCHANGED <<mix, user, cached, session, message, links, faults, historyVars>>

ReadStatus(c) ==
    /\ At(c, "readStatus")
    /\ request' = [request EXCEPT
                      ![c] = [request[c] EXCEPT !.at = "setCache", !.saw = StatusOf(user)]]
    /\ UNCHANGED <<mix, user, cached, session, message, links, faults, historyVars>>

SetCache(c) ==
    /\ At(c, "setCache")
    /\ cached' = request[c].saw
    /\ LetIn(c, request[c].saw, [request[c] EXCEPT !.saw = None])
    /\ UNCHANGED <<mix, user, session, message, links, faults, historyVars>>

(* As if the status were stored without a time to live.                    *)
CacheStays == cached # None /\ UNCHANGED vars

CacheExpires ==
    /\ cached # None
    /\ cached' = None
    /\ UNCHANGED <<mix, user, session, message, request, links, faults, historyVars>>

(* create_or_get_user is guarded; the callbacks of Google and Telegram are  *)
(* not.                                                                    *)
SignsIn(c) ==
    /\ \/ Begins(c, "login", "guard", None, None, 0)
       \/ Begins(c, "signIn", "existing", None, None, 0)
    /\ UNCHANGED <<mix, user, cached, session, message, links, faults, historyVars>>

(* The callbacks refuse a retired account; a login of one writes nothing.  *)
SavesAdsAlways(u) == u.exists
SavesAds(u) == ~u.archived
Existing(c) ==
    /\ At(c, "existing")
    /\ \/ ~user.exists /\ ToStep(c, "create")
       \/ user.exists /\ request[c].kind = "login"
          /\ \/ SavesAds(user) /\ ToStep(c, "saveAds")
             \/ ToStep(c, "invalidate")
       \/ user.exists /\ request[c].kind = "signIn"
          /\ Proceeds(c, ~user.blocked /\ ~user.archived, "create")
    /\ UNCHANGED <<mix, user, cached, session, message, links, faults, historyVars>>

(* create_user_with_status looks again, and takes a duplicate key for an   *)
(* account that a concurrent request has created.                          *)
Create(c) ==
    /\ At(c, "create")
    /\ IF ~user.exists THEN ToStep(c, "insertUser")
       ELSE Proceeds(c, request[c].kind = "login", "saveAds")
    /\ UNCHANGED <<mix, user, cached, session, message, links, faults, historyVars>>

(* As if a duplicate key were taken for an insertion.                      *)
InsertUserAgain(c) ==
    /\ At(c, "insertUser")
    /\ user' = [user EXCEPT !.exists = TRUE]
    /\ IF request[c].kind = "login"
       THEN request' = [request EXCEPT ![c].at = "saveAds", ![c].inserted = TRUE]
       ELSE Answers(c)
    /\ UNCHANGED <<mix, cached, session, message, links, faults, historyVars>>

InsertUser(c) ==
    /\ At(c, "insertUser")
    /\ user' = [user EXCEPT !.exists = TRUE]
    /\ IF request[c].kind = "login"
       THEN request' = [request EXCEPT
                ![c] = [request[c] EXCEPT !.at = "saveAds", !.inserted = ~user.exists]]
       ELSE Answers(c)
    /\ UNCHANGED <<mix, cached, session, message, links, faults, historyVars>>

SaveAds(c) ==
    /\ At(c, "saveAds")
    /\ user' = [user EXCEPT !.ads = TRUE]
    /\ ToStep(c, "invalidate")
    /\ UNCHANGED <<mix, cached, session, message, links, faults, historyVars>>

Blocks(c) ==
    /\ \/ Begins(c, "block", "guard", None, None, 0)
       \/ Begins(c, "unblock", "guard", None, None, 0)
    /\ UNCHANGED <<mix, user, cached, session, message, links, faults, historyVars>>

(* block_user creates a user it does not find; unblock_user refuses.       *)
SetBlocked(c) ==
    LET blocks == request[c].kind = "block" IN
    /\ At(c, "setBlocked")
    /\ \/ (blocks \/ user.exists) /\ ToStep(c, "invalidate")
          /\ user' = [user EXCEPT !.exists = TRUE, !.blocked = blocks]
       \/ ~blocks /\ ~user.exists /\ Answers(c) /\ UNCHANGED user
    /\ UNCHANGED <<mix, cached, session, message, links, faults, historyVars>>

(* Every write of the user ends with the removal of the cached status.     *)
Invalidate(c) ==
    /\ At(c, "invalidate")
    /\ cached' = None
    /\ created' = IF request[c].inserted THEN created + 1 ELSE created
    /\ Answers(c)
    /\ UNCHANGED <<mix, user, session, message, links, faults, owed, handed, shown>>

SignInStep(c) ==
    \/ Guard(c) \/ ReadStatus(c) \/ SetCache(c)
    \/ Existing(c) \/ Create(c) \/ InsertUser(c) \/ SaveAds(c)
    \/ SetBlocked(c) \/ Invalidate(c)
=============================================================================
