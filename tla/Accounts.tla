------------------------------ MODULE Accounts ------------------------------
(***************************************************************************)
(* Deletion of an account: everything the user owns is stamped archived,   *)
(* one collection after the other and the user last, and the status cached *)
(* for the guard is removed (services/account_archive_service.py).  The    *)
(* sweep goes on while the user's other requests are served.               *)
(***************************************************************************)
EXTENDS Conversations

(* delete-account is not guarded, so that it can be repeated.              *)
DeleteAccount(c) ==
    /\ Begins(c, "deleteAccount", "readUser", None, None, 0)
    /\ UNCHANGED <<mix, user, cached, session, message, links, faults, historyVars>>

Owned == {s \in Sessions : SessionExists(s)} \cup {m \in Messages : MessageExists(m)}

ReadUser(c) ==
    LET deletes == request[c].kind = "deleteAccount" IN
    /\ At(c, "readUser")
    /\ Proceeds(c, user.exists, IF deletes THEN "sweepSessions" ELSE "insertSession")
    /\ owed' = IF deletes /\ user.exists /\ owed = None THEN Owned ELSE owed
    /\ UNCHANGED <<mix, user, cached, session, message, links, faults, created, handed, shown>>

(* As if the user were not the last to be stamped.                         *)
SweepUserToo(c) ==
    /\ At(c, "sweepSessions")
    /\ user' = [user EXCEPT !.archived = TRUE]
    /\ session' = [s \in Sessions |->
                     IF SessionExists(s) THEN [session[s] EXCEPT !.archived = TRUE]
                     ELSE session[s]]
    /\ ToStep(c, "sweepMessages")
    /\ UNCHANGED <<mix, cached, message, links, faults, historyVars>>

SweepSessions(c) ==
    /\ At(c, "sweepSessions")
    /\ session' = [s \in Sessions |->
                     IF SessionExists(s) THEN [session[s] EXCEPT !.archived = TRUE]
                     ELSE session[s]]
    /\ ToStep(c, "sweepMessages")
    /\ UNCHANGED <<mix, user, cached, message, links, faults, historyVars>>

SweepMessages(c) ==
    /\ At(c, "sweepMessages")
    /\ message' = [m \in Messages |->
                     IF MessageExists(m) THEN [message[m] EXCEPT !.archived = TRUE]
                     ELSE message[m]]
    /\ ToStep(c, "archiveUser")
    /\ UNCHANGED <<mix, user, cached, session, links, faults, historyVars>>

(* The advertising ids go with the flag, and only with the first flip.     *)
ArchiveUser(c) ==
    /\ At(c, "archiveUser")
    /\ user' = IF user.archived THEN user
               ELSE [user EXCEPT !.archived = TRUE, !.ads = FALSE]
    /\ ToStep(c, "invalidate")
    /\ UNCHANGED <<mix, cached, session, message, links, faults, historyVars>>

(* A request is canceled, its process stops, or the database raises.       *)
LoseRequest(c) ==
    /\ ~At(c, "idle") /\ faults < MaxFaults
    /\ faults' = faults + 1
    /\ Answers(c)
    /\ UNCHANGED <<mix, user, cached, session, message, links, historyVars>>

(* A failure of Redis, or of the write of the ids, is swallowed.           *)
Swallowed(c) ==
    /\ faults < MaxFaults
    /\ faults' = faults + 1
    /\ \/ At(c, "saveAds") /\ ToStep(c, "invalidate")
       \/ At(c, "setCache") /\ LetIn(c, request[c].saw, [request[c] EXCEPT !.saw = None])
    /\ UNCHANGED <<mix, user, cached, session, message, links, historyVars>>

DeletionStep(c) ==
    ReadUser(c) \/ SweepSessions(c) \/ SweepMessages(c) \/ ArchiveUser(c)

RequestStep(c) == SignInStep(c) \/ ConversationStep(c) \/ DeletionStep(c)

Next ==
    \/ \E c \in Calls :
         \/ RequestStep(c)
         \/ SignsIn(c) \/ Blocks(c) \/ Requests(c) \/ DeleteAccount(c)
         \/ LoseRequest(c) \/ Swallowed(c)
    \/ CacheExpires
    \/ ListMessages

(* Requests go on unless they are lost, and what Redis holds expires.      *)
Fairness ==
    /\ \A c \in Calls : WF_vars(RequestStep(c))
    /\ WF_vars(CacheExpires)

Spec == Init /\ [][Next]_vars /\ Fairness

(***************************************************************************)
(* Properties                                                              *)
(***************************************************************************)
(* Every variable has its type; only users that exist are archived, and    *)
(* only messages of sessions that exist; of sign-ups that race, at most    *)
(* one is told that it created the account ("Returns 201 only when this    *)
(* request inserted the user").                                            *)
AccountsOK ==
    /\ user \in UserRecords /\ (user.archived \/ user.blocked \/ user.ads => user.exists)
    /\ cached \in Statuses \cup {None}
    /\ session \in [Sessions -> SessionRecords]
    /\ message \in [Messages -> MessageRecords]
    /\ request \in [Calls -> RequestRecords]
    /\ links \in 0 .. MaxLinks /\ faults \in 0 .. MaxFaults /\ created \in 0 .. 1
    /\ \A m \in Messages : MessageExists(m) => SessionExists(message[m].session)
    /\ \A m \in Messages : handed[m] \subseteq 1 .. links

(* However often deletion crashes and is repeated, and whatever else runs  *)
(* meanwhile: once the user is archived, so is everything that existed     *)
(* when deletion was first asked for.                                      *)
ArchiveIsWhole ==
    user.archived =>
        /\ owed # None
        /\ \A d \in owed \cap Sessions : session[d].archived
        /\ \A d \in owed \cap Messages : message[d].archived

(* What was deleted stays deleted, although an answer to the chat is       *)
(* stored, a message shared, or the user signs in at the same time.        *)
NothingIsRevived ==
    [][/\ user.archived => user'.archived
       /\ \A s \in Sessions : session[s].archived => session'[s].archived
       /\ \A m \in Messages : message[m].archived => message'[m].archived]_vars

(* "Deleted accounts must not get their ad IDs written back on a later     *)
(* login": only a login that had begun before can still write them.        *)
AdIdsStayGone ==
    [][user.archived /\ ~user.ads /\ user'.ads =>
         \E c \in Calls : At(c, "saveAds") /\ ~request[c].late]_vars

(* A message that is shared keeps its link, and only requests that run at  *)
(* the same time draw links of their own; none of them shows a message of  *)
(* a chat that was deleted before the link was followed.                   *)
LinksAreBounded ==
    \A m \in Messages :
        /\ Cardinality(handed[m]) <= Cardinality(Calls)
        /\ <<"link", m>> \notin shown

(* The guard may trust a status that was read before the account was       *)
(* deleted, but not for ever.                                              *)
RefusalSettles == <>[](user.archived => cached = None \/ cached.archived)
=============================================================================
