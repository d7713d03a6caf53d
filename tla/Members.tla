------------------------------ MODULE Members -------------------------------
(***************************************************************************)
(* The members of one project and the links its owner invites them with    *)
(* (services/project_member_service.py, the access checks of               *)
(* services/project_service.py).  One step is one call of the database.    *)
(***************************************************************************)
EXTENDS Integers, FiniteSets

CONSTANTS
    Clients,        \* requests that are served at the same time
    Invitees,       \* users other than the owner
    Invites,        \* ids of invite links
    MaxLost,        \* bound on lost requests
    Nobody

ASSUME MembersAssumption ==
    /\ IsFiniteSet(Clients)
    /\ Nobody \notin Clients \cup Invitees \cup Invites
    /\ MaxLost \in Nat

VARIABLES
    open,           \* whether the project is active
    members,        \* the number of rows of project_members, by user
    invite,         \* the rows of project_invites
    request,        \* the requests
    lost,           \* how many requests were lost
    joined          \* history: who became a member, through which link

memberVars == <<open, members, invite, request, lost, joined>>

Membership == [user : Invitees, invite : Invites]
InviteRecords ==
    [status : {"none", "pending", "accepted", "revoked"}, expired : BOOLEAN,
     by : Invitees \cup {Nobody}]
RequestSteps ==
    {"idle", "readProject", "isMember", "addMember", "insert", "markAccepted",
     "insertInvite", "revoke"}
RequestRecords ==
    [at : RequestSteps, user : Invitees \cup {Nobody}, invite : Invites \cup {Nobody}]
NoRequest == [at |-> "idle", user |-> Nobody, invite |-> Nobody]

MembersInit ==
    /\ open = TRUE
    /\ members = [u \in Invitees |-> 0]
    /\ invite = [i \in Invites |-> [status |-> "none", expired |-> FALSE, by |-> Nobody]]
    /\ request = [c \in Clients |-> NoRequest]
    /\ lost = 0
    /\ joined = {}

AtStep(c, step) == request[c].at = step
ToStep(c, step) == request' = [request EXCEPT ![c].at = step]
Answers(c) == request' = [request EXCEPT ![c] = NoRequest]
Begins(c, step, u, i) ==
    AtStep(c, "idle") /\ request' = [request EXCEPT ![c] = [at |-> step, user |-> u, invite |-> i]]

IsMember(u) == members[u] > 0

(* The owner creates a link, while the project is active.                  *)
CreateInvite(c, i) ==
    /\ open /\ invite[i].status = "none" /\ \A d \in Clients : request[d].invite # i
    /\ Begins(c, "insertInvite", Nobody, i)
    /\ UNCHANGED <<open, members, invite, lost, joined>>

InsertInvite(c) ==
    /\ AtStep(c, "insertInvite")
    /\ invite' = [invite EXCEPT ![request[c].invite].status = "pending"]
    /\ Answers(c)
    /\ UNCHANGED <<open, members, lost, joined>>

(* A link is pending until PROJECT_INVITE_TTL_HOURS are over.              *)
Expire(i) ==
    /\ invite[i].status = "pending" /\ ~invite[i].expired
    /\ invite' = [invite EXCEPT ![i].expired = TRUE]
    /\ UNCHANGED <<open, members, request, lost, joined>>

(* The owner revokes a link: it must be pending when it is read, and is    *)
(* overwritten whatever it is then.                                        *)
Revoke(c, i) ==
    /\ invite[i].status = "pending"
    /\ Begins(c, "revoke", Nobody, i)
    /\ UNCHANGED <<open, members, invite, lost, joined>>

WriteRevoked(c) ==
    /\ AtStep(c, "revoke")
    /\ invite' = [invite EXCEPT ![request[c].invite].status = "revoked"]
    /\ Answers(c)
    /\ UNCHANGED <<open, members, lost, joined>>

(* As if a used link were still good until it expires.                     *)
UsableUntilExpired(i) == invite[i].status \in {"pending", "accepted"} /\ ~invite[i].expired

(* _effective_invite_status.                                               *)
Usable(i) == invite[i].status = "pending" /\ ~invite[i].expired

(* accept_invite: the link, the project, and whether the user is a member  *)
(* already, are read one after the other.                                  *)
Accept(c, u, i) ==
    /\ Usable(i)
    /\ Begins(c, "readProject", u, i)
    /\ UNCHANGED <<open, members, invite, lost, joined>>

ReadProject(c) ==
    /\ AtStep(c, "readProject")
    /\ IF open THEN ToStep(c, "isMember") ELSE Answers(c)
    /\ UNCHANGED <<open, members, invite, lost, joined>>

(* A member is told so, and the link stays pending.                        *)
AskIsMember(c) ==
    /\ AtStep(c, "isMember")
    /\ IF IsMember(request[c].user) THEN Answers(c) ELSE ToStep(c, "addMember")
    /\ UNCHANGED <<open, members, invite, lost, joined>>

(* add_member asks again: somebody who has joined meanwhile uses the link  *)
(* up all the same.                                                        *)
AddMember(c) ==
    /\ AtStep(c, "addMember")
    /\ ToStep(c, IF IsMember(request[c].user) THEN "markAccepted" ELSE "insert")
    /\ UNCHANGED <<open, members, invite, lost, joined>>

(* As if there were no index.                                              *)
InsertMemberAgain(c) ==
    LET row == [user |-> request[c].user, invite |-> request[c].invite] IN
    /\ AtStep(c, "insert")
    /\ members' = [members EXCEPT ![row.user] = @ + 1] /\ joined' = joined \cup {row}
    /\ ToStep(c, "markAccepted")
    /\ UNCHANGED <<open, invite, lost>>

(* The index over project and user makes a second insertion raise, and the *)
(* link then stays pending.                                                *)
InsertMember(c) ==
    LET row == [user |-> request[c].user, invite |-> request[c].invite] IN
    /\ AtStep(c, "insert")
    /\ IF IsMember(row.user)
       THEN Answers(c) /\ UNCHANGED <<members, joined>>
       ELSE /\ members' = [members EXCEPT ![row.user] = @ + 1]
            /\ joined' = joined \cup {row}
            /\ ToStep(c, "markAccepted")
    /\ UNCHANGED <<open, invite, lost>>

(* As if the update did not ask for a pending link.                        *)
MarkAnyAccepted(c) ==
    /\ AtStep(c, "markAccepted")
    /\ invite' = [invite EXCEPT ![request[c].invite].status = "accepted",
                                ![request[c].invite].by = request[c].user]
    /\ Answers(c)
    /\ UNCHANGED <<open, members, lost, joined>>

(* Only a pending link is marked; the answer is the same if it is not.     *)
MarkAccepted(c) ==
    LET i == request[c].invite IN
    /\ AtStep(c, "markAccepted")
    /\ invite' = IF invite[i].status = "pending"
                 THEN [invite EXCEPT ![i].status = "accepted", ![i].by = request[c].user]
                 ELSE invite
    /\ Answers(c)
    /\ UNCHANGED <<open, members, lost, joined>>

(* The owner removes a member, and closes or reopens the project.          *)
RemoveMember(u) ==
    /\ IsMember(u)
    /\ members' = [members EXCEPT ![u] = @ - 1]
    /\ UNCHANGED <<open, invite, request, lost, joined>>

SetStatus ==
    /\ open' = ~open
    /\ UNCHANGED <<members, invite, request, lost, joined>>

(* A request is canceled, its process stops, or a call of it raises.       *)
LoseRequest(c) ==
    /\ ~AtStep(c, "idle") /\ lost < MaxLost
    /\ lost' = lost + 1
    /\ Answers(c)
    /\ UNCHANGED <<open, members, invite, joined>>

MembersNext ==
    \/ \E c \in Clients :
         \/ \E i \in Invites :
              \/ CreateInvite(c, i) \/ Revoke(c, i)
              \/ \E u \in Invitees : Accept(c, u, i)
         \/ InsertInvite(c) \/ WriteRevoked(c)
         \/ ReadProject(c) \/ AskIsMember(c) \/ AddMember(c) \/ InsertMember(c)
         \/ MarkAccepted(c) \/ LoseRequest(c)
    \/ \E i \in Invites : Expire(i)
    \/ \E u \in Invitees : RemoveMember(u)
    \/ SetStatus

MembersSpec == MembersInit /\ [][MembersNext]_memberVars

(***************************************************************************)
(* Properties                                                              *)
(***************************************************************************)
(* Every variable has its type, and nobody is a member twice.              *)
MembersOK ==
    /\ open \in BOOLEAN
    /\ members \in [Invitees -> 0 .. 1]
    /\ joined \subseteq Membership
    /\ \A u \in Invitees : IsMember(u) => \E m \in joined : m.user = u
    /\ invite \in [Invites -> InviteRecords]
    /\ request \in [Clients -> RequestRecords]
    /\ lost \in 0 .. MaxLost

(* "Each invite is single-use": the member is added before the link is     *)
(* marked, so it admits those who use it at the same time, and one more    *)
(* for each request that is lost in between, but nobody else.              *)
InviteOveruseIsBounded ==
    \A i \in Invites :
        Cardinality({m \in joined : m.invite = i}) <= Cardinality(Clients) + lost

(* A link is used up only by somebody who has joined the project, who      *)
(* stays recorded whoever else uses it at the same time, and a revoked     *)
(* link stays revoked although somebody is about to mark it accepted.      *)
AcceptorStands ==
    [][\A i \in Invites :
         /\ invite[i].by # Nobody => invite'[i].by = invite[i].by
         /\ invite'[i].by # invite[i].by => \E m \in joined : m.user = invite'[i].by
         /\ invite[i].status = "revoked" => invite'[i].status = "revoked"]_memberVars

=============================================================================
