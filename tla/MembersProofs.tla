--------------------------- MODULE MembersProofs ----------------------------
(***************************************************************************)
(* The links and members of a project for any users, links, requests and   *)
(* any number of lost requests.                                            *)
(*                                                                         *)
(* That a link once used or revoked is never taken for another acceptance  *)
(* depends on what requests are about to write: MembersInv says that the   *)
(* request that inserts a link is the only one to know it (RequestOK), and *)
(* that whoever is about to mark a link accepted has joined before.        *)
(*                                                                         *)
(* The last section puts members and files together.                       *)
(***************************************************************************)
EXTENDS MCProjects, ProjectFilesProofs

Joined(u) == \E m \in joined : m.user = u

Types ==
    /\ open \in BOOLEAN /\ lost \in 0 .. MaxLost
    /\ members \in [Invitees -> 0 .. 1] /\ joined \subseteq Membership
    /\ invite \in [Invites -> InviteRecords] /\ request \in [Clients -> RequestRecords]

RequestOK(c) ==
    /\ request[c].at # "idle" => request[c].invite \in Invites
    /\ request[c].at \in {"readProject", "isMember", "addMember", "insert", "markAccepted"} =>
           request[c].user \in Invitees
    /\ request[c].at = "insertInvite" =>
           /\ invite[request[c].invite].status = "none"
           /\ \A d \in Clients : request[d].invite = request[c].invite => c = d
    /\ request[c].at \notin {"idle", "insertInvite"} => invite[request[c].invite].status # "none"
    /\ request[c].at = "markAccepted" => Joined(request[c].user)

InviteOK(i) ==
    invite[i].by # Nobody => invite[i].status \in {"accepted", "revoked"} /\ Joined(invite[i].by)

MembersInv ==
    /\ Types
    /\ \A u \in Invitees : IsMember(u) => Joined(u)
    /\ \A i \in Invites : InviteOK(i)
    /\ \A c \in Clients : RequestOK(c)

(***************************************************************************)
(* What the steps do.                                                      *)
(***************************************************************************)
LEMMA NoRequestIsTyped == NoRequest \in RequestRecords
  BY DEF NoRequest, RequestRecords, RequestSteps

(* A request goes to another step.                                         *)
LEMMA Stepping ==
    ASSUME MembersInv, NEW c \in Clients, NEW step \in RequestSteps, ToStep(c, step)
    PROVE  \E r \in RequestRecords :
              /\ request' = [request EXCEPT ![c] = r]
              /\ r.at = step /\ r.user = request[c].user /\ r.invite = request[c].invite
<1> DEFINE r == [request[c] EXCEPT !.at = step]
<1>1. request' = [request EXCEPT ![c] = r]
  BY DEF ToStep, MembersInv, Types
<1>2. /\ r \in RequestRecords
      /\ r.at = step /\ r.user = request[c].user /\ r.invite = request[c].invite
  BY DEF MembersInv, Types, RequestRecords
<1> HIDE DEF r
<1> QED
  BY <1>1, <1>2

(* A request moves on, nobody leaves what has been joined, and links are   *)
(* written only as each of them allows.                                    *)
LEMMA RequestMoves ==
    ASSUME MembersInv, Types', NEW c \in Clients, NEW r \in RequestRecords,
           request' = [request EXCEPT ![c] = r],
           joined \subseteq joined', \A u \in Invitees : IsMember(u)' => Joined(u)',
           \A i \in Invites : InviteOK(i)',
           \A i \in Invites : invite[i].status = "none" =>
               invite'[i].status = "none"
               \/ (request[c].at = "insertInvite" /\ request[c].invite = i),
           \A i \in Invites : invite[i].status # "none" => invite'[i].status # "none",
           r.invite \in {request[c].invite, Nobody}
               \/ (r.invite \in Invites
                   /\ \A d \in Clients :
                         request[d].at = "insertInvite" => request[d].invite # r.invite),
           RequestOK(c)'
    PROVE  MembersInv'
<1>1. \A d \in Clients : request'[d] = IF d = c THEN r ELSE request[d]
  BY DEF MembersInv, Types
<1>2. \A u : Joined(u) => Joined(u)'
  BY DEF Joined
<1>3. ASSUME NEW d \in Clients, d # c PROVE RequestOK(d)'
  <2>1. RequestOK(d) /\ request'[d] = request[d]
    BY <1>1, <1>3 DEF MembersInv
  <2>2. request[d].at = "markAccepted" => Joined(request[d].user)'
    BY <1>2, <2>1 DEF RequestOK
  <2>3. ASSUME request[d].at = "insertInvite"
        PROVE  /\ invite'[request[d].invite].status = "none"
               /\ \A e \in Clients : request'[e].invite = request[d].invite => d = e
    <3>1. /\ request[d].invite \in Invites /\ request[d].invite # Nobody
          /\ request[c].invite # request[d].invite /\ r.invite # request[d].invite
      BY <1>3, <2>1, <2>3, MembersAssumption DEF RequestOK
    <3> QED
      BY <1>1, <2>1, <2>3, <3>1 DEF RequestOK
  <2> QED
    BY <2>1, <2>2, <2>3 DEF RequestOK, Joined
<1> QED
  BY <1>3 DEF MembersInv

(* A step that takes no part in the requests.                              *)
LEMMA OthersMove ==
    ASSUME MembersInv, Types', UNCHANGED <<request, joined>>,
           \A u \in Invitees : IsMember(u)' => IsMember(u),
           \A i \in Invites : invite'[i].status = invite[i].status /\ invite'[i].by = invite[i].by
    PROVE  MembersInv'
<1>1. \A u : Joined(u)' <=> Joined(u)
  BY DEF Joined
<1>2. \A u \in Invitees : IsMember(u)' => Joined(u)'
  BY <1>1 DEF MembersInv
<1>3. ASSUME NEW i \in Invites PROVE InviteOK(i)'
  BY DEF MembersInv, InviteOK, Joined
<1>4. ASSUME NEW c \in Clients PROVE RequestOK(c)'
  BY DEF MembersInv, RequestOK, Joined
<1> QED
  BY <1>2, <1>3, <1>4 DEF MembersInv

LEMMA OwnersAct ==
    ASSUME MembersInv, NEW c \in Clients, NEW i \in Invites, CreateInvite(c, i) \/ Revoke(c, i)
    PROVE  MembersInv'
<1>1. PICK step \in {"insertInvite", "revoke"} :
         /\ request' = [request EXCEPT ![c] = [at |-> step, user |-> Nobody, invite |-> i]]
         /\ IF step = "insertInvite"
            THEN invite[i].status = "none" /\ \A d \in Clients : request[d].invite # i
            ELSE invite[i].status = "pending"
  BY DEF CreateInvite, Revoke, Begins
<1> DEFINE r == [at |-> step, user |-> Nobody, invite |-> i]
<1>2. r \in RequestRecords /\ r.at = step /\ r.invite = i
  BY DEF RequestRecords, RequestSteps
<1> HIDE DEF r
<1>3. request' = [request EXCEPT ![c] = r] /\ UNCHANGED <<open, members, invite, lost, joined>>
  BY <1>1 DEF CreateInvite, Revoke, r
<1>4. Types' /\ \A d \in Clients : request'[d] = IF d = c THEN r ELSE request[d]
  BY <1>2, <1>3 DEF MembersInv, Types
<1>5. /\ \A u \in Invitees : IsMember(u)' => Joined(u)'
      /\ \A k \in Invites : InviteOK(k)'
  BY <1>3 DEF MembersInv, IsMember, Joined, InviteOK
<1>6. RequestOK(c)'
  BY <1>1, <1>2, <1>3, <1>4 DEF RequestOK
<1>7. \A d \in Clients : request[d].at = "insertInvite" => request[d].invite # i
  BY <1>1 DEF MembersInv, RequestOK
<1> QED
  BY <1>2, <1>3, <1>4, <1>5, <1>6, <1>7, RequestMoves

(* A request is answered, or lost: the link it read is left as it is.      *)
LEMMA RequestLeaves ==
    ASSUME MembersInv, NEW c \in Clients, Answers(c), UNCHANGED <<open, members, invite, joined>>,
           lost' \in 0 .. MaxLost
    PROVE  MembersInv'
<1>1. PICK r \in RequestRecords : r = NoRequest
  BY NoRequestIsTyped
<1>2. request' = [request EXCEPT ![c] = r] /\ r.at = "idle" /\ r.invite = Nobody
  BY <1>1 DEF Answers, NoRequest
<1>3. Types' /\ request'[c] = r
  BY <1>2 DEF MembersInv, Types
<1>4. /\ \A u \in Invitees : IsMember(u)' => Joined(u)'
      /\ \A k \in Invites : InviteOK(k)'
  BY DEF MembersInv, IsMember, Joined, InviteOK
<1>5. RequestOK(c)'
  BY <1>2, <1>3 DEF RequestOK
<1> QED
  BY <1>2, <1>3, <1>4, <1>5, RequestMoves

(* A user follows a link, and the request asks before it writes.           *)
LEMMA AcceptingReads ==
    ASSUME MembersInv, NEW c \in Clients,
           (\E u \in Invitees, i \in Invites : Accept(c, u, i))
           \/ ReadProject(c) \/ AskIsMember(c) \/ AddMember(c)
    PROVE  MembersInv'
<1>0. UNCHANGED <<open, members, invite, lost, joined>> /\ lost' \in 0 .. MaxLost
  BY DEF Accept, ReadProject, AskIsMember, AddMember, MembersInv, Types
<1>1. /\ \A u \in Invitees : IsMember(u)' => Joined(u)'
      /\ \A k \in Invites : InviteOK(k)'
  BY <1>0 DEF MembersInv, IsMember, Joined, InviteOK
<1>2. ASSUME NEW u \in Invitees, NEW i \in Invites, Accept(c, u, i) PROVE MembersInv'
  <2> DEFINE r == [at |-> "readProject", user |-> u, invite |-> i]
  <2>1. r \in RequestRecords /\ r.at = "readProject" /\ r.user = u /\ r.invite = i
    BY DEF RequestRecords, RequestSteps
  <2>2. request' = [request EXCEPT ![c] = r] /\ invite[i].status = "pending"
    BY <1>2 DEF Accept, Begins, Usable
  <2> HIDE DEF r
  <2>3. Types' /\ request'[c] = r
    BY <1>0, <2>1, <2>2 DEF MembersInv, Types
  <2>4. RequestOK(c)'
    BY <1>0, <2>1, <2>2, <2>3 DEF RequestOK
  <2>5. \A d \in Clients : request[d].at = "insertInvite" => request[d].invite # i
    BY <2>2 DEF MembersInv, RequestOK
  <2> QED
    BY <1>0, <1>1, <2>1, <2>2, <2>3, <2>4, <2>5, RequestMoves
<1>3. ASSUME NEW step \in {"isMember", "addMember", "insert", "markAccepted"}, ToStep(c, step),
             request[c].at \in {"readProject", "isMember", "addMember"},
             step = "markAccepted" => IsMember(request[c].user)
      PROVE  MembersInv'
  <2>1. PICK r \in RequestRecords :
           /\ request' = [request EXCEPT ![c] = r]
           /\ r.at = step /\ r.user = request[c].user /\ r.invite = request[c].invite
    BY <1>3, Stepping DEF RequestSteps
  <2>2. Types' /\ request'[c] = r
    BY <1>0, <2>1 DEF MembersInv, Types
  <2>3. /\ r.invite \in Invites /\ r.user \in Invitees /\ invite[r.invite].status # "none"
        /\ step = "markAccepted" => Joined(r.user)
    BY <1>3, <2>1 DEF MembersInv, RequestOK
  <2>4. RequestOK(c)'
    BY <1>0, <1>3, <2>1, <2>2, <2>3 DEF RequestOK, Joined
  <2> QED
    BY <1>0, <1>1, <2>1, <2>2, <2>4, RequestMoves
<1>4. CASE ReadProject(c)
  BY <1>0, <1>3, <1>4, RequestLeaves DEF ReadProject, AtStep
<1>5. CASE AskIsMember(c)
  BY <1>0, <1>3, <1>5, RequestLeaves DEF AskIsMember, AtStep
<1>6. CASE AddMember(c)
  BY <1>0, <1>3, <1>6 DEF AddMember, AtStep
<1> QED
  BY <1>2, <1>4, <1>5, <1>6

(* Whoever is inserted has joined, and only then can the link be marked.   *)
LEMMA MemberIsInserted ==
    ASSUME MembersInv, NEW c \in Clients, InsertMember(c)
    PROVE  MembersInv'
<1>1. PICK u \in Invitees, i \in Invites :
         u = request[c].user /\ i = request[c].invite /\ request[c].at = "insert"
  BY DEF InsertMember, AtStep, MembersInv, RequestOK
<1>2. UNCHANGED <<open, invite, lost>> /\ lost' \in 0 .. MaxLost
  BY DEF InsertMember, MembersInv, Types
<1>3. CASE IsMember(u)
  BY <1>1, <1>2, <1>3, RequestLeaves DEF InsertMember
<1>4. CASE ~IsMember(u)
  <2>1. /\ members' = [members EXCEPT ![u] = @ + 1] /\ ToStep(c, "markAccepted")
        /\ joined' = joined \cup {[user |-> u, invite |-> i]}
    BY <1>1, <1>4 DEF InsertMember
  <2>2. members[u] = 0
    BY <1>4 DEF IsMember, MembersInv, Types
  <2>3. PICK r \in RequestRecords :
           /\ request' = [request EXCEPT ![c] = r]
           /\ r.at = "markAccepted" /\ r.user = u /\ r.invite = i
    BY <1>1, <2>1, Stepping DEF RequestSteps
  <2>4. members' \in [Invitees -> 0 .. 1]
    BY <2>1, <2>2 DEF MembersInv, Types
  <2>5. joined' \subseteq Membership
    BY <2>1 DEF MembersInv, Types, Membership
  <2>6. Types' /\ request'[c] = r
    BY <1>2, <2>3, <2>4, <2>5 DEF MembersInv, Types
  <2>7. Joined(u)' /\ joined \subseteq joined'
    <3>1. [user |-> u, invite |-> i] \in joined'
      BY <2>1
    <3>2. [user |-> u, invite |-> i].user = u
      OBVIOUS
    <3> QED
      BY <2>1, <3>1, <3>2 DEF Joined
  <2>8. \A v \in Invitees : Joined(v) => Joined(v)'
    BY <2>7 DEF Joined
  <2>9. \A v \in Invitees : v # u => members'[v] = members[v]
    BY <2>1 DEF MembersInv, Types
  <2>10. \A v \in Invitees : IsMember(v)' => Joined(v)'
    BY <2>7, <2>8, <2>9 DEF MembersInv, IsMember
  <2>11. \A k \in Invites : InviteOK(k)'
    BY <1>2, <2>7 DEF MembersInv, InviteOK, Joined
  <2>12. RequestOK(c)'
    <3>1. invite'[i].status # "none"
      BY <1>1, <1>2 DEF MembersInv, RequestOK
    <3> QED
      BY <2>3, <2>6, <2>7, <3>1 DEF RequestOK, Joined
  <2> QED
    BY <1>1, <1>2, <2>3, <2>6, <2>7, <2>10, <2>11, <2>12, RequestMoves
<1> QED
  BY <1>3, <1>4

(* A link is written: it becomes w.                                        *)
LEMMA LinkIsWritten ==
    ASSUME MembersInv, NEW c \in Clients, NEW i \in Invites, NEW w \in InviteRecords, Answers(c),
           request[c].invite = i, invite' = [invite EXCEPT ![i] = w],
           UNCHANGED <<open, members, lost, joined>>,
           invite[i].status = "none" => request[c].at = "insertInvite", w.status # "none",
           w.by # Nobody => w.status \in {"accepted", "revoked"} /\ Joined(w.by)
    PROVE  MembersInv'
<1>1. PICK r \in RequestRecords : r = NoRequest
  BY NoRequestIsTyped
<1>2. request' = [request EXCEPT ![c] = r] /\ r.at = "idle" /\ r.invite = Nobody
  BY <1>1 DEF Answers, NoRequest
<1>3. /\ Types' /\ request'[c] = r /\ invite'[i] = w
      /\ \A k \in Invites : k # i => invite'[k] = invite[k]
  BY <1>2 DEF MembersInv, Types
<1>4. \A u \in Invitees : IsMember(u)' => Joined(u)'
  BY DEF MembersInv, IsMember, Joined
<1>5. \A u : Joined(u) <=> Joined(u)'
  BY DEF Joined
<1>6. ASSUME NEW k \in Invites PROVE InviteOK(k)'
  BY <1>3 DEF MembersInv, InviteOK, Joined
<1>7. RequestOK(c)'
  BY <1>2, <1>3 DEF RequestOK
<1> QED
  BY <1>2, <1>3, <1>4, <1>6, <1>7, RequestMoves

LEMMA LinksAreWritten ==
    ASSUME MembersInv, NEW c \in Clients, InsertInvite(c) \/ WriteRevoked(c) \/ MarkAccepted(c)
    PROVE  MembersInv'
<1>1. PICK i \in Invites : i = request[c].invite
  BY DEF InsertInvite, WriteRevoked, MarkAccepted, AtStep, MembersInv, RequestOK
<1>2. Answers(c) /\ UNCHANGED <<open, members, lost, joined>> /\ invite[i] \in InviteRecords
      /\ InviteOK(i) /\ RequestOK(c)
  BY DEF InsertInvite, WriteRevoked, MarkAccepted, MembersInv, Types
<1>3. ASSUME NEW status \in {"pending", "revoked", "accepted"}
      PROVE  LET w == [invite[i] EXCEPT !.status = status]
             IN  w \in InviteRecords /\ w.status = status /\ w.by = invite[i].by
  BY <1>2 DEF InviteRecords
<1>4. CASE InsertInvite(c)
  <2> DEFINE w == [invite[i] EXCEPT !.status = "pending"]
  <2>1. invite' = [invite EXCEPT ![i] = w] /\ request[c].at = "insertInvite"
    BY <1>1, <1>4 DEF InsertInvite, AtStep
  <2>2. w \in InviteRecords /\ w.status = "pending" /\ w.by = invite[i].by
    BY <1>3
  <2> HIDE DEF w
  <2>3. w.by = Nobody
    BY <1>1, <1>2, <2>1, <2>2 DEF RequestOK, InviteOK
  <2> QED
    BY <1>1, <1>2, <2>1, <2>2, <2>3, LinkIsWritten
<1>5. CASE WriteRevoked(c)
  <2> DEFINE w == [invite[i] EXCEPT !.status = "revoked"]
  <2>1. invite' = [invite EXCEPT ![i] = w] /\ request[c].at = "revoke"
    BY <1>1, <1>5 DEF WriteRevoked, AtStep
  <2>2. w \in InviteRecords /\ w.status = "revoked" /\ w.by = invite[i].by
    BY <1>3
  <2> HIDE DEF w
  <2>3. (w.by # Nobody => Joined(w.by)) /\ invite[i].status # "none"
    BY <1>1, <1>2, <2>1, <2>2 DEF InviteOK, RequestOK
  <2> QED
    BY <1>1, <1>2, <2>1, <2>2, <2>3, LinkIsWritten
<1>6. CASE MarkAccepted(c) /\ invite[i].status = "pending"
  <2>1. PICK u \in Invitees : u = request[c].user /\ Joined(u)
    BY <1>2, <1>6 DEF MarkAccepted, AtStep, RequestOK
  <2> DEFINE a == [invite[i] EXCEPT !.status = "accepted"]
             w == [a EXCEPT !.by = u]
  <2>2. invite' = [invite EXCEPT ![i] = w]
    BY <1>1, <1>6, <2>1 DEF MarkAccepted, MembersInv, Types
  <2>3. a \in InviteRecords /\ a.status = "accepted"
    BY <1>3
  <2> HIDE DEF a
  <2>4. w \in InviteRecords /\ w.status = "accepted" /\ w.by = u
    BY <2>3 DEF InviteRecords
  <2> HIDE DEF w
  <2> QED
    BY <1>1, <1>2, <1>6, <2>1, <2>2, <2>4, LinkIsWritten
<1>7. CASE MarkAccepted(c) /\ invite[i].status # "pending"
  BY <1>1, <1>2, <1>7, RequestLeaves DEF MarkAccepted, MembersInv, Types
<1> QED
  BY <1>4, <1>5, <1>6, <1>7

(***************************************************************************)
(* The theorems.                                                           *)
(***************************************************************************)
LEMMA NobodyIsThere ==
    ASSUME MembersInit
    PROVE  MembersInv
<1>1. [status |-> "none", expired |-> FALSE, by |-> Nobody] \in InviteRecords
  BY DEF InviteRecords
<1>2. Types
  BY <1>1, NoRequestIsTyped, MembersAssumption DEF MembersInit, Types
<1>3. ASSUME NEW u \in Invitees PROVE ~IsMember(u)
  BY DEF MembersInit, IsMember
<1>4. ASSUME NEW i \in Invites PROVE InviteOK(i)
  BY DEF MembersInit, InviteOK
<1>5. ASSUME NEW c \in Clients PROVE RequestOK(c)
  BY DEF MembersInit, RequestOK, NoRequest
<1> QED
  BY <1>2, <1>3, <1>4, <1>5 DEF MembersInv

LEMMA MembersPreserved ==
    ASSUME MembersInv, [MembersNext]_memberVars
    PROVE  MembersInv'
<1>1. ASSUME NEW c \in Clients, LoseRequest(c) PROVE MembersInv'
  <2>1. lost' \in 0 .. MaxLost
    BY <1>1, MembersAssumption DEF LoseRequest, MembersInv, Types
  <2> QED
    BY <1>1, <2>1, RequestLeaves DEF LoseRequest
<1>2. ASSUME NEW i \in Invites, Expire(i) PROVE MembersInv'
  <2> DEFINE w == [invite[i] EXCEPT !.expired = TRUE]
  <2>1. invite' = [invite EXCEPT ![i] = w] /\ UNCHANGED <<open, members, request, lost, joined>>
    BY <1>2 DEF Expire, MembersInv, Types
  <2>2. w \in InviteRecords /\ w.status = invite[i].status /\ w.by = invite[i].by
    BY DEF MembersInv, Types, InviteRecords
  <2> HIDE DEF w
  <2>3. Types' /\ \A k \in Invites : invite'[k].status = invite[k].status /\ invite'[k].by = invite[k].by
    BY <2>1, <2>2 DEF MembersInv, Types
  <2> QED
    BY <2>1, <2>3, OthersMove DEF IsMember
<1>3. ASSUME NEW u \in Invitees, RemoveMember(u) PROVE MembersInv'
  <2>1. members' = [members EXCEPT ![u] = @ - 1] /\ UNCHANGED <<open, invite, request, lost, joined>>
    BY <1>3 DEF RemoveMember
  <2>2. members[u] = 1
    BY <1>3 DEF RemoveMember, IsMember, MembersInv, Types
  <2>3. Types' /\ \A v \in Invitees : IsMember(v)' => IsMember(v)
    BY <2>1, <2>2 DEF MembersInv, Types, IsMember
  <2> QED
    BY <2>1, <2>3, OthersMove
<1>4. CASE SetStatus
  BY <1>4, OthersMove DEF SetStatus, MembersInv, Types, IsMember
<1>5. CASE UNCHANGED memberVars
  BY <1>5, OthersMove DEF memberVars, MembersInv, Types, IsMember
<1> QED
  BY <1>1, <1>2, <1>3, <1>4, <1>5, OwnersAct, AcceptingReads, MemberIsInserted, LinksAreWritten
     DEF MembersNext

(* Links, members and requests agree in every reachable state.             *)
THEOREM MembersStayConsistent == MembersSpec => []MembersInv
<1>1. MembersInit => MembersInv
  BY NobodyIsThere
<1>2. MembersInv /\ [MembersNext]_memberVars => MembersInv'
  BY MembersPreserved
<1> QED
  BY <1>1, <1>2, PTL DEF MembersSpec

(* Nobody is a member twice, and nobody without having used a link.        *)
THEOREM MembersAreConsistent == MembersSpec => []MembersOK
<1>1. MembersInv => MembersOK
  BY DEF MembersInv, Types, Joined, MembersOK
<1> QED
  BY <1>1, MembersStayConsistent, PTL

(* A link is used up by somebody who has joined and who stays recorded,    *)
(* and a revoked link stays revoked.                                       *)
THEOREM AcceptorsStand == MembersSpec => AcceptorStands
<1> DEFINE Step ==
      \A i \in Invites :
         /\ invite[i].by # Nobody => invite'[i].by = invite[i].by
         /\ invite'[i].by # invite[i].by => \E m \in joined : m.user = invite'[i].by
         /\ invite[i].status = "revoked" => invite'[i].status = "revoked"
<1>1. ASSUME MembersInv, MembersNext PROVE Step
  <2>1. SUFFICES ASSUME NEW i \in Invites
                 PROVE  /\ invite[i].by # Nobody => invite'[i].by = invite[i].by
                        /\ invite'[i].by # invite[i].by => \E m \in joined : m.user = invite'[i].by
                        /\ invite[i].status = "revoked" => invite'[i].status = "revoked"
    OBVIOUS
  <2>2. InviteOK(i) /\ invite[i] \in InviteRecords /\ invite \in [Invites -> InviteRecords]
    BY <1>1 DEF MembersInv, Types
  <2>3. CASE invite' = invite
    BY <2>3
  <2>4. ASSUME NEW c \in Clients, InsertInvite(c) 
        PROVE  /\ invite'[i].by = invite[i].by
               /\ invite[i].status = "revoked" => invite'[i].status = "revoked"
    <3>1. RequestOK(c) /\ request[c].at = "insertInvite"
      BY <1>1, <2>4 DEF InsertInvite, AtStep, MembersInv
    <3> QED
      BY <2>2, <2>4, <3>1 DEF InsertInvite, RequestOK, InviteRecords
  <2>5. ASSUME NEW c \in Clients, WriteRevoked(c) 
        PROVE  /\ invite'[i].by = invite[i].by
               /\ invite[i].status = "revoked" => invite'[i].status = "revoked"
    BY <2>2, <2>5 DEF WriteRevoked, InviteRecords
  <2>6. ASSUME NEW k \in Invites, Expire(k) 
        PROVE  /\ invite'[i].by = invite[i].by
               /\ invite[i].status = "revoked" => invite'[i].status = "revoked"
    BY <2>2, <2>6 DEF Expire, InviteRecords
  <2>7. ASSUME NEW c \in Clients, MarkAccepted(c), invite' # invite, request[c].invite = i
        PROVE  /\ invite[i].by = Nobody /\ invite[i].status # "revoked"
               /\ invite'[i].by = request[c].user /\ Joined(request[c].user)
    <3>1. request[c].at = "markAccepted" /\ invite[i].status = "pending" /\ RequestOK(c)
      BY <1>1, <2>7 DEF MarkAccepted, AtStep, MembersInv
    <3>2. invite[i].by = Nobody /\ Joined(request[c].user)
      BY <2>2, <3>1 DEF InviteOK, RequestOK
    <3> DEFINE a == [invite[i] EXCEPT !.status = "accepted"]
    <3>3. a \in InviteRecords
      BY <2>2 DEF InviteRecords
    <3>4. invite' = [invite EXCEPT ![i] = [a EXCEPT !.by = request[c].user]]
      BY <2>2, <2>7, <3>1 DEF MarkAccepted
    <3> HIDE DEF a
    <3>5. invite'[i].by = request[c].user
      BY <2>2, <3>3, <3>4 DEF InviteRecords
    <3> QED
      BY <3>1, <3>2, <3>5
  <2>8. ASSUME NEW c \in Clients, MarkAccepted(c), request[c].invite # i
        PROVE  invite'[i] = invite[i]
    BY <2>2, <2>8 DEF MarkAccepted
  <2> QED
    BY <1>1, <2>3, <2>4, <2>5, <2>6, <2>7, <2>8
       DEF Joined, MembersNext, CreateInvite, Revoke, Accept, ReadProject, AskIsMember, AddMember,
           InsertMember, LoseRequest, RemoveMember, SetStatus
<1>2. MembersInv /\ [MembersNext]_memberVars => [Step]_memberVars
  BY <1>1
<1> QED
  BY <1>2, MembersStayConsistent, PTL DEF MembersSpec, AcceptorStands

(***************************************************************************)
(* The bound on what one link admits.  While a link is pending, whoever    *)
(* has joined with it is about to mark it or was lost; afterwards nobody   *)
(* joins but those who had read it before.                                 *)
(***************************************************************************)
Users(i) == {m \in joined : m.invite = i}
Markers(i) == {c \in Clients : request[c].at = "markAccepted" /\ request[c].invite = i}
Readers(i) ==
    {c \in Clients : /\ request[c].at \in {"readProject", "isMember", "addMember", "insert"}
                     /\ request[c].invite = i}

Bound(i) ==
    /\ IsFiniteSet(Users(i))
    /\ invite[i].status = "none" => Users(i) = {}
    /\ invite[i].status = "pending" => Cardinality(Users(i)) <= Cardinality(Markers(i)) + lost
    /\ invite[i].status \in {"accepted", "revoked"} =>
           Cardinality(Users(i)) + Cardinality(Readers(i)) <= Cardinality(Clients) + lost

(* All these sets are finite.                                              *)
LEMMA SetsAreFinite ==
    ASSUME NEW i
    PROVE  /\ IsFiniteSet(Markers(i)) /\ Cardinality(Markers(i)) \in Nat
           /\ IsFiniteSet(Readers(i)) /\ Cardinality(Readers(i)) \in Nat
           /\ Cardinality(Clients) \in Nat
<1>1. Markers(i) \in SUBSET Clients /\ Readers(i) \in SUBSET Clients
  BY DEF Markers, Readers
<1>2. IsFiniteSet(Clients)
  BY MembersAssumption
<1>3. IsFiniteSet(Markers(i)) /\ IsFiniteSet(Readers(i))
  BY <1>1, <1>2, FS_Subset
<1> QED
  BY <1>2, <1>3, FS_CardinalityType

(* What a link has admitted, and may still admit, fits the bound whatever  *)
(* it has come to.                                                         *)
LEMMA UseIsBounded ==
    ASSUME MembersInv, NEW i \in Invites, Bound(i), invite[i].status # "none"
    PROVE  Cardinality(Users(i)) + Cardinality(Readers(i)) <= Cardinality(Clients) + lost
<1>1. invite[i].status \in {"pending", "accepted", "revoked"} /\ lost \in Nat
  BY MembersAssumption DEF MembersInv, Types, InviteRecords
<1>2. CASE invite[i].status = "pending"
  <2>1. Markers(i) \cap Readers(i) = {}
    BY DEF Markers, Readers
  <2>2. Cardinality(Markers(i) \cup Readers(i)) = Cardinality(Markers(i)) + Cardinality(Readers(i))
    BY <2>1, SetsAreFinite, FS_Union, FS_EmptySet
  <2>3. Markers(i) \cup Readers(i) \in SUBSET Clients
    BY DEF Markers, Readers
  <2>4. Cardinality(Markers(i) \cup Readers(i)) <= Cardinality(Clients)
    BY <2>3, MembersAssumption, FS_Subset
  <2>5. Cardinality(Users(i)) \in Nat /\ Cardinality(Users(i)) <= Cardinality(Markers(i)) + lost
    BY <1>2, FS_CardinalityType DEF Bound
  <2> QED
    BY <1>1, <2>2, <2>4, <2>5, SetsAreFinite
<1> QED
  BY <1>1, <1>2 DEF Bound

(* The sets after a step are finite too.                                   *)
LEMMA SetsStayFinite ==
    ASSUME NEW i
    PROVE  /\ IsFiniteSet(Markers(i)') /\ Cardinality(Markers(i)') \in Nat
           /\ IsFiniteSet(Readers(i)') /\ Cardinality(Readers(i)') \in Nat
<1>1. Markers(i)' \in SUBSET Clients /\ Readers(i)' \in SUBSET Clients
  BY DEF Markers, Readers
<1>2. IsFiniteSet(Clients)
  BY MembersAssumption
<1>3. IsFiniteSet(Markers(i)') /\ IsFiniteSet(Readers(i)')
  BY <1>1, <1>2, FS_Subset
<1> QED
  BY <1>3, FS_CardinalityType

(* A step by which nobody joins and no request is lost.                    *)
LEMMA NobodyJoins ==
    ASSUME MembersInv, NEW i \in Invites, Bound(i), lost' = lost, Users(i)' = Users(i),
           \/ invite'[i].status = invite[i].status
           \/ invite[i].status = "none" /\ invite'[i].status = "pending"
           \/ invite[i].status # "none" /\ invite'[i].status \in {"accepted", "revoked"},
           invite'[i].status = "pending" /\ invite[i].status = "pending" =>
               Markers(i) \in SUBSET Markers(i)',
           invite'[i].status \in {"accepted", "revoked"} => Readers(i)' \in SUBSET Readers(i)
    PROVE  Bound(i)'
<1>0. lost \in Nat /\ IsFiniteSet(Users(i)) /\ Cardinality(Users(i)) \in Nat
      /\ invite[i].status \in {"none", "pending", "accepted", "revoked"}
  BY MembersAssumption, FS_CardinalityType DEF MembersInv, Types, InviteRecords, Bound
<1>1. CASE invite'[i].status = "pending" /\ invite[i].status = "pending"
  <2>1. Cardinality(Markers(i)) <= Cardinality(Markers(i)')
    BY <1>1, SetsStayFinite, FS_Subset
  <2>2. Cardinality(Users(i)) <= Cardinality(Markers(i)) + lost
    BY <1>1 DEF Bound
  <2>3. Cardinality(Users(i)') <= Cardinality(Markers(i)') + lost'
    BY <1>0, <2>1, <2>2, SetsAreFinite, SetsStayFinite
  <2> QED
    BY <1>0, <1>1, <2>3 DEF Bound
<1>2. CASE invite'[i].status = "pending" /\ invite[i].status = "none"
  <2>1. Cardinality(Users(i)') = 0
    BY <1>2, FS_EmptySet DEF Bound
  <2>2. Cardinality(Users(i)') <= Cardinality(Markers(i)') + lost'
    BY <1>0, <2>1, SetsStayFinite
  <2> QED
    BY <1>0, <1>2, <2>2 DEF Bound
<1>3. CASE invite'[i].status \in {"accepted", "revoked"}
  <2>1. Cardinality(Readers(i)') <= Cardinality(Readers(i))
    BY <1>3, SetsAreFinite, FS_Subset
  <2>2. Cardinality(Users(i)) + Cardinality(Readers(i)) <= Cardinality(Clients) + lost
    BY <1>3, UseIsBounded
  <2>3. Cardinality(Users(i)') + Cardinality(Readers(i)') <= Cardinality(Clients) + lost'
    BY <1>0, <2>1, <2>2, SetsAreFinite, SetsStayFinite
  <2> QED
    BY <1>0, <1>3, <2>3 DEF Bound
<1>4. CASE invite'[i].status = "none"
  BY <1>0, <1>4 DEF Bound
<1> QED
  BY <1>0, <1>1, <1>2, <1>3, <1>4

(* A step of one request that leaves everybody where they are.             *)
LEMMA OneRequestMoves ==
    ASSUME MembersInv, NEW c \in Clients, UNCHANGED <<lost, joined>>, NEW i \in Invites, Bound(i),
           \A d \in Clients : d # c => request'[d] = request[d],
           \/ invite'[i].status = invite[i].status
           \/ invite[i].status = "none" /\ invite'[i].status = "pending"
           \/ invite[i].status # "none" /\ invite'[i].status \in {"accepted", "revoked"},
           request[c].at = "markAccepted" /\ request[c].invite = i => invite'[i].status # "pending",
           request'[c].at \in {"readProject", "isMember", "addMember", "insert"}
               /\ request'[c].invite = i =>
               \/ invite'[i].status \in {"none", "pending"}
               \/ /\ request[c].invite = i
                  /\ request[c].at \in {"readProject", "isMember", "addMember", "insert"}
    PROVE  Bound(i)'
<1>1. Users(i)' = Users(i)
  BY DEF Users
<1>2. invite'[i].status = "pending" => Markers(i) \in SUBSET Markers(i)'
  BY DEF Markers
<1>3. invite'[i].status \in {"accepted", "revoked"} => Readers(i)' \in SUBSET Readers(i)
  BY DEF Readers
<1> QED
  BY <1>1, <1>2, <1>3, NobodyJoins

(* A member is inserted: a reader of the link becomes one of its markers.  *)
LEMMA OneJoins ==
    ASSUME MembersInv, NEW c \in Clients, InsertMember(c), NEW i \in Invites, Bound(i)
    PROVE  Bound(i)'
<1>0. /\ request[c].at = "insert" /\ UNCHANGED <<open, invite, lost>> /\ RequestOK(c)
      /\ request \in [Clients -> RequestRecords] /\ lost \in Nat
      /\ invite[i].status \in {"none", "pending", "accepted", "revoked"}
  BY MembersAssumption DEF InsertMember, AtStep, MembersInv, Types, InviteRecords
<1>1. CASE IsMember(request[c].user)
  <2>1. Answers(c) /\ UNCHANGED <<members, joined>>
    BY <1>1 DEF InsertMember
  <2>2. request'[c] = NoRequest /\ \A d \in Clients : d # c => request'[d] = request[d]
    BY <1>0, <2>1 DEF Answers
  <2> QED
    BY <1>0, <2>1, <2>2, OneRequestMoves DEF NoRequest
<1>2. CASE ~IsMember(request[c].user)
  <2> DEFINE row == [user |-> request[c].user, invite |-> request[c].invite]
  <2>1. joined' = joined \cup {row} /\ ToStep(c, "markAccepted")
    BY <1>2 DEF InsertMember
  <2>2. row.invite = request[c].invite
    OBVIOUS
  <2> HIDE DEF row
  <2>3. /\ request'[c].at = "markAccepted" /\ request'[c].invite = request[c].invite
        /\ \A d \in Clients : d # c => request'[d] = request[d]
    BY <1>0, <2>1 DEF ToStep, RequestRecords
  <2>4. CASE request[c].invite = i
    <3>1. Users(i)' = Users(i) \cup {row}
      BY <2>1, <2>2, <2>4 DEF Users
    <3>2. /\ IsFiniteSet(Users(i)') /\ Cardinality(Users(i)) \in Nat /\ Cardinality(Users(i)') \in Nat
          /\ Cardinality(Users(i)') <= Cardinality(Users(i)) + 1
      <4>1. IsFiniteSet(Users(i))
        BY DEF Bound
      <4>2. Cardinality(Users(i)) \in Nat
        BY <4>1, FS_CardinalityType
      <4>3. /\ IsFiniteSet(Users(i) \cup {row})
            /\ Cardinality(Users(i) \cup {row}) \in {Cardinality(Users(i)), Cardinality(Users(i)) + 1}
        BY <4>1, FS_AddElement
      <4> QED
        BY <3>1, <4>2, <4>3
    <3>3. Markers(i)' = Markers(i) \cup {c} /\ c \notin Markers(i)
      BY <1>0, <2>3, <2>4 DEF Markers
    <3>4. Readers(i)' = Readers(i) \ {c} /\ c \in Readers(i)
      BY <1>0, <2>3, <2>4 DEF Readers
    <3>5. Cardinality(Markers(i)') = Cardinality(Markers(i)) + 1
      BY <3>3, SetsAreFinite, FS_AddElement
    <3>6. Cardinality(Readers(i)') = Cardinality(Readers(i)) - 1
      BY <3>4, SetsAreFinite, FS_RemoveElement
    <3>7. invite[i].status # "none"
      BY <1>0, <2>4 DEF RequestOK
    <3>8. CASE invite[i].status = "pending"
      <4>1. Cardinality(Users(i)) <= Cardinality(Markers(i)) + lost
        BY <3>8 DEF Bound
      <4>2. Cardinality(Users(i)') <= Cardinality(Markers(i)') + lost'
        BY <1>0, <3>2, <3>5, <4>1, SetsAreFinite
      <4> QED
        BY <1>0, <3>2, <3>8, <4>2 DEF Bound
    <3>9. CASE invite[i].status \in {"accepted", "revoked"}
      <4>1. Cardinality(Users(i)) + Cardinality(Readers(i)) <= Cardinality(Clients) + lost
        BY <3>9 DEF Bound
      <4>2. Cardinality(Users(i)') + Cardinality(Readers(i)') <= Cardinality(Clients) + lost'
        BY <1>0, <3>2, <3>6, <4>1, SetsAreFinite
      <4> QED
        BY <1>0, <3>2, <3>9, <4>2 DEF Bound
    <3> QED
      BY <1>0, <3>7, <3>8, <3>9
  <2>5. CASE request[c].invite # i
    <3>1. Users(i)' = Users(i)
      BY <2>1, <2>2, <2>5 DEF Users
    <3>2. Markers(i)' = Markers(i) /\ Readers(i)' = Readers(i)
      BY <2>3, <2>5 DEF Markers, Readers
    <3> QED
      BY <1>0, <3>1, <3>2, NobodyJoins
  <2> QED
    BY <2>4, <2>5
<1> QED
  BY <1>1, <1>2

(* A lost request may have joined without marking the link.                *)
LEMMA OneIsLost ==
    ASSUME MembersInv, NEW c \in Clients, LoseRequest(c), NEW i \in Invites, Bound(i)
    PROVE  Bound(i)'
<1>0. /\ UNCHANGED <<invite, joined>> /\ lost' = lost + 1 /\ lost \in Nat
      /\ request' = [request EXCEPT ![c] = NoRequest] /\ request \in [Clients -> RequestRecords]
      /\ invite[i].status \in {"none", "pending", "accepted", "revoked"}
  BY MembersAssumption DEF LoseRequest, Answers, MembersInv, Types, InviteRecords
<1>1. /\ Users(i)' = Users(i) /\ Markers(i)' = Markers(i) \ {c} /\ Readers(i)' \in SUBSET Readers(i)
  BY <1>0 DEF Users, Markers, Readers, NoRequest
<1>2. /\ Cardinality(Markers(i)) <= Cardinality(Markers(i)') + 1
      /\ Cardinality(Readers(i)') <= Cardinality(Readers(i))
      /\ Cardinality(Users(i)) \in Nat
  <2>1. Cardinality(Markers(i)) <= Cardinality(Markers(i)') + 1
    BY <1>1, SetsAreFinite, FS_RemoveElement
  <2>2. Cardinality(Readers(i)') <= Cardinality(Readers(i))
    BY <1>1, SetsAreFinite, FS_Subset
  <2>3. IsFiniteSet(Users(i))
    BY DEF Bound
  <2> QED
    BY <2>1, <2>2, <2>3, FS_CardinalityType
<1>3. /\ Cardinality(Markers(i)) \in Nat /\ Cardinality(Markers(i)') \in Nat
      /\ Cardinality(Readers(i)) \in Nat /\ Cardinality(Readers(i)') \in Nat
      /\ Cardinality(Clients) \in Nat /\ Cardinality(Users(i)') = Cardinality(Users(i))
  BY <1>1, SetsAreFinite, SetsStayFinite
<1>4. CASE invite[i].status = "pending"
  <2>1. Cardinality(Users(i)) <= Cardinality(Markers(i)) + lost
    BY <1>4 DEF Bound
  <2>2. Cardinality(Users(i)') <= Cardinality(Markers(i)') + lost'
    BY <1>0, <1>2, <1>3, <2>1
  <2> QED
    BY <1>0, <1>1, <1>4, <2>2 DEF Bound
<1>5. CASE invite[i].status \in {"accepted", "revoked"}
  <2>1. Cardinality(Users(i)) + Cardinality(Readers(i)) <= Cardinality(Clients) + lost
    BY <1>5 DEF Bound
  <2>2. Cardinality(Users(i)') + Cardinality(Readers(i)') <= Cardinality(Clients) + lost'
    BY <1>0, <1>2, <1>3, <2>1
  <2> QED
    BY <1>0, <1>1, <1>5, <2>2 DEF Bound
<1>6. CASE invite[i].status = "none"
  BY <1>0, <1>1, <1>6 DEF Bound
<1> QED
  BY <1>0, <1>4, <1>5, <1>6

LEMMA BoundIsKept ==
    ASSUME MembersInv, [MembersNext]_memberVars, NEW i \in Invites, Bound(i)
    PROVE  Bound(i)'
<1>0. /\ request \in [Clients -> RequestRecords] /\ invite \in [Invites -> InviteRecords]
      /\ invite[i] \in InviteRecords
  BY DEF MembersInv, Types
<1>1. CASE UNCHANGED <<request, lost, joined>> /\ invite'[i].status = invite[i].status
  <2>1. Users(i)' = Users(i) /\ Markers(i)' = Markers(i) /\ Readers(i)' = Readers(i)
    BY <1>1 DEF Users, Markers, Readers
  <2> QED
    BY <1>1, <2>1, NobodyJoins
<1>2. ASSUME NEW k \in Invites, Expire(k) PROVE invite'[i].status = invite[i].status
  BY <1>0, <1>2 DEF Expire, InviteRecords
<1>3. ASSUME NEW c \in Clients, NEW k \in Invites, CreateInvite(c, k) \/ Revoke(c, k) PROVE Bound(i)'
  <2>1. /\ UNCHANGED <<invite, lost, joined>>
        /\ request'[c].at \in {"insertInvite", "revoke"} /\ request[c].at = "idle"
        /\ \A d \in Clients : d # c => request'[d] = request[d]
    BY <1>0, <1>3 DEF CreateInvite, Revoke, Begins, AtStep
  <2> QED
    BY <2>1, OneRequestMoves
<1>4. ASSUME NEW c \in Clients, NEW u \in Invitees, NEW k \in Invites, Accept(c, u, k) PROVE Bound(i)'
  <2>1. /\ UNCHANGED <<invite, lost, joined>> /\ invite[k].status = "pending"
        /\ request'[c].invite = k /\ request[c].at = "idle"
        /\ \A d \in Clients : d # c => request'[d] = request[d]
    BY <1>0, <1>4 DEF Accept, Begins, AtStep, Usable
  <2> QED
    BY <2>1, OneRequestMoves
<1>5. ASSUME NEW c \in Clients, ReadProject(c) \/ AskIsMember(c) \/ AddMember(c) PROVE Bound(i)'
  <2>1. /\ UNCHANGED <<invite, lost, joined>>
        /\ request[c].at \in {"readProject", "isMember", "addMember"}
        /\ request'[c] = NoRequest \/ request'[c].invite = request[c].invite
        /\ \A d \in Clients : d # c => request'[d] = request[d]
    BY <1>0, <1>5 DEF ReadProject, AskIsMember, AddMember, ToStep, Answers, AtStep, RequestRecords
  <2> QED
    BY <2>1, OneRequestMoves DEF NoRequest
<1>6. ASSUME NEW c \in Clients, InsertInvite(c) \/ WriteRevoked(c) \/ MarkAccepted(c) PROVE Bound(i)'
  <2>1. /\ UNCHANGED <<lost, joined>> /\ request'[c] = NoRequest /\ RequestOK(c)
        /\ \A d \in Clients : d # c => request'[d] = request[d]
    BY <1>0, <1>6 DEF InsertInvite, WriteRevoked, MarkAccepted, Answers, MembersInv
  <2>2. CASE request[c].invite # i
    <3>1. invite'[i] = invite[i]
      BY <1>0, <1>6, <2>2 DEF InsertInvite, WriteRevoked, MarkAccepted
    <3> QED
      BY <2>1, <2>2, <3>1, OneRequestMoves DEF NoRequest
  <2>3. CASE request[c].invite = i /\ InsertInvite(c)
    <3>1. /\ invite[i].status = "none" /\ invite'[i].status = "pending"
          /\ request[c].at = "insertInvite"
      BY <1>0, <2>1, <2>3 DEF InsertInvite, AtStep, RequestOK, InviteRecords
    <3> QED
      BY <2>1, <3>1, OneRequestMoves DEF NoRequest
  <2>4. CASE request[c].invite = i /\ WriteRevoked(c)
    <3>1. /\ invite[i].status # "none" /\ invite'[i].status = "revoked" /\ request[c].at = "revoke"
      BY <1>0, <2>1, <2>4 DEF WriteRevoked, AtStep, RequestOK, InviteRecords
    <3> QED
      BY <2>1, <3>1, OneRequestMoves DEF NoRequest
  <2>5. CASE request[c].invite = i /\ MarkAccepted(c)
    <3>1. invite[i].status # "none" /\ request[c].at = "markAccepted"
      BY <2>1, <2>5 DEF MarkAccepted, AtStep, RequestOK
    <3>2. CASE invite[i].status = "pending"
      <4> DEFINE a == [invite[i] EXCEPT !.status = "accepted"]
      <4>1. a \in InviteRecords /\ a.status = "accepted"
        BY <1>0 DEF InviteRecords
      <4>2. invite' = [invite EXCEPT ![i] = [a EXCEPT !.by = request[c].user]]
        BY <1>0, <2>5, <3>2 DEF MarkAccepted
      <4> HIDE DEF a
      <4>3. invite'[i].status = "accepted"
        BY <1>0, <4>1, <4>2 DEF InviteRecords
      <4> QED
        BY <2>1, <3>1, <4>3, OneRequestMoves DEF NoRequest
    <3>3. CASE invite[i].status # "pending"
      <4>1. invite' = invite
        BY <2>5, <3>3 DEF MarkAccepted
      <4> QED
        BY <2>1, <3>3, <4>1, OneRequestMoves DEF NoRequest
    <3> QED
      BY <3>2, <3>3
  <2> QED
    BY <1>6, <2>2, <2>3, <2>4, <2>5
<1>7. ASSUME NEW u \in Invitees, RemoveMember(u) PROVE Bound(i)'
  BY <1>1, <1>7 DEF RemoveMember
<1>8. CASE SetStatus \/ UNCHANGED memberVars
  BY <1>1, <1>8 DEF SetStatus, memberVars
<1>9. ASSUME NEW k \in Invites, Expire(k) PROVE Bound(i)'
  BY <1>1, <1>2, <1>9 DEF Expire
<1> QED
  BY <1>3, <1>4, <1>5, <1>6, <1>7, <1>8, <1>9, OneJoins, OneIsLost DEF MembersNext

(* A link admits at most the requests that run together, and one more for  *)
(* each that is lost, however many users follow it.                        *)
THEOREM InviteOveruseBounded == MembersSpec => []InviteOveruseIsBounded
<1> DEFINE Bounds == \A i \in Invites : Bound(i)
<1>1. MembersInit => Bounds
  <2> SUFFICES ASSUME MembersInit, NEW i \in Invites PROVE Bound(i)
    OBVIOUS
  <2>1. Users(i) = {} /\ invite[i].status = "none"
    BY DEF MembersInit, Users
  <2> QED
    BY <2>1, FS_EmptySet DEF Bound
<1>2. MembersInv /\ Bounds /\ [MembersNext]_memberVars => Bounds'
  BY BoundIsKept
<1>3. MembersInv /\ Bounds => InviteOveruseIsBounded
  <2> SUFFICES ASSUME MembersInv, Bounds, NEW i \in Invites
               PROVE  Cardinality(Users(i)) <= Cardinality(Clients) + lost
    BY DEF InviteOveruseIsBounded, Users
  <2>1. Bound(i) /\ lost \in Nat /\ Cardinality(Users(i)) \in Nat
    BY MembersAssumption, FS_CardinalityType DEF MembersInv, Types, Bound
  <2>2. CASE invite[i].status = "none"
    BY <2>1, <2>2, SetsAreFinite, FS_EmptySet DEF Bound
  <2>3. CASE invite[i].status # "none"
    BY <2>1, <2>3, UseIsBounded, SetsAreFinite
  <2> QED
    BY <2>2, <2>3
<1> QED
  BY <1>1, <1>2, <1>3, MembersStayConsistent, PTL DEF MembersSpec


(***************************************************************************)
(* Files and members together.                                             *)
(***************************************************************************)
(* Whatever a project does is something that its files or its members do,  *)
(* and so everything proved of either holds of the project.                *)
LEMMA ProjectHasItsParts ==
    ProjectSpec => Spec /\ MembersSpec
<1>1. ProjectInit => Init /\ MembersInit
  BY DEF ProjectInit
<1>2. [ProjectNext]_<<vars, memberVars, focus>> => [Next]_vars /\ [MembersNext]_memberVars
  BY DEF ProjectNext
<1> QED
  BY <1>1, <1>2, PTL DEF ProjectSpec, Spec, MembersSpec

LEMMA FocusStays ==
    ProjectSpec => [](focus \in {"one uploader", "two uploaders", "members"})
<1>1. ProjectInit => focus \in {"one uploader", "two uploaders", "members"}
  BY DEF ProjectInit
<1>2. focus \in {"one uploader", "two uploaders", "members"} /\ [ProjectNext]_<<vars, memberVars, focus>>
          => (focus \in {"one uploader", "two uploaders", "members"})'
  BY DEF ProjectNext
<1> QED
  BY <1>1, <1>2, PTL DEF ProjectSpec

(* The files and the members of a project keep their types.                *)
THEOREM ProjectTyped == ProjectSpec => []ProjectTypeOK
<1>1. focus \in {"one uploader", "two uploaders", "members"} /\ TypeOK /\ MembersOK => ProjectTypeOK
  BY DEF ProjectTypeOK
<1> QED
  BY <1>1, ProjectHasItsParts, FocusStays, TypesHold, MembersAreConsistent, PTL
=============================================================================
