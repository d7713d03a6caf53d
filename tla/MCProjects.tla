----------------------------- MODULE MCProjects -----------------------------
(***************************************************************************)
(* A project: its files and its members.  The two share no state, and so a *)
(* behaviour of the instance works either on the files or on the members;  *)
(* checking them in every interleaving would only multiply the states.     *)
(* For the same reason one member uploads where files are deleted, a       *)
(* process may stop or a call may fail, and both members where they just   *)
(* upload.                                                                 *)
(***************************************************************************)
EXTENDS ProjectFiles, Members, TLC

CONSTANTS
    w1, m1,
    MaxDeleted      \* bound on the files that are deleted

OnOneProcess == [c \in Calls |-> w1]

VARIABLE focus      \* the part of the project that this behaviour works on

ProjectInit == focus \in {"one uploader", "two uploaders", "members"} /\ Init /\ MembersInit

Deleted == {f \in Files : ~Exists(f) /\ file[f].doc # None}

ProjectNext ==
    /\ focus' = focus
    /\ \/ /\ focus # "members" /\ Next /\ UNCHANGED memberVars
          /\ Cardinality(Deleted') <= MaxDeleted
          /\ IF focus = "one uploader"
             THEN \A c \in Calls : call'[c].user \in {m1, None}
             ELSE faults' = 0 /\ \A c \in Calls : call'[c].at # "deleteRecord"
       \/ focus = "members" /\ MembersNext /\ UNCHANGED vars

ProjectSpec == ProjectInit /\ [][ProjectNext]_<<vars, memberVars, focus>>

(* The types of both parts.                                                *)
ProjectTypeOK == focus \in {"one uploader", "two uploaders", "members"} /\ TypeOK /\ MembersOK

Alike == Permutations(Calls) \cup Permutations(Files)
=============================================================================
