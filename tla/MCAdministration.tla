-------------------------- MODULE MCAdministration --------------------------
(***************************************************************************)
(* An instance of Administration for TLC: a user with a plan, its request, *)
(* and two operators.                                                      *)
(***************************************************************************)
EXTENDS Administration, TLC

CONSTANTS
    MaxAsked        \* bound on the requests the user sends

VARIABLES scene, asked

Standard == [tier |-> "standard", period |-> "monthly", days |-> 2, credits |-> 4]
StandardPlans == [k \in Purchases |-> Standard]
NoLots == [l \in Lots |-> Standard]

FreshGrant == [kind |-> "grant", fresh |-> TRUE, overrides |-> TRUE]
StackedGrant == [kind |-> "grant", fresh |-> FALSE, overrides |-> FALSE]
StackedAnyway == [kind |-> "grant", fresh |-> FALSE, overrides |-> TRUE]
Extension == [kind |-> "extend", days |-> 1, preserves |-> TRUE]
WiderWindow == [kind |-> "extend", days |-> 1, preserves |-> FALSE]
SetToOne == [kind |-> "set", credits |-> 1]
AddTwo == [kind |-> "delta", credits |-> 2]
TakeThree == [kind |-> "delta", credits |-> -3]
Revocation == [kind |-> "revoke", zeroes |-> TRUE]
Closure == [kind |-> "revoke", zeroes |-> FALSE]

ModelActions ==
    {FreshGrant, StackedGrant, StackedAnyway, Extension, WiderWindow, SetToOne, AddTwo, TakeThree,
     Revocation, Closure}

(* Two actions meet each other, or one of them the requests of the user.   *)
SceneInit ==
    /\ AdminInit
    /\ scene \in {"operators", "customer"}
    /\ scene = "customer" => \A i, j \in Ids : body[i] = body[j]
    /\ asked = 0

SceneNext ==
    /\ AdminNext
    /\ scene' = scene
    /\ asked' = asked + Cardinality({t \in Tasks : At(t, "idle") /\ ~At(t, "idle")'})
    /\ asked' <= MaxAsked
    /\ scene = "operators" => task' = task
    /\ scene = "customer" => Cardinality({i \in Ids : audit'[i] # "none"}) <= 1 /\ faults' = 0

SceneSpec == SceneInit /\ [][SceneNext]_<<adminVars, scene, asked>>

ActionsAreAlike == Permutations(Admins) \cup Permutations(Ids)
=============================================================================
