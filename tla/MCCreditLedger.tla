--------------------------- MODULE MCCreditLedger ---------------------------
(***************************************************************************)
(* Instances of CreditLedger for TLC.  In the code a pool hides the        *)
(* buckets behind it until it is empty, and lots the welcome credits: a    *)
(* behaviour of the instance is about a user with a plan, about one with   *)
(* daily passes or about one with neither, all three with the daily quota, *)
(* and the time of each has a bound of its own.                            *)
(***************************************************************************)
EXTENDS CreditLedger, TLC

CONSTANTS t1, t2, l1, l2, k1, k2,
    Scenes,         \* what behaviours may be about: "plan", "passes", "free"
    PassTime        \* bound on the clock of those without a plan

VARIABLE scene

BasicPass == [tier |-> "basic", period |-> "daily", days |-> 1, credits |-> 1]
PremiumPass == [tier |-> "premium", period |-> "daily", days |-> 1, credits |-> 2]
Standard == [tier |-> "standard", period |-> "monthly", days |-> 2, credits |-> 4]

TwoPasses == [l \in Lots |-> IF l = l1 THEN BasicPass ELSE PremiumPass]
StandardPlans == [k \in Purchases |-> Standard]

SceneInit == Init /\ scene \in Scenes

SceneNext ==
    /\ Next
    /\ scene' = scene
    /\ scene # "passes" => lot' = lot
    /\ scene # "plan" => sub' = sub /\ now' <= PassTime
    /\ scene # "free" => welcome' = welcome

SceneSpec == SceneInit /\ [][SceneNext]_<<vars, scene>>

TasksAreAlike == Permutations(Tasks)
=============================================================================
