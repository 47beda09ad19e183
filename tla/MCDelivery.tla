----------------------------- MODULE MCDelivery -----------------------------
(* Instances of Delivery for TLC: processes with one worker_id deliver a      *)
(* document version; every job is for the same version.                       *)
EXTENDS Delivery, TLC

CONSTANTS j1, j2, j3, j4, w1, w2, w3

MCWorkerId    == [w \in Workers |-> "worker"]
MCDocument    == [j \in Jobs |-> "doc"]
MCPriority    == [j \in Jobs |-> 0]
MCMaxAttempts == [j \in Jobs |-> IF j \in {j1, j4} THEN 2 ELSE 1]

\* The plan of w2 is the beginning of the longer one of w1; the one of w3 agrees
\* with them on the first batch only.
OneLength     == [w \in Workers |-> BatchCount]
UnequalLength == [w \in Workers |-> IF w = w2 THEN BatchCount - 1 ELSE BatchCount]
Plans         == [w \in Workers |-> [i \in Plan(w) |->
                    IF w = w3 /\ i > 0 THEN <<"x", i>> ELSE <<"h", i>>]]
SameCompat    == [w \in Workers |-> "c"]
OtherCompat   == [w \in Workers |-> w]

\* One of three stories: w2 resumes the job of w1, or w1 that of w2, whose plan is
\* shorter; w3 resumes the job of w1 with a plan that goes on otherwise; or w3
\* delivers a second job for the version after that of w1 has ended.  (w1 and w3 are
\* alike but for their names, so that w1 is the one that begins.)
Story(j) == CASE j = j1 -> "shorter" [] j = j4 -> "other" [] OTHER -> "followed"

Told(story) == \E j \in Jobs : Story(j) = story /\ job[j].status # "ABSENT"

OneStory(j) ==
    /\ \A k \in Jobs : job[k].status # "ABSENT" => Story(k) = Story(j)
    /\ j = j3 => job[j2].status # "ABSENT"

Acts(w) ==
    /\ w \in {w2, w3} => (w = w2 <=> Told("shorter"))
    /\ w = w3 => \E j \in Jobs : attempt[j] # << >>

StoryNext ==
    \/ \E j \in Jobs : OneStory(j) /\ Submit(j)
    \/ \E w \in Workers : Acts(w) /\ Turn(w)
    \/ AstraVector
    \/ TimePasses

StorySpec == DeliveryInit /\ [][StoryNext]_deliveryVars

Symmetry == Permutations(Workers)
=============================================================================
