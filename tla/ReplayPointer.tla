--------------------------- MODULE ReplayPointer ----------------------------
(***************************************************************************)
(* What the prepared artifacts promise the delivery: a job points at no    *)
(* artifact, or at one that has been published completely, and what has    *)
(* been published stays.  No object store, leases, parts or crashes.       *)
(***************************************************************************)
CONSTANTS Jobs, Artifacts, Null

VARIABLES
    published,      \* artifacts whose parts and manifest have all been written
    pointer         \* the artifact a job is delivered from, or Null

pointerVars == <<published, pointer>>

PointerInit ==
    /\ published = {}
    /\ pointer = [j \in Jobs |-> Null]

Publish(a) ==
    /\ published' = published \cup {a}
    /\ UNCHANGED pointer

Point(j, a) ==
    /\ a \in published
    /\ pointer' = [pointer EXCEPT ![j] = a]
    /\ UNCHANGED published

PointerNext ==
    \E a \in Artifacts : Publish(a) \/ \E j \in Jobs : Point(j, a)

PointerSpec == PointerInit /\ [][PointerNext]_pointerVars
=============================================================================
