----------------------------- MODULE BatchPlan -----------------------------
(***************************************************************************)
(* From the fragments of a prepared artifact to the batches of the upload: *)
(*   PreparedArtifactDeliveryMapper.logical_blocks makes a document root   *)
(*     and one block per fragment, in the order of their sequence numbers; *)
(*   validate_logical_blocks accepts one connected tree;                   *)
(*   DeterministicBatchPlanner orders the blocks and packs them.           *)
(* The blocks may also come from elsewhere, in any shape (Graphs).         *)
(* A text is its number of bytes, 0 when it is blank.  Errors are told     *)
(* apart by the operation that raises them.                                *)
(***************************************************************************)
EXTENDS Integers, Sequences, FiniteSets, SequencesExt, NoValue

CONSTANTS
    Artifacts,      \* sequences of fragments, in the order they were read
    Graphs,         \* sequences of blocks of another provider
    MaxBlocks,      \* max_blocks_per_batch
    MaxBatchBytes,  \* max_batch_bytes, or Null
    MaxUInt         \* bound of a wire integer (2^32 - 1)

\* DeterministicBatchPlanner.__init__
PlannerIsValid ==
    /\ MaxBlocks \in Nat \ {0}
    /\ MaxBatchBytes # Null => MaxBatchBytes \in Nat \ {0}
    /\ MaxUInt \in Nat

\* The errors, by the operation that raises them.
Errors == {"mapping", "validation", "planning", "wire"}

\* Fragments and blocks come in tuples; sizes and numbers are integers.
InputsAreValid ==
    /\ Null \notin Errors
    /\ \A s \in Artifacts \cup Graphs : Len(s) \in Nat /\ DOMAIN s = 1..Len(s)
    /\ \A s \in Artifacts : \A k \in DOMAIN s : s[k].sequence \in Int /\ s[k].bytes \in Int
    /\ \A s \in Graphs : \A k \in DOMAIN s : s[k].order \in Int /\ s[k].bytes \in Int

ASSUME PlanAssumption == PlannerIsValid /\ InputsAreValid

VARIABLES
    fragments,  \* the artifact, or Null
    blocks,     \* payload.logical_blocks
    stage,      \* "map", "check", "walk", "order", "pack" or "done"
    start,      \* index of the block whose parent chain is followed
    current,    \* id the walk has come to
    seen,       \* ids of this chain
    packed,     \* ordered blocks taken so far
    chunk,      \* the batch being filled
    batches,    \* the batches that are closed
    error       \* "mapping", "validation", "planning", "wire", or Null

planVars == <<fragments, blocks, stage, start, current, seen, packed, chunk, batches, error>>

PlanInit ==
    /\ \/ fragments \in Artifacts /\ blocks = << >> /\ stage = "map"
       \/ fragments = Null /\ blocks \in Graphs /\ stage = "check"
    /\ start = 1 /\ current = Null /\ seen = {}
    /\ packed = 0 /\ chunk = << >> /\ batches = << >>
    /\ error = Null

\* str.strip on the ids of the model: "a_" is "a" with white space around it.
Strip(id) == CASE id = "a_" -> "a" [] id = "_" -> "" [] OTHER -> id

Unique(s) == \A i, k \in 1..Len(s) : s[i] = s[k] => i = k

\* sorted(s, key), for keys that differ: the n-th is the one with n - 1 smaller.
SortedBy(s, key) ==
    LET Rank(k) == Cardinality({m \in 1..Len(s) : key[m] < key[k]})
    IN  [n \in 1..Len(s) |-> s[CHOOSE k \in 1..Len(s) : Rank(k) = n - 1]]

Fail(kind) ==
    /\ error' = kind /\ stage' = "done"
    /\ UNCHANGED <<fragments, blocks, start, current, seen, packed, chunk, batches>>

-----------------------------------------------------------------------------
(* PreparedArtifactDeliveryMapper                                          *)

RootId == "document"

\* _validated_fragment: the record is complete, names this document, and has a
\* sequence number, an id, text and a known type.
ValidFragment(f) ==
    /\ f.mine /\ f.sequence >= 0 /\ Strip(f.id) # "" /\ f.bytes > 0
    /\ f.type \in {"SECTION", "PARAGRAPH", "LIST", "TABLE", "CODE", "OCR", "OTHER"}

BlockType(type) == CASE type = "CODE" -> "CODE_BLOCK"
                     [] type \in {"OCR", "OTHER"} -> "PARAGRAPH"
                     [] OTHER -> type

\* Mutation: the blocks are numbered from the root's number on.
FirstOrder_Root == 0

FirstOrder == 1

RootBlock ==
    [id |-> RootId, parent |-> "", type |-> "DOCUMENT", order |-> 0, bytes |-> 1, fits |-> TRUE]

\* _logical_block
BlockOf(f, order) ==
    [id |-> Strip(f.id), parent |-> RootId, type |-> BlockType(f.type), order |-> order,
     bytes |-> f.bytes, fits |-> TRUE]

\* By (sequence, fragment_id); sequence numbers are unique by now.
MappedBlocks(fs) ==
    LET ordered == SortedBy(fs, [k \in 1..Len(fs) |-> fs[k].sequence])
    IN  << RootBlock >> \o [k \in 1..Len(fs) |-> BlockOf(ordered[k], FirstOrder + k - 1)]

FragmentsAreValid(fs) ==
    /\ fs # << >>
    /\ \A k \in 1..Len(fs) : ValidFragment(fs[k])
    /\ Unique([k \in 1..Len(fs) |-> fs[k].id])
    /\ Unique([k \in 1..Len(fs) |-> fs[k].sequence])

MapFragments ==
    /\ stage = "map"
    /\ \/ ~FragmentsAreValid(fragments) /\ Fail("mapping")
       \/ /\ FragmentsAreValid(fragments)
          /\ blocks' = MappedBlocks(fragments)
          /\ stage' = "check"
          /\ UNCHANGED <<fragments, start, current, seen, packed, chunk, batches, error>>

-----------------------------------------------------------------------------
(* validate_logical_blocks                                                 *)

Ids   == [k \in 1..Len(blocks) |-> Strip(blocks[k].id)]
Roots == {k \in 1..Len(blocks) : blocks[k].type = "DOCUMENT"}
Root  == Ids[CHOOSE k \in Roots : TRUE]

ParentOf(id) == Strip(blocks[CHOOSE k \in 1..Len(blocks) : Ids[k] = id].parent)

NodesAreValid ==
    /\ blocks # << >>
    /\ \A k \in 1..Len(blocks) : Ids[k] # "" /\ blocks[k].order >= 0
    /\ Unique(Ids) /\ Unique([k \in 1..Len(blocks) |-> blocks[k].order])
    /\ Cardinality(Roots) = 1

ParentsAreValid ==
    /\ ParentOf(Root) = ""
    /\ \A k \in 1..Len(blocks) : Ids[k] # Root =>
           /\ ParentOf(Ids[k]) \notin {"", Ids[k]}
           /\ \E m \in 1..Len(blocks) : Ids[m] = ParentOf(Ids[k])

\* The loops over the nodes and over their parents.
CheckNodes ==
    /\ stage = "check"
    /\ \/ /\ ~(NodesAreValid /\ ParentsAreValid)
          /\ Fail("validation")
       \/ /\ NodesAreValid /\ ParentsAreValid
          /\ stage' = "walk"
          /\ current' = Ids[1]
          /\ UNCHANGED <<fragments, blocks, start, seen, packed, chunk, batches, error>>

\* Mutation: the chain forgets where it has been.
Visited_Forgets(id) == {}

Visited(id) == seen \cup {id}

\* One step up a parent chain; an id met again proves a cycle.
WalkUp ==
    /\ stage = "walk" /\ start <= Len(blocks) /\ current # Root
    /\ \/ current \in seen /\ Fail("validation")
       \/ /\ current \notin seen
          /\ seen' = Visited(current)
          /\ current' = ParentOf(current)
          /\ UNCHANGED <<fragments, blocks, stage, start, packed, chunk, batches, error>>

\* Mutation: the walk trusts the first chain.
NextStart_End == Len(blocks) + 1

NextStart == start + 1

\* The chain has come to the root: the next block.
WalkNext ==
    /\ stage = "walk" /\ start <= Len(blocks) /\ current = Root
    /\ start' = NextStart
    /\ current' = IF start' > Len(blocks) THEN Null ELSE Ids[start']
    /\ seen' = {}
    /\ UNCHANGED <<fragments, blocks, stage, packed, chunk, batches, error>>

-----------------------------------------------------------------------------
(* DeterministicBatchPlanner                                               *)

\* _ordered: by (order_index, block_id).  Its own checks for repeated ids and
\* numbers find nothing in blocks that were validated.
Ordered == SortedBy(blocks, [k \in 1..Len(blocks) |-> blocks[k].order])

OrderBlocks ==
    /\ stage = "walk" /\ start > Len(blocks)
    /\ stage' = "pack"
    /\ UNCHANGED <<fragments, blocks, start, current, seen, packed, chunk, batches, error>>

BytesOf(bs) ==
    LET upTo[n \in 0..Len(bs)] == IF n = 0 THEN 0 ELSE upTo[n - 1] + bs[n].bytes
    IN  upTo[Len(bs)]

\* The wire form of a block exists: its text is not blank, its number fits, its
\* location and its links can be told.
OnTheWire(b) == b.bytes > 0 /\ b.order <= MaxUInt /\ b.fits

\* Mutation: a block that would exactly fill the batch opens a new one.
ExceedsBytes_AtLimit(b) ==
    /\ MaxBatchBytes # Null
    /\ chunk # << >>
    /\ BytesOf(chunk) + b.bytes >= MaxBatchBytes

ExceedsBytes(b) ==
    /\ MaxBatchBytes # Null
    /\ chunk # << >>
    /\ BytesOf(chunk) + b.bytes > MaxBatchBytes

ExceedsCount == Len(chunk) >= MaxBlocks

TooLarge(b) == MaxBatchBytes # Null /\ b.bytes > MaxBatchBytes

\* One block of _partition.
PackBlock ==
    /\ stage = "pack" /\ packed < Len(blocks)
    /\ LET b == Ordered[packed + 1]
       IN  \/ ~OnTheWire(b) /\ Fail("wire")
           \/ OnTheWire(b) /\ TooLarge(b) /\ Fail("planning")
           \/ /\ OnTheWire(b) /\ ~TooLarge(b)
              /\ LET full == ExceedsCount \/ ExceedsBytes(b)
                 IN  /\ batches' = IF full THEN Append(batches, chunk) ELSE batches
                     /\ chunk' = IF full THEN << b >> ELSE Append(chunk, b)
              /\ packed' = packed + 1
              /\ UNCHANGED <<fragments, blocks, stage, start, current, seen, error>>

\* The last batch; its position makes it the last one (is_last_batch).
EndPlan ==
    /\ stage = "pack" /\ packed = Len(blocks)
    /\ batches' = IF chunk = << >> THEN batches ELSE Append(batches, chunk)
    /\ chunk' = << >>
    /\ stage' = "done"
    /\ UNCHANGED <<fragments, blocks, start, current, seen, packed, error>>

PlanStop == stage = "done" /\ UNCHANGED planVars

PlanStep == MapFragments \/ CheckNodes \/ WalkUp \/ WalkNext \/ OrderBlocks \/ PackBlock \/ EndPlan

PlanNext == PlanStep \/ PlanStop

PlanSpec == PlanInit /\ [][PlanNext]_planVars

-----------------------------------------------------------------------------
(* Properties.                                                             *)

\* The non-root ids from which the root cannot be reached: the largest set of
\* ids whose parents are all in the set or nowhere.
Detached(S) == \A k \in S : ~\E m \in 1..Len(blocks) : m \notin S /\ Ids[m] = Strip(blocks[k].parent)

IsTree ==
    /\ NodesAreValid
    /\ ParentOf(Root) = ""
    /\ ~\E S \in (SUBSET (1..Len(blocks))) \ {{}} : Roots \cap S = {} /\ Detached(S)

\* "Validate one connected, deterministic LogicalBlock tree": blocks pass iff
\* every one of them hangs, over any number of parents, under the one document
\* block.
OnlyTreesPass ==
    /\ stage = "pack" => IsTree
    /\ error = "validation" => ~IsTree

\* The batches hold the ordered blocks, each once, none is empty, each is within
\* both limits, and each is as large as the limits allow: the same blocks always
\* give the same batches.
BatchesAreTheGreedyPartition ==
    /\ FlattenSeq(batches) \o chunk = [n \in 1..packed |-> Ordered[n]]
    /\ \A k \in 1..Len(batches) :
        /\ batches[k] # << >> /\ Len(batches[k]) <= MaxBlocks
        /\ MaxBatchBytes # Null => BytesOf(batches[k]) <= MaxBatchBytes
    /\ \A k \in 1..Len(batches) - 1 :
        \/ Len(batches[k]) = MaxBlocks
        \/ MaxBatchBytes # Null /\ BytesOf(batches[k]) + batches[k + 1][1].bytes > MaxBatchBytes

SequenceOf(id) == fragments[CHOOSE k \in 1..Len(fragments) : fragments[k].id = id].sequence

\* The ids of an artifact have no white space around them, none is the root's,
\* and there are no more fragments than wire numbers.
Uploadable(fs) ==
    /\ \A k \in 1..Len(fs) : Strip(fs[k].id) = fs[k].id /\ fs[k].id # RootId
    /\ Len(fs) <= MaxUInt

\* What the mapper makes of such an artifact is a tree the validator accepts,
\* uploaded whole, root first and then by sequence number.
MappedArtifactIsUploadable ==
    fragments # Null /\ Uploadable(fragments) =>
        /\ error \notin {"validation", "wire"}
        /\ stage = "done" /\ error = Null =>
              LET sent == FlattenSeq(batches)
              IN  /\ Len(sent) = Len(fragments) + 1
                  /\ sent[1].id = RootId
                  /\ \A i \in 2..Len(sent) - 1 : SequenceOf(sent[i].id) < SequenceOf(sent[i + 1].id)

\* The planner of an upload: only trees pass, their blocks are packed greedily,
\* and what the mapper makes of an artifact is sent whole and in order.
PlanIsTheGreedyPartition ==
    OnlyTreesPass /\ BatchesAreTheGreedyPartition /\ MappedArtifactIsUploadable
=============================================================================
