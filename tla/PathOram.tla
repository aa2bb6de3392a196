------------------------------ MODULE PathOram ------------------------------
(***************************************************************************)
(* OramReadPathEviction: Path ORAM over a tree of buckets held by the      *)
(* server.  An access reads every bucket of one path into the stash,       *)
(* serves the request there, and writes the path back from the leaf to the *)
(* root.  Every ReadBucket and WriteBucket is a step of its own, as the    *)
(* server sees it; here each of them succeeds (PathOramRpc has failures).  *)
(*                                                                         *)
(* The stash is a vector in the code.  Here it is a set: which of the      *)
(* blocks that fit are written when there are more than a bucket holds     *)
(* depends on the order of the vector and is left open.                    *)
(***************************************************************************)
EXTENDS OramTree, FiniteSets

CONSTANTS Address, Data, NoData

ASSUME AddressAssumption == Address \subseteq Nat
ASSUME DataAssumption == NoData \notin Data

VARIABLES
    position_map,   \* the leaf of every address
    stash,          \* blocks the client holds
    oram_storage,   \* the blocks of every bucket, dummies left out
    pc,             \* "idle", "read" (the path) or "evict"
    level,          \* the level the running loop is at
    oldLeaf,        \* the leaf whose path the access reads and writes
    call,           \* the operation in progress, or the last one
    response        \* the string access_handler returns

vars == <<position_map, stash, oram_storage, pc, level, oldLeaf, call, response>>

Block == [index : Address, data : Data]
Call == [op : {"READ"}, index : Address, data : {NoData}]
          \cup [op : {"WRITE"}, index : Address, data : Data]

Init ==
    /\ position_map \in [Address -> Leaves]
    /\ \A a \in Address : a >= num_blocks => position_map[a] = 0
    /\ stash = {}
    /\ oram_storage = [k \in Positions |-> {}]
    /\ pc = "idle"
    /\ level = 0
    /\ oldLeaf = 0
    /\ call \in Call
    /\ response = NoData

Start_OtherPathBug(c) ==        \* the path of another leaf is read
    /\ pc = "idle"
    /\ pc' = "read"
    /\ level' = 0
    /\ oldLeaf' \in Leaves
    /\ call' = c
    /\ response' = NoData
    /\ UNCHANGED <<stash, oram_storage>>

Start(c) ==
    /\ pc = "idle"
    /\ pc' = "read"
    /\ level' = 0
    /\ oldLeaf' = position_map[c.index]
    /\ call' = c
    /\ response' = NoData
    /\ UNCHANGED <<stash, oram_storage>>

\* Mutants (names ending in _...Bug) are plausible errors in the definition
\* that follows them; no action of Next uses one.
access_BoundBug(c) ==           \* the random leaf may be one past the last
    /\ Start(c)
    /\ \E newLeaf \in 0 .. num_leaves :
          position_map' = [position_map EXCEPT ![c.index] = newLeaf]

\* access draws a new leaf for the block before the path is read.
access(c) ==
    /\ Start(c)
    /\ \E newLeaf \in Leaves :
          position_map' = [position_map EXCEPT ![c.index] = newLeaf]

\* access_direct computes a new leaf too, and leaves position_map alone.
access_direct(c) ==
    /\ Start(c)
    /\ UNCHANGED position_map

ReadPathBucket ==
    /\ pc = "read"
    /\ level < num_levels
    /\ stash' = stash \cup oram_storage[P(oldLeaf, level)]
    /\ level' = level + 1
    /\ UNCHANGED <<position_map, oram_storage, pc, oldLeaf, call, response>>

BlocksOf(a) == {b \in stash : b.index = a}

ServeRead ==
    /\ call.op = "READ"
    /\ \/ /\ BlocksOf(call.index) = {}
          /\ UNCHANGED response
       \/ \E b \in BlocksOf(call.index) : response' = b.data
    /\ UNCHANGED stash

ServeWrite ==
    /\ call.op = "WRITE"
    /\ stash' = (stash \ BlocksOf(call.index))
                   \cup {[index |-> call.index, data |-> call.data]}
    /\ UNCHANGED response

Serve ==
    /\ pc = "read"
    /\ level = num_levels
    /\ ServeRead \/ ServeWrite
    /\ pc' = "evict"
    /\ level' = num_levels - 1
    /\ UNCHANGED <<position_map, oram_storage, oldLeaf, call>>

Evictable_ShiftBug(l) ==        \* the level above is compared
    {b \in stash : l = 0 \/ P(position_map[b.index], l - 1) = P(oldLeaf, l - 1)}

\* Blocks of the stash whose own path goes through the bucket of the path
\* being written at level l.
Evictable(l) ==
    {b \in stash : P(position_map[b.index], l) = P(oldLeaf, l)}

Fills_CounterBug(S, l) ==       \* the counter stops one block early
    Cardinality(S) < bucket_size

\* The loop over the stash stops when the bucket is full.
Fills(S, l) ==
    /\ Cardinality(S) <= bucket_size
    /\ Cardinality(S) = bucket_size \/ S = Evictable(l)

WriteBack_KeepBug(S) ==         \* evicted blocks are not erased from the stash
    /\ UNCHANGED stash
    /\ oram_storage' = [oram_storage EXCEPT ![P(oldLeaf, level)] = S]

WriteBack(S) ==
    /\ stash' = stash \ S
    /\ oram_storage' = [oram_storage EXCEPT ![P(oldLeaf, level)] = S]

NextLevel_UnsignedBug ==        \* an unsigned l is always >= 0
    /\ level' = IF level > 0 THEN level - 1 ELSE num_levels - 1
    /\ UNCHANGED pc

NextLevel ==
    \/ level > 0 /\ level' = level - 1 /\ UNCHANGED pc
    \/ level = 0 /\ pc' = "idle" /\ UNCHANGED level

EvictBucket ==
    /\ pc = "evict"
    /\ \E S \in SUBSET Evictable(level) : Fills(S, level) /\ WriteBack(S)
    /\ NextLevel
    /\ UNCHANGED <<position_map, oldLeaf, call, response>>

Next ==
    \/ \E c \in Call : access(c) \/ access_direct(c)
    \/ ReadPathBucket
    \/ Serve
    \/ EvictBucket

Spec == Init /\ [][Next]_vars

\* The client thread runs the loops of an access to their end.
Fairness == WF_vars(ReadPathBucket \/ Serve \/ EvictBucket)
FairSpec == Spec /\ Fairness
-----------------------------------------------------------------------------
(***************************************************************************)
(* Invariants.                                                             *)
(***************************************************************************)
TypeOK ==
    /\ position_map \in [Address -> Leaves]
    /\ stash \in SUBSET Block
    /\ oram_storage \in [Positions -> SUBSET Block]
    /\ pc \in {"idle", "read", "evict"}
    /\ level \in 0 .. num_levels
    /\ pc = "evict" => level \in Levels
    /\ oldLeaf \in Leaves
    /\ call \in Call
    /\ response \in Data \cup {NoData}

\* Buckets whose blocks are already in the stash: those read so far, and
\* while evicting those not yet written back.
Copied == CASE pc = "idle"  -> {}
            [] pc = "read"  -> {P(oldLeaf, l) : l \in 0 .. level - 1}
            [] pc = "evict" -> {P(oldLeaf, l) : l \in 0 .. level}

\* A block is in one place only: in the stash or in one bucket, the buckets
\* whose contents were copied to the stash by the running access left out, and
\* no other block has its address.  A copy left behind would be found instead
\* of the block by a later access.
OnePlace ==
    /\ \A b, c \in stash : b.index = c.index => b = c
    /\ \A k \in Positions \ Copied : \A b \in oram_storage[k] :
          /\ BlocksOf(b.index) = {}
          /\ \A j \in Positions \ Copied : \A c \in oram_storage[j] :
                c.index = b.index => j = k /\ c = b

\* The Path ORAM invariant: between accesses every block on the server is in a
\* bucket of the path of the leaf that position_map gives for its address.
BlockOnItsPath ==
    pc = "idle" =>
       \A k \in Positions : \A b \in oram_storage[k] :
          k \in Path(position_map[b.index])

\* Eviction is greedy: a block stays in the stash after an access only if
\* every bucket that its path shares with the path written is full.
GreedyEviction ==
    pc = "idle" =>
       \A b \in stash, l \in Levels :
          P(position_map[b.index], l) = P(oldLeaf, l) =>
             Cardinality(oram_storage[P(oldLeaf, l)]) = bucket_size

(***************************************************************************)
(* The inductive invariant.  While a path is being read, the block of the  *)
(* address called is still on the path of its previous leaf.               *)
(***************************************************************************)
CopiedInStash ==
    pc = "read" => \A l \in 0 .. level - 1 :
                      oram_storage[P(oldLeaf, l)] \subseteq stash

\* Buckets that the write back is still to replace.
Stale == IF pc = "evict" THEN {P(oldLeaf, l) : l \in 0 .. level} ELSE {}

Placed ==
    \A k \in Positions \ Stale : \A b \in oram_storage[k] :
       k \in Path(IF pc = "read" /\ b.index = call.index
                  THEN oldLeaf ELSE position_map[b.index])

NoAnswerYet == pc = "read" => response = NoData

IInv == TypeOK /\ NoAnswerYet /\ OnePlace /\ CopiedInStash /\ Placed

\* The part that makes GreedyEviction inductive: the levels already written.
GreedySoFar ==
    \A b \in stash, l \in Levels :
       /\ pc = "idle" \/ (pc = "evict" /\ l > level)
       /\ P(position_map[b.index], l) = P(oldLeaf, l)
       => Cardinality(oram_storage[P(oldLeaf, l)]) = bucket_size
-----------------------------------------------------------------------------
(***************************************************************************)
(* PathOram implements the abstract memory.  The memory is what the live   *)
(* blocks hold: those of the stash and of the buckets that no write back   *)
(* of the running access is still to replace.                              *)
(***************************************************************************)
Live == stash \cup UNION {oram_storage[k] : k \in Positions \ Stale}

LiveData(a) == {b.data : b \in {c \in Live : c.index = a}}

MemoryBar == [a \in Address |-> IF LiveData(a) = {} THEN NoData
                                ELSE CHOOSE d \in LiveData(a) : TRUE]

StatusBar == CASE pc = "idle" -> "idle" [] pc = "read" -> "called"
               [] pc = "evict" -> "served"

Memory == INSTANCE ObliviousMemory
             WITH memory <- MemoryBar, status <- StatusBar

\* Every access behaves as one access of the abstract memory: a READ returns
\* what was last written to its address, whatever paths were read and
\* evicted in between.
ImplementsMemory == Memory!Spec

\* An access that has started comes to its end.
AccessReturns == pc # "idle" ~> pc = "idle"
=============================================================================
