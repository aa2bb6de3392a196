--------------------------- MODULE PathOramProofs ---------------------------
(***************************************************************************)
(* PathOram for trees, buckets, addresses and data of any size: a block is *)
(* in one place, on the path of its leaf, and accesses implement the       *)
(* abstract memory.                                                        *)
(***************************************************************************)
EXTENDS PathOram, SealUtilsProofs

(* The numbering of the buckets, for this tree. *)
LEMMA TreePowers ==
  /\ PowersUpTo(num_levels)
  /\ \A n \in 0 .. num_levels : 2^n \in Nat /\ 2^n >= 1
<1>1. PowersUpTo(num_levels)
  BY PowersOfTwo DEF PowersUpTo
<1> QED BY <1>1, PowerType, SizeAssumption

LEMMA PathInStorage ==
  ASSUME NEW x \in Leaves, NEW l \in Levels
  PROVE  P(x, l) \in Positions
<1>1. P(x, l) = TreePosition(num_levels, x, l)
  BY DEF P, TreePosition
<1>2. TreePosition(num_levels, x, l) \in 0 .. 2^num_levels - 2
  BY TreePowers, PositionOfLevel, SizeAssumption DEF Leaves, num_leaves, Levels
<1>3. 2^num_levels \in Nat
  BY TreePowers, SizeAssumption
<1> QED BY <1>1, <1>2, <1>3 DEF Positions, num_buckets

LEMMA LevelsDisjoint ==
  ASSUME NEW x \in Leaves, NEW y \in Leaves, NEW i \in Levels, NEW j \in Levels,
         P(x, i) = P(y, j)
  PROVE  i = j
<1>1. TreePosition(num_levels, x, i) = TreePosition(num_levels, y, j)
  BY DEF P, TreePosition
<1> QED BY <1>1, TreePowers, LevelsApart, SizeAssumption DEF Leaves, num_leaves, Levels

(* Leaf 0, which operator[] of position_map defaults to, is a leaf. *)
LEMMA LeafZero == 0 \in Leaves
<1>1. num_levels - 1 \in 0 .. num_levels
  BY SizeAssumption
<1> QED BY <1>1, TreePowers DEF Leaves, num_leaves

(* What Start does to the part of the state an invariant reads. *)
LEMMA StartType ==
  ASSUME TypeOK, NEW c \in Call, Start(c)
  PROVE  /\ c.index \in Address
         /\ oldLeaf' \in Leaves /\ level' \in 0 .. num_levels /\ call' \in Call
         /\ pc' = "read" /\ response' = NoData
         /\ stash' = stash /\ oram_storage' = oram_storage
<1>1. c.index \in Address
  BY DEF Call
<1>2. position_map[c.index] \in Leaves
  BY <1>1 DEF TypeOK
<1> QED BY <1>1, <1>2, SizeAssumption DEF Start

(***************************************************************************)
(* The types.                                                              *)
(***************************************************************************)
LEMMA InitType == Init => TypeOK
  BY LeafZero, SizeAssumption DEF Init, TypeOK, Levels

LEMMA ServeWriteType ==
  ASSUME TypeOK, ServeWrite
  PROVE  stash' \in SUBSET Block /\ response' \in Data \cup {NoData}
<1>1. call.index \in Address /\ call.data \in Data
  BY DEF TypeOK, Call, ServeWrite
<1>2. [index |-> call.index, data |-> call.data] \in Block
  BY <1>1 DEF Block
<1> QED BY <1>2 DEF TypeOK, ServeWrite

LEMMA NextType == TypeOK /\ [Next]_vars => TypeOK'
<1> SUFFICES ASSUME TypeOK, [Next]_vars PROVE TypeOK'
  OBVIOUS
<1>1. ASSUME NEW c \in Call, access(c) PROVE TypeOK'
  <2>1. Start(c)
    BY <1>1 DEF access
  <2>2. position_map' \in [Address -> Leaves]
    BY <1>1 DEF access, TypeOK
  <2> QED BY <2>1, <2>2, StartType DEF TypeOK
<1>2. ASSUME NEW c \in Call, access_direct(c) PROVE TypeOK'
  <2>1. Start(c) /\ position_map' = position_map
    BY <1>2 DEF access_direct
  <2> QED BY <2>1, StartType DEF TypeOK
<1>3. CASE ReadPathBucket
  <2>1. level \in Levels /\ level + 1 \in 0 .. num_levels
    BY <1>3, SizeAssumption DEF ReadPathBucket, TypeOK, Levels
  <2>2. oram_storage[P(oldLeaf, level)] \in SUBSET Block
    BY <2>1, PathInStorage DEF TypeOK
  <2>3. stash' \in SUBSET Block
    BY <1>3, <2>2 DEF ReadPathBucket, TypeOK
  <2> QED BY <1>3, <2>1, <2>3 DEF ReadPathBucket, TypeOK
<1>4. CASE Serve
  <2>1. stash' \in SUBSET Block /\ response' \in Data \cup {NoData}
    <3>1. CASE ServeRead
      BY <3>1 DEF ServeRead, BlocksOf, TypeOK, Block
    <3>2. CASE ServeWrite
      BY <3>2, ServeWriteType
    <3> QED BY <1>4, <3>1, <3>2 DEF Serve
  <2>2. num_levels - 1 \in Levels /\ num_levels - 1 \in 0 .. num_levels
    BY SizeAssumption DEF Levels
  <2> QED BY <1>4, <2>1, <2>2 DEF Serve, TypeOK
<1>5. CASE EvictBucket
  <2>1. PICK S \in SUBSET Evictable(level) :
          /\ stash' = stash \ S
          /\ oram_storage' = [oram_storage EXCEPT ![P(oldLeaf, level)] = S]
    BY <1>5 DEF EvictBucket, WriteBack
  <2>2. S \subseteq stash
    BY DEF Evictable
  <2>3. stash' \in SUBSET Block /\ oram_storage' \in [Positions -> SUBSET Block]
    BY <2>1, <2>2 DEF TypeOK
  <2>4. pc' \in {"idle", "evict"} /\ level' \in Levels
    BY <1>5, SizeAssumption DEF EvictBucket, NextLevel, TypeOK, Levels
  <2>5. level' \in 0 .. num_levels
    BY <2>4, SizeAssumption DEF Levels
  <2> QED BY <1>5, <2>3, <2>4, <2>5 DEF EvictBucket, TypeOK
<1>6. CASE UNCHANGED vars
  BY <1>6 DEF vars, TypeOK
<1> QED BY <1>1, <1>2, <1>3, <1>4, <1>5, <1>6 DEF Next

(* Every reachable state has the types of TypeOK. *)
THEOREM TypeCorrect == Spec => []TypeOK
  BY InitType, NextType, PTL DEF Spec

(***************************************************************************)
(* One place for every block, on the path of its leaf.                     *)
(***************************************************************************)
LEMMA InitInv == Init => IInv
<1> SUFFICES ASSUME Init PROVE IInv
  OBVIOUS
<1>1. /\ pc = "idle" /\ stash = {}
      /\ \A k \in Positions : oram_storage[k] = {}
  BY DEF Init
<1> QED BY <1>1, InitType DEF Init, IInv, OnePlace, CopiedInStash, Placed, NoAnswerYet

(* A call starts with nothing copied, and its block on its previous path. *)
LEMMA StartInv ==
  ASSUME IInv, NEW c \in Call, Start(c), TypeOK',
         \A a \in Address \ {c.index} : position_map'[a] = position_map[a]
  PROVE  OnePlace' /\ CopiedInStash' /\ Placed'
<1>1. /\ pc = "idle" /\ pc' = "read" /\ level' = 0
      /\ stash' = stash /\ oram_storage' = oram_storage
      /\ oldLeaf' = position_map[c.index] /\ call' = c
  BY DEF Start
<1>2. Copied = {} /\ Copied' = {} /\ Stale = {} /\ Stale' = {}
  BY <1>1, SizeAssumption DEF Copied, Stale
<1>3. OnePlace'
  BY <1>1, <1>2 DEF IInv, OnePlace, BlocksOf
<1>4. CopiedInStash'
  BY <1>1 DEF CopiedInStash
<1>5. Placed'
  <2>1. SUFFICES ASSUME NEW k \in Positions, NEW b \in oram_storage[k]
                 PROVE  k \in Path(IF b.index = c.index THEN oldLeaf'
                                   ELSE position_map'[b.index])
    BY <1>1, <1>2 DEF Placed
  <2>2. k \in Path(position_map[b.index])
    BY <1>1, <1>2 DEF IInv, Placed
  <2>3. b.index \in Address
    BY DEF IInv, TypeOK, Block
  <2> QED BY <1>1, <2>2, <2>3
<1> QED BY <1>3, <1>4, <1>5

LEMMA ReadInv ==
  ASSUME IInv, ReadPathBucket
  PROVE  OnePlace' /\ CopiedInStash' /\ Placed'
<1> DEFINE p == P(oldLeaf, level)
<1>1. /\ pc = "read" /\ pc' = "read" /\ level \in Levels /\ level' = level + 1
      /\ stash' = stash \cup oram_storage[p]
      /\ UNCHANGED <<position_map, oram_storage, oldLeaf, call>>
  BY SizeAssumption DEF IInv, TypeOK, ReadPathBucket, Levels
<1>2. \A l : l \in 0 .. level - 1 => l \in Levels
  BY <1>1, SizeAssumption DEF Levels
<1>3. Copied' = Copied \cup {p}
  <2>1. 0 .. level' - 1 = (0 .. level - 1) \cup {level}
    BY <1>1 DEF Levels
  <2> QED BY <1>1, <2>1 DEF Copied
<1>4. p \in Positions \ Copied
  <2>1. p \in Positions
    BY <1>1, PathInStorage DEF IInv, TypeOK
  <2>2. ASSUME NEW l \in 0 .. level - 1, p = P(oldLeaf, l) PROVE FALSE
    BY <2>2, <1>1, <1>2, LevelsDisjoint DEF IInv, TypeOK, Levels
  <2> QED BY <1>1, <2>1, <2>2 DEF Copied
<1>5. OnePlace'
  <2>1. \A b, c \in stash' : b.index = c.index => b = c
    BY <1>1, <1>4 DEF IInv, OnePlace, BlocksOf
  <2>2. ASSUME NEW k \in Positions \ Copied', NEW b \in oram_storage[k]
        PROVE  /\ BlocksOf(b.index)' = {}
               /\ \A j \in Positions \ Copied' : \A c \in oram_storage[j] :
                     c.index = b.index => j = k /\ c = b
    <3>1. k \in Positions \ Copied /\ k # p
      BY <1>3
    <3>2. \A c \in oram_storage[p] : c.index # b.index
      BY <1>4, <3>1 DEF IInv, OnePlace
    <3>3. BlocksOf(b.index) = {}
      BY <3>1 DEF IInv, OnePlace
    <3>4. \A c \in stash' : c.index # b.index
      BY <1>1, <3>2, <3>3 DEF BlocksOf
    <3>5. \A j \in Positions \ Copied' : j \in Positions \ Copied
      BY <1>3
    <3> QED BY <3>1, <3>4, <3>5 DEF IInv, OnePlace, BlocksOf
  <2> QED BY <1>1, <2>1, <2>2 DEF OnePlace
<1>6. CopiedInStash'
  <2>1. SUFFICES ASSUME NEW l \in 0 .. level PROVE oram_storage[P(oldLeaf, l)] \subseteq stash'
    BY <1>1 DEF CopiedInStash, Levels
  <2>2. CASE l = level
    BY <1>1, <2>2
  <2>3. CASE l # level
    BY <1>1, <2>3 DEF IInv, CopiedInStash, Levels
  <2> QED BY <2>2, <2>3
<1>7. Placed'
  BY <1>1 DEF IInv, Placed, Stale
<1> QED BY <1>5, <1>6, <1>7

(* When the whole path is read, the address called has no block elsewhere. *)
LEMMA CalledOffPath ==
  ASSUME IInv, pc = "read", level = num_levels
  PROVE  /\ Copied = Path(oldLeaf)
         /\ \A k \in Positions \ Path(oldLeaf) : \A b \in oram_storage[k] :
               b.index # call.index
         /\ \A k \in Path(oldLeaf) : oram_storage[k] \subseteq stash
<1>1. Copied = Path(oldLeaf)
  BY DEF Copied, Path, Levels
<1>2. Stale = {}
  BY DEF Stale
<1>3. \A k \in Path(oldLeaf) : oram_storage[k] \subseteq stash
  BY DEF IInv, CopiedInStash, Path, Levels
<1> QED BY <1>1, <1>2, <1>3 DEF IInv, Placed

LEMMA ServeInv ==
  ASSUME IInv, Serve
  PROVE  OnePlace' /\ CopiedInStash' /\ Placed'
<1>1. /\ pc = "read" /\ level = num_levels /\ pc' = "evict" /\ level' = num_levels - 1
      /\ UNCHANGED <<position_map, oram_storage, oldLeaf, call>>
  BY DEF Serve
<1>2. Copied' = Path(oldLeaf) /\ Copied = Path(oldLeaf) /\ Stale' = Path(oldLeaf) /\ Stale = {}
  BY <1>1 DEF Copied, Stale, Path, Levels
<1>3. \A k \in Positions \ Path(oldLeaf) : \A b \in oram_storage[k] : b.index # call.index
  BY <1>1, CalledOffPath
<1>4. \A b \in stash' : b \in stash \/ b.index = call.index
  BY DEF Serve, ServeRead, ServeWrite
<1>5. \A b, c \in stash' : b.index = c.index => b = c
  <2>1. CASE ServeRead
    BY <2>1 DEF ServeRead, IInv, OnePlace
  <2>2. CASE ServeWrite
    BY <2>2 DEF ServeWrite, IInv, OnePlace, BlocksOf
  <2> QED BY <2>1, <2>2 DEF Serve
<1>6. OnePlace'
  <2>1. ASSUME NEW k \in Positions \ Path(oldLeaf), NEW b \in oram_storage[k]
        PROVE  BlocksOf(b.index)' = {}
    <3>1. \A c \in stash : c.index # b.index
      BY <1>2 DEF IInv, OnePlace, BlocksOf
    <3> QED BY <1>3, <1>4, <3>1 DEF BlocksOf
  <2> QED BY <1>1, <1>2, <1>5, <2>1 DEF IInv, OnePlace
<1>7. CopiedInStash'
  BY <1>1 DEF CopiedInStash
<1>8. Placed'
  BY <1>1, <1>2, <1>3 DEF IInv, Placed
<1> QED BY <1>6, <1>7, <1>8

(* One bucket of the write back: the blocks written leave the stash, and the
   bucket is no longer one that is to be replaced. *)
LEMMA EvictStep ==
  ASSUME IInv, EvictBucket
  PROVE  \E S \in SUBSET Evictable(level) :
            /\ S \subseteq stash
            /\ stash' = stash \ S
            /\ P(oldLeaf, level) \in Positions \cap Stale
            /\ oram_storage' = [oram_storage EXCEPT ![P(oldLeaf, level)] = S]
            /\ Cardinality(S) <= bucket_size
            /\ Cardinality(S) = bucket_size \/ S = Evictable(level)
            /\ Copied = Stale /\ Copied' = Stale'
            /\ Stale' = Stale \ {P(oldLeaf, level)}
            /\ pc = "evict" /\ pc' \in {"idle", "evict"}
            /\ UNCHANGED <<position_map, oldLeaf, call>>
<1> DEFINE p == P(oldLeaf, level)
<1>1. PICK S \in SUBSET Evictable(level) :
        /\ Cardinality(S) <= bucket_size
        /\ Cardinality(S) = bucket_size \/ S = Evictable(level)
        /\ stash' = stash \ S
        /\ oram_storage' = [oram_storage EXCEPT ![p] = S]
  BY DEF EvictBucket, Fills, WriteBack
<1>2. /\ pc = "evict" /\ level \in Levels /\ oldLeaf \in Leaves
      /\ UNCHANGED <<position_map, oldLeaf, call>>
  BY DEF IInv, TypeOK, EvictBucket
<1>3. S \subseteq stash
  BY DEF Evictable
<1>4. p \in Positions
  BY <1>2, PathInStorage
<1>5. Stale = {P(oldLeaf, l) : l \in 0 .. level} /\ Copied = Stale
  BY <1>2 DEF Stale, Copied
<1>6. \A l \in 0 .. level - 1 : P(oldLeaf, l) # p
  <2>1. \A l \in 0 .. level - 1 : l \in Levels /\ l # level
    BY <1>2, SizeAssumption DEF Levels
  <2> QED BY <1>2, <2>1, LevelsDisjoint
<1>7. /\ p \in Stale
      /\ Stale \ {p} = {P(oldLeaf, l) : l \in 0 .. level - 1}
  <2>1. 0 .. level = (0 .. level - 1) \cup {level}
    BY <1>2 DEF Levels
  <2> QED BY <1>5, <1>6, <2>1
<1>8. pc' \in {"idle", "evict"} /\ Copied' = Stale' /\ Stale' = Stale \ {p}
  <2>1. CASE level > 0 /\ level' = level - 1 /\ pc' = pc
    BY <1>2, <1>7, <2>1 DEF Stale, Copied
  <2>2. CASE level = 0 /\ pc' = "idle"
    <3>1. 0 .. level - 1 = {}
      BY <2>2
    <3> QED BY <1>7, <2>2, <3>1 DEF Stale, Copied
  <2> QED BY <2>1, <2>2 DEF EvictBucket, NextLevel
<1> QED BY <1>1, <1>2, <1>3, <1>4, <1>5, <1>7, <1>8

LEMMA EvictInv ==
  ASSUME IInv, EvictBucket
  PROVE  OnePlace' /\ CopiedInStash' /\ Placed'
<1> DEFINE p == P(oldLeaf, level)
<1>1. PICK S \in SUBSET Evictable(level) :
            /\ S \subseteq stash
            /\ stash' = stash \ S
            /\ p \in Positions \cap Stale
            /\ oram_storage' = [oram_storage EXCEPT ![p] = S]
            /\ Copied = Stale /\ Copied' = Stale'
            /\ Stale' = Stale \ {p}
            /\ pc = "evict" /\ pc' \in {"idle", "evict"}
            /\ UNCHANGED <<position_map, oldLeaf, call>>
  BY EvictStep
<1>2. /\ oram_storage'[p] = S
      /\ \A k \in Positions \ {p} : oram_storage'[k] = oram_storage[k]
  BY <1>1 DEF IInv, TypeOK
<1>3. \A k \in Positions \ Stale' : k = p \/ (k \in Positions \ Stale /\ k # p)
  BY <1>1
<1>4. OnePlace'
  <2>1. \A b, c \in stash' : b.index = c.index => b = c
    BY <1>1 DEF IInv, OnePlace
  <2>2. ASSUME NEW k \in Positions \ Stale', NEW b \in oram_storage'[k]
        PROVE  /\ \A c \in stash' : c.index # b.index
               /\ \A j \in Positions \ Stale' : \A c \in oram_storage'[j] :
                     c.index = b.index => j = k /\ c = b
    <3>1. CASE k = p
      <4>1. b \in stash /\ b \notin stash'
        BY <1>1, <1>2, <3>1
      <4>2. \A c \in stash : c.index = b.index => c = b
        BY <4>1 DEF IInv, OnePlace
      <4>3. ASSUME NEW j \in Positions \ Stale, NEW c \in oram_storage[j] PROVE c.index # b.index
        BY <4>1, <1>1 DEF IInv, OnePlace, BlocksOf
      <4> QED BY <1>1, <1>2, <1>3, <3>1, <4>1, <4>2, <4>3
    <3>2. CASE k # p
      <4>1. k \in Positions \ Stale /\ b \in oram_storage[k]
        BY <1>2, <1>3, <3>2
      <4>2. \A c \in stash : c.index # b.index
        BY <4>1, <1>1 DEF IInv, OnePlace, BlocksOf
      <4>3. \A j \in Positions \ Stale : \A c \in oram_storage[j] :
               c.index = b.index => j = k /\ c = b
        BY <4>1, <1>1 DEF IInv, OnePlace
      <4> QED BY <1>1, <1>2, <1>3, <4>2, <4>3
    <3> QED BY <3>1, <3>2
  <2> QED BY <1>1, <2>1, <2>2 DEF OnePlace, BlocksOf
<1>5. CopiedInStash'
  BY <1>1 DEF CopiedInStash
<1>6. Placed'
  <2>1. SUFFICES ASSUME NEW k \in Positions \ Stale', NEW b \in oram_storage'[k]
                 PROVE  k \in Path(position_map[b.index])
    BY <1>1 DEF Placed
  <2>2. CASE k = p
    <3>1. b \in Evictable(level)
      BY <1>1, <1>2, <2>2
    <3>2. level \in Levels
      BY <1>1 DEF IInv, TypeOK
    <3> QED BY <2>2, <3>1, <3>2 DEF Evictable, Path
  <2>3. CASE k # p
    BY <1>1, <1>2, <1>3, <2>3 DEF IInv, Placed
  <2> QED BY <2>2, <2>3
<1> QED BY <1>4, <1>5, <1>6

LEMMA NextInv == IInv /\ [Next]_vars => IInv'
<1> SUFFICES ASSUME IInv, [Next]_vars PROVE IInv'
  OBVIOUS
<1>0. TypeOK' /\ NoAnswerYet'
  <2>1. NoAnswerYet'
    BY DEF IInv, NoAnswerYet, Next, access, access_direct, Start, ReadPathBucket,
           Serve, EvictBucket, NextLevel, vars
  <2> QED BY <2>1, NextType DEF IInv
<1>1. ASSUME NEW c \in Call, access(c) PROVE IInv'
  <2>1. Start(c) /\ \A a \in Address \ {c.index} : position_map'[a] = position_map[a]
    BY <1>1 DEF access, IInv, TypeOK
  <2> QED BY <1>0, <2>1, StartInv DEF IInv
<1>2. ASSUME NEW c \in Call, access_direct(c) PROVE IInv'
  <2>1. Start(c) /\ \A a \in Address \ {c.index} : position_map'[a] = position_map[a]
    BY <1>2 DEF access_direct
  <2> QED BY <1>0, <2>1, StartInv DEF IInv
<1>3. CASE ReadPathBucket
  BY <1>0, <1>3, ReadInv DEF IInv
<1>4. CASE Serve
  BY <1>0, <1>4, ServeInv DEF IInv
<1>5. CASE EvictBucket
  BY <1>0, <1>5, EvictInv DEF IInv
<1>6. CASE UNCHANGED vars
  BY <1>6 DEF vars, IInv, TypeOK, NoAnswerYet, OnePlace, CopiedInStash,
                Placed, BlocksOf, Copied, Stale
<1> QED BY <1>1, <1>2, <1>3, <1>4, <1>5, <1>6 DEF Next

LEMMA InvariantHolds == Spec => []IInv
  BY InitInv, NextInv, PTL DEF Spec

(* A block is never in two places: no stale copy survives an access. *)
THEOREM OnePlaceHolds == Spec => []OnePlace
<1>1. IInv => OnePlace
  BY DEF IInv
<1> QED BY <1>1, InvariantHolds, PTL

(* The Path ORAM invariant, for access and for access_direct. *)
THEOREM BlockOnItsPathHolds == Spec => []BlockOnItsPath
<1>1. IInv => BlockOnItsPath
  BY DEF IInv, Placed, Stale, BlockOnItsPath
<1> QED BY <1>1, InvariantHolds, PTL

(***************************************************************************)
(* Greedy eviction.                                                        *)
(***************************************************************************)
LEMMA NextGreedy == IInv /\ GreedySoFar /\ [Next]_vars => GreedySoFar'
<1> SUFFICES ASSUME IInv, GreedySoFar, [Next]_vars PROVE GreedySoFar'
  OBVIOUS
<1>1. ASSUME NEW c \in Call, access(c) \/ access_direct(c) PROVE GreedySoFar'
  BY <1>1 DEF access, access_direct, Start, GreedySoFar
<1>2. CASE ReadPathBucket
  BY <1>2 DEF ReadPathBucket, GreedySoFar
<1>3. CASE Serve
  BY <1>3, SizeAssumption DEF Serve, GreedySoFar, Levels
<1>4. CASE EvictBucket
  <2> DEFINE p == P(oldLeaf, level)
  <2>1. PICK S \in SUBSET Evictable(level) :
            /\ S \subseteq stash
            /\ stash' = stash \ S
            /\ p \in Positions
            /\ oram_storage' = [oram_storage EXCEPT ![p] = S]
            /\ Cardinality(S) = bucket_size \/ S = Evictable(level)
            /\ pc = "evict"
            /\ UNCHANGED <<position_map, oldLeaf>>
    BY <1>4, EvictStep
  <2>2. SUFFICES ASSUME NEW b \in stash', NEW l \in Levels,
                        pc' = "idle" \/ (pc' = "evict" /\ l > level'),
                        P(position_map[b.index], l) = P(oldLeaf, l)
                 PROVE  Cardinality(oram_storage'[P(oldLeaf, l)]) = bucket_size
    BY <2>1 DEF GreedySoFar
  <2>3. oldLeaf \in Leaves /\ level \in Levels
    BY <2>1 DEF IInv, TypeOK
  <2>4. l = level \/ l > level
    BY <1>4, <2>1, <2>2, <2>3, SizeAssumption DEF EvictBucket, NextLevel, Levels
  <2>5. CASE l = level
    <3>1. b \in Evictable(level) /\ b \notin S
      BY <2>1, <2>2, <2>5 DEF Evictable
    <3> QED BY <2>1, <2>5, <3>1 DEF IInv, TypeOK
  <2>6. CASE l > level
    <3>1. Cardinality(oram_storage[P(oldLeaf, l)]) = bucket_size
      BY <2>1, <2>2, <2>6 DEF GreedySoFar
    <3>2. P(oldLeaf, l) # p
      BY <2>3, <2>6, LevelsDisjoint, SizeAssumption DEF Levels
    <3> QED BY <2>1, <3>1, <3>2, PathInStorage DEF IInv, TypeOK
  <2> QED BY <2>4, <2>5, <2>6
<1>5. CASE UNCHANGED vars
  BY <1>5 DEF vars, GreedySoFar
<1> QED BY <1>1, <1>2, <1>3, <1>4, <1>5 DEF Next

(* A block is left in the stash only when the shared buckets are full. *)
THEOREM GreedyEvictionHolds == Spec => []GreedyEviction
<1>1. Init => GreedySoFar
  BY DEF Init, GreedySoFar
<1>2. GreedySoFar => GreedyEviction
  BY DEF GreedySoFar, GreedyEviction
<1> QED BY <1>1, <1>2, InvariantHolds, NextGreedy, PTL DEF Spec

(***************************************************************************)
(* Refinement of the abstract memory.                                      *)
(***************************************************************************)
LEMMA LiveUnique ==
  ASSUME IInv
  PROVE  \A b, c \in Live : b.index = c.index => b = c
<1>1. ASSUME NEW b \in Live
      PROVE  b \in stash \/ \E k \in Positions \ Copied : b \in oram_storage[k]
  <2>1. CASE b \in stash
    BY <2>1
  <2>2. CASE b \notin stash
    <3>1. PICK k \in Positions \ Stale : b \in oram_storage[k]
      BY <1>1, <2>2 DEF Live
    <3>2. CASE pc = "read"
      <4>1. ASSUME NEW l \in 0 .. level - 1, k = P(oldLeaf, l) PROVE FALSE
        BY <2>2, <3>1, <3>2, <4>1 DEF IInv, CopiedInStash
      <4> QED BY <3>1, <3>2, <4>1 DEF Copied
    <3>3. CASE pc # "read"
      <4>1. Copied = Stale
        BY <3>3 DEF IInv, TypeOK, Copied, Stale
      <4> QED BY <3>1, <4>1
    <3> QED BY <3>2, <3>3
  <2> QED BY <2>1, <2>2
<1>2. SUFFICES ASSUME NEW b \in Live, NEW c \in Live, b.index = c.index PROVE b = c
  OBVIOUS
<1>3. CASE b \in stash /\ c \in stash
  BY <1>2, <1>3 DEF IInv, OnePlace
<1>4. ASSUME NEW k \in Positions \ Copied, b \in oram_storage[k] PROVE b = c
  <2>1. c \notin stash
    BY <1>2, <1>4 DEF IInv, OnePlace, BlocksOf
  <2> QED BY <1>1, <1>2, <1>4, <2>1 DEF IInv, OnePlace
<1>5. ASSUME NEW k \in Positions \ Copied, c \in oram_storage[k] PROVE b = c
  <2>1. b \notin stash
    BY <1>2, <1>5 DEF IInv, OnePlace, BlocksOf
  <2> QED BY <1>1, <1>2, <1>4, <2>1
<1> QED BY <1>1, <1>3, <1>4, <1>5

(* What the abstract memory holds at an address. *)
LEMMA MemoryValue ==
  ASSUME IInv, NEW a \in Address
  PROVE  /\ \A b \in Live : b.index = a => MemoryBar[a] = b.data
         /\ (\A b \in Live : b.index # a) => MemoryBar[a] = NoData
<1>1. ASSUME NEW b \in Live, b.index = a PROVE MemoryBar[a] = b.data
  <2>1. LiveData(a) = {b.data}
    BY <1>1, LiveUnique DEF LiveData
  <2> QED BY <2>1 DEF MemoryBar
<1>2. ASSUME \A b \in Live : b.index # a PROVE MemoryBar[a] = NoData
  <2>1. LiveData(a) = {}
    BY <1>2 DEF LiveData
  <2> QED BY <2>1 DEF MemoryBar
<1> QED BY <1>1, <1>2

LEMMA SameLive == Live' = Live => MemoryBar' = MemoryBar
  BY DEF MemoryBar, LiveData

LEMMA InitMemory == Init => Memory!Init
<1> SUFFICES ASSUME Init PROVE Memory!Init
  OBVIOUS
<1>1. Live = {}
  BY DEF Init, Live
<1>2. MemoryBar = [a \in Address |-> NoData]
  BY <1>1 DEF MemoryBar, LiveData
<1>3. StatusBar = "idle"
  BY DEF Init, StatusBar
<1> QED BY <1>2, <1>3 DEF Init, Memory!Init, Call, Memory!Call

LEMMA StartMemory ==
  ASSUME IInv, NEW c \in Call, Start(c)
  PROVE  Memory!Next
<1>1. Live' = Live
  BY DEF Start, Live, Stale
<1>2. Memory!Invoke(c)
  BY <1>1, SameLive DEF Start, StatusBar, Memory!Invoke
<1> QED BY <1>2 DEF Memory!Next, Memory!Call, Call

LEMMA ReadMemory ==
  ASSUME IInv, ReadPathBucket
  PROVE  UNCHANGED Memory!vars
<1>1. level \in Levels
  BY SizeAssumption DEF IInv, TypeOK, ReadPathBucket, Levels
<1>2. P(oldLeaf, level) \in Positions
  BY <1>1, PathInStorage DEF IInv, TypeOK
<1>3. Live' = Live
  BY <1>2 DEF ReadPathBucket, Live, Stale
<1> QED BY <1>3, SameLive DEF ReadPathBucket, StatusBar, Memory!vars

LEMMA ServeMemory ==
  ASSUME IInv, IInv', Serve
  PROVE  Memory!Next
<1> DEFINE off == UNION {oram_storage[k] : k \in Positions \ Path(oldLeaf)}
<1>1. /\ pc = "read" /\ level = num_levels /\ pc' = "evict" /\ level' = num_levels - 1
      /\ UNCHANGED <<position_map, oram_storage, oldLeaf, call>>
  BY DEF Serve
<1>2. /\ \A b \in off : b.index # call.index
      /\ \A k \in Path(oldLeaf) : oram_storage[k] \subseteq stash
  BY <1>1, CalledOffPath
<1>3. Live = stash \cup off
  BY <1>1, <1>2 DEF Live, Stale
<1>4. Live' = stash' \cup off
  <2>1. Stale' = Path(oldLeaf)
    BY <1>1 DEF Stale, Path, Levels
  <2> QED BY <1>1, <2>1 DEF Live
<1>5. call.index \in Address
  BY DEF IInv, TypeOK, Call
<1>6. StatusBar = "called" /\ StatusBar' = "served"
  BY <1>1 DEF StatusBar
<1>7. CASE ServeRead
  <2>1. MemoryBar' = MemoryBar
    BY <1>3, <1>4, <1>7, SameLive DEF ServeRead
  <2>2. response' = MemoryBar[call.index]
    <3>1. CASE BlocksOf(call.index) = {} /\ response' = response
      <4>1. response = NoData
        BY <1>1 DEF IInv, NoAnswerYet
      <4> QED BY <1>2, <1>3, <1>5, <3>1, <4>1, MemoryValue DEF BlocksOf
    <3>2. ASSUME NEW b \in BlocksOf(call.index), response' = b.data
          PROVE  response' = MemoryBar[call.index]
      BY <1>3, <1>5, <3>2, MemoryValue DEF BlocksOf
    <3> QED BY <1>7, <3>1, <3>2 DEF ServeRead
  <2> QED BY <1>1, <1>6, <1>7, <2>1, <2>2 DEF ServeRead, Memory!Perform, Memory!Next
<1>8. CASE ServeWrite
  <2> DEFINE new == [index |-> call.index, data |-> call.data]
  <2>1. new \in Live' /\ new.index = call.index /\ new.data = call.data
    BY <1>4, <1>8 DEF ServeWrite
  <2>2. MemoryBar'[call.index] = call.data
    <3>1. {b \in Live' : b.index = call.index} = {new}
      BY <1>2, <1>4, <1>8 DEF ServeWrite, BlocksOf
    <3>2. {b.data : b \in {c \in Live' : c.index = call.index}} = {call.data}
      <4>1. {b.data : b \in {new}} = {call.data}
        OBVIOUS
      <4> HIDE DEF new
      <4> QED BY <3>1, <4>1
    <3> QED BY <1>5, <3>2 DEF MemoryBar, LiveData
  <2>3. ASSUME NEW a \in Address, a # call.index PROVE MemoryBar'[a] = MemoryBar[a]
    <3>1. {b \in Live' : b.index = a} = {b \in Live : b.index = a}
      BY <1>3, <1>4, <1>8, <2>3 DEF ServeWrite, BlocksOf
    <3>2. LiveData(a)' = LiveData(a)
      BY <3>1 DEF LiveData
    <3> QED BY <3>2 DEF MemoryBar
  <2>4. MemoryBar' = [MemoryBar EXCEPT ![call.index] = call.data]
    <3> DEFINE M == MemoryBar
    <3>1. MemoryBar = [a \in Address |-> MemoryBar[a]]
          /\ MemoryBar' = [a \in Address |-> MemoryBar'[a]]
      BY DEF MemoryBar
    <3> QED BY <2>2, <2>3, <3>1
  <2> QED BY <1>1, <1>6, <1>8, <2>4 DEF ServeWrite, Memory!Perform, Memory!Next
<1> QED BY <1>7, <1>8 DEF Serve

LEMMA EvictMemory ==
  ASSUME IInv, EvictBucket
  PROVE  Memory!Next \/ UNCHANGED Memory!vars
<1> DEFINE p == P(oldLeaf, level)
<1>1. PICK S \in SUBSET Evictable(level) :
            /\ S \subseteq stash
            /\ stash' = stash \ S
            /\ p \in Positions \cap Stale
            /\ oram_storage' = [oram_storage EXCEPT ![p] = S]
            /\ Stale' = Stale \ {p}
            /\ pc = "evict"
  BY EvictStep
<1>2. Live' = Live
  <2>1. /\ oram_storage'[p] = S
        /\ \A k \in Positions \ {p} : oram_storage'[k] = oram_storage[k]
    BY <1>1 DEF IInv, TypeOK
  <2>2. Positions \ Stale' = (Positions \ Stale) \cup {p} /\ p \notin Positions \ Stale
    BY <1>1
  <2>3. UNION {oram_storage'[k] : k \in Positions \ Stale'}
          = S \cup UNION {oram_storage[k] : k \in Positions \ Stale}
    BY <2>1, <2>2
  <2> QED BY <1>1, <2>3 DEF Live
<1>3. MemoryBar' = MemoryBar
  BY <1>2, SameLive
<1>4. UNCHANGED <<call, response>>
  BY DEF EvictBucket
<1>5. StatusBar = "served"
  BY <1>1 DEF StatusBar
<1>6. CASE pc' = pc
  BY <1>3, <1>4, <1>6 DEF StatusBar, Memory!vars
<1>7. CASE pc' = "idle"
  BY <1>3, <1>4, <1>5, <1>7 DEF StatusBar, Memory!Return, Memory!Next
<1> QED BY <1>6, <1>7 DEF EvictBucket, NextLevel

LEMMA NextMemory == IInv /\ IInv' /\ [Next]_vars => [Memory!Next]_(Memory!vars)
<1> SUFFICES ASSUME IInv, IInv', [Next]_vars PROVE [Memory!Next]_(Memory!vars)
  OBVIOUS
<1>1. ASSUME NEW c \in Call, access(c) \/ access_direct(c) PROVE Memory!Next
  BY <1>1, StartMemory DEF access, access_direct
<1>2. CASE UNCHANGED vars
  BY <1>2 DEF vars, Memory!vars, MemoryBar, LiveData, Live, Stale, StatusBar
<1> QED BY <1>1, <1>2, ReadMemory, ServeMemory, EvictMemory DEF Next

(* Path ORAM is a memory: a READ returns what was last written. *)
THEOREM MemoryImplemented == Spec => ImplementsMemory
<1>1. Spec => Memory!Spec
  BY InvariantHolds, InitMemory, NextMemory, PTL DEF Spec, Memory!Spec
<1> QED BY <1>1 DEF ImplementsMemory
=============================================================================
