-------------------------- MODULE SealServerProofs --------------------------
(***************************************************************************)
(* For any clients, ORAMs and numbers of crashes: the isolation of the     *)
(* ORAMs on the server, that a server which lost its buckets is noticed,   *)
(* that READs return what was last written, and that a client that has its *)
(* ORAM for itself sees the Path ORAM of PathOram.                         *)
(***************************************************************************)
EXTENDS SealServer, SealUtilsProofs, SequenceTheorems

(* The numbering of the buckets, for this tree. *)
LEMMA TreePowers ==
  /\ PowersUpTo(num_levels)
  /\ \A n \in 0 .. num_levels : 2^n \in Nat /\ 2^n >= 1
<1>1. PowersUpTo(num_levels)
  BY PowersOfTwo DEF PowersUpTo
<1> QED BY <1>1, PowerType, SizeAssumption

LEMMA PathInStorage ==
  ASSUME NEW x \in Leaves, NEW l \in Levels
  PROVE  P(x, l) \in Positions
<1>1. P(x, l) = TreePosition(num_levels, x, l)
  BY DEF P, TreePosition
<1>2. TreePosition(num_levels, x, l) \in 0 .. 2^num_levels - 2
  BY TreePowers, PositionOfLevel, SizeAssumption DEF Leaves, num_leaves, Levels
<1>3. 2^num_levels \in Nat
  BY TreePowers, SizeAssumption
<1> QED BY <1>1, <1>2, <1>3 DEF Positions, num_buckets

LEMMA LevelsDisjoint ==
  ASSUME NEW x \in Leaves, NEW y \in Leaves, NEW i \in Levels, NEW j \in Levels,
         P(x, i) = P(y, j)
  PROVE  i = j
<1>1. TreePosition(num_levels, x, i) = TreePosition(num_levels, y, j)
  BY DEF P, TreePosition
<1> QED BY <1>1, TreePowers, LevelsApart, SizeAssumption DEF Leaves, num_leaves, Levels

\* What is written to the ORAM that a key, a kind and an id stand for.
Owned(key, kind, id) ==
    UNION {Content[p] : p \in {q \in Oram : /\ map_key[q] = key /\ is_odict[q] = kind
                                            /\ kind \/ oram_id[q] = id}}

\* Every ORAM of the server holds only what is its own.
StoreInv ==
    /\ DOMAIN odict_storage \subseteq Key /\ DOMAIN oram_storage \subseteq Key
    /\ \A key \in DOMAIN odict_storage :
          odict_storage[key] \in [Positions -> SUBSET Blocks(Owned(key, TRUE, 0))]
    /\ \A key \in DOMAIN oram_storage :
          /\ oram_storage[key] \in Seq(Buckets)
          /\ \A n \in 1 .. Len(oram_storage[key]) :
                oram_storage[key][n] \in [Positions -> SUBSET Blocks(Owned(key, FALSE, n - 1))]

ProcessInv ==
    /\ server \in Statics /\ statics \in [Client -> Statics]
    /\ up \in BOOLEAN /\ crashes \in Nat

\* The loop of an operation is where its bounds allow, and a stash holds only
\* what is of its ORAM.
ControlInv ==
    /\ position_map \in [Oram -> [Address -> Leaves]]
    /\ stash \in [Oram -> SUBSET Block]
    /\ pc \in [Oram -> {"none", "create", "idle", "read", "evict"}]
    /\ level \in [Oram -> Nat] /\ oldLeaf \in [Oram -> Leaves]
    /\ call \in [Oram -> UNION {Call(o) : o \in Oram}]
    /\ response \in [Oram -> Data \cup {NoData}]
    /\ born \in [Oram -> Nat]
    /\ truth \in [Oram -> [Address -> Data \cup {NoData}]]
    /\ \A o \in Oram :
          /\ stash[o] \subseteq Blocks(Mine(o))
          /\ call[o] \in Call(o)
          /\ pc[o] \in {"none", "idle"} => level[o] = 0
          /\ pc[o] = "create" => level[o] \in Positions
          /\ pc[o] = "read"  => level[o] \in 0 .. num_levels
          /\ pc[o] = "evict" => level[o] \in Levels

SInv == StoreInv /\ ProcessInv /\ ControlInv
-----------------------------------------------------------------------------
(* What the controllers of an ORAM write is what is written to it. *)
LEMMA MineOwned ==
  ASSUME NEW o \in Oram
  PROVE  /\ Mine(o) = Owned(map_key[o], is_odict[o], oram_id[o])
         /\ is_odict[o] => Mine(o) = Owned(map_key[o], TRUE, 0)
         /\ Content[o] \subseteq Mine(o) /\ Mine(o) \subseteq Data
<1>1. Mine(o) = Owned(map_key[o], is_odict[o], oram_id[o])
  BY DEF Mine, Owned, Shared
<1>2. is_odict[o] => Mine(o) = Owned(map_key[o], TRUE, 0)
  BY <1>1 DEF Owned
<1>3. Content[o] \subseteq Mine(o)
  BY DEF Mine, Shared
<1>4. Mine(o) \subseteq Data
  BY OramAssumption DEF Mine
<1> QED BY <1>1, <1>2, <1>3, <1>4

(* The buckets of an ORAM that is present hold what is its own. *)
LEMMA BucketsOwned ==
  ASSUME StoreInv, NEW o \in Oram, Present(o)
  PROVE  BucketsOf(o) \in [Positions -> SUBSET Blocks(Mine(o))]
<1>1. CASE is_odict[o]
  BY <1>1, MineOwned DEF StoreInv, Present, BucketsOf
<1>2. CASE ~is_odict[o]
  <2>1. oram_id[o] \in Nat /\ map_key[o] \in DOMAIN oram_storage
    BY <1>2, OramAssumption DEF Present, OramsOf
  <2>2. oram_id[o] + 1 \in 1 .. Len(oram_storage[map_key[o]])
    BY <1>2, <2>1 DEF Present, OramsOf, StoreInv
  <2>3. oram_storage[map_key[o]][oram_id[o] + 1]
           \in [Positions -> SUBSET Blocks(Owned(map_key[o], FALSE, (oram_id[o] + 1) - 1))]
    BY <2>1, <2>2 DEF StoreInv
  <2>4. (oram_id[o] + 1) - 1 = oram_id[o] /\ is_odict[o] = FALSE
    BY <2>1, <1>2, OramAssumption
  <2> QED BY <1>2, <2>3, <2>4, MineOwned DEF BucketsOf
<1> QED BY <1>1, <1>2

(* A server without buckets. *)
LEMMA EmptyStore ==
  ASSUME odict_storage' = <<>>, oram_storage' = <<>>
  PROVE  StoreInv'
BY DEF StoreInv

(* set_capacity makes empty buckets, and changes no other ORAM. *)
LEMMA CapacityStore ==
  ASSUME StoreInv, NEW o \in Oram, set_capacity(o)
  PROVE  StoreInv'
<1> DEFINE key == map_key[o]
<1>0. key \in Key /\ oram_id[o] \in Nat /\ \A M : Empty \in [Positions -> SUBSET Blocks(M)]
  BY OramAssumption DEF Empty
<1>1. CASE is_odict[o]
  <2>1. odict_storage' = SetKey(odict_storage, key, Empty) /\ oram_storage' = oram_storage
    BY <1>1 DEF set_capacity
  <2> QED BY <1>0, <2>1 DEF StoreInv, SetKey
<1>2. CASE ~is_odict[o]
  <2> DEFINE v == OramsOf(key)
             w == IF oram_id[o] = Len(v) THEN Append(v, Empty)
                  ELSE IF oram_id[o] < Len(v) THEN [v EXCEPT ![oram_id[o] + 1] = Empty]
                  ELSE v
  <2>1. odict_storage' = odict_storage /\ oram_storage' = SetKey(oram_storage, key, w)
    BY <1>2 DEF set_capacity
  <2>2. v \in Seq(Buckets) /\ Empty \in Buckets
    <3>1. Empty \in Buckets
      BY DEF Empty, Buckets
    <3>2. <<>> \in Seq(Buckets)
      OBVIOUS
    <3>3. CASE key \in DOMAIN oram_storage
      BY <3>1, <3>3 DEF OramsOf, StoreInv
    <3>4. CASE key \notin DOMAIN oram_storage
      BY <3>1, <3>2, <3>4 DEF OramsOf
    <3> QED BY <3>3, <3>4
  <2>3. \A n \in 1 .. Len(v) : v[n] \in [Positions -> SUBSET Blocks(Owned(key, FALSE, n - 1))]
    <3>1. CASE key \in DOMAIN oram_storage
      BY <3>1 DEF OramsOf, StoreInv
    <3>2. CASE key \notin DOMAIN oram_storage
      <4>1. v = <<>>
        BY <3>2 DEF OramsOf
      <4> HIDE DEF v
      <4> QED BY <4>1
    <3> QED BY <3>1, <3>2
  <2>4. /\ w \in Seq(Buckets)
        /\ \A n \in 1 .. Len(w) : w[n] \in [Positions -> SUBSET Blocks(Owned(key, FALSE, n - 1))]
    <3> HIDE DEF v
    <3>1. CASE oram_id[o] = Len(v)
      <4>1. w = Append(v, Empty)
        BY <3>1
      <4>2. w \in Seq(Buckets) /\ Len(w) = Len(v) + 1
        BY <4>1, <2>2, AppendProperties
      <4>3. \A n \in 1 .. Len(v) + 1 : w[n] = IF n = Len(v) + 1 THEN Empty ELSE v[n]
        BY <4>1, <2>2, AppendProperties
      <4>4. ASSUME NEW n \in 1 .. Len(v) + 1
            PROVE  w[n] \in [Positions -> SUBSET Blocks(Owned(key, FALSE, n - 1))]
        <5>1. CASE n = Len(v) + 1
          BY <4>3, <5>1, <1>0
        <5>2. CASE n # Len(v) + 1
          <6>1. n \in 1 .. Len(v)
            BY <2>2, <5>2
          <6> QED BY <4>3, <5>2, <6>1, <2>3
        <5> QED BY <5>1, <5>2
      <4> HIDE DEF w
      <4> QED BY <4>2, <4>4
    <3>2. CASE oram_id[o] # Len(v) /\ oram_id[o] < Len(v)
      <4>1. w = [v EXCEPT ![oram_id[o] + 1] = Empty]
        BY <3>2
      <4>0. oram_id[o] + 1 \in 1 .. Len(v)
        BY <3>2, <1>0, <2>2
      <4>2. w \in Seq(Buckets) /\ Len(w) = Len(v)
        BY <4>0, <4>1, <2>2, ExceptSeq
      <4>3. \A n \in 1 .. Len(v) : w[n] = IF n = oram_id[o] + 1 THEN Empty ELSE v[n]
        BY <4>0, <4>1, <2>2, ExceptSeq
      <4> HIDE DEF w
      <4> QED BY <4>2, <4>3, <1>0, <2>3
    <3>3. CASE oram_id[o] # Len(v) /\ ~(oram_id[o] < Len(v))
      BY <3>3, <2>2, <2>3
    <3> QED BY <3>1, <3>2, <3>3
  <2> HIDE DEF w, v
  <2> QED BY <1>0, <2>1, <2>4 DEF StoreInv, SetKey
<1> QED BY <1>1, <1>2

(* A bucket that is replaced is one of the ORAM it is written to. *)
LEMMA ReplaceStore ==
  ASSUME StoreInv, ProcessInv, NEW o \in Oram, Present(o), NEW k \in Positions,
         NEW B \in SUBSET Blocks(Mine(o)), Replace(o, k, B)
  PROVE  StoreInv' /\ server' \in Statics /\ up' = up /\ crashes' = crashes
<1> DEFINE key == map_key[o]
<1>0. server' \in Statics /\ up' = up /\ crashes' = crashes
  BY OramAssumption DEF Replace, ProcessInv
<1>1. CASE is_odict[o]
  <2>1. /\ odict_storage' = [odict_storage EXCEPT ![key] = [odict_storage[key] EXCEPT ![k] = B]]
        /\ oram_storage' = oram_storage
    BY <1>1 DEF Replace
  <2>2. odict_storage[key] \in [Positions -> SUBSET Blocks(Owned(key, TRUE, 0))]
    BY <1>1 DEF Present, StoreInv
  <2>3. [odict_storage[key] EXCEPT ![k] = B] \in [Positions -> SUBSET Blocks(Owned(key, TRUE, 0))]
    BY <1>1, <2>2, MineOwned
  <2> QED BY <1>0, <2>1, <2>3 DEF StoreInv
<1>2. CASE ~is_odict[o]
  <2> DEFINE v == oram_storage[key]
             m == oram_id[o] + 1
             w == [v EXCEPT ![m] = [v[m] EXCEPT ![k] = B]]
  <2>1. odict_storage' = odict_storage /\ oram_storage' = [oram_storage EXCEPT ![key] = w]
    BY <1>2 DEF Replace
  <2>2. key \in DOMAIN oram_storage /\ oram_id[o] \in Nat /\ v \in Seq(Buckets) /\ m \in 1 .. Len(v)
    <3>1. key \in DOMAIN oram_storage /\ oram_id[o] \in Nat
      BY <1>2, OramAssumption DEF Present, OramsOf
    <3>2. v \in Seq(Buckets) /\ oram_id[o] < Len(v)
      BY <1>2, <3>1 DEF Present, OramsOf, StoreInv
    <3> HIDE DEF v
    <3> QED BY <3>1, <3>2
  <2>3. v[m] \in [Positions -> SUBSET Blocks(Mine(o))] /\ v[m] = BucketsOf(o)
    BY <1>2, BucketsOwned DEF BucketsOf
  <2>4. Blocks(Mine(o)) \subseteq Block
    BY MineOwned DEF Blocks, Block
  <2>5. [v[m] EXCEPT ![k] = B] \in [Positions -> SUBSET Blocks(Mine(o))]
    BY <2>3
  <2>6. [v[m] EXCEPT ![k] = B] \in Buckets
    BY <2>4, <2>5 DEF Buckets
  <2>7. w \in Seq(Buckets) /\ Len(w) = Len(v)
    BY <2>2, <2>6, ExceptSeq
  <2>8. \A n \in 1 .. Len(v) : w[n] = IF n = m THEN [v[m] EXCEPT ![k] = B] ELSE v[n]
    BY <2>2, <2>6, ExceptSeq
  <2>9. Mine(o) = Owned(key, FALSE, m - 1)
    <3>1. m - 1 = oram_id[o] /\ is_odict[o] = FALSE
      BY <2>2, <1>2, OramAssumption
    <3> QED BY <3>1, MineOwned
  <2>10. \A n \in 1 .. Len(w) : w[n] \in [Positions -> SUBSET Blocks(Owned(key, FALSE, n - 1))]
    <3>1. \A n \in 1 .. Len(v) : v[n] \in [Positions -> SUBSET Blocks(Owned(key, FALSE, n - 1))]
      BY <2>2 DEF StoreInv
    <3> DEFINE e == [v[m] EXCEPT ![k] = B]
    <3>2. e \in [Positions -> SUBSET Blocks(Owned(key, FALSE, m - 1))]
      BY <2>5, <2>9
    <3>3. \A n \in 1 .. Len(v) : w[n] = IF n = m THEN e ELSE v[n]
      BY <2>8
    <3> HIDE DEF v, w, m, e
    <3> QED BY <3>1, <3>2, <3>3, <2>7
  <2> HIDE DEF w
  <2> QED BY <1>0, <2>1, <2>2, <2>7, <2>10 DEF StoreInv
<1> QED BY <1>1, <1>2

(* A process that has read no bucket yet. *)
LEMMA UnsetStatics == Unset \in Statics
BY DEF Unset, Statics

(* A call of write_bucket, however it ends, leaves every ORAM its own. *)
LEMMA WriteStore ==
  ASSUME StoreInv, ProcessInv, NEW o \in Oram, NEW k \in Positions,
         NEW B \in SUBSET Blocks(Mine(o)), WriteOk(o, k, B) \/ WriteError(o)
  PROVE  StoreInv' /\ server' \in Statics /\ up' \in BOOLEAN /\ crashes' \in Nat
<1>0. StoreInv /\ UNCHANGED store => StoreInv'
  BY DEF StoreInv, store
<1>1. CASE Present(o) /\ Replace(o, k, B)
  BY <1>1, ReplaceStore DEF ProcessInv
<1>2. CASE UNCHANGED <<store, process>>
  BY <1>0, <1>2 DEF ProcessInv, process
<1>3. CASE Die
  <2>1. crashes' \in Nat
    BY <1>3 DEF Die, ProcessInv
  <2> QED BY <1>3, <2>1, EmptyStore, UnsetStatics DEF Die
<1>4. CASE server' = statics[owner[o]] /\ UNCHANGED <<store, up, crashes>>
  BY <1>0, <1>4, OramAssumption DEF ProcessInv
<1> QED BY <1>1, <1>2, <1>3, <1>4 DEF WriteOk, WriteError, StrayWrite

(* The positions that the loops name exist. *)
LEMMA Bounds ==
  /\ 0 \in Positions /\ num_buckets - 1 \in Positions
  /\ num_levels - 1 \in Levels /\ 0 \in 0 .. num_levels
  /\ Positions \subseteq Nat /\ Levels \subseteq Nat /\ num_buckets \in Nat
<1>1. 0 \in 0 .. num_levels /\ num_levels - 1 \in Levels /\ num_levels \in 0 .. num_levels
  BY SizeAssumption DEF Levels
<1>2. num_buckets \in Nat
  BY <1>1, TreePowers DEF num_buckets
<1>3. num_buckets >= 1
  <2>1. num_levels - 1 \in 0 .. num_levels /\ (num_levels - 1) + 1 = num_levels
    BY SizeAssumption
  <2>2. 2^(num_levels - 1) >= 1 /\ 2^(num_levels - 1) \in Nat /\ 2^num_levels = 2 * 2^(num_levels - 1)
    BY <2>1, TreePowers, PowersOfTwo
  <2> QED BY <2>2 DEF num_buckets
<1> QED BY <1>1, <1>2, <1>3 DEF Positions, Levels

\* Where the loop of an operation may be.
LevelOf(p, n) ==
    /\ p \in {"none", "idle"} => n = 0
    /\ p = "create" => n \in Positions
    /\ p = "read"  => n \in 0 .. num_levels
    /\ p = "evict" => n \in Levels

(* A step that changes the place of one operation. *)
LEMMA Moves ==
  ASSUME ControlInv, NEW o \in Oram,
         NEW p \in {"none", "create", "idle", "read", "evict"}, NEW n \in Nat, LevelOf(p, n),
         pc' = [pc EXCEPT ![o] = p], level' = [level EXCEPT ![o] = n],
         UNCHANGED <<position_map, stash, oldLeaf, call, response, truth>>,
         born' \in [Oram -> Nat]
  PROVE  ControlInv'
BY DEF ControlInv, LevelOf

(* A constructor sets the ORAM up, or throws. *)
LEMMA ConstructInv ==
  ASSUME SInv, NEW o \in Oram, Construct(o)
  PROVE  SInv'
<1>1. StoreInv'
  BY CapacityStore DEF SInv, Construct, StoreInv, store
<1>2. ProcessInv'
  BY OramAssumption DEF SInv, Construct, ProcessInv, process, Statics
<1>3. ControlInv'
  <2>0. ControlInv /\ crashes \in Nat /\ pc[o] = "none"
    BY DEF SInv, ProcessInv, Construct
  <2>1. level[o] = 0 /\ level = [level EXCEPT ![o] = 0]
    BY <2>0 DEF ControlInv
  <2>2. UNCHANGED <<position_map, stash, oldLeaf, call, response, truth>>
    BY DEF Construct
  <2>3. CASE up /\ ~Refused(o)
    <3>1. /\ pc' = [pc EXCEPT ![o] = "create"] /\ level' = [level EXCEPT ![o] = 0]
          /\ born' = [born EXCEPT ![o] = crashes]
      BY <2>1, <2>3 DEF Construct
    <3>2. born' \in [Oram -> Nat]
      BY <2>0, <3>1 DEF ControlInv
    <3> QED BY <2>0, <2>2, <3>1, <3>2, Bounds, Moves DEF LevelOf
  <2>4. CASE ~(up /\ ~Refused(o))
    <3>1. /\ pc' = [pc EXCEPT ![o] = "none"] /\ level' = [level EXCEPT ![o] = 0]
          /\ born' = born
      BY <2>0, <2>4 DEF Construct, Throw, ControlInv
    <3>2. born' \in [Oram -> Nat]
      BY <2>0, <3>1 DEF ControlInv
    <3> QED BY <2>0, <2>2, <3>1, <3>2, Moves DEF LevelOf
  <2> QED BY <2>3, <2>4
<1> QED BY <1>1, <1>2, <1>3 DEF SInv

(* The constructor's loop stays within the positions. *)
LEMMA InitialInv ==
  ASSUME SInv, NEW o \in Oram, WriteInitialBucket(o)
  PROVE  SInv'
<1>1. level[o] \in Positions /\ {} \in SUBSET Blocks(Mine(o))
  BY DEF SInv, ControlInv, WriteInitialBucket
<1>2. StoreInv' /\ ProcessInv'
  <2>1. WriteOk(o, level[o], {}) \/ WriteError(o)
    BY DEF WriteInitialBucket
  <2>2. statics' = statics
    BY DEF WriteInitialBucket
  <2> QED BY <1>1, <2>1, <2>2, WriteStore DEF SInv, ProcessInv
<1>3. ControlInv'
  <2>1. level[o] # num_buckets - 1 => level[o] + 1 \in Positions
    BY <1>1, Bounds DEF Positions
  <2>2. /\ \/ pc' = pc /\ level' = [level EXCEPT ![o] = @ + 1] /\ level[o] # num_buckets - 1
           \/ /\ pc' = [pc EXCEPT ![o] = "idle"] \/ pc' = [pc EXCEPT ![o] = "none"]
              /\ level' = [level EXCEPT ![o] = 0]
        /\ pc[o] = "create"
        /\ UNCHANGED <<position_map, stash, oldLeaf, call, response, truth, born>>
    BY DEF WriteInitialBucket, Throw
  <2>3. ControlInv /\ born' \in [Oram -> Nat]
    BY <2>2 DEF SInv, ControlInv
  <2>4. CASE pc' = pc /\ level' = [level EXCEPT ![o] = @ + 1] /\ level[o] # num_buckets - 1
    <3>1. /\ pc' = [pc EXCEPT ![o] = "create"]
          /\ level' = [level EXCEPT ![o] = level[o] + 1] /\ level[o] + 1 \in Nat
      BY <2>2, <2>3, <2>4 DEF ControlInv
    <3> QED BY <2>1, <2>2, <2>3, <2>4, <3>1, Moves DEF LevelOf
  <2> QED BY <2>2, <2>3, <2>4, Moves DEF LevelOf
<1> QED BY <1>2, <1>3 DEF SInv

(* An operation starts at the root, with a leaf of its address. *)
LEMMA StartInv ==
  ASSUME SInv, NEW o \in Oram, NEW c \in Call(o), access(o, c) \/ access_direct(o, c)
  PROVE  SInv'
<1>1. StoreInv' /\ ProcessInv'
  BY DEF SInv, access, access_direct, Start, store, process, StoreInv, ProcessInv
<1>2. c.index \in Address
  BY DEF Call
<1>3. ControlInv'
  <2>1. position_map' \in [Oram -> [Address -> Leaves]]
    <3>1. position_map \in [Oram -> [Address -> Leaves]]
      BY DEF SInv, ControlInv
    <3>2. CASE access_direct(o, c)
      BY <3>1, <3>2 DEF access_direct
    <3>3. CASE access(o, c)
      <4>1. PICK x \in Leaves : position_map' = [position_map EXCEPT ![o][c.index] = x]
        BY <3>3 DEF access
      <4>2. position_map[o] \in [Address -> Leaves]
        BY <3>1
      <4>3. [position_map[o] EXCEPT ![c.index] = x] \in [Address -> Leaves]
        BY <4>2
      <4>4. position_map' = [position_map EXCEPT ![o] = [position_map[o] EXCEPT ![c.index] = x]]
        BY <4>1
      <4> QED BY <3>1, <4>3, <4>4
    <3> QED BY <3>2, <3>3
  <2>2. /\ pc' = [pc EXCEPT ![o] = "read"] /\ level' = [level EXCEPT ![o] = 0]
        /\ oldLeaf' = [oldLeaf EXCEPT ![o] = position_map[o][c.index]]
        /\ call' = [call EXCEPT ![o] = c] /\ response' = [response EXCEPT ![o] = NoData]
        /\ UNCHANGED <<stash, born, truth>>
    BY DEF access, access_direct, Start
  <2>3. position_map[o][c.index] \in Leaves
    BY <1>2 DEF SInv, ControlInv
  <2>4. ControlInv
    BY DEF SInv
  <2> QED BY <2>1, <2>2, <2>3, <2>4, Bounds DEF ControlInv
<1> QED BY <1>1, <1>3 DEF SInv

(* What a path holds is of the ORAM that is read. *)
LEMMA ReadInv ==
  ASSUME SInv, NEW o \in Oram, ReadBucket(o)
  PROVE  SInv'
<1>0. StoreInv /\ ProcessInv /\ ControlInv
  BY DEF SInv
<1>1. StoreInv'
  BY <1>0 DEF ReadBucket, store, StoreInv
<1>2. CASE up /\ Present(o)
  <2> DEFINE S == stash[o] \cup BucketsOf(o)[P(oldLeaf[o], level[o])]
  <2>1. /\ stash' = [stash EXCEPT ![o] = S] /\ statics' = [statics EXCEPT ![owner[o]] = server]
        /\ level' = [level EXCEPT ![o] = @ + 1] /\ pc' = pc
        /\ UNCHANGED <<server, up, crashes, position_map, oldLeaf, call, response, truth, born>>
        /\ pc[o] = "read" /\ level[o] < num_levels
    BY <1>2 DEF ReadBucket, process
  <2>2. level[o] \in Levels /\ level[o] + 1 \in 0 .. num_levels /\ level[o] + 1 \in Nat
    BY <1>0, <2>1, SizeAssumption DEF ControlInv, Levels
  <2>3. P(oldLeaf[o], level[o]) \in Positions
    BY <1>0, <2>2, PathInStorage DEF ControlInv
  <2>4. S \subseteq Blocks(Mine(o))
    BY <1>0, <1>2, <2>3, BucketsOwned DEF ControlInv
  <2>5. S \subseteq Block
    BY <2>4, MineOwned DEF Blocks, Block
  <2>6. ProcessInv'
    BY <1>0, <2>1, OramAssumption DEF ProcessInv
  <2>7. ControlInv'
    <3> HIDE DEF S
    <3> QED BY <1>0, <2>1, <2>2, <2>4, <2>5 DEF ControlInv
  <2> QED BY <1>1, <2>6, <2>7 DEF SInv
<1>3. CASE ~(up /\ Present(o))
  <2>1. ProcessInv'
    BY <1>0, <1>3 DEF ReadBucket, ProcessInv, process
  <2>2. ControlInv'
    <3>1. /\ pc' = [pc EXCEPT ![o] = "idle"] /\ level' = [level EXCEPT ![o] = 0]
          /\ UNCHANGED <<position_map, stash, oldLeaf, call, response, truth, born>>
      BY <1>0, <1>3 DEF ReadBucket, Throw, ControlInv
    <3>2. born' \in [Oram -> Nat]
      BY <1>0, <3>1 DEF ControlInv
    <3> QED BY <1>0, <3>1, <3>2, Moves DEF LevelOf
  <2> QED BY <1>1, <2>1, <2>2 DEF SInv
<1> QED BY <1>2, <1>3

(* A WRITE puts into the stash what may be written to the ORAM. *)
LEMMA ServeInv ==
  ASSUME SInv, NEW o \in Oram, Serve(o)
  PROVE  SInv'
<1>0. StoreInv /\ ProcessInv /\ ControlInv
  BY DEF SInv
<1>1. StoreInv' /\ ProcessInv'
  BY <1>0 DEF Serve, store, process, StoreInv, ProcessInv
<1>2. stash[o] \subseteq Blocks(Mine(o)) /\ stash[o] \subseteq Block
  BY <1>0 DEF ControlInv
<1>3. ASSUME call[o].op = "WRITE"
      PROVE  /\ call[o].index \in Address /\ call[o].data \in Data
             /\ [index |-> call[o].index, data |-> call[o].data] \in Blocks(Mine(o))
  <2>1. call[o].index \in Address /\ call[o].data \in Content[o]
    BY <1>0, <1>3 DEF ControlInv, Call
  <2> QED BY <2>1, MineOwned DEF Blocks
<1>4. PICK S, r : /\ stash' = [stash EXCEPT ![o] = S] /\ response' = [response EXCEPT ![o] = r]
                  /\ S \subseteq Blocks(Mine(o)) /\ r \in Data \cup {NoData}
  <2>1. CASE ServeRead(o)
    <3>0. stash' = [stash EXCEPT ![o] = stash[o]]
      BY <1>0, <2>1 DEF ServeRead, ControlInv
    <3>1. CASE UNCHANGED response
      <4>1. response' = [response EXCEPT ![o] = response[o]] /\ response[o] \in Data \cup {NoData}
        BY <1>0, <3>1 DEF ControlInv
      <4> QED BY <1>2, <3>0, <4>1
    <3>2. CASE \E b \in BlocksOf(o, call[o].index) : response' = [response EXCEPT ![o] = b.data]
      <4>1. PICK b \in BlocksOf(o, call[o].index) : response' = [response EXCEPT ![o] = b.data]
        BY <3>2
      <4>2. b.data \in Data
        BY <1>2 DEF BlocksOf, Block, Blocks
      <4> QED BY <1>2, <3>0, <4>1, <4>2
    <3> QED BY <2>1, <3>1, <3>2 DEF ServeRead
  <2>2. CASE ServeWrite(o)
    <3> DEFINE T == (stash[o] \ BlocksOf(o, call[o].index))
                       \cup {[index |-> call[o].index, data |-> call[o].data]}
    <3>1. stash' = [stash EXCEPT ![o] = T] /\ call[o].op = "WRITE"
      BY <2>2 DEF ServeWrite
    <3>2. T \subseteq Blocks(Mine(o))
      BY <1>2, <1>3, <3>1
    <3>3. response' = [response EXCEPT ![o] = response[o]] /\ response[o] \in Data \cup {NoData}
      BY <1>0, <2>2 DEF ServeWrite, ControlInv
    <3> QED BY <3>1, <3>2, <3>3
  <2> QED BY <2>1, <2>2 DEF Serve
<1>5. truth' \in [Oram -> [Address -> Data \cup {NoData}]]
  <2>1. CASE call[o].op = "WRITE"
    BY <1>0, <1>3, <2>1 DEF Serve, ControlInv
  <2>2. CASE call[o].op # "WRITE"
    BY <1>0, <2>2 DEF Serve, ControlInv
  <2> QED BY <2>1, <2>2
<1>6. /\ pc' = [pc EXCEPT ![o] = "evict"] /\ level' = [level EXCEPT ![o] = num_levels - 1]
      /\ UNCHANGED <<position_map, oldLeaf, call, born>>
  BY DEF Serve
<1>7. S \subseteq Block
  BY <1>4, MineOwned DEF Blocks, Block
<1>8. ControlInv'
  BY <1>0, <1>4, <1>5, <1>6, <1>7, Bounds DEF ControlInv
<1> QED BY <1>1, <1>8 DEF SInv

(* The blocks written back come from the stash. *)
LEMMA EvictInv ==
  ASSUME SInv, NEW o \in Oram, EvictBucket(o)
  PROVE  SInv'
<1>0. StoreInv /\ ProcessInv /\ ControlInv
  BY DEF SInv
<1>1. PICK S \in SUBSET Evictable(o, level[o]) : \E B \in SUBSET S :
         /\ stash' = [stash EXCEPT ![o] = @ \ S]
         /\ \/ /\ WriteOk(o, P(oldLeaf[o], level[o]), B)
               /\ IF level[o] = 0
                  THEN pc' = [pc EXCEPT ![o] = "idle"] /\ UNCHANGED level
                  ELSE level' = [level EXCEPT ![o] = @ - 1] /\ UNCHANGED pc
            \/ WriteError(o) /\ Throw(o)
  BY DEF EvictBucket
<1>2. PICK B \in SUBSET S :
         \/ /\ WriteOk(o, P(oldLeaf[o], level[o]), B)
            /\ IF level[o] = 0
               THEN pc' = [pc EXCEPT ![o] = "idle"] /\ UNCHANGED level
               ELSE level' = [level EXCEPT ![o] = @ - 1] /\ UNCHANGED pc
         \/ WriteError(o) /\ Throw(o)
  BY <1>1
<1>3. /\ pc[o] = "evict" /\ level[o] \in Levels /\ oldLeaf[o] \in Leaves
      /\ UNCHANGED <<statics, position_map, oldLeaf, call, response, truth, born>>
  BY <1>0 DEF EvictBucket, ControlInv
<1>4. B \in SUBSET Blocks(Mine(o)) /\ P(oldLeaf[o], level[o]) \in Positions
  BY <1>0, <1>3, PathInStorage DEF Evictable, ControlInv
<1>5. StoreInv' /\ ProcessInv'
  BY <1>0, <1>2, <1>3, <1>4, WriteStore DEF ProcessInv
<1>6. level[o] # 0 => level[o] - 1 \in Levels /\ level[o] - 1 \in Nat
  BY <1>3, SizeAssumption DEF Levels
<1>7. \/ /\ level[o] = 0 /\ pc' = [pc EXCEPT ![o] = "idle"] /\ level' = level
      \/ /\ level[o] # 0 /\ pc' = pc /\ level' = [level EXCEPT ![o] = level[o] - 1]
      \/ /\ pc' = [pc EXCEPT ![o] = "idle"] /\ level' = [level EXCEPT ![o] = 0]
  BY <1>2, <1>3 DEF Throw
<1>8. stash' = [stash EXCEPT ![o] = stash[o] \ S]
  BY <1>1
<1>9. ControlInv'
  <2> DEFINE T == stash[o] \ S
  <2>1. T \subseteq Blocks(Mine(o)) /\ T \subseteq Block
    BY <1>0 DEF ControlInv
  <2>2. PICK p \in {"evict", "idle"}, n \in Nat :
           /\ pc' = [pc EXCEPT ![o] = p] /\ level' = [level EXCEPT ![o] = n] /\ LevelOf(p, n)
    <3>1. CASE level[o] = 0 /\ pc' = [pc EXCEPT ![o] = "idle"] /\ level' = level
      <4>1. level' = [level EXCEPT ![o] = 0]
        BY <1>0, <3>1 DEF ControlInv
      <4>2. pc' = [pc EXCEPT ![o] = "idle"]
        BY <3>1
      <4> QED BY <4>1, <4>2 DEF LevelOf
    <3>2. CASE level[o] # 0 /\ pc' = pc /\ level' = [level EXCEPT ![o] = level[o] - 1]
      <4>1. pc' = [pc EXCEPT ![o] = "evict"]
        BY <1>0, <1>3, <3>2 DEF ControlInv
      <4> QED BY <1>6, <3>2, <4>1 DEF LevelOf
    <3>3. CASE pc' = [pc EXCEPT ![o] = "idle"] /\ level' = [level EXCEPT ![o] = 0]
      BY <3>3 DEF LevelOf
    <3> QED BY <1>7, <3>1, <3>2, <3>3
  <2>3. stash' = [stash EXCEPT ![o] = T]
    BY <1>8
  <2> HIDE DEF T
  <2> QED BY <1>0, <1>3, <2>1, <2>2, <2>3 DEF ControlInv, LevelOf
<1> QED BY <1>5, <1>9 DEF SInv

(* The invariant of the server and its clients. *)
LEMMA InitSInv == Init => SInv
<1> SUFFICES ASSUME Init PROVE SInv
  OBVIOUS
<1>1. StoreInv
  BY DEF Init, StoreInv
<1>2. ProcessInv
  BY DEF Init, ProcessInv, Statics, Unset
<1>3. 0 \in Leaves
  BY Bounds, TreePowers, SizeAssumption DEF Leaves, num_leaves, Levels
<1>4. \A o \in Oram : call[o] \in Call(o)
  BY DEF Init, Call
<1>5. ControlInv
  <2>1. call \in [Oram -> UNION {Call(o) : o \in Oram}]
    BY <1>4 DEF Init
  <2> QED BY <1>3, <1>4, <2>1 DEF Init, ControlInv
<1> QED BY <1>1, <1>2, <1>5 DEF SInv

(* Every step of the server and of its clients keeps the invariant.         *)
LEMMA NextSInv == SInv /\ [Next]_vars => SInv'
<1> SUFFICES ASSUME SInv, [Next]_vars PROVE SInv'
  OBVIOUS
<1>1. CASE Crash
  <2>1. StoreInv' /\ ProcessInv'
    <3>1. crashes' \in Nat /\ statics' = statics
      BY <1>1 DEF Crash, Die, SInv, ProcessInv
    <3>2. odict_storage' = <<>> /\ oram_storage' = <<>> /\ server' = Unset /\ up' = FALSE
      BY <1>1 DEF Crash, Die
    <3> QED BY <3>1, <3>2, EmptyStore, UnsetStatics DEF SInv, ProcessInv
  <2>2. ControlInv'
    BY <1>1 DEF Crash, SInv, ControlInv, control
  <2> QED BY <2>1, <2>2 DEF SInv
<1>2. CASE Restart
  BY <1>2 DEF Restart, SInv, StoreInv, ProcessInv, ControlInv, store, control
<1>3. ASSUME NEW o \in Oram, Construct(o) PROVE SInv'
  BY <1>3, ConstructInv
<1>4. ASSUME NEW o \in Oram, NEW c \in Call(o), access(o, c) \/ access_direct(o, c) PROVE SInv'
  BY <1>4, StartInv
<1>5. ASSUME NEW o \in Oram, Step(o) PROVE SInv'
  BY <1>5, InitialInv, ReadInv, ServeInv, EvictInv DEF Step
<1>6. CASE UNCHANGED vars
  BY <1>6 DEF vars, store, process, control, SInv, StoreInv, ProcessInv, ControlInv
<1> QED BY <1>1, <1>2, <1>3, <1>4, <1>5, <1>6 DEF Next

LEMMA ServerInvariant == Spec => []SInv
BY InitSInv, NextSInv, PTL DEF Spec

(* The counters, positions and buckets of the server and of the controllers *)
(* stay in their ranges, for any numbers of clients, ORAMs and addresses    *)
(* (SealService.cpp, ServerStorage.cpp, OramReadPathEviction.cpp).          *)
THEOREM ServerTypeCorrect == Spec => []TypeOK
<1>1. SInv => TypeOK
  <2> SUFFICES ASSUME SInv PROVE TypeOK
    OBVIOUS
  <2>1. Function(odict_storage, Key, Buckets)
    <3>1. ASSUME NEW key \in DOMAIN odict_storage PROVE odict_storage[key] \in Buckets
      <4>1. Owned(key, TRUE, 0) \subseteq Data
        BY OramAssumption DEF Owned
      <4>2. Blocks(Owned(key, TRUE, 0)) \subseteq Block
        BY <4>1 DEF Blocks, Block
      <4>3. odict_storage[key] \in [Positions -> SUBSET Blocks(Owned(key, TRUE, 0))]
        BY DEF SInv, StoreInv
      <4> QED BY <4>2, <4>3 DEF Buckets
    <3> QED BY <3>1 DEF SInv, StoreInv, Function
  <2>2. Function(oram_storage, Key, Seq(Buckets))
    BY DEF SInv, StoreInv, Function
  <2> QED BY <2>1, <2>2, Bounds DEF SInv, ProcessInv, ControlInv, TypeOK
<1> QED BY <1>1, ServerInvariant, PTL

(* An ORAM of the server never holds a block of another one, whatever the   *)
(* clients' calls, their failures and the server's restarts are             *)
(* (SealService.cpp read_bucket and write_bucket).                          *)
THEOREM Isolation == Spec => []NoForeignBlocks
<1>1. SInv => NoForeignBlocks
  BY BucketsOwned DEF SInv, ControlInv, NoForeignBlocks, Blocks
<1> QED BY <1>1, ServerInvariant, PTL
-----------------------------------------------------------------------------
\* The operation of a controller is past its first call of the server.
Underway(o) == pc[o] \in {"create", "evict"} \/ (pc[o] = "read" /\ level[o] >= 1)

\* What is present was set up in the running server, and while an operation is
\* under way the array of a client is there, or nothing under its key is: a
\* crash empties the key, and no other client fills it again.
RInv ==
    \A o \in Oram : Exclusive(o) =>
       /\ pc[o] # "none" /\ Present(o) => born[o] = crashes
       /\ ~is_odict[o] /\ Underway(o) => Present(o) \/ OramsOf(map_key[o]) = <<>>

(* set_capacity brings the ORAM of its controller into being, if it is not     *)
(* refused, and no ORAM that is not shared with it.                            *)
LEMMA CapacityPresent ==
  ASSUME StoreInv, NEW p \in Oram, set_capacity(p)
  PROVE  /\ ~Refused(p) => Present(p)'
         /\ \A o \in Oram : ~Shared(o, p) => Present(o)' = Present(o)
         /\ \A o \in Oram : ~is_odict[o] /\ (is_odict[p] \/ map_key[o] # map_key[p]) =>
               OramsOf(map_key[o])' = OramsOf(map_key[o])
<1> DEFINE key == map_key[p]
<1>0. /\ oram_id[p] \in Nat /\ \A o \in Oram : oram_id[o] \in Nat /\ is_odict[o] \in BOOLEAN
  BY OramAssumption
<1>1. CASE is_odict[p]
  <2>1. odict_storage' = SetKey(odict_storage, key, Empty) /\ oram_storage' = oram_storage
    BY <1>1 DEF set_capacity
  <2>2. DOMAIN odict_storage' = DOMAIN odict_storage \cup {key}
    BY <2>1 DEF SetKey
  <2>3. Present(p)'
    BY <1>1, <2>2 DEF Present
  <2>4. \A k : OramsOf(k)' = OramsOf(k)
    BY <2>1 DEF OramsOf
  <2>5. ASSUME NEW o \in Oram, ~Shared(o, p) PROVE Present(o)' = Present(o)
    <3>1. CASE is_odict[o]
      <4>1. map_key[o] # key
        BY <1>0, <1>1, <2>5, <3>1 DEF Shared
      <4> QED BY <2>2, <3>1, <4>1 DEF Present
    <3>2. CASE ~is_odict[o]
      BY <2>4, <3>2 DEF Present
    <3> QED BY <3>1, <3>2
  <2> QED BY <1>1, <2>3, <2>4, <2>5
<1>2. CASE ~is_odict[p]
  <2> DEFINE v == OramsOf(key)
             w == IF oram_id[p] = Len(v) THEN Append(v, Empty)
                  ELSE IF oram_id[p] < Len(v) THEN [v EXCEPT ![oram_id[p] + 1] = Empty]
                  ELSE v
  <2>1. odict_storage' = odict_storage /\ oram_storage' = SetKey(oram_storage, key, w)
    BY <1>2 DEF set_capacity
  <2>2. v \in Seq(Buckets) /\ Empty \in Buckets
    <3>1. Empty \in Buckets
      BY DEF Empty, Buckets
    <3>2. CASE key \in DOMAIN oram_storage
      BY <3>1, <3>2 DEF OramsOf, StoreInv
    <3>3. CASE key \notin DOMAIN oram_storage
      <4>1. v = <<>>
        BY <3>3 DEF OramsOf
      <4> HIDE DEF v
      <4> QED BY <3>1, <4>1
    <3> QED BY <3>2, <3>3
  <2>3. OramsOf(key)' = w
    BY <2>1 DEF OramsOf, SetKey
  <2>4. \A k : k # key => OramsOf(k)' = OramsOf(k)
    BY <2>1 DEF OramsOf, SetKey
  <2>5. Len(v) \in Nat /\ Len(w) = IF oram_id[p] = Len(v) THEN Len(v) + 1 ELSE Len(v)
    <3> HIDE DEF v
    <3>1. CASE oram_id[p] = Len(v)
      BY <2>2, <3>1, AppendProperties
    <3>2. CASE oram_id[p] # Len(v) /\ oram_id[p] < Len(v)
      <4>1. oram_id[p] + 1 \in 1 .. Len(v)
        BY <1>0, <2>2, <3>2
      <4> QED BY <2>2, <3>2, <4>1, ExceptSeq
    <3>3. CASE oram_id[p] # Len(v) /\ ~(oram_id[p] < Len(v))
      BY <2>2, <3>3
    <3> QED BY <3>1, <3>2, <3>3
  <2>6. ~Refused(p) => Present(p)'
    <3> HIDE DEF w
    <3>1. ~Refused(p) => oram_id[p] <= Len(v)
      BY <1>0, <1>2, <2>5 DEF Refused
    <3>2. Present(p)' <=> oram_id[p] < Len(w)
      BY <1>2, <2>3 DEF Present
    <3> HIDE DEF v
    <3> QED BY <1>0, <2>5, <3>1, <3>2
  <2>7. ASSUME NEW o \in Oram, ~Shared(o, p) PROVE Present(o)' = Present(o)
    <3>1. CASE is_odict[o] \/ map_key[o] # key
      BY <2>1, <2>4, <3>1 DEF Present
    <3>2. CASE ~is_odict[o] /\ map_key[o] = key
      <4>1. oram_id[o] # oram_id[p]
        BY <1>0, <1>2, <2>7, <3>2 DEF Shared
      <4>2. Present(o)' = (oram_id[o] < Len(w)) /\ Present(o) = (oram_id[o] < Len(v))
        BY <2>3, <3>2 DEF Present
      <4> HIDE DEF w, v
      <4> QED BY <1>0, <2>5, <4>1, <4>2
    <3> QED BY <3>1, <3>2
  <2> QED BY <1>2, <2>4, <2>6, <2>7
<1> QED BY <1>1, <1>2

(* What set_capacity does when it refuses.                                     *)
LEMMA RefusedCapacity ==
  ASSUME StoreInv, NEW p \in Oram, set_capacity(p), Refused(p)
  PROVE  odict_storage' = odict_storage /\ \A k : OramsOf(k)' = OramsOf(k)
<1> DEFINE key == map_key[p]
           v == OramsOf(key)
           w == IF oram_id[p] = Len(v) THEN Append(v, Empty)
                ELSE IF oram_id[p] < Len(v) THEN [v EXCEPT ![oram_id[p] + 1] = Empty]
                ELSE v
<1>1. odict_storage' = odict_storage /\ oram_storage' = SetKey(oram_storage, key, w)
  BY DEF Refused, set_capacity
<1>2. Len(v) \in Nat
  <2>1. CASE key \in DOMAIN oram_storage
    BY <2>1 DEF OramsOf, StoreInv
  <2>2. CASE key \notin DOMAIN oram_storage
    BY <2>2 DEF OramsOf
  <2> QED BY <2>1, <2>2
<1>3. w = v
  <2>1. oram_id[p] > Len(v) /\ oram_id[p] \in Nat
    BY OramAssumption DEF Refused
  <2> HIDE DEF v
  <2> QED BY <1>2, <2>1
<1> HIDE DEF w
<1> QED BY <1>1, <1>3 DEF OramsOf, SetKey

(* Replacing a bucket leaves the same ORAMs.                                   *)
LEMMA ReplacePresent ==
  ASSUME StoreInv, NEW p \in Oram, Present(p), NEW k \in Positions,
         NEW B \in SUBSET Blocks(Mine(p)), Replace(p, k, B)
  PROVE  \A o \in Oram :
            /\ Present(o)' = Present(o)
            /\ OramsOf(map_key[o]) = <<>> => OramsOf(map_key[o])' = <<>>
<1> DEFINE key == map_key[p]
<1>0. \A o \in Oram : oram_id[o] \in Nat /\ is_odict[o] \in BOOLEAN
  BY OramAssumption
<1>1. CASE is_odict[p]
  <2>1. oram_storage' = oram_storage /\ DOMAIN odict_storage' = DOMAIN odict_storage
    BY <1>1 DEF Replace
  <2> QED BY <2>1 DEF Present, OramsOf
<1>2. CASE ~is_odict[p]
  <2> DEFINE v == oram_storage[key]
             m == oram_id[p] + 1
             w == [v EXCEPT ![m] = [v[m] EXCEPT ![k] = B]]
  <2>1. odict_storage' = odict_storage /\ oram_storage' = [oram_storage EXCEPT ![key] = w]
    BY <1>2 DEF Replace
  <2>2. key \in DOMAIN oram_storage /\ v \in Seq(Buckets) /\ m \in 1 .. Len(v)
    <3>1. key \in DOMAIN oram_storage
      BY <1>2, <1>0 DEF Present, OramsOf
    <3>2. v \in Seq(Buckets) /\ oram_id[p] < Len(v)
      BY <1>2, <3>1 DEF Present, OramsOf, StoreInv
    <3> HIDE DEF v
    <3> QED BY <1>0, <3>1, <3>2
  <2>3. [v[m] EXCEPT ![k] = B] \in Buckets
    <3>1. v[m] \in [Positions -> SUBSET Blocks(Mine(p))]
      BY <1>2, BucketsOwned DEF BucketsOf
    <3>2. Blocks(Mine(p)) \subseteq Block
      BY MineOwned DEF Blocks, Block
    <3> HIDE DEF v, m
    <3> QED BY <3>1, <3>2 DEF Buckets
  <2>4. Len(w) = Len(v) /\ Len(v) # 0
    BY <2>2, <2>3, ExceptSeq
  <2>5. \A j : j # key => OramsOf(j)' = OramsOf(j)
    BY <2>1 DEF OramsOf
  <2>6. OramsOf(key)' = w /\ OramsOf(key) = v
    BY <2>1, <2>2 DEF OramsOf
  <2>7. \A j : Len(OramsOf(j)') = Len(OramsOf(j)) /\ (OramsOf(j) = <<>> => OramsOf(j)' = <<>>)
    <3> HIDE DEF w, v
    <3>1. v # <<>>
      BY <2>4
    <3> QED BY <2>4, <2>5, <2>6, <3>1
  <2> QED BY <2>1, <2>7 DEF Present
<1> QED BY <1>1, <1>2

(* What a call of write_bucket leaves.                                         *)
LEMMA WritePresent ==
  ASSUME StoreInv, NEW p \in Oram, NEW k \in Positions,
         NEW B \in SUBSET Blocks(Mine(p)), WriteOk(p, k, B) \/ WriteError(p)
  PROVE  \/ /\ crashes' = crashes
            /\ \A o \in Oram :
                  /\ Present(o)' = Present(o)
                  /\ OramsOf(map_key[o]) = <<>> => OramsOf(map_key[o])' = <<>>
         \/ \A o \in Oram : ~Present(o)' /\ OramsOf(map_key[o])' = <<>>
<1>1. CASE Present(p) /\ Replace(p, k, B)
  BY <1>1, ReplacePresent DEF Replace
<1>2. CASE UNCHANGED <<store, up, crashes>>
  BY <1>2 DEF store, Present, OramsOf
<1>3. CASE Die
  BY <1>3, OramAssumption DEF Die, Present, OramsOf
<1> QED BY <1>1, <1>2, <1>3 DEF WriteOk, WriteError, StrayWrite, process

(* Nobody sets up the ORAM of an exclusive controller for it, and nobody fills *)
(* its key while its client is busy.                                           *)
LEMMA ConstructR ==
  ASSUME SInv, RInv, NEW p \in Oram, Construct(p)
  PROVE  RInv'
<1> SUFFICES ASSUME NEW o \in Oram, Exclusive(o)
             PROVE  /\ pc'[o] # "none" /\ Present(o)' => born'[o] = crashes'
                    /\ ~is_odict[o] /\ Underway(o)' => Present(o)' \/ OramsOf(map_key[o])' = <<>>
  BY DEF RInv
<1>0. /\ StoreInv /\ pc \in [Oram -> {"none", "create", "idle", "read", "evict"}]
      /\ born \in [Oram -> Nat] /\ level \in [Oram -> Nat] /\ crashes' = crashes
      /\ pc[p] = "none" /\ level[p] = 0
  BY DEF SInv, ControlInv, Construct, process
<1>1. CASE up /\ ~Refused(p)
  <2>1. /\ set_capacity(p) /\ pc' = [pc EXCEPT ![p] = "create"] /\ level' = level
        /\ born' = [born EXCEPT ![p] = crashes]
    BY <1>1 DEF Construct
  <2>2. CASE o = p
    <3>1. born'[o] = crashes' /\ Present(o)'
      BY <1>0, <1>1, <2>1, <2>2, CapacityPresent
    <3> QED BY <3>1
  <2>3. CASE o # p
    <3>1. ~Shared(o, p) /\ Present(o)' = Present(o)
      BY <1>0, <2>1, <2>3, CapacityPresent DEF Exclusive
    <3>2. pc'[o] = pc[o] /\ level'[o] = level[o] /\ born'[o] = born[o]
      BY <1>0, <2>1, <2>3
    <3>3. ASSUME ~is_odict[o], Underway(o), ~Present(o)
          PROVE  OramsOf(map_key[o])' = <<>>
      <4>1. owner[o] # owner[p]
        BY <3>3 DEF Underway, Construct, Busy
      <4>2. is_odict[p] \/ map_key[o] # map_key[p]
        BY <2>3, <3>3, <4>1, OramAssumption DEF Exclusive
      <4>3. OramsOf(map_key[o])' = OramsOf(map_key[o])
        BY <1>0, <2>1, <3>3, <4>2, CapacityPresent
      <4> QED BY <3>3, <4>3 DEF RInv
    <3>4. Underway(o)' = Underway(o)
      BY <3>2 DEF Underway
    <3> QED BY <1>0, <3>1, <3>2, <3>3, <3>4 DEF RInv
  <2> QED BY <2>2, <2>3
<1>2. CASE ~(up /\ ~Refused(p))
  <2>1. /\ pc' = pc /\ level' = level /\ born' = born
        /\ odict_storage' = odict_storage /\ \A k : OramsOf(k)' = OramsOf(k)
    <3>1. odict_storage' = odict_storage /\ \A k : OramsOf(k)' = OramsOf(k)
      <4>1. CASE up
        <5>1. set_capacity(p) /\ Refused(p)
          BY <1>2, <4>1 DEF Construct
        <5> QED BY <1>0, <5>1, RefusedCapacity
      <4>2. CASE ~up
        BY <4>2 DEF Construct, store, OramsOf
      <4> QED BY <4>1, <4>2
    <3>2. Throw(p) /\ born' = born
      BY <1>2 DEF Construct
    <3> QED BY <1>0, <3>1, <3>2 DEF Throw
  <2>2. Present(o)' = Present(o) /\ OramsOf(map_key[o])' = OramsOf(map_key[o])
    BY <2>1 DEF Present
  <2> QED BY <1>0, <2>1, <2>2 DEF RInv, Underway
<1> QED BY <1>1, <1>2

(* A step that leaves the ORAMs, and with which no operation gets under way    *)
(* but one whose ORAM is there.                                                *)
LEMMA QuietR ==
  ASSUME RInv, crashes' = crashes, born' = born,
         \A o \in Oram : /\ Present(o)' = Present(o)
                         /\ OramsOf(map_key[o]) = <<>> => OramsOf(map_key[o])' = <<>>
                         /\ pc'[o] # "none" => pc[o] # "none"
                         /\ Underway(o)' => Underway(o) \/ Present(o)
  PROVE  RInv'
BY DEF RInv

(* The bucket that a step writes is one of the ORAM's.                       *)
LEMMA WritesBucket ==
  ASSUME ControlInv, NEW p \in Oram, WriteInitialBucket(p) \/ EvictBucket(p)
  PROVE  \E k \in Positions, B \in SUBSET Blocks(Mine(p)) : WriteOk(p, k, B) \/ WriteError(p)
<1>1. CASE WriteInitialBucket(p)
  <2>1. level[p] \in Positions /\ {} \in SUBSET Blocks(Mine(p))
    BY <1>1 DEF ControlInv, WriteInitialBucket
  <2> QED BY <1>1, <2>1 DEF WriteInitialBucket
<1>2. CASE EvictBucket(p)
  <2>1. level[p] \in Levels /\ oldLeaf[p] \in Leaves
    BY <1>2 DEF ControlInv, EvictBucket
  <2>2. PICK S \in SUBSET Evictable(p, level[p]) : \E B \in SUBSET S :
           WriteOk(p, P(oldLeaf[p], level[p]), B) \/ WriteError(p)
    BY <1>2 DEF EvictBucket
  <2>3. SUBSET S \subseteq SUBSET Blocks(Mine(p))
    BY DEF ControlInv, Evictable
  <2> QED BY <2>1, <2>2, <2>3, PathInStorage
<1> QED BY <1>1, <1>2

(* The steps that write a bucket.                                              *)
LEMMA WriteR ==
  ASSUME SInv, RInv, NEW p \in Oram, WriteInitialBucket(p) \/ EvictBucket(p)
  PROVE  RInv'
<1>0. StoreInv /\ ControlInv /\ pc[p] \in {"create", "evict"}
  BY DEF SInv, WriteInitialBucket, EvictBucket
<1>1. PICK k \in Positions, B \in SUBSET Blocks(Mine(p)) : WriteOk(p, k, B) \/ WriteError(p)
  BY <1>0, WritesBucket
<1>2. /\ born' = born
      /\ \A o \in Oram : /\ pc'[o] # "none" => pc[o] # "none"
                         /\ Underway(o)' => Underway(o)
  <2>1. born' = born /\ \A o \in Oram \ {p} : pc'[o] = pc[o] /\ level'[o] = level[o]
    BY <1>0 DEF WriteInitialBucket, EvictBucket, Throw, ControlInv
  <2>2. Underway(p) /\ pc[p] # "none"
    BY <1>0 DEF Underway
  <2> QED BY <2>1, <2>2 DEF Underway
<1>3. CASE \A o \in Oram : ~Present(o)' /\ OramsOf(map_key[o])' = <<>>
  BY <1>3 DEF RInv
<1>4. CASE /\ crashes' = crashes
           /\ \A o \in Oram :
                 /\ Present(o)' = Present(o)
                 /\ OramsOf(map_key[o]) = <<>> => OramsOf(map_key[o])' = <<>>
  BY <1>2, <1>4, QuietR
<1> QED BY <1>0, <1>1, <1>3, <1>4, WritePresent

LEMMA NextRInv == SInv /\ RInv /\ [Next]_vars => RInv'
<1> SUFFICES ASSUME SInv, RInv, [Next]_vars PROVE RInv'
  OBVIOUS
<1>0. /\ pc \in [Oram -> {"none", "create", "idle", "read", "evict"}]
      /\ level \in [Oram -> Nat]
  BY DEF SInv, ControlInv
<1>1. CASE Crash
  <2>1. \A o \in Oram : ~Present(o)' /\ OramsOf(map_key[o])' = <<>>
    BY <1>1, OramAssumption DEF Crash, Die, Present, OramsOf
  <2> QED BY <2>1 DEF RInv
<1>2. ASSUME UNCHANGED store PROVE \A o \in Oram : /\ Present(o)' = Present(o)
                                                   /\ OramsOf(map_key[o])' = OramsOf(map_key[o])
  BY <1>2 DEF store, Present, OramsOf
<1>3. CASE Restart
  <2>1. UNCHANGED store /\ crashes' = crashes /\ born' = born /\ pc' = pc /\ level' = level
    BY <1>3 DEF Restart, control
  <2> QED BY <1>2, <2>1, QuietR DEF Underway
<1>4. ASSUME NEW p \in Oram, Construct(p) PROVE RInv'
  BY <1>4, ConstructR
<1>5. ASSUME NEW p \in Oram, NEW c \in Call(p), access(p, c) \/ access_direct(p, c) PROVE RInv'
  <2>1. /\ UNCHANGED store /\ crashes' = crashes /\ born' = born /\ pc[p] = "idle"
        /\ pc' = [pc EXCEPT ![p] = "read"] /\ level' = [level EXCEPT ![p] = 0]
    BY <1>5 DEF access, access_direct, Start, process
  <2>2. \A o \in Oram : /\ pc'[o] # "none" => pc[o] # "none"
                        /\ Underway(o)' => Underway(o)
    BY <1>0, <2>1 DEF Underway
  <2> QED BY <1>2, <2>1, <2>2, QuietR
<1>6. ASSUME NEW p \in Oram, ReadBucket(p) PROVE RInv'
  <2>1. UNCHANGED store /\ crashes' = crashes /\ born' = born /\ pc[p] = "read"
    BY <1>6 DEF ReadBucket, process
  <2>2. \A o \in Oram : /\ pc'[o] # "none" => pc[o] # "none"
                        /\ Underway(o)' => Underway(o) \/ Present(o)
    <3>1. CASE up /\ Present(p)
      BY <1>0, <1>6, <2>1, <3>1 DEF ReadBucket, Underway
    <3>2. CASE ~(up /\ Present(p))
      <4>1. pc' = [pc EXCEPT ![p] = "idle"] /\ level' = [level EXCEPT ![p] = 0]
        BY <1>0, <1>6, <2>1, <3>2 DEF ReadBucket, Throw
      <4> QED BY <1>0, <2>1, <4>1 DEF Underway
    <3> QED BY <3>1, <3>2
  <2> QED BY <1>2, <2>1, <2>2, QuietR
<1>7. ASSUME NEW p \in Oram, Serve(p) PROVE RInv'
  <2>1. /\ UNCHANGED store /\ crashes' = crashes /\ born' = born
        /\ pc[p] = "read" /\ level[p] = num_levels
        /\ pc' = [pc EXCEPT ![p] = "evict"] /\ level' = [level EXCEPT ![p] = num_levels - 1]
    BY <1>7 DEF Serve, process
  <2>2. \A o \in Oram : /\ pc'[o] # "none" => pc[o] # "none"
                        /\ Underway(o)' => Underway(o)
    BY <1>0, <2>1, SizeAssumption DEF Underway
  <2> QED BY <1>2, <2>1, <2>2, QuietR
<1>8. CASE UNCHANGED vars
  <2>1. UNCHANGED store /\ crashes' = crashes /\ born' = born /\ pc' = pc /\ level' = level
    BY <1>8 DEF vars, process, control
  <2> QED BY <1>2, <2>1, QuietR DEF Underway
<1> QED BY <1>1, <1>3, <1>4, <1>5, <1>6, <1>7, <1>8, WriteR DEF Next, Step

\* The step RestartNoticed is about.
Noticed ==
    \A o \in Oram :
       Exclusive(o) /\ pc[o] \in {"create", "evict"} /\ pc'[o] = "idle" /\ up' =>
          born[o] = crashes

LEMMA NextNoticed == SInv /\ RInv /\ [Next]_vars => [Noticed]_vars
<1> SUFFICES ASSUME SInv, RInv, Next,
                    NEW o \in Oram, Exclusive(o), pc[o] \in {"create", "evict"},
                    pc'[o] = "idle", up'
             PROVE  born[o] = crashes
  BY DEF Noticed
<1>0. /\ pc \in [Oram -> {"none", "create", "idle", "read", "evict"}]
      /\ is_odict[o] \in BOOLEAN
  BY OramAssumption DEF SInv, ControlInv
<1>1. WriteInitialBucket(o) \/ EvictBucket(o)
  <2>1. ~Crash /\ ~Restart
    BY <1>0 DEF Crash, Restart
  <2>2. PICK p \in Oram : \/ Construct(p) \/ Step(p)
                          \/ \E c \in Call(p) : access(p, c) \/ access_direct(p, c)
    BY <2>1 DEF Next
  <2>3. \A x \in Oram : x # p => pc'[x] = pc[x]
    BY <1>0, <2>2 DEF Construct, Step, access, access_direct, Start, WriteInitialBucket,
                      ReadBucket, Serve, EvictBucket, Throw
  <2>4. p = o
    BY <2>3
  <2> QED BY <2>2, <2>4 DEF Construct, Step, access, access_direct, Start, ReadBucket, Serve
<1>2. PICK k, B : WriteOk(o, k, B)
  <2>1. ~WriteError(o)
    BY DEF WriteError, StrayWrite, process
  <2> QED BY <1>1, <2>1 DEF WriteInitialBucket, EvictBucket
<1>3. CASE Present(o)
  BY <1>3 DEF RInv
<1>4. CASE ~Present(o)
  <2>1. StrayWrite(o)
    BY <1>2, <1>4 DEF WriteOk
  <2>2. ~is_odict[o] /\ OramsOf(map_key[o]) # <<>>
    BY <2>1 DEF StrayWrite, Die
  <2> QED BY <1>4, <2>2 DEF RInv, Underway
<1> QED BY <1>3, <1>4

(* A constructor or an operation whose ORAM was lost in a restart does not  *)
(* come to a normal end, as long as its ORAM id is its own                  *)
(* (SealService.cpp read_bucket, ServerStorage.cpp).                        *)
THEOREM RestartIsNoticed == Spec => RestartNoticed
<1>1. Init => RInv
  BY DEF Init, RInv, Underway
<1>2. Spec => []RInv
  BY <1>1, ServerInvariant, NextRInv, PTL DEF Spec
<1>3. Spec => [][Noticed]_vars
  BY <1>2, ServerInvariant, NextNoticed, PTL DEF Spec
<1> QED BY <1>3 DEF Noticed, RestartNoticed
-----------------------------------------------------------------------------
(***************************************************************************)
(* What the tree and the stash of one controller hold, in terms of its     *)
(* buckets B, stash S, position map m, place p, leaf x, level n, address   *)
(* called a, and of what was last written, t.                              *)
(***************************************************************************)

\* The buckets that the write back is still to replace.
ToReplace(p, x, n) == IF p = "evict" THEN {P(x, l) : l \in 0 .. n} ELSE {}

LiveBlocks(B, S, p, x, n) == S \cup UNION {B[k] : k \in Positions \ ToReplace(p, x, n)}

\* The blocks are what was last written, and all of it.
Truthful(L, t) ==
    /\ \A b \in L : b.data = t[b.index]
    /\ \A c \in Address : t[c] # NoData => \E b \in L : b.index = c

\* A block is on the path of its leaf, or on the one being read for it.
OnPaths(B, m, p, x, n, a) ==
    \A k \in Positions \ ToReplace(p, x, n) : \A b \in B[k] :
       k \in Path(IF p = "read" /\ b.index = a THEN x ELSE m[b.index])

Finite(B, S) == IsFiniteSet(S) /\ \A k \in Positions : IsFiniteSet(B[k])

Sound(B, S, m, p, x, n, a, t) ==
    /\ Finite(B, S)
    /\ p = "read" => \A l \in 0 .. n - 1 : B[P(x, l)] \subseteq S
    /\ OnPaths(B, m, p, x, n, a)
    /\ Truthful(LiveBlocks(B, S, p, x, n), t)

\* A READ of the address finds in the stash what was last written.
Answerable(S, a, t) ==
    /\ \A b \in S : b.index = a => b.data = t[a]
    /\ (\A b \in S : b.index # a) => t[a] = NoData

(* An operation starts: the blocks of its address are on the path it reads.  *)
LEMMA SoundStart ==
  ASSUME NEW B \in Buckets, NEW S \in SUBSET Block, NEW m, NEW w, NEW t,
         NEW y, NEW n, NEW c, NEW a \in Address,
         Sound(B, S, m, "idle", y, n, c, t),
         \A b \in Address \ {a} : w[b] = m[b]
  PROVE  Sound(B, S, w, "read", m[a], 0, a, t)
<1>1. OnPaths(B, w, "read", m[a], 0, a)
  <2>1. SUFFICES ASSUME NEW k \in Positions, NEW b \in B[k]
                 PROVE  k \in Path(IF b.index = a THEN m[a] ELSE w[b.index])
    BY DEF OnPaths
  <2>2. k \in Path(m[b.index])
    BY DEF Sound, OnPaths, ToReplace
  <2>3. b.index \in Address
    BY DEF Buckets, Block, Blocks
  <2> QED BY <2>2, <2>3
<1>2. LiveBlocks(B, S, "read", m[a], 0) = LiveBlocks(B, S, "idle", y, n)
  BY DEF LiveBlocks, ToReplace
<1> QED BY <1>1, <1>2 DEF Sound

(* One bucket of the path is read.                                           *)
LEMMA SoundRead ==
  ASSUME NEW B \in Buckets, NEW S \in SUBSET Block, NEW m, NEW t,
         NEW x \in Leaves, NEW n \in Levels, NEW a \in Address,
         Sound(B, S, m, "read", x, n, a, t)
  PROVE  Sound(B, S \cup B[P(x, n)], m, "read", x, n + 1, a, t)
<1> DEFINE k == P(x, n)
<1>0. k \in Positions
  BY PathInStorage
<1>1. Finite(B, S \cup B[k])
  BY <1>0, FS_Union DEF Sound, Finite
<1>2. \A l \in 0 .. (n + 1) - 1 : B[P(x, l)] \subseteq S \cup B[k]
  BY SizeAssumption DEF Sound, Levels
<1>3. OnPaths(B, m, "read", x, n + 1, a)
  BY DEF Sound, OnPaths, ToReplace
<1>4. LiveBlocks(B, S \cup B[k], "read", x, n + 1) = LiveBlocks(B, S, "read", x, n)
  BY <1>0 DEF LiveBlocks, ToReplace
<1> QED BY <1>1, <1>2, <1>3, <1>4 DEF Sound

\* The path is in the stash, and the address called is nowhere else.
PathRead(B, S, x, a, t) ==
    /\ ToReplace("evict", x, num_levels - 1) = Path(x)
    /\ \A k \in Positions \ Path(x) : \A b \in B[k] : b.index # a
    /\ \A k \in Path(x) : B[k] \subseteq S
    /\ LiveBlocks(B, S, "read", x, num_levels)
          = S \cup UNION {B[k] : k \in Positions \ Path(x)}
    /\ Answerable(S, a, t)

(* So it is after the last bucket of the path.                               *)
LEMMA SoundPath ==
  ASSUME NEW B \in Buckets, NEW S \in SUBSET Block, NEW m, NEW t,
         NEW x \in Leaves, NEW a \in Address,
         Sound(B, S, m, "read", x, num_levels, a, t)
  PROVE  PathRead(B, S, x, a, t)
<1>1. ToReplace("evict", x, num_levels - 1) = Path(x)
  BY DEF ToReplace, Path, Levels
<1>2. \A k \in Positions \ Path(x) : \A b \in B[k] : b.index # a
  BY DEF Sound, OnPaths, ToReplace
<1>3. \A k \in Path(x) : B[k] \subseteq S
  BY DEF Sound, Path, Levels
<1>4. LiveBlocks(B, S, "read", x, num_levels) = S \cup UNION {B[k] : k \in Positions \ Path(x)}
  BY <1>3 DEF LiveBlocks, ToReplace
<1>5. Answerable(S, a, t)
  BY <1>2, <1>4 DEF Answerable, Sound, Truthful
<1> QED BY <1>1, <1>2, <1>3, <1>4, <1>5 DEF PathRead

(* A READ is served.                                                         *)
LEMMA SoundServeRead ==
  ASSUME NEW B \in Buckets, NEW S \in SUBSET Block, NEW m, NEW t,
         NEW x \in Leaves, NEW a \in Address,
         Sound(B, S, m, "read", x, num_levels, a, t)
  PROVE  Sound(B, S, m, "evict", x, num_levels - 1, a, t)
<1>0. PathRead(B, S, x, a, t)
  BY SoundPath
<1>1. OnPaths(B, m, "evict", x, num_levels - 1, a)
  BY <1>0 DEF PathRead, Sound, OnPaths, ToReplace
<1>2. LiveBlocks(B, S, "evict", x, num_levels - 1) = LiveBlocks(B, S, "read", x, num_levels)
  <2>1. LiveBlocks(B, S, "evict", x, num_levels - 1)
           = S \cup UNION {B[k] : k \in Positions \ ToReplace("evict", x, num_levels - 1)}
    BY DEF LiveBlocks
  <2> QED BY <1>0, <2>1 DEF PathRead
<1> QED BY <1>1, <1>2 DEF Sound

(* A WRITE is served.                                                        *)
LEMMA SoundServeWrite ==
  ASSUME NEW B \in Buckets, NEW S \in SUBSET Block, NEW m,
         NEW t \in [Address -> Data \cup {NoData}],
         NEW x \in Leaves, NEW a \in Address, NEW d \in Data,
         Sound(B, S, m, "read", x, num_levels, a, t)
  PROVE  Sound(B, (S \ {b \in S : b.index = a}) \cup {[index |-> a, data |-> d]}, m,
               "evict", x, num_levels - 1, a, [t EXCEPT ![a] = d])
<1> DEFINE new == [index |-> a, data |-> d]
           T == (S \ {b \in S : b.index = a}) \cup {new}
           u == [t EXCEPT ![a] = d]
           off == UNION {B[k] : k \in Positions \ Path(x)}
           L == S \cup off
           M == LiveBlocks(B, T, "evict", x, num_levels - 1)
<1>0. PathRead(B, S, x, a, t)
  BY SoundPath
<1>1. /\ ToReplace("evict", x, num_levels - 1) = Path(x)
      /\ \A k \in Positions \ Path(x) : \A b \in B[k] : b.index # a
      /\ LiveBlocks(B, S, "read", x, num_levels) = L
  BY <1>0 DEF PathRead
<1>2. OnPaths(B, m, "evict", x, num_levels - 1, a)
  BY <1>1 DEF Sound, OnPaths, ToReplace
<1>3. M = T \cup off
  <2> HIDE DEF T
  <2>1. M = T \cup UNION {B[k] : k \in Positions \ ToReplace("evict", x, num_levels - 1)}
    BY DEF LiveBlocks
  <2> QED BY <1>1, <2>1
<1>4. \A b \in off : b.index # a
  BY <1>1
<1>5. L \subseteq Block
  BY DEF Buckets
<1>6. Truthful(M, u)
  <2>0. Truthful(L, t)
    BY <1>1 DEF Sound
  <2>1. new.index = a /\ new.data = d /\ u[a] = d /\ \A c \in Address \ {a} : u[c] = t[c]
    OBVIOUS
  <2>2. M = {b \in L : b.index # a} \cup {new}
    BY <1>3, <1>4
  <2> HIDE DEF M, L, new, u
  <2>3. ASSUME NEW b \in M PROVE b.data = u[b.index]
    <3>1. CASE b = new
      BY <2>1, <3>1
    <3>2. CASE b \in L /\ b.index # a
      <4>1. b.index \in Address
        BY <1>5, <3>2 DEF Block, Blocks
      <4> QED BY <2>0, <2>1, <3>2, <4>1 DEF Truthful
    <3> QED BY <2>2, <3>1, <3>2
  <2>4. ASSUME NEW c \in Address, u[c] # NoData PROVE \E b \in M : b.index = c
    <3>1. CASE c = a
      BY <2>1, <2>2, <3>1
    <3>2. CASE c # a
      BY <2>0, <2>1, <2>2, <2>4, <3>2 DEF Truthful
    <3> QED BY <3>1, <3>2
  <2> QED BY <2>3, <2>4 DEF Truthful
<1>7. Finite(B, T)
  <2>1. IsFiniteSet(S \ {b \in S : b.index = a})
    BY FS_Subset DEF Sound, Finite
  <2>2. IsFiniteSet(T)
    BY <2>1, FS_AddElement
  <2> QED BY <2>2 DEF Sound, Finite
<1> QED BY <1>2, <1>6, <1>7 DEF Sound

(* A bucket is written with blocks of the stash that may be there.           *)
LEMMA SoundEvict ==
  ASSUME NEW B \in Buckets, NEW S \in SUBSET Block, NEW m, NEW t,
         NEW x \in Leaves, NEW n \in Levels, NEW a \in Address,
         Sound(B, S, m, "evict", x, n, a, t),
         NEW E \in SUBSET {b \in S : P(m[b.index], n) = P(x, n)}
  PROVE  Sound([B EXCEPT ![P(x, n)] = E], S \ E, m,
               IF n = 0 THEN "idle" ELSE "evict", x, IF n = 0 THEN 0 ELSE n - 1, a, t)
<1> DEFINE k == P(x, n)
           C == [B EXCEPT ![k] = E]
           p == IF n = 0 THEN "idle" ELSE "evict"
           l == IF n = 0 THEN 0 ELSE n - 1
<1>0. k \in Positions /\ n \in Nat
  BY PathInStorage DEF Levels
<1>1. C[k] = E /\ \A j \in Positions \ {k} : C[j] = B[j]
  BY <1>0 DEF Buckets
<1>2. /\ ToReplace("evict", x, n) = ToReplace(p, x, l) \cup {k}
      /\ k \notin ToReplace(p, x, l)
  <2>1. CASE n = 0
    <3>1. 0 .. n = {0}
      BY <2>1
    <3> QED BY <2>1, <3>1 DEF ToReplace
  <2>2. CASE n # 0
    <3>1. 0 .. n = (0 .. n - 1) \cup {n} /\ \A i \in 0 .. n - 1 : i \in Levels /\ i # n
      BY <1>0, SizeAssumption DEF Levels
    <3>2. \A i \in 0 .. n - 1 : P(x, i) # k
      BY <3>1, LevelsDisjoint
    <3> QED BY <2>2, <3>1, <3>2 DEF ToReplace
  <2> QED BY <2>1, <2>2
<1>3. Positions \ ToReplace(p, x, l) = (Positions \ ToReplace("evict", x, n)) \cup {k}
      /\ k \notin Positions \ ToReplace("evict", x, n)
  BY <1>0, <1>2
<1>4. Finite(C, S \ E)
  <2>1. IsFiniteSet(S) /\ IsFiniteSet(S \ E) /\ IsFiniteSet(E)
    BY FS_Subset DEF Sound, Finite
  <2> HIDE DEF C
  <2> QED BY <1>1, <2>1 DEF Sound, Finite
<1>5. p # "read"
  OBVIOUS
<1>6. OnPaths(C, m, p, x, l, a)
  <2> HIDE DEF C, p, l
  <2>1. SUFFICES ASSUME NEW j \in Positions \ ToReplace(p, x, l), NEW b \in C[j]
                 PROVE  j \in Path(m[b.index])
    BY <1>5 DEF OnPaths
  <2>2. CASE j = k
    BY <1>1, <2>2 DEF Path
  <2>3. CASE j # k
    <3>1. j \in Positions \ ToReplace("evict", x, n) /\ b \in B[j]
      BY <1>1, <1>3, <2>3
    <3> QED BY <3>1 DEF Sound, OnPaths
  <2> QED BY <2>2, <2>3
<1>7. LiveBlocks(C, S \ E, p, x, l) = LiveBlocks(B, S, "evict", x, n)
  <2> DEFINE K == Positions \ ToReplace("evict", x, n)
  <2>1. UNION {C[j] : j \in K \cup {k}} = E \cup UNION {B[j] : j \in K}
    <3> HIDE DEF C
    <3> QED BY <1>1, <1>3
  <2> HIDE DEF C, p, l
  <2>2. LiveBlocks(C, S \ E, p, x, l) = (S \ E) \cup E \cup UNION {B[j] : j \in K}
    BY <1>3, <2>1 DEF LiveBlocks
  <2>3. (S \ E) \cup E = S
    OBVIOUS
  <2> QED BY <2>2, <2>3 DEF LiveBlocks
<1> HIDE DEF C, p, l
<1>8. Sound(C, S \ E, m, p, x, l, a, t)
  BY <1>4, <1>5, <1>6, <1>7 DEF Sound
<1> QED BY <1>8 DEF C, p, l
-----------------------------------------------------------------------------
(* set_capacity empties the ORAM of its controller, and no other.            *)
LEMMA CapacityBuckets ==
  ASSUME StoreInv, NEW p \in Oram, set_capacity(p)
  PROVE  /\ ~Refused(p) => BucketsOf(p)' = Empty
         /\ \A o \in Oram : ~Shared(o, p) /\ Present(o) => BucketsOf(o)' = BucketsOf(o)
<1> DEFINE key == map_key[p]
<1>0. \A o \in Oram : oram_id[o] \in Nat /\ is_odict[o] \in BOOLEAN
  BY OramAssumption
<1>1. CASE is_odict[p]
  <2>1. odict_storage' = SetKey(odict_storage, key, Empty) /\ oram_storage' = oram_storage
    BY <1>1 DEF set_capacity
  <2>2. BucketsOf(p)' = Empty
    BY <1>1, <2>1 DEF BucketsOf, SetKey
  <2>3. ASSUME NEW o \in Oram, ~Shared(o, p), Present(o) PROVE BucketsOf(o)' = BucketsOf(o)
    <3>1. CASE is_odict[o]
      BY <1>0, <1>1, <2>1, <2>3, <3>1 DEF BucketsOf, SetKey, Shared, Present
    <3>2. CASE ~is_odict[o]
      BY <2>1, <3>2 DEF BucketsOf
    <3> QED BY <3>1, <3>2
  <2> QED BY <2>2, <2>3
<1>2. CASE ~is_odict[p]
  <2> DEFINE v == OramsOf(key)
             w == IF oram_id[p] = Len(v) THEN Append(v, Empty)
                  ELSE IF oram_id[p] < Len(v) THEN [v EXCEPT ![oram_id[p] + 1] = Empty]
                  ELSE v
  <2>1. odict_storage' = odict_storage /\ oram_storage' = SetKey(oram_storage, key, w)
    BY <1>2 DEF set_capacity
  <2>2. v \in Seq(Buckets) /\ Empty \in Buckets
    <3>1. Empty \in Buckets
      BY DEF Empty, Buckets
    <3>2. CASE key \in DOMAIN oram_storage
      BY <3>1, <3>2 DEF OramsOf, StoreInv
    <3>3. CASE key \notin DOMAIN oram_storage
      <4>1. v = <<>>
        BY <3>3 DEF OramsOf
      <4> HIDE DEF v
      <4> QED BY <3>1, <4>1
    <3> QED BY <3>2, <3>3
  <2>3. oram_storage'[key] = w /\ \A j \in DOMAIN oram_storage : j # key => oram_storage'[j] = oram_storage[j]
    <3> HIDE DEF w
    <3> QED BY <2>1 DEF SetKey
  <2>4. ~Refused(p) => w[oram_id[p] + 1] = Empty
    <3> SUFFICES ASSUME ~Refused(p) PROVE w[oram_id[p] + 1] = Empty
      OBVIOUS
    <3>1. oram_id[p] <= Len(v)
      <4>1. Len(v) \in Nat /\ ~(oram_id[p] > Len(v))
        BY <1>2, <2>2 DEF Refused
      <4> HIDE DEF v
      <4> QED BY <1>0, <4>1
    <3> HIDE DEF v
    <3>2. CASE oram_id[p] = Len(v)
      BY <2>2, <3>2, AppendProperties
    <3>3. CASE oram_id[p] < Len(v)
      <4>1. oram_id[p] + 1 \in 1 .. Len(v)
        BY <1>0, <2>2, <3>3
      <4> QED BY <1>0, <2>2, <3>3, <4>1
    <3> QED BY <1>0, <2>2, <3>1, <3>2, <3>3
  <2>5. ASSUME NEW n \in 1 .. Len(v), n # oram_id[p] + 1 PROVE w[n] = v[n]
    <3> HIDE DEF v
    <3>1. CASE oram_id[p] = Len(v)
      BY <2>2, <2>5, <3>1, AppendProperties
    <3>2. CASE oram_id[p] # Len(v)
      BY <1>0, <2>2, <2>5, <3>2
    <3> QED BY <3>1, <3>2
  <2>6. ~Refused(p) => BucketsOf(p)' = Empty
    <3> HIDE DEF w
    <3> QED BY <1>2, <2>3, <2>4 DEF BucketsOf
  <2>7. ASSUME NEW o \in Oram, ~Shared(o, p), Present(o) PROVE BucketsOf(o)' = BucketsOf(o)
    <3>1. CASE is_odict[o]
      BY <2>1, <3>1 DEF BucketsOf
    <3>2. CASE ~is_odict[o] /\ map_key[o] # key
      <4>1. map_key[o] \in DOMAIN oram_storage
        BY <1>0, <2>7, <3>2 DEF Present, OramsOf
      <4> QED BY <2>3, <3>2, <4>1 DEF BucketsOf
    <3>3. CASE ~is_odict[o] /\ map_key[o] = key
      <4>1. oram_id[o] # oram_id[p] /\ oram_id[o] < Len(v) /\ key \in DOMAIN oram_storage
        BY <1>0, <1>2, <2>7, <3>3 DEF Shared, Present, OramsOf
      <4>2. v = oram_storage[key]
        BY <4>1 DEF OramsOf
      <4>3. oram_id[o] + 1 \in 1 .. Len(v) /\ oram_id[o] + 1 # oram_id[p] + 1
        <5> HIDE DEF v
        <5> QED BY <1>0, <2>2, <4>1
      <4> HIDE DEF w, v
      <4> QED BY <2>3, <2>5, <3>3, <4>2, <4>3 DEF BucketsOf
    <3> QED BY <3>1, <3>2, <3>3
  <2> QED BY <2>6, <2>7
<1> QED BY <1>1, <1>2

(* A bucket that is written is written in the ORAM of its controller.        *)
LEMMA ReplaceBuckets ==
  ASSUME StoreInv, NEW p \in Oram, Present(p), NEW k \in Positions, NEW B, Replace(p, k, B)
  PROVE  /\ BucketsOf(p)' = [BucketsOf(p) EXCEPT ![k] = B]
         /\ \A o \in Oram : ~Shared(o, p) /\ Present(o) => BucketsOf(o)' = BucketsOf(o)
<1> DEFINE key == map_key[p]
<1>0. \A o \in Oram : oram_id[o] \in Nat /\ is_odict[o] \in BOOLEAN
  BY OramAssumption
<1>1. CASE is_odict[p]
  <2>1. oram_storage' = oram_storage /\ odict_storage' = [odict_storage EXCEPT ![key][k] = B]
    BY <1>1 DEF Replace
  <2>2. key \in DOMAIN odict_storage
    BY <1>1 DEF Present
  <2>3. odict_storage'[key] = [odict_storage[key] EXCEPT ![k] = B]
        /\ \A j \in DOMAIN odict_storage : j # key => odict_storage'[j] = odict_storage[j]
    BY <2>1, <2>2
  <2>4. ASSUME NEW o \in Oram, ~Shared(o, p), Present(o) PROVE BucketsOf(o)' = BucketsOf(o)
    <3>1. CASE is_odict[o]
      BY <1>0, <1>1, <2>3, <2>4, <3>1 DEF BucketsOf, Shared, Present
    <3>2. CASE ~is_odict[o]
      BY <2>1, <3>2 DEF BucketsOf
    <3> QED BY <3>1, <3>2
  <2> QED BY <1>1, <2>3, <2>4 DEF BucketsOf
<1>2. CASE ~is_odict[p]
  <2> DEFINE v == oram_storage[key]
             m == oram_id[p] + 1
             w == [v EXCEPT ![m] = [v[m] EXCEPT ![k] = B]]
  <2>1. odict_storage' = odict_storage /\ oram_storage' = [oram_storage EXCEPT ![key] = w]
    BY <1>2 DEF Replace
  <2>2. key \in DOMAIN oram_storage /\ v \in Seq(Buckets) /\ m \in 1 .. Len(v)
    <3>1. key \in DOMAIN oram_storage
      BY <1>2, <1>0 DEF Present, OramsOf
    <3>2. v \in Seq(Buckets) /\ oram_id[p] < Len(v)
      BY <1>2, <3>1 DEF Present, OramsOf, StoreInv
    <3> HIDE DEF v
    <3> QED BY <1>0, <3>1, <3>2
  <2>3. w[m] = [v[m] EXCEPT ![k] = B] /\ \A n \in 1 .. Len(v) : n # m => w[n] = v[n]
    <3> HIDE DEF v, m
    <3> QED BY <2>2
  <2>4. oram_storage'[key] = w /\ \A j \in DOMAIN oram_storage : j # key => oram_storage'[j] = oram_storage[j]
    <3> HIDE DEF w
    <3> QED BY <2>1, <2>2
  <2>5. BucketsOf(p)' = [BucketsOf(p) EXCEPT ![k] = B]
    <3> HIDE DEF w
    <3> QED BY <1>2, <2>3, <2>4 DEF BucketsOf
  <2>6. ASSUME NEW o \in Oram, ~Shared(o, p), Present(o) PROVE BucketsOf(o)' = BucketsOf(o)
    <3>1. CASE is_odict[o]
      BY <2>1, <3>1 DEF BucketsOf
    <3>2. CASE ~is_odict[o] /\ map_key[o] # key
      <4>1. map_key[o] \in DOMAIN oram_storage
        BY <1>0, <2>6, <3>2 DEF Present, OramsOf
      <4> QED BY <2>4, <3>2, <4>1 DEF BucketsOf
    <3>3. CASE ~is_odict[o] /\ map_key[o] = key
      <4>1. oram_id[o] # oram_id[p] /\ oram_id[o] < Len(v)
        BY <1>0, <1>2, <2>2, <2>6, <3>3 DEF Shared, Present, OramsOf
      <4>2. oram_id[o] + 1 \in 1 .. Len(v) /\ oram_id[o] + 1 # m
        <5> HIDE DEF v
        <5> QED BY <1>0, <2>2, <4>1
      <4> HIDE DEF w, m
      <4> QED BY <2>3, <2>4, <3>3, <4>2 DEF BucketsOf
    <3> QED BY <3>1, <3>2, <3>3
  <2> QED BY <2>5, <2>6
<1> QED BY <1>1, <1>2

\* A server that is down has nothing.
DownInv == ~up => odict_storage = <<>> /\ oram_storage = <<>>

(* What a call of write_bucket does to the ORAMs that are left.              *)
LEMMA WriteBuckets ==
  ASSUME StoreInv, DownInv, NEW p \in Oram, NEW k \in Positions,
         NEW B \in SUBSET Blocks(Mine(p)), WriteOk(p, k, B) \/ WriteError(p)
  PROVE  /\ \A o \in Oram : ~Shared(o, p) /\ Present(o)' =>
               Present(o) /\ BucketsOf(o)' = BucketsOf(o)
         /\ Present(p)' => /\ Present(p) /\ WriteOk(p, k, B) /\ ~WriteError(p)
                           /\ BucketsOf(p)' = [BucketsOf(p) EXCEPT ![k] = B]
<1>0. ASSUME odict_storage' = <<>>, oram_storage' = <<>>
      PROVE  \A o \in Oram : ~Present(o)'
  BY <1>0, OramAssumption DEF Present, OramsOf
<1>1. CASE up /\ Present(p) /\ Replace(p, k, B)
  <2>1. ~WriteError(p) /\ WriteOk(p, k, B)
    BY <1>1 DEF WriteError, WriteOk, StrayWrite
  <2>2. \A o \in Oram : Present(o)' = Present(o)
    BY <1>1, ReplacePresent
  <2> QED BY <1>1, <2>1, <2>2, ReplaceBuckets
<1>2. CASE ~up /\ UNCHANGED <<store, process>>
  <2>1. odict_storage' = <<>> /\ oram_storage' = <<>>
    BY <1>2 DEF DownInv, store
  <2> QED BY <1>0, <2>1
<1>3. CASE Die
  BY <1>0, <1>3 DEF Die
<1>4. CASE ~Present(p) /\ UNCHANGED store
  BY <1>4 DEF store, Present, OramsOf, BucketsOf
<1> QED BY <1>1, <1>2, <1>3, <1>4 DEF WriteOk, WriteError, StrayWrite

(* addBlock takes all that the stash loop chose, when no client has smaller  *)
(* buckets.                                                                  *)
LEMMA AllAdded ==
  ASSUME ProcessInv, NEW o \in Oram, Largest(o), NEW S, IsFiniteSet(S),
         Cardinality(S) <= size[owner[o]], NEW B, Added(o, S, B)
  PROVE  B = S
<1>1. Cardinality(S) \in Nat
  BY FS_CardinalityType
<1>2. owner[o] \in Client /\ \A c \in Client : size[c] \in Nat
  BY OramAssumption
<1>3. statics[owner[o]].max_size \in {-1} \cup {size[c] : c \in Client}
  BY <1>2 DEF ProcessInv, Statics
<1>4. statics[owner[o]].max_size = -1 \/ Cardinality(S) <= statics[owner[o]].max_size
  BY <1>1, <1>2, <1>3 DEF Largest
<1> QED BY <1>4 DEF Added
-----------------------------------------------------------------------------
\* The ORAM of a controller, as long as it is there, and the operation under
\* way.  An operation that has read its path keeps what it read: its answer is
\* right also when the server dies before it is given.
AccessInv(o) ==
    /\ pc[o] \in {"none", "create"} =>
          stash[o] = {} /\ truth[o] = [a \in Address |-> NoData]
    /\ Present(o) /\ pc[o] = "create" => BucketsOf(o) = Empty
    /\ Present(o) /\ pc[o] \in {"idle", "read", "evict"} =>
          Sound(BucketsOf(o), stash[o], position_map[o], pc[o], oldLeaf[o], level[o],
                call[o].index, truth[o])
    /\ pc[o] = "read" => response[o] = NoData
    /\ pc[o] = "read" /\ level[o] = num_levels =>
          Answerable(stash[o], call[o].index, truth[o])
    /\ pc[o] = "evict" /\ call[o].op = "READ" => response[o] = truth[o][call[o].index]

\* What a step leaves that is not one of the controller.
SameView(o) ==
    /\ position_map'[o] = position_map[o] /\ stash'[o] = stash[o] /\ pc'[o] = pc[o]
    /\ level'[o] = level[o] /\ oldLeaf'[o] = oldLeaf[o] /\ call'[o] = call[o]
    /\ response'[o] = response[o] /\ truth'[o] = truth[o]

\* The ORAM of the controller is untouched, or gone.
SameTree(o) == Present(o)' => Present(o) /\ BucketsOf(o)' = BucketsOf(o)

LEMMA AsideAccess ==
  ASSUME NEW o \in Oram, AccessInv(o), SameView(o), SameTree(o)
  PROVE  AccessInv(o)'
BY DEF AccessInv, SameView, SameTree

(* What is known of a controller by its type.                                *)
LEMMA Typed ==
  ASSUME SInv, NEW o \in Oram
  PROVE  /\ position_map[o] \in [Address -> Leaves] /\ stash[o] \in SUBSET Block
         /\ oldLeaf[o] \in Leaves /\ truth[o] \in [Address -> Data \cup {NoData}]
         /\ call[o] \in Call(o) /\ call[o].index \in Address
         /\ pc[o] \in {"none", "create", "idle", "read", "evict"}
         /\ Present(o) => BucketsOf(o) \in Buckets
<1>1. ControlInv
  BY DEF SInv
<1>2. call[o] \in Call(o) /\ call[o].index \in Address
  BY <1>1 DEF ControlInv, Call
<1>3. Present(o) => BucketsOf(o) \in Buckets
  <2>1. Blocks(Mine(o)) \subseteq Block
    BY MineOwned DEF Blocks, Block
  <2> QED BY <2>1, BucketsOwned DEF SInv, Buckets
<1> QED BY <1>1, <1>2, <1>3 DEF ControlInv

(* A fresh ORAM holds nothing, as was written.                               *)
LEMMA SoundFresh ==
  ASSUME NEW m, NEW x, NEW a
  PROVE  Sound(Empty, {}, m, "idle", x, 0, a, [c \in Address |-> NoData])
<1>1. \A k \in Positions : Empty[k] = {}
  BY DEF Empty
<1>2. Finite(Empty, {})
  BY <1>1, FS_EmptySet DEF Finite
<1>3. LiveBlocks(Empty, {}, "idle", x, 0) = {}
  BY <1>1 DEF LiveBlocks
<1> QED BY <1>1, <1>2, <1>3 DEF Sound, OnPaths, Truthful

LEMMA ConstructAccess ==
  ASSUME SInv, NEW o \in Oram, AccessInv(o), Construct(o)
  PROVE  AccessInv(o)'
<1>0. /\ pc \in [Oram -> {"none", "create", "idle", "read", "evict"}]
      /\ pc[o] = "none" /\ UNCHANGED <<position_map, stash, oldLeaf, call, response, truth>>
  BY DEF SInv, ControlInv, Construct
<1>1. CASE up /\ ~Refused(o)
  <2>1. set_capacity(o) /\ pc'[o] = "create"
    BY <1>0, <1>1 DEF Construct
  <2>2. BucketsOf(o)' = Empty
    BY <1>1, <2>1, CapacityBuckets DEF SInv
  <2> QED BY <1>0, <2>1, <2>2 DEF AccessInv
<1>2. CASE ~(up /\ ~Refused(o))
  <2>1. pc'[o] = "none"
    BY <1>0, <1>2 DEF Construct, Throw
  <2> QED BY <1>0, <2>1 DEF AccessInv
<1> QED BY <1>1, <1>2

LEMMA InitialAccess ==
  ASSUME SInv, DownInv, NEW o \in Oram, AccessInv(o), WriteInitialBucket(o)
  PROVE  AccessInv(o)'
<1>0. /\ pc \in [Oram -> {"none", "create", "idle", "read", "evict"}]
      /\ level \in [Oram -> Nat] /\ level[o] \in Positions
      /\ pc[o] = "create" /\ UNCHANGED <<position_map, stash, oldLeaf, call, response, truth>>
  BY DEF SInv, ControlInv, WriteInitialBucket
<1>1. /\ stash'[o] = {} /\ truth'[o] = [a \in Address |-> NoData]
      /\ Present(o) => BucketsOf(o) = Empty
  BY <1>0 DEF AccessInv
<1>2. Present(o)' => /\ Present(o) /\ ~WriteError(o)
                     /\ BucketsOf(o)' = [BucketsOf(o) EXCEPT ![level[o]] = {}]
  <2>1. WriteOk(o, level[o], {}) \/ WriteError(o)
    BY DEF WriteInitialBucket
  <2>2. {} \in SUBSET Blocks(Mine(o))
    OBVIOUS
  <2> QED BY <1>0, <2>1, <2>2, WriteBuckets DEF SInv
<1>3. Present(o)' => BucketsOf(o)' = Empty
  <2>1. [Empty EXCEPT ![level[o]] = {}] = Empty
    BY <1>0 DEF Empty
  <2> QED BY <1>1, <1>2, <2>1
<1>4. \/ pc'[o] \in {"none", "create"}
      \/ pc'[o] = "idle" /\ level'[o] = 0
  BY <1>0 DEF WriteInitialBucket, Throw
<1>5. CASE pc'[o] \in {"none", "create"}
  BY <1>1, <1>3, <1>5 DEF AccessInv
<1>6. CASE pc'[o] = "idle" /\ level'[o] = 0
  <2>1. Sound(Empty, {}, position_map'[o], "idle", oldLeaf'[o], 0, call'[o].index,
              [c \in Address |-> NoData])
    BY SoundFresh
  <2>2. Present(o)' => Sound(BucketsOf(o)', stash'[o], position_map'[o], pc'[o],
                             oldLeaf'[o], level'[o], call'[o].index, truth'[o])
    BY <1>1, <1>3, <1>6, <2>1
  <2> QED BY <1>6, <2>2 DEF AccessInv
<1> QED BY <1>4, <1>5, <1>6

LEMMA StartAccess ==
  ASSUME SInv, NEW o \in Oram, AccessInv(o), NEW c \in Call(o), access(o, c) \/ access_direct(o, c)
  PROVE  AccessInv(o)'
<1>0. ControlInv /\ c.index \in Address
  BY DEF SInv, Call
<1>1. /\ pc[o] = "idle" /\ pc'[o] = "read" /\ level'[o] = 0
      /\ oldLeaf'[o] = position_map[o][c.index] /\ call'[o] = c /\ response'[o] = NoData
      /\ UNCHANGED <<store, stash, truth>>
  BY <1>0 DEF access, access_direct, Start, ControlInv
<1>2. \A b \in Address \ {c.index} : position_map'[o][b] = position_map[o][b]
  <2>1. position_map[o] \in [Address -> Leaves] /\ position_map \in [Oram -> [Address -> Leaves]]
    BY <1>0 DEF ControlInv
  <2>2. CASE access_direct(o, c)
    BY <2>2 DEF access_direct
  <2>3. CASE access(o, c)
    <3>1. PICK y \in Leaves : position_map' = [position_map EXCEPT ![o][c.index] = y]
      BY <2>3 DEF access
    <3>2. position_map'[o] = [position_map[o] EXCEPT ![c.index] = y]
      BY <2>1, <3>1
    <3> QED BY <2>1, <3>2
  <2> QED BY <2>2, <2>3
<1>3. Present(o)' = Present(o) /\ BucketsOf(o)' = BucketsOf(o)
  BY <1>1 DEF store, Present, OramsOf, BucketsOf
<1>4. Present(o) => Sound(BucketsOf(o), stash[o], position_map'[o], "read",
                          position_map[o][c.index], 0, c.index, truth[o])
  <2> SUFFICES ASSUME Present(o)
               PROVE  Sound(BucketsOf(o), stash[o], position_map'[o], "read",
                          position_map[o][c.index], 0, c.index, truth[o])
    OBVIOUS
  <2>1. Sound(BucketsOf(o), stash[o], position_map[o], "idle", oldLeaf[o], level[o],
              call[o].index, truth[o])
    BY <1>1 DEF AccessInv
  <2> QED BY <1>0, <1>2, <2>1, Typed, SoundStart
<1>5. level'[o] # num_levels
  BY <1>1, SizeAssumption
<1> QED BY <1>1, <1>3, <1>4, <1>5 DEF AccessInv

LEMMA ReadAccess ==
  ASSUME SInv, DownInv, NEW o \in Oram, AccessInv(o), ReadBucket(o)
  PROVE  AccessInv(o)'
<1>0. ControlInv
  BY DEF SInv
<1>1. /\ pc[o] = "read" /\ level[o] \in Levels
      /\ UNCHANGED <<store, position_map, oldLeaf, call, response, truth>>
  BY <1>0, SizeAssumption DEF ReadBucket, ControlInv, Levels
<1>2. Present(o)' = Present(o) /\ BucketsOf(o)' = BucketsOf(o)
  BY <1>1 DEF store, Present, OramsOf, BucketsOf
<1>3. CASE up /\ Present(o)
  <2>1. /\ stash'[o] = stash[o] \cup BucketsOf(o)[P(oldLeaf[o], level[o])]
        /\ level'[o] = level[o] + 1 /\ pc'[o] = "read"
    BY <1>0, <1>1, <1>3 DEF ReadBucket, ControlInv
  <2>2. Sound(BucketsOf(o), stash[o], position_map[o], "read", oldLeaf[o], level[o],
              call[o].index, truth[o])
    BY <1>1, <1>3 DEF AccessInv
  <2>3. Sound(BucketsOf(o), stash'[o], position_map[o], "read", oldLeaf[o], level'[o],
              call[o].index, truth[o])
    BY <1>1, <1>3, <2>1, <2>2, Typed, SoundRead
  <2>4. stash'[o] \in SUBSET Block
    <3>1. SInv'
      BY ReadInv
    <3> QED BY <3>1 DEF SInv, ControlInv
  <2>5. level'[o] = num_levels => Answerable(stash'[o], call[o].index, truth[o])
    <3>1. SUFFICES ASSUME level'[o] = num_levels
                   PROVE  PathRead(BucketsOf(o), stash'[o], oldLeaf[o], call[o].index, truth[o])
      BY DEF PathRead
    <3> QED BY <1>3, <2>3, <2>4, <3>1, Typed, SoundPath
  <2>6. response'[o] = NoData
    BY <1>1 DEF AccessInv
  <2> QED BY <1>1, <1>2, <2>1, <2>3, <2>5, <2>6 DEF AccessInv
<1>4. CASE ~(up /\ Present(o))
  <2>1. ~Present(o)
    BY <1>4, OramAssumption DEF DownInv, Present, OramsOf
  <2>2. pc'[o] = "idle"
    BY <1>0, <1>1, <1>4 DEF ReadBucket, Throw, ControlInv
  <2> QED BY <1>2, <2>1, <2>2 DEF AccessInv
<1> QED BY <1>3, <1>4

LEMMA ServeAccess ==
  ASSUME SInv, NEW o \in Oram, AccessInv(o), Serve(o)
  PROVE  AccessInv(o)'
<1>0. ControlInv
  BY DEF SInv
<1>1. /\ pc[o] = "read" /\ level[o] = num_levels
      /\ pc'[o] = "evict" /\ level'[o] = num_levels - 1
      /\ UNCHANGED <<store, position_map, oldLeaf, call>>
  BY <1>0 DEF Serve, ControlInv
<1>2. Present(o)' = Present(o) /\ BucketsOf(o)' = BucketsOf(o)
  BY <1>1 DEF store, Present, OramsOf, BucketsOf
<1>3. /\ Answerable(stash[o], call[o].index, truth[o]) /\ response[o] = NoData
      /\ Present(o) => Sound(BucketsOf(o), stash[o], position_map[o], "read", oldLeaf[o],
                             num_levels, call[o].index, truth[o])
  BY <1>1 DEF AccessInv
<1>4. CASE ServeRead(o)
  <2>1. stash' = stash /\ truth' = truth /\ call[o].op = "READ"
    BY <1>4 DEF ServeRead, Serve
  <2>2. response'[o] = truth[o][call[o].index]
    <3>1. CASE BlocksOf(o, call[o].index) = {} /\ response' = response
      BY <1>3, <3>1 DEF BlocksOf, Answerable
    <3>2. ASSUME NEW b \in BlocksOf(o, call[o].index), response' = [response EXCEPT ![o] = b.data]
          PROVE  response'[o] = truth[o][call[o].index]
      <4>1. response'[o] = b.data
        BY <1>0, <3>2 DEF ControlInv
      <4> QED BY <1>3, <4>1 DEF BlocksOf, Answerable
    <3> QED BY <1>4, <3>1, <3>2 DEF ServeRead
  <2>3. Present(o) => Sound(BucketsOf(o), stash[o], position_map[o], "evict", oldLeaf[o],
                            num_levels - 1, call[o].index, truth[o])
    BY <1>3, Typed, SoundServeRead
  <2> QED BY <1>1, <1>2, <2>1, <2>2, <2>3 DEF AccessInv
<1>5. CASE ServeWrite(o)
  <2> DEFINE a == call[o].index
             d == call[o].data
  <2>1. call[o].op = "WRITE" /\ d \in Data
    <3>1. call[o] \in Call(o) /\ call[o].op = "WRITE"
      BY <1>0, <1>5 DEF ServeWrite, ControlInv
    <3> QED BY <3>1, OramAssumption DEF Call
  <2>2. stash'[o] = (stash[o] \ {b \in stash[o] : b.index = a}) \cup {[index |-> a, data |-> d]}
    BY <1>0, <1>5 DEF ServeWrite, BlocksOf, ControlInv
  <2>3. truth'[o] = [truth[o] EXCEPT ![a] = d]
    BY <1>0, <2>1 DEF Serve, ControlInv
  <2> HIDE DEF d
  <2>4. Present(o) => Sound(BucketsOf(o), stash'[o], position_map[o], "evict", oldLeaf[o],
                            num_levels - 1, a, truth'[o])
    BY <1>3, <2>1, <2>2, <2>3, Typed, SoundServeWrite
  <2> QED BY <1>1, <1>2, <2>1, <2>4 DEF AccessInv
<1> QED BY <1>4, <1>5 DEF Serve

LEMMA EvictAccess ==
  ASSUME SInv, DownInv, NEW o \in Oram, Largest(o), AccessInv(o), EvictBucket(o)
  PROVE  AccessInv(o)'
<1>0. ControlInv
  BY DEF SInv
<1>1. /\ pc[o] = "evict" /\ level[o] \in Levels
      /\ UNCHANGED <<position_map, oldLeaf, call, response, truth>>
  BY <1>0 DEF EvictBucket, ControlInv
<1>2. PICK S \in SUBSET Evictable(o, level[o]) : \E B \in SUBSET S :
         /\ Fills(o, S, level[o]) /\ Added(o, S, B)
         /\ stash' = [stash EXCEPT ![o] = @ \ S]
         /\ \/ /\ WriteOk(o, P(oldLeaf[o], level[o]), B)
               /\ IF level[o] = 0
                  THEN pc' = [pc EXCEPT ![o] = "idle"] /\ UNCHANGED level
                  ELSE level' = [level EXCEPT ![o] = @ - 1] /\ UNCHANGED pc
            \/ WriteError(o) /\ Throw(o)
  BY DEF EvictBucket
<1>3. PICK B \in SUBSET S :
         /\ Fills(o, S, level[o]) /\ Added(o, S, B)
         /\ stash' = [stash EXCEPT ![o] = @ \ S]
         /\ \/ /\ WriteOk(o, P(oldLeaf[o], level[o]), B)
               /\ IF level[o] = 0
                  THEN pc' = [pc EXCEPT ![o] = "idle"] /\ UNCHANGED level
                  ELSE level' = [level EXCEPT ![o] = @ - 1] /\ UNCHANGED pc
            \/ WriteError(o) /\ Throw(o)
  BY <1>2
<1>4. stash'[o] = stash[o] \ S
  BY <1>0, <1>3 DEF ControlInv
<1>5. pc'[o] \in {"idle", "evict"}
  BY <1>0, <1>1, <1>3 DEF Throw, ControlInv
<1>6. Present(o)' => Sound(BucketsOf(o)', stash'[o], position_map[o], pc'[o], oldLeaf[o],
                           level'[o], call[o].index, truth[o])
  <2> SUFFICES ASSUME Present(o)'
               PROVE  Sound(BucketsOf(o)', stash'[o], position_map[o], pc'[o], oldLeaf[o],
                            level'[o], call[o].index, truth[o])
    OBVIOUS
  <2>1. B \in SUBSET Blocks(Mine(o)) /\ P(oldLeaf[o], level[o]) \in Positions
    <3>1. stash[o] \subseteq Blocks(Mine(o))
      BY <1>0 DEF ControlInv
    <3> QED BY <1>1, <3>1, Typed, PathInStorage DEF Evictable
  <2>2. /\ Present(o) /\ ~WriteError(o)
        /\ BucketsOf(o)' = [BucketsOf(o) EXCEPT ![P(oldLeaf[o], level[o])] = B]
    BY <1>3, <2>1, WriteBuckets DEF SInv
  <2>3. Sound(BucketsOf(o), stash[o], position_map[o], "evict", oldLeaf[o], level[o],
              call[o].index, truth[o])
    BY <1>1, <2>2 DEF AccessInv
  <2>4. B = S
    <3>1. IsFiniteSet(S)
      BY <2>3, FS_Subset DEF Sound, Finite, Evictable
    <3> QED BY <1>3, <3>1, AllAdded DEF Fills, SInv
  <2>5. S \in SUBSET {b \in stash[o] : P(position_map[o][b.index], level[o]) = P(oldLeaf[o], level[o])}
    BY DEF Evictable
  <2>6. /\ pc'[o] = IF level[o] = 0 THEN "idle" ELSE "evict"
        /\ level'[o] = IF level[o] = 0 THEN 0 ELSE level[o] - 1
    BY <1>0, <1>1, <1>3, <2>2 DEF ControlInv
  <2>7. Sound([BucketsOf(o) EXCEPT ![P(oldLeaf[o], level[o])] = S], stash[o] \ S,
              position_map[o], IF level[o] = 0 THEN "idle" ELSE "evict", oldLeaf[o],
              IF level[o] = 0 THEN 0 ELSE level[o] - 1, call[o].index, truth[o])
    BY <1>1, <2>2, <2>3, <2>5, Typed, SoundEvict
  <2> QED BY <1>4, <2>2, <2>4, <2>6, <2>7
<1> QED BY <1>1, <1>5, <1>6 DEF AccessInv

-----------------------------------------------------------------------------
LEMMA NextDown == SInv /\ DownInv /\ [Next]_vars => DownInv'
<1> SUFFICES ASSUME SInv, DownInv, [Next]_vars PROVE DownInv'
  OBVIOUS
<1>1. CASE Crash
  BY <1>1 DEF Crash, Die, DownInv
<1>2. CASE Restart
  BY <1>2 DEF Restart, DownInv
<1>3. ASSUME NEW p \in Oram, Construct(p) PROVE DownInv'
  BY <1>3 DEF Construct, DownInv, process, store
<1>4. ASSUME NEW p \in Oram, NEW c \in Call(p), access(p, c) \/ access_direct(p, c) PROVE DownInv'
  BY <1>4 DEF access, access_direct, Start, DownInv, process, store
<1>5. ASSUME NEW p \in Oram, ReadBucket(p) \/ Serve(p) PROVE DownInv'
  BY <1>5 DEF ReadBucket, Serve, DownInv, process, store
<1>6. ASSUME NEW p \in Oram, WriteInitialBucket(p) \/ EvictBucket(p) PROVE DownInv'
  <2>1. PICK k \in Positions, B \in SUBSET Blocks(Mine(p)) : WriteOk(p, k, B) \/ WriteError(p)
    BY <1>6, WritesBucket DEF SInv
  <2>2. \/ up /\ Replace(p, k, B)
        \/ UNCHANGED <<store, up>>
        \/ Die
    BY <2>1 DEF WriteOk, WriteError, StrayWrite, process
  <2>3. CASE up /\ Replace(p, k, B)
    BY <2>3 DEF Replace, DownInv
  <2>4. CASE UNCHANGED <<store, up>>
    BY <2>4 DEF DownInv, store
  <2> QED BY <2>2, <2>3, <2>4 DEF Die, DownInv
<1>7. CASE UNCHANGED vars
  BY <1>7 DEF vars, store, process, DownInv
<1> QED BY <1>1, <1>2, <1>3, <1>4, <1>5, <1>6, <1>7 DEF Next, Step

(* A step of another controller, or of the server, is not seen by one that   *)
(* has its ORAM for itself.                                                  *)
LEMMA OthersAside ==
  ASSUME SInv, DownInv, NEW o \in Oram, Exclusive(o), NEW p \in Oram, p # o,
         \/ Construct(p) \/ Step(p)
         \/ \E c \in Call(p) : access(p, c) \/ access_direct(p, c)
  PROVE  SameView(o) /\ SameTree(o)
<1>0. ControlInv /\ StoreInv /\ ~Shared(o, p)
  BY DEF SInv, Exclusive
<1>1. ASSUME UNCHANGED store PROVE SameTree(o)
  BY <1>1 DEF store, SameTree, Present, OramsOf, BucketsOf
<1>2. CASE Construct(p)
  <2>1. SameView(o)
    BY <1>0, <1>2 DEF Construct, Throw, SameView, ControlInv
  <2>2. SameTree(o)
    <3>1. CASE up
      BY <1>0, <1>2, <3>1, CapacityPresent, CapacityBuckets DEF Construct, SameTree
    <3>2. CASE ~up
      BY <1>1, <1>2, <3>2 DEF Construct
    <3> QED BY <3>1, <3>2
  <2> QED BY <2>1, <2>2
<1>3. ASSUME NEW c \in Call(p), access(p, c) \/ access_direct(p, c)
      PROVE  SameView(o) /\ SameTree(o)
  <2>1. /\ UNCHANGED <<store, stash, truth>> /\ pc'[o] = pc[o] /\ level'[o] = level[o]
        /\ oldLeaf'[o] = oldLeaf[o] /\ call'[o] = call[o] /\ response'[o] = response[o]
    BY <1>0, <1>3 DEF access, access_direct, Start, ControlInv
  <2>2. position_map'[o] = position_map[o]
    BY <1>0, <1>3 DEF access, access_direct, ControlInv
  <2> QED BY <1>1, <2>1, <2>2 DEF SameView
<1>4. CASE ReadBucket(p)
  <2>1. SameView(o)
    BY <1>0, <1>4 DEF ReadBucket, Throw, SameView, ControlInv
  <2> QED BY <1>1, <1>4, <2>1 DEF ReadBucket
<1>5. CASE Serve(p)
  <2>1. stash'[o] = stash[o] /\ response'[o] = response[o]
    BY <1>0, <1>5 DEF Serve, ServeRead, ServeWrite, ControlInv
  <2>2. truth'[o] = truth[o]
    BY <1>0, <1>5 DEF Serve, ControlInv
  <2>3. SameView(o)
    BY <1>0, <1>5, <2>1, <2>2 DEF Serve, SameView, ControlInv
  <2> QED BY <1>1, <1>5, <2>3 DEF Serve
<1>6. CASE WriteInitialBucket(p) \/ EvictBucket(p)
  <2>1. SameView(o)
    <3>1. CASE WriteInitialBucket(p)
      BY <1>0, <3>1 DEF WriteInitialBucket, Throw, SameView, ControlInv
    <3>2. CASE EvictBucket(p)
      BY <1>0, <3>2 DEF EvictBucket, Throw, SameView, ControlInv
    <3> QED BY <1>6, <3>1, <3>2
  <2>2. PICK k \in Positions, B \in SUBSET Blocks(Mine(p)) : WriteOk(p, k, B) \/ WriteError(p)
    BY <1>0, <1>6, WritesBucket
  <2> QED BY <1>0, <2>1, <2>2, WriteBuckets DEF SameTree
<1> QED BY <1>2, <1>3, <1>4, <1>5, <1>6 DEF Step

AllAccess == \A o \in Alone : AccessInv(o)

LEMMA NextAccess == SInv /\ DownInv /\ AllAccess /\ [Next]_vars => AllAccess'
<1> SUFFICES ASSUME SInv, DownInv, [Next]_vars, NEW o \in Alone, AccessInv(o)
             PROVE  AccessInv(o)'
  BY DEF AllAccess
<1>0. o \in Oram /\ Exclusive(o) /\ Largest(o)
  BY DEF Alone
<1>1. CASE Crash
  <2>1. ~Present(o)'
    BY <1>0, <1>1, OramAssumption DEF Crash, Die, Present, OramsOf
  <2> QED BY <1>0, <1>1, <2>1, AsideAccess DEF Crash, control, SameView, SameTree
<1>2. CASE Restart
  BY <1>0, <1>2, AsideAccess
     DEF Restart, control, store, SameView, SameTree, Present, OramsOf, BucketsOf
<1>3. ASSUME NEW p \in Oram,
             \/ Construct(p) \/ Step(p)
             \/ \E c \in Call(p) : access(p, c) \/ access_direct(p, c)
      PROVE  AccessInv(o)'
  <2>1. CASE p # o
    BY <1>0, <1>3, <2>1, OthersAside, AsideAccess
  <2>2. CASE p = o
    BY <1>0, <1>3, <2>2, ConstructAccess, StartAccess, InitialAccess, ReadAccess, ServeAccess,
       EvictAccess DEF Step
  <2> QED BY <2>1, <2>2
<1>4. CASE UNCHANGED vars
  BY <1>0, <1>4, AsideAccess
     DEF vars, control, store, SameView, SameTree, Present, OramsOf, BucketsOf
<1> QED BY <1>1, <1>2, <1>3, <1>4 DEF Next

LEMMA AccessInvariant == Spec => [](SInv /\ DownInv /\ AllAccess)
<1>1. Init => DownInv /\ AllAccess
  BY DEF Init, DownInv, AllAccess, Alone, AccessInv
<1>2. SInv /\ DownInv /\ AllAccess /\ [Next]_vars => DownInv' /\ AllAccess'
  BY NextDown, NextAccess
<1> QED BY <1>1, <1>2, ServerInvariant, PTL DEF Spec

(* A READ that is served returns what was last written to its address, or   *)
(* nothing if nothing was, whatever the other clients do and however often  *)
(* the server crashes (OramReadPathEviction.cpp access_handler,             *)
(* SealService.cpp).                                                        *)
THEOREM ReadIsExact == Spec => []ReadExact
<1>1. SInv /\ DownInv /\ AllAccess => ReadExact
  BY DEF AllAccess, AccessInv, Alone, ReadExact
<1> QED BY <1>1, AccessInvariant, PTL

-----------------------------------------------------------------------------
\* Until the first crash the ORAM of a controller that was set up is there.
UpInv == crashes = 0 => up /\ \A o \in Alone : pc[o] # "none" => Present(o)

(* A write that does not kill the server leaves all ORAMs there.             *)
LEMMA WriteUp ==
  ASSUME StoreInv, crashes \in Nat, crashes' = 0, NEW p \in Oram, NEW k \in Positions,
         NEW B \in SUBSET Blocks(Mine(p)), WriteOk(p, k, B) \/ WriteError(p)
  PROVE  up' = up /\ crashes = 0 /\ \A o \in Oram : Present(o)' = Present(o)
<1>1. CASE Present(p) /\ Replace(p, k, B)
  BY <1>1, ReplacePresent DEF Replace
<1>2. CASE UNCHANGED <<store, up, crashes>>
  BY <1>2 DEF store, Present, OramsOf
<1>3. CASE Die
  BY <1>3 DEF Die
<1> QED BY <1>1, <1>2, <1>3 DEF WriteOk, WriteError, StrayWrite, process

LEMMA NextUp == SInv /\ UpInv /\ [Next]_vars => UpInv'
<1> SUFFICES ASSUME SInv, UpInv, [Next]_vars, crashes' = 0
             PROVE  up' /\ \A o \in Alone : pc'[o] # "none" => Present(o)'
  BY DEF UpInv, Alone
<1>0. ControlInv /\ StoreInv /\ crashes \in Nat
  BY DEF SInv, ProcessInv
<1>1. CASE Crash
  BY <1>0, <1>1 DEF Crash, Die
<1>2. ASSUME UNCHANGED <<store, up, crashes>>, \A o \in Oram : pc'[o] # "none" => pc[o] # "none"
      PROVE  up' /\ \A o \in Alone : pc'[o] # "none" => Present(o)'
  BY <1>2 DEF UpInv, store, Present, OramsOf, Alone
<1>3. CASE Restart
  BY <1>3 DEF Restart, UpInv
<1>4. ASSUME NEW p \in Oram, Construct(p)
      PROVE  up' /\ \A o \in Alone : pc'[o] # "none" => Present(o)'
  <2>1. up' /\ up /\ set_capacity(p) /\ pc[p] = "none" /\ crashes = 0
    BY <1>4 DEF Construct, process, UpInv
  <2>2. ASSUME NEW o \in Alone, pc'[o] # "none" PROVE Present(o)'
    <3>1. CASE o = p
      <4>1. ~Refused(p)
        BY <1>0, <1>4, <2>1, <2>2, <3>1 DEF Construct, Throw, ControlInv, Alone
      <4> QED BY <1>0, <2>1, <3>1, <4>1, CapacityPresent
    <3>2. CASE o # p
      <4>1. pc'[o] = pc[o]
        BY <1>0, <1>4, <3>2 DEF Construct, Throw, ControlInv, Alone
      <4>2. Present(o) /\ ~Shared(o, p)
        BY <2>1, <2>2, <3>2, <4>1 DEF UpInv, Alone, Exclusive
      <4> QED BY <1>0, <2>1, <4>2, CapacityPresent DEF Alone
    <3> QED BY <3>1, <3>2
  <2> QED BY <2>1, <2>2
<1>5. ASSUME NEW p \in Oram, NEW c \in Call(p), access(p, c) \/ access_direct(p, c)
      PROVE  up' /\ \A o \in Alone : pc'[o] # "none" => Present(o)'
  BY <1>0, <1>2, <1>5 DEF access, access_direct, Start, process, ControlInv
<1>6. ASSUME NEW p \in Oram, ReadBucket(p) \/ Serve(p)
      PROVE  up' /\ \A o \in Alone : pc'[o] # "none" => Present(o)'
  BY <1>0, <1>2, <1>6 DEF ReadBucket, Serve, Throw, process, ControlInv
<1>7. ASSUME NEW p \in Oram, WriteInitialBucket(p) \/ EvictBucket(p)
      PROVE  up' /\ \A o \in Alone : pc'[o] # "none" => Present(o)'
  <2>1. \A o \in Oram : pc'[o] # "none" => pc[o] # "none"
    <3>1. pc[p] # "none" /\ \A o \in Oram : o # p => pc'[o] = pc[o]
      BY <1>0, <1>7 DEF WriteInitialBucket, EvictBucket, Throw, ControlInv
    <3> QED BY <3>1
  <2>2. PICK k \in Positions, B \in SUBSET Blocks(Mine(p)) : WriteOk(p, k, B) \/ WriteError(p)
    BY <1>0, <1>7, WritesBucket
  <2>3. up' = up /\ crashes = 0 /\ \A o \in Oram : Present(o)' = Present(o)
    BY <1>0, <2>2, WriteUp
  <2> QED BY <2>1, <2>3 DEF UpInv, Alone
<1>8. CASE UNCHANGED vars
  BY <1>2, <1>8 DEF vars, process
<1> QED BY <1>1, <1>3, <1>4, <1>5, <1>6, <1>7, <1>8 DEF Next, Step
-----------------------------------------------------------------------------
(* The tree of PathOram is the one of the controller.                        *)
LEMMA TreeSame ==
  ASSUME NEW o \in Oram
  PROVE  /\ Tree(o)!Positions = Positions /\ Tree(o)!Leaves = Leaves
         /\ Tree(o)!Levels = Levels /\ Tree(o)!Call = Call(o)
         /\ \A x, n : Tree(o)!P(x, n) = P(x, n)
BY DEF Tree!Positions, Positions, Tree!num_buckets, num_buckets, Tree!Leaves, Leaves,
       Tree!num_leaves, num_leaves, Tree!Levels, Levels, Tree!Call, Call, Tree!P, P

LEMMA InitTree ==
  ASSUME Init, NEW o \in Alone
  PROVE  Tree(o)!Init
<1>1. o \in Oram
  BY DEF Alone
<1>2. call[o] \in Call(o) /\ ~(Present(o) /\ pc[o] \notin {"none", "create"})
  BY <1>1 DEF Init, Call
<1> QED BY <1>1, <1>2, TreeSame DEF Init, Tree!Init, Empty

\* What is known before and after a step in which the server has not crashed.
Quiet == SInv /\ DownInv /\ AllAccess /\ UpInv /\ UpInv' /\ crashes = 0 /\ crashes' = 0

\* Every variable of the PathOram that a controller stands for.
LEMMA TreeStays ==
  ASSUME NEW o \in Alone,
         position_map'[o] = position_map[o], stash'[o] = stash[o], oldLeaf'[o] = oldLeaf[o],
         call'[o] = call[o], response'[o] = response[o],
         (IF pc[o] = "create" THEN 0 ELSE level[o])' = IF pc[o] = "create" THEN 0 ELSE level[o],
         (IF pc[o] = "none" \/ pc[o] = "create" THEN "idle" ELSE pc[o])'
            = IF pc[o] = "none" \/ pc[o] = "create" THEN "idle" ELSE pc[o],
         (IF Present(o) /\ pc[o] \notin {"none", "create"} THEN BucketsOf(o) ELSE Empty)'
            = IF Present(o) /\ pc[o] \notin {"none", "create"} THEN BucketsOf(o) ELSE Empty
  PROVE  UNCHANGED Tree(o)!vars
BY DEF Tree!vars

LEMMA ConstructTree ==
  ASSUME Quiet, NEW o \in Alone, Construct(o)
  PROVE  UNCHANGED Tree(o)!vars
<1>0. /\ o \in Oram /\ pc \in [Oram -> {"none", "create", "idle", "read", "evict"}]
      /\ pc[o] = "none" /\ level[o] = 0
      /\ UNCHANGED <<position_map, stash, oldLeaf, call, response>>
  BY DEF Quiet, SInv, ControlInv, Construct, Alone
<1>1. pc'[o] \in {"none", "create"} /\ (pc'[o] = "none" => level'[o] = 0)
  BY <1>0 DEF Construct, Throw, Quiet, SInv, ControlInv
<1> QED BY <1>0, <1>1, TreeStays

LEMMA InitialTree ==
  ASSUME Quiet, NEW o \in Alone, WriteInitialBucket(o)
  PROVE  UNCHANGED Tree(o)!vars
<1>0. /\ o \in Oram /\ pc \in [Oram -> {"none", "create", "idle", "read", "evict"}]
      /\ pc[o] = "create" /\ level \in [Oram -> Nat]
      /\ UNCHANGED <<position_map, stash, oldLeaf, call, response>>
  BY DEF Quiet, SInv, ControlInv, WriteInitialBucket, Alone
<1>1. pc'[o] = "create" \/ (pc'[o] \in {"none", "idle"} /\ level'[o] = 0)
  BY <1>0 DEF WriteInitialBucket, Throw
<1>2. Present(o)' => BucketsOf(o)' = Empty
  <2>1. Present(o)' => /\ Present(o)
                       /\ BucketsOf(o)' = [BucketsOf(o) EXCEPT ![level[o]] = {}]
    <3>1. level[o] \in Positions /\ {} \in SUBSET Blocks(Mine(o))
      BY <1>0 DEF Quiet, SInv, ControlInv
    <3>2. WriteOk(o, level[o], {}) \/ WriteError(o)
      BY DEF WriteInitialBucket
    <3> QED BY <1>0, <3>1, <3>2, WriteBuckets DEF Quiet, SInv
  <2>2. Present(o) => BucketsOf(o) = Empty
    BY <1>0 DEF Quiet, AllAccess, AccessInv
  <2>3. [Empty EXCEPT ![level[o]] = {}] = Empty
    BY DEF Empty
  <2> QED BY <2>1, <2>2, <2>3
<1> QED BY <1>0, <1>1, <1>2, TreeStays

LEMMA StartTree ==
  ASSUME Quiet, NEW o \in Alone, NEW c \in Call(o), access(o, c) \/ access_direct(o, c)
  PROVE  Tree(o)!Next
<1>0. o \in Oram /\ ControlInv
  BY DEF Alone, Quiet, SInv
<1>1. /\ pc[o] = "idle" /\ pc'[o] = "read" /\ level'[o] = 0
      /\ oldLeaf'[o] = position_map[o][c.index] /\ call'[o] = c /\ response'[o] = NoData
      /\ UNCHANGED <<store, stash>>
  BY <1>0 DEF access, access_direct, Start, ControlInv
<1>2. Present(o)' = Present(o) /\ BucketsOf(o)' = BucketsOf(o)
  BY <1>1 DEF store, Present, OramsOf, BucketsOf
<1>3. Tree(o)!Start(c)
  BY <1>1, <1>2 DEF Tree!Start
<1>4. CASE access(o, c)
  <2>1. PICK y \in Leaves : position_map' = [position_map EXCEPT ![o][c.index] = y]
    BY <1>4 DEF access
  <2>2. position_map'[o] = [position_map[o] EXCEPT ![c.index] = y]
    BY <1>0, <2>1 DEF ControlInv
  <2>3. Tree(o)!access(c)
    BY <1>0, <1>3, <2>2, TreeSame DEF Tree!access
  <2> QED BY <1>0, <2>3, TreeSame DEF Tree!Next
<1>5. CASE access_direct(o, c)
  <2>1. Tree(o)!access_direct(c)
    BY <1>3, <1>5 DEF access_direct, Tree!access_direct
  <2> QED BY <1>0, <2>1, TreeSame DEF Tree!Next
<1> QED BY <1>4, <1>5

LEMMA ReadTree ==
  ASSUME Quiet, NEW o \in Alone, ReadBucket(o)
  PROVE  Tree(o)!Next
<1>0. o \in Oram /\ ControlInv
  BY DEF Alone, Quiet, SInv
<1>1. /\ pc[o] = "read" /\ level[o] < num_levels
      /\ UNCHANGED <<store, position_map, oldLeaf, call, response>>
  BY DEF ReadBucket
<1>2. up /\ Present(o)
  BY <1>1 DEF Quiet, UpInv
<1>3. /\ stash'[o] = stash[o] \cup BucketsOf(o)[P(oldLeaf[o], level[o])]
      /\ level'[o] = level[o] + 1 /\ pc'[o] = "read"
  BY <1>0, <1>1, <1>2 DEF ReadBucket, ControlInv
<1>4. Present(o)' = Present(o) /\ BucketsOf(o)' = BucketsOf(o)
  BY <1>1 DEF store, Present, OramsOf, BucketsOf
<1>5. Tree(o)!ReadPathBucket
  BY <1>0, <1>1, <1>2, <1>3, <1>4, TreeSame DEF Tree!ReadPathBucket
<1> QED BY <1>5 DEF Tree!Next

LEMMA ServeTree ==
  ASSUME Quiet, NEW o \in Alone, Serve(o)
  PROVE  Tree(o)!Next
<1>0. o \in Oram /\ ControlInv
  BY DEF Alone, Quiet, SInv
<1>1. /\ pc[o] = "read" /\ level[o] = num_levels
      /\ pc'[o] = "evict" /\ level'[o] = num_levels - 1
      /\ UNCHANGED <<store, position_map, oldLeaf, call>>
  BY <1>0 DEF Serve, ControlInv
<1>2. Present(o)' = Present(o) /\ BucketsOf(o)' = BucketsOf(o)
  BY <1>1 DEF store, Present, OramsOf, BucketsOf
<1>3. \A a : Tree(o)!BlocksOf(a) = BlocksOf(o, a)
  BY DEF Tree!BlocksOf, BlocksOf
<1>4. ServeRead(o) => Tree(o)!ServeRead
  <2> SUFFICES ASSUME ServeRead(o) PROVE Tree(o)!ServeRead
    OBVIOUS
  <2>1. call[o].op = "READ" /\ stash' = stash
    BY DEF ServeRead
  <2>2. CASE BlocksOf(o, call[o].index) = {} /\ response' = response
    BY <1>3, <2>1, <2>2 DEF Tree!ServeRead
  <2>3. ASSUME NEW b \in BlocksOf(o, call[o].index), response' = [response EXCEPT ![o] = b.data]
        PROVE  Tree(o)!ServeRead
    <3>1. response'[o] = b.data
      BY <1>0, <2>3 DEF ControlInv
    <3> QED BY <1>3, <2>1, <3>1 DEF Tree!ServeRead
  <2> QED BY <2>2, <2>3 DEF ServeRead
<1>5. ServeWrite(o) => Tree(o)!ServeWrite
  <2> SUFFICES ASSUME ServeWrite(o) PROVE Tree(o)!ServeWrite
    OBVIOUS
  <2>1. /\ call[o].op = "WRITE" /\ response' = response
        /\ stash'[o] = (stash[o] \ BlocksOf(o, call[o].index))
                          \cup {[index |-> call[o].index, data |-> call[o].data]}
    BY <1>0 DEF ServeWrite, ControlInv
  <2> QED BY <1>3, <2>1 DEF Tree!ServeWrite
<1>6. Tree(o)!ServeRead \/ Tree(o)!ServeWrite
  BY <1>4, <1>5 DEF Serve
<1>7. Tree(o)!Serve
  BY <1>1, <1>2, <1>6 DEF Tree!Serve
<1> QED BY <1>7 DEF Tree!Next

LEMMA EvictTree ==
  ASSUME Quiet, NEW o \in Alone, EvictBucket(o)
  PROVE  Tree(o)!Next
<1>0. o \in Oram /\ Largest(o) /\ ControlInv
  BY DEF Alone, Quiet, SInv
<1>1. /\ pc[o] = "evict" /\ level[o] \in Levels
      /\ UNCHANGED <<position_map, oldLeaf, call, response>>
  BY <1>0 DEF EvictBucket, ControlInv
<1>2. PICK S \in SUBSET Evictable(o, level[o]) : \E B \in SUBSET S :
         /\ Fills(o, S, level[o]) /\ Added(o, S, B)
         /\ stash' = [stash EXCEPT ![o] = @ \ S]
         /\ \/ /\ WriteOk(o, P(oldLeaf[o], level[o]), B)
               /\ IF level[o] = 0
                  THEN pc' = [pc EXCEPT ![o] = "idle"] /\ UNCHANGED level
                  ELSE level' = [level EXCEPT ![o] = @ - 1] /\ UNCHANGED pc
            \/ WriteError(o) /\ Throw(o)
  BY DEF EvictBucket
<1>3. PICK B \in SUBSET S :
         /\ Fills(o, S, level[o]) /\ Added(o, S, B)
         /\ stash' = [stash EXCEPT ![o] = @ \ S]
         /\ \/ /\ WriteOk(o, P(oldLeaf[o], level[o]), B)
               /\ IF level[o] = 0
                  THEN pc' = [pc EXCEPT ![o] = "idle"] /\ UNCHANGED level
                  ELSE level' = [level EXCEPT ![o] = @ - 1] /\ UNCHANGED pc
            \/ WriteError(o) /\ Throw(o)
  BY <1>2
<1>4. stash'[o] = stash[o] \ S
  BY <1>0, <1>3 DEF ControlInv
<1>5. pc'[o] \in {"idle", "evict"}
  BY <1>0, <1>1, <1>3 DEF Throw, ControlInv
<1>6. Present(o) /\ Present(o)'
  BY <1>1, <1>5 DEF Quiet, UpInv
<1>7. B \in SUBSET Blocks(Mine(o)) /\ P(oldLeaf[o], level[o]) \in Positions
  <2>1. stash[o] \subseteq Blocks(Mine(o))
    BY <1>0 DEF ControlInv
  <2> QED BY <1>0, <1>1, <2>1, Typed, PathInStorage DEF Evictable, Quiet
<1>8. ~WriteError(o) /\ BucketsOf(o)' = [BucketsOf(o) EXCEPT ![P(oldLeaf[o], level[o])] = B]
  BY <1>0, <1>3, <1>6, <1>7, WriteBuckets DEF Quiet, SInv
<1>9. B = S
  <2>1. Finite(BucketsOf(o), stash[o])
    BY <1>1, <1>6 DEF Quiet, AllAccess, AccessInv, Sound
  <2>2. IsFiniteSet(S)
    BY <2>1, FS_Subset DEF Finite, Evictable
  <2> QED BY <1>0, <1>3, <2>2, AllAdded DEF Fills, Quiet, SInv
<1>10. \A l : Tree(o)!Evictable(l) = Evictable(o, l)
  BY <1>0, TreeSame DEF Tree!Evictable, Evictable
<1>11. S \in SUBSET Tree(o)!Evictable(level[o]) /\ Tree(o)!Fills(S, level[o])
  <2>1. Tree(o)!Cardinality(S) = Cardinality(S)
    BY DEF Tree!Cardinality, Cardinality
  <2> QED BY <1>3, <1>10, <2>1 DEF Tree!Fills, Fills
<1>12. Tree(o)!WriteBack(S)
  <2>1. Tree(o)!P(oldLeaf[o], level[o]) = P(oldLeaf[o], level[o])
    BY <1>0, TreeSame
  <2> QED BY <1>1, <1>4, <1>5, <1>6, <1>8, <1>9, <2>1 DEF Tree!WriteBack
<1>13. Tree(o)!NextLevel
  <2>1. \/ level[o] > 0 /\ level'[o] = level[o] - 1 /\ pc'[o] = pc[o]
        \/ level[o] = 0 /\ pc'[o] = "idle" /\ level'[o] = level[o]
    <3>1. level[o] \in Nat
      BY <1>1 DEF Levels
    <3> QED BY <1>0, <1>3, <1>8, <3>1 DEF ControlInv
  <2> QED BY <1>1, <2>1 DEF Tree!NextLevel
<1>14. Tree(o)!EvictBucket
  BY <1>1, <1>5, <1>11, <1>12, <1>13 DEF Tree!EvictBucket
<1> QED BY <1>14 DEF Tree!Next

\* The step ImplementsPathOram is about.
TreeStep == \A o \in Alone : crashes' = 0 => [Tree(o)!Next]_(Tree(o)!vars)

LEMMA NextTree ==
  SInv /\ DownInv /\ AllAccess /\ UpInv /\ UpInv' /\ [Next]_vars => [TreeStep]_vars
<1> SUFFICES ASSUME SInv, DownInv, AllAccess, UpInv, UpInv', Next,
                    NEW o \in Alone, crashes' = 0
             PROVE  [Tree(o)!Next]_(Tree(o)!vars)
  BY DEF TreeStep
<1>0. o \in Oram /\ Exclusive(o) /\ crashes \in Nat
  BY DEF Alone, SInv, ProcessInv
<1>1. ASSUME crashes = 0, SameView(o), SameTree(o) PROVE UNCHANGED Tree(o)!vars
  <2>1. pc[o] # "none" => Present(o) /\ Present(o)' /\ BucketsOf(o)' = BucketsOf(o)
    BY <1>1 DEF SameView, SameTree, UpInv
  <2> QED BY <1>1, <2>1, TreeStays DEF SameView
<1>2. ~Crash
  BY <1>0 DEF Crash, Die
<1>3. CASE Restart
  BY <1>3 DEF Restart, UpInv
<1>4. ASSUME NEW p \in Oram,
             \/ Construct(p) \/ Step(p)
             \/ \E c \in Call(p) : access(p, c) \/ access_direct(p, c)
      PROVE  [Tree(o)!Next]_(Tree(o)!vars)
  <2>1. crashes = 0
    <3>1. CASE WriteInitialBucket(p) \/ EvictBucket(p)
      <4>1. PICK k \in Positions, B \in SUBSET Blocks(Mine(p)) : WriteOk(p, k, B) \/ WriteError(p)
        BY <3>1, WritesBucket DEF SInv
      <4> QED BY <1>0, <4>1, WriteUp DEF SInv
    <3>2. CASE ~(WriteInitialBucket(p) \/ EvictBucket(p))
      BY <1>4, <3>2 DEF Construct, Step, access, access_direct, Start, ReadBucket, Serve, process
    <3> QED BY <3>1, <3>2
  <2>2. Quiet
    BY <2>1 DEF Quiet
  <2>3. CASE p # o
    BY <1>0, <1>1, <1>4, <2>1, <2>3, OthersAside
  <2>4. CASE p = o
    BY <1>4, <2>2, <2>4, ConstructTree, InitialTree, StartTree, ReadTree, ServeTree, EvictTree
       DEF Step
  <2> QED BY <2>3, <2>4
<1> QED BY <1>2, <1>3, <1>4 DEF Next

(* A client that has its ORAM for itself and whose buckets are the smallest *)
(* sees a Path ORAM of its own, whatever the other clients do, until the    *)
(* server crashes (SealService.cpp, ServerStorage.cpp).                     *)
THEOREM PathOramImplemented == Spec => ImplementsPathOram
<1>1. Init => UpInv /\ \A o \in Alone : Tree(o)!Init
  <2>1. Init => UpInv
    BY DEF Init, UpInv, Alone
  <2> QED BY <2>1, InitTree
<1>2. Spec => []UpInv
  BY <1>1, ServerInvariant, NextUp, PTL DEF Spec
<1>3. Spec => [][TreeStep]_vars
  BY <1>2, AccessInvariant, NextTree, PTL DEF Spec
<1>4. Spec => \A o \in Alone : Tree(o)!Init
  BY <1>1 DEF Spec
<1> QED BY <1>3, <1>4 DEF ImplementsPathOram, TreeStep
=============================================================================
