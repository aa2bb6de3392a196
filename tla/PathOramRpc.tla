---------------------------- MODULE PathOramRpc ----------------------------
(***************************************************************************)
(* OramReadPathEviction with the vectors of the code and with bucket reads *)
(* and writes that can fail.  ServerStorage throws when a call does not    *)
(* return OK, and nothing in access_handler restores the position map or   *)
(* the stash: the access ends where it is.  adj_oram_init_helper catches   *)
(* the exception, logs it and goes on with the same ORAM.                  *)
(*                                                                         *)
(* The leaf_id of a block, which no access reads, is left out; an          *)
(* overwritten block keeps the one it was made with.                       *)
(***************************************************************************)
EXTENDS OramTree, SealUtils, SequencesExt

CONSTANTS Address, Data, NoData,
    MaxFailures     \* bound on the failing calls of a behaviour

VARIABLES
    position_map, stash, oram_storage, pc, level, oldLeaf, call, response,
    failures,       \* calls that have failed so far
    truth,          \* history: what a READ of the address may return
    touched         \* history: addresses a failed access had in its hands

memVars == <<position_map, stash, oram_storage>>
ctlVars == <<pc, level, oldLeaf, call, response>>
history == <<failures, truth, touched>>
vars    == <<memVars, ctlVars, history>>

Call == [op : {"READ"}, index : Address, data : {NoData}]
          \cup [op : {"WRITE"}, index : Address, data : Data]

Init ==
    /\ position_map \in [Address -> Leaves]
    /\ \A a \in Address : a >= num_blocks => position_map[a] = 0
    /\ stash = <<>>
    /\ oram_storage = [k \in Positions |-> <<>>]
    /\ pc = "idle" /\ level = 0 /\ oldLeaf = 0
    /\ call \in Call /\ response = NoData
    /\ failures = 0
    /\ truth = [a \in Address |-> {NoData}]
    /\ touched = {}

Start(c) ==
    /\ pc = "idle"
    /\ pc' = "read" /\ level' = 0
    /\ oldLeaf' = position_map[c.index]
    /\ call' = c /\ response' = NoData
    /\ UNCHANGED <<stash, oram_storage, history>>

access(c) ==
    /\ Start(c)
    /\ \E newLeaf \in Leaves :
          position_map' = [position_map EXCEPT ![c.index] = newLeaf]

access_direct(c) == Start(c) /\ UNCHANGED position_map

ReadPathBucket ==
    /\ pc = "read" /\ level < num_levels
    /\ stash' = stash \o oram_storage[P(oldLeaf, level)]
    /\ level' = level + 1
    /\ UNCHANGED <<position_map, oram_storage, pc, oldLeaf, call, response, history>>

\* The position of the first block of an address, or 0.
Find(s, a) == SelectInSeq(s, LAMBDA b : b.index = a)

ServeRead ==
    /\ call.op = "READ"
    /\ response' = IF Find(stash, call.index) = 0 THEN NoData
                   ELSE stash[Find(stash, call.index)].data
    /\ UNCHANGED <<stash, truth>>

ServeWrite_TwinBug ==       \* the block is added whether or not it is there
    /\ call.op = "WRITE"
    /\ stash' = <<[index |-> call.index, data |-> call.data]>> \o stash
    /\ truth' = [truth EXCEPT ![call.index] = @ \cup {call.data}]
    /\ UNCHANGED response

\* The first block of the address is overwritten, or a new one is added.
ServeWrite ==
    /\ call.op = "WRITE"
    /\ LET i == Find(stash, call.index) IN
       stash' = IF i = 0
                THEN Append(stash, [index |-> call.index, data |-> call.data])
                ELSE [stash EXCEPT ![i].data = call.data]
    /\ truth' = [truth EXCEPT ![call.index] = @ \cup {call.data}]
    /\ UNCHANGED response

Serve ==
    /\ pc = "read" /\ level = num_levels
    /\ ServeRead \/ ServeWrite
    /\ pc' = "evict" /\ level' = num_levels - 1
    /\ UNCHANGED <<position_map, oram_storage, oldLeaf, call, failures, touched>>

Fits_RootBug(b, l) == TRUE      \* every block is evicted as if l were the root

Fits(b, l) == P(position_map[b.index], l) = P(oldLeaf, l)

\* The blocks that fill the bucket of level l: the first of the stash that fit.
Evicted(l) ==
    LET bucket[i \in 0 .. Len(stash)] ==
           IF i = 0 THEN <<>>
           ELSE IF Len(bucket[i - 1]) < bucket_size /\ Fits(stash[i], l)
                THEN Append(bucket[i - 1], stash[i]) ELSE bucket[i - 1]
    IN  bucket[Len(stash)]

Erase_FrontBug(s, bid_evicted) ==       \* as many blocks leave from the front
    SubSeq(s, Len(bid_evicted) + 1, Len(s))

\* For each block evicted the first block of its address leaves the stash.
Erase(s, bid_evicted) ==
    LET rest[n \in 0 .. Len(bid_evicted)] ==
           IF n = 0 THEN s
           ELSE RemoveAt(rest[n - 1], Find(rest[n - 1], bid_evicted[n].index))
    IN  rest[Len(bid_evicted)]

NextLevel ==
    \/ level > 0 /\ level' = level - 1 /\ UNCHANGED <<pc, truth>>
    \/ /\ level = 0 /\ pc' = "idle" /\ UNCHANGED level
       /\ truth' = IF call.op = "WRITE" /\ call.index \notin touched
                   THEN [truth EXCEPT ![call.index] = {call.data}] ELSE truth

EvictBucket ==
    /\ pc = "evict"
    /\ LET bucket == Evicted(level) IN
       /\ stash' = Erase(stash, bucket)
       /\ oram_storage' = [oram_storage EXCEPT ![P(oldLeaf, level)] = bucket]
    /\ NextLevel
    /\ UNCHANGED <<position_map, oldLeaf, call, response, failures, touched>>

Indices(s) == {s[i].index : i \in DOMAIN s}
Handled == {call.index} \cup Indices(stash)
              \cup UNION {Indices(oram_storage[k]) : k \in Path(oldLeaf)}

Throw ==
    /\ failures < MaxFailures
    /\ failures' = failures + 1
    /\ pc' = "idle"
    /\ touched' = touched \cup Handled
    /\ truth' = [a \in Address |-> IF a \in touched' THEN truth[a] \cup {NoData}
                                   ELSE truth[a]]

ReadBucketFails ==
    /\ pc = "read" /\ level < num_levels
    /\ Throw
    /\ UNCHANGED <<position_map, stash, oram_storage, level, oldLeaf,
                   call, response>>

\* The blocks have left the stash when WriteBucket throws; the server may have
\* written the bucket before its answer was lost.
WriteBucketFails ==
    /\ pc = "evict"
    /\ Throw
    /\ LET bucket == Evicted(level) IN
       /\ stash' = Erase(stash, bucket)
       /\ oram_storage' \in {oram_storage,
                             [oram_storage EXCEPT ![P(oldLeaf, level)] = bucket]}
    /\ UNCHANGED <<position_map, level, oldLeaf, call, response>>

Next ==
    \/ \E c \in Call : access(c) \/ access_direct(c)
    \/ ReadPathBucket \/ Serve \/ EvictBucket
    \/ ReadBucketFails \/ WriteBucketFails

Spec == Init /\ [][Next]_vars
-----------------------------------------------------------------------------
Places(a) == {<<-1, i>> : i \in {j \in DOMAIN stash : stash[j].index = a}}
     \cup UNION {{<<k, i>> : i \in {j \in DOMAIN oram_storage[k] :
                                      oram_storage[k][j].index = a}} : k \in Positions}

\* A failed access damages only what it had in its hands: the address called,
\* the blocks in the stash and the blocks of the path.  A READ of any other
\* address returns what was last written.  A READ of a damaged address returns
\* nothing, or data that the address held when the call failed or later.
FailureConfined ==
    pc = "evict" /\ call.op = "READ" => response \in truth[call.index]

\* Blocks multiply when reads are abandoned, at most doubling with every failure
\* (between accesses).
CopiesBounded ==
    pc = "idle" => \A a \in Address : Cardinality(Places(a)) <= Power(2, failures)

Sets(s) == {s[i] : i \in DOMAIN s}
Abstract == INSTANCE PathOram
              WITH stash <- Sets(stash),
                   oram_storage <- [k \in Positions |-> Sets(oram_storage[k])]

\* Until the first call fails, the vectors of the code behave as the sets of
\* PathOram: the removals by index and by position, and the loop that fills a
\* bucket, take the blocks they should.
ImplementsPathOram ==
    Abstract!Init /\ [][failures' = 0 => Abstract!Next]_(Abstract!vars)
=============================================================================
