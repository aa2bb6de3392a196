---------------------------- MODULE ClientCache ----------------------------
(***************************************************************************)
(* The cache of a batch (Cache<ODict::Node>) between the dictionary and    *)
(* its ORAM: ODS_start empties it, ODS_access reads and writes nodes       *)
(* through it, and ODS_finalize writes it back, node by node, when the     *)
(* batch is complete.  A call of the ORAM may fail: its exception ends the *)
(* batch where it is, and whoever catches it starts the next one.          *)
(*                                                                         *)
(* The ORAM is the memory that FailureConfined of PathOramRpc promises: a  *)
(* node that no failed access had in its hands has one answer, its last    *)
(* value.  A failed access has in its hands the node it was called for,    *)
(* the nodes in the stash and those on the path, here any nodes that have  *)
(* a block; from then on a READ of them returns nothing or any of the      *)
(* values they had at the failure or later.                                *)
(*                                                                         *)
(* ODS_access ignores what put evicts, so a node that is evicted is not    *)
(* written back.  The client constructs the cache with INT_MAX entries;    *)
(* main.cpp says why it must: "We cannot evict the cache when it is full". *)
(*                                                                         *)
(* A node is its id and a value, which stands for its other fields.  The   *)
(* tags that update_pos writes are those of ODict.                         *)
(***************************************************************************)
EXTENDS Integers, Sequences, FiniteSets

CONSTANTS
    Id, Value,
    NoNode,         \* what a READ returns when it finds no block
    Sizes,          \* what max_size may be
    MaxCalls,       \* bound on the calls of ODS_access in a batch
    MaxFailures     \* bound on the batches that end by an exception

ASSUME IdAssumption   == Id \subseteq Nat \ {0}
ASSUME NodeAssumption == NoNode \notin Value
ASSUME SizeAssumption == Sizes \subseteq Nat \ {0}

VARIABLES
    max_size,       \* entries the cache holds
    cache_items,    \* id -> value
    lru_table,      \* ids, the most recently used one first
    oram,           \* id -> what a READ of it may return
    damaged,        \* history: ids that a failed access had in its hands; the history
                    \* of such an id ends in those below
    pc,             \* "idle", "batch" or "flush"
    calls, failures,
    used,           \* history: ids used by the batch, the latest first
    before,         \* history: oram when the batch began
    latest,         \* history: id -> the value last put
    lost            \* history: ids whose last value was dropped

cache  == <<cache_items, lru_table>>
server == <<oram, damaged>>
vars   == <<max_size, cache, server, pc, calls, failures, used, before, latest, lost>>

Empty == [x \in {} |-> x]

Init ==
    /\ max_size \in Sizes
    /\ cache_items = Empty /\ lru_table = <<>>
    /\ oram = [id \in Id |-> {NoNode}] /\ damaged = {}
    /\ pc = "idle" /\ calls = 0 /\ failures = 0
    /\ used = <<>> /\ before = oram /\ latest = Empty /\ lost = {}
-----------------------------------------------------------------------------
Ids(s) == {s[j] : j \in DOMAIN s}

\* find_if and erase: the first entry of an id leaves the sequence.
Erase(s, id) ==
    IF id \notin Ids(s) THEN s
    ELSE LET i == CHOOSE j \in DOMAIN s : s[j] = id /\ \A n \in 1 .. j - 1 : s[n] # id
         IN  [j \in 1 .. Len(s) - 1 |-> IF j < i THEN s[j] ELSE s[j + 1]]

ToFront(s, id) == <<id>> \o Erase(s, id)

Set(f, id, v)    == [x \in DOMAIN f \cup {id} |-> IF x = id THEN v ELSE f[x]]
Without(f, S)    == [x \in DOMAIN f \ S |-> f[x]]

Cached(id) == id \in DOMAIN cache_items

\* The cached nodes that the ORAM has not got as they are.
Dirty == {id \in DOMAIN cache_items : cache_items[id] \notin oram[id]}

\* The values that a READ may return, and the nodes of which there is one.
Answers(id) == oram[id] \ {NoNode}
Stored      == {id \in Id : Answers(id) # {}}

get_OrderBug(id) == lru_table       \* a hit is not a use

\* What a hit of get(id) does to the table.
get(id) == ToFront(lru_table, id)

put_TwiceBug(table, id, v) ==       \* an old entry stays in the table
    LET lru   == <<id>> \o table
        items == Set(cache_items, id, v)
    IN  IF Cardinality(DOMAIN items) > max_size
        THEN /\ cache_items' = Without(items, {lru[Len(lru)]})
             /\ lru_table' = SubSeq(lru, 1, Len(lru) - 1)
        ELSE /\ cache_items' = items
             /\ lru_table' = lru

put_FullBug(table, id, v) ==        \* the last entry is never used
    LET lru   == IF Cached(id) THEN ToFront(table, id) ELSE <<id>> \o table
        items == Set(cache_items, id, v)
    IN  IF Cardinality(DOMAIN items) >= max_size
        THEN /\ cache_items' = Without(items, {lru[Len(lru)]})
             /\ lru_table' = SubSeq(lru, 1, Len(lru) - 1)
        ELSE /\ cache_items' = items
             /\ lru_table' = lru

\* put(id, v) on the table that a get before it left.
put(table, id, v) ==
    LET lru   == IF Cached(id) THEN ToFront(table, id) ELSE <<id>> \o table
        items == Set(cache_items, id, v)
    IN  IF Cardinality(DOMAIN items) > max_size
        THEN /\ cache_items' = Without(items, {lru[Len(lru)]})
             /\ lru_table' = SubSeq(lru, 1, Len(lru) - 1)
        ELSE /\ cache_items' = items
             /\ lru_table' = lru
-----------------------------------------------------------------------------
\* The calls of a batch are over.
CallsEnd == calls' = 0 /\ used' = <<>>

\* What a failed batch left in the cache is dropped.
ODS_start ==
    /\ pc = "idle"
    /\ cache_items' = Empty /\ lru_table' = <<>>
    /\ pc' = "batch" /\ before' = Without(oram, damaged)
    /\ UNCHANGED <<max_size, server, calls, failures, used, latest, lost>>

Access(id) ==
    /\ pc = "batch" /\ calls < MaxCalls
    /\ calls' = calls + 1
    /\ used' = ToFront(used, id)

\* The value of a node is put; what put evicts was lost if it was dirty.
Put(table, id, v) ==
    /\ put(table, id, v)
    /\ latest' = Without(Set(latest, id, v), damaged)
    /\ lost' = (lost \ {id}) \cup (Dirty \ (DOMAIN cache_items' \cup {id} \cup damaged))

\* A node that is not cached is fetched and put.
Read(id) ==
    /\ Access(id)
    /\ \/ /\ Cached(id)
          /\ lru_table' = get(id)
          /\ UNCHANGED <<cache_items, lost>>
       \/ /\ ~Cached(id)
          /\ \E v \in Answers(id) : put(lru_table, id, v)
          /\ lost' = lost \cup (Dirty \ (DOMAIN cache_items' \cup damaged))
    /\ UNCHANGED <<max_size, server, pc, failures, before, latest>>

Write_RetIdBug(id, v) ==        \* put under the id that get returned, 0 for none
    /\ Access(id)
    /\ \/ Cached(id) /\ Put(get(id), id, v)
       \/ ~Cached(id) /\ id \in Stored /\ Put(lru_table, 0, v)
    /\ UNCHANGED <<max_size, server, pc, failures, before>>

Write_ThroughBug(id, v) ==      \* a node that is not cached is written to the ORAM as well
    /\ Access(id)
    /\ \/ Cached(id) /\ Put(get(id), id, v) /\ UNCHANGED oram
       \/ /\ ~Cached(id) /\ id \in Stored /\ Put(lru_table, id, v)
          /\ oram' = [oram EXCEPT ![id] = {v}]
    /\ UNCHANGED <<max_size, damaged, pc, failures, before>>

\* A node that is not cached is fetched first, and what is fetched forgotten.
Write(id, v) ==
    /\ Access(id)
    /\ \/ Cached(id) /\ Put(get(id), id, v)
       \/ ~Cached(id) /\ id \in Stored /\ Put(lru_table, id, v)
    /\ UNCHANGED <<max_size, server, pc, failures, before>>

Insert(id, v) ==
    /\ Access(id)
    /\ Put(lru_table, id, v)
    /\ UNCHANGED <<max_size, server, pc, failures, before>>

\* The node is looked up, fetched if it is not cached, and stays where it is.
Delete(id) ==
    /\ Access(id)
    /\ \/ Cached(id) /\ lru_table' = get(id)
       \/ ~Cached(id) /\ id \in Stored /\ UNCHANGED lru_table
    /\ UNCHANGED <<max_size, cache_items, server, pc, failures, before, latest, lost>>

\* What the batch wrote and has not flushed is lost: ODS_start drops it.
Throw ==
    /\ failures < MaxFailures /\ failures' = failures + 1
    /\ pc' = "idle" /\ CallsEnd
    /\ lost' = (lost \cup {id \in Dirty : cache_items[id] \notin oram'[id]}) \ damaged'
    /\ latest' = Without(latest, damaged') /\ before' = Without(before, damaged')
    /\ UNCHANGED <<max_size, cache>>

\* A bucket call fails in an access that was called for some nodes, none or one.  It damages
\* them and any nodes that have a block; written is what the server may have got of a write.
AccessFails(called, written) ==
    /\ \E held \in SUBSET Stored : damaged' = damaged \cup called \cup held
    /\ oram' = [id \in Id |->
                  oram[id] \cup (IF id \in damaged' THEN {NoNode} ELSE {})
                           \cup (IF id \in DOMAIN written THEN {written[id]} ELSE {})]

Fetching(id) == pc = "batch" /\ calls < MaxCalls /\ ~Cached(id)

FetchFails(id) ==
    /\ Fetching(id)
    /\ AccessFails({id}, Empty)
    /\ Throw

\* The ORAM returns nothing, which deserialize does not accept.
FetchFindsNothing(id) ==
    /\ Fetching(id) /\ NoNode \in oram[id]
    /\ UNCHANGED server
    /\ Throw

ODS_finalize ==
    /\ pc = "batch"
    /\ pc' = "flush" /\ CallsEnd
    /\ UNCHANGED <<max_size, cache, server, failures, before, latest, lost>>

\* A node is written to the ORAM.  A damaged one may have more copies than that.
WriteBack(id) ==
    /\ pc = "flush" /\ Cached(id)
    /\ oram' = [oram EXCEPT ![id] = (IF id \in damaged THEN @ ELSE {}) \cup {cache_items[id]}]
    /\ UNCHANGED <<max_size, lru_table, damaged, pc, calls, failures, used, before, latest, lost>>

FlushNext_TwoBegins(id) ==      \* pop drops another node than get returned
    /\ WriteBack(id)
    /\ \E other \in DOMAIN cache_items : cache_items' = Without(cache_items, {other})

FlushNext_NoPopBug(id) == WriteBack(id) /\ UNCHANGED cache_items

\* get() and pop() take the first item of the map, whichever that is; pop
\* leaves lru_table.
FlushNext(id) ==
    /\ WriteBack(id)
    /\ cache_items' = Without(cache_items, {id})

\* A call of the padding fails, or that for a node, which the server may have got.
FinalizeFails ==
    /\ pc = "flush"
    /\ \/ AccessFails({}, Empty)
       \/ \E id \in DOMAIN cache_items :
             \/ AccessFails({id}, Empty)
             \/ AccessFails({id}, Set(Empty, id, cache_items[id]))
    /\ Throw

FlushDone ==
    /\ pc = "flush" /\ DOMAIN cache_items = {}
    /\ pc' = "idle"
    /\ UNCHANGED <<max_size, cache, server, calls, failures, used, before, latest, lost>>

Flush == FlushDone \/ \E id \in Id : FlushNext(id)

Next ==
    \/ ODS_start \/ ODS_finalize \/ Flush \/ FinalizeFails
    \/ \E id \in Id :
          \/ Read(id) \/ Delete(id) \/ FetchFails(id) \/ FetchFindsNothing(id)
          \/ \E v \in Value : Write(id, v) \/ Insert(id, v)

Spec == Init /\ [][Next]_vars

\* The client thread runs the loop of ODS_finalize to its end.
FairSpec == Spec /\ WF_vars(Flush)
-----------------------------------------------------------------------------
Map(f) == DOMAIN f \subseteq Id /\ \A id \in DOMAIN f : f[id] \in Value

TypeOK ==
    /\ max_size \in Sizes
    /\ Map(cache_items) /\ Map(latest)
    /\ oram \in [Id -> SUBSET (Value \cup {NoNode})]
    /\ \A id \in damaged : NoNode \in oram[id]
    /\ \A id \in Id \ damaged : \E v \in Value \cup {NoNode} : oram[id] = {v}
    /\ lru_table \in Seq(Id) /\ used \in Seq(Id)
    /\ pc \in {"idle", "batch", "flush"}
    /\ calls \in Nat /\ failures \in Nat
    /\ damaged \subseteq Id /\ lost \subseteq Id
    /\ before \in [Id \ damaged -> SUBSET (Value \cup {NoNode})]

\* The map and the table, which every operation changes one after the other,
\* name the same nodes, each once; after a batch the table is out of date.
TableOfCache ==
    pc = "batch" =>
       /\ Ids(lru_table) = DOMAIN cache_items
       /\ \A i, j \in DOMAIN lru_table : lru_table[i] = lru_table[j] => i = j

\* A node that leaves the cache during a batch is the one least recently used.
EvictsOldest ==
    [][pc = "batch" /\ pc' = "batch" =>
         \A id \in DOMAIN cache_items \ DOMAIN cache_items', n \in DOMAIN cache_items' :
            \E i, j \in DOMAIN used' : i < j /\ used'[i] = n /\ used'[j] = id]_vars

\* What the next call of the client may find of a node.
Found(id) == IF pc # "idle" /\ Cached(id) THEN {cache_items[id]} ELSE oram[id]

\* Whatever is cached, evicted, flushed or left behind by a batch that failed,
\* a node has the value last written to it, unless that was evicted before it
\* was flushed, given up with its batch, or in the hands of a failed access.
NodesKept == \A id \in DOMAIN latest \ (lost \cup damaged) : Found(id) = {latest[id]}

\* A batch that fails in the middle of its flush, or before it, leaves a node as the
\* batch found it or as the batch left it, never with a value in between, if no
\* failed access had the node in its hands.
NothingBetween ==
    \A id \in Id \ damaged :
       oram[id] = before[id] \/ (id \in DOMAIN latest /\ oram[id] = {latest[id]})

\* Without a failure, a cache that has room for the nodes loses nothing.
NothingLost == failures = 0 /\ Cardinality(Id) <= max_size => lost = {}

\* A flush comes to its end.
FlushEnds == pc = "flush" ~> pc = "idle"
=============================================================================
