----------------------------- MODULE SealServer -----------------------------
(***************************************************************************)
(* SealService and the clients that call it.  The server keeps the buckets *)
(* of many ORAMs in memory, by map key and, for those of the document      *)
(* arrays, by ORAM id.  A client constructs controllers, each of which     *)
(* addresses one ORAM, and accesses them one at a time; every call of the  *)
(* server is a step, so those of several clients interleave.               *)
(*                                                                         *)
(* The two static members of Bucket belong to a process and are archived   *)
(* with every bucket, so deserializing a bucket overwrites those of the    *)
(* process that reads it: the server's in write_bucket, and a client's in  *)
(* ReadBucket.                                                             *)
(*                                                                         *)
(* A crash of the server loses every bucket, and a server started again    *)
(* keeps answering.  Handlers are atomic; gRPC runs them in several        *)
(* threads and nothing in SealService locks its maps.                      *)
(***************************************************************************)
EXTENDS OramTree, FiniteSets, Sequences

CONSTANTS
    Client, Key,
    Oram,           \* controllers, each constructed once in its client
    owner,          \* the client of every controller
    map_key, is_odict, oram_id,     \* the ORAM that a controller addresses
    size,           \* the bucket size every client was started with
    Address, Data, NoData,
    Content,        \* the data that is written through every controller
    MaxRestarts     \* bound on the times the server is started again

ASSUME OramAssumption ==
    /\ owner \in [Oram -> Client] /\ map_key \in [Oram -> Key]
    /\ is_odict \in [Oram -> BOOLEAN] /\ oram_id \in [Oram -> Nat]
    /\ size \in [Client -> Nat \ {0}]
    /\ Content \in [Oram -> SUBSET Data]
    /\ Address \subseteq Nat /\ NoData \notin Data

VARIABLES
    odict_storage,  \* map key -> buckets
    oram_storage,   \* map key -> sequence, by ORAM id, of buckets
    server,         \* the statics of the server process
    up,
    crashes,
    statics,        \* the statics of every client process
    position_map, stash, pc, level, oldLeaf, call, response,
    born,           \* history: crashes when the ORAM was set up
    truth           \* history: what was last written to an address

store   == <<odict_storage, oram_storage>>
process == <<server, up, crashes>>
control == <<level, oldLeaf, call, response, truth>>
vars == <<store, process, statics, position_map, stash, pc, control, born>>

Blocks(D) == [index : Address, data : D]
Block   == Blocks(Data)
Call(o) == [op : {"READ"}, index : Address, data : {NoData}]
             \cup [op : {"WRITE"}, index : Address, data : Content[o]]

Buckets == [Positions -> SUBSET Block]
Empty   == [k \in Positions |-> {}]
Statics == [is_init : BOOLEAN, max_size : {-1} \cup {size[c] : c \in Client}]
Unset   == [is_init |-> FALSE, max_size |-> -1]

Init ==
    /\ odict_storage = <<>> /\ oram_storage = <<>>
    /\ server = Unset /\ up = TRUE /\ crashes = 0
    /\ statics = [c \in Client |-> Unset]
    /\ position_map \in [Oram -> [Address -> Leaves]]
    /\ \A o \in Oram, a \in Address : a >= num_blocks => position_map[o][a] = 0
    /\ stash = [o \in Oram |-> {}]
    /\ pc = [o \in Oram |-> "none"]
    /\ level = [o \in Oram |-> 0]
    /\ oldLeaf = [o \in Oram |-> 0]
    /\ call \in [Oram -> [op : {"READ"}, index : Address, data : {NoData}]]
    /\ response = [o \in Oram |-> NoData]
    /\ born = [o \in Oram |-> 0]
    /\ truth = [o \in Oram |-> [a \in Address |-> NoData]]
-----------------------------------------------------------------------------
(***************************************************************************)
(* The server.                                                             *)
(***************************************************************************)

\* A map makes an empty vector for a key that it does not have.
OramsOf(key) == IF key \in DOMAIN oram_storage THEN oram_storage[key] ELSE <<>>

Present(o) ==
    IF is_odict[o] THEN map_key[o] \in DOMAIN odict_storage
    ELSE oram_id[o] < Len(OramsOf(map_key[o]))

\* Mutants (names ending in _...Bug) are plausible errors in the definition
\* that follows them; no action of Next uses one.
BucketsOf_KindBug(o) ==         \* the kind of the ORAM is not looked at
    IF map_key[o] \in DOMAIN odict_storage THEN odict_storage[map_key[o]]
    ELSE oram_storage[map_key[o]][oram_id[o] + 1]

BucketsOf(o) ==
    IF is_odict[o] THEN odict_storage[map_key[o]]
    ELSE oram_storage[map_key[o]][oram_id[o] + 1]

SetKey(f, key, value) ==
    [x \in DOMAIN f \cup {key} |-> IF x = key THEN value ELSE f[x]]

\* The ORAM ids of a key are consecutive: set_capacity refuses a later one.
Refused(o) == ~is_odict[o] /\ oram_id[o] > Len(OramsOf(map_key[o]))

set_capacity(o) ==
    LET key == map_key[o]
        v   == OramsOf(key)
    IN  \/ /\ is_odict[o]
           /\ odict_storage' = SetKey(odict_storage, key, Empty)
           /\ UNCHANGED oram_storage
        \/ /\ ~is_odict[o]
           /\ oram_storage' = SetKey(oram_storage, key,
                 IF oram_id[o] = Len(v) THEN Append(v, Empty)
                 ELSE IF oram_id[o] < Len(v) THEN [v EXCEPT ![oram_id[o] + 1] = Empty]
                 ELSE v)
           /\ UNCHANGED odict_storage

\* The bucket is replaced, and the statics with it.
Replace(o, k, B) ==
    /\ IF is_odict[o]
       THEN /\ odict_storage' = [odict_storage EXCEPT ![map_key[o]][k] = B]
            /\ UNCHANGED oram_storage
       ELSE /\ oram_storage' = [oram_storage EXCEPT ![map_key[o]][oram_id[o] + 1][k] = B]
            /\ UNCHANGED odict_storage
    /\ server' = statics[owner[o]]
    /\ UNCHANGED <<up, crashes>>

Die ==
    /\ odict_storage' = <<>> /\ oram_storage' = <<>>
    /\ server' = Unset /\ up' = FALSE /\ crashes' = crashes + 1

StrayWrite_CatchBug(o) ==       \* at() throws, and the catch answers OK
    /\ up /\ ~Present(o)
    /\ UNCHANGED <<store, process>>

\* write_bucket does not check its subscripts.  The catch around it does not
\* help: a vector that is empty has no memory to write to.  Behind the end of
\* one that is not, the write may also go to memory nobody reads; the bucket has
\* been deserialized by then, with its statics.
StrayWrite(o) ==
    /\ up /\ ~Present(o)
    /\ \/ Die
       \/ /\ ~is_odict[o] /\ OramsOf(map_key[o]) # <<>>
          /\ server' = statics[owner[o]]
          /\ UNCHANGED <<store, up, crashes>>

\* What a call of write_bucket does to the server, and whether the client
\* gets the status OK.
WriteOk(o, k, B) ==
    \/ up /\ Present(o) /\ Replace(o, k, B)
    \/ StrayWrite(o) /\ up'

WriteError(o) ==
    \/ ~up /\ UNCHANGED <<store, process>>
    \/ StrayWrite(o) /\ ~up'

Crash ==
    /\ up
    /\ Die
    /\ UNCHANGED <<statics, position_map, stash, pc, control, born>>

Restart ==
    /\ ~up /\ crashes <= MaxRestarts
    /\ up' = TRUE
    /\ UNCHANGED <<store, server, crashes, statics, position_map, stash, pc,
                   control, born>>
-----------------------------------------------------------------------------
(***************************************************************************)
(* The clients.                                                            *)
(***************************************************************************)
Busy(c) == \E o \in Oram : owner[o] = c /\ pc[o] \in {"create", "read", "evict"}

Throw(o) ==
    /\ pc' = [pc EXCEPT ![o] = IF @ \in {"none", "create"} THEN "none" ELSE "idle"]
    /\ level' = [level EXCEPT ![o] = 0]

\* The constructor of OramAccessController checks the size before that of
\* OramReadPathEviction resets it, so it throws when the size is another.
Construct(o) ==
    LET c == owner[o] IN
    /\ pc[o] = "none" /\ ~Busy(c)
    /\ statics[c].is_init => statics[c].max_size = size[c]
    /\ statics' = [statics EXCEPT ![c] = [is_init |-> TRUE, max_size |-> size[c]]]
    /\ IF up THEN set_capacity(o) ELSE UNCHANGED store
    /\ IF up /\ ~Refused(o)
       THEN /\ pc' = [pc EXCEPT ![o] = "create"]
            /\ born' = [born EXCEPT ![o] = crashes]
            /\ UNCHANGED level
       ELSE Throw(o) /\ UNCHANGED born
    /\ UNCHANGED <<process, position_map, stash, oldLeaf, call, response, truth>>

WriteInitialBucket_LastBug(o) ==        \* one position too many
    /\ pc[o] = "create"
    /\ \/ /\ WriteOk(o, level[o], {})
          /\ IF level[o] = num_buckets
             THEN /\ pc' = [pc EXCEPT ![o] = "idle"]
                  /\ level' = [level EXCEPT ![o] = 0]
             ELSE level' = [level EXCEPT ![o] = @ + 1] /\ UNCHANGED pc
       \/ WriteError(o) /\ Throw(o)
    /\ UNCHANGED <<statics, position_map, stash, oldLeaf, call, response, truth, born>>

\* The constructor writes a bucket of dummies to every position.
WriteInitialBucket(o) ==
    /\ pc[o] = "create"
    /\ \/ /\ WriteOk(o, level[o], {})
          /\ IF level[o] = num_buckets - 1
             THEN /\ pc' = [pc EXCEPT ![o] = "idle"]
                  /\ level' = [level EXCEPT ![o] = 0]
             ELSE level' = [level EXCEPT ![o] = @ + 1] /\ UNCHANGED pc
       \/ WriteError(o) /\ Throw(o)
    /\ UNCHANGED <<statics, position_map, stash, oldLeaf, call, response, truth, born>>

\* access draws a new leaf for the address, access_direct does not.
Start(o, c) ==
    /\ pc[o] = "idle" /\ ~Busy(owner[o])
    /\ pc' = [pc EXCEPT ![o] = "read"]
    /\ level' = [level EXCEPT ![o] = 0]
    /\ oldLeaf' = [oldLeaf EXCEPT ![o] = position_map[o][c.index]]
    /\ call' = [call EXCEPT ![o] = c]
    /\ response' = [response EXCEPT ![o] = NoData]
    /\ UNCHANGED <<store, process, statics, stash, born, truth>>

access(o, c) ==
    /\ Start(o, c)
    /\ \E newLeaf \in Leaves :
          position_map' = [position_map EXCEPT ![o][c.index] = newLeaf]

access_direct(o, c) == Start(o, c) /\ UNCHANGED position_map

ReadBucket_NoThrowBug(o) ==     \* a bucket that is missing is read as empty
    /\ pc[o] = "read" /\ level[o] < num_levels
    /\ IF up /\ Present(o)
       THEN /\ stash' = [stash EXCEPT ![o] = @ \cup BucketsOf(o)[P(oldLeaf[o], level[o])]]
            /\ statics' = [statics EXCEPT ![owner[o]] = server]
       ELSE UNCHANGED <<stash, statics>>
    /\ level' = [level EXCEPT ![o] = @ + 1]
    /\ UNCHANGED <<store, process, position_map, pc, oldLeaf, call, response, truth, born>>

ReadBucket_RetryBug(o) ==       \* the path is read again until it is there
    /\ pc[o] = "read" /\ level[o] < num_levels
    /\ IF up /\ Present(o)
       THEN /\ stash' = [stash EXCEPT ![o] = @ \cup BucketsOf(o)[P(oldLeaf[o], level[o])]]
            /\ statics' = [statics EXCEPT ![owner[o]] = server]
            /\ level' = [level EXCEPT ![o] = @ + 1]
       ELSE level' = [level EXCEPT ![o] = 0] /\ UNCHANGED <<stash, statics>>
    /\ UNCHANGED <<store, process, position_map, pc, oldLeaf, call, response, truth, born>>

\* read_bucket checks its subscripts, and gRPC turns the exception of at()
\* into a status that is not OK.
ReadBucket(o) ==
    /\ pc[o] = "read" /\ level[o] < num_levels
    /\ IF up /\ Present(o)
       THEN /\ stash' = [stash EXCEPT ![o] = @ \cup BucketsOf(o)[P(oldLeaf[o], level[o])]]
            /\ statics' = [statics EXCEPT ![owner[o]] = server]
            /\ level' = [level EXCEPT ![o] = @ + 1]
            /\ UNCHANGED pc
       ELSE Throw(o) /\ UNCHANGED <<stash, statics>>
    /\ UNCHANGED <<store, process, position_map, oldLeaf, call, response, truth, born>>

BlocksOf(o, a) == {b \in stash[o] : b.index = a}

ServeRead(o) ==
    /\ call[o].op = "READ"
    /\ \/ BlocksOf(o, call[o].index) = {} /\ UNCHANGED response
       \/ \E b \in BlocksOf(o, call[o].index) :
             response' = [response EXCEPT ![o] = b.data]
    /\ UNCHANGED stash

ServeWrite(o) ==
    /\ call[o].op = "WRITE"
    /\ stash' = [stash EXCEPT ![o] =
                   (@ \ BlocksOf(o, call[o].index))
                      \cup {[index |-> call[o].index, data |-> call[o].data]}]
    /\ UNCHANGED response

Serve(o) ==
    /\ pc[o] = "read" /\ level[o] = num_levels
    /\ ServeRead(o) \/ ServeWrite(o)
    /\ pc' = [pc EXCEPT ![o] = "evict"]
    /\ level' = [level EXCEPT ![o] = num_levels - 1]
    /\ truth' = IF call[o].op = "WRITE"
                THEN [truth EXCEPT ![o][call[o].index] = call[o].data] ELSE truth
    /\ UNCHANGED <<store, process, statics, position_map, oldLeaf, call, born>>

Evictable(o, l) ==
    {b \in stash[o] : P(position_map[o][b.index], l) = P(oldLeaf[o], l)}

\* The loop over the stash counts to the bucket size of the client.
Fills(o, S, l) ==
    /\ Cardinality(S) <= size[owner[o]]
    /\ Cardinality(S) = size[owner[o]] \/ S = Evictable(o, l)

Added_OffBug(o, S, B) ==        \* addBlock stops one block early
    LET max == statics[owner[o]].max_size IN
    /\ B \subseteq S
    /\ IF max = -1 \/ Cardinality(S) < max THEN B = S ELSE Cardinality(B) = max - 1

\* addBlock counts to the static one and drops what is more; -1 is converted
\* to unsigned and is no limit.
Added(o, S, B) ==
    LET max == statics[owner[o]].max_size IN
    /\ B \subseteq S
    /\ IF max = -1 \/ Cardinality(S) <= max THEN B = S ELSE Cardinality(B) = max

\* The blocks leave the stash whether or not the bucket is written.
EvictBucket(o) ==
    /\ pc[o] = "evict"
    /\ \E S \in SUBSET Evictable(o, level[o]) : \E B \in SUBSET S :
          /\ Fills(o, S, level[o]) /\ Added(o, S, B)
          /\ stash' = [stash EXCEPT ![o] = @ \ S]
          /\ \/ /\ WriteOk(o, P(oldLeaf[o], level[o]), B)
                /\ IF level[o] = 0
                   THEN pc' = [pc EXCEPT ![o] = "idle"] /\ UNCHANGED level
                   ELSE level' = [level EXCEPT ![o] = @ - 1] /\ UNCHANGED pc
             \/ WriteError(o) /\ Throw(o)
    /\ UNCHANGED <<statics, position_map, oldLeaf, call, response, truth, born>>

Step(o) == WriteInitialBucket(o) \/ ReadBucket(o) \/ Serve(o) \/ EvictBucket(o)

Next ==
    \/ Crash \/ Restart
    \/ \E o \in Oram :
          \/ Construct(o)
          \/ \E c \in Call(o) : access(o, c) \/ access_direct(o, c)
          \/ Step(o)

Spec == Init /\ [][Next]_vars

\* A client runs its operation to the end; a call that the server does not
\* answer fails.
Fairness == \A o \in Oram : WF_vars(Step(o))
FairSpec == Spec /\ Fairness
-----------------------------------------------------------------------------
Function(f, S, T) == DOMAIN f \subseteq S /\ \A x \in DOMAIN f : f[x] \in T

TypeOK ==
    /\ Function(odict_storage, Key, Buckets)
    /\ Function(oram_storage, Key, Seq(Buckets))
    /\ server \in Statics /\ statics \in [Client -> Statics]
    /\ up \in BOOLEAN /\ crashes \in Nat
    /\ position_map \in [Oram -> [Address -> Leaves]]
    /\ stash \in [Oram -> SUBSET Block]
    /\ pc \in [Oram -> {"none", "create", "idle", "read", "evict"}]
    /\ level \in [Oram -> Nat] /\ oldLeaf \in [Oram -> Leaves]
    /\ \A o \in Oram : pc[o] \in {"create", "idle"} => level[o] \in Positions
    /\ call \in [Oram -> UNION {Call(o) : o \in Oram}]
    /\ response \in [Oram -> Data \cup {NoData}]
    /\ born \in [Oram -> Nat]
    /\ truth \in [Oram -> [Address -> Data \cup {NoData}]]

\* Two controllers that address the same ORAM of the server.
Shared(o, p) ==
    /\ map_key[o] = map_key[p] /\ is_odict[o] = is_odict[p]
    /\ is_odict[o] \/ oram_id[o] = oram_id[p]

\* Nobody else uses the ORAM of the controller, and no other client its key.
Exclusive(o) ==
    \A p \in Oram \ {o} :
       /\ ~Shared(o, p)
       /\ map_key[o] = map_key[p] /\ is_odict[o] = is_odict[p] => owner[o] = owner[p]

\* The statics of a client with smaller buckets never reach this one.
Largest(o) == \A c \in Client : size[c] >= size[owner[o]]

\* What is written to the ORAM of a controller.
Mine(o) == UNION {Content[p] : p \in {q \in Oram : Shared(o, q)}}

\* Isolation: whatever the clients and the crashes do, the ORAM of a
\* controller and its stash hold only what was written to that ORAM; blocks of
\* another key, kind or ORAM id never get there.
NoForeignBlocks ==
    \A o \in Oram :
       /\ \A b \in stash[o] : b.data \in Mine(o)
       /\ Present(o) => \A k \in Positions : \A b \in BucketsOf(o)[k] : b.data \in Mine(o)

\* A READ that is served returns what was last written to its address, or
\* nothing if nothing was; the other clients and a restart between two calls
\* change nothing about that.
ReadExact ==
    \A o \in Oram :
       Exclusive(o) /\ Largest(o) /\ pc[o] = "evict" /\ call[o].op = "READ" =>
          response[o] = truth[o][call[o].index]

\* A server that lost its buckets is noticed: an operation that returns
\* without an exception ran in the server process in which the ORAM was set
\* up.  read_bucket refuses what it does not have; write_bucket dies.
RestartNoticed ==
    [][\A o \in Oram :
         Exclusive(o) /\ pc[o] \in {"create", "evict"} /\ pc'[o] = "idle" /\ up' =>
            born[o] = crashes]_vars

\* An operation returns or throws, also when the server is gone.
OperationEnds ==
    \A o \in Oram : pc[o] \in {"create", "read", "evict"} ~> pc[o] \in {"none", "idle"}

\* Bucket.cpp: "Max Bucket Size was already set".  The bucket size of a client
\* process does not change after it was set.
MaxSizeKept ==
    [][\A c \in Client : statics[c].is_init => statics'[c].max_size = statics[c].max_size]_vars

Tree(o) == INSTANCE PathOram
    WITH bucket_size  <- size[owner[o]],
         Data         <- Content[o],
         position_map <- position_map[o],
         stash        <- stash[o],
         oram_storage <- IF Present(o) /\ pc[o] \notin {"none", "create"}
                         THEN BucketsOf(o) ELSE Empty,
         pc           <- IF pc[o] = "none" \/ pc[o] = "create" THEN "idle" ELSE pc[o],
         level        <- IF pc[o] = "create" THEN 0 ELSE level[o],
         oldLeaf      <- oldLeaf[o],
         call         <- call[o],
         response     <- response[o]

Alone == {o \in Oram : Exclusive(o) /\ Largest(o)}

\* As long as the server does not crash, each ORAM that is Alone, as no other client
\* uses its key and nobody has smaller buckets, behaves as the PathOram of a client
\* that has the server for itself.
ImplementsPathOram ==
    /\ \A o \in Alone : Tree(o)!Init
    /\ [][\A o \in Alone : crashes' = 0 => [Tree(o)!Next]_(Tree(o)!vars)]_vars
=============================================================================
