# A TLA+ model of SSE-SEAL

SSE-SEAL is a searchable-encryption client and server in C++. A client keeps an
encrypted table on an untrusted server and searches it by keyword and by range.
The server stores trees of buckets and answers reads and writes of one bucket
at a time; everything that makes the search work is in the client.

## 1. The system's parts

| part | source | state | operations |
|---|---|---|---|
| Path ORAM client | `src/oram/OramReadPathEviction.cpp`, `Bucket.cpp`, `Block.cpp`, `RandForOram*.h` | position map, stash, sizes; bucket size and leaf bound are static | constructor, `access`, `access_direct` |
| remote storage | `src/oram/ServerStorage.cpp` | capacity, the ORAM it stands for | `setCapacity`, `ReadBucket`, `WriteBucket` |
| server | `src/server/SealService.cpp` | one array of buckets per dictionary and per (map key, ORAM id); the statics of its process | `set_capacity`, `read_bucket`, `write_bucket` |
| access controller | `src/client/OramAccessController.cpp` | one ORAM | `oblivious_access`, `oblivious_access_direct` |
| oblivious dictionary | `src/client/Client.cpp` (`find`, `insert`, `balance`, rotations), `Objects.h` | AVL tree in the ORAM, root id, counters | `insert`, `find` |
| client cache | `ClientCache.h`, `src/client/Client.cpp` (`ODS_*`) | nodes of the batch, their order of use | `get`, `put`, `clear`, `pop`, `ODS_start`, `ODS_access`, `ODS_finalize` |
| keyword index | `src/client/Client.cpp` (`adj_*`, `search`) | padded sorted documents split over 2^alpha ORAMs, counts per keyword | `adj_data_in`, `search` |
| range index | `src/utils.cpp`, `src/client/Client.cpp` (`search_range*`) | tree T1, one array of ORAMs per column | `build_tree_t1`, `add_internal_nodes_for_tree_t1`, `single_range_cover`, `search_range` |
| SQL connector | `src/Connector.cpp` | one connection, one transaction | create, insert, select |
| cipher | `src/crypto/sm4.cpp` | round keys | pad, encrypt, decrypt, unpad |

A search goes from the keyword index to the dictionary (which entry of the
sorted documents, how many), from the dictionary through the cache to its ORAM,
then to the ORAMs of the documents; each access of an ORAM is a sequence of
bucket reads and writes at the server.

Everything in one client runs in one thread that waits for every answer of the
server. The server answers any number of clients, one bucket at a time, keeps
everything in memory and may be gone or started anew between any two calls. The
interesting behaviour is therefore in

- what is read before a change and used after it: the leaf of a block (Path
  ORAM), copies of tree nodes (dictionary), position tags (cache);
- long sequences of legal calls, after which a block may lie off its path, a
  tree be unbalanced or a node be unreachable;
- calls that fail in the middle of an access, of which nothing is undone and
  which one caller (`adj_oram_init_helper`) catches and survives;
- limits: a full bucket, powers of two, padding loops, intervals that must
  meet without a gap;
- static members and fixed ids that several ORAMs, tables or clients share;
- calls of several clients that meet at the server, and a server that has lost
  its buckets and does not say so when it is written to.

What makes each part correct:

| part | correct when |
|---|---|
| Path ORAM client | no block is lost or doubled; each is on the path of its leaf; a read returns the last write; eviction is greedy, so the stash stays small; a failed call damages no more than it touched |
| access pattern | the paths of two accesses cannot be linked |
| oblivious dictionary | the tree stays a search tree and an AVL tree; it implements a map over any batches; calls return; tags are right; batches have a fixed length |
| keyword index | a search returns exactly the documents of its keyword, and its reads show only a padded count; dummies are filtered |
| range index | one node covers the range, as tightly as its tree allows; the search returns the documents of the range |
| client cache | table and map agree; the least recently used node is evicted; a node that was written is found as it was written |
| server, statics | ORAMs do not disturb each other; reads are exact for each client; a restart is noticed; operations end |
| connector | what is reported as done is committed |
| cipher | decrypting inverts encrypting, padding included; the standard's example is met |

## 2. The modules

```
ObliviousMemory                 Dictionary          SealUtils
      ^                             ^                |- PathOramRpc
      | implements                  | implements     |- SubArrays
      |                             |                    |- KeywordIndex
  PathOram                        ODict                  |- RangeIndex
      ^                                             OramTree
      | each implements PathOram,                    |- PathOram
      | - until a call fails:                        |   |- AccessPattern
      |     PathOramRpc                              |- PathOramRpc
      | - every ORAM, until the server crashes:      |- SealServer
      |     SealServer
                                                    Sm4
  ClientCache                                        |- MCSm4 (with Sm4Tables)
```

A `-` below a module is a module that extends it. The theorems about a module `M` are in `MProofs`, for `PathOram`,
`PathOramRpc`, `SealServer`, `ODict`, `ClientCache` and `Sm4`; those about `KeywordIndex` and
`RangeIndex`, which share lemmas about slots, are in `IndexProofs`. `SealUtilsProofs` has the lemmas they all
share.

| module | models | how |
|---|---|---|
| `OramTree` | the tree of buckets (`P`, `num_leaves`, the capacity) | operators; no state |
| `ObliviousMemory` | what an ORAM promises | abstract: a call is made, takes effect once, and returns |
| `PathOram` | `OramReadPathEviction` with calls that succeed | `position_map`, `stash`, `oram_storage`, the running access |
| `PathOramRpc` | the same with vectors and failing calls | adds `failures` and two history variables |
| `AccessPattern` | what the server sees of the dictionary's accesses | `PathOram` with a log of the paths read |
| `Dictionary` | what the dictionary promises | abstract: a map from keys to nodes |
| `SealServer` | `SealService`, `ServerStorage`, `OramAccessController`, the statics of `Bucket`, several clients | every call of the server is a step; crash and restart |
| `ODict` | `insert`, `find`, `ODS_*`, `balance`, rotations, the cache without eviction | recursion as a stack of frames |
| `ClientCache` | `Cache` and `ODS_*` on it, with eviction and failing calls | a map and a sequence by use |
| `Sm4`, `Sm4Tables` | `sm4.cpp` | words as sets of bits; one step per round |
| `SealUtils` | `pseudo_random_permutation`, `get_bits`, the powers and logarithms and the sorting the indexes use | recursive functions; no state |
| `SubArrays` | the rows, the key stream and the upload of the sub arrays of both indexes | constants, assumptions, variables and two actions |
| `KeywordIndex` | `adj_data_in` and `search` | from padding to the answer, with broken uploads |
| `RangeIndex` | tree T1, `adj_insert_range`, its upload, `search_range` | operators and a machine, with broken uploads |
| `MC*` | sizes for TLC | model values, key streams, symmetry |
| `*Proofs` | the theorems | see section 6 |

Definitions keep the names of the code. A definition whose name ends in `Bug`
is a plausible error in the definition that follows it; nothing uses it, and
it is there to show that a property would notice that error.

### Path ORAM

An access of the code is `access_handler`: remap, read the path, serve, write
the path back. In the model `access` or `access_direct` starts it, each bucket
read is one `ReadPathBucket`, `Serve` is the work on the stash, and each bucket
written is one `EvictBucket`. `pc` says which loop is running and `level` is its
counter, so every state the server can see between two calls is a state of the
model. An address outside the position map (`operator[]` of the map makes a 0)
is an address that is at least `num_blocks` and starts at leaf 0.

`PathOram` has the stash and the buckets as sets: which of too many fitting
blocks are evicted depends on the order of the vector and is left open. So the
theorems hold for every order. `PathOramRpc` has the vectors, searches from
the front, erases by the first block of the address, and fills a bucket from
the front. It also has `ReadBucketFails` and `WriteBucketFails`:
`ServerStorage` throws, the access stops where it is, and the next one starts
from there. A write that fails may have reached the server or not. `truth` is
the set of answers that a read may give, `touched` the addresses that a failed
access had in its hands.

The dummies that fill a bucket on the wire are left out: reading a path skips them. `leaf_id` in a block is
left out: the code sets it when the block is made, does not update it, and
never reads it, though `Block.h` calls it the leaf "to which it belongs".

### Server and clients

`SealServer` puts several clients on one server. A controller `o` stands for one
`OramAccessController`: constants say whose it is (`owner`) and which ORAM it
addresses (`map_key`, `is_odict`, `oram_id`). `Construct` is the constructor up to
`setCapacity`, with the check of the static bucket size before it;
`WriteInitialBucket` is one round of the loop that fills the tree; `access`,
`access_direct`, `ReadBucket`, `Serve` and `EvictBucket` are those of `PathOram`
with the server at the other end. Between any two of them another client, or
another call of the environment, may run; the controllers of one client exclude
each other (`Busy`), as the client has one thread.

`Present` is the condition under which the subscripts of the handlers exist.
`read_bucket` uses `at()`, whose exception gRPC turns into an error, and the
client throws. `write_bucket` uses `operator[]`: with nothing there, the write
goes to an empty vector and the process ends, or goes behind the end of a vector
that has other elements and may go unnoticed (`StrayWrite`), but for the statics, which
deserializing the bucket has set by then. A call fails only when the server is gone or has
not got the bucket: a server that is up does not drop single calls. Those are the subject of
`PathOramRpc`, for one ORAM. `Die` is the end of
the server process: the maps are gone, and so are its statics. `Restart` brings
an empty server back. `crashes` counts the processes, `born` remembers in which
of them an ORAM was set up.

`statics` are `is_init` and `max_size` of every process. `Bucket::serialize`
archives them with the bucket, so `Replace` sets the server's from the writer's
and `ReadBucket` the reader's from the server's. `Added` is `addBlock`: it counts
to the static size, while the eviction loop counts to the ORAM's own.

`Tree(o)` is `PathOram` for one controller. `ImplementsPathOram` says that as
long as the server does not crash, each ORAM on a key that no other client uses, and
whose buckets nobody's are smaller than (`Alone`), behaves
as if its client were alone: construction and the steps of everybody else
stutter.

### Oblivious dictionary

`ODS_start` opens a batch with an empty cache, `ODS_finalize` gives every
cached node a new tag, writes the cache to the ORAM and closes it. `insert` and
`find` start a call. `insert_priv` is recursive: `Descend` is one call on the
way down, which reads a node and keeps a copy in `frames` (the local variable
`root`); `Attach` is the call that finds an empty subtree; `Ascend` is one return,
which links the child, writes the copy and balances. That the copy may be older
than the cached node is the point of the module. `Rotate` is both single
rotations (side 1 is left), `DoubleRotate` both double ones. `find_priv` walks
down one node per step. `SearchTree` asks that the nodes met from the root are in the order of
their keys, and that they are all nodes. The ORAM under it is one function from ids to nodes,
which is what `ObliviousMemory` says it is. Under the mapping of `ODict` a call is a
request of `Dictionary`, which names the key asked for; an insertion takes
effect when the outermost `insert_priv` has returned, and until then the map is the
nodes without the new one.

### Client cache

`ClientCache` has what `ODict` leaves out: the table of use, eviction, and calls of
the ORAM that fail. A node is its id and a value. The ORAM under it is the memory that
`FailureConfined` of `PathOramRpc` promises: `oram` has for each node the set of answers a READ may
give, which is one for a node that no failed access had in its hands. `AccessFails` is an access in which a
bucket call fails: it damages the node it was called for and any others, those that were in
the stash and on the path (`damaged`), and such a node may from then on be
missing or old. A fetch that finds nothing fails as well (`FetchFindsNothing`), as
`deserialize` does not accept the empty text. `get` and `put` are the functions
of `Cache`, `Read`, `Write`, `Insert` and `Delete` the branches of `ODS_access`. `FlushNext`
writes back and pops one node, whichever is first in the unordered map. `Throw` is
an exception: the batch ends where it is, the next one clears the cache. `lost` is the
history of values that were dropped, by eviction or with their batch;
`NodesKept` says that nothing else ever is but what is damaged, and `NothingLost` that a cache with
room for all nodes, which the client constructs (`INT_MAX` entries), drops nothing.
`NothingBetween` is about the batch that fails, in the middle of its flush say: each node
that is not damaged is in the ORAM as the batch found it or as the batch last put it, nothing
older and nothing in between. The histories of a node end when it is damaged.

### Cipher

`Sm4` runs `encrypt_SM4_EBC` on a message and `decrypt_SM4_EBC` on its result. A word
is the set of its one bits, so it may have bits above the 31st, as an `unsigned
long` of 64 bits has. A step is one round of the key schedule or of a block. When
the block was `lost` in the ORAM, decryption gets an empty text, and `unpad` reads
before an empty buffer ("crash"). The S-box and the parameters are constants of
`Sm4`; `Sm4Tables` has those of the code, and `MCSm4` puts them together.

### Keyword index

`adj_padding_Keyword` pads one keyword, `adj_padding_Table` the table;
`adj_insert` sorts, fills the dictionary and lays the pairs out in sub arrays;
`StoreNext` writes one slot to its ORAM; `StoreFails` is a failing call that the
helper logs; both are the upload of `SubArrays` (`UploadNext`, `UploadFails`). `search` looks a keyword up and `SearchStep` reads one slot. A
document is its id; a dummy is marked so that properties can tell it, and the code
cannot see the mark. `stream` is the deterministic random stream of the key. A slot that
the upload did not write, or lost again, ends the process when it is read ("thrown"), as the empty text does
in `unpad`. `SearchExact` is about searches that return, `ThrowsForOwn` about those
that do not: they are searches for a keyword that has lost a pair itself.

`get_bits` is modelled for every `alpha`. When there are more ORAMs than positions the width
`base - alpha` wraps, and the shift by more than 31 (`utils.cpp:134`) is undefined; with the x86-64
build of the Makefile every document gets the slot <<0, 0>> (`alpha` up to 32), which is what the model
has. The types are checked and proved for that case too; that searches are exact, and read their own
pairs only, is stated for `alpha <= base`.

### Range index

`RangeIndex` builds T1 from the sorted pairs as the code does (`build_tree_t1` with
pairs of siblings and the nodes between them), finds the cover of a range, and
reads the entries. Search works on a sorted array of all pairs while T1 holds document ids:
the module keeps both. `StoreRange` and `StoreRangeFails` are the upload of `SubArrays`;
a search reads one slot per step, and ends the process when the slot is not there
(`RangeThrowsForOwn`: only for a range that has a document whose slot was lost). A table has any rows from one on,
and a row one of the values 1 to 8 or one of two strings that are none, below and above them
(`Cell`). Names
begin with `Range` where the keyword index has the same, as `IndexProofs` extends both.

## 3. Runs

| run | instance | shows |
|---|---|---|
| `path_oram` | 3 blocks, 3 levels, buckets of 1, 2 addresses of which one is not in the position map, 2 values | `TypeOK`, `OnePlace`, `BlockOnItsPath`, `GreedyEviction`, `ImplementsMemory`, `AccessReturns` |
| `oram_rpc` | 2 levels, 2 addresses, 2 values, 2 failures | `FailureConfined`, `CopiesBounded`, `ImplementsPathOram` |
| `dict_paths` | 2 levels, 2 addresses | `PathsUnlinked` is violated |
| `odict` | 6 keys, 6 nodes, 2 calls a batch | `TypeOK`, `SearchTree`, `AVLBalanced` |
| `odict_map` | 4 keys, 5 nodes | `ImplementsDictionary`, `CallReturns` |
| `keyword_search` | 1 to 3 rows of 3 keywords, 2 streams, 2 ORAMs | `TypeOK`, `SearchExact`, `VolumePadded`, `OwnPairsOnly`, `ThrowsForOwn` |
| `range_search` | 1 to 3 rows of values 1 to 8 and two strings that are none, every range, 2 streams, 2 ORAMs, broken uploads | `RangeTypeOK`, `CoverComplete`, `CoverTight`, `SortedExact`, `RangeThrowsForOwn` |
| `range_rows` | 2 rows | `RangeExact` is violated |
| `seal_server` | 2 clients, 4 controllers, 2 keys, 1 crash and restart | `TypeOK`, `NoForeignBlocks`, `ReadExact`, `RestartNoticed`, `OperationEnds`, `ImplementsPathOram` |
| `bucket_statics` | the same with bucket sizes 2 and 1 | `MaxSizeKept` is violated |
| `client_cache` | 3 nodes, 2 values, caches of 2 and 3 entries, 4 calls a batch, 1 failure that damages any nodes | `TypeOK`, `TableOfCache`, `NodesKept`, `NothingBetween`, `NothingLost`, `EvictsOldest`, `FlushEnds` |
| `sm4` | 7 messages of 0 to 31 bytes, 2 keys | `TypeOK`, `RoundTrip`, `KnownAnswers` |

The smallest run is the one that violates a property at once; the largest
(`oram_rpc`) has 2.7 million states.

### Why the bounds are enough

- *Tree and buckets.* With buckets of one block two addresses fill a bucket of the
  shared levels, so blocks stay in the stash,
  meet on shared levels and move down and up again. Three levels are the least
  with a bucket that is neither root nor leaf. Runs of the ORAM have no bound on
  the number of accesses: they explore all of them. The theorems remove the
  bounds altogether.
- *MaxFailures = 2.* One failure leaves two copies of a block; the second may
  hit an access that has just read both. The bound `2^failures` of `CopiesBounded`
  is met at both.
- *MaxNodes, MaxCalls.* Six nodes in any order are enough for each single and
  double rotation at the root and below it, and for one that rebalances a
  tree in which an earlier one took place. Two calls in a batch are the least with
  which the second works on cached nodes that the first changed; batches
  follow each other without bound until the nodes are used up. `num_leaves`
  is 1 where tags play no part.
- *Rows, streams.* Three rows give counts of 1, 2 and 3, on both sides of a power
  of `x` = 2, with and without equal keywords; the padded table has up to 13
  pairs in 16 slots, split over two ORAMs. Two key streams give two different
  permutations; that every stream gives one is proved (`PermutationHolds`). `StreamLength`
  is the bound on the numbers of a stream, 16 for 16 slots (4 for the 4 slots that three rows
  have in the range index); the stream of the code ends nowhere.
- *FarId* is an id beyond every table, `MaxLost` = 1 the blocks that a failed
  access loses. Dummy ids are random above a bound: the lowest ids possible and
  ids out of reach are the two cases a filter can tell apart.
- *Server.* The run has trees of one bucket, because each controller multiplies
  the states: two levels and three controllers are already too many. One bucket
  is enough for everything that is between controllers, as the
  server treats every position alike. What more levels add, loops that are
  interrupted between two buckets, is in the theorems, which hold for every size, and in
  `oram_rpc`. The four controllers are the least that have a pair
  with different keys, one with one key and different ids (whose order of
  construction `set_capacity` checks), and one with one key and different kinds; one
  controller is on a key that the other client uses too. One restart
  puts every call before, between and after the two processes. Each controller that
  writes has a value of its own, by which a block from elsewhere is recognised.
- *Cache.* Sizes below, and equal to, the number of nodes; four calls are enough to fill a
  cache of three, use a node again, and evict another. One failure, in a fetch or in the
  flush, damages any of the nodes, and batches go on after it without bound; the theorems are for any number.
- *Sm4.* Lengths on both sides of a multiple of the block and the multiple
  itself; bytes that look like padding (1, 2, 16) and do not (0, 255). The theorem
  is about every message.
- *Range.* The client fixes the range of values to 1 to 8, and so do the runs. A table of one
  row has one position for two ORAMs, so the shift that wraps is in the run. Left out are strings that sort
  between the digits, like "10", and empty tables.
- *Logarithms.* `ceil(log(a) / log(b))` of the code is the exact logarithm in the models. In
  doubles the quotient may come out above a whole number (x = 5 and 125 pairs give 4, a base of 2^29 gives 30), and the power
  of the code is then one too high: more padding, or unused positions. Such sizes are beyond the runs.

`CHECK_DEADLOCK FALSE` is set for the keyword and the range index, where a read of a
block that is not there ends the process ("thrown"), and for `sm4`, which runs one
message to its end. Symmetry is used
for data values, only in `oram_rpc`, which has no liveness property.

### Fairness

`PathOram` assumes weak fairness of the steps of a running access, and nothing
about when one starts: the client is one thread, whose loops have nothing to
wait for but answers, and `AccessReturns` is stated where calls do return.
`ODict` assumes the same of the steps of a running call, and not that a
batch is ever started or ended. `SealServer` assumes it of the steps of each
controller: a call that the server does not answer fails, so a step is always possible, and
`OperationEnds` must hold although the server may stay away for ever.
`ClientCache` assumes it of the loop of `ODS_finalize`. The condition on `Ascend` is the definition of
weak fairness with its enabling condition written out. Nothing is assumed of
the server or of failing calls.

## 4. Where code and documentation differ

Each of these is a run that must find its property violated.

1. `dict_paths`: `access_direct` draws a new leaf and drops it
   (`OramReadPathEviction.cpp:150`), so a node of the dictionary is always read on
   one path. `Client.h:120` says the accesses are oblivious.
2. `range_rows`: `search_range` uses document ids as subscripts of the array sorted by
   value (`Client.cpp:957`): exact for a sorted table (`SortedExact` in
   `range_search`), not for another one. `Client.h:418` says that the documents in
   the range are found.
3. `bucket_statics`: a bucket is archived with the static bucket size of the process that
   sends it (`Bucket.h:36`), and deserializing it overwrites the receiver's. A client that writes sets the
   server's (`SealService.cpp:129`); a client that reads any bucket, one of its own in
   the run, gets the size that the last writer, another client, left in the server
   (`SealService.cpp:111`). `Bucket.cpp:88` says
   "Max Bucket Size was already set" and means to refuse that. The client
   then drops blocks in `addBlock` when the size is
   smaller, and cannot construct a controller any more.

These were found while modelling, and need no exploration to see:

4. `ClientCache.h:182` writes the tag 0 for a child that the batch has not read, while
   `Objects.h:85` says the child's tag is stored. Nothing is lost by it today because
   `access_direct` does not use the tags (see 1).
5. The loops of `Client.cpp:199` and `:225` make one dummy access more than the batch has
   made real ones, whatever the bound is. `Client.h:127` promises a fixed length.
6. Dummy ids are drawn above the number of pairs at the time, and filtered by the
   final number (`Client.cpp:634`), so `search` may return dummies.
   `Client.cpp:620` says they can be filtered out. `SearchExact` is about
   the real documents for this reason.
7. `Client.h:278` says that a keyword is padded "to the nearest power of x", and
   `Client.cpp:642` that the table is padded "to x * N". The loops (`Client.cpp:632`, `:643`) run to their
   bound inclusive, so a keyword gets a pair more than the next power of x that is not below its count, and the
   table one more than x times its pairs; `search` reads inclusively too (`Client.cpp:894`), one more than
   the recorded count. The three agree with each other, which is what `VolumePadded`, `OwnPairsOnly` and
   `ThrowsForOwn` say, and the number of reads still depends on the power only; it is the
   documented sizes that are not those of the code.
8. Nothing checks that there are at least as many positions as ORAMs. A column of fewer than `2^alpha` rows
   collapses into slot <<0, 0>> (see section 2), and a range search over it returns one document for
   every row it looks for.
9. `main.cpp:20` says that the cache cannot evict when it is full. `client_cache`
   shows it: with two entries `lost` is reached, with three it is not.

## 5. Hazards

`PROJECT.json` lists what is hard to test in this code, line by line, with
the properties that watch it. Those without a property say why: a path
without choices (the second `adj_data_in`, the padding loops, the tags), a data race, a
failure of libsodium, the byte before an empty buffer, an ORAM id that two clients use at once.

## 6. Proofs

The theorems hold for every tree, bucket size, set of addresses, keys and values, and
every bound of the runs. They assume what the modules' `ASSUME`s say, and nothing else:

| module | assumptions |
|---|---|
| `OramTree` | `SizeAssumption`: sizes are positive naturals; `RoomAssumption`: the tree has room for all blocks (the constructor throws otherwise); `PowersOfTwo`: `2^n` has the two equations of a power, which the provers do not know of their own |
| `PathOram` | `AddressAssumption`: addresses are naturals; `DataAssumption`: `NoData` is no value |
| `SealServer` | `OramAssumption`: every controller has a client, a key, a kind and an id; sizes are positive |
| `ClientCache` | `IdAssumption`: ids are not 0; `NodeAssumption`: `NoNode` is no value; `SizeAssumption`: a cache has room for one node |
| `ODict` | `KeyAssumption`, `BoundAssumption`: keys and bounds are naturals, there is a leaf |
| `SubArrays` | `MaxRows` and `alpha` are naturals (`RowsAssumption`, `AlphaAssumption`); a stream is `StreamLength` naturals (`StreamAssumption`), and only a table that needs no more is uploaded |
| `KeywordIndex` | keywords are positive naturals (`KeywordAssumption`); `FarId` is beyond them (`FarAssumption`); the base of the padding is at least 2 (`PaddingAssumption`) |
| `RangeIndex` | none of its own; its tables have a row at least, of a value 1 to 8, which the client fixes, or a string below or above them |
| `Sm4` | messages are sequences of bytes, keys have 16 (`MessageAssumption`, `KeyAssumption`); the S-box gives bytes and the parameters have 32 bits (`TableAssumption`) |

`LevelsApart` and `PositionOfLevel` of `SealUtilsProofs` speak of any depth `N` and have
the equations of `2^n` up to `N` as a hypothesis (`PowersUpTo(N)`); `PowersOfTwo`
meets it wherever they are used. `RoomIsEnough` is for finitely many nodes.

### What is proved

| theorem | of | states |
|---|---|---|
| `TypeCorrect`, `OnePlaceHolds`, `BlockOnItsPathHolds`, `GreedyEvictionHolds` | `PathOram` | `TypeOK`, `OnePlace`, `BlockOnItsPath`, `GreedyEviction` |
| `MemoryImplemented` | `PathOram` | `ImplementsMemory` |
| `CopiesBoundedHolds`, `FailureConfinedHolds` | `PathOramRpc` | `CopiesBounded`, `FailureConfined` |
| `PathOramImplemented` | `PathOramRpc` | `ImplementsPathOram` |
| `ServerTypeCorrect`, `Isolation`, `ReadIsExact` | `SealServer` | `TypeOK`, `NoForeignBlocks`, `ReadExact` |
| `RestartIsNoticed`, `PathOramImplemented` | `SealServer` | `RestartNoticed`, `ImplementsPathOram` |
| `TypeCorrect`, `StaysSearchTree`, `StaysBalanced` | `ODict` | `TypeOK`, `SearchTree`, `AVLBalanced` |
| `DictionaryImplemented` | `ODict` | `ImplementsDictionary` |
| `CacheTypeCorrect`, `TableMatchesCache`, `NodesAreKept`, `NothingBetweenHolds`, `RoomIsEnough`, `EvictsOldestHolds` | `ClientCache` | `TypeOK`, `TableOfCache`, `NodesKept`, `NothingBetween`, `NothingLost`, `EvictsOldest` |
| `TypeCorrect`, `OwnPairsHolds`, `VolumeHolds`, `SearchExactHolds`, `ThrowsForOwnHolds` | `KeywordIndex` | `TypeOK`, `OwnPairsOnly`, `VolumePadded`, `SearchExact`, `ThrowsForOwn` |
| `RangeTypeCorrect`, `CoverCompleteHolds`, `CoverTightHolds`, `SortedExactHolds`, `RangeThrowsForOwnHolds` | `RangeIndex` | `RangeTypeOK`, `CoverComplete`, `CoverTight`, `SortedExact`, `RangeThrowsForOwn` |
| `Sm4TypeCorrect`, `RoundTripHolds` | `Sm4` | `TypeOK`, `RoundTrip` |
| `PermutationHolds`, `GetBitsInjective`, `GetBitsInSlots` | `SealUtils` | every key stream gives a permutation; the slots of different pairs are different, if there are not more ORAMs than positions, and always inside their ORAMs |
| `SortHolds` | `SealUtils` | `SortedBy` permutes its sequence into the order of the keys |
| `PositionOfLevel`, `LevelsApart` | `SealUtils`, `OramTree` | the buckets of a path are in the storage; two paths meet in a level at one bucket only, and never across levels |

### The arguments

*Path ORAM.* `BlockOnItsPath` speaks of the time between accesses and is not
inductive. During an access blocks are in two places, and the address called
has a new leaf while its block is still on the path of the old one. `IInv` says
what holds then: `OnePlace` leaves out the buckets whose blocks were copied
(`Copied`); `CopiedInStash` says that a bucket read has its blocks in the stash,
so that serving and evicting from the stash lose nothing; `Placed` says which path a block
is on, the old one for the address called until the path has been read, and
leaves out the buckets still to be replaced (`Stale`); `NoAnswerYet` is needed
for the refinement. Writing a level back keeps `Placed` because two leaves that share a bucket of a
level are compared with the path being written (`P` at that level), and buckets of
different levels never coincide (`LevelsApart`). `GreedySoFar` is the same for
eviction: the levels written are full or hold all that fits, and a block never
enters the stash while levels are written. In the refinement, the start of an access is a call,
`Serve` the one step that changes or reads the memory, and the last `EvictBucket` the return; every
other step stutters.

*Vectors and failures.* Blocks of an address may be many here, and sets no longer tell how many,
so the proof counts. `Live` are the blocks of an address that stay, `Stale` those
in buckets that have been read and will be replaced, `Bound` is 1 for an address that no failed
access had in its hands and `2^failures` for the others. `CountInv` is `Live <= Bound`, and one
less while no block is `Reachable`, that is, in the stash or on the path that the next access
reads: a WRITE adds a block only when it finds none, and then there is room for
it. A failure turns the stale blocks into blocks that stay; there are at most as many of them as
of the others (while reading they are copied in the stash), so the bound doubles.
`FailureConfined` needs with it that every block holds data its address may
have (`Truthful`), that an address which may have no block may also read as nothing (`MayBeGone`), and
what a WRITE under way has left (`Overwritten`). The bound is 1 everywhere until
the first failure: then every block is in one place, a vector is as good as a set, and each
step is one of `PathOram`.

*Server.* `SInv` strengthens the types by where the level of a loop is
(`ControlInv`), and `NoForeignBlocks` is inductive with it: a block comes into a stash from
the ORAM the controller addresses, and controllers address different entries of the maps or
share what they write (`Mine`). `RestartNoticed` needs `RInv`: while an exclusive controller
is at work, either its ORAM is in the running server, and then it was set up in this very
process, or the server has nothing under the key, so the write that would end
the operation ends the server. That is why the clients of a
key must be the same (`Exclusive`): a vector that another client filled would take the stray
write without a trace.

`ReadExact` needs the invariant of `PathOram` for each controller by itself, in a server that may go away
at any point of an operation. `AccessInv` says that as long as the ORAM is `Present`, it is
`Sound`: the blocks that are not to be replaced lie on their paths and hold what was last written. Once the
path has been read that is no longer what matters: `Answerable` says of the stash alone that it
has the answer, which stays true when the server dies before the answer is given.
A client whose buckets are smaller than another's is left out (`Largest`), because the static size that
it reads with their buckets makes `addBlock` drop blocks (see 4.3). Until the first
crash (`UpInv`) every ORAM that was set up is present, and the same facts give
the refinement of `PathOram`.

*Oblivious dictionary.* The nodes are the cache laid over the ORAM (`Nodes`). `DInv` says that they are an AVL
search tree (`Avl`) except while `insert_priv` returns. `Shape` is the search tree: a function `D` gives every
node its descendants, the keys on either side of a node are smaller or greater, and no node
has two parents. `Level` is the AVL condition of one node with the heights as stored. On the way
down the pending calls are a path from the root (`Path`), whose copies are what the
nodes are; that is the hazard of the frames, and it holds because a call changes nodes only below the
frames that are still pending. On the way up one slot of the path is `Loose`: what the last
call returned is not linked to it yet, and its height may have grown by one, of which the parent knows nothing. Each
return links it and balances, in four cases; a rotation is proved once, for a
node and a side (`Tilted`, `Turned`), and a double rotation is two of them, of which
the first leaves a tree that is not yet balanced. Recursive functions over the tree
(`SearchTree` collects keys, `AVLBalanced` heights) are met through
lemmas that such a function exists and has the equations of its definition (`Iterates` here, `Recursion` in
`SealUtilsProofs`), and the depth they compute is the height the nodes keep (`DepthIsHeight`). For
`Dictionary`, only the outermost return changes the map: until then the nodes
without the new one have the same keys, and `find` loses no key because what it has passed cannot hold it
(`Covers`).

*Keyword index.* `Padding` has the number of pairs of every keyword in the middle of padding,
`Genuine` that the pairs that are not dummies are those of the rows. After
the table is sorted the pairs of a keyword are contiguous (`SortHolds`, and dummies of the table sort
below or above every keyword), and the slots of the pairs are different: the positions are permuted
(`PermutationHolds`) and `get_bits` is injective where `alpha <= base`; `Laid` says so. So a slot that `search` reads holds
the pair of that position, whatever part of the upload failed, or
nothing, and then the client ends. `Searching` and `Answered` say which documents have been read so far. The first slot that
a search finds empty is that of a pair of its own keyword, since the recorded count is one
less than the pairs there are and the loop stops there (`ThrowsForOwn`).
That every key stream gives a permutation is the invariant of the exchanges by which the code makes it.

*Range index.* T1 depends on no table, so its four levels and the pairs of neighbours are computed
(`Levels`, `PairsAre`): the only nodes that have a parent are `<<3, 4>>` and `<<5, 6>>`. On the seven
nodes of two values and more the recursion of `cover` has a solution
(`CoverUnfolds`), and from its equations node by node follows that the cover of a range is a node that contains the
range and is at most twice as wide (`AllWide`); that is `CoverTight`. `CoverComplete` is then
about sequences: `find_all` lists the documents of one value, each once, because the sorted array is a permutation of
the ids, and putting such lists for different values one behind the other
repeats none (`Enumerates`). For `SortedExact`, different positions have different slots (`OwnSlot`, of which the
keyword index makes use as well), so a read returns the document of its
position; and rows that ascend are their own sorted order, so a position is an id. `RangeInv` is
inductive: it adds to these facts that the table fits the stream (`Fits`), and that what has been
read so far is what was asked for (`Looked`). `RangeThrowsForOwn` follows from `CoverComplete`:
only documents of the range are read.

*Cache.* `CacheInv` is nearly inductive as the properties stand: `NodesKept` needs
`TableOfCache`, because what `put` evicts is the last of the table and must be another
node than the one it just put in front, which holds when no id is in the table twice and a
cache has room for one node. A node that is not damaged has one answer (`OneAnswer`), so a fetch that
returns it returns its last value; every failing access leaves those as they are (`BatchFails`). For
`NothingBetween`, `BetweenInv` adds that until the flush begins the ORAM is as the batch
found it, and that what is cached is what was found there or what was last put. `EvictsOldest` needs `OrderInv`: the table has its ids in the order in which they
were last used (`Ahead`), which the history `used` tells. Most of the proof is about the sequence: what erasing an
id, putting it in front and dropping the last entry leave.

*Cipher.* Decryption runs the same rounds with the subkeys reversed, so the `n`-th round of
decryption undoes the last but `n`-th of encryption: `CInv` says that on the lower 32
bits (`Low`) the words of one are those of the other from the other end, round
by round and block by block. The upper bits never get into a byte. That `sm4F` is its own
inverse needs nothing of the S-box, which is why it is a constant.

### Only model-checked

- `KnownAnswers` of `Sm4`: it is about the values of the tables.
- *Liveness*: `AccessReturns`, `CallReturns`, `OperationEnds`, `FlushEnds`. The prover does
  neither fairness nor `ENABLED`.
- The three properties that the code violates (section 4).

The library's induction theorems take an operator, which the provers cannot instantiate. Where a proof needs induction, over levels,
the steps of a recursion or the size of a finite set, it is done with a set: the
numbers for which a statement holds contain 0 and with every number the next
(`UpwardInduction` in `SealUtilsProofs`).

## 7. Not modelled

- *SQL connector* and the handlers that call it (`setup`, `insert_handler`,
  `select_handler`): the client does not call them any more, and what they do depends
  on transactions of libpqxx, which is not in the repository.
- *Threads of gRPC inside the server*: handlers are atomic. Nothing in `SealService`
  locks its maps, so two of them at once are a data race, whose
  outcomes no model can list.
- *A second table in one client*: `adj_data_in` throws at its first insertion, because
  `root_id` names a node of the first table, and so does every keyword search after it.
- *The static leaf bound of `RandomForOram`*: all ORAMs of a client are constructed with one
  `block_number`.
- *`remove` of the dictionary*: nothing calls it.
- *Wire format, generated code, vendored libraries, base64, random numbers, the
  runners*: I/O or other projects' code. Leaves and ids drawn at random are any
  leaf and the extreme ids. Four fifths of the lines of the repository are such
  code (the generated messages, cereal, rapidcsv, plog, base64). Of the 5,400
  lines of its own code, licence texts, comments, declarations and runners included, the
  modules stand for about a third.
- *What ciphertexts hide*: not a property of states.
- *Time and the size of the stash in probability*: TLA+ has no probability;
  `GreedyEviction` is what the bound in the literature rests on.

## 8. Plan

Done, in this order: `OramTree`, `PathOram` with `ObliviousMemory` and their proofs,
`PathOramRpc`, `AccessPattern`, `ODict` with `Dictionary`, `SealUtils` and its
proofs, `KeywordIndex`, `RangeIndex`, `SealServer` and its proofs, `ClientCache` and `Sm4` with
their proofs, broken uploads of `RangeIndex`; then the proofs of `ODict` and its refinement, of `ReadExact` and
the refinement of `SealServer`, of `KeywordIndex`, of `PathOramRpc` and its refinement, of
`EvictsOldest`, and of `RangeIndex`.

Of the safety properties that the runs check and the code keeps, only `KnownAnswers` has no proof. What could come
next: T1 over other values than 1 to 8, for which `cover` would need an argument over
levels and not node by node; a table of several columns, whose pairs go through the same sub
arrays; and a second table in one client, once the code resets `root_id`.
