---------------------------- MODULE KeywordIndex ----------------------------
(***************************************************************************)
(* The keyword index of Client: adj_data_in pads the <keyword, document>   *)
(* pairs of a table, puts <first occurrence, count> of every keyword into  *)
(* the dictionary, permutes the pairs and spreads them over 2^alpha ORAMs; *)
(* search walks back.  The dictionary is the map that ODict implements,    *)
(* and each ORAM the memory that PathOram implements.                      *)
(*                                                                         *)
(* A table has one column.  The client has one table: adj_data_in replaces *)
(* the ORAM of the dictionary, whose root it keeps.                        *)
(***************************************************************************)
EXTENDS SubArrays

CONSTANTS
    Keyword,    \* numbers, in the order of the strings
    x,          \* the base of the padding
    FarId       \* an id beyond every table and a number beyond every keyword

ASSUME KeywordAssumption == Keyword \subseteq Nat /\ 0 \notin Keyword
ASSUME FarAssumption == FarId \in Nat /\ \A w \in Keyword : w <= FarId
ASSUME PaddingAssumption == x \in Nat /\ x > 1

VARIABLES
    memory,     \* <keyword, document> pairs
    count,      \* the entries that search counts for a keyword
    sub_arrays, \* the pair of every slot
    failed,     \* history: the upload was broken off
    index,      \* the dictionary: <<iw, countw>> of every keyword
    todo,       \* keywords to pad
    keyword, i,
    touched     \* history: the pairs that the search has read

table  == <<memory, count, index, sub_arrays, stored, failed, todo>>
query  == <<keyword, i, ans, touched>>
vars   == <<rows, stream, table, pc, query>>

Pair == [keyword : Int, id : Nat, dummy : BOOLEAN]

Occurrences(w) == Cardinality({j \in DOMAIN rows : rows[j] = w})

Init ==
    /\ rows \in UNION {[1 .. n -> Keyword] : n \in 1 .. MaxRows}
    /\ stream \in Streams
    /\ memory = [j \in DOMAIN rows |-> [keyword |-> rows[j], id |-> j - 1, dummy |-> FALSE]]
    /\ todo = {rows[j] : j \in DOMAIN rows}
    /\ count = [w \in todo |-> Occurrences(w)]
    /\ pc = "pad"
    /\ index = <<>> /\ sub_arrays = <<>> /\ stored = {} /\ failed = FALSE
    /\ keyword = 0 /\ i = 0 /\ ans = <<>> /\ touched = {}
----------------------------------------------------------------------------
\* The least power of x that is at least c: pow(x, ceil(log(c) / log(x))).
PowerAbove(c) == CHOOSE s \in {Power(x, p) : p \in 0 .. c} :
                    s >= c /\ \A p \in 0 .. c : Power(x, p) >= c => s <= Power(x, p)

\* A dummy for every key.  Their ids are drawn from the size of memory upwards, and here
\* are as low as can be, or beyond every table.
Dummies(key, far) ==
    [k \in DOMAIN key |-> [keyword |-> key[k], dummy |-> TRUE,
                       id |-> IF far THEN FarId ELSE Len(memory) + k - 1]]

\* The loop runs from the count to the padded size inclusive: one pair more
\* than the size is kept for the keyword.
PadLoop(c) == PowerAbove(c) - c + 1

adj_padding_Keyword ==
    /\ pc = "pad" /\ todo # {}
    /\ LET w == CHOOSE v \in todo : \A u \in todo : v <= u IN
       /\ \E far \in BOOLEAN :
             memory' = memory \o Dummies([k \in 1 .. PadLoop(count[w]) |-> w], far)
       /\ count' = [count EXCEPT ![w] = PowerAbove(count[w])]
       /\ todo' = todo \ {w}
    /\ UNCHANGED <<rows, stream, pc, index, sub_arrays, stored, failed, query>>

\* Random keywords, which sort before or behind those of the table, bring the
\* memory to one pair more than x times its size.
adj_padding_Table ==
    /\ pc = "pad" /\ todo = {}
    /\ LET n == (x - 1) * Len(memory) + 1 IN
       \E far \in BOOLEAN, below \in BOOLEAN :
          LET key == [k \in 1 .. n |-> IF below THEN -k ELSE k + FarId] IN
          /\ memory' = memory \o Dummies(key, far)
          /\ count' = [w \in DOMAIN count \cup {key[k] : k \in 1 .. n} |->
                         IF w \in DOMAIN count THEN count[w] ELSE 1]
    /\ pc' = "insert"
    /\ UNCHANGED <<rows, stream, todo, index, sub_arrays, stored, failed, query>>
----------------------------------------------------------------------------
base == Base(Len(memory))
prp  == pseudo_random_permutation(stream, base)
Slot(p) == get_bits(base, prp[p], alpha)        \* of the p-th pair

EmptyPair == [keyword |-> 0, id |-> 0, dummy |-> TRUE]

first_occurrence(m, w) == CHOOSE j \in DOMAIN m : m[j].keyword = w
                             /\ \A k \in DOMAIN m : m[k].keyword = w => j <= k

Sorted_IdBug(m) == SortedBy(m, [j \in DOMAIN m |-> m[j].id])   \* by document
Sorted(m)       == SortedBy(m, [j \in DOMAIN m |-> m[j].keyword])

\* The pairs are sorted by keyword, the dictionary is filled and the pairs are
\* laid out in the sub arrays.
adj_insert ==
    /\ pc = "insert" /\ Power(2, base) <= StreamLength
    /\ LET sorted == Sorted(memory)
           slot   == [p \in DOMAIN memory |-> Slot(p - 1)] IN
       /\ memory' = sorted
       /\ index' = [w \in DOMAIN count |-> <<first_occurrence(sorted, w) - 1, count[w]>>]
       /\ sub_arrays' = [s \in Slots(base, alpha) |->
             LET here == {p \in DOMAIN sorted : slot[p] = s}
             IN  IF here = {} THEN EmptyPair
                 ELSE sorted[CHOOSE p \in here : \A q \in here : q <= p]]
    /\ pc' = "store"
    /\ UNCHANGED <<rows, stream, count, todo, stored, failed, query>>

AllSlots == DOMAIN sub_arrays

\* adj_oram_init_helper, which logs a call that fails.
StoreNext ==
    /\ UploadNext(AllSlots)
    /\ UNCHANGED <<rows, stream, memory, count, index, sub_arrays, failed, todo, query>>

StoreFails ==
    /\ UploadFails(AllSlots)
    /\ failed' = TRUE
    /\ UNCHANGED <<rows, stream, memory, count, index, sub_arrays, todo, query>>
----------------------------------------------------------------------------
search(w) ==
    /\ pc \in {"ready", "answered"}
    /\ keyword' = w /\ ans' = <<>> /\ touched' = {}
    /\ IF w \in DOMAIN index
       THEN pc' = "search" /\ i' = index[w][1]
       ELSE pc' = "answered" /\ i' = 0
    /\ UNCHANGED <<rows, stream, table>>

LastPair == index[keyword][1] + index[keyword][2]

SearchStep_StopBug ==           \* i < iw + countw
    /\ pc = "search" /\ i < LastPair /\ Slot(i) \in stored
    /\ LET doc == sub_arrays[Slot(i)] IN
       /\ ans' = IF doc.id < Len(memory) THEN Append(ans, doc) ELSE ans
       /\ touched' = touched \cup {doc}
    /\ i' = i + 1
    /\ pc' = IF i + 1 = LastPair THEN "answered" ELSE "search"
    /\ UNCHANGED <<rows, stream, table, keyword>>

SearchStep_LongBug ==           \* i <= iw + countw + 1
    /\ pc = "search" /\ i <= LastPair + 1 /\ Slot(i) \in stored
    /\ LET doc == sub_arrays[Slot(i)] IN
       /\ ans' = IF doc.id < Len(memory) THEN Append(ans, doc) ELSE ans
       /\ touched' = touched \cup {doc}
    /\ i' = i + 1
    /\ pc' = IF i = LastPair + 1 THEN "answered" ELSE "search"
    /\ UNCHANGED <<rows, stream, table, keyword>>

\* i runs from iw to iw + countw inclusive; ids from memory_size on are dropped.
SearchStep ==
    /\ pc = "search" /\ Slot(i) \in stored
    /\ LET doc == sub_arrays[Slot(i)] IN
       /\ ans' = IF doc.id < Len(memory) THEN Append(ans, doc) ELSE ans
       /\ touched' = touched \cup {doc}
    /\ i' = i + 1
    /\ pc' = IF i = LastPair THEN "answered" ELSE "search"
    /\ UNCHANGED <<rows, stream, table, keyword>>

\* An ORAM that has no block returns an empty string, which unpad or the
\* deserialization does not survive.
SearchThrows ==
    /\ pc = "search" /\ Slot(i) \notin stored
    /\ pc' = "thrown"
    /\ UNCHANGED <<rows, stream, table, query>>

Next ==
    \/ adj_padding_Keyword \/ adj_padding_Table
    \/ adj_insert \/ StoreNext \/ StoreFails
    \/ \E w \in Keyword : search(w)
    \/ SearchStep \/ SearchThrows

Spec == Init /\ [][Next]_vars
-----------------------------------------------------------------------------
\* The types; every slot that is written or read is one of the sub arrays, for
\* any number of ORAMs.
TypeOK ==
    /\ memory \in Seq(Pair)
    /\ \A w \in DOMAIN count : count[w] \in Nat
    /\ sub_arrays = <<>> \/ AllSlots = Slots(base, alpha)
    /\ stored \subseteq AllSlots
    /\ pc \in {"pad", "insert", "store", "ready", "search", "answered", "thrown"}
    /\ ans \in Seq(Pair)
    /\ pc = "search" => i \in 0 .. Len(memory) - 1 /\ Slot(i) \in AllSlots

\* A search that returns finds the documents that have the keyword, each of
\* them once, and no other document of the table: padding, sorting, permuting
\* and splitting lose nothing, and a broken upload does not make a search
\* return less than everything.  There must not be more ORAMs than positions,
\* for then all pairs go to one slot.
SearchExact ==
    pc = "answered" /\ alpha <= base =>
       LET real == {k \in DOMAIN ans : ~ans[k].dummy} IN
       /\ {ans[k].id : k \in real} = {j - 1 : j \in {l \in DOMAIN rows : rows[l] = keyword}}
       /\ Cardinality(real) = Occurrences(keyword)

PairsOf(w) == {p \in DOMAIN memory : memory[p].keyword = w}

\* The reads of a search tell the server the padded count only.  The loops of
\* the padding and of the search agree, so the reads are as many as the pairs of
\* the keyword, and no two keywords that are padded to the same power of x can
\* be told apart by them.
VolumePadded ==
    pc = "answered" /\ keyword \in DOMAIN index =>
       /\ i - index[keyword][1] = Cardinality(PairsOf(keyword))
       /\ \A w \in Keyword \cap DOMAIN index :
             PowerAbove(Occurrences(w)) = PowerAbove(Occurrences(keyword)) =>
                Cardinality(PairsOf(w)) = Cardinality(PairsOf(keyword))

\* A search reads pairs of its own keyword, padding included, so two searches
\* for different keywords read no slot in common.
OwnPairsOnly == alpha <= base => \A d \in touched : d.keyword = keyword

\* A broken upload ends the process only in a search for a keyword of which it has
\* lost a pair itself: no search stops at a pair of its neighbour, or at a slot
\* that has no pair.
ThrowsForOwn == pc = "thrown" => \E p \in PairsOf(keyword) : Slot(p - 1) \notin stored
=============================================================================
