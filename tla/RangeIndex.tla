----------------------------- MODULE RangeIndex -----------------------------
(***************************************************************************)
(* Range search: tree T1 over the values 1 .. 8 gives the documents below  *)
(* the one node that covers the range, and an array of the documents in    *)
(* the order of their values, permuted and spread over 2^alpha ORAMs, is   *)
(* read for each.  A node of T1 is the pair of the ends of its range; the  *)
(* nodes that add_internal_nodes_for_tree_t1 makes are parents of two.     *)
(*                                                                         *)
(* adj_oram_init_helper_range uploads the arrays as SubArrays says.  It    *)
(* logs a call that fails and returns, and searches run on what is there.  *)
(*                                                                         *)
(* The names of the specification begin with Range, so that one module can *)
(* extend both indexes.                                                    *)
(***************************************************************************)
EXTENDS SubArrays, SequencesExt

Low  == 1       \* the range is fixed in adj_data_in
High == 8
Value == Low .. High
Cell  == Low - 1 .. High + 1    \* 0 and 9 stand for the strings that are no value

VARIABLES
    sorted_documents,   \* document ids in the order of their values
    lower, upper,       \* the range looked for
    doc_subscripts      \* what T1 gave

column      == <<rows, sorted_documents, stream>>
range_query == <<lower, upper, doc_subscripts, ans>>
range_vars  == <<column, stored, pc, range_query>>

range_base == Base(Len(rows))

\* A table has no more positions than the key stream has numbers, which is a bound.
RangeInit ==
    /\ rows \in UNION {[1 .. n -> Cell] : n \in 1 .. MaxRows}
    /\ Power(2, range_base) <= StreamLength
    /\ sorted_documents =
          SortedBy([j \in DOMAIN rows |-> j - 1], rows)
    /\ stream \in Streams
    /\ stored = {}
    /\ pc = "store" /\ lower = 0 /\ upper = 0
    /\ doc_subscripts = <<>> /\ ans = <<>>
----------------------------------------------------------------------------
Mid(n) == (n[1] + n[2]) \div 2
Left(n)  == <<n[1], Mid(n)>>
Right(n) == <<Mid(n) + 1, n[2]>>
Root == <<Low, High>>

\* The nodes of each level from left to right; those of build_tree_t1 end at
\* single values.
Below(nodes) == [k \in 1 .. 2 * Len(nodes) |->
                   IF k % 2 = 1 THEN Left(nodes[(k + 1) \div 2]) ELSE Right(nodes[k \div 2])]
level_result == LET l1 == Below(<<Root>>) l2 == Below(l1)
                IN  <<<<Root>>, l1, l2, Below(l2)>>

NoNode == <<0, 0>>

\* The second and third node of a level get a parent, the fourth and fifth ...
Paired_EvenBug(k) == k % 2 = 1          \* neighbours of one subtree
Paired(k)         == k % 2 = 0

Pairs == UNION {{<<nodes[k], nodes[k + 1]>> : k \in {m \in 1 .. Len(nodes) - 1 : Paired(m)}} :
                   nodes \in {level_result[l] : l \in DOMAIN level_result}}

parent == [n \in Value \X Value |->
             IF \E p \in Pairs : n \in {p[1], p[2]}
             THEN LET p == CHOOSE q \in Pairs : n \in {q[1], q[2]} IN <<p[1][1], p[2][2]>>
             ELSE NoNode]

Merged_AnyBug(a, b, n) == IF a # NoNode THEN a ELSE n   \* whatever the right one's is
Merged(a, b, n)        == IF a # NoNode /\ a = b THEN a ELSE n

\* The nodes of two values or more.
Inner == {n \in UNION {{nodes[k] : k \in DOMAIN nodes} :
                           nodes \in {level_result[l] : l \in DOMAIN level_result}} : n[1] < n[2]}

\* single_range_cover at node n, for the ends of every range.  Nodes of two
\* values are not searched further.
cover[n \in Inner] ==
    [q \in Value \X Value |->
        IF n[2] - 1 = n[1] THEN n
        ELSE IF q[1] > Mid(n) THEN cover[Right(n)][q]
        ELSE IF q[2] <= Mid(n) THEN cover[Left(n)][q]
        ELSE LET a == parent[cover[Left(n)][<<q[1], Mid(n)>>]]
                 b == parent[cover[Right(n)][<<Mid(n) + 1, q[2]>>]]
             IN  Merged(a, b, n)]

single_range_cover == cover[Root]

\* The documents of a value, in the order of the sorted pairs.
find_all(v) ==
    LET matches[k \in 0 .. Len(sorted_documents)] ==
           IF k = 0 THEN <<>>
           ELSE IF rows[sorted_documents[k] + 1] = v
                THEN Append(matches[k - 1], sorted_documents[k])
                ELSE matches[k - 1]
    IN  matches[Len(sorted_documents)]

\* The values of the node that are in the range.
Matching_AllBug(n, lo, hi) == n[1] .. n[2]      \* all of the node
Matching(n, lo, hi) == {v \in n[1] .. n[2] : lo <= v /\ v <= hi}

Subscripts(values) ==
    FlattenSeq([k \in 1 .. High |-> IF k \in values THEN find_all(k) ELSE <<>>])
----------------------------------------------------------------------------
slot_of == LET prp == pseudo_random_permutation(stream, range_base)
            IN  [p \in 0 .. Len(rows) - 1 |-> get_bits(range_base, prp[p], alpha)]

\* adj_insert_range: the p-th of the sorted documents is in slot slot_of[p], where a later
\* one replaces it.
Stored(p) == LET slot == slot_of
                 here == {q \in DOMAIN slot : slot[q] = slot[p]}
             IN  sorted_documents[1 + CHOOSE q \in here : \A o \in here : o <= q]

RangeSlots == Slots(range_base, alpha)

\* adj_oram_init_helper_range, which logs a call that fails.
StoreRange      == UploadNext(RangeSlots) /\ UNCHANGED <<column, range_query>>
StoreRangeFails == UploadFails(RangeSlots) /\ UNCHANGED <<column, range_query>>

search_range(lo, hi) ==
    /\ pc = "ready"
    /\ lower' = lo /\ upper' = hi
    /\ doc_subscripts' = Subscripts(Matching(single_range_cover[<<lo, hi>>], lo, hi))
    /\ pc' = "search" /\ ans' = <<>>
    /\ UNCHANGED <<column, stored>>

\* search_range_helper takes the id of a document for its subscript in the
\* sorted array.
Reading == slot_of[doc_subscripts[Len(ans) + 1]]

\* A slot is read for every document that T1 gave.
search_range_helper ==
    /\ pc = "search"
    /\ \/ /\ Len(ans) < Len(doc_subscripts) /\ Reading \in stored
          /\ ans' = Append(ans, Stored(doc_subscripts[Len(ans) + 1]))
          /\ UNCHANGED pc
       \/ /\ Len(ans) = Len(doc_subscripts)
          /\ pc' = "answered" /\ UNCHANGED ans
    /\ UNCHANGED <<column, stored, lower, upper, doc_subscripts>>

\* A block that is not in its ORAM, or whose ORAM was never constructed, ends
\* the process: unpad reads before an empty buffer.
RangeThrows ==
    /\ pc = "search" /\ Len(ans) < Len(doc_subscripts) /\ Reading \notin stored
    /\ pc' = "thrown"
    /\ UNCHANGED <<column, stored, range_query>>

\* The caller gets the documents; the variables of the search are gone.
Return ==
    /\ pc = "answered"
    /\ pc' = "ready"
    /\ lower' = 0 /\ upper' = 0 /\ doc_subscripts' = <<>> /\ ans' = <<>>
    /\ UNCHANGED <<column, stored>>

RangeNext ==
    \/ StoreRange \/ StoreRangeFails
    \/ \E lo, hi \in Value : search_range(lo, hi)
    \/ search_range_helper \/ RangeThrows \/ Return

RangeSpec == RangeInit /\ [][RangeNext]_range_vars
-----------------------------------------------------------------------------
Matches == {j - 1 : j \in {k \in DOMAIN rows : lower <= rows[k] /\ rows[k] <= upper}}
Searched == pc \in {"search", "answered", "thrown"}

RangeTypeOK ==
    /\ pc \in {"store", "ready", "search", "answered", "thrown"}
    /\ stored \subseteq RangeSlots
    /\ \A k \in DOMAIN ans : ans[k] \in 0 .. Len(rows) - 1
    /\ \A k \in DOMAIN doc_subscripts : doc_subscripts[k] \in 0 .. Len(rows) - 1
    /\ slot_of \in [0 .. Len(rows) - 1 -> RangeSlots]

\* One node of T1 covers every range, so T1 gives the documents of the range,
\* each once, whatever the rows are.
CoverComplete ==
    Searched => /\ {doc_subscripts[k] : k \in DOMAIN doc_subscripts} = Matches
                /\ Len(doc_subscripts) = Cardinality(Matches)

\* The node is at most twice as wide as the range: so many documents at most are
\* looked at in vain.  It is for this that pairs of neighbours get a parent.
CoverTight ==
    Searched /\ lower <= upper =>
       LET n == single_range_cover[<<lower, upper>>]
       IN  n[2] - n[1] + 1 <= 2 * (upper - lower + 1)

\* When the rows of the table come in the order of their values, a search that
\* returns gives the documents of the range; a broken upload does not make it
\* return others.  There must not be more ORAMs than positions, for then all
\* documents go to one slot.
SortedExact ==
    pc = "answered" /\ alpha <= range_base /\ (\A k \in 1 .. Len(rows) - 1 : rows[k] <= rows[k + 1]) =>
       {ans[k] : k \in DOMAIN ans} = Matches

\* A broken upload ends the process only in a search for a range that has a
\* document whose own slot it has lost: the other documents below the node that
\* covers the range are not read.
RangeThrowsForOwn == pc = "thrown" => \E d \in Matches : slot_of[d] \notin stored

\* Client.h says of every search: "Search the document whose keywords are in
\* the given range".
RangeExact == pc = "answered" => {ans[k] : k \in DOMAIN ans} = Matches
=============================================================================
