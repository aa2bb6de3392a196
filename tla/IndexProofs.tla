---------------------------- MODULE IndexProofs ----------------------------
(***************************************************************************)
(* The two indexes of Client, for any tables, key streams and failures of  *)
(* the upload.                                                             *)
(*                                                                         *)
(* KeywordIndex, for any keywords and padding base: a search that returns  *)
(* gives the documents that have the keyword, it reads pairs of its own    *)
(* keyword only, and as many as the padded count says.                     *)
(*                                                                         *)
(* RangeIndex: tree T1 covers every range with a node that is at most      *)
(* twice as wide and gives its documents, each once, and a search that     *)
(* returns gives them too if the rows come in the order of their values.   *)
(***************************************************************************)
EXTENDS KeywordIndex, RangeIndex, SealUtilsProofs, SequenceTheorems

-----------------------------------------------------------------------------
(* Both lay their pairs or documents out in slots.                         *)

SlotOf(n, st, p) == get_bits(Base(n), pseudo_random_permutation(st, Base(n))[p], alpha)

(* Every pair or document has a slot, of its own if there are not more ORAMs than positions. *)
LEMMA OwnSlot ==
  ASSUME NEW n \in Nat, NEW st \in Streams, Power(2, Base(n)) <= StreamLength
  PROVE  /\ \A p \in 0 .. n - 1 : SlotOf(n, st, p) \in Slots(Base(n), alpha)
         /\ alpha <= Base(n) =>
              \A p, q \in 0 .. n - 1 : SlotOf(n, st, p) = SlotOf(n, st, q) => p = q
<1> DEFINE b == Base(n)
           I == Power(2, b)
           f == pseudo_random_permutation(st, b)
<1>1. b \in Nat /\ I \in Nat /\ I >= n
  BY BaseDigits
<1>2. alpha \in Nat
  BY AlphaAssumption
<1> HIDE DEF b
<1>3. f \in Permutation(I)
  <2>1. StreamLength \in Nat /\ st \in [0 .. StreamLength - 1 -> Nat]
    BY StreamAssumption
  <2>2. I <= StreamLength
    BY DEF b
  <2> QED BY <1>1, <2>1, <2>2, PermutationHolds
<1>4. \A p \in 0 .. n - 1 : p \in 0 .. I - 1 /\ f[p] \in 0 .. I - 1 /\ f[p] \in Nat
  <2> HIDE DEF f, I
  <2>1. \A p \in 0 .. n - 1 : p \in 0 .. I - 1
    BY <1>1
  <2> QED BY <1>1, <1>3, <2>1 DEF Permutation
<1>5. \A p \in 0 .. n - 1 : SlotOf(n, st, p) = get_bits(b, f[p], alpha)
  BY DEF SlotOf, b
<1>6. ASSUME NEW p \in 0 .. n - 1 PROVE SlotOf(n, st, p) \in Slots(b, alpha)
  BY <1>1, <1>2, <1>4, <1>5, GetBitsInSlots
<1>7. ASSUME alpha <= b,
             NEW p \in 0 .. n - 1, NEW q \in 0 .. n - 1, SlotOf(n, st, p) = SlotOf(n, st, q)
      PROVE  p = q
  <2>0. alpha \in 0 .. b
    BY <1>1, <1>2, <1>7
  <2>1. f[p] \in Nat /\ f[q] \in Nat /\ get_bits(b, f[p], alpha) = get_bits(b, f[q], alpha)
    BY <1>4, <1>5, <1>7
  <2> HIDE DEF f
  <2>2. f[p] = f[q]
    BY <1>1, <2>0, <2>1, GetBitsInjective
  <2> HIDE DEF I
  <2> QED BY <1>3, <1>4, <2>2 DEF Permutation
<1> QED BY <1>6, <1>7 DEF b

(* Slots are pairs of numbers. *)
LEMMA SlotNumbers == \A n \in Nat : Slots(n, alpha) \subseteq Nat \X Nat
<1> SUFFICES ASSUME NEW n \in Nat PROVE Slots(n, alpha) \subseteq Nat \X Nat
  OBVIOUS
<1> DEFINE a == 0 .. Power(2, alpha) - 1
           c == 0 .. ArraySize(n, alpha) - 1
<1>1. a \subseteq Nat /\ c \subseteq Nat
  OBVIOUS
<1> QED BY <1>1 DEF Slots

(* The ORAMs have a slot. *)
LEMMA SlotPlenty ==
  ASSUME NEW b \in Nat
  PROVE  Slots(b, alpha) # {}
<1>1. alpha \in Nat
  BY AlphaAssumption
<1>2. Power(2, alpha) \in Nat \ {0} /\ ArraySize(b, alpha) \in Nat \ {0}
  <2>1. CASE alpha <= b
    <3>1. b - alpha \in Nat
      BY <1>1, <2>1
    <3> QED BY <1>1, <2>1, <3>1, PowerOfTwo DEF ArraySize
  <2>2. CASE ~(alpha <= b)
    BY <1>1, <2>2, PowerOfTwo DEF ArraySize
  <2> QED BY <2>1, <2>2
<1> DEFINE y == Power(2, alpha)
           z == ArraySize(b, alpha)
<1>3. Slots(b, alpha) = (0 .. y - 1) \X (0 .. z - 1)
  BY DEF Slots
<1>4. y \in Nat \ {0} /\ z \in Nat \ {0}
  BY <1>2
<1> HIDE DEF y, z
<1>5. <<0, 0>> \in Slots(b, alpha)
  BY <1>3, <1>4
<1> QED BY <1>5

-----------------------------------------------------------------------------
(* The keyword index.                                                      *)

Words(rs)  == {rs[j] : j \in DOMAIN rs}
Occ(rs, w) == Cardinality({j \in DOMAIN rs : rs[j] = w})

At(m, w)   == {j \in DOMAIN m : m[j].keyword = w}
Real(m, w) == {j \in At(m, w) : ~m[j].dummy}

\* The pairs that are not dummies are those of the rows.
Genuine(rs, m) ==
    /\ \A w \in Keyword :
          /\ {m[j].id : j \in Real(m, w)} = {j - 1 : j \in {l \in DOMAIN rs : rs[l] = w}}
          /\ Cardinality(Real(m, w)) = Occ(rs, w)
    /\ \A j \in DOMAIN m : ~m[j].dummy => m[j].id < Len(m)

\* What is known of keyword w before and after it is padded.
Bare(rs, m, c, w) == c[w] = Occ(rs, w) /\ Cardinality(At(m, w)) = Occ(rs, w)
Full(rs, m, c, w) == c[w] = PowerAbove(Occ(rs, w))
                     /\ Cardinality(At(m, w)) = PowerAbove(Occ(rs, w)) + 1

Padding ==
    /\ todo \subseteq Words(rows) /\ DOMAIN count = Words(rows)
    /\ \A w \in Words(rows) : IF w \in todo THEN Bare(rows, memory, count, w)
                              ELSE Full(rows, memory, count, w)

Padded(rs, m, c) ==
    /\ Words(rs) \subseteq DOMAIN c /\ DOMAIN c \cap Keyword = Words(rs)
    /\ \A w \in Words(rs) : Full(rs, m, c, w)
    /\ Len(m) >= 5

\* The dictionary says where the pairs of a keyword are, and every pair has a
\* slot, in which no other pair replaces it if there are not too many ORAMs.
Laid(rs, st, m, idx, sub) ==
    /\ DOMAIN idx \cap Keyword = Words(rs)
    /\ \A w \in Words(rs) :
          /\ idx[w][1] \in Nat /\ idx[w][2] = PowerAbove(Occ(rs, w))
          /\ At(m, w) = idx[w][1] + 1 .. idx[w][1] + idx[w][2] + 1
    /\ DOMAIN sub = Slots(Base(Len(m)), alpha) /\ \A s \in DOMAIN sub : sub[s] \in Pair
    /\ \A p \in DOMAIN m : /\ SlotOf(Len(m), st, p - 1) \in DOMAIN sub
                           /\ alpha <= Base(Len(m)) => sub[SlotOf(Len(m), st, p - 1)] = m[p]

\* What a search has got from the pairs that it has read.
Answer(m, from, to, a) ==
    LET read == {p \in from .. to : ~m[p].dummy}
        real == {k \in DOMAIN a : ~a[k].dummy}
    IN  /\ {a[k].id : k \in real} = {m[p].id : p \in read}
        /\ Cardinality(real) = Cardinality(read)

Searching ==
    /\ keyword \in Words(rows)
    /\ i \in index[keyword][1] .. LastPair
    /\ alpha <= base => Answer(memory, index[keyword][1] + 1, i, ans)

Answered ==
    /\ keyword \in Keyword
    /\ keyword \notin Words(rows) => ans = <<>>
    /\ keyword \in Words(rows) =>
          i = LastPair + 1
          /\ (alpha <= base => Answer(memory, index[keyword][1] + 1, i, ans))

Uploading == pc \in {"pad", "insert"} => index = <<>> /\ sub_arrays = <<>> /\ stored = {}
Idle      == pc \notin {"search", "answered", "thrown"} => ans = <<>> /\ touched = {}

KInv ==
    /\ rows \in UNION {[1 .. n -> Keyword] : n \in 1 .. MaxRows} /\ stream \in Streams
    /\ pc \in {"pad", "insert", "store", "ready", "search", "answered", "thrown"}
    /\ memory \in Seq(Pair) /\ Genuine(rows, memory)
    /\ \A w \in DOMAIN count : count[w] \in Nat
    /\ Uploading /\ Idle
    /\ pc = "pad" => Padding
    /\ pc # "pad" => Padded(rows, memory, count)
    /\ pc \notin {"pad", "insert"} => Laid(rows, stream, memory, index, sub_arrays)
    /\ stored \subseteq DOMAIN sub_arrays
    /\ pc = "store" => stored # DOMAIN sub_arrays
    /\ ans \in Seq(Pair)
    /\ OwnPairsOnly /\ ThrowsForOwn
    /\ pc = "search" => Searching
    /\ pc = "answered" => Answered
-----------------------------------------------------------------------------
(* The padded size of a keyword is a number that is at least its count. *)
LEMMA PaddedSize ==
  ASSUME NEW c \in Nat
  PROVE  PowerAbove(c) \in Nat /\ PowerAbove(c) >= c
<1> DEFINE S == {s \in {Power(x, p) : p \in 0 .. c} : s >= c}
<1>1. \A p \in 0 .. c : Power(x, p) \in Nat
  <2> SUFFICES ASSUME NEW p \in 0 .. c PROVE Power(x, p) \in Nat
    OBVIOUS
  <2>1. p \in Nat
    OBVIOUS
  <2> QED BY <2>1, Powers, PaddingAssumption
<1>2. Power(x, c) \in S
  <2>1. Power(x, c) \in Nat /\ Power(x, c) > c
    BY PowerAboveExponent, PaddingAssumption
  <2>2. c \in 0 .. c
    OBVIOUS
  <2> QED BY <2>1, <2>2
<1>3. PICK m \in S : \A k \in S : m <= k
  <2>1. S \in SUBSET Nat /\ S # {}
    BY <1>1, <1>2
  <2> HIDE DEF S
  <2> QED BY <2>1, LeastNatural
<1>4. \A p \in 0 .. c : Power(x, p) >= c => m <= Power(x, p)
  BY <1>3
<1>5. \E s \in {Power(x, p) : p \in 0 .. c} :
         s >= c /\ \A p \in 0 .. c : Power(x, p) >= c => s <= Power(x, p)
  BY <1>3, <1>4
<1>6. PowerAbove(c) \in {Power(x, p) : p \in 0 .. c} /\ PowerAbove(c) >= c
  BY <1>5 DEF PowerAbove
<1> QED BY <1>1, <1>6

(* The indices that have a property are finitely many. *)
LEMMA Indices ==
  ASSUME NEW n \in Nat, NEW A \in SUBSET (1 .. n)
  PROVE  IsFiniteSet(A) /\ Cardinality(A) \in Nat /\ Cardinality(A) <= n
<1>1. IsFiniteSet(1 .. n) /\ Cardinality(1 .. n) = n
  BY FS_Interval
<1> QED BY <1>1, FS_Subset, FS_CardinalityType

LEMMA CountFrom ==
  ASSUME NEW lo \in Nat, NEW k \in Nat
  PROVE  IsFiniteSet(lo + 1 .. lo + k) /\ Cardinality(lo + 1 .. lo + k) = k
<1>1. ASSUME NEW a \in Int, NEW b \in Int, a = lo + 1, b = lo + k
      PROVE  IsFiniteSet(a .. b) /\ Cardinality(a .. b) = k
  <2>1. IsFiniteSet(a .. b) /\ Cardinality(a .. b) = IF a > b THEN 0 ELSE b - a + 1
    BY FS_Interval
  <2> QED BY <1>1, <2>1
<1> QED BY <1>1, lo + 1 \in Int, lo + k \in Int

\* d are dummies that are put behind m.
Behind(m, d, e) ==
    /\ e \in Seq(Pair) /\ Len(e) = Len(m) + Len(d)
    /\ \A j \in DOMAIN m : e[j] = m[j]
    /\ \A j \in DOMAIN e \ DOMAIN m : e[j].dummy /\ \E k \in DOMAIN d : e[j].keyword = d[k].keyword

LEMMA AppendDummies ==
  ASSUME NEW m \in Seq(Pair), NEW d \in Seq(Pair), \A k \in DOMAIN d : d[k].dummy
  PROVE  Behind(m, d, m \o d)
<1> DEFINE e == m \o d
<1>1. /\ e \in Seq(Pair) /\ Len(e) = Len(m) + Len(d)
      /\ \A j \in 1 .. Len(m) : e[j] = m[j]
      /\ \A j \in 1 .. Len(e) : j > Len(m) => e[j] = d[j - Len(m)]
  OBVIOUS
<1>2. DOMAIN m = 1 .. Len(m) /\ DOMAIN d = 1 .. Len(d) /\ DOMAIN e = 1 .. Len(e)
  BY <1>1
<1> HIDE DEF e
<1>3. \A j \in DOMAIN e \ DOMAIN m : j - Len(m) \in DOMAIN d /\ e[j] = d[j - Len(m)]
  BY <1>1, <1>2
<1> QED BY <1>1, <1>2, <1>3 DEF Behind, e

(* Dummies change nothing for the keywords that they do not have. *)
LEMMA BehindAt ==
  ASSUME NEW m \in Seq(Pair), NEW d \in Seq(Pair), NEW e, Behind(m, d, e), NEW w,
         \A k \in DOMAIN d : d[k].keyword # w
  PROVE  At(e, w) = At(m, w)
<1>1. DOMAIN m = 1 .. Len(m) /\ DOMAIN e = 1 .. Len(e) /\ Len(e) = Len(m) + Len(d)
      /\ Len(m) \in Nat /\ Len(d) \in Nat
  BY DEF Behind
<1>2. DOMAIN m \subseteq DOMAIN e
  BY <1>1
<1> QED BY <1>2 DEF At, Behind

LEMMA BehindGenuine ==
  ASSUME NEW m \in Seq(Pair), NEW d \in Seq(Pair), NEW e, Behind(m, d, e),
         NEW rs, Genuine(rs, m)
  PROVE  Genuine(rs, e)
<1>1. DOMAIN m = 1 .. Len(m) /\ DOMAIN e = 1 .. Len(e) /\ Len(e) = Len(m) + Len(d)
      /\ Len(m) \in Nat /\ Len(d) \in Nat
  BY DEF Behind
<1>2. DOMAIN m \subseteq DOMAIN e
  BY <1>1
<1>3. \A w : Real(e, w) = Real(m, w)
  BY <1>2 DEF At, Real, Behind
<1>4. \A w : {e[j].id : j \in Real(e, w)} = {m[j].id : j \in Real(m, w)}
  <2>1. \A w : \A j \in Real(m, w) : e[j] = m[j]
    BY DEF Behind, Real, At
  <2> QED BY <1>3, <2>1
<1>5. \A j \in DOMAIN e : ~e[j].dummy => e[j].id < Len(e)
  <2> SUFFICES ASSUME NEW j \in DOMAIN e, ~e[j].dummy PROVE e[j].id < Len(e)
    OBVIOUS
  <2>1. j \in DOMAIN m /\ e[j] = m[j]
    BY DEF Behind
  <2>2. m[j].id < Len(m) /\ m[j].id \in Nat
    <3>1. m[j] \in Pair
      BY <2>1
    <3> QED BY <2>1, <3>1 DEF Genuine, Pair
  <2> QED BY <1>1, <2>1, <2>2
<1> QED BY <1>3, <1>4, <1>5 DEF Genuine

(* A keyword has as many pairs more as it got dummies. *)
LEMMA BehindCount ==
  ASSUME NEW m \in Seq(Pair), NEW d \in Seq(Pair), NEW e, Behind(m, d, e), NEW w,
         \A k \in DOMAIN d : d[k].keyword = w
  PROVE  Cardinality(At(e, w)) = Cardinality(At(m, w)) + Len(d)
<1> DEFINE A == At(m, w)
           D == Len(m) + 1 .. Len(m) + Len(d)
<1>1. DOMAIN m = 1 .. Len(m) /\ DOMAIN e = 1 .. Len(e) /\ Len(e) = Len(m) + Len(d)
      /\ Len(m) \in Nat /\ Len(d) \in Nat
  BY DEF Behind
<1>2. DOMAIN m \subseteq DOMAIN e /\ DOMAIN e = DOMAIN m \cup D /\ D \cap DOMAIN m = {}
  BY <1>1
<1>3. At(e, w) = A \cup D /\ A \cap D = {}
  <2>1. \A j \in D : j \in DOMAIN e \ DOMAIN m
    BY <1>2
  <2>2. \A j \in D : e[j].keyword = w
    BY <2>1 DEF Behind
  <2>3. A \subseteq DOMAIN m
    BY DEF At
  <2> HIDE DEF D
  <2>4. At(e, w) = A \cup D
    BY <1>2, <2>2 DEF At, Behind
  <2> QED BY <1>2, <2>3, <2>4
<1>4. IsFiniteSet(A) /\ Cardinality(A) \in Nat
  <2>1. A \in SUBSET (1 .. Len(m))
    BY <1>1 DEF At
  <2> QED BY <1>1, <2>1, Indices
<1>5. IsFiniteSet(D) /\ Cardinality(D) = Len(d)
  BY <1>1, CountFrom
<1> HIDE DEF A, D
<1>6. Cardinality(A \cup D) = Cardinality(A) + Cardinality(D) - Cardinality({})
  BY <1>3, <1>4, <1>5, FS_Union
<1> QED BY <1>1, <1>3, <1>4, <1>5, <1>6, FS_EmptySet DEF A
-----------------------------------------------------------------------------
\* t is m in another order, f tells which.
Reordered(m, t, f) ==
    /\ t \in Seq(Pair) /\ Len(t) = Len(m)
    /\ f \in [1 .. Len(m) -> 1 .. Len(m)] /\ f \in Bijection(1 .. Len(m), 1 .. Len(m))
    /\ \A r \in 1 .. Len(m) : t[r] = m[f[r]]
    /\ \A j \in 1 .. Len(m) : \E r \in 1 .. Len(m) : f[r] = j

InOrder(t) == \A q, r \in DOMAIN t : q <= r => t[q].keyword <= t[r].keyword

LEMMA SortedReorders ==
  ASSUME NEW m \in Seq(Pair)
  PROVE  (\E f : Reordered(m, Sorted(m), f)) /\ InOrder(Sorted(m))
<1> DEFINE key == [j \in DOMAIN m |-> m[j].keyword]
           n == Len(m)
           t == Sorted(m)
<1>1. n \in Nat /\ DOMAIN m = 1 .. n /\ \A j \in 1 .. n : m[j] \in Pair
  OBVIOUS
<1>2. \A j \in 1 .. n : m[j].keyword \in Int
  BY <1>1 DEF Pair
<1>3. key \in [1 .. n -> Int] /\ \A j \in 1 .. n : key[j] = m[j].keyword
  <2> HIDE DEF n
  <2> QED BY <1>1, <1>2
<1>4. t = SortedBy(m, key)
  BY DEF Sorted
<1> HIDE DEF n, key, t
<1>5. PICK f : Sorts(f, n, m, key)
  BY <1>1, <1>3, SortHolds
<1>6. /\ f \in Bijection(1 .. n, 1 .. n) /\ DOMAIN t = 1 .. n
      /\ \A r \in 1 .. n : t[r] = m[f[r]]
      /\ \A q, r \in 1 .. n : q <= r => key[f[q]] <= key[f[r]]
  BY <1>4, <1>5 DEF Sorts
<1>7. f \in [1 .. n -> 1 .. n] /\ \A j \in 1 .. n : \E r \in 1 .. n : f[r] = j
  BY <1>6 DEF Bijection, Injection, Surjection
<1>8. t = [r \in 1 .. n |-> m[f[r]]]
  <2>1. t = [r \in 1 .. n |-> t[r]]
    <3>1. t = [r \in DOMAIN m |-> m[CHOOSE j \in DOMAIN m :
                                       [k \in DOMAIN m |-> Rank(key, k)][j] = r]]
      BY <1>4 DEF SortedBy
    <3> QED BY <1>1, <3>1
  <2> QED BY <1>6, <2>1
<1>9. t \in Seq(Pair) /\ Len(t) = n
  <2>1. \A r \in 1 .. n : m[f[r]] \in Pair
    BY <1>1, <1>7
  <2>2. t \in [1 .. n -> Pair]
    BY <1>8, <2>1
  <2> QED BY <1>1, <2>2
<1>10. Reordered(m, t, f)
  BY <1>6, <1>7, <1>9 DEF Reordered, n
<1>11. InOrder(t)
  <2>1. \A r \in 1 .. n : t[r].keyword = key[f[r]]
    BY <1>3, <1>6, <1>7
  <2> QED BY <1>6, <2>1 DEF InOrder
<1> QED BY <1>10, <1>11 DEF t

(* Another order changes neither the number of the pairs of a keyword nor the
   documents. *)
LEMMA ReorderedCount ==
  ASSUME NEW m \in Seq(Pair), NEW t, NEW f, Reordered(m, t, f), NEW w
  PROVE  Cardinality(At(t, w)) = Cardinality(At(m, w))
<1> DEFINE n == Len(m)
           A == At(m, w)
<1>1. n \in Nat /\ DOMAIN m = 1 .. n /\ DOMAIN t = 1 .. n /\ A \in SUBSET (1 .. n)
  BY DEF Reordered, At
<1>2. f \in Bijection(1 .. n, 1 .. n) /\ f \in [1 .. n -> 1 .. n]
      /\ \A r \in 1 .. n : t[r] = m[f[r]]
  BY DEF Reordered
<1>3. At(t, w) = {r \in 1 .. n : f[r] \in A}
  <2> HIDE DEF n
  <2> QED BY <1>1, <1>2 DEF At
<1> HIDE DEF n, A
<1>4. Cardinality({r \in 1 .. n : f[r] \in A}) = Cardinality(A)
  BY <1>1, <1>2, CountThrough
<1> QED BY <1>3, <1>4 DEF A

LEMMA ReorderedGenuine ==
  ASSUME NEW m \in Seq(Pair), NEW t, NEW f, Reordered(m, t, f), NEW rs, Genuine(rs, m)
  PROVE  Genuine(rs, t)
<1> DEFINE n == Len(m)
<1>1. n \in Nat /\ DOMAIN m = 1 .. n /\ DOMAIN t = 1 .. n /\ Len(t) = n
  BY DEF Reordered
<1>2. /\ f \in Bijection(1 .. n, 1 .. n) /\ f \in [1 .. n -> 1 .. n]
      /\ \A r \in 1 .. n : t[r] = m[f[r]]
      /\ \A j \in 1 .. n : \E r \in 1 .. n : f[r] = j
  BY DEF Reordered
<1>3. \A j \in 1 .. n : ~m[j].dummy => m[j].id < n
  BY <1>1 DEF Genuine
<1>a. \A w \in Keyword :
          /\ {m[j].id : j \in Real(m, w)} = {j - 1 : j \in {l \in DOMAIN rs : rs[l] = w}}
          /\ Cardinality(Real(m, w)) = Occ(rs, w)
  BY DEF Genuine
<1> HIDE DEF n
<1>4. ASSUME NEW w \in Keyword
      PROVE  /\ {t[j].id : j \in Real(t, w)} = {j - 1 : j \in {l \in DOMAIN rs : rs[l] = w}}
             /\ Cardinality(Real(t, w)) = Occ(rs, w)
  <2> DEFINE A == Real(m, w)
             B == Real(t, w)
  <2>1. A \in SUBSET (1 .. n)
    BY <1>1 DEF Real, At
  <2>2. B = {r \in 1 .. n : f[r] \in A}
    BY <1>1, <1>2 DEF Real, At
  <2> HIDE DEF A, B
  <2>3. Cardinality(B) = Cardinality(A)
    BY <1>1, <1>2, <2>1, <2>2, CountThrough, ZenonT(40)
  <2>4. {t[r].id : r \in B} = {m[j].id : j \in A}
    <3>1. \A r \in B : f[r] \in A /\ t[r].id = m[f[r]].id
      BY <1>2, <2>2
    <3>2. \A j \in A : \E r \in B : f[r] = j
      BY <1>2, <2>1, <2>2
    <3> QED BY <3>1, <3>2
  <2> QED BY <1>a, <2>3, <2>4 DEF A, B
<1>5. \A j \in DOMAIN t : ~t[j].dummy => t[j].id < Len(t)
  <2> SUFFICES ASSUME NEW j \in DOMAIN t, ~t[j].dummy PROVE t[j].id < n
    BY <1>1
  <2>1. f[j] \in 1 .. n /\ t[j] = m[f[j]]
    BY <1>1, <1>2
  <2> QED BY <1>3, <2>1
<1> QED BY <1>4, <1>5 DEF Genuine

(* In order, the pairs of a keyword are next to each other. *)
LEMMA Contiguous ==
  ASSUME NEW t \in Seq(Pair), InOrder(t), NEW w, NEW c \in Nat, Cardinality(At(t, w)) = c + 1
  PROVE  /\ first_occurrence(t, w) \in DOMAIN t
         /\ At(t, w) = first_occurrence(t, w) .. first_occurrence(t, w) + c
<1> DEFINE A == At(t, w)
           n == Len(t)
           fo == first_occurrence(t, w)
<1>1. n \in Nat /\ DOMAIN t = 1 .. n /\ A \in SUBSET (1 .. n)
  BY DEF At
<1>2. A # {} /\ A \in SUBSET Nat
  <2>1. A # {}
    BY SMTT(30), FS_EmptySet
  <2> HIDE DEF A
  <2> QED BY <1>1, <2>1
<1>3. \E m \in A : \A k \in A : m <= k
  <2> HIDE DEF A
  <2> QED BY <1>2, LeastNatural
<1>4. fo \in A /\ \A k \in A : fo <= k
  <2>1. \E j \in DOMAIN t : t[j].keyword = w /\ \A k \in DOMAIN t : t[k].keyword = w => j <= k
    BY <1>3 DEF At
  <2>2. /\ fo \in DOMAIN t /\ t[fo].keyword = w
        /\ \A k \in DOMAIN t : t[k].keyword = w => fo <= k
    BY <2>1 DEF first_occurrence
  <2> HIDE DEF fo
  <2> QED BY <2>2 DEF At
<1>5. ASSUME NEW b \in A, NEW e \in 1 .. n, fo <= e, e <= b PROVE e \in A
  <2>1. t[fo].keyword <= t[e].keyword /\ t[e].keyword <= t[b].keyword
    BY <1>1, <1>4, <1>5 DEF InOrder
  <2>2. t[fo].keyword = w /\ t[b].keyword = w
    BY <1>4 DEF At
  <2>3. t[e].keyword \in Int /\ w \in Int
    <3>1. t[e] \in Pair /\ t[fo] \in Pair
      BY <1>1, <1>4
    <3> QED BY <2>2, <3>1 DEF Pair
  <2>4. t[e].keyword = w
    <3> HIDE DEF fo
    <3> QED BY <2>1, <2>2, <2>3
  <2> QED BY <1>1, <2>4 DEF At
<1> HIDE DEF A, n, fo
<1>6. A = fo .. fo + Cardinality(A) - 1
  BY <1>1, <1>4, <1>5, NoGaps
<1>7. fo \in 1 .. n
  BY <1>1, <1>4
<1>8. fo + (c + 1) - 1 = fo + c
  BY <1>7
<1>9. Cardinality(A) = c + 1
  BY DEF A
<1> QED BY <1>1, <1>4, <1>6, <1>8, <1>9 DEF A, n, fo
-----------------------------------------------------------------------------
(* Some numbers up to n have a greatest one. *)
LEMMA GreatestOf ==
  ASSUME NEW n \in Nat, NEW S, S \subseteq 0 .. n, S # {}
  PROVE  \E q \in S : \A r \in S : r <= q
<1> DEFINE T == {d \in Nat : n - d \in S}
<1>1. T # {}
  <2>1. PICK s \in S : s \in 0 .. n
    OBVIOUS
  <2>2. n - s \in Nat /\ n - (n - s) = s
    BY <2>1
  <2> QED BY <2>2
<1>2. PICK d \in T : \A k \in T : d <= k
  <2>1. T \subseteq Nat
    OBVIOUS
  <2> HIDE DEF T
  <2> QED BY <1>1, <2>1, LeastNatural
<1>3. n - d \in S /\ d \in Nat
  OBVIOUS
<1>4. ASSUME NEW r \in S PROVE r <= n - d
  <2>1. r \in 0 .. n
    OBVIOUS
  <2>2. n - r \in Nat /\ n - (n - r) = r
    BY <2>1
  <2>3. d <= n - r
    BY <1>2, <2>2
  <2> QED BY <1>3, <2>1, <2>3
<1> QED BY <1>3, <1>4

\* The index and the sub arrays as adj_insert makes them from the sorted pairs t.
IndexOf(t, c) == [w \in DOMAIN c |-> <<first_occurrence(t, w) - 1, c[w]>>]
ArraysOf(t, st) ==
    [s \in Slots(Base(Len(t)), alpha) |->
        LET here == {p \in DOMAIN t : SlotOf(Len(t), st, p - 1) = s}
        IN  IF here = {} THEN EmptyPair
            ELSE t[CHOOSE p \in here : \A q \in here : q <= p]]

(* What adj_insert lays out, search finds. *)
LEMMA LaysOut ==
  ASSUME NEW rs, NEW st \in Streams, NEW t \in Seq(Pair), InOrder(t), NEW c, Padded(rs, t, c),
         \A w \in Words(rs) : Occ(rs, w) \in Nat,
         Power(2, Base(Len(t))) <= StreamLength
  PROVE  Laid(rs, st, t, IndexOf(t, c), ArraysOf(t, st))
<1> DEFINE n == Len(t)
           idx == IndexOf(t, c)
           sub == ArraysOf(t, st)
<1>1. n \in Nat /\ n >= 5 /\ DOMAIN t = 1 .. n
  BY DEF Padded
<1>2. DOMAIN idx \cap Keyword = Words(rs)
  BY DEF Padded, IndexOf
<1>3. ASSUME NEW w \in Words(rs)
      PROVE  /\ idx[w][1] \in Nat /\ idx[w][2] = PowerAbove(Occ(rs, w))
             /\ At(t, w) = idx[w][1] + 1 .. idx[w][1] + idx[w][2] + 1
  <2> DEFINE fo == first_occurrence(t, w)
             k == PowerAbove(Occ(rs, w))
  <2>1. k \in Nat
    BY PaddedSize
  <2>2. c[w] = k /\ Cardinality(At(t, w)) = k + 1 /\ w \in DOMAIN c
    BY DEF Padded, Full
  <2>3. idx[w] = <<fo - 1, k>>
    BY <2>2 DEF IndexOf
  <2> HIDE DEF k
  <2>4. fo \in DOMAIN t /\ At(t, w) = fo .. fo + k
    BY <2>1, <2>2, Contiguous
  <2> HIDE DEF fo, idx
  <2>5. fo - 1 \in Nat /\ (fo - 1) + 1 = fo /\ (fo - 1) + k + 1 = fo + k
    BY <1>1, <2>1, <2>4
  <2>6. idx[w][1] = fo - 1 /\ idx[w][2] = k
    BY <2>3
  <2> QED BY <2>4, <2>5, <2>6 DEF k
<1>4. DOMAIN sub = Slots(Base(n), alpha)
  BY DEF ArraysOf
<1>a. ASSUME NEW s \in DOMAIN sub PROVE sub[s] \in Pair
  <2> DEFINE here == {p \in DOMAIN t : SlotOf(n, st, p - 1) = s}
             z == CHOOSE q \in here : \A r \in here : r <= q
  <2>1. sub[s] = IF here = {} THEN EmptyPair ELSE t[z]
    BY <1>4 DEF ArraysOf
  <2>2. EmptyPair \in Pair
    BY DEF EmptyPair, Pair
  <2>3. here # {} => z \in here
    <3>1. here \subseteq 0 .. n
      BY <1>1
    <3> HIDE DEF here
    <3>2. SUFFICES ASSUME here # {} PROVE \E q \in here : \A r \in here : r <= q
      OBVIOUS
    <3> QED BY <1>1, <3>1, <3>2, GreatestOf
  <2> HIDE DEF sub, z
  <2> QED BY <2>1, <2>2, <2>3
<1>5. ASSUME NEW p \in DOMAIN t
      PROVE  /\ SlotOf(n, st, p - 1) \in DOMAIN sub
             /\ alpha <= Base(n) => sub[SlotOf(n, st, p - 1)] = t[p]
  <2> DEFINE s == SlotOf(n, st, p - 1)
             here == {q \in DOMAIN t : SlotOf(n, st, q - 1) = s}
  <2>1. p - 1 \in 0 .. n - 1 /\ \A q \in DOMAIN t : q - 1 \in 0 .. n - 1
    BY <1>1
  <2>2. s \in Slots(Base(n), alpha)
    BY <1>1, <2>1, OwnSlot
  <2>a. SUFFICES ASSUME alpha <= Base(n) PROVE sub[s] = t[p]
    BY <1>4, <2>2
  <2>3. here = {p}
    <3> SUFFICES ASSUME NEW q \in DOMAIN t, SlotOf(n, st, q - 1) = s PROVE q = p
      OBVIOUS
    <3>1. q - 1 = p - 1
      BY <1>1, <2>a, <2>1, OwnSlot
    <3> QED BY <1>1, <3>1
  <2>4. sub[s] = IF here = {} THEN EmptyPair
                 ELSE t[CHOOSE q \in here : \A r \in here : r <= q]
    BY <2>2 DEF ArraysOf
  <2> HIDE DEF sub, here, s
  <2>5. (CHOOSE q \in here : \A r \in here : r <= q) = p
    <3>1. p \in Nat
      BY <1>1
    <3>2. \E q \in here : \A r \in here : r <= q
      BY <2>3, <3>1
    <3> DEFINE z == CHOOSE q \in here : \A r \in here : r <= q
    <3>3. z \in here
      BY <3>2
    <3> QED BY <2>3, <3>3
  <2>6. sub[s] = t[p]
    BY <2>3, <2>4, <2>5
  <2> QED BY <2>6
<1> QED BY <1>2, <1>3, <1>4, <1>a, <1>5 DEF Laid

(* One pair more is read. *)
LEMMA AnswerGrows ==
  ASSUME NEW m \in Seq(Pair), NEW rs, Genuine(rs, m), NEW from \in Nat \ {0}, NEW k \in Nat,
         from <= k + 1, k + 1 \in DOMAIN m, NEW a \in Seq(Pair), Answer(m, from, k, a),
         NEW b, b = IF m[k + 1].id < Len(m) THEN Append(a, m[k + 1]) ELSE a
  PROVE  b \in Seq(Pair) /\ Answer(m, from, k + 1, b)
<1> DEFINE d == m[k + 1]
           read == {p \in from .. k : ~m[p].dummy}
           real == {j \in DOMAIN a : ~a[j].dummy}
           read2 == {p \in from .. k + 1 : ~m[p].dummy}
           real2 == {j \in DOMAIN b : ~b[j].dummy}
<1>1. {a[j].id : j \in real} = {m[p].id : p \in read} /\ Cardinality(real) = Cardinality(read)
  BY DEF Answer
<1>2. d \in Pair /\ Len(m) \in Nat
  OBVIOUS
<1>3. from .. k + 1 = (from .. k) \cup {k + 1} /\ k + 1 \notin from .. k
  OBVIOUS
<1>4. CASE b = Append(a, d)
  <2>1. /\ b \in Seq(Pair) /\ DOMAIN a = 1 .. Len(a) /\ Len(a) \in Nat
        /\ DOMAIN b = DOMAIN a \cup {Len(a) + 1} /\ Len(a) + 1 \notin DOMAIN a
        /\ b[Len(a) + 1] = d /\ \A j \in DOMAIN a : b[j] = a[j]
    <3>1. DOMAIN a = 1 .. Len(a) /\ Len(a) \in Nat
      OBVIOUS
    <3>2. b \in Seq(Pair) /\ Len(b) = Len(a) + 1 /\ b[Len(a) + 1] = d
          /\ \A j \in 1 .. Len(a) : b[j] = a[j]
      BY <1>2, <1>4
    <3>3. DOMAIN b = 1 .. Len(a) + 1
      BY <3>2
    <3> QED BY <3>1, <3>2, <3>3
  <2>2. CASE d.dummy
    <3>1. real2 = real /\ read2 = read
      BY <1>3, <2>1, <2>2
    <3>2. \A j \in real : b[j] = a[j]
      BY <2>1
    <3> HIDE DEF real, read, real2, read2
    <3>3. {b[j].id : j \in real2} = {a[j].id : j \in real}
      BY <3>1, <3>2
    <3>4. {b[j].id : j \in real2} = {m[p].id : p \in read2} /\ Cardinality(real2) = Cardinality(read2)
      BY <1>1, <3>1, <3>3
    <3> QED BY <2>1, <3>4 DEF Answer, real2, read2
  <2>3. CASE ~d.dummy
    <3>1. real2 = real \cup {Len(a) + 1} /\ read2 = read \cup {k + 1}
      BY <1>3, <2>1, <2>3
    <3>2. \A j \in real : b[j] = a[j]
      BY <2>1
    <3>3. Len(a) + 1 \notin real /\ k + 1 \notin read
      BY <1>3, <2>1
    <3>4. IsFiniteSet(real) /\ IsFiniteSet(read)
      <4>0. real \in SUBSET (DOMAIN a) /\ read \in SUBSET (from .. k)
        OBVIOUS
      <4>a. 1 \in Int /\ Len(a) \in Int /\ from \in Int /\ k \in Int
        BY <2>1
      <4>1. real \in SUBSET (DOMAIN a) /\ IsFiniteSet(1 .. Len(a))
        BY <4>0, <4>a, FS_Interval
      <4>2. read \in SUBSET (from .. k) /\ IsFiniteSet(from .. k)
        BY <4>0, <4>a, FS_Interval
      <4> HIDE DEF real, read
      <4> QED BY <2>1, <4>1, <4>2, FS_Subset
    <3> HIDE DEF real, read, real2, read2
    <3>5. {b[j].id : j \in real2} = {a[j].id : j \in real} \cup {d.id}
      <4>1. \A j \in real : b[j].id = a[j].id
        BY <3>2
      <4>2. b[Len(a) + 1].id = d.id
        BY <2>1
      <4> DEFINE last == Len(a) + 1
      <4> HIDE DEF last, d
      <4>3. {b[j].id : j \in real \cup {last}} = {b[j].id : j \in real} \cup {b[last].id}
        OBVIOUS
      <4>4. {b[j].id : j \in real} = {a[j].id : j \in real}
        BY <4>1
      <4> QED BY <3>1, <4>2, <4>3, <4>4 DEF last
    <3>6. {m[p].id : p \in read2} = {m[p].id : p \in read} \cup {d.id}
      BY <3>1
    <3>7. Cardinality(real2) = Cardinality(real) + 1 /\ Cardinality(read2) = Cardinality(read) + 1
      BY <3>1, <3>3, <3>4, FS_AddElement
    <3>8. {b[j].id : j \in real2} = {m[p].id : p \in read2} /\ Cardinality(real2) = Cardinality(read2)
      BY <1>1, <3>5, <3>6, <3>7
    <3> QED BY <2>1, <3>8 DEF Answer, real2, read2
  <2> QED BY <2>2, <2>3
<1>5. CASE b # Append(a, d)
  <2>1. b = a /\ ~(d.id < Len(m))
    BY <1>5
  <2>2. d.dummy
    BY <2>1 DEF Genuine
  <2>3. real2 = real /\ read2 = read
    BY <1>3, <2>1, <2>2
  <2> HIDE DEF real, read, real2, read2
  <2>4. {b[j].id : j \in real2} = {m[p].id : p \in read2} /\ Cardinality(real2) = Cardinality(read2)
    BY <1>1, <2>1, <2>3
  <2> QED BY <2>1, <2>4 DEF Answer, real2, read2
<1> QED BY <1>4, <1>5
-----------------------------------------------------------------------------
(* The occurrences of a keyword are a number, and there is one at least of a
   keyword of the table. *)
LEMMA OccNumber ==
  ASSUME NEW rs \in UNION {[1 .. n -> Keyword] : n \in 1 .. MaxRows}
  PROVE  /\ Words(rs) \subseteq Keyword /\ Words(rs) # {}
         /\ \A w : Occ(rs, w) \in Nat
         /\ \A w \in Words(rs) : Occ(rs, w) >= 1
         /\ \A w : w \notin Words(rs) => Occ(rs, w) = 0
<1>1. PICK n \in 1 .. MaxRows : rs \in [1 .. n -> Keyword]
  OBVIOUS
<1>2. n \in Nat /\ n >= 1 /\ DOMAIN rs = 1 .. n
  BY <1>1, RowsAssumption
<1>3. Words(rs) \subseteq Keyword /\ Words(rs) # {}
  BY <1>1, <1>2 DEF Words
<1>4. ASSUME NEW w PROVE Occ(rs, w) \in Nat /\ (Occ(rs, w) = 0 <=> w \notin Words(rs))
  <2> DEFINE A == {j \in DOMAIN rs : rs[j] = w}
  <2>1. A \in SUBSET (1 .. n) /\ (A = {} <=> w \notin Words(rs))
    BY <1>2 DEF Words
  <2> HIDE DEF A
  <2>2. IsFiniteSet(A) /\ Cardinality(A) \in Nat
    BY <1>2, <2>1, Indices
  <2>3. Cardinality(A) = 0 <=> A = {}
    BY <2>2, FS_EmptySet
  <2> QED BY <2>1, <2>2, <2>3 DEF Occ, A
<1>5. \A w \in Words(rs) : Occ(rs, w) >= 1
  <2> SUFFICES ASSUME NEW w \in Words(rs) PROVE Occ(rs, w) >= 1
    OBVIOUS
  <2>1. Occ(rs, w) \in Nat /\ Occ(rs, w) # 0
    BY <1>4
  <2> QED BY <2>1
<1> QED BY <1>3, <1>4, <1>5

LEMMA OccIs == \A w : Occurrences(w) = Occ(rows, w)
  BY DEF Occurrences, Occ

\* d are dummies with the keywords of key.
DummiesOf(d, n, key) ==
    /\ d \in Seq(Pair) /\ Len(d) = n /\ DOMAIN d = 1 .. n
    /\ \A k \in 1 .. n : d[k].dummy /\ d[k].keyword = key[k]

LEMMA DummiesMade ==
  ASSUME memory \in Seq(Pair), NEW n \in Nat, NEW key \in [1 .. n -> Int], NEW far \in BOOLEAN
  PROVE  DummiesOf(Dummies(key, far), n, key)
<1> DEFINE d == Dummies(key, far)
<1>1. ASSUME NEW k \in 1 .. n
      PROVE  [keyword |-> key[k], dummy |-> TRUE,
              id |-> IF far THEN FarId ELSE Len(memory) + k - 1] \in Pair
  <2>1. Len(memory) + k - 1 \in Nat
    <3>1. Len(memory) \in Nat
      OBVIOUS
    <3> QED BY <3>1
  <2>2. (IF far THEN FarId ELSE Len(memory) + k - 1) \in Nat
    BY <2>1, FarAssumption
  <2> QED BY <2>2 DEF Pair
<1>2. d \in [1 .. n -> Pair]
  BY <1>1 DEF Dummies
<1>3. \A k \in 1 .. n : d[k].dummy /\ d[k].keyword = key[k]
  BY DEF Dummies
<1> HIDE DEF d
<1>4. d \in Seq(Pair) /\ Len(d) = n /\ DOMAIN d = 1 .. n
  BY <1>2
<1> QED BY <1>3, <1>4 DEF DummiesOf, d

(* Nothing has been searched. *)
LEMMA NotSearched ==
  /\ touched = {} /\ pc # "thrown" => OwnPairsOnly /\ ThrowsForOwn
  /\ touched' = {} /\ pc' # "thrown" => OwnPairsOnly' /\ ThrowsForOwn'
BY DEF OwnPairsOnly, ThrowsForOwn

LEMMA InitInv == Init => KInv
<1> SUFFICES ASSUME Init PROVE KInv
  OBVIOUS
<1>1. PICK n \in 1 .. MaxRows : rows \in [1 .. n -> Keyword]
  BY DEF Init
<1>2. n \in Nat /\ n >= 1 /\ DOMAIN rows = 1 .. n
  BY <1>1, RowsAssumption
<1>3. memory = [j \in 1 .. n |-> [keyword |-> rows[j], id |-> j - 1, dummy |-> FALSE]]
  BY <1>2 DEF Init
<1>4. /\ memory \in Seq(Pair) /\ Len(memory) = n /\ DOMAIN memory = 1 .. n
      /\ \A j \in 1 .. n : ~memory[j].dummy /\ memory[j].id = j - 1 /\ memory[j].keyword = rows[j]
  <2>1. \A j \in 1 .. n : [keyword |-> rows[j], id |-> j - 1, dummy |-> FALSE] \in Pair
    <3>1. \A j \in 1 .. n : rows[j] \in Int /\ j - 1 \in Nat
      <4>1. \A j \in 1 .. n : rows[j] \in Keyword
        BY <1>1
      <4>2. \A j \in 1 .. n : j - 1 \in Nat
        BY <1>2
      <4>3. \A k \in Keyword : k \in Int
        BY KeywordAssumption
      <4> QED BY <4>1, <4>2, <4>3
    <3> QED BY <3>1 DEF Pair
  <2>2. memory \in [1 .. n -> Pair]
    BY <1>3, <2>1
  <2>3. memory \in Seq(Pair) /\ Len(memory) = n /\ DOMAIN memory = 1 .. n
    BY <1>2, <2>2
  <2> QED BY <1>3, <2>3
<1>5. \A w : At(memory, w) = {l \in DOMAIN rows : rows[l] = w}
             /\ Real(memory, w) = {l \in DOMAIN rows : rows[l] = w}
  BY <1>2, <1>4 DEF At, Real
<1>6. Genuine(rows, memory)
  <2>1. ASSUME NEW w \in Keyword
        PROVE  /\ {memory[j].id : j \in Real(memory, w)} =
                     {j - 1 : j \in {l \in DOMAIN rows : rows[l] = w}}
               /\ Cardinality(Real(memory, w)) = Occ(rows, w)
    <3>1. \A j \in Real(memory, w) : memory[j].id = j - 1
      BY <1>4 DEF Real, At
    <3> QED BY <1>5, <3>1 DEF Occ
  <2>2. \A j \in DOMAIN memory : memory[j].id < Len(memory)
    BY <1>2, <1>4
  <2> QED BY <2>1, <2>2 DEF Genuine
<1>7. todo = Words(rows) /\ count = [w \in todo |-> Occ(rows, w)]
  BY OccIs DEF Init, Words
<1>8. Padding
  BY <1>5, <1>7 DEF Padding, Bare, Occ
<1>9. \A w \in DOMAIN count : count[w] \in Nat
  <2>1. \A w : Occ(rows, w) \in Nat
    BY OccNumber DEF Init
  <2> QED BY <1>7, <2>1
<1>10. /\ rows \in UNION {[1 .. l -> Keyword] : l \in 1 .. MaxRows} /\ stream \in Streams
       /\ pc = "pad" /\ stored = {} /\ ans = <<>> /\ touched = {}
       /\ index = <<>> /\ sub_arrays = <<>>
  BY DEF Init
<1>11. Uploading /\ Idle /\ ans \in Seq(Pair)
  BY <1>10 DEF Uploading, Idle
<1> QED BY <1>4, <1>6, <1>8, <1>9, <1>10, <1>11, NotSearched DEF KInv

LEMMA PadKeywordInv == ASSUME KInv, adj_padding_Keyword PROVE KInv'
<1> DEFINE w == CHOOSE v \in todo : \A u \in todo : v <= u
           o == Occ(rows, w)
           n == PadLoop(count[w])
           key == [k \in 1 .. n |-> w]
<1>1. /\ rows \in UNION {[1 .. l -> Keyword] : l \in 1 .. MaxRows}
      /\ memory \in Seq(Pair) /\ Genuine(rows, memory) /\ Padding
      /\ \A v \in DOMAIN count : count[v] \in Nat
  BY DEF KInv, adj_padding_Keyword
<1>2. PICK far \in BOOLEAN : memory' = memory \o Dummies(key, far)
  BY DEF adj_padding_Keyword
<1>3. count' = [count EXCEPT ![w] = PowerAbove(count[w])] /\ todo' = todo \ {w} /\ rows' = rows
      /\ todo # {}
  BY DEF adj_padding_Keyword
<1>4. w \in todo
  <2>1. Words(rows) \subseteq Keyword
    BY <1>1, OccNumber
  <2>2. todo \in SUBSET Nat
    BY <1>1, <2>1, KeywordAssumption DEF Padding
  <2>3. \E v \in todo : \A u \in todo : v <= u
    BY <1>3, <2>2, LeastNatural
  <2> QED BY <2>3
<1> HIDE DEF w
<1>5. w \in Words(rows) /\ w \in DOMAIN count /\ Bare(rows, memory, count, w) /\ w \in Keyword
      /\ o \in Nat
  BY <1>1, <1>4, OccNumber DEF Padding
<1>6. count[w] = o /\ Cardinality(At(memory, w)) = o
  BY <1>5 DEF Bare
<1>7. PowerAbove(o) \in Nat /\ PowerAbove(o) >= o
  BY <1>5, PaddedSize
<1> HIDE DEF o
<1>8. n \in Nat /\ n = PowerAbove(o) - o + 1
  BY <1>5, <1>6, <1>7 DEF PadLoop
<1> HIDE DEF n
<1>9. key \in [1 .. n -> Int]
  BY <1>5, KeywordAssumption
<1> DEFINE d == Dummies(key, far)
<1>10. DummiesOf(d, n, key)
  <2> HIDE DEF key
  <2> QED BY <1>1, <1>8, <1>9, DummiesMade
<1> HIDE DEF d
<1>11. d \in Seq(Pair) /\ Len(d) = n /\ \A k \in DOMAIN d : d[k].dummy /\ d[k].keyword = w
  BY <1>10 DEF DummiesOf
<1>12. memory' = memory \o d
  BY <1>2 DEF d
<1>13. Behind(memory, d, memory')
  BY <1>1, <1>11, <1>12, AppendDummies
<1>14. memory' \in Seq(Pair) /\ Genuine(rows, memory')
  BY <1>1, <1>11, <1>13, BehindGenuine DEF Behind
<1>15. Full(rows, memory', count', w)
  <2>1. Cardinality(At(memory', w)) = o + n
    BY <1>1, <1>6, <1>11, <1>13, BehindCount
  <2>2. o + n = PowerAbove(o) + 1
    BY <1>5, <1>7, <1>8
  <2>3. count'[w] = PowerAbove(o)
    BY <1>3, <1>5, <1>6
  <2> QED BY <2>1, <2>2, <2>3 DEF Full, o
<1>16. \A v \in Words(rows) : v # w => At(memory', v) = At(memory, v) /\ count'[v] = count[v]
  <2> SUFFICES ASSUME NEW v \in Words(rows), v # w
               PROVE  At(memory', v) = At(memory, v) /\ count'[v] = count[v]
    OBVIOUS
  <2>1. \A k \in DOMAIN d : d[k].keyword # v
    BY <1>11
  <2>2. v \in DOMAIN count
    BY <1>1 DEF Padding
  <2>3. At(memory', v) = At(memory, v)
    BY SMTT(30), <1>1, <1>11, <1>13, <2>1, BehindAt
  <2> QED BY <1>3, <2>2, <2>3
<1>17. Padding'
  <2>1. todo' \subseteq Words(rows) /\ DOMAIN count' = Words(rows)
    BY <1>1, <1>3 DEF Padding
  <2>2. ASSUME NEW v \in Words(rows)
        PROVE  IF v \in todo' THEN Bare(rows, memory', count', v)
               ELSE Full(rows, memory', count', v)
    <3>1. CASE v = w
      BY <1>3, <1>15, <3>1
    <3>2. CASE v # w
      <4>1. v \in todo' <=> v \in todo
        BY <1>3, <3>2
      <4>2. IF v \in todo THEN Bare(rows, memory, count, v) ELSE Full(rows, memory, count, v)
        BY <1>1 DEF Padding
      <4> QED BY <1>16, <3>2, <4>1, <4>2 DEF Bare, Full
    <3> QED BY <3>1, <3>2
  <2> QED BY <1>3, <2>1, <2>2 DEF Padding
<1>18. \A v \in DOMAIN count' : count'[v] \in Nat
  <2>1. PowerAbove(count[w]) \in Nat
    BY <1>6, <1>7
  <2> QED BY <1>1, <1>3, <2>1
<1>19. UNCHANGED <<rows, stream, pc, index, sub_arrays, stored, keyword, i, ans, touched>> /\ pc = "pad"
  BY DEF adj_padding_Keyword, query
<1> QED BY <1>14, <1>17, <1>18, <1>19, NotSearched DEF KInv, Uploading, Idle

LEMMA PadTableInv == ASSUME KInv, adj_padding_Table PROVE KInv'
<1> DEFINE L == Len(memory)
           n == (x - 1) * L + 1
<1>1. /\ rows \in UNION {[1 .. l -> Keyword] : l \in 1 .. MaxRows}
      /\ memory \in Seq(Pair) /\ Genuine(rows, memory) /\ Padding
      /\ \A v \in DOMAIN count : count[v] \in Nat
  BY DEF KInv, adj_padding_Table
<1>2. PICK far \in BOOLEAN, below \in BOOLEAN :
         LET key == [k \in 1 .. n |-> IF below THEN -k ELSE k + FarId]
         IN  /\ memory' = memory \o Dummies(key, far)
             /\ count' = [w \in DOMAIN count \cup {key[k] : k \in 1 .. n} |->
                            IF w \in DOMAIN count THEN count[w] ELSE 1]
  BY DEF adj_padding_Table
<1>3. todo = {} /\ rows' = rows
  BY DEF adj_padding_Table
<1>4. L \in Nat /\ L >= 2
  <2>1. PICK w : w \in Words(rows)
    BY <1>1, OccNumber
  <2> DEFINE o == Occ(rows, w)
             s == PowerAbove(o)
             A == At(memory, w)
  <2>2. Full(rows, memory, count, w)
    BY <1>1, <1>3, <2>1 DEF Padding
  <2>3. o \in Nat /\ o >= 1
    BY <1>1, <2>1, OccNumber
  <2>4. s \in Nat /\ s >= o
    BY <2>3, PaddedSize
  <2>5. A \in SUBSET (1 .. L) /\ L \in Nat
    BY <1>1 DEF At
  <2>6. Cardinality(A) = s + 1
    BY <2>2 DEF Full
  <2> HIDE DEF o, s, A, L
  <2>7. Cardinality(A) <= L
    BY <2>5, Indices
  <2> QED BY <2>3, <2>4, <2>5, <2>6, <2>7
<1>5. n \in Nat /\ L + n >= 5
  <2> HIDE DEF L
  <2>1. x - 1 \in Nat /\ x - 1 >= 1
    BY PaddingAssumption
  <2> DEFINE y == x - 1
  <2> HIDE DEF y
  <2>2. y \in Nat /\ y >= 1
    BY <2>1 DEF y
  <2>3. y * L \in Nat /\ y * L >= L
    BY <1>4, <2>2
  <2>4. n = y * L + 1
    BY DEF y
  <2> HIDE DEF n
  <2> QED BY <1>4, <2>3, <2>4
<1> DEFINE key == [k \in 1 .. n |-> IF below THEN -k ELSE k + FarId]
           d == Dummies(key, far)
<1> HIDE DEF n, L
<1>6. memory' = memory \o d
      /\ count' = [w \in DOMAIN count \cup {key[k] : k \in 1 .. n} |->
                      IF w \in DOMAIN count THEN count[w] ELSE 1]
  BY <1>2
<1>7. key \in [1 .. n -> Int] /\ \A k \in 1 .. n : key[k] \notin Keyword
  <2>1. ASSUME NEW k \in 1 .. n
        PROVE  /\ (IF below THEN -k ELSE k + FarId) \in Int
               /\ (IF below THEN -k ELSE k + FarId) \notin Keyword
    <3>1. k \in Nat /\ k >= 1
      BY <1>5
    <3>2. FarId \in Nat /\ \A w \in Keyword : w \in Nat /\ w <= FarId
      BY FarAssumption, KeywordAssumption
    <3> QED BY <3>1, <3>2
  <2> QED BY <2>1
<1> HIDE DEF key
<1>8. DummiesOf(d, n, key)
  BY <1>1, <1>5, <1>7, DummiesMade
<1> HIDE DEF d
<1>9. d \in Seq(Pair) /\ Len(d) = n /\ DOMAIN d = 1 .. n
      /\ \A k \in 1 .. n : d[k].dummy /\ d[k].keyword = key[k]
  BY <1>8 DEF DummiesOf
<1>10. Behind(memory, d, memory')
  BY <1>1, <1>6, <1>9, AppendDummies
<1>11. memory' \in Seq(Pair) /\ Genuine(rows, memory') /\ Len(memory') >= 5
  <2>1. Genuine(rows, memory')
    BY <1>1, <1>9, <1>10, BehindGenuine
  <2>2. memory' \in Seq(Pair) /\ Len(memory') = L + n
    BY <1>9, <1>10 DEF Behind, L
  <2> QED BY <1>5, <2>1, <2>2
<1>12. Words(rows) \subseteq Keyword /\ DOMAIN count = Words(rows)
  BY <1>1, OccNumber DEF Padding
<1>13. ASSUME NEW w \in Words(rows) PROVE Full(rows, memory', count', w)
  <2>1. \A k \in DOMAIN d : d[k].keyword # w
    BY <1>7, <1>9, <1>12
  <2>2. At(memory', w) = At(memory, w)
    BY <1>1, <1>9, <1>10, <2>1, BehindAt
  <2>3. count'[w] = count[w]
    BY <1>6, <1>12
  <2>4. Full(rows, memory, count, w)
    BY <1>1, <1>3 DEF Padding
  <2> QED BY <2>2, <2>3, <2>4 DEF Full
<1>14. Words(rows) \subseteq DOMAIN count' /\ DOMAIN count' \cap Keyword = Words(rows)
       /\ \A w \in DOMAIN count' : count'[w] \in Nat
  <2>1. DOMAIN count' = Words(rows) \cup {key[k] : k \in 1 .. n}
    BY <1>6, <1>12
  <2>2. \A w \in DOMAIN count' : count'[w] = IF w \in DOMAIN count THEN count[w] ELSE 1
    BY <1>6
  <2> QED BY <1>1, <1>7, <1>12, <2>1, <2>2
<1>15. Padded(rows, memory', count')
  BY <1>11, <1>13, <1>14 DEF Padded
<1>16. UNCHANGED <<rows, stream, index, sub_arrays, stored, keyword, i, ans, touched>>
       /\ pc = "pad" /\ pc' = "insert"
  BY DEF adj_padding_Table, query
<1> QED BY <1>11, <1>14, <1>15, <1>16, NotSearched DEF KInv, Uploading, Idle

LEMMA InsertInv == ASSUME KInv, adj_insert PROVE KInv'
<1> DEFINE t == Sorted(memory)
           n == Len(memory)
<1>1. /\ rows \in UNION {[1 .. l -> Keyword] : l \in 1 .. MaxRows} /\ stream \in Streams
      /\ memory \in Seq(Pair) /\ Genuine(rows, memory) /\ Padded(rows, memory, count)
      /\ \A v \in DOMAIN count : count[v] \in Nat
  BY DEF KInv, adj_insert
<1>2. /\ memory' = t
      /\ index' = [w \in DOMAIN count |-> <<first_occurrence(t, w) - 1, count[w]>>]
      /\ sub_arrays' = [s \in Slots(base, alpha) |->
             LET here == {p \in DOMAIN t : [q \in DOMAIN memory |-> Slot(q - 1)][p] = s}
             IN  IF here = {} THEN EmptyPair
                 ELSE t[CHOOSE p \in here : \A q \in here : q <= p]]
      /\ Power(2, base) <= StreamLength
  BY DEF adj_insert
<1>3. PICK f : Reordered(memory, t, f)
  BY <1>1, SortedReorders
<1>4. InOrder(t)
  BY <1>1, SortedReorders
<1> HIDE DEF t
<1>5. t \in Seq(Pair) /\ Len(t) = n /\ DOMAIN t = DOMAIN memory
  <2>1. t \in Seq(Pair) /\ Len(t) = n
    BY <1>3 DEF Reordered
  <2>2. DOMAIN t = 1 .. n /\ DOMAIN memory = 1 .. n
    BY <1>1, <2>1
  <2> QED BY <2>1, <2>2
<1>6. Genuine(rows, t)
  BY <1>1, <1>3, ReorderedGenuine
<1>7. Padded(rows, t, count)
  <2>1. \A w : Cardinality(At(t, w)) = Cardinality(At(memory, w))
    BY <1>1, <1>3, ReorderedCount
  <2> QED BY <1>1, <1>5, <2>1 DEF Padded, Full
<1>8. index' = IndexOf(t, count)
  BY <1>2 DEF IndexOf
<1>9. sub_arrays' = ArraysOf(t, stream)
  <2>1. \A p : Slot(p) = SlotOf(Len(t), stream, p)
    BY <1>5 DEF Slot, SlotOf, prp, base
  <2>2. Slots(base, alpha) = Slots(Base(Len(t)), alpha)
    BY <1>5 DEF base
  <2>3. \A s : {p \in DOMAIN t : [q \in DOMAIN memory |-> Slot(q - 1)][p] = s}
               = {p \in DOMAIN t : SlotOf(Len(t), stream, p - 1) = s}
    BY <1>5, <2>1
  <2> DEFINE Final(here) == IF here = {} THEN EmptyPair
                           ELSE t[CHOOSE p \in here : \A q \in here : q <= p]
             H(s) == {p \in DOMAIN t : [q \in DOMAIN memory |-> Slot(q - 1)][p] = s}
             J(s) == {p \in DOMAIN t : SlotOf(Len(t), stream, p - 1) = s}
  <2>4. sub_arrays' = [s \in Slots(base, alpha) |-> Final(H(s))]
    BY <1>2
  <2>5. ArraysOf(t, stream) = [s \in Slots(Base(Len(t)), alpha) |-> Final(J(s))]
    BY DEF ArraysOf
  <2>6. \A s : H(s) = J(s)
    BY <2>3
  <2> HIDE DEF Final, H, J
  <2> QED BY <2>2, <2>4, <2>5, <2>6
<1>10. Power(2, Base(Len(t))) <= StreamLength
  BY <1>2, <1>5 DEF base
<1>11. Laid(rows, stream, t, IndexOf(t, count), ArraysOf(t, stream))
  BY <1>1, <1>4, <1>5, <1>7, <1>10, OccNumber, LaysOut
<1>12. DOMAIN sub_arrays' # {}
  <2>1. 1 \in DOMAIN t
    <3>1. Len(t) >= 5 /\ Len(t) \in Nat /\ DOMAIN t = 1 .. Len(t)
      BY <1>5, <1>7 DEF Padded
    <3> QED BY <3>1
  <2>2. SlotOf(Len(t), stream, 1 - 1) \in DOMAIN ArraysOf(t, stream)
    BY <1>11, <2>1 DEF Laid
  <2> QED BY <1>9, <2>2
<1>13. UNCHANGED <<rows, stream, count, stored, keyword, i, ans, touched>>
       /\ pc = "insert" /\ pc' = "store"
  BY DEF adj_insert, query
<1>14. stored = {} /\ ans = <<>> /\ touched = {}
  BY <1>13 DEF KInv, Uploading, Idle
<1>15. /\ memory' \in Seq(Pair) /\ Genuine(rows', memory') /\ Padded(rows', memory', count')
       /\ Laid(rows', stream', memory', index', sub_arrays')
  BY <1>2, <1>5, <1>6, <1>7, <1>8, <1>9, <1>11, <1>13
<1>16. /\ rows' \in UNION {[1 .. l -> Keyword] : l \in 1 .. MaxRows} /\ stream' \in Streams
       /\ \A w \in DOMAIN count' : count'[w] \in Nat
       /\ stored' = {} /\ ans' = <<>> /\ touched' = {}
  BY <1>1, <1>13, <1>14
<1>17. Uploading' /\ Idle' /\ ans' \in Seq(Pair)
  BY <1>13, <1>16 DEF Uploading, Idle
<1> QED BY <1>12, <1>13, <1>15, <1>16, <1>17, NotSearched DEF KInv

(* Storing changes neither the table nor a search. *)
LEMMA StoreNextInv == ASSUME KInv, StoreNext PROVE KInv'
<1>1. /\ UNCHANGED <<rows, stream, memory, count, index, sub_arrays, keyword, i, ans, touched>>
      /\ pc = "store" /\ stored' = stored \cup {FirstSlot(AllSlots \ stored)}
      /\ pc' = IF stored' = AllSlots THEN "ready" ELSE "store"
  BY DEF StoreNext, UploadNext, query
<1>2. Laid(rows, stream, memory, index, sub_arrays) /\ memory \in Seq(Pair)
      /\ stored \subseteq DOMAIN sub_arrays /\ stored # DOMAIN sub_arrays
  BY <1>1 DEF KInv
<1>3. FirstSlot(AllSlots \ stored) \in DOMAIN sub_arrays
  <2> DEFINE S == DOMAIN sub_arrays \ stored
  <2>1. S # {} /\ S \subseteq Slots(Base(Len(memory)), alpha)
    BY <1>2 DEF Laid
  <2>2. Base(Len(memory)) \in Nat
    <3>1. Len(memory) \in Nat
      BY <1>2
    <3> QED BY <3>1, BaseDigits
  <2>3. Slots(Base(Len(memory)), alpha) \subseteq Nat \X Nat
    BY <2>2, SlotNumbers
  <2> HIDE DEF S
  <2>4. FirstSlot(S) \in S
    BY <2>1, <2>3, FirstSlotIn
  <2> QED BY <2>4 DEF S, AllSlots
<1>4. stored' \subseteq DOMAIN sub_arrays /\ (pc' = "store" => stored' # DOMAIN sub_arrays)
  BY <1>1, <1>2, <1>3 DEF AllSlots
<1>5. pc' \in {"ready", "store"}
  BY <1>1
<1>6. ans = <<>> /\ touched = {}
  BY <1>1 DEF KInv, Idle
<1> QED BY <1>1, <1>4, <1>5, <1>6, NotSearched DEF KInv, Uploading, Idle

LEMMA StoreFailsInv == ASSUME KInv, StoreFails PROVE KInv'
<1>1. /\ UNCHANGED <<rows, stream, memory, count, index, sub_arrays, keyword, i, ans, touched>>
      /\ pc = "store" /\ pc' = "ready" /\ stored' \subseteq stored
  BY DEF StoreFails, UploadFails, query
<1>2. stored' \subseteq DOMAIN sub_arrays
  BY <1>1 DEF KInv
<1>3. ans = <<>> /\ touched = {}
  BY <1>1 DEF KInv, Idle
<1> QED BY <1>1, <1>2, <1>3, NotSearched DEF KInv, Uploading, Idle

(* A search changes nothing but its own variables. *)
LEMMA TableKept ==
  ASSUME KInv, pc \notin {"pad", "insert"}, UNCHANGED <<rows, stream, table>>,
         pc' \in {"ready", "search", "answered", "thrown"}, pc' # "ready",
         ans' \in Seq(Pair), OwnPairsOnly', ThrowsForOwn',
         pc' = "search" => Searching', pc' = "answered" => Answered'
  PROVE  KInv'
<1>1. UNCHANGED <<rows, stream, memory, count, index, sub_arrays, stored>>
  BY DEF table
<1>2. Uploading' /\ Idle'
  BY DEF Uploading, Idle
<1> QED BY <1>1, <1>2 DEF KInv

LEMMA SearchInv == ASSUME KInv, NEW w \in Keyword, search(w) PROVE KInv'
<1>1. /\ UNCHANGED <<rows, stream, table>> /\ pc \in {"ready", "answered"}
      /\ keyword' = w /\ ans' = <<>> /\ touched' = {}
      /\ IF w \in DOMAIN index THEN pc' = "search" /\ i' = index[w][1]
         ELSE pc' = "answered" /\ i' = 0
  BY DEF search
<1>2. UNCHANGED <<rows, memory, index>>
  BY <1>1 DEF table
<1>3. Laid(rows, stream, memory, index, sub_arrays)
  BY <1>1 DEF KInv
<1>4. w \in DOMAIN index <=> w \in Words(rows)
  BY <1>3 DEF Laid
<1>5. CASE w \in Words(rows)
  <2> DEFINE lo == index[w][1]
             hi == index[w][2]
  <2>1. lo \in Nat /\ hi \in Nat
    <3>1. Occ(rows, w) \in Nat
      BY OccNumber DEF KInv
    <3> QED BY <1>3, <1>5, <3>1, PaddedSize DEF Laid
  <2>2. pc' = "search" /\ i' = lo
    BY <1>1, <1>4, <1>5
  <2>3. LastPair' = lo + hi /\ index'[keyword'][1] = lo
    BY <1>1, <1>2 DEF LastPair
  <2> HIDE DEF lo, hi
  <2>4. Answer(memory, lo + 1, lo, <<>>)
    <3>1. lo + 1 .. lo = {} /\ DOMAIN <<>> = {}
      BY <2>1
    <3> DEFINE e == <<>>
    <3> HIDE DEF e
    <3>2. DOMAIN e = {}
      BY DEF e
    <3>3. {p \in lo + 1 .. lo : ~memory[p].dummy} = {} /\ {k \in DOMAIN e : ~e[k].dummy} = {}
      BY <3>1, <3>2
    <3>4. Answer(memory, lo + 1, lo, e)
      BY <3>3 DEF Answer
    <3> QED BY <3>4 DEF e
  <2>5. Searching'
    <3>1. lo \in lo .. lo + hi
      BY <2>1
    <3> QED BY <1>1, <1>2, <1>5, <2>2, <2>3, <2>4, <3>1 DEF Searching
  <2>6. ans' \in Seq(Pair)
    BY <1>1
  <2> QED BY <1>1, <2>2, <2>5, <2>6, TableKept, NotSearched
<1>6. CASE w \notin Words(rows)
  <2>1. pc' = "answered"
    BY <1>1, <1>4, <1>6
  <2>2. Answered'
    BY <1>1, <1>2, <1>6 DEF Answered
  <2>3. ans' \in Seq(Pair)
    BY <1>1
  <2> QED BY <1>1, <2>1, <2>2, <2>3, TableKept, NotSearched
<1> QED BY <1>5, <1>6

(* A search is at a pair of its keyword. *)
LEMMA SearchAt ==
  ASSUME KInv, pc = "search"
  PROVE  /\ index[keyword][1] \in Nat /\ index[keyword][2] \in Nat
         /\ i \in Nat /\ i >= index[keyword][1] /\ i <= LastPair
         /\ LastPair = index[keyword][1] + index[keyword][2]
         /\ i + 1 \in DOMAIN memory /\ memory[i + 1].keyword = keyword
         /\ Slot(i) \in DOMAIN sub_arrays
         /\ alpha <= base => sub_arrays[Slot(i)] = memory[i + 1]
<1> DEFINE lo == index[keyword][1]
           hi == index[keyword][2]
<1>1. Searching /\ Laid(rows, stream, memory, index, sub_arrays)
  BY DEF KInv
<1>2. lo \in Nat /\ hi \in Nat /\ At(memory, keyword) = lo + 1 .. lo + hi + 1
  <2>1. Occ(rows, keyword) \in Nat
    BY OccNumber DEF KInv
  <2> QED BY <1>1, <2>1, PaddedSize DEF Laid, Searching
<1>3. i \in lo .. LastPair /\ LastPair = lo + hi
  BY <1>1 DEF Searching, LastPair
<1> HIDE DEF lo, hi
<1>4. i \in Nat /\ i >= lo /\ i <= LastPair /\ i + 1 \in lo + 1 .. lo + hi + 1 /\ (i + 1) - 1 = i
  BY <1>2, <1>3
<1>5. i + 1 \in DOMAIN memory /\ memory[i + 1].keyword = keyword
  BY <1>2, <1>4 DEF At
<1>6. Slot(i) = SlotOf(Len(memory), stream, i)
  BY DEF Slot, SlotOf, prp, base
<1>7. Slot(i) \in DOMAIN sub_arrays /\ (alpha <= base => sub_arrays[Slot(i)] = memory[i + 1])
  BY <1>1, <1>4, <1>5, <1>6 DEF Laid, base
<1> QED BY <1>2, <1>3, <1>4, <1>5, <1>7 DEF lo, hi

LEMMA SearchStepInv == ASSUME KInv, SearchStep PROVE KInv'
<1> DEFINE lo == index[keyword][1]
           d == memory[i + 1]
<1>1. /\ UNCHANGED <<rows, stream, table, keyword>> /\ pc = "search" /\ i' = i + 1
      /\ ans' = IF sub_arrays[Slot(i)].id < Len(memory) THEN Append(ans, sub_arrays[Slot(i)])
                ELSE ans
      /\ touched' = touched \cup {sub_arrays[Slot(i)]}
      /\ pc' = IF i = LastPair THEN "answered" ELSE "search"
  BY DEF SearchStep
<1>2. UNCHANGED <<memory, index>>
  BY <1>1 DEF table
<1>3. /\ lo \in Nat /\ i \in Nat /\ i >= lo /\ i <= LastPair /\ LastPair \in Nat
      /\ i + 1 \in DOMAIN memory /\ d.keyword = keyword
      /\ Slot(i) \in DOMAIN sub_arrays /\ (alpha <= base => sub_arrays[Slot(i)] = d)
  BY SMTT(30), <1>1, SearchAt
<1>4. Searching /\ memory \in Seq(Pair) /\ Genuine(rows, memory) /\ ans \in Seq(Pair)
      /\ (alpha <= base => \A e \in touched : e.keyword = keyword)
      /\ rows \in UNION {[1 .. l -> Keyword] : l \in 1 .. MaxRows}
      /\ Laid(rows, stream, memory, index, sub_arrays)
  BY <1>1 DEF KInv, OwnPairsOnly
<1>a. base' = base
  BY <1>2 DEF base
<1>5. alpha <= base => ans' = IF d.id < Len(memory) THEN Append(ans, d) ELSE ans
  BY <1>1, <1>3
<1>6. keyword \in Words(rows) /\ (alpha <= base => Answer(memory, lo + 1, i, ans))
  BY <1>4 DEF Searching
<1> HIDE DEF lo
<1>7. alpha <= base => Answer(memory, lo + 1, i + 1, ans')
  <2>1. lo + 1 \in Nat \ {0} /\ lo + 1 <= i + 1
    BY <1>3
  <2> QED BY <1>3, <1>4, <1>5, <1>6, <2>1, AnswerGrows
<1>b. ans' \in Seq(Pair)
  <2>1. sub_arrays[Slot(i)] \in Pair
    BY <1>3, <1>4 DEF Laid
  <2> QED BY <1>1, <1>4, <2>1, AppendProperties
<1>8. OwnPairsOnly' /\ ThrowsForOwn'
  BY <1>1, <1>3, <1>4, <1>a DEF OwnPairsOnly, ThrowsForOwn
<1>9. LastPair' = LastPair /\ index'[keyword'][1] = lo /\ Words(rows') = Words(rows)
  BY <1>1, <1>2 DEF LastPair, lo
<1>10. pc' = "search" => Searching'
  <2> SUFFICES ASSUME pc' = "search" PROVE Searching'
    OBVIOUS
  <2>1. i # LastPair
    BY <1>1
  <2>2. i + 1 \in lo .. LastPair
    BY <1>3, <2>1
  <2> QED BY <1>1, <1>2, <1>6, <1>7, <1>9, <1>a, <2>2 DEF Searching
<1>11. pc' = "answered" => Answered'
  <2> SUFFICES ASSUME pc' = "answered" PROVE Answered'
    OBVIOUS
  <2>1. i = LastPair
    BY <1>1
  <2>2. keyword \in Keyword
    <3>1. Words(rows) \subseteq Keyword
      BY <1>1, OccNumber DEF KInv
    <3> QED BY <1>6, <3>1
  <2> QED BY <1>1, <1>2, <1>6, <1>7, <1>9, <1>a, <2>1, <2>2 DEF Answered
<1>12. pc' \in {"search", "answered"}
  BY <1>1
<1> QED BY <1>1, <1>8, <1>10, <1>11, <1>12, <1>b, TableKept

LEMMA SearchThrowsInv == ASSUME KInv, SearchThrows PROVE KInv'
<1>1. UNCHANGED <<rows, stream, table, query>> /\ pc = "search" /\ pc' = "thrown"
      /\ Slot(i) \notin stored
  BY DEF SearchThrows
<1>2. ans' \in Seq(Pair) /\ OwnPairsOnly'
  BY <1>1 DEF KInv, query, table, OwnPairsOnly, base
<1>3. ThrowsForOwn'
  <2>1. i + 1 \in PairsOf(keyword) /\ Slot((i + 1) - 1) \notin stored
    <3>1. i \in Nat /\ i + 1 \in DOMAIN memory /\ memory[i + 1].keyword = keyword
      BY SMTT(30), <1>1, SearchAt
    <3> QED BY <1>1, <3>1 DEF PairsOf
  <2>2. UNCHANGED <<memory, stream, stored, keyword>>
    BY <1>1 DEF table, query
  <2>3. PairsOf(keyword)' = PairsOf(keyword) /\ \A p : Slot(p)' = Slot(p)
    BY <2>2 DEF PairsOf, Slot, prp, base
  <2> QED BY <2>1, <2>2, <2>3 DEF ThrowsForOwn
<1> QED BY <1>1, <1>2, <1>3, TableKept

\* The invariant: what has been padded, where the pairs are once they are laid
\* out, and what a search has got of those it has read.
THEOREM Inductive == Spec => []KInv
<1>1. Init => KInv
  BY InitInv
<1>2. KInv /\ [Next]_vars => KInv'
  <2> SUFFICES ASSUME KInv, [Next]_vars PROVE KInv'
    OBVIOUS
  <2>1. CASE adj_padding_Keyword
    BY <2>1, PadKeywordInv
  <2>2. CASE adj_padding_Table
    BY <2>2, PadTableInv
  <2>3. CASE adj_insert
    BY <2>3, InsertInv
  <2>4. CASE StoreNext
    BY <2>4, StoreNextInv
  <2>5. CASE StoreFails
    BY <2>5, StoreFailsInv
  <2>6. ASSUME NEW w \in Keyword, search(w) PROVE KInv'
    BY <2>6, SearchInv
  <2>7. CASE SearchStep
    BY <2>7, SearchStepInv
  <2>8. CASE SearchThrows
    BY <2>8, SearchThrowsInv
  <2>9. CASE UNCHANGED vars
    BY <2>9 DEF vars, table, query, KInv, Uploading, Idle, Padding, Searching, Answered, LastPair,
                OwnPairsOnly, ThrowsForOwn, PairsOf, Slot, prp, base
  <2> QED BY <2>1, <2>2, <2>3, <2>4, <2>5, <2>6, <2>7, <2>8, <2>9 DEF Next
<1> QED BY <1>1, <1>2, PTL DEF Spec

\* A search goes to slots of the sub arrays only, and every pair and count is
\* what it should be.
THEOREM TypeCorrect == Spec => []TypeOK
<1>1. KInv => TypeOK
  <2> SUFFICES ASSUME KInv PROVE TypeOK
    OBVIOUS
  <2>1. sub_arrays = <<>> \/ AllSlots = Slots(base, alpha)
    BY DEF KInv, Uploading, Laid, AllSlots, base
  <2>2. pc = "search" => i \in 0 .. Len(memory) - 1 /\ Slot(i) \in AllSlots
    <3> SUFFICES ASSUME pc = "search" PROVE i \in 0 .. Len(memory) - 1 /\ Slot(i) \in AllSlots
      OBVIOUS
    <3>1. i \in Nat /\ i + 1 \in DOMAIN memory /\ Slot(i) \in DOMAIN sub_arrays
      BY SearchAt
    <3>2. DOMAIN memory = 1 .. Len(memory) /\ Len(memory) \in Nat
      BY DEF KInv
    <3> QED BY <3>1, <3>2 DEF AllSlots
  <2> QED BY <2>1, <2>2 DEF KInv, TypeOK, AllSlots
<1> QED BY <1>1, Inductive, PTL

\* No search reads a pair of another keyword, padding included, unless there are more
\* ORAMs than positions.
THEOREM OwnPairsHolds == Spec => []OwnPairsOnly
<1>1. KInv => OwnPairsOnly
  BY DEF KInv, OwnPairsOnly
<1> QED BY <1>1, Inductive, PTL

\* The server sees as many reads as the keyword has pairs, and all keywords of one
\* power of x have as many.
THEOREM VolumeHolds == Spec => []VolumePadded
<1>1. KInv => VolumePadded
  <2> SUFFICES ASSUME KInv, pc = "answered", keyword \in DOMAIN index
               PROVE  /\ i - index[keyword][1] = Cardinality(PairsOf(keyword))
                      /\ \A w \in Keyword \cap DOMAIN index :
                           PowerAbove(Occurrences(w)) = PowerAbove(Occurrences(keyword)) =>
                              Cardinality(PairsOf(w)) = Cardinality(PairsOf(keyword))
    BY DEF VolumePadded
  <2>1. Laid(rows, stream, memory, index, sub_arrays) /\ Answered /\ Padded(rows, memory, count)
    BY DEF KInv
  <2>2. keyword \in Words(rows) /\ Keyword \cap DOMAIN index = Words(rows)
    BY <2>1 DEF Laid, Answered
  <2>3. \A w \in Words(rows) : Cardinality(PairsOf(w)) = PowerAbove(Occurrences(w)) + 1
    BY <2>1, OccIs DEF Padded, Full, PairsOf, At
  <2> DEFINE o == Occ(rows, keyword)
             lo == index[keyword][1]
             hi == index[keyword][2]
  <2>4. o \in Nat
    BY OccNumber DEF KInv
  <2>5. lo \in Nat /\ hi = PowerAbove(o) /\ PowerAbove(o) \in Nat
    BY <2>1, <2>2, <2>4, PaddedSize DEF Laid
  <2>6. i = lo + hi + 1
    BY <2>1, <2>2 DEF Answered, LastPair
  <2>7. Cardinality(PairsOf(keyword)) = PowerAbove(o) + 1
    BY <2>2, <2>3, OccIs
  <2> HIDE DEF o, lo, hi
  <2>8. i - lo = Cardinality(PairsOf(keyword))
    BY <2>5, <2>6, <2>7
  <2> QED BY <2>2, <2>3, <2>8 DEF lo
<1> QED BY <1>1, Inductive, PTL

\* A search that ends the process does so at a pair of its own keyword.
THEOREM ThrowsForOwnHolds == Spec => []ThrowsForOwn
<1>1. KInv => ThrowsForOwn
  BY DEF KInv
<1> QED BY <1>1, Inductive, PTL

\* A search that returns gives the documents that have the keyword, each once, unless
\* there are more ORAMs than positions.
THEOREM SearchExactHolds == Spec => []SearchExact
<1>1. KInv => SearchExact
  <2> SUFFICES ASSUME KInv, pc = "answered", alpha <= base
               PROVE  LET real == {k \in DOMAIN ans : ~ans[k].dummy} IN
                      /\ {ans[k].id : k \in real} =
                            {j - 1 : j \in {l \in DOMAIN rows : rows[l] = keyword}}
                      /\ Cardinality(real) = Occ(rows, keyword)
    BY OccIs DEF SearchExact
  <2> DEFINE real == {k \in DOMAIN ans : ~ans[k].dummy}
             docs == {l \in DOMAIN rows : rows[l] = keyword}
  <2>1. /\ Laid(rows, stream, memory, index, sub_arrays) /\ Answered /\ Genuine(rows, memory)
        /\ rows \in UNION {[1 .. l -> Keyword] : l \in 1 .. MaxRows}
    BY DEF KInv
  <2>2. CASE keyword \in Words(rows)
    <3> DEFINE lo == index[keyword][1]
               hi == index[keyword][2]
               read == {p \in lo + 1 .. i : ~memory[p].dummy}
    <3>1. lo \in Nat /\ hi \in Nat /\ At(memory, keyword) = lo + 1 .. lo + hi + 1
      <4>1. Occ(rows, keyword) \in Nat
        BY <2>1, OccNumber
      <4> QED BY <2>1, <2>2, <4>1, PaddedSize DEF Laid
    <3>2. i = lo + hi + 1 /\ Answer(memory, lo + 1, i, ans)
      BY <2>1, <2>2 DEF Answered, LastPair
    <3>3. read = Real(memory, keyword)
      BY <3>1, <3>2 DEF Real
    <3>4. {ans[k].id : k \in real} = {memory[p].id : p \in read}
          /\ Cardinality(real) = Cardinality(read)
      BY <3>2 DEF Answer
    <3>5. {memory[j].id : j \in Real(memory, keyword)} = {j - 1 : j \in docs}
          /\ Cardinality(Real(memory, keyword)) = Occ(rows, keyword)
      BY <2>1 DEF Genuine, Answered
    <3> HIDE DEF read, real, docs
    <3>6. {ans[k].id : k \in real} = {j - 1 : j \in docs} /\ Cardinality(real) = Occ(rows, keyword)
      BY <3>3, <3>4, <3>5
    <3> QED BY <3>6 DEF real, docs
  <2>3. CASE keyword \notin Words(rows)
    <3>1. ans = <<>> /\ docs = {}
      BY <2>1, <2>3 DEF Answered, Words
    <3>2. Occ(rows, keyword) = 0
      BY <2>1, <2>3, OccNumber
    <3>3. real = {}
      <4>1. DOMAIN ans = {}
        BY <3>1
      <4> QED BY <4>1
    <3> HIDE DEF real, docs
    <3>4. {ans[k].id : k \in real} = {j - 1 : j \in docs} /\ Cardinality(real) = Occ(rows, keyword)
      BY <3>1, <3>2, <3>3, FS_EmptySet
    <3> QED BY <3>4 DEF real, docs
  <2> QED BY <2>2, <2>3
<1> QED BY <1>1, Inductive, PTL

-----------------------------------------------------------------------------
(* The range index.                                                        *)
(* The nodes of tree T1.                                                   *)

LEMMA Level0 == Root = <<1, 8>> /\ Value = 1 .. 8
  BY DEF Root, Low, High, Value

(* The halves of a node. *)
LEMMA HalvesOf == ASSUME NEW a \in Nat, NEW b \in Nat
  PROVE Left(<<a, b>>) = <<a, (a + b) \div 2>> /\ Right(<<a, b>>) = <<(a + b) \div 2 + 1, b>>
  BY DEF Left, Right, Mid

(* Below a node are its halves. *)
LEMMA BelowPair ==
  ASSUME NEW n PROVE Below(<<n>>) = <<Left(n), Right(n)>>
<1> DEFINE s == <<n>>
<1>1. Len(s) = 1 /\ s[1] = n
  OBVIOUS
<1>2. Below(s) = [k \in 1 .. 2 |-> IF k % 2 = 1 THEN Left(s[(k + 1) \div 2]) ELSE Right(s[k \div 2])]
  BY <1>1 DEF Below
<1> QED BY <1>1, <1>2

(* The levels below the root. *)
LEMMA Level1 == Below(<<Root>>) = <<<<1, 4>>, <<5, 8>>>>
  BY Level0, HalvesOf, BelowPair

LEMMA Level2 == Below(<<<<1, 4>>, <<5, 8>>>>) = <<<<1, 2>>, <<3, 4>>, <<5, 6>>, <<7, 8>>>>
<1> DEFINE s == <<<<1, 4>>, <<5, 8>>>>
<1>1. Len(s) = 2 /\ s[1] = <<1, 4>> /\ s[2] = <<5, 8>>
  OBVIOUS
<1> HIDE DEF s
<1>2. Below(s) = [k \in 1 .. 4 |-> IF k % 2 = 1 THEN Left(s[(k + 1) \div 2]) ELSE Right(s[k \div 2])]
  BY <1>1 DEF Below
<1>3. Left(s[1]) = <<1, 2>> /\ Right(s[1]) = <<3, 4>> /\ Left(s[2]) = <<5, 6>> /\ Right(s[2]) = <<7, 8>>
  BY <1>1, HalvesOf
<1> QED BY <1>2, <1>3 DEF s
LEMMA Level3 ==
  Below(<<<<1, 2>>, <<3, 4>>, <<5, 6>>, <<7, 8>>>>) = [k \in 1 .. 8 |-> <<k, k>>]
<1> DEFINE s == <<<<1, 2>>, <<3, 4>>, <<5, 6>>, <<7, 8>>>>
<1>1. Len(s) = 4 /\ s[1] = <<1, 2>> /\ s[2] = <<3, 4>> /\ s[3] = <<5, 6>> /\ s[4] = <<7, 8>>
  OBVIOUS
<1> HIDE DEF s
<1>2. Below(s) = [k \in 1 .. 8 |-> IF k % 2 = 1 THEN Left(s[(k + 1) \div 2]) ELSE Right(s[k \div 2])]
  BY <1>1 DEF Below
<1>3. /\ Left(s[1]) = <<1, 1>> /\ Right(s[1]) = <<2, 2>> /\ Left(s[2]) = <<3, 3>> /\ Right(s[2]) = <<4, 4>>
      /\ Left(s[3]) = <<5, 5>> /\ Right(s[3]) = <<6, 6>> /\ Left(s[4]) = <<7, 7>> /\ Right(s[4]) = <<8, 8>>
  BY <1>1, HalvesOf
<1>4. ASSUME NEW k \in 1 .. 8 PROVE Below(s)[k] = <<k, k>>
  <2>1. k = 1 \/ k = 2 \/ k = 3 \/ k = 4 \/ k = 5 \/ k = 6 \/ k = 7 \/ k = 8
    OBVIOUS
  <2>2. Below(s)[k] = IF k % 2 = 1 THEN Left(s[(k + 1) \div 2]) ELSE Right(s[k \div 2])
    BY <1>2
  <2> QED BY <1>3, <2>1, <2>2
<1> QED BY <1>2, <1>4 DEF s

(* The levels of the tree, from the root to the single values. *)
LEMMA Levels ==
  /\ DOMAIN level_result = 1 .. 4
  /\ level_result[1] = <<<<1, 8>>>>
  /\ level_result[2] = <<<<1, 4>>, <<5, 8>>>>
  /\ level_result[3] = <<<<1, 2>>, <<3, 4>>, <<5, 6>>, <<7, 8>>>>
  /\ level_result[4] = [k \in 1 .. 8 |-> <<k, k>>]
<1>1. level_result = <<<<Root>>, Below(<<Root>>), Below(Below(<<Root>>)), Below(Below(Below(<<Root>>)))>>
  BY DEF level_result
<1> DEFINE l1 == Below(<<Root>>)
           l2 == Below(l1)
           l3 == Below(l2)
<1>2. Root = <<1, 8>> /\ l1 = <<<<1, 4>>, <<5, 8>>>>
  BY Level0, Level1
<1>3. l2 = <<<<1, 2>>, <<3, 4>>, <<5, 6>>, <<7, 8>>>>
  BY <1>2, Level2
<1>4. l3 = [k \in 1 .. 8 |-> <<k, k>>]
  BY <1>3, Level3
<1> HIDE DEF l1, l2, l3
<1>5. level_result = <<<<Root>>, l1, l2, l3>>
  BY <1>1 DEF l1, l2, l3
<1>6. DOMAIN level_result = 1 .. 4 /\ level_result[1] = <<Root>> /\ level_result[2] = l1
      /\ level_result[3] = l2 /\ level_result[4] = l3
  BY <1>5
<1> QED BY <1>2, <1>3, <1>4, <1>6

InnerNodes == {<<1, 8>>, <<1, 4>>, <<5, 8>>, <<1, 2>>, <<3, 4>>, <<5, 6>>, <<7, 8>>}

LEMMA InnerIs == Inner = InnerNodes
<1> DEFINE R == {level_result[l] : l \in DOMAIN level_result}
           N(nodes) == {nodes[k] : k \in DOMAIN nodes}
<1>1. R = {level_result[1], level_result[2], level_result[3], level_result[4]}
  <2>1. DOMAIN level_result = 1 .. 4
    BY Levels
  <2>2. DOMAIN level_result = {1, 2, 3, 4}
    BY <2>1
  <2> QED BY <2>2
<1>2. N(level_result[1]) = {<<1, 8>>}
  BY Levels
<1>3. N(level_result[2]) = {<<1, 4>>, <<5, 8>>}
  BY Levels
<1>4. N(level_result[3]) = {<<1, 2>>, <<3, 4>>, <<5, 6>>, <<7, 8>>}
  BY Levels
<1>5. N(level_result[4]) = {<<k, k>> : k \in 1 .. 8}
  <2>1. DOMAIN level_result[4] = 1 .. 8 /\ \A k \in 1 .. 8 : level_result[4][k] = <<k, k>>
    <3>1. level_result[4] = [k \in 1 .. 8 |-> <<k, k>>]
      BY Levels
    <3> QED BY <3>1
  <2> QED BY <2>1
<1>6. Inner = {n \in UNION {N(nodes) : nodes \in R} : n[1] < n[2]}
  BY DEF Inner
<1> HIDE DEF R, N
<1>7. UNION {N(nodes) : nodes \in R} =
         N(level_result[1]) \cup N(level_result[2]) \cup N(level_result[3]) \cup N(level_result[4])
  BY <1>1
<1>8. UNION {N(nodes) : nodes \in R} = InnerNodes \cup {<<k, k>> : k \in 1 .. 8}
  BY <1>2, <1>3, <1>4, <1>5, <1>7 DEF InnerNodes
<1>9. \A n \in InnerNodes : n[1] < n[2]
  BY DEF InnerNodes
<1>10. \A n \in {<<k, k>> : k \in 1 .. 8} : ~(n[1] < n[2])
  OBVIOUS
<1> QED BY <1>6, <1>8, <1>9, <1>10

(* The neighbours that get a parent: one pair of inner nodes, and pairs of values. *)
LEMMA PairsAre ==
  /\ <<<<3, 4>>, <<5, 6>>>> \in Pairs
  /\ \A p \in Pairs : \/ p = <<<<3, 4>>, <<5, 6>>>>
                      \/ \E v \in 1 .. 7 : p = <<<<v, v>>, <<v + 1, v + 1>>>>
<1> DEFINE R == {level_result[l] : l \in DOMAIN level_result}
           Q(nodes) == {<<nodes[k], nodes[k + 1]>> : k \in {m \in 1 .. Len(nodes) - 1 : Paired(m)}}
<1>1. R = {level_result[1], level_result[2], level_result[3], level_result[4]}
  <2>1. DOMAIN level_result = 1 .. 4
    BY Levels
  <2>2. DOMAIN level_result = {1, 2, 3, 4}
    BY <2>1
  <2> QED BY <2>2
<1>2. Pairs = UNION {Q(nodes) : nodes \in R}
  BY DEF Pairs
<1>3. Q(level_result[1]) = {}
  <2>1. Len(level_result[1]) = 1
    <3>1. level_result[1] = <<<<1, 8>>>>
      BY Levels
    <3> QED BY <3>1
  <2> QED BY <2>1
<1>4. Q(level_result[2]) = {}
  BY Levels DEF Paired
<1>5. Q(level_result[3]) = {<<<<3, 4>>, <<5, 6>>>>}
  <2>1. {m \in 1 .. 4 - 1 : Paired(m)} = {2}
    BY DEF Paired
  <2>2. Len(level_result[3]) = 4
    BY Levels
  <2>3. Q(level_result[3]) = {<<level_result[3][2], level_result[3][2 + 1]>>}
    BY <2>1, <2>2
  <2> QED BY <2>3, Levels
<1>6. \A p \in Q(level_result[4]) : \E v \in 1 .. 7 : p = <<<<v, v>>, <<v + 1, v + 1>>>>
  <2>1. Len(level_result[4]) = 8
    BY Levels
  <2> QED BY <2>1, Levels
<1> HIDE DEF R, Q
<1>7. UNION {Q(nodes) : nodes \in R} =
         Q(level_result[1]) \cup Q(level_result[2]) \cup Q(level_result[3]) \cup Q(level_result[4])
  BY <1>1
<1> QED BY <1>2, <1>3, <1>4, <1>5, <1>6, <1>7

(* The parent of the one pair of inner nodes; the other inner nodes have none. *)
LEMMA Parents ==
  /\ parent[<<3, 4>>] = <<3, 6>> /\ parent[<<5, 6>>] = <<3, 6>>
  /\ \A n \in {<<1, 8>>, <<1, 4>>, <<5, 8>>, <<1, 2>>, <<7, 8>>} : parent[n] = NoNode
<1>1. \A n \in Value \X Value : parent[n] =
         IF \E p \in Pairs : n \in {p[1], p[2]}
         THEN LET p == CHOOSE q \in Pairs : n \in {q[1], q[2]} IN <<p[1][1], p[2][2]>>
         ELSE NoNode
  BY DEF parent
<1>2. ASSUME NEW n \in {<<3, 4>>, <<5, 6>>} PROVE parent[n] = <<3, 6>>
  <2> DEFINE here == {q \in Pairs : n \in {q[1], q[2]}}
  <2>1. n \in Value \X Value
    BY Level0
  <2>2. here = {<<<<3, 4>>, <<5, 6>>>>}
    BY PairsAre
  <2>3. (CHOOSE q \in Pairs : n \in {q[1], q[2]}) \in here
    BY <2>2
  <2>4. \E p \in Pairs : n \in {p[1], p[2]}
    BY <2>2
  <2> HIDE DEF here
  <2>5. (CHOOSE q \in Pairs : n \in {q[1], q[2]}) = <<<<3, 4>>, <<5, 6>>>>
    BY <2>2, <2>3
  <2>6. parent[n] = LET p == CHOOSE q \in Pairs : n \in {q[1], q[2]} IN <<p[1][1], p[2][2]>>
    BY <1>1, <2>1, <2>4
  <2>7. parent[n] = <<<<<<3, 4>>, <<5, 6>>>>[1][1], <<<<3, 4>>, <<5, 6>>>>[2][2]>>
    BY <2>5, <2>6
  <2> QED BY <2>7
<1>3. ASSUME NEW n \in {<<1, 8>>, <<1, 4>>, <<5, 8>>, <<1, 2>>, <<7, 8>>} PROVE parent[n] = NoNode
  <2>1. n \in Value \X Value
    BY Level0
  <2>2. ~\E p \in Pairs : n \in {p[1], p[2]}
    BY PairsAre
  <2> QED BY <1>1, <2>1, <2>2
<1> QED BY <1>2, <1>3
\* The body of cover for a function f, and what it gives for each width.
CoverBy(f, n) ==
    [q \in Value \X Value |->
        IF n[2] - 1 = n[1] THEN n
        ELSE IF q[1] > Mid(n) THEN f[Right(n)][q]
        ELSE IF q[2] <= Mid(n) THEN f[Left(n)][q]
        ELSE LET a == parent[f[Left(n)][<<q[1], Mid(n)>>]]
                 b == parent[f[Right(n)][<<Mid(n) + 1, q[2]>>]]
             IN  Merged(a, b, n)]

TwoWide(n)  == [q \in Value \X Value |-> n]
FourWide(n) == [q \in Value \X Value |->
                  IF q[1] > Mid(n) THEN Right(n) ELSE IF q[2] <= Mid(n) THEN Left(n) ELSE n]
AllWide == [q \in Value \X Value |->
              IF q[1] > 4 THEN FourWide(<<5, 8>>)[q]
              ELSE IF q[2] <= 4 THEN FourWide(<<1, 4>>)[q]
              ELSE IF q[1] >= 3 /\ q[2] <= 6 THEN <<3, 6>> ELSE <<1, 8>>]

(* The bodies for nodes of two, four and eight values. *)
LEMMA CoverTwo ==
  ASSUME NEW f, NEW n \in {<<1, 2>>, <<3, 4>>, <<5, 6>>, <<7, 8>>}
  PROVE  CoverBy(f, n) = TwoWide(n)
<1>1. n[2] - 1 = n[1]
  OBVIOUS
<1> QED BY <1>1 DEF CoverBy, TwoWide

LEMMA CoverFour ==
  ASSUME NEW f, NEW n \in {<<1, 4>>, <<5, 8>>},
         f[Left(n)] = TwoWide(Left(n)), f[Right(n)] = TwoWide(Right(n))
  PROVE  CoverBy(f, n) = FourWide(n)
<1>1. n[2] - 1 # n[1] /\ Mid(n) \in Value /\ Mid(n) + 1 \in Value
  BY Level0 DEF Mid
<1>2. \/ Left(n) = <<1, 2>> /\ Right(n) = <<3, 4>>
      \/ Left(n) = <<5, 6>> /\ Right(n) = <<7, 8>>
  BY HalvesOf
<1>3. Merged(parent[Left(n)], parent[Right(n)], n) = n
  <2>1. <<3, 6>> # NoNode
    BY DEF NoNode
  <2> QED BY <1>2, <2>1, Parents DEF Merged
<1>4. ASSUME NEW q \in Value \X Value
      PROVE  CoverBy(f, n)[q] = FourWide(n)[q]
  <2>1. q[1] \in Value /\ q[2] \in Value
    OBVIOUS
  <2>2. <<q[1], Mid(n)>> \in Value \X Value /\ <<Mid(n) + 1, q[2]>> \in Value \X Value
    BY <1>1, <2>1
  <2>3. /\ f[Right(n)][q] = Right(n) /\ f[Left(n)][q] = Left(n)
        /\ f[Left(n)][<<q[1], Mid(n)>>] = Left(n)
        /\ f[Right(n)][<<Mid(n) + 1, q[2]>>] = Right(n)
    BY <2>2 DEF TwoWide
  <2>4. CoverBy(f, n)[q] =
           IF q[1] > Mid(n) THEN Right(n) ELSE IF q[2] <= Mid(n) THEN Left(n)
           ELSE Merged(parent[Left(n)], parent[Right(n)], n)
    BY <1>1, <2>3 DEF CoverBy
  <2> QED BY <1>3, <2>4 DEF FourWide
<1> QED BY <1>4 DEF CoverBy, FourWide

LEMMA CoverRoot ==
  ASSUME NEW f, f[<<1, 4>>] = FourWide(<<1, 4>>), f[<<5, 8>>] = FourWide(<<5, 8>>)
  PROVE  CoverBy(f, <<1, 8>>) = AllWide
<1> DEFINE n == <<1, 8>>
<1>1. /\ n[2] - 1 # n[1] /\ Mid(n) = 4 /\ Left(n) = <<1, 4>> /\ Right(n) = <<5, 8>>
      /\ Mid(<<1, 4>>) = 2 /\ Left(<<1, 4>>) = <<1, 2>> /\ Right(<<1, 4>>) = <<3, 4>>
      /\ Mid(<<5, 8>>) = 6 /\ Left(<<5, 8>>) = <<5, 6>> /\ Right(<<5, 8>>) = <<7, 8>>
  BY DEF Mid, Left, Right
<1>2. ASSUME NEW q \in Value \X Value
      PROVE  CoverBy(f, n)[q] = AllWide[q]
  <2> DEFINE a == parent[f[<<1, 4>>][<<q[1], 4>>]]
             b == parent[f[<<5, 8>>][<<4 + 1, q[2]>>]]
  <2>1. q[1] \in 1 .. 8 /\ q[2] \in 1 .. 8
    BY Level0
  <2>2. <<q[1], 4>> \in Value \X Value /\ <<4 + 1, q[2]>> \in Value \X Value
    BY <2>1, Level0
  <2>3. CoverBy(f, n)[q] =
           IF q[1] > 4 THEN FourWide(<<5, 8>>)[q] ELSE IF q[2] <= 4 THEN FourWide(<<1, 4>>)[q]
           ELSE Merged(a, b, n)
    BY <1>1 DEF CoverBy
  <2>4. ASSUME q[1] <= 4, q[2] > 4
        PROVE  Merged(a, b, n) = IF q[1] >= 3 /\ q[2] <= 6 THEN <<3, 6>> ELSE <<1, 8>>
    <3>1. f[<<1, 4>>][<<q[1], 4>>] = IF q[1] >= 3 THEN <<3, 4>> ELSE <<1, 4>>
      BY <1>1, <2>1, <2>2, <2>4 DEF FourWide
    <3>2. f[<<5, 8>>][<<4 + 1, q[2]>>] = IF q[2] <= 6 THEN <<5, 6>> ELSE <<5, 8>>
      BY <1>1, <2>1, <2>2, <2>4 DEF FourWide
    <3>3. a = IF q[1] >= 3 THEN <<3, 6>> ELSE NoNode
      BY <3>1, Parents
    <3>4. b = IF q[2] <= 6 THEN <<3, 6>> ELSE NoNode
      BY <3>2, Parents
    <3>5. <<3, 6>> # NoNode
      BY DEF NoNode
    <3> HIDE DEF a, b
    <3> QED BY <3>3, <3>4, <3>5 DEF Merged
  <2> HIDE DEF a, b, n
  <2>5. AllWide[q] = IF q[1] > 4 THEN FourWide(<<5, 8>>)[q]
              ELSE IF q[2] <= 4 THEN FourWide(<<1, 4>>)[q]
              ELSE IF q[1] >= 3 /\ q[2] <= 6 THEN <<3, 6>> ELSE <<1, 8>>
    BY Zenon DEF AllWide
  <2> QED BY <2>1, <2>3, <2>4, <2>5
<1> QED BY <1>2 DEF CoverBy, AllWide

(* The recursion has a solution, so cover is one. *)
LEMMA CoverUnfolds == cover = [n \in Inner |-> CoverBy(cover, n)]
<1> DEFINE f == [n \in Inner |-> IF n = <<1, 8>> THEN AllWide
                                 ELSE IF n[2] - 1 = n[1] THEN TwoWide(n) ELSE FourWide(n)]
<1>1. \A n \in {<<1, 2>>, <<3, 4>>, <<5, 6>>, <<7, 8>>} : f[n] = TwoWide(n)
  BY InnerIs DEF InnerNodes
<1>2. \A n \in {<<1, 4>>, <<5, 8>>} : f[n] = FourWide(n)
  BY InnerIs DEF InnerNodes
<1>3. f[<<1, 8>>] = AllWide
  BY InnerIs DEF InnerNodes
<1>4. DOMAIN f = Inner /\ f = [n \in Inner |-> f[n]]
  OBVIOUS
<1> HIDE DEF f
<1>5. ASSUME NEW n \in Inner PROVE f[n] = CoverBy(f, n)
  <2>1. CASE n \in {<<1, 2>>, <<3, 4>>, <<5, 6>>, <<7, 8>>}
    BY <1>1, <2>1, CoverTwo
  <2>2. CASE n \in {<<1, 4>>, <<5, 8>>}
    <3>1. \/ Left(n) = <<1, 2>> /\ Right(n) = <<3, 4>>
          \/ Left(n) = <<5, 6>> /\ Right(n) = <<7, 8>>
      BY <2>2, HalvesOf
    <3>2. f[Left(n)] = TwoWide(Left(n)) /\ f[Right(n)] = TwoWide(Right(n))
      BY <1>1, <3>1
    <3> QED BY <1>2, <2>2, <3>2, CoverFour
  <2>3. CASE n = <<1, 8>>
    BY <1>2, <1>3, <2>3, CoverRoot
  <2> QED BY <2>1, <2>2, <2>3, InnerIs DEF InnerNodes
<1>6. f = [n \in Inner |-> CoverBy(f, n)]
  BY <1>4, <1>5
<1> QED BY <1>6 DEF cover, CoverBy

LEMMA CoverIs == single_range_cover = AllWide
<1>1. \A n \in InnerNodes : cover[n] = CoverBy(cover, n)
  BY CoverUnfolds, InnerIs
<1>2. \A n \in {<<1, 2>>, <<3, 4>>, <<5, 6>>, <<7, 8>>} : cover[n] = TwoWide(n)
  BY <1>1, CoverTwo DEF InnerNodes
<1>3. ASSUME NEW n \in {<<1, 4>>, <<5, 8>>} PROVE cover[n] = FourWide(n)
  <2>1. \/ Left(n) = <<1, 2>> /\ Right(n) = <<3, 4>>
        \/ Left(n) = <<5, 6>> /\ Right(n) = <<7, 8>>
    BY HalvesOf
  <2>2. cover[Left(n)] = TwoWide(Left(n)) /\ cover[Right(n)] = TwoWide(Right(n))
    BY <1>2, <2>1
  <2> QED BY <1>1, <2>2, CoverFour DEF InnerNodes
<1>4. cover[<<1, 8>>] = AllWide
  BY <1>1, <1>3, CoverRoot DEF InnerNodes
<1> QED BY <1>4, Level0 DEF single_range_cover

\* The node covers the range, and is at most twice as wide.
LEMMA CoverBounds ==
  ASSUME NEW lo \in Value, NEW hi \in Value, lo <= hi
  PROVE  LET n == single_range_cover[<<lo, hi>>]
         IN  /\ n \in Value \X Value /\ n[1] <= lo /\ hi <= n[2]
             /\ n[2] - n[1] + 1 <= 2 * (hi - lo + 1)
<1> DEFINE n == single_range_cover[<<lo, hi>>]
           q == <<lo, hi>>
<1>1. lo \in 1 .. 8 /\ hi \in 1 .. 8 /\ q \in Value \X Value /\ q[1] = lo /\ q[2] = hi
  BY Level0
<1>2. FourWide(<<1, 4>>)[q] = IF lo > 2 THEN <<3, 4>> ELSE IF hi <= 2 THEN <<1, 2>> ELSE <<1, 4>>
  BY <1>1 DEF FourWide, Mid, Left, Right
<1>3. FourWide(<<5, 8>>)[q] = IF lo > 6 THEN <<7, 8>> ELSE IF hi <= 6 THEN <<5, 6>> ELSE <<5, 8>>
  BY <1>1 DEF FourWide, Mid, Left, Right
<1>4. n = IF lo > 4 THEN FourWide(<<5, 8>>)[q] ELSE IF hi <= 4 THEN FourWide(<<1, 4>>)[q]
          ELSE IF lo >= 3 /\ hi <= 6 THEN <<3, 6>> ELSE <<1, 8>>
  BY <1>1, CoverIs DEF AllWide
<1> HIDE DEF n
<1>5. n \in Value \X Value /\ n[1] <= lo /\ hi <= n[2] /\ n[2] - n[1] + 1 <= 2 * (hi - lo + 1)
  BY <1>1, <1>2, <1>3, <1>4, Level0
<1> QED BY <1>5 DEF n

LEMMA NodeType ==
  ASSUME NEW lo \in Value, NEW hi \in Value
  PROVE  single_range_cover[<<lo, hi>>] \in Value \X Value
<1> DEFINE q == <<lo, hi>>
<1>1. lo \in 1 .. 8 /\ hi \in 1 .. 8 /\ q \in Value \X Value /\ q[1] = lo /\ q[2] = hi
  BY Level0
<1>2. FourWide(<<1, 4>>)[q] \in Value \X Value /\ FourWide(<<5, 8>>)[q] \in Value \X Value
  BY <1>1, Level0 DEF FourWide, Mid, Left, Right
<1>3. <<3, 6>> \in Value \X Value /\ <<1, 8>> \in Value \X Value
  BY Level0
<1>4. AllWide[q] \in Value \X Value
  BY <1>1, <1>2, <1>3 DEF AllWide
<1> QED BY <1>4, CoverIs

-----------------------------------------------------------------------------
(* Sequences that list a set.                                              *)

\* s lists the elements of X, each once.
Enumerates(s, X) ==
    /\ s \in Seq(X)
    /\ \A e \in X : \E k \in DOMAIN s : s[k] = e
    /\ \A j, k \in DOMAIN s : s[j] = s[k] => j = k

LEMMA EnumerateNone == Enumerates(<<>>, {})
<1> DEFINE e == <<>>
<1>1. e \in Seq({}) /\ DOMAIN e = {}
  OBVIOUS
<1> HIDE DEF e
<1>2. Enumerates(e, {})
  BY <1>1 DEF Enumerates
<1> QED BY <1>2 DEF e

(* Two lists that have nothing in common list the union, one after the other. *)
LEMMA EnumerateJoined ==
  ASSUME NEW X, NEW Y, NEW s, NEW t, Enumerates(s, X), Enumerates(t, Y), X \cap Y = {}
  PROVE  Enumerates(s \o t, X \cup Y)
<1> DEFINE Z == X \cup Y
           u == s \o t
<1>1. s \in Seq(X) /\ t \in Seq(Y)
  BY DEF Enumerates
<1>2. s \in Seq(Z) /\ t \in Seq(Z)
  <2>1. X \subseteq Z /\ Y \subseteq Z
    OBVIOUS
  <2> HIDE DEF Z
  <2> QED BY <1>1, <2>1, SeqMonotonic
<1>3. /\ Len(s) \in Nat /\ DOMAIN s = 1 .. Len(s)
      /\ Len(t) \in Nat /\ DOMAIN t = 1 .. Len(t)
      /\ \A k \in DOMAIN s : s[k] \in X
      /\ \A k \in DOMAIN t : t[k] \in Y
  BY <1>1, LenProperties, ElementOfSeq
<1> HIDE DEF Z
<1>4. /\ u \in Seq(Z) /\ Len(u) = Len(s) + Len(t)
      /\ \A k \in 1 .. Len(s) + Len(t) : u[k] = IF k <= Len(s) THEN s[k] ELSE t[k - Len(s)]
  BY <1>2, ConcatProperties
<1>5. DOMAIN u = 1 .. Len(s) + Len(t)
  BY <1>4, LenProperties
<1> HIDE DEF u
<1>6. ASSUME NEW e \in Z PROVE \E k \in DOMAIN u : u[k] = e
  <2>1. CASE e \in X
    <3>1. PICK k \in DOMAIN s : s[k] = e
      BY <2>1 DEF Enumerates
    <3>2. k \in 1 .. Len(s) + Len(t) /\ k <= Len(s)
      BY <1>3
    <3> QED BY <1>4, <1>5, <3>1, <3>2
  <2>2. CASE e \in Y
    <3>1. PICK k \in DOMAIN t : t[k] = e
      BY <2>2 DEF Enumerates
    <3>2. k + Len(s) \in 1 .. Len(s) + Len(t) /\ ~(k + Len(s) <= Len(s)) /\ (k + Len(s)) - Len(s) = k
      BY <1>3
    <3> QED BY <1>4, <1>5, <3>1, <3>2
  <2> QED BY <2>1, <2>2 DEF Z
<1>7. ASSUME NEW j \in DOMAIN u, NEW k \in DOMAIN u, u[j] = u[k] PROVE j = k
  <2>1. j \in 1 .. Len(s) + Len(t) /\ k \in 1 .. Len(s) + Len(t)
    BY <1>5
  <2>2. /\ j <= Len(s) => j \in DOMAIN s
        /\ k <= Len(s) => k \in DOMAIN s
        /\ j > Len(s) => j - Len(s) \in DOMAIN t
        /\ k > Len(s) => k - Len(s) \in DOMAIN t
    BY <1>3, <2>1
  <2>3. CASE j <= Len(s) /\ k <= Len(s)
    <3>1. s[j] = s[k]
      BY <1>4, <1>7, <2>1, <2>3
    <3> QED BY <2>2, <2>3, <3>1 DEF Enumerates
  <2>4. CASE j > Len(s) /\ k > Len(s)
    <3>1. t[j - Len(s)] = t[k - Len(s)]
      BY <1>3, <1>4, <1>7, <2>1, <2>4
    <3>2. j - Len(s) = k - Len(s)
      BY <2>2, <2>4, <3>1 DEF Enumerates
    <3> QED BY <1>3, <2>1, <3>2
  <2>5. CASE j <= Len(s) /\ k > Len(s)
    <3>1. u[j] \in X /\ u[k] \in Y
      BY <1>3, <1>4, <2>1, <2>2, <2>5
    <3> QED BY <1>7, <3>1
  <2>6. CASE j > Len(s) /\ k <= Len(s)
    <3>1. u[j] \in Y /\ u[k] \in X
      BY <1>3, <1>4, <2>1, <2>2, <2>6
    <3> QED BY <1>7, <3>1
  <2> QED BY <1>3, <2>1, <2>3, <2>4, <2>5, <2>6
<1> QED BY <1>4, <1>6, <1>7 DEF Enumerates, u, Z

LEMMA EnumerateNext ==
  ASSUME NEW X, NEW s, Enumerates(s, X), NEW e, e \notin X
  PROVE  Enumerates(Append(s, e), X \cup {e})
<1>1. Enumerates(<<e>>, {e})
  <2> DEFINE t == <<e>>
  <2>1. t \in Seq({e}) /\ DOMAIN t = {1} /\ t[1] = e
    OBVIOUS
  <2> HIDE DEF t
  <2>2. Enumerates(t, {e})
    BY <2>1 DEF Enumerates
  <2> QED BY <2>2 DEF t
<1>2. Append(s, e) = s \o <<e>>
  <2>1. s \in Seq(X \cup {e})
    <3>1. s \in Seq(X)
      BY DEF Enumerates
    <3> QED BY <3>1, SeqMonotonic
  <2> QED BY <2>1, AppendIsConcat
<1> QED BY <1>1, <1>2, EnumerateJoined

(* A list is as long as its set is large. *)
LEMMA EnumeratedSet ==
  ASSUME NEW X, NEW s, Enumerates(s, X)
  PROVE  {s[k] : k \in DOMAIN s} = X /\ Len(s) = Cardinality(X)
<1>1. Len(s) \in Nat /\ DOMAIN s = 1 .. Len(s) /\ s \in [1 .. Len(s) -> X]
  <2>1. s \in Seq(X)
    BY DEF Enumerates
  <2> QED BY <2>1, LenProperties
<1>2. s \in Bijection(1 .. Len(s), X)
  BY <1>1, Fun_IsBij DEF Enumerates
<1>3. Cardinality(X) = Len(s)
  BY <1>1, <1>2, FS_CountingElements DEF ExistsBijection
<1> QED BY <1>1, <1>3 DEF Enumerates

\* The documents of a value.
Holding(rs, v) == {d \in 0 .. Len(rs) - 1 : rs[d + 1] = v}

(* find_all gives the documents that have the value, each once. *)
LEMMA FindAllHolds ==
  ASSUME NEW n \in Nat, DOMAIN rows = 1 .. n, Len(rows) = n,
         sorted_documents \in Bijection(1 .. n, 0 .. n - 1), NEW v
  PROVE  Enumerates(find_all(v), Holding(rows, v))
<1> DEFINE sd == sorted_documents
           D == 0 .. n - 1
           X == Seq(D)
           Step(m, k) == IF rows[sd[k] + 1] = v THEN Append(m, sd[k]) ELSE m
           Body(f) == [k \in 0 .. n |-> IF k = 0 THEN <<>> ELSE Step(f[k - 1], k)]
           F == [z \in (1 .. n) \X X |-> Step(z[2], z[1])]
           p == CHOOSE f : f = Body(f)
<1>1. /\ sd \in [1 .. n -> D] /\ \A j, k \in 1 .. n : sd[j] = sd[k] => j = k
      /\ \A d \in D : \E k \in 1 .. n : sd[k] = d
      /\ Len(sd) = n
  <2>1. /\ sd \in [1 .. n -> D] /\ \A j, k \in 1 .. n : sd[j] = sd[k] => j = k
        /\ \A d \in D : \E k \in 1 .. n : sd[k] = d
    BY Zenon DEF Bijection, Injection, Surjection, IsInjective
  <2> HIDE DEF D, sd
  <2>2. sd \in Seq(D)
    BY <2>1
  <2> QED BY <2>1, <2>2, LenProperties
<1>2. find_all(v) = p[n]
  BY <1>1 DEF find_all
<1> HIDE DEF sd
<1>3. F \in [(1 .. n) \X X -> X]
  <2>1. ASSUME NEW k \in 1 .. n, NEW m \in X PROVE Step(m, k) \in X
    <3>1. sd[k] \in D
      BY <1>1
    <3> HIDE DEF D
    <3> QED BY <3>1, AppendProperties
  <2> HIDE DEF X, Step
  <2> QED BY <2>1
<1>4. PICK g : Runs(g, X, F, <<>>, n)
  <2>1. <<>> \in X
    OBVIOUS
  <2> HIDE DEF F, X
  <2> QED BY <1>3, <2>1, Recursion
<1>5. g = Body(g)
  <2> HIDE DEF Step, X
  <2>1. g \in [0 .. n -> X] /\ g[0] = <<>> /\ \A k \in 1 .. n : g[k] = F[<<k, g[k - 1]>>]
    BY <1>4 DEF Runs
  <2>2. ASSUME NEW k \in 1 .. n PROVE g[k] = Step(g[k - 1], k)
    <3>1. g[k - 1] \in X
      BY <2>1, k - 1 \in 0 .. n
    <3> QED BY <2>1, <3>1
  <2> HIDE DEF F
  <2>3. ASSUME NEW k \in 0 .. n PROVE g[k] = IF k = 0 THEN <<>> ELSE Step(g[k - 1], k)
    <3>1. k = 0 \/ k \in 1 .. n
      OBVIOUS
    <3>2. ~(0 \in 1 .. n)
      OBVIOUS
    <3>3. g[0] = <<>> /\ \A d \in 1 .. n : g[d] = Step(g[d - 1], d)
      BY <2>1, <2>2
    <3> QED BY <3>1, <3>2, <3>3, Zenon
  <2>4. g \in [0 .. n -> X]
    BY <2>1
  <2> QED BY <2>3, <2>4
<1>6. p = Body(p)
  BY <1>5
<1> HIDE DEF p
<1>7. p[0] = <<>> /\ \A k \in 1 .. n : p[k] = Step(p[k - 1], k)
  <2> HIDE DEF Step
  <2>1. \A k \in 0 .. n : Body(p)[k] = IF k = 0 THEN <<>> ELSE Step(p[k - 1], k)
    OBVIOUS
  <2> HIDE DEF Body
  <2>2. \A k \in 0 .. n : p[k] = IF k = 0 THEN <<>> ELSE Step(p[k - 1], k)
    BY <1>6, <2>1
  <2> QED BY <2>2
<1> DEFINE Upto(k) == {sd[j] : j \in {l \in 1 .. k : rows[sd[l] + 1] = v}}
           S == {k \in 0 .. n : Enumerates(p[k], Upto(k))}
<1>8. 0 \in S
  <2>1. Upto(0) = {}
    OBVIOUS
  <2>2. Enumerates(p[0], Upto(0))
    BY <1>7, <2>1, EnumerateNone
  <2> HIDE DEF Upto
  <2> QED BY <2>2
<1>9. ASSUME NEW k \in 0 .. n - 1, k \in S PROVE k + 1 \in S
  <2>1. k + 1 \in 1 .. n /\ (k + 1) - 1 = k /\ k + 1 \in 0 .. n
    OBVIOUS
  <2>2. p[k + 1] = Step(p[k], k + 1)
    BY <1>7, <2>1
  <2>3. 1 .. k + 1 = (1 .. k) \cup {k + 1} /\ 1 .. k \subseteq 1 .. n /\ k + 1 \notin 1 .. k
    OBVIOUS
  <2>4. Enumerates(p[k], Upto(k))
    BY <1>9
  <2>5. CASE rows[sd[k + 1] + 1] = v
    <3>1. Upto(k + 1) = Upto(k) \cup {sd[k + 1]}
      BY <2>3, <2>5
    <3>2. sd[k + 1] \notin Upto(k)
      BY <1>1, <2>1, <2>3
    <3> HIDE DEF Upto
    <3>3. Enumerates(p[k + 1], Upto(k + 1))
      BY <2>2, <2>4, <2>5, <3>1, <3>2, EnumerateNext
    <3> QED BY <2>1, <3>3
  <2>6. CASE rows[sd[k + 1] + 1] # v
    <3>1. Upto(k + 1) = Upto(k)
      BY <2>3, <2>6
    <3> HIDE DEF Upto
    <3> QED BY <2>1, <2>2, <2>4, <2>6, <3>1
  <2> QED BY <2>5, <2>6
<1>10. n \in S
  <2> HIDE DEF S
  <2>1. 0 .. n \subseteq S
    BY <1>8, <1>9, UpwardInduction
  <2> QED BY <2>1
<1>11. Upto(n) = Holding(rows, v)
  <2>1. Upto(n) \subseteq Holding(rows, v)
    BY <1>1 DEF Holding
  <2>2. Holding(rows, v) \subseteq Upto(n)
    <3> SUFFICES ASSUME NEW d \in Holding(rows, v) PROVE d \in Upto(n)
      OBVIOUS
    <3>1. d \in D /\ rows[d + 1] = v
      BY DEF Holding
    <3>2. PICK k \in 1 .. n : sd[k] = d
      BY <1>1, <3>1
    <3> QED BY <3>1, <3>2
  <2> QED BY <2>1, <2>2
<1> HIDE DEF Upto
<1> QED BY <1>2, <1>10, <1>11

(* Lists of sets that have nothing in common make a list of all of them. *)
LEMMA FlattenHolds ==
  ASSUME NEW n \in Nat \ {0}, NEW D, NEW ss \in [1 .. n -> Seq(D)], NEW A,
         \A k \in 1 .. n : A[k] \subseteq D /\ Enumerates(ss[k], A[k]),
         \A j, k \in 1 .. n : j # k => A[j] \cap A[k] = {},
         NEW U, \A e : e \in U <=> \E k \in 1 .. n : e \in A[k]
  PROVE  Enumerates(FlattenSeq(ss), U)
<1> DEFINE X == Seq(D)
           Body(f) == [j \in 1 .. n |-> IF j = 1 THEN ss[j] ELSE f[j - 1] \o ss[j]]
           F == [z \in (1 .. n - 1) \X X |-> z[2] \o ss[z[1] + 1]]
           p == CHOOSE f : f = Body(f)
<1>1. Len(ss) = n
  <2> HIDE DEF X
  <2>1. ss \in Seq(Seq(D))
    OBVIOUS
  <2>2. Len(ss) \in Nat /\ 1 .. Len(ss) = 1 .. n
    BY <2>1, LenProperties
  <2> QED BY <2>2
<1>2. FlattenSeq(ss) = p[n]
  BY <1>1 DEF FlattenSeq
<1>3. F \in [(1 .. n - 1) \X X -> X]
  <2>1. ASSUME NEW k \in 1 .. n - 1, NEW m \in X PROVE m \o ss[k + 1] \in X
    <3>1. ss[k + 1] \in Seq(D)
      BY k + 1 \in 1 .. n
    <3> QED BY <3>1, ConcatProperties
  <2> HIDE DEF X
  <2> QED BY <2>1
<1>4. PICK r : Runs(r, X, F, ss[1], n - 1)
  <2>1. ss[1] \in X
    OBVIOUS
  <2>2. n - 1 \in Nat
    OBVIOUS
  <2> HIDE DEF F, X
  <2> QED BY <1>3, <2>1, <2>2, Recursion
<1> DEFINE g == [j \in 1 .. n |-> r[j - 1]]
<1>5. g = Body(g)
  <2> HIDE DEF X
  <2>1. r \in [0 .. n - 1 -> X] /\ r[0] = ss[1] /\ \A k \in 1 .. n - 1 : r[k] = F[<<k, r[k - 1]>>]
    BY <1>4 DEF Runs
  <2>2. ASSUME NEW k \in 1 .. n - 1 PROVE r[k] = r[k - 1] \o ss[k + 1]
    <3>1. r[k - 1] \in X
      BY <2>1, k - 1 \in 0 .. n - 1
    <3> QED BY <2>1, <3>1
  <2> HIDE DEF F
  <2>3. ASSUME NEW j \in 1 .. n PROVE g[j] = IF j = 1 THEN ss[j] ELSE g[j - 1] \o ss[j]
    <3>1. CASE j = 1
      BY <2>1, <3>1
    <3>2. CASE j # 1
      <4>1. j - 1 \in 1 .. n - 1 /\ j - 1 \in 1 .. n /\ (j - 1) + 1 = j
        BY <3>2
      <4>2. g[j] = r[j - 1] /\ g[j - 1] = r[(j - 1) - 1]
        BY <4>1
      <4> HIDE DEF g
      <4>3. r[j - 1] = r[(j - 1) - 1] \o ss[(j - 1) + 1]
        BY <2>2, <4>1
      <4> QED BY <3>2, <4>1, <4>2, <4>3
    <3> QED BY <3>1, <3>2
  <2>4. g = [j \in 1 .. n |-> g[j]]
    OBVIOUS
  <2> HIDE DEF g
  <2> QED BY <2>3, <2>4
<1>6. p = Body(p)
  BY <1>5
<1> HIDE DEF p, g, F
<1>7. p[1] = ss[1] /\ \A j \in 2 .. n : p[j] = p[j - 1] \o ss[j]
  <2>1. \A j \in 1 .. n : Body(p)[j] = IF j = 1 THEN ss[j] ELSE p[j - 1] \o ss[j]
    OBVIOUS
  <2> HIDE DEF Body
  <2>2. \A j \in 1 .. n : p[j] = IF j = 1 THEN ss[j] ELSE p[j - 1] \o ss[j]
    BY <1>6, <2>1
  <2>3. 1 \in 1 .. n /\ \A j \in 2 .. n : j \in 1 .. n /\ j # 1
    OBVIOUS
  <2> QED BY <2>2, <2>3
<1> HIDE DEF Body, X
<1> DEFINE Upto(k) == UNION {A[j] : j \in 1 .. k}
           S == {k \in 0 .. n - 1 : Enumerates(p[k + 1], Upto(k + 1))}
<1>8. 0 \in S
  <2>1. Upto(0 + 1) = A[1]
    OBVIOUS
  <2> HIDE DEF Upto
  <2>2. Enumerates(ss[1], A[1]) /\ 0 + 1 = 1 /\ 0 \in 0 .. n - 1
    BY 1 \in 1 .. n
  <2>3. Enumerates(p[0 + 1], Upto(0 + 1))
    BY <1>7, <2>1, <2>2
  <2> QED BY <2>2, <2>3
<1>9. ASSUME NEW k \in 0 .. n - 1 - 1, k \in S PROVE k + 1 \in S
  <2>1. k + 2 \in 2 .. n /\ k + 2 \in 1 .. n /\ (k + 2) - 1 = k + 1 /\ k + 1 + 1 = k + 2
        /\ k + 1 \in 0 .. n - 1
    OBVIOUS
  <2>2. p[k + 2] = p[k + 1] \o ss[k + 2]
    BY <1>7, <2>1
  <2>3. 1 .. k + 2 = (1 .. k + 1) \cup {k + 2}
        /\ \A j \in 1 .. k + 1 : j \in 1 .. n /\ j # k + 2
    BY <2>1
  <2>4. Upto(k + 2) = Upto(k + 1) \cup A[k + 2]
    BY <2>3
  <2>5. Upto(k + 1) \cap A[k + 2] = {}
    BY <2>1, <2>3
  <2>6. Enumerates(p[k + 1], Upto(k + 1))
    BY <1>9
  <2> HIDE DEF Upto
  <2>7. Enumerates(ss[k + 2], A[k + 2])
    BY <2>1
  <2>8. Enumerates(p[k + 2], Upto(k + 2))
    <3>1. Enumerates(p[k + 1] \o ss[k + 2], Upto(k + 1) \cup A[k + 2])
      BY <2>5, <2>6, <2>7, EnumerateJoined
    <3> QED BY <2>2, <2>4, <3>1
  <2> QED BY <2>1, <2>8
<1>10. n - 1 \in S
  <2> HIDE DEF S
  <2>1. n - 1 \in Nat
    OBVIOUS
  <2>2. 0 .. n - 1 \subseteq S
    BY <1>8, <1>9, <2>1, UpwardInduction
  <2> QED BY <2>1, <2>2
<1>11. Upto(n) = U
  OBVIOUS
<1>12. Enumerates(p[n], Upto(n))
  <2> HIDE DEF Upto
  <2> QED BY <1>10, (n - 1) + 1 = n
<1> QED BY <1>2, <1>11, <1>12

\* T1 gives the documents of the values, each once.
LEMMA SubscriptsHolds ==
  ASSUME NEW n \in Nat, rows \in [1 .. n -> Cell],
         sorted_documents \in Bijection(1 .. n, 0 .. n - 1), NEW values \in SUBSET Value
  PROVE  Enumerates(Subscripts(values), {d \in 0 .. n - 1 : rows[d + 1] \in values})
<1> DEFINE ss == [k \in 1 .. High |-> IF k \in values THEN find_all(k) ELSE <<>>]
           A == [k \in 1 .. High |-> IF k \in values THEN Holding(rows, k) ELSE {}]
           D == 0 .. n - 1
<1>1. DOMAIN rows = 1 .. n /\ Len(rows) = n
  <2>1. rows \in Seq(Cell)
    OBVIOUS
  <2>2. Len(rows) \in Nat /\ 1 .. Len(rows) = 1 .. n
    BY <2>1, LenProperties
  <2> QED BY <2>2
<1>2. \A v : Enumerates(find_all(v), Holding(rows, v))
  BY <1>1, FindAllHolds
<1>3. \A v : Holding(rows, v) \subseteq D
  BY <1>1 DEF Holding
<1>4. \A k \in 1 .. High : A[k] \subseteq D /\ Enumerates(ss[k], A[k])
  BY <1>2, <1>3, EnumerateNone
<1>5. \A j, k \in 1 .. High : j # k => A[j] \cap A[k] = {}
  BY DEF Holding
<1>6. ss \in [1 .. High -> Seq(D)]
  <2> SUFFICES ASSUME NEW k \in 1 .. High PROVE ss[k] \in Seq(D)
    OBVIOUS
  <2>1. A[k] \subseteq D /\ ss[k] \in Seq(A[k])
    BY <1>4 DEF Enumerates
  <2> HIDE DEF A, ss, D
  <2> QED BY <2>1, SeqMonotonic
<1> DEFINE U == {d \in 0 .. n - 1 : rows[d + 1] \in values}
<1>7. \A d : d \in U <=> \E k \in 1 .. High : d \in A[k]
  <2>1. ASSUME NEW k \in 1 .. High, NEW d \in A[k]
        PROVE  d \in 0 .. n - 1 /\ rows[d + 1] \in values
    BY <1>1 DEF Holding
  <2>2. ASSUME NEW d \in 0 .. n - 1, rows[d + 1] \in values
        PROVE  \E k \in 1 .. High : d \in A[k]
    BY <1>1, <2>2 DEF Holding, Value, Low
  <2> HIDE DEF A
  <2> QED BY <2>1, <2>2
<1>8. High \in Nat \ {0}
  BY DEF High
<1>9. Subscripts(values) = FlattenSeq(ss)
  BY DEF Subscripts
<1> HIDE DEF ss, A, D, U
<1>10. Enumerates(FlattenSeq(ss), U)
  BY <1>4, <1>5, <1>6, <1>7, <1>8, FlattenHolds
<1> QED BY <1>9, <1>10 DEF U

-----------------------------------------------------------------------------
\* A table that has not more positions than the key stream has numbers.
Fits ==
    /\ rows \in Seq(Cell) /\ stream \in Streams
    /\ Power(2, range_base) <= StreamLength
    /\ sorted_documents = SortedBy([j \in DOMAIN rows |-> j - 1], rows)

\* The first of the subscripts have been read.
Looked ==
    /\ lower \in Value /\ upper \in Value
    /\ doc_subscripts = Subscripts(Matching(single_range_cover[<<lower, upper>>], lower, upper))
    /\ ans \in Seq(0 .. Len(rows) - 1) /\ Len(ans) <= Len(doc_subscripts)
    /\ \A k \in DOMAIN ans : ans[k] = Stored(doc_subscripts[k])

RangeInv ==
    /\ Fits
    /\ pc \in {"store", "ready", "search", "answered", "thrown"}
    /\ stored \subseteq RangeSlots /\ (pc = "store" => stored # RangeSlots)
    /\ ~Searched => doc_subscripts = <<>> /\ ans = <<>>
    /\ Searched => Looked
    /\ pc = "answered" => Len(ans) = Len(doc_subscripts)
    /\ RangeThrowsForOwn

(* What is known of the numbers of a table. *)
LEMMA FitsFacts ==
  ASSUME Fits
  PROVE  /\ Len(rows) \in Nat /\ DOMAIN rows = 1 .. Len(rows)
         /\ rows \in [1 .. Len(rows) -> Cell]
         /\ range_base \in Nat
<1>1. /\ Len(rows) \in Nat /\ DOMAIN rows = 1 .. Len(rows) /\ rows \in [1 .. Len(rows) -> Cell]
  BY LenProperties DEF Fits
<1>2. range_base \in Nat
  BY <1>1, BaseDigits DEF range_base
<1> QED BY <1>1, <1>2

(* Every document is among the sorted ones, once. *)
LEMMA SortedOnce ==
  ASSUME Fits
  PROVE  /\ sorted_documents \in Bijection(1 .. Len(rows), 0 .. Len(rows) - 1)
         /\ \A k \in 1 .. Len(rows) : sorted_documents[k] \in 0 .. Len(rows) - 1
<1> DEFINE n == Len(rows)
           s == [j \in DOMAIN rows |-> j - 1]
           sd == sorted_documents
<1>1. n \in Nat /\ DOMAIN rows = 1 .. n /\ rows \in [1 .. n -> Cell]
  BY FitsFacts
<1>2. rows \in [1 .. n -> Int]
  BY <1>1 DEF Cell, Low, High
<1>3. sd = SortedBy(s, rows)
  BY DEF Fits
<1> HIDE DEF n, sd
<1>4. DOMAIN s = 1 .. n
  BY <1>1
<1>5. PICK f : Sorts(f, n, s, rows)
  <2> HIDE DEF s
  <2> QED BY <1>1, <1>2, <1>4, SortHolds
<1>6. f \in Bijection(1 .. n, 1 .. n) /\ DOMAIN sd = 1 .. n /\ \A r \in 1 .. n : sd[r] = s[f[r]]
  <2> HIDE DEF s
  <2> QED BY <1>3, <1>5 DEF Sorts
<1>7. /\ f \in [1 .. n -> 1 .. n] /\ \A j, k \in 1 .. n : f[j] = f[k] => j = k
      /\ \A d \in 1 .. n : \E k \in 1 .. n : f[k] = d
  BY <1>6, Zenon DEF Bijection, Injection, Surjection, IsInjective
<1>8. \A r \in 1 .. n : f[r] \in 1 .. n /\ sd[r] = f[r] - 1 /\ sd[r] \in 0 .. n - 1
  <2>1. \A j \in 1 .. n : s[j] = j - 1 /\ s[j] \in 0 .. n - 1
    BY <1>1
  <2> HIDE DEF s
  <2> QED BY <1>6, <1>7, <2>1
<1>9. sd = [r \in 1 .. n |-> sd[r]]
  <2>1. sd = [r \in DOMAIN s |-> s[CHOOSE j \in DOMAIN s : [l \in DOMAIN s |-> Rank(rows, l)][j] = r]]
    BY <1>3 DEF SortedBy
  <2> HIDE DEF s
  <2> QED BY <1>4, <2>1
<1>10. sd \in [1 .. n -> 0 .. n - 1]
  BY <1>8, <1>9
<1>11. \A j, k \in 1 .. n : sd[j] = sd[k] => j = k
  <2> SUFFICES ASSUME NEW j \in 1 .. n, NEW k \in 1 .. n, sd[j] = sd[k] PROVE j = k
    OBVIOUS
  <2>1. f[j] = f[k]
    BY <1>1, <1>8
  <2> QED BY <1>7, <2>1
<1>12. \A d \in 0 .. n - 1 : \E k \in 1 .. n : sd[k] = d
  <2> SUFFICES ASSUME NEW d \in 0 .. n - 1 PROVE \E k \in 1 .. n : sd[k] = d
    OBVIOUS
  <2>1. PICK k \in 1 .. n : f[k] = d + 1
    BY <1>1, <1>7, d + 1 \in 1 .. n
  <2> QED BY <1>1, <1>8, <2>1
<1>13. sd \in Bijection(1 .. n, 0 .. n - 1)
  BY <1>10, <1>11, <1>12, Fun_IsBij
<1> QED BY <1>8, <1>13 DEF n, sd

(* A slot has a document of the table, its own if there are not more ORAMs than positions. *)
LEMMA StoredIs ==
  ASSUME Fits
  PROVE  /\ slot_of \in [0 .. Len(rows) - 1 -> RangeSlots]
         /\ \A p \in 0 .. Len(rows) - 1 :
              /\ Stored(p) \in 0 .. Len(rows) - 1
              /\ alpha <= range_base => Stored(p) = sorted_documents[p + 1]
<1> DEFINE n == Len(rows)
<1>1. n \in Nat /\ range_base = Base(n) /\ Power(2, Base(n)) <= StreamLength /\ stream \in Streams
  BY FitsFacts DEF Fits, range_base
<1>2. slot_of = [p \in 0 .. n - 1 |-> SlotOf(n, stream, p)]
  BY DEF slot_of, SlotOf, range_base
<1>3. RangeSlots = Slots(Base(n), alpha)
  BY DEF RangeSlots, range_base
<1> HIDE DEF n
<1>4. \A p \in 0 .. n - 1 : slot_of[p] \in RangeSlots
  BY <1>1, <1>2, <1>3, OwnSlot
<1>5. alpha <= range_base => \A p, q \in 0 .. n - 1 : slot_of[p] = slot_of[q] => p = q
  BY <1>1, <1>2, OwnSlot
<1>6. DOMAIN slot_of = 0 .. n - 1 /\ slot_of = [p \in 0 .. n - 1 |-> slot_of[p]]
  BY <1>2
<1>7. ASSUME NEW p \in 0 .. n - 1
      PROVE  /\ Stored(p) \in 0 .. n - 1
             /\ alpha <= range_base => Stored(p) = sorted_documents[p + 1]
  <2> DEFINE here == {q \in DOMAIN slot_of : slot_of[q] = slot_of[p]}
             z == CHOOSE q \in here : \A o \in here : o <= q
  <2>1. here \subseteq 0 .. n - 1 /\ p \in here /\ (alpha <= range_base => here = {p})
    BY <1>5, <1>6
  <2>2. Stored(p) = sorted_documents[1 + z]
    BY DEF Stored
  <2> HIDE DEF here
  <2>3. \E q \in here : \A o \in here : o <= q
    <3>1. here \subseteq 0 .. n
      BY <1>1, <2>1
    <3> QED BY <1>1, <2>1, <3>1, GreatestOf
  <2>4. z \in here
    BY <2>3
  <2> HIDE DEF z
  <2>5. 1 + z \in 1 .. n /\ 1 + z = z + 1
    BY <1>1, <2>1, <2>4
  <2>6. sorted_documents[1 + z] \in 0 .. n - 1
    BY <2>5, SortedOnce DEF n
  <2>7. alpha <= range_base => z = p
    BY <2>1, <2>4
  <2> QED BY <2>2, <2>5, <2>6, <2>7
<1> QED BY <1>4, <1>6, <1>7 DEF n

(* What T1 gives for a range. *)
LEMMA SubscriptsOf ==
  ASSUME Fits, NEW lo \in Value, NEW hi \in Value
  PROVE  Enumerates(Subscripts(Matching(single_range_cover[<<lo, hi>>], lo, hi)),
                    {j - 1 : j \in {k \in DOMAIN rows : lo <= rows[k] /\ rows[k] <= hi}})
<1> DEFINE n == single_range_cover[<<lo, hi>>]
           m == Len(rows)
           values == Matching(n, lo, hi)
           docs == {d \in 0 .. m - 1 : rows[d + 1] \in values}
<1>1. m \in Nat /\ DOMAIN rows = 1 .. m /\ rows \in [1 .. m -> Cell]
      /\ sorted_documents \in Bijection(1 .. m, 0 .. m - 1)
  BY FitsFacts, SortedOnce
<1>2. values = {v \in Value : lo <= v /\ v <= hi}
  <2>1. CASE lo <= hi
    <3>1. n \in Value \X Value /\ n[1] <= lo /\ hi <= n[2]
      BY <2>1, CoverBounds
    <3> HIDE DEF n
    <3>2. n[1] \in 1 .. 8 /\ n[2] \in 1 .. 8 /\ lo \in 1 .. 8 /\ hi \in 1 .. 8
      BY <3>1, Level0
    <3> QED BY <3>1, <3>2, Level0 DEF Matching
  <2>2. CASE ~(lo <= hi)
    <3>1. \A v \in Value : ~(lo <= v /\ v <= hi)
      BY <2>2, Level0
    <3>2. n \in Value \X Value
      BY NodeType
    <3> HIDE DEF n
    <3>3. values = {}
      BY <2>2, <3>2, Level0 DEF Matching
    <3> QED BY <3>1, <3>3
  <2> QED BY <2>1, <2>2
<1> HIDE DEF n, m
<1>3. Enumerates(Subscripts(values), docs)
  <2>1. values \in SUBSET Value
    BY <1>2
  <2> HIDE DEF values
  <2> QED BY <1>1, <2>1, SubscriptsHolds
<1>4. docs = {j - 1 : j \in {k \in DOMAIN rows : lo <= rows[k] /\ rows[k] <= hi}}
  <2> HIDE DEF values
  <2>1. \A d \in docs : d + 1 \in 1 .. m /\ d = (d + 1) - 1 /\ lo <= rows[d + 1] /\ rows[d + 1] <= hi
    BY <1>1, <1>2
  <2>2. \A j \in 1 .. m : lo <= rows[j] /\ rows[j] <= hi => j - 1 \in docs
    <3> SUFFICES ASSUME NEW j \in 1 .. m, lo <= rows[j], rows[j] <= hi PROVE j - 1 \in docs
      OBVIOUS
    <3>1. rows[j] \in Value
      <4>1. rows[j] \in 0 .. 9 /\ lo \in 1 .. 8 /\ hi \in 1 .. 8
        BY <1>1, Level0 DEF Cell, Low, High
      <4> QED BY <4>1, Level0
    <3>2. j - 1 \in 0 .. m - 1 /\ (j - 1) + 1 = j /\ rows[j] \in values
      BY <1>1, <1>2, <3>1
    <3> QED BY <3>2
  <2> HIDE DEF docs
  <2> QED BY <1>1, <2>1, <2>2
<1> QED BY <1>3, <1>4 DEF n

(* The actions keep the invariant. *)
LEMMA RangeInitInv == ASSUME RangeInit PROVE RangeInv
<1>1. PICK n \in 1 .. MaxRows : rows \in [1 .. n -> Cell]
  BY DEF RangeInit
<1>2. rows \in Seq(Cell)
  BY <1>1, RowsAssumption
<1>5. Fits
  BY <1>2 DEF RangeInit, Fits
<1>6. stored \subseteq RangeSlots /\ stored # RangeSlots
  <2>1. RangeSlots # {}
    BY <1>5, FitsFacts, SlotPlenty DEF RangeSlots
  <2> QED BY <2>1 DEF RangeInit
<1>7. pc = "store" /\ doc_subscripts = <<>> /\ ans = <<>>
  BY DEF RangeInit
<1> QED BY <1>5, <1>6, <1>7 DEF RangeInv, Searched, RangeThrowsForOwn

(* The table stays as it is. *)
LEMMA FitsKept == ASSUME Fits, UNCHANGED column PROVE Fits'
BY DEF Fits, column, range_base

LEMMA StoreRangeInv == ASSUME RangeInv, StoreRange PROVE RangeInv'
<1>1. /\ UNCHANGED <<column, lower, upper, doc_subscripts, ans>> /\ pc = "store"
      /\ stored' = stored \cup {FirstSlot(RangeSlots \ stored)}
      /\ pc' = IF stored' = RangeSlots THEN "ready" ELSE "store"
  BY DEF StoreRange, UploadNext, range_query
<1>2. Fits /\ stored \subseteq RangeSlots /\ stored # RangeSlots
      /\ doc_subscripts = <<>> /\ ans = <<>>
  BY <1>1 DEF RangeInv, Searched
<1>3. RangeSlots' = RangeSlots
  BY <1>1 DEF RangeSlots, range_base, column
<1>4. FirstSlot(RangeSlots \ stored) \in RangeSlots
  <2> DEFINE S == RangeSlots \ stored
  <2>1. S # {}
    BY <1>2
  <2>2. S \subseteq Nat \X Nat
    BY <1>2, FitsFacts, SlotNumbers DEF RangeSlots
  <2> HIDE DEF S
  <2>3. FirstSlot(S) \in S
    BY <2>1, <2>2, FirstSlotIn
  <2> QED BY <2>3 DEF S
<1>5. stored' \subseteq RangeSlots' /\ (pc' = "store" => stored' # RangeSlots')
  BY <1>1, <1>2, <1>3, <1>4
<1>6. pc' \in {"ready", "store"} /\ doc_subscripts' = <<>> /\ ans' = <<>>
  BY <1>1, <1>2
<1> QED BY <1>1, <1>2, <1>5, <1>6, FitsKept DEF RangeInv, Searched, RangeThrowsForOwn

LEMMA StoreRangeFailsInv == ASSUME RangeInv, StoreRangeFails PROVE RangeInv'
<1>1. /\ UNCHANGED <<column, lower, upper, doc_subscripts, ans>> /\ pc = "store"
      /\ stored' \subseteq stored /\ pc' = "ready"
  BY DEF StoreRangeFails, UploadFails, range_query
<1>2. Fits /\ stored \subseteq RangeSlots /\ doc_subscripts = <<>> /\ ans = <<>>
  BY <1>1 DEF RangeInv, Searched
<1>3. RangeSlots' = RangeSlots
  BY <1>1 DEF RangeSlots, range_base, column
<1> QED BY <1>1, <1>2, <1>3, FitsKept DEF RangeInv, Searched, RangeThrowsForOwn

(* What has been read stays as it is. *)
LEMMA LookedKept ==
  ASSUME Looked, UNCHANGED <<rows, stream, sorted_documents, lower, upper, doc_subscripts, ans>>
  PROVE  Looked'
<1>1. ASSUME NEW p PROVE Stored(p)' = Stored(p)
  BY DEF Stored, slot_of, range_base
<1>2. Subscripts(Matching(single_range_cover[<<lower, upper>>], lower, upper))' =
         Subscripts(Matching(single_range_cover[<<lower, upper>>], lower, upper))
  BY DEF Subscripts, find_all, Matching
<1> QED BY <1>1, <1>2 DEF Looked

(* A search leaves the table and the ORAMs as they are. *)
LEMMA SearchKept ==
  ASSUME RangeInv, UNCHANGED <<column, stored>>, pc \notin {"store"},
         pc' \in {"ready", "search", "answered", "thrown"},
         pc' = "ready" => doc_subscripts' = <<>> /\ ans' = <<>>,
         pc' # "ready" => Looked',
         pc' = "answered" => Len(ans') = Len(doc_subscripts'),
         pc' = "thrown" => RangeThrowsForOwn'
  PROVE  RangeInv'
<1>1. Fits' /\ stored' \subseteq RangeSlots'
  <2>1. RangeSlots' = RangeSlots
    BY DEF RangeSlots, range_base, column
  <2> QED BY <2>1, FitsKept DEF RangeInv
<1> QED BY <1>1 DEF RangeInv, Searched, RangeThrowsForOwn

LEMMA SearchRangeInv ==
  ASSUME RangeInv, NEW lo \in Value, NEW hi \in Value, search_range(lo, hi) PROVE RangeInv'
<1>1. /\ UNCHANGED <<column, stored>> /\ pc = "ready" /\ pc' = "search"
      /\ lower' = lo /\ upper' = hi /\ ans' = <<>>
      /\ doc_subscripts' = Subscripts(Matching(single_range_cover[<<lo, hi>>], lo, hi))
  BY DEF search_range
<1>2. Fits
  BY DEF RangeInv
<1>3. Subscripts(Matching(single_range_cover[<<lo, hi>>], lo, hi))' =
         Subscripts(Matching(single_range_cover[<<lo, hi>>], lo, hi))
  BY <1>1 DEF Subscripts, find_all, column
<1>4. doc_subscripts' \in Seq(Nat)
  <2> DEFINE D == {j - 1 : j \in {k \in DOMAIN rows : lo <= rows[k] /\ rows[k] <= hi}}
  <2>1. doc_subscripts' \in Seq(D)
    BY <1>1, <1>2, SubscriptsOf DEF Enumerates
  <2>2. D \subseteq Nat
    BY <1>2, FitsFacts
  <2> HIDE DEF D
  <2> QED BY <2>1, <2>2, SeqMonotonic
<1>5. ans' \in Seq(0 .. Len(rows') - 1) /\ Len(ans') <= Len(doc_subscripts') /\ DOMAIN ans' = {}
  <2>1. Len(doc_subscripts') \in Nat
    BY <1>4, LenProperties
  <2> QED BY <1>1, <2>1
<1>6. Looked'
  BY <1>1, <1>3, <1>5 DEF Looked
<1> QED BY <1>1, <1>6, SearchKept

(* The documents of a range, and the subscripts that a search goes through. *)
LEMMA SearchFacts ==
  ASSUME RangeInv, Searched
  PROVE  /\ Fits /\ Looked /\ Enumerates(doc_subscripts, Matches)
         /\ doc_subscripts \in Seq(0 .. Len(rows) - 1)
         /\ Len(doc_subscripts) \in Nat /\ DOMAIN doc_subscripts = 1 .. Len(doc_subscripts)
         /\ Len(ans) \in Nat /\ DOMAIN ans = 1 .. Len(ans)
<1>1. Fits /\ Looked
  BY DEF RangeInv
<1>2. Enumerates(doc_subscripts, Matches)
  BY <1>1, SubscriptsOf DEF Looked, Matches
<1>3. Matches \subseteq 0 .. Len(rows) - 1
  BY <1>1, FitsFacts DEF Matches
<1>4. doc_subscripts \in Seq(0 .. Len(rows) - 1)
  <2>1. doc_subscripts \in Seq(Matches)
    BY <1>2 DEF Enumerates
  <2> QED BY <1>3, <2>1, SeqMonotonic
<1>5. ans \in Seq(0 .. Len(rows) - 1)
  BY <1>1 DEF Looked
<1> QED BY <1>1, <1>2, <1>4, <1>5, LenProperties

LEMMA HelperInv == ASSUME RangeInv, search_range_helper PROVE RangeInv'
<1>1. UNCHANGED <<column, stored, lower, upper, doc_subscripts>> /\ pc = "search"
  BY DEF search_range_helper
<1>2. Searched
  BY <1>1 DEF Searched
<1>3. /\ Fits /\ Looked /\ doc_subscripts \in Seq(0 .. Len(rows) - 1)
      /\ Len(doc_subscripts) \in Nat /\ DOMAIN doc_subscripts = 1 .. Len(doc_subscripts)
      /\ Len(ans) \in Nat /\ DOMAIN ans = 1 .. Len(ans) /\ ans \in Seq(0 .. Len(rows) - 1)
  BY <1>2, SearchFacts DEF Looked
<1>4. UNCHANGED <<rows, stream, sorted_documents>>
  BY <1>1 DEF column
<1>5. ASSUME NEW p PROVE Stored(p)' = Stored(p)
  BY <1>4 DEF Stored, slot_of, range_base
<1>6. Subscripts(Matching(single_range_cover[<<lower, upper>>], lower, upper))' =
         Subscripts(Matching(single_range_cover[<<lower, upper>>], lower, upper))
  BY <1>1, <1>4 DEF Subscripts, find_all, Matching
<1>7. CASE /\ Len(ans) < Len(doc_subscripts) /\ pc' = "search"
           /\ ans' = Append(ans, Stored(doc_subscripts[Len(ans) + 1]))
  <2> DEFINE k == Len(ans) + 1
             D == 0 .. Len(rows) - 1
             z == Stored(doc_subscripts[k])
  <2>1. k \in DOMAIN doc_subscripts
    BY <1>3, <1>7
  <2>2. z \in D
    <3>1. doc_subscripts[k] \in D
      BY <1>3, <2>1, ElementOfSeq
    <3> HIDE DEF D
    <3> QED BY <1>3, <3>1, StoredIs DEF D
  <2> HIDE DEF z, D
  <2>3. ans \in Seq(D) /\ ans' = Append(ans, z)
    BY <1>3, <1>7 DEF z, D
  <2>4. /\ ans' \in Seq(D) /\ Len(ans') = Len(ans) + 1
        /\ \A j \in 1 .. Len(ans) : ans'[j] = ans[j]
        /\ ans'[Len(ans) + 1] = z
    BY <2>2, <2>3, AppendProperties
  <2>5. DOMAIN ans' = 1 .. Len(ans) + 1
    BY <2>4, LenProperties
  <2>6. ASSUME NEW j \in DOMAIN ans' PROVE ans'[j] = Stored(doc_subscripts[j])
    <3>1. CASE j = Len(ans) + 1
      BY <2>4, <3>1 DEF z
    <3>2. CASE j # Len(ans) + 1
      <4>1. j \in 1 .. Len(ans)
        BY <1>3, <2>5, <3>2
      <4>2. ans[j] = Stored(doc_subscripts[j])
        BY <1>3, <4>1 DEF Looked
      <4> QED BY <2>4, <4>1, <4>2
    <3> QED BY <3>1, <3>2
  <2>7. Len(ans') <= Len(doc_subscripts)
    BY <1>3, <1>7, <2>4
  <2>8. ans' \in Seq(0 .. Len(rows) - 1)
    BY <2>4 DEF D
  <2>9. Looked'
    BY <1>1, <1>3, <1>4, <1>5, <1>6, <2>6, <2>7, <2>8 DEF Looked
  <2> QED BY <1>1, <1>7, <2>9, SearchKept
<1>8. CASE Len(ans) = Len(doc_subscripts) /\ pc' = "answered" /\ UNCHANGED ans
  <2>1. Looked'
    BY <1>1, <1>3, <1>4, <1>8, LookedKept
  <2> QED BY <1>1, <1>8, <2>1, SearchKept
<1> QED BY <1>1, <1>7, <1>8 DEF search_range_helper

LEMMA RangeThrowsInv == ASSUME RangeInv, RangeThrows PROVE RangeInv'
<1>1. UNCHANGED <<column, stored, lower, upper, doc_subscripts, ans>> /\ pc = "search" /\ pc' = "thrown"
      /\ Len(ans) < Len(doc_subscripts) /\ Reading \notin stored
  BY DEF RangeThrows, range_query
<1>2. Looked
  BY <1>1 DEF RangeInv, Searched
<1>3. Looked'
  BY <1>1, <1>2, LookedKept DEF column
<1>4. RangeThrowsForOwn'
  <2> DEFINE d == doc_subscripts[Len(ans) + 1]
  <2>1. Enumerates(doc_subscripts, Matches) /\ Len(ans) + 1 \in DOMAIN doc_subscripts
    <3>1. Enumerates(doc_subscripts, Matches) /\ Len(ans) \in Nat /\ Len(doc_subscripts) \in Nat
          /\ DOMAIN doc_subscripts = 1 .. Len(doc_subscripts)
      BY <1>1, SearchFacts DEF Searched
    <3> QED BY <1>1, <3>1
  <2>2. d \in Matches
    BY <2>1, EnumeratedSet
  <2>3. slot_of[d] \notin stored
    BY <1>1 DEF Reading
  <2>4. Matches' = Matches /\ slot_of' = slot_of /\ stored' = stored
    BY <1>1 DEF column, Matches, slot_of, range_base
  <2> HIDE DEF d
  <2> QED BY <2>2, <2>3, <2>4 DEF RangeThrowsForOwn
<1> QED BY <1>1, <1>3, <1>4, SearchKept

LEMMA ReturnInv == ASSUME RangeInv, Return PROVE RangeInv'
<1>1. UNCHANGED <<column, stored>> /\ pc = "answered" /\ pc' = "ready"
      /\ doc_subscripts' = <<>> /\ ans' = <<>>
  BY DEF Return
<1> QED BY <1>1, SearchKept

\* The invariant: the documents are sorted, and a search has read what is
\* stored for the first of its subscripts.
THEOREM RangeInductive == RangeSpec => []RangeInv
<1>1. RangeInit => RangeInv
  BY RangeInitInv
<1>2. RangeInv /\ [RangeNext]_range_vars => RangeInv'
  <2> SUFFICES ASSUME RangeInv, [RangeNext]_range_vars PROVE RangeInv'
    OBVIOUS
  <2>1. CASE StoreRange
    BY <2>1, StoreRangeInv
  <2>2. CASE StoreRangeFails
    BY <2>2, StoreRangeFailsInv
  <2>3. ASSUME NEW lo \in Value, NEW hi \in Value, search_range(lo, hi) PROVE RangeInv'
    BY <2>3, SearchRangeInv
  <2>4. CASE search_range_helper
    BY <2>4, HelperInv
  <2>5. CASE RangeThrows
    BY <2>5, RangeThrowsInv
  <2>6. CASE Return
    BY <2>6, ReturnInv
  <2>7. CASE UNCHANGED range_vars
    <3>1. UNCHANGED <<column, stored, pc, lower, upper, doc_subscripts, ans>>
      BY <2>7 DEF range_vars, range_query
    <3>2. Looked => Looked'
      BY <3>1, LookedKept DEF column
    <3>3. RangeSlots' = RangeSlots
      BY <3>1 DEF RangeSlots, range_base, column
    <3>4. Matches' = Matches /\ slot_of' = slot_of
      BY <3>1 DEF column, Matches, slot_of, range_base
    <3> QED BY <3>1, <3>2, <3>3, <3>4, FitsKept DEF RangeInv, Searched, RangeThrowsForOwn
  <2> QED BY <2>1, <2>2, <2>3, <2>4, <2>5, <2>6, <2>7 DEF RangeNext
<1> QED BY <1>1, <1>2, PTL DEF RangeSpec

\* A search reads slots of the ORAMs, for documents of the table, however many ORAMs
\* there are.
THEOREM RangeTypeCorrect == RangeSpec => []RangeTypeOK
<1>1. RangeInv => RangeTypeOK
  <2> SUFFICES ASSUME RangeInv PROVE RangeTypeOK
    OBVIOUS
  <2>1. Fits /\ stored \subseteq RangeSlots
        /\ pc \in {"store", "ready", "search", "answered", "thrown"}
    BY DEF RangeInv
  <2>2. slot_of \in [0 .. Len(rows) - 1 -> RangeSlots]
    BY <2>1, StoredIs
  <2>3. /\ \A k \in DOMAIN ans : ans[k] \in 0 .. Len(rows) - 1
        /\ \A k \in DOMAIN doc_subscripts : doc_subscripts[k] \in 0 .. Len(rows) - 1
    <3>1. CASE Searched
      BY <3>1, SearchFacts, ElementOfSeq DEF Looked
    <3>2. CASE ~Searched
      <4>1. doc_subscripts = <<>> /\ ans = <<>>
        BY <3>2 DEF RangeInv
      <4>2. DOMAIN doc_subscripts = {} /\ DOMAIN ans = {}
        BY <4>1
      <4> QED BY <4>2
    <3> QED BY <3>1, <3>2
  <2> QED BY <2>1, <2>2, <2>3 DEF RangeTypeOK
<1> QED BY <1>1, RangeInductive, PTL

\* Tree T1 gives the documents of the range, each once.
THEOREM CoverCompleteHolds == RangeSpec => []CoverComplete
<1>1. RangeInv => CoverComplete
  BY SearchFacts, EnumeratedSet DEF CoverComplete
<1> QED BY <1>1, RangeInductive, PTL

\* The node that T1 searches is at most twice as wide as the range.
THEOREM CoverTightHolds == RangeSpec => []CoverTight
<1>1. RangeInv => CoverTight
  BY CoverBounds DEF CoverTight, RangeInv, Looked
<1> QED BY <1>1, RangeInductive, PTL

(* Rows in the order of their values are not moved. *)
LEMMA AscendingStays ==
  ASSUME Fits, \A k \in 1 .. Len(rows) - 1 : rows[k] <= rows[k + 1]
  PROVE  \A r \in 1 .. Len(rows) : sorted_documents[r] = r - 1
<1> DEFINE n == Len(rows)
           s == [j \in DOMAIN rows |-> j - 1]
<1>1. n \in Nat /\ DOMAIN rows = 1 .. n /\ \A k \in 1 .. n : rows[k] \in Int
  BY FitsFacts DEF Cell, Low, High
<1>2. \A k \in 1 .. n - 1 : rows[k] <= rows[k + 1]
  OBVIOUS
<1>3. sorted_documents = SortedBy(s, rows)
  BY DEF Fits
<1> HIDE DEF n
<1>4. ASSUME NEW j \in 1 .. n PROVE \A k \in j .. n : rows[j] <= rows[k]
  <2> DEFINE S == {d \in 0 .. n - j : rows[j] <= rows[j + d]}
  <2>1. 0 \in S
    BY <1>1
  <2>2. ASSUME NEW d \in 0 .. n - j - 1, d \in S PROVE d + 1 \in S
    <3>1. j + d \in 1 .. n - 1 /\ j + (d + 1) = (j + d) + 1 /\ d + 1 \in 0 .. n - j
          /\ j + d \in 1 .. n /\ (j + d) + 1 \in 1 .. n
      BY <1>1
    <3>2. rows[j] <= rows[j + d] /\ rows[j + d] <= rows[(j + d) + 1]
      BY <1>2, <2>2, <3>1
    <3>3. rows[j] <= rows[(j + d) + 1]
      BY <1>1, <3>1, <3>2
    <3> QED BY <3>1, <3>3
  <2>3. 0 .. n - j \subseteq S
    <3>1. n - j \in Nat
      BY <1>1
    <3> HIDE DEF S
    <3> QED BY <2>1, <2>2, <3>1, UpwardInduction
  <2> SUFFICES ASSUME NEW k \in j .. n PROVE rows[j] <= rows[k]
    OBVIOUS
  <2>4. k - j \in 0 .. n - j /\ j + (k - j) = k
    BY <1>1
  <2>5. k - j \in S
    BY <2>3, <2>4
  <2> QED BY <2>4, <2>5
<1>5. ASSUME NEW j \in 1 .. n PROVE Rank(rows, j) = j
  <2> DEFINE B == {k \in DOMAIN rows : rows[k] < rows[j] \/ (rows[k] = rows[j] /\ k <= j)}
  <2>1. ASSUME NEW k \in 1 .. n PROVE k \in B <=> k <= j
    <3>1. CASE k <= j
      <4>1. rows[k] <= rows[j]
        BY <1>4, <3>1
      <4> QED BY <1>1, <3>1, <4>1
    <3>2. CASE ~(k <= j)
      <4>1. rows[j] <= rows[k]
        BY <1>4, <3>2
      <4> QED BY <1>1, <3>2, <4>1
    <3> QED BY <3>1, <3>2
  <2>2. B = 1 .. j
    <3>1. B \subseteq 1 .. n
      BY <1>1
    <3>2. \A k \in 1 .. j : k \in 1 .. n /\ k <= j
      BY <1>1
    <3>3. \A k \in 1 .. n : k <= j => k \in 1 .. j
      BY <1>1
    <3> HIDE DEF B
    <3> QED BY <2>1, <3>1, <3>2, <3>3
  <2>3. Rank(rows, j) = Cardinality(B)
    BY DEF Rank
  <2> HIDE DEF B
  <2> QED BY <2>2, <2>3, FS_Interval
<1>6. ASSUME NEW r \in 1 .. n PROVE sorted_documents[r] = r - 1
  <2> DEFINE R == [j \in DOMAIN s |-> Rank(rows, j)]
             z == CHOOSE j \in DOMAIN s : R[j] = r
  <2>1. sorted_documents[r] = s[z]
    BY <1>1, <1>3 DEF SortedBy
  <2>2. DOMAIN s = 1 .. n /\ \A j \in 1 .. n : R[j] = j
    BY <1>1, <1>5
  <2> HIDE DEF R
  <2>3. z = r
    BY <2>2
  <2> HIDE DEF z
  <2> QED BY <1>1, <2>1, <2>3
<1> QED BY <1>6 DEF n

\* A search that ends the process does so at a document of its range.
THEOREM RangeThrowsForOwnHolds == RangeSpec => []RangeThrowsForOwn
<1>1. RangeInv => RangeThrowsForOwn
  BY DEF RangeInv
<1> QED BY <1>1, RangeInductive, PTL

\* If the rows come in the order of their values, a search that returns gives
\* the documents of the range, unless there are more ORAMs than positions.
THEOREM SortedExactHolds == RangeSpec => []SortedExact
<1>1. RangeInv => SortedExact
  <2> SUFFICES ASSUME RangeInv, pc = "answered", alpha <= range_base,
                      \A k \in 1 .. Len(rows) - 1 : rows[k] <= rows[k + 1]
               PROVE  {ans[k] : k \in DOMAIN ans} = Matches
    BY DEF SortedExact
  <2>1. Searched /\ Len(ans) = Len(doc_subscripts)
    BY DEF Searched, RangeInv
  <2>2. /\ Fits /\ Looked /\ Enumerates(doc_subscripts, Matches)
        /\ doc_subscripts \in Seq(0 .. Len(rows) - 1)
        /\ Len(doc_subscripts) \in Nat /\ DOMAIN doc_subscripts = 1 .. Len(doc_subscripts)
        /\ DOMAIN ans = DOMAIN doc_subscripts
    BY <2>1, SearchFacts
  <2>3. ASSUME NEW k \in DOMAIN doc_subscripts PROVE ans[k] = doc_subscripts[k]
    <3> DEFINE p == doc_subscripts[k]
    <3>1. p \in 0 .. Len(rows) - 1
      BY <2>2, ElementOfSeq
    <3>2. ans[k] = Stored(p)
      BY <2>2 DEF Looked
    <3> HIDE DEF p
    <3>3. Stored(p) = sorted_documents[p + 1]
      BY <2>2, <3>1, StoredIs
    <3>4. p + 1 \in 1 .. Len(rows) /\ (p + 1) - 1 = p
      BY <2>2, <3>1, FitsFacts
    <3>5. sorted_documents[p + 1] = p
      BY <2>2, <3>4, AscendingStays
    <3> QED BY <3>2, <3>3, <3>5 DEF p
  <2>4. {doc_subscripts[k] : k \in DOMAIN doc_subscripts} = Matches
    BY <2>2, EnumeratedSet
  <2> QED BY <2>2, <2>3, <2>4
<1> QED BY <1>1, RangeInductive, PTL
=============================================================================
