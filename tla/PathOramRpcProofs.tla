------------------------- MODULE PathOramRpcProofs -------------------------
(***************************************************************************)
(* PathOramRpc for trees, buckets, addresses, data and numbers of failures *)
(* of any size.                                                            *)
(*                                                                         *)
(* The proof counts the blocks of every address.  A step moves blocks      *)
(* between the stash and the buckets and keeps their number, unless it     *)
(* writes to an address that has no block where the access looked, or      *)
(* fails when buckets that were read are not yet written back.             *)
(***************************************************************************)
EXTENDS PathOramRpc, SealUtilsProofs, SequenceTheorems

-----------------------------------------------------------------------------
(* Counting the blocks of an address in a sequence.                        *)

\* The positions before n + 1 of s that have a block of address a.
Upto(s, n, a) == {i \in 1 .. n : s[i].index = a}
Count(s, a)   == Cardinality(Upto(s, Len(s), a))

LEMMA UptoFinite ==
  ASSUME NEW s, NEW n \in Nat, NEW a
  PROVE  /\ IsFiniteSet(Upto(s, n, a)) /\ Cardinality(Upto(s, n, a)) \in Nat
         /\ Cardinality(Upto(s, n, a)) = 0 <=> Upto(s, n, a) = {}
<1>1. IsFiniteSet(1 .. n)
  BY FS_Interval
<1>2. IsFiniteSet(Upto(s, n, a))
  BY <1>1, FS_Subset DEF Upto
<1> QED BY <1>2, FS_CardinalityType, FS_EmptySet

LEMMA UptoNext ==
  ASSUME NEW s, NEW n \in Nat, NEW a
  PROVE  Cardinality(Upto(s, n + 1, a)) =
            Cardinality(Upto(s, n, a)) + (IF s[n + 1].index = a THEN 1 ELSE 0)
<1>1. IsFiniteSet(Upto(s, n, a)) /\ Cardinality(Upto(s, n, a)) \in Nat
  BY UptoFinite
<1>0. n + 1 \notin Upto(s, n, a)
  BY DEF Upto
<1>2. CASE s[n + 1].index = a
  <2>1. Upto(s, n + 1, a) = Upto(s, n, a) \cup {n + 1}
    BY <1>2 DEF Upto
  <2> QED BY <1>0, <1>1, <1>2, <2>1, FS_AddElement
<1>3. CASE s[n + 1].index # a
  <2>1. Upto(s, n + 1, a) = Upto(s, n, a)
    BY <1>3 DEF Upto
  <2> QED BY <1>1, <1>3, <2>1
<1> QED BY <1>2, <1>3

LEMMA CountFacts ==
  ASSUME NEW S, NEW s \in Seq(S), NEW a
  PROVE  /\ Count(s, a) \in Nat /\ Len(s) \in Nat
         /\ Count(s, a) = 0 <=> \A i \in DOMAIN s : s[i].index # a
<1>1. Len(s) \in Nat /\ DOMAIN s = 1 .. Len(s)
  BY LenProperties
<1>2. Count(s, a) \in Nat /\ (Count(s, a) = 0 <=> Upto(s, Len(s), a) = {})
  BY <1>1, UptoFinite DEF Count
<1>3. Upto(s, Len(s), a) = {} <=> \A i \in DOMAIN s : s[i].index # a
  BY <1>1 DEF Upto
<1> QED BY <1>1, <1>2, <1>3

LEMMA CountAppend ==
  ASSUME NEW S, NEW s \in Seq(S), NEW b \in S, NEW a
  PROVE  Count(Append(s, b), a) = Count(s, a) + (IF b.index = a THEN 1 ELSE 0)
<1> DEFINE t == Append(s, b)
           n == Len(s)
<1>1. n \in Nat /\ Len(t) = n + 1 /\ t[n + 1] = b /\ \A i \in 1 .. n : t[i] = s[i]
  BY LenProperties, AppendProperties
<1> HIDE DEF t
<1>2. Upto(t, n, a) = Upto(s, n, a)
  BY <1>1 DEF Upto
<1>3. Count(t, a) = Cardinality(Upto(t, n + 1, a)) /\ Count(s, a) = Cardinality(Upto(s, n, a))
  BY <1>1 DEF Count
<1>4. Cardinality(Upto(t, n + 1, a)) = Cardinality(Upto(t, n, a)) + (IF b.index = a THEN 1 ELSE 0)
  BY <1>1, UptoNext
<1> QED BY <1>2, <1>3, <1>4 DEF t

LEMMA CountConcat ==
  ASSUME NEW S, NEW s \in Seq(S), NEW t \in Seq(S), NEW a
  PROVE  Count(s \o t, a) = Count(s, a) + Count(t, a)
<1> DEFINE u == s \o t
           m == Len(s)
           n == Len(t)
           T == {k \in 0 .. n : Cardinality(Upto(u, m + k, a)) =
                                   Cardinality(Upto(s, m, a)) + Cardinality(Upto(t, k, a))}
<1>1. /\ m \in Nat /\ n \in Nat /\ Len(u) = m + n
      /\ \A i \in 1 .. m + n : u[i] = IF i <= m THEN s[i] ELSE t[i - m]
  BY LenProperties, ConcatProperties
<1> HIDE DEF u, m, n
<1>2. 0 \in T
  <2>1. Upto(u, m, a) = Upto(s, m, a)
    BY <1>1 DEF Upto
  <2>2. Cardinality(Upto(t, 0, a)) = 0
    BY FS_EmptySet DEF Upto
  <2>3. Cardinality(Upto(s, m, a)) \in Nat
    BY <1>1, UptoFinite
  <2>4. m + 0 = m
    BY <1>1
  <2> QED BY <1>1, <2>1, <2>2, <2>3, <2>4
<1>3. ASSUME NEW k \in 0 .. n - 1, k \in T PROVE k + 1 \in T
  <2>1. u[m + k + 1] = t[k + 1]
    BY <1>1
  <2>2. Cardinality(Upto(u, m + (k + 1), a)) =
           Cardinality(Upto(u, m + k, a)) + (IF u[m + k + 1].index = a THEN 1 ELSE 0)
    <3>1. m + k \in Nat /\ m + (k + 1) = (m + k) + 1
      BY <1>1
    <3> QED BY <3>1, UptoNext
  <2>3. Cardinality(Upto(t, k + 1, a)) =
           Cardinality(Upto(t, k, a)) + (IF t[k + 1].index = a THEN 1 ELSE 0)
    BY <1>1, UptoNext, k \in Nat
  <2>4. Cardinality(Upto(s, m, a)) \in Nat /\ Cardinality(Upto(t, k, a)) \in Nat
    BY <1>1, UptoFinite, k \in Nat
  <2> QED BY <1>1, <1>3, <2>1, <2>2, <2>3, <2>4
<1>4. n \in T
  <2>1. 0 .. n \subseteq T
    <3> HIDE DEF T
    <3> QED BY <1>1, <1>2, <1>3, UpwardInduction
  <2> QED BY <1>1, <2>1
<1> QED BY <1>1, <1>4 DEF Count, u, m, n

(* RemoveAt takes one element out.                                         *)
LEMMA Removed ==
  ASSUME NEW S, NEW s \in Seq(S), NEW i \in 1 .. Len(s)
  PROVE  /\ RemoveAt(s, i) \in Seq(S)
         /\ Len(RemoveAt(s, i)) = Len(s) - 1
         /\ \A j \in 1 .. Len(s) - 1 : RemoveAt(s, i)[j] = IF j < i THEN s[j] ELSE s[j + 1]
<1> DEFINE t == SubSeq(s, 1, i - 1)
           u == SubSeq(s, i + 1, Len(s))
<1>1. Len(s) \in Nat /\ \A j \in 1 .. Len(s) : s[j] \in S
  BY LenProperties, ElementOfSeq
<1>2. /\ t \in Seq(S) /\ Len(t) = i - 1
      /\ \A j \in 1 .. i - 1 : t[j] = s[j]
  <2>1. i - 1 \in Int /\ \A j \in 1 .. i - 1 : s[j] \in S
    BY <1>1
  <2>2. /\ t \in Seq(S) /\ Len(t) = IF 1 <= i - 1 THEN (i - 1) - 1 + 1 ELSE 0
        /\ \A j \in 1 .. (i - 1) - 1 + 1 : t[j] = s[1 + j - 1]
    BY <2>1, SubSeqProperties
  <2> HIDE DEF t
  <2> QED BY <2>2, <1>1
<1>3. /\ u \in Seq(S) /\ Len(u) = Len(s) - i
      /\ \A j \in 1 .. Len(s) - i : u[j] = s[i + j]
  <2>1. i + 1 \in Int /\ Len(s) \in Int /\ \A j \in i + 1 .. Len(s) : s[j] \in S
    BY <1>1
  <2>2. /\ u \in Seq(S) /\ Len(u) = IF i + 1 <= Len(s) THEN Len(s) - (i + 1) + 1 ELSE 0
        /\ \A j \in 1 .. Len(s) - (i + 1) + 1 : u[j] = s[(i + 1) + j - 1]
    BY <2>1, SubSeqProperties
  <2> HIDE DEF u
  <2> QED BY <2>2, <1>1
<1>4. RemoveAt(s, i) = t \o u
  BY DEF RemoveAt
<1> HIDE DEF t, u
<1>5. /\ t \o u \in Seq(S) /\ Len(t \o u) = Len(t) + Len(u)
      /\ \A j \in 1 .. Len(t) + Len(u) : (t \o u)[j] = IF j <= Len(t) THEN t[j] ELSE u[j - Len(t)]
  BY <1>2, <1>3, ConcatProperties
<1>6. ASSUME NEW j \in 1 .. Len(s) - 1
      PROVE  (t \o u)[j] = IF j < i THEN s[j] ELSE s[j + 1]
  <2>1. (t \o u)[j] = IF j <= i - 1 THEN t[j] ELSE u[j - (i - 1)]
    BY <1>1, <1>2, <1>3, <1>5
  <2>2. CASE j < i
    BY <2>1, <2>2, <1>2
  <2>3. CASE ~(j < i)
    <3>1. j - (i - 1) \in 1 .. Len(s) - i /\ i + (j - (i - 1)) = j + 1
      BY <2>3, <1>1
    <3> QED BY <2>1, <2>3, <3>1, <1>3
  <2> QED BY <2>2, <2>3
<1> QED BY <1>1, <1>2, <1>3, <1>4, <1>5, <1>6

LEMMA CountRemoved ==
  ASSUME NEW S, NEW s \in Seq(S), NEW i \in 1 .. Len(s), NEW a
  PROVE  Count(RemoveAt(s, i), a) = Count(s, a) - (IF s[i].index = a THEN 1 ELSE 0)
<1> DEFINE t == RemoveAt(s, i)
           n == Len(s)
           A == Upto(s, n, a) \ {i}
           B == Upto(t, n - 1, a)
           f == [j \in B |-> IF j < i THEN j ELSE j + 1]
<1>1. /\ n \in Nat /\ Len(t) = n - 1 /\ n - 1 \in Nat
      /\ \A j \in 1 .. n - 1 : t[j] = IF j < i THEN s[j] ELSE s[j + 1]
  <2>1. n \in Nat
    BY LenProperties
  <2>2. /\ Len(t) = n - 1
        /\ \A j \in 1 .. n - 1 : t[j] = IF j < i THEN s[j] ELSE s[j + 1]
    BY Removed
  <2>3. n - 1 \in Nat
    BY <2>1
  <2> QED BY <2>1, <2>2, <2>3
<1> HIDE DEF t, n
<1>2. i \in 1 .. n
  BY DEF n
<1>3. f \in Bijection(B, A)
  <2>1. f \in [B -> A]
    <3> SUFFICES ASSUME NEW j \in B PROVE (IF j < i THEN j ELSE j + 1) \in A
      OBVIOUS
    <3>1. j \in 1 .. n - 1 /\ t[j].index = a
      BY DEF Upto
    <3> QED BY <3>1, <1>1, <1>2 DEF Upto
  <2>2. \A j, k \in B : f[j] = f[k] => j = k
    <3> SUFFICES ASSUME NEW j \in B, NEW k \in B, f[j] = f[k] PROVE j = k
      OBVIOUS
    <3>1. j \in 1 .. n - 1 /\ k \in 1 .. n - 1
      BY DEF Upto
    <3> QED BY <3>1, <1>2
  <2>3. \A x \in A : \E j \in B : f[j] = x
    <3> SUFFICES ASSUME NEW x \in A PROVE \E j \in B : f[j] = x
      OBVIOUS
    <3>1. x \in 1 .. n /\ x # i /\ s[x].index = a
      BY DEF Upto
    <3>2. CASE x < i
      <4>1. x \in B
        BY <3>1, <3>2, <1>1, <1>2 DEF Upto
      <4> QED BY <4>1, <3>2
    <3>3. CASE x > i
      <4>1. x - 1 \in B /\ ~(x - 1 < i) /\ (x - 1) + 1 = x
        BY <3>1, <3>3, <1>1, <1>2 DEF Upto
      <4> QED BY <4>1
    <3> QED BY <3>1, <3>2, <3>3, <1>2
  <2> HIDE DEF f, A, B
  <2> QED BY <2>1, <2>2, <2>3, Fun_IsBij
<1>4. IsFiniteSet(Upto(s, n, a)) /\ IsFiniteSet(B)
  BY <1>1, UptoFinite
<1>5. Cardinality(B) = Cardinality(A)
  <2>1. ExistsBijection(B, A)
    BY <1>3 DEF ExistsBijection
  <2> QED BY <2>1, <1>4, FS_Bijection
<1>6. Cardinality(A) = IF i \in Upto(s, n, a) THEN Cardinality(Upto(s, n, a)) - 1
                       ELSE Cardinality(Upto(s, n, a))
  BY <1>4, FS_RemoveElement
<1>7. i \in Upto(s, n, a) <=> s[i].index = a
  BY <1>2 DEF Upto
<1>8. Count(t, a) = Cardinality(B) /\ Count(s, a) = Cardinality(Upto(s, n, a))
  BY <1>1 DEF Count, n
<1>9. Cardinality(Upto(s, n, a)) \in Nat
  BY <1>1, UptoFinite
<1> HIDE DEF A, B
<1> QED BY <1>5, <1>6, <1>7, <1>8, <1>9 DEF t

(* Find gives a block of the address when there is one.                    *)
LEMMA FindFirst ==
  ASSUME NEW S, NEW s \in Seq(S), NEW a
  PROVE  /\ Find(s, a) = 0 <=> Count(s, a) = 0
         /\ Find(s, a) # 0 => Find(s, a) \in 1 .. Len(s) /\ s[Find(s, a)].index = a
<1> DEFINE I == {i \in 1 .. Len(s) : s[i].index = a}
<1>1. Find(s, a) = IF I # {} THEN Min(I) ELSE 0
  BY DEF Find, SelectInSeq
<1>2. Len(s) \in Nat /\ DOMAIN s = 1 .. Len(s)
  BY LenProperties
<1>3. Count(s, a) = 0 <=> I = {}
  BY <1>2, CountFacts
<1>4. ASSUME I # {} PROVE Min(I) \in I
  <2>1. I \in SUBSET Nat
    OBVIOUS
  <2>2. PICK m \in I : \A k \in I : m <= k
    <3> HIDE DEF I
    <3> QED BY <1>4, <2>1, LeastNatural
  <2> HIDE DEF I
  <2> QED BY <2>2 DEF Min
<1> QED BY <1>1, <1>2, <1>3, <1>4

-----------------------------------------------------------------------------
(* The loops of the eviction.                                              *)
Block == [index : Address, data : Data]

(* The rows of the loop that fills a bucket.                               *)
LEMMA EvictedRow ==
  ASSUME NEW l \in Levels, stash \in Seq(Block)
  PROVE  \E p : /\ p \in [0 .. Len(stash) -> Seq(Block)] /\ p[0] = <<>>
                /\ \A k \in 1 .. Len(stash) :
                      p[k] = IF Len(p[k - 1]) < bucket_size /\ Fits(stash[k], l)
                             THEN Append(p[k - 1], stash[k]) ELSE p[k - 1]
                /\ Evicted(l) = p[Len(stash)]
<1> DEFINE n == Len(stash)
           G(k, b) == IF Len(b) < bucket_size /\ Fits(stash[k], l) THEN Append(b, stash[k]) ELSE b
           Body(f) == [k \in 0 .. n |-> IF k = 0 THEN <<>>
                                        ELSE IF Len(f[k - 1]) < bucket_size /\ Fits(stash[k], l)
                                             THEN Append(f[k - 1], stash[k]) ELSE f[k - 1]]
           F == [z \in (1 .. n) \X Seq(Block) |-> G(z[1], z[2])]
           p == CHOOSE f : f = Body(f)
<1>0. n \in Nat /\ \A k \in 1 .. n : stash[k] \in Block
  BY LenProperties, ElementOfSeq
<1>9. \A k \in 1 .. n, b \in Seq(Block) : G(k, b) \in Seq(Block)
  BY <1>0, AppendProperties
<1> HIDE DEF n
<1>1. PICK g : Runs(g, Seq(Block), F, <<>>, n)
  <2>1. F \in [(1 .. n) \X Seq(Block) -> Seq(Block)]
    <3> HIDE DEF G
    <3> QED BY <1>9
  <2>2. <<>> \in Seq(Block)
    BY EmptySeq
  <2> HIDE DEF F
  <2> QED BY <1>0, <2>1, <2>2, Recursion
<1>2. /\ g \in [0 .. n -> Seq(Block)] /\ g[0] = <<>>
      /\ \A k \in 1 .. n : g[k] = G(k, g[k - 1])
  <2>1. g \in [0 .. n -> Seq(Block)] /\ g[0] = <<>> /\ \A k \in 1 .. n : g[k] = F[<<k, g[k - 1]>>]
    BY <1>1 DEF Runs
  <2>2. ASSUME NEW k \in 1 .. n PROVE g[k] = G(k, g[k - 1])
    <3>1. g[k - 1] \in Seq(Block)
      BY <2>1, <1>0, k - 1 \in 0 .. n
    <3>2. F[<<k, g[k - 1]>>] = G(k, g[k - 1])
      <4> HIDE DEF G
      <4> QED BY <3>1
    <3> QED BY <2>1, <3>2
  <2> HIDE DEF F, G
  <2> QED BY <2>1, <2>2
<1>3. g = Body(g)
  <2>1. \A k \in 0 .. n : g[k] = IF k = 0 THEN <<>> ELSE G(k, g[k - 1])
    <3> HIDE DEF G
    <3> QED BY <1>0, <1>2
  <2> QED BY <1>2, <2>1
<1>4. p = Body(p)
  <2> HIDE DEF Body
  <2> QED BY <1>3
<1>5. Evicted(l) = p[n]
  BY DEF Evicted, n
<1> HIDE DEF p
<1>6. /\ DOMAIN p = 0 .. n /\ p = [k \in 0 .. n |-> p[k]]
      /\ p[0] = <<>> /\ \A k \in 1 .. n : p[k] = G(k, p[k - 1])
  <2>1. \A k \in 0 .. n : Body(p)[k] = IF k = 0 THEN <<>> ELSE G(k, p[k - 1])
    OBVIOUS
  <2>2. DOMAIN Body(p) = 0 .. n /\ Body(p) = [k \in 0 .. n |-> Body(p)[k]]
    OBVIOUS
  <2> HIDE DEF Body, G
  <2> QED BY <1>0, <1>4, <2>1, <2>2
<1>7. \A k \in 0 .. n : p[k] \in Seq(Block)
  <2> DEFINE S == {k \in 0 .. n : p[k] \in Seq(Block)}
  <2>1. 0 \in S
    <3>1. 0 \in 0 .. n /\ <<>> \in Seq(Block)
      BY <1>0, EmptySeq
    <3> QED BY <3>1, <1>6
  <2>2. ASSUME NEW k \in 0 .. n - 1, k \in S PROVE k + 1 \in S
    <3>1. p[k + 1] = G(k + 1, p[k])
      <4> HIDE DEF G
      <4> QED BY <1>0, <1>6, k + 1 \in 1 .. n, (k + 1) - 1 = k
    <3>2. p[k] \in Seq(Block) /\ k + 1 \in 1 .. n
      BY <2>2, <1>0
    <3> HIDE DEF G
    <3> QED BY <1>9, <3>1, <3>2, k + 1 \in 0 .. n
  <2>3. 0 .. n \subseteq S
    <3> HIDE DEF S
    <3> QED BY <1>0, <2>1, <2>2, UpwardInduction
  <2> QED BY <2>3
<1> QED BY <1>5, <1>6, <1>7 DEF n

\* The first k blocks of the stash have been looked at, and b is the bucket.
Filled(b, k, l) ==
    /\ b \in Seq(Block) /\ Len(b) <= bucket_size
    /\ \A a : Count(b, a) <= Cardinality(Upto(stash, k, a))
    /\ \A i \in 1 .. Len(b) : Fits(b[i], l) /\ \E j \in 1 .. k : b[i] = stash[j]
    /\ \/ Len(b) = bucket_size
       \/ \A j \in 1 .. k : Fits(stash[j], l) => \E i \in 1 .. Len(b) : b[i] = stash[j]

LEMMA FilledNext ==
  ASSUME stash \in Seq(Block), NEW k \in 0 .. Len(stash) - 1, NEW l, NEW b, Filled(b, k, l)
  PROVE  Filled(IF Len(b) < bucket_size /\ Fits(stash[k + 1], l)
                THEN Append(b, stash[k + 1]) ELSE b, k + 1, l)
<1> DEFINE x == stash[k + 1]
           c == Append(b, x)
<1>0. /\ Len(stash) \in Nat /\ x \in Block /\ k \in Nat /\ b \in Seq(Block)
      /\ Len(b) \in Nat /\ bucket_size \in Nat
  BY LenProperties, ElementOfSeq, SizeAssumption DEF Filled
<1>1. \A a : /\ Cardinality(Upto(stash, k + 1, a)) =
                   Cardinality(Upto(stash, k, a)) + (IF x.index = a THEN 1 ELSE 0)
             /\ Cardinality(Upto(stash, k, a)) \in Nat
             /\ Count(b, a) \in Nat
  <2> SUFFICES ASSUME NEW a
               PROVE  /\ Cardinality(Upto(stash, k + 1, a)) =
                           Cardinality(Upto(stash, k, a)) + (IF x.index = a THEN 1 ELSE 0)
                      /\ Cardinality(Upto(stash, k, a)) \in Nat
                      /\ Count(b, a) \in Nat
    OBVIOUS
  <2>1. Cardinality(Upto(stash, k + 1, a)) =
           Cardinality(Upto(stash, k, a)) + (IF x.index = a THEN 1 ELSE 0)
    BY <1>0, UptoNext
  <2>2. Cardinality(Upto(stash, k, a)) \in Nat
    BY <1>0, UptoFinite
  <2>3. Count(b, a) \in Nat
    BY <1>0, CountFacts
  <2> QED BY <2>1, <2>2, <2>3
<1>2. \A a : Count(b, a) <= Cardinality(Upto(stash, k, a))
  BY DEF Filled
<1>3. \A i \in 1 .. Len(b) : Fits(b[i], l) /\ \E j \in 1 .. k : b[i] = stash[j]
  BY DEF Filled
<1> HIDE DEF x
<1>4. CASE Len(b) < bucket_size /\ Fits(x, l)
  <2>1. /\ c \in Seq(Block) /\ Len(c) = Len(b) + 1 /\ c[Len(b) + 1] = x
        /\ \A i \in 1 .. Len(b) : c[i] = b[i]
    BY <1>0, AppendProperties
  <2>2. \A a : Count(c, a) = Count(b, a) + (IF x.index = a THEN 1 ELSE 0)
    BY <1>0, CountAppend
  <2> HIDE DEF c
  <2>3. \A a : Count(c, a) <= Cardinality(Upto(stash, k + 1, a))
    BY <1>1, <1>2, <2>2
  <2>4. \A i \in 1 .. Len(c) : Fits(c[i], l) /\ \E j \in 1 .. k + 1 : c[i] = stash[j]
    <3> SUFFICES ASSUME NEW i \in 1 .. Len(c)
                 PROVE  Fits(c[i], l) /\ \E j \in 1 .. k + 1 : c[i] = stash[j]
      OBVIOUS
    <3>1. CASE i = Len(b) + 1
      <4>1. c[i] = x /\ k + 1 \in 1 .. k + 1
        BY <3>1, <2>1, <1>0
      <4> QED BY <4>1, <1>4 DEF x
    <3>2. CASE i # Len(b) + 1
      <4>1. i \in 1 .. Len(b)
        BY <3>2, <2>1, <1>0
      <4>2. c[i] = b[i] /\ 1 .. k \subseteq 1 .. k + 1
        BY <4>1, <2>1, <1>0
      <4>3. Fits(b[i], l) /\ \E j \in 1 .. k : b[i] = stash[j]
        BY <4>1, <1>3
      <4> QED BY <4>2, <4>3
    <3> QED BY <3>1, <3>2
  <2>5. \A j \in 1 .. k + 1 : Fits(stash[j], l) => \E i \in 1 .. Len(c) : c[i] = stash[j]
    <3> SUFFICES ASSUME NEW j \in 1 .. k + 1, Fits(stash[j], l)
                 PROVE  \E i \in 1 .. Len(c) : c[i] = stash[j]
      OBVIOUS
    <3>1. CASE j = k + 1
      <4>1. Len(b) + 1 \in 1 .. Len(c) /\ c[Len(b) + 1] = stash[j]
        BY <3>1, <2>1, <1>0 DEF x
      <4> QED BY <4>1
    <3>2. CASE j # k + 1
      <4>1. j \in 1 .. k /\ Len(b) # bucket_size
        BY <3>2, <1>0, <1>4
      <4>2. PICK i \in 1 .. Len(b) : b[i] = stash[j]
        BY <4>1 DEF Filled
      <4>3. i \in 1 .. Len(c) /\ c[i] = stash[j]
        BY <4>2, <2>1, <1>0
      <4> QED BY <4>3
    <3> QED BY <3>1, <3>2
  <2>6. Filled(c, k + 1, l)
    <3>1. Len(c) <= bucket_size
      BY <1>0, <1>4, <2>1
    <3> QED BY <2>1, <2>3, <2>4, <2>5, <3>1 DEF Filled
  <2> QED BY <1>4, <2>6 DEF c, x
<1>5. CASE ~(Len(b) < bucket_size /\ Fits(x, l))
  <2>1. \A a : Count(b, a) <= Cardinality(Upto(stash, k + 1, a))
    BY <1>1, <1>2
  <2>2. \A i \in 1 .. Len(b) : Fits(b[i], l) /\ \E j \in 1 .. k + 1 : b[i] = stash[j]
    <3>1. 1 .. k \subseteq 1 .. k + 1
      BY <1>0
    <3> QED BY <3>1, <1>3
  <2>3. \/ Len(b) = bucket_size
        \/ \A j \in 1 .. k + 1 : Fits(stash[j], l) => \E i \in 1 .. Len(b) : b[i] = stash[j]
    <3> SUFFICES ASSUME Len(b) # bucket_size, NEW j \in 1 .. k + 1, Fits(stash[j], l)
                 PROVE  \E i \in 1 .. Len(b) : b[i] = stash[j]
      OBVIOUS
    <3>1. Len(b) < bucket_size
      BY <1>0 DEF Filled
    <3>2. j # k + 1
      BY <3>1, <1>5 DEF x
    <3>3. j \in 1 .. k
      BY <3>2, <1>0
    <3> QED BY <3>3 DEF Filled
  <2>4. Filled(b, k + 1, l)
    BY <2>1, <2>2, <2>3 DEF Filled
  <2> QED BY <1>5, <2>4 DEF x
<1> QED BY <1>4, <1>5

(* The bucket: of the stash, not longer than a bucket, of the blocks that  *)
(* fit, and all of them unless it is full.                                 *)
LEMMA EvictedFacts ==
  ASSUME NEW l \in Levels, stash \in Seq(Block)
  PROVE  Filled(Evicted(l), Len(stash), l)
<1>1. PICK p : /\ p \in [0 .. Len(stash) -> Seq(Block)] /\ p[0] = <<>>
               /\ \A k \in 1 .. Len(stash) :
                     p[k] = IF Len(p[k - 1]) < bucket_size /\ Fits(stash[k], l)
                            THEN Append(p[k - 1], stash[k]) ELSE p[k - 1]
               /\ Evicted(l) = p[Len(stash)]
  BY EvictedRow
<1>2. Len(stash) \in Nat
  BY LenProperties
<1> DEFINE S == {k \in 0 .. Len(stash) : Filled(p[k], k, l)}
<1>3. 0 \in S
  <2>1. <<>> \in Seq(Block) /\ Len(<<>>) = 0 /\ bucket_size \in Nat
    BY EmptySeq, SizeAssumption
  <2>2. \A a : Count(<<>>, a) = 0 /\ Cardinality(Upto(stash, 0, a)) = 0
    BY <2>1, FS_EmptySet DEF Count, Upto
  <2>3. Filled(<<>>, 0, l)
    BY <2>1, <2>2 DEF Filled
  <2> QED BY <1>1, <1>2, <2>3
<1>4. ASSUME NEW k \in 0 .. Len(stash) - 1, k \in S PROVE k + 1 \in S
  <2>1. k + 1 \in 1 .. Len(stash) /\ (k + 1) - 1 = k /\ k + 1 \in 0 .. Len(stash)
    BY <1>2
  <2>2. Filled(p[k], k, l)
    BY <1>4
  <2>3. p[k + 1] = IF Len(p[k]) < bucket_size /\ Fits(stash[k + 1], l)
                   THEN Append(p[k], stash[k + 1]) ELSE p[k]
    BY <1>1, <2>1
  <2>4. Filled(p[k + 1], k + 1, l)
    BY <2>2, <2>3, FilledNext
  <2> QED BY <2>1, <2>4
<1>5. 0 .. Len(stash) \subseteq S
  <2> HIDE DEF S
  <2> QED BY <1>2, <1>3, <1>4, UpwardInduction
<1> QED BY <1>1, <1>2, <1>5

(* The rows of the loop that erases what was evicted.                      *)
LEMMA RemovedAny ==
  ASSUME NEW S, NEW s \in Seq(S), NEW a
  PROVE  RemoveAt(s, Find(s, a)) \in Seq(S)
<1>1. CASE Find(s, a) = 0
  <2>1. Len(s) \in Nat /\ \A j \in 1 .. Len(s) : s[j] \in S
    BY LenProperties, ElementOfSeq
  <2>2. SubSeq(s, 1, 0 - 1) \in Seq(S)
    BY <2>1, SubSeqProperties
  <2>3. SubSeq(s, 0 + 1, Len(s)) \in Seq(S)
    BY <2>1, SubSeqProperties
  <2> QED BY <1>1, <2>2, <2>3, ConcatProperties DEF RemoveAt
<1>2. CASE Find(s, a) # 0
  BY <1>2, FindFirst, Removed
<1> QED BY <1>1, <1>2

LEMMA EraseRow ==
  ASSUME NEW s \in Seq(Block), NEW e \in Seq(Block)
  PROVE  \E p : /\ p \in [0 .. Len(e) -> Seq(Block)] /\ p[0] = s
                /\ \A k \in 1 .. Len(e) :
                      p[k] = RemoveAt(p[k - 1], Find(p[k - 1], e[k].index))
                /\ Erase(s, e) = p[Len(e)]
<1> DEFINE n == Len(e)
           G(k, b) == RemoveAt(b, Find(b, e[k].index))
           Body(f) == [k \in 0 .. n |-> IF k = 0 THEN s
                                        ELSE RemoveAt(f[k - 1], Find(f[k - 1], e[k].index))]
           F == [z \in (1 .. n) \X Seq(Block) |-> G(z[1], z[2])]
           p == CHOOSE f : f = Body(f)
<1>0. n \in Nat
  BY LenProperties
<1>9. \A k \in 1 .. n, b \in Seq(Block) : G(k, b) \in Seq(Block)
  BY RemovedAny
<1> HIDE DEF n
<1>1. PICK g : Runs(g, Seq(Block), F, s, n)
  <2>1. F \in [(1 .. n) \X Seq(Block) -> Seq(Block)]
    <3> HIDE DEF G
    <3> QED BY <1>9
  <2> HIDE DEF F
  <2> QED BY <1>0, <2>1, Recursion
<1>2. /\ g \in [0 .. n -> Seq(Block)] /\ g[0] = s
      /\ \A k \in 1 .. n : g[k] = G(k, g[k - 1])
  <2>1. g \in [0 .. n -> Seq(Block)] /\ g[0] = s /\ \A k \in 1 .. n : g[k] = F[<<k, g[k - 1]>>]
    BY <1>1 DEF Runs
  <2>2. ASSUME NEW k \in 1 .. n PROVE g[k] = G(k, g[k - 1])
    <3>1. g[k - 1] \in Seq(Block)
      BY <2>1, <1>0, k - 1 \in 0 .. n
    <3>2. F[<<k, g[k - 1]>>] = G(k, g[k - 1])
      <4> HIDE DEF G
      <4> QED BY <3>1
    <3> QED BY <2>1, <3>2
  <2> HIDE DEF F, G
  <2> QED BY <2>1, <2>2
<1>3. g = Body(g)
  <2>1. \A k \in 0 .. n : g[k] = IF k = 0 THEN s ELSE G(k, g[k - 1])
    <3> HIDE DEF G
    <3> QED BY <1>0, <1>2
  <2> QED BY <1>2, <2>1
<1>4. p = Body(p)
  <2> HIDE DEF Body
  <2> QED BY <1>3
<1>5. Erase(s, e) = p[n]
  BY DEF Erase, n
<1> HIDE DEF p
<1>6. /\ DOMAIN p = 0 .. n /\ p = [k \in 0 .. n |-> p[k]]
      /\ p[0] = s /\ \A k \in 1 .. n : p[k] = G(k, p[k - 1])
  <2>1. \A k \in 0 .. n : Body(p)[k] = IF k = 0 THEN s ELSE G(k, p[k - 1])
    OBVIOUS
  <2>2. DOMAIN Body(p) = 0 .. n /\ Body(p) = [k \in 0 .. n |-> Body(p)[k]]
    OBVIOUS
  <2> HIDE DEF Body, G
  <2> QED BY SMTT(30), <1>0, <1>4, <2>1, <2>2
<1>7. \A k \in 0 .. n : p[k] \in Seq(Block)
  <2> DEFINE S == {k \in 0 .. n : p[k] \in Seq(Block)}
  <2>1. 0 \in S
    BY <1>0, <1>6
  <2>2. ASSUME NEW k \in 0 .. n - 1, k \in S PROVE k + 1 \in S
    <3>1. p[k + 1] = G(k + 1, p[k])
      <4> HIDE DEF G
      <4> QED BY <1>0, <1>6, k + 1 \in 1 .. n, (k + 1) - 1 = k
    <3>2. p[k] \in Seq(Block) /\ k + 1 \in 1 .. n
      BY <2>2, <1>0
    <3> HIDE DEF G
    <3> QED BY <1>9, <3>1, <3>2, k + 1 \in 0 .. n
  <2>3. 0 .. n \subseteq S
    <3> HIDE DEF S
    <3> QED BY <1>0, <2>1, <2>2, UpwardInduction
  <2> QED BY <2>3
<1> QED BY <1>5, <1>6, <1>7 DEF n

(* What is erased of an address is what was evicted of it.                 *)
LEMMA EraseFacts ==
  ASSUME NEW s \in Seq(Block), NEW e \in Seq(Block), \A a : Count(e, a) <= Count(s, a)
  PROVE  /\ Erase(s, e) \in Seq(Block)
         /\ \A a : Count(Erase(s, e), a) + Count(e, a) = Count(s, a)
         /\ \A i \in DOMAIN Erase(s, e) : \E j \in DOMAIN s : Erase(s, e)[i] = s[j]
<1> DEFINE m == Len(e)
           From(r) == \A i \in 1 .. Len(r) : \E j \in 1 .. Len(s) : r[i] = s[j]
           Left(r, n) == \A a : Count(r, a) + Cardinality(Upto(e, n, a)) = Count(s, a)
<1>1. PICK p : /\ p \in [0 .. m -> Seq(Block)] /\ p[0] = s
               /\ \A k \in 1 .. m : p[k] = RemoveAt(p[k - 1], Find(p[k - 1], e[k].index))
               /\ Erase(s, e) = p[m]
  BY EraseRow
<1>2. m \in Nat
  BY LenProperties
<1> DEFINE S == {n \in 0 .. m : From(p[n]) /\ Left(p[n], n)}
<1>3. 0 \in S
  <2>1. ASSUME NEW a PROVE Count(s, a) + Cardinality(Upto(e, 0, a)) = Count(s, a)
    <3>1. Cardinality(Upto(e, 0, a)) = 0
      BY FS_EmptySet DEF Upto
    <3>2. Count(s, a) \in Nat
      BY CountFacts
    <3> QED BY <3>1, <3>2
  <2> QED BY <1>1, <1>2, <2>1
<1>4. ASSUME NEW n \in 0 .. m - 1, n \in S PROVE n + 1 \in S
  <2> DEFINE r == p[n]
             x == e[n + 1].index
             i == Find(r, x)
  <2>1. /\ r \in Seq(Block) /\ p[n + 1] = RemoveAt(r, i)
        /\ n \in Nat /\ n + 1 \in 1 .. m
    BY SMTT(30), <1>1, <1>2, n + 1 \in 1 .. m, (n + 1) - 1 = n, n \in 0 .. m
  <2>2. From(r) /\ Left(r, n)
    BY <1>4
  <2>3. \A a : /\ Cardinality(Upto(e, n + 1, a)) =
                     Cardinality(Upto(e, n, a)) + (IF x = a THEN 1 ELSE 0)
               /\ Cardinality(Upto(e, n, a)) \in Nat /\ Count(r, a) \in Nat
    <3> SUFFICES ASSUME NEW a
                 PROVE  /\ Cardinality(Upto(e, n + 1, a)) =
                             Cardinality(Upto(e, n, a)) + (IF x = a THEN 1 ELSE 0)
                        /\ Cardinality(Upto(e, n, a)) \in Nat /\ Count(r, a) \in Nat
      OBVIOUS
    <3>1. Cardinality(Upto(e, n + 1, a)) =
             Cardinality(Upto(e, n, a)) + (IF x = a THEN 1 ELSE 0)
      BY <2>1, UptoNext
    <3>2. Cardinality(Upto(e, n, a)) \in Nat
      BY <2>1, UptoFinite
    <3>3. Count(r, a) \in Nat
      BY <2>1, CountFacts
    <3> QED BY <3>1, <3>2, <3>3
  <2>4. Cardinality(Upto(e, n + 1, x)) <= Count(s, x)
    <3>1. Upto(e, n + 1, x) \subseteq Upto(e, m, x)
      BY <1>2, <2>1 DEF Upto
    <3>2. Cardinality(Upto(e, n + 1, x)) <= Cardinality(Upto(e, m, x))
      BY <1>2, <3>1, UptoFinite, FS_Subset
    <3>3. Cardinality(Upto(e, n + 1, x)) \in Nat /\ Cardinality(Upto(e, m, x)) \in Nat
      BY <1>2, <2>1, UptoFinite, n + 1 \in Nat
    <3>4. Cardinality(Upto(e, m, x)) <= Count(s, x) /\ Count(s, x) \in Nat
      BY CountFacts DEF Count
    <3> HIDE DEF x, m
    <3> QED BY <3>2, <3>3, <3>4
  <2>5. Count(r, x) # 0
    <3>1. Count(r, x) + Cardinality(Upto(e, n, x)) = Count(s, x)
      BY <2>2
    <3>2. /\ Cardinality(Upto(e, n + 1, x)) = Cardinality(Upto(e, n, x)) + 1
          /\ Cardinality(Upto(e, n, x)) \in Nat /\ Count(r, x) \in Nat
      BY <2>3
    <3> HIDE DEF x, r
    <3> QED BY <3>1, <3>2, <2>4
  <2>6. i \in 1 .. Len(r) /\ r[i].index = x
    BY <2>1, <2>5, FindFirst
  <2> HIDE DEF i, x, r
  <2>7. Left(RemoveAt(r, i), n + 1)
    <3> SUFFICES ASSUME NEW a
                 PROVE  Count(RemoveAt(r, i), a) + Cardinality(Upto(e, n + 1, a)) = Count(s, a)
      OBVIOUS
    <3>1. Count(RemoveAt(r, i), a) = Count(r, a) - (IF x = a THEN 1 ELSE 0)
      BY <2>1, <2>6, CountRemoved
    <3> QED BY <3>1, <2>2, <2>3
  <2>8. From(RemoveAt(r, i))
    <3>1. /\ Len(RemoveAt(r, i)) = Len(r) - 1 /\ Len(r) \in Nat
          /\ \A j \in 1 .. Len(r) - 1 : RemoveAt(r, i)[j] = IF j < i THEN r[j] ELSE r[j + 1]
      BY <2>1, <2>6, Removed, LenProperties
    <3> SUFFICES ASSUME NEW j \in 1 .. Len(RemoveAt(r, i))
                 PROVE  \E h \in 1 .. Len(s) : RemoveAt(r, i)[j] = s[h]
      OBVIOUS
    <3>2. \E h \in 1 .. Len(r) : RemoveAt(r, i)[j] = r[h]
      <4>1. j \in 1 .. Len(r) /\ j + 1 \in 1 .. Len(r) /\ j \in 1 .. Len(r) - 1
        BY <3>1
      <4> QED BY <3>1, <4>1
    <3> QED BY <3>2, <2>2
  <2> HIDE DEF Left, From
  <2> QED BY <2>1, <2>7, <2>8, <1>2, n + 1 \in 0 .. m
<1>5. m \in S
  <2>1. 0 .. m \subseteq S
    <3> HIDE DEF S, m
    <3> QED BY <1>2, <1>3, <1>4, UpwardInduction
  <2> QED BY SMTT(30), <2>1, <1>2
<1>6. p[m] \in Seq(Block) /\ DOMAIN p[m] = 1 .. Len(p[m]) /\ DOMAIN s = 1 .. Len(s)
  BY <1>1, <1>2, LenProperties
<1>7. \A a : Count(p[m], a) + Count(e, a) = Count(s, a)
  BY <1>5 DEF Count
<1>8. From(p[m])
  BY <1>5
<1> HIDE DEF m, S, Left
<1>9. Erase(s, e) = p[m]
  BY <1>1
<1> QED BY <1>6, <1>7, <1>8, <1>9

-----------------------------------------------------------------------------
(* Counting the blocks of an address in buckets.                           *)

\* The places of the blocks of address a in the buckets K of storage st.
Spots(st, k, a) == {<<k, i>> : i \in Upto(st[k], Len(st[k]), a)}
Within(st, K, a) == UNION {Spots(st, k, a) : k \in K}
Held(st, K, a) == Cardinality(Within(st, K, a))

LEMMA SpotsCount ==
  ASSUME NEW st, NEW k, NEW S, st[k] \in Seq(S), NEW a
  PROVE  IsFiniteSet(Spots(st, k, a)) /\ Cardinality(Spots(st, k, a)) = Count(st[k], a)
<1> DEFINE U == Upto(st[k], Len(st[k]), a)
           f == [i \in U |-> <<k, i>>]
<1>1. Len(st[k]) \in Nat
  BY LenProperties
<1>2. IsFiniteSet(U)
  BY <1>1, UptoFinite
<1>3. f \in Bijection(U, Spots(st, k, a))
  <2>1. f \in [U -> Spots(st, k, a)]
    BY DEF Spots
  <2>2. \A i, j \in U : f[i] = f[j] => i = j
    OBVIOUS
  <2>3. \A x \in Spots(st, k, a) : \E i \in U : f[i] = x
    BY DEF Spots
  <2> HIDE DEF f, U
  <2> QED BY <2>1, <2>2, <2>3, Fun_IsBij
<1>4. ExistsBijection(U, Spots(st, k, a))
  BY <1>3 DEF ExistsBijection
<1> HIDE DEF f
<1> QED BY <1>2, <1>4, FS_Bijection DEF Count

LEMMA StorageFinite == IsFiniteSet(Positions)
<1>1. num_levels \in 0 .. num_levels
  BY SizeAssumption
<1>2. num_buckets - 1 \in Int
  BY <1>1, PowersOfTwo DEF num_buckets
<1> QED BY <1>2, FS_Interval DEF Positions

LEMMA HeldFacts ==
  ASSUME NEW st \in [Positions -> Seq(Block)], NEW K \in SUBSET Positions, NEW a
  PROVE  /\ IsFiniteSet(Within(st, K, a)) /\ Held(st, K, a) \in Nat
         /\ Held(st, K, a) = 0 <=> \A k \in K : Count(st[k], a) = 0
<1>1. \A k \in K : st[k] \in Seq(Block)
  OBVIOUS
<1>2. \A k \in K : IsFiniteSet(Spots(st, k, a)) /\ Cardinality(Spots(st, k, a)) = Count(st[k], a)
  BY <1>1, SpotsCount
<1>3. IsFiniteSet(K)
  BY StorageFinite, FS_Subset
<1>4. IsFiniteSet(Within(st, K, a))
  <2> DEFINE T == {Spots(st, k, a) : k \in K}
             g == [k \in K |-> Spots(st, k, a)]
  <2>0. g \in Surjection(K, T)
    <3>1. g \in [K -> T] /\ \A t \in T : \E k \in K : g[k] = t
      OBVIOUS
    <3> HIDE DEF g, T
    <3> QED BY <3>1, Fun_IsSurj
  <2>1. IsFiniteSet(T)
    <3> HIDE DEF g, T
    <3> QED BY <1>3, <2>0, FS_Surjection
  <2> QED BY <1>2, <2>1, FS_UNION DEF Within
<1>5. Held(st, K, a) \in Nat /\ (Held(st, K, a) = 0 <=> Within(st, K, a) = {})
  BY <1>4, FS_CardinalityType, FS_EmptySet DEF Held
<1>6. Within(st, K, a) = {} <=> \A k \in K : Spots(st, k, a) = {}
  BY DEF Within
<1>7. \A k \in K : Spots(st, k, a) = {} <=> Count(st[k], a) = 0
  BY <1>2, FS_EmptySet
<1> QED BY <1>4, <1>5, <1>6, <1>7

LEMMA HeldUnion ==
  ASSUME NEW st \in [Positions -> Seq(Block)], NEW a,
         NEW K \in SUBSET Positions, NEW L \in SUBSET Positions, K \cap L = {}
  PROVE  Held(st, K \cup L, a) = Held(st, K, a) + Held(st, L, a)
<1>1. Within(st, K \cup L, a) = Within(st, K, a) \cup Within(st, L, a)
  BY DEF Within
<1>2. Within(st, K, a) \cap Within(st, L, a) = {}
  <2> SUFFICES ASSUME NEW x \in Within(st, K, a), x \in Within(st, L, a) PROVE FALSE
    OBVIOUS
  <2>1. PICK k \in K, l \in L : x \in Spots(st, k, a) /\ x \in Spots(st, l, a)
    BY DEF Within
  <2>2. x[1] = k /\ x[1] = l
    BY <2>1 DEF Spots
  <2> QED BY <2>2
<1>3. IsFiniteSet(Within(st, K, a)) /\ IsFiniteSet(Within(st, L, a))
  BY HeldFacts
<1> DEFINE A == Within(st, K, a)
           B == Within(st, L, a)
<1>4. Cardinality(A \cup B) = Cardinality(A) + Cardinality(B) - Cardinality(A \cap B)
  <2> HIDE DEF A, B
  <2> QED BY <1>3, FS_Union DEF A, B
<1>5. Cardinality(A \cap B) = 0
  BY <1>2, FS_EmptySet
<1>8. Held(st, K, a) \in Nat /\ Held(st, L, a) \in Nat
  BY HeldFacts
<1>6. Held(st, K \cup L, a) = Cardinality(A \cup B)
  BY <1>1 DEF Held
<1>7. Held(st, K, a) = Cardinality(A) /\ Held(st, L, a) = Cardinality(B)
  BY DEF Held
<1> HIDE DEF A, B
<1> QED BY <1>4, <1>5, <1>6, <1>7, <1>8

LEMMA HeldOne ==
  ASSUME NEW st \in [Positions -> Seq(Block)], NEW a, NEW k \in Positions
  PROVE  Held(st, {k}, a) = Count(st[k], a)
<1>1. Within(st, {k}, a) = Spots(st, k, a)
  BY DEF Within
<1> QED BY <1>1, SpotsCount DEF Held

LEMMA HeldAdd ==
  ASSUME NEW st \in [Positions -> Seq(Block)], NEW a, NEW K \in SUBSET Positions,
         NEW k \in Positions \ K
  PROVE  Held(st, K \cup {k}, a) = Held(st, K, a) + Count(st[k], a)
<1>1. Held(st, K \cup {k}, a) = Held(st, K, a) + Held(st, {k}, a)
  BY SMTT(30), HeldUnion
<1> QED BY <1>1, HeldOne

LEMMA HeldSame ==
  ASSUME NEW st, NEW tt, NEW K, NEW a, \A k \in K : st[k] = tt[k]
  PROVE  Held(st, K, a) = Held(tt, K, a)
  BY ZenonT(60) DEF Held, Within, Spots

LEMMA CountOne ==
  ASSUME NEW S, NEW s \in Seq(S), NEW a, Count(s, a) <= 1,
         NEW i \in DOMAIN s, NEW j \in DOMAIN s, s[i].index = a, s[j].index = a
  PROVE  i = j
<1>1. Len(s) \in Nat /\ DOMAIN s = 1 .. Len(s)
  BY LenProperties
<1>2. {i, j} \subseteq Upto(s, Len(s), a)
  BY <1>1 DEF Upto
<1>3. IsFiniteSet(Upto(s, Len(s), a)) /\ Count(s, a) \in Nat
  BY <1>1, UptoFinite DEF Count
<1>4. Cardinality({i, j}) <= Count(s, a)
  BY <1>2, <1>3, FS_Subset DEF Count
<1>5. i # j => Cardinality({i, j}) = 2
  <2> SUFFICES ASSUME i # j PROVE Cardinality({i, j}) = 2
    OBVIOUS
  <2>1. IsFiniteSet({i}) /\ Cardinality({i}) = 1
    BY FS_Singleton
  <2>2. {i, j} = {i} \cup {j}
    OBVIOUS
  <2>3. Cardinality({i} \cup {j}) = Cardinality({i}) + 1
    BY <2>1, FS_AddElement
  <2>4. Cardinality({i, j}) = Cardinality({i}) + 1
    BY <2>2, <2>3
  <2> QED BY <2>1, <2>4
<1> QED BY <1>3, <1>4, <1>5

-----------------------------------------------------------------------------
(* The numbering of the buckets, for this tree. *)
LEMMA TreePowers ==
  /\ PowersUpTo(num_levels)
  /\ \A n \in 0 .. num_levels : 2^n \in Nat /\ 2^n >= 1
<1>1. PowersUpTo(num_levels)
  BY PowersOfTwo DEF PowersUpTo
<1> QED BY <1>1, PowerType, SizeAssumption

LEMMA PathInStorage ==
  ASSUME NEW x \in Leaves, NEW l \in Levels
  PROVE  P(x, l) \in Positions
<1>1. P(x, l) = TreePosition(num_levels, x, l)
  BY DEF P, TreePosition
<1>2. TreePosition(num_levels, x, l) \in 0 .. 2^num_levels - 2
  BY TreePowers, PositionOfLevel, SizeAssumption DEF Leaves, num_leaves, Levels
<1>3. 2^num_levels \in Nat
  BY TreePowers, SizeAssumption
<1> QED BY <1>1, <1>2, <1>3 DEF Positions, num_buckets

LEMMA LevelsDisjoint ==
  ASSUME NEW x \in Leaves, NEW y \in Leaves, NEW i \in Levels, NEW j \in Levels,
         P(x, i) = P(y, j)
  PROVE  i = j
<1>1. TreePosition(num_levels, x, i) = TreePosition(num_levels, y, j)
  BY DEF P, TreePosition
<1> QED BY <1>1, TreePowers, LevelsApart, SizeAssumption DEF Leaves, num_leaves, Levels

(* Leaf 0, which operator[] of position_map defaults to, is a leaf. *)
LEMMA LeafZero == 0 \in Leaves
<1>1. num_levels - 1 \in 0 .. num_levels
  BY SizeAssumption
<1> QED BY <1>1, TreePowers DEF Leaves, num_leaves

(***************************************************************************)
(* The types.                                                              *)
(***************************************************************************)
RpcType ==
    /\ position_map \in [Address -> Leaves]
    /\ stash \in Seq(Block)
    /\ oram_storage \in [Positions -> Seq(Block)]
    /\ pc \in {"idle", "read", "evict"}
    /\ level \in 0 .. num_levels
    /\ pc = "evict" => level \in Levels
    /\ oldLeaf \in Leaves
    /\ call \in Call
    /\ pc = "read" => response = NoData
    /\ failures \in Nat
    /\ truth \in [Address -> SUBSET (Data \cup {NoData})]
    /\ touched \in SUBSET Address
    /\ failures = 0 => touched = {}

LEMMA CallType ==
  ASSUME NEW c \in Call
  PROVE  /\ c.index \in Address /\ c.op \in {"READ", "WRITE"}
         /\ c.op = "WRITE" => c.data \in Data /\ [index |-> c.index, data |-> c.data] \in Block
  BY DEF Call, Block

(* What is written back comes from the stash, and the rest stays there.    *)
LEMMA WriteBackFacts ==
  ASSUME RpcType, pc = "evict"
  PROVE  LET b == Evicted(level)
             s == Erase(stash, b)
         IN  /\ b \in Seq(Block) /\ s \in Seq(Block) /\ Len(b) <= bucket_size
             /\ \A a : Count(s, a) + Count(b, a) = Count(stash, a)
             /\ \A i \in DOMAIN s : \E j \in DOMAIN stash : s[i] = stash[j]
             /\ \A i \in DOMAIN b : Fits(b[i], level) /\ \E j \in DOMAIN stash : b[i] = stash[j]
             /\ \/ Len(b) = bucket_size
                \/ \A j \in DOMAIN stash :
                      Fits(stash[j], level) => \E i \in DOMAIN b : b[i] = stash[j]
<1> DEFINE b == Evicted(level)
           s == Erase(stash, b)
<1>1. level \in Levels /\ stash \in Seq(Block)
  BY DEF RpcType
<1>2. Filled(b, Len(stash), level)
  BY <1>1, EvictedFacts
<1> HIDE DEF b
<1>3. DOMAIN stash = 1 .. Len(stash) /\ DOMAIN b = 1 .. Len(b)
  BY <1>1, <1>2, LenProperties DEF Filled
<1>4. b \in Seq(Block) /\ \A a : Count(b, a) <= Count(stash, a)
  BY <1>2 DEF Filled, Count
<1>5. /\ s \in Seq(Block)
      /\ \A a : Count(s, a) + Count(b, a) = Count(stash, a)
      /\ \A i \in DOMAIN s : \E j \in DOMAIN stash : s[i] = stash[j]
  BY <1>1, <1>4, EraseFacts
<1> HIDE DEF s
<1>6. Len(b) <= bucket_size
  BY <1>2 DEF Filled
<1>7. \A i \in DOMAIN b : Fits(b[i], level) /\ \E j \in DOMAIN stash : b[i] = stash[j]
  BY <1>2, <1>3 DEF Filled
<1>8. \/ Len(b) = bucket_size
      \/ \A j \in DOMAIN stash :
            Fits(stash[j], level) => \E i \in DOMAIN b : b[i] = stash[j]
  BY <1>2, <1>3 DEF Filled
<1> QED BY <1>4, <1>5, <1>6, <1>7, <1>8 DEF b, s

LEMMA InitType == Init => RpcType
<1> SUFFICES ASSUME Init PROVE RpcType
  OBVIOUS
<1>1. <<>> \in Seq(Block)
  BY EmptySeq
<1>2. oram_storage \in [Positions -> Seq(Block)]
  BY <1>1 DEF Init
<1> QED BY <1>1, <1>2, LeafZero, SizeAssumption DEF Init, RpcType

LEMMA StartType ==
  ASSUME RpcType, NEW c \in Call, Start(c), position_map' \in [Address -> Leaves]
  PROVE  RpcType'
<1>1. position_map[c.index] \in Leaves
  BY CallType DEF RpcType
<1> QED BY <1>1, SizeAssumption DEF RpcType, Start, history

LEMMA ServeType ==
  ASSUME RpcType, Serve
  PROVE  RpcType'
<1>1. stash' \in Seq(Block) /\ truth' \in [Address -> SUBSET (Data \cup {NoData})]
  <2>1. CASE ServeRead
    BY <2>1 DEF ServeRead, RpcType
  <2>2. CASE ServeWrite
    <3> DEFINE i == Find(stash, call.index)
               w == [index |-> call.index, data |-> call.data]
    <3>1. call.index \in Address /\ call.data \in Data /\ w \in Block
      BY <2>2, CallType DEF RpcType, ServeWrite
    <3>2. truth' \in [Address -> SUBSET (Data \cup {NoData})]
      BY <2>2, <3>1 DEF RpcType, ServeWrite
    <3>3. CASE i = 0
      <4>1. stash' = Append(stash, w)
        BY <2>2, <3>3 DEF ServeWrite
      <4> QED BY <3>1, <3>2, <4>1, AppendProperties DEF RpcType
    <3>4. CASE i # 0
      <4>1. stash' = [stash EXCEPT ![i].data = call.data]
        BY <2>2, <3>4 DEF ServeWrite
      <4>2. i \in 1 .. Len(stash)
        BY <3>4, FindFirst DEF RpcType
      <4>3. stash[i] \in Block
        BY <4>2, ElementOfSeq DEF RpcType
      <4>4. stash' = [stash EXCEPT ![i] = [stash[i] EXCEPT !.data = call.data]]
        BY <4>1
      <4>5. [stash[i] EXCEPT !.data = call.data] \in Block
        BY <4>3, <3>1 DEF Block
      <4> QED BY <3>2, <4>2, <4>4, <4>5, ExceptSeq DEF RpcType
    <3> QED BY <3>3, <3>4
  <2> QED BY <2>1, <2>2 DEF Serve
<1>2. num_levels - 1 \in Levels /\ num_levels - 1 \in 0 .. num_levels
  BY SizeAssumption DEF Levels
<1> QED BY <1>1, <1>2 DEF Serve, RpcType

LEMMA HandledType ==
  ASSUME RpcType
  PROVE  Handled \in SUBSET Address
<1>1. \A s \in Seq(Block) : Indices(s) \in SUBSET Address
  <2> SUFFICES ASSUME NEW s \in Seq(Block), NEW i \in DOMAIN s PROVE s[i].index \in Address
    BY DEF Indices
  <2>1. s[i] \in Block
    BY LenProperties, ElementOfSeq
  <2> QED BY <2>1 DEF Block
<1>2. Path(oldLeaf) \subseteq Positions
  BY PathInStorage DEF Path, RpcType
<1>3. \A k \in Path(oldLeaf) : Indices(oram_storage[k]) \in SUBSET Address
  BY <1>1, <1>2 DEF RpcType
<1>4. Indices(stash) \in SUBSET Address /\ call.index \in Address
  BY <1>1, CallType DEF RpcType
<1> QED BY <1>3, <1>4 DEF Handled

LEMMA ThrowType ==
  ASSUME RpcType, Throw
  PROVE  /\ pc' = "idle" /\ failures' = failures + 1 /\ failures' \in Nat
         /\ touched' = touched \cup Handled /\ touched' \in SUBSET Address
         /\ truth' \in [Address -> SUBSET (Data \cup {NoData})]
<1>1. pc' = "idle" /\ failures' = failures + 1 /\ touched' = touched \cup Handled
  BY DEF Throw
<1>2. touched' \in SUBSET Address
  BY <1>1, HandledType DEF RpcType
<1>3. truth' \in [Address -> SUBSET (Data \cup {NoData})]
  BY DEF Throw, RpcType
<1> QED BY <1>1, <1>2, <1>3 DEF RpcType

LEMMA NextType == RpcType /\ [Next]_vars => RpcType'
<1> SUFFICES ASSUME RpcType, [Next]_vars PROVE RpcType'
  OBVIOUS
<1>1. ASSUME NEW c \in Call, access(c) \/ access_direct(c) PROVE RpcType'
  <2>1. Start(c) /\ position_map' \in [Address -> Leaves]
    BY <1>1 DEF access, access_direct, RpcType
  <2> QED BY <2>1, StartType
<1>2. CASE ReadPathBucket
  <2>1. level \in Levels /\ level + 1 \in 0 .. num_levels
    BY <1>2, SizeAssumption DEF ReadPathBucket, RpcType, Levels
  <2>2. oram_storage[P(oldLeaf, level)] \in Seq(Block)
    BY <2>1, PathInStorage DEF RpcType
  <2>3. stash' \in Seq(Block)
    BY <1>2, <2>2, ConcatProperties DEF ReadPathBucket, RpcType
  <2> QED BY <1>2, <2>1, <2>3 DEF ReadPathBucket, RpcType, history
<1>3. CASE Serve
  BY <1>3, ServeType
<1>4. CASE EvictBucket
  <2>1. /\ Evicted(level) \in Seq(Block) /\ Erase(stash, Evicted(level)) \in Seq(Block)
        /\ pc = "evict" /\ level \in Levels
    BY <1>4, WriteBackFacts DEF EvictBucket, RpcType
  <2>2. stash' \in Seq(Block) /\ oram_storage' \in [Positions -> Seq(Block)]
    BY <1>4, <2>1 DEF EvictBucket, RpcType
  <2>3. pc' \in {"idle", "evict"} /\ level' \in Levels
    BY <1>4, <2>1, SizeAssumption DEF EvictBucket, NextLevel, Levels
  <2>4. truth' \in [Address -> SUBSET (Data \cup {NoData})]
    <3>1. \/ truth' = truth
          \/ call.op = "WRITE" /\ truth' = [truth EXCEPT ![call.index] = {call.data}]
      BY <1>4 DEF EvictBucket, NextLevel
    <3>2. call.op = "WRITE" => call.data \in Data
      BY CallType DEF RpcType
    <3>3. truth \in [Address -> SUBSET (Data \cup {NoData})]
      BY DEF RpcType
    <3>4. call.op = "WRITE" => {call.data} \in SUBSET (Data \cup {NoData})
      BY <3>2
    <3> QED BY <3>1, <3>3, <3>4
  <2>5. level' \in 0 .. num_levels
    BY <2>3, SizeAssumption DEF Levels
  <2> QED BY <1>4, <2>2, <2>3, <2>4, <2>5 DEF EvictBucket, RpcType
<1>5. CASE ReadBucketFails
  BY <1>5, ThrowType DEF ReadBucketFails, RpcType
<1>6. CASE WriteBucketFails
  <2>1. /\ Evicted(level) \in Seq(Block) /\ Erase(stash, Evicted(level)) \in Seq(Block)
    BY <1>6, WriteBackFacts DEF WriteBucketFails, RpcType
  <2>2. stash' \in Seq(Block) /\ oram_storage' \in [Positions -> Seq(Block)]
    BY <1>6, <2>1 DEF WriteBucketFails, RpcType
  <2> QED BY <1>6, <2>2, ThrowType DEF WriteBucketFails, RpcType
<1>7. CASE UNCHANGED vars
  BY <1>7 DEF vars, memVars, ctlVars, history, RpcType
<1> QED BY <1>1, <1>2, <1>3, <1>4, <1>5, <1>6, <1>7 DEF Next

(***************************************************************************)
(* How many blocks an address has.                                         *)
(***************************************************************************)
\* Buckets of the path that were read and are not yet written back: between
\* two accesses, none.
Copied == CASE pc = "idle"  -> {}
            [] pc = "read"  -> {P(oldLeaf, l) : l \in 0 .. level - 1}
            [] pc = "evict" -> {P(oldLeaf, l) : l \in 0 .. level}

\* The blocks of an address that stay, and those to be replaced.
Live(a)  == Count(stash, a) + Held(oram_storage, Positions \ Copied, a)
Stale(a) == Held(oram_storage, Copied, a)

Bound(a) == IF a \in touched THEN Power(2, failures) ELSE 1

\* The leaf on whose path the next access, or the running one, looks.
LeafOf(a) == IF pc = "read" /\ a = call.index THEN oldLeaf ELSE position_map[a]

\* That access will see a block of the address in the stash.
Reachable(a) ==
    \/ Count(stash, a) # 0
    \/ \E k \in Path(LeafOf(a)) \ Copied : Count(oram_storage[k], a) # 0

\* A failure while blocks are both in the stash and in buckets leaves both, so
\* the bound doubles with each.  A WRITE that sees no block adds one: there the
\* bound must leave room.
CountOf(a) ==
    /\ Live(a) <= Bound(a)
    /\ ~Reachable(a) => Live(a) <= Bound(a) - 1
    /\ pc = "read" => Stale(a) <= Count(stash, a)
    /\ pc = "evict" => Stale(a) <= Power(2, failures)
    /\ pc = "evict" /\ ~Reachable(a) => Stale(a) = 0

CountInv == \A a \in Address : CountOf(a)

LEMMA CopiedFacts ==
  ASSUME RpcType
  PROVE  /\ Copied \in SUBSET Positions /\ Positions \ Copied \in SUBSET Positions
         /\ Copied \subseteq Path(oldLeaf) /\ Path(oldLeaf) \subseteq Positions
         /\ pc = "idle" => Copied = {}
<1>1. Path(oldLeaf) \subseteq Positions
  BY PathInStorage DEF Path, RpcType
<1>2. CASE pc = "idle"
  BY <1>1, <1>2 DEF Copied
<1>3. CASE pc = "read"
  <2>1. \A l \in 0 .. level - 1 : l \in Levels
    BY SizeAssumption DEF RpcType, Levels
  <2>2. Copied \subseteq Path(oldLeaf)
    BY <1>3, <2>1 DEF Copied, Path
  <2> QED BY <1>1, <1>3, <2>2
<1>4. CASE pc = "evict"
  <2>1. \A l \in 0 .. level : l \in Levels
    BY <1>4, SizeAssumption DEF RpcType, Levels
  <2>2. Copied \subseteq Path(oldLeaf)
    BY <1>4, <2>1 DEF Copied, Path
  <2> QED BY <1>1, <1>4, <2>2
<1> QED BY <1>2, <1>3, <1>4 DEF RpcType

LEMMA NumberFacts ==
  ASSUME RpcType
  PROVE  /\ \A a : /\ Count(stash, a) \in Nat /\ Stale(a) \in Nat /\ Live(a) \in Nat
                   /\ Held(oram_storage, Positions \ Copied, a) \in Nat
         /\ \A k \in Positions : \A a : Count(oram_storage[k], a) \in Nat
         /\ Power(2, failures) \in Nat \ {0}
         /\ Power(2, failures + 1) = 2 * Power(2, failures)
         /\ failures = 0 => Power(2, failures) = 1
<1>1. \A a : Count(stash, a) \in Nat
  BY CountFacts DEF RpcType
<1>2. \A a : Held(oram_storage, Positions \ Copied, a) \in Nat /\ Held(oram_storage, Copied, a) \in Nat
  BY CopiedFacts, HeldFacts DEF RpcType
<1>3. \A a : Live(a) \in Nat /\ Stale(a) \in Nat
  BY <1>1, <1>2 DEF Live, Stale
<1>4. \A k \in Positions : \A a : Count(oram_storage[k], a) \in Nat
  BY CountFacts DEF RpcType
<1>5. /\ Power(2, failures) \in Nat \ {0}
      /\ Power(2, failures + 1) = 2 * Power(2, failures)
      /\ Power(2, 0) = 1
  BY PowerOfTwo, Powers DEF RpcType
<1> QED BY <1>1, <1>2, <1>3, <1>4, <1>5

\* The bucket of the running level: about to be read, or to be replaced.
Here == P(oldLeaf, level)

LEMMA ReadCounts ==
  ASSUME RpcType, ReadPathBucket
  PROVE  /\ Here \in Positions \ Copied /\ Copied' = Copied \cup {Here}
         /\ \A a : /\ Count(stash', a) = Count(stash, a) + Count(oram_storage[Here], a)
                   /\ Live(a)' = Live(a)
                   /\ Stale(a)' = Stale(a) + Count(oram_storage[Here], a)
<1>1. /\ pc = "read" /\ pc' = "read" /\ level \in Levels /\ level' = level + 1
      /\ stash' = stash \o oram_storage[Here]
      /\ UNCHANGED <<oram_storage, oldLeaf>>
  BY SizeAssumption DEF RpcType, ReadPathBucket, Levels, Here
<1>2. \A l \in 0 .. level - 1 : l \in Levels /\ l # level
  BY <1>1, SizeAssumption DEF Levels
<1>3. Here \in Positions
  BY <1>1, PathInStorage DEF RpcType, Here
<1>4. Here \notin Copied
  <2>1. ASSUME NEW l \in 0 .. level - 1, Here = P(oldLeaf, l) PROVE FALSE
    BY <2>1, <1>1, <1>2, LevelsDisjoint DEF RpcType, Here
  <2> QED BY <1>1, <2>1 DEF Copied
<1>5. Copied' = Copied \cup {Here}
  <2>1. 0 .. level' - 1 = (0 .. level - 1) \cup {level}
    BY <1>1 DEF Levels
  <2> QED BY <1>1, <2>1 DEF Copied, Here
<1>6. ASSUME NEW a
      PROVE  /\ Count(stash', a) = Count(stash, a) + Count(oram_storage[Here], a)
             /\ Live(a)' = Live(a)
             /\ Stale(a)' = Stale(a) + Count(oram_storage[Here], a)
  <2> DEFINE n == Count(oram_storage[Here], a)
             K == Positions \ Copied'
  <2>1. Count(stash', a) = Count(stash, a) + n
    BY <1>1, <1>3, CountConcat DEF RpcType
  <2>2. Held(oram_storage, Copied', a) = Held(oram_storage, Copied, a) + n
    BY <1>3, <1>4, <1>5, HeldAdd, CopiedFacts DEF RpcType
  <2>3. Held(oram_storage, K \cup {Here}, a) = Held(oram_storage, K, a) + n
    BY <1>3, <1>5, HeldAdd DEF RpcType
  <2>4. K \cup {Here} = Positions \ Copied
    BY <1>3, <1>4, <1>5
  <2>5. n \in Nat /\ Held(oram_storage, K, a) \in Nat /\ Count(stash, a) \in Nat
    <3>1. K \in SUBSET Positions /\ oram_storage \in [Positions -> Seq(Block)]
      BY DEF RpcType
    <3>2. n \in Nat /\ Count(stash, a) \in Nat
      <4>1. oram_storage[Here] \in Seq(Block) /\ stash \in Seq(Block)
        BY <1>3 DEF RpcType
      <4> QED BY <4>1, CountFacts
    <3> HIDE DEF K, n
    <3> QED BY <3>1, <3>2, HeldFacts
  <2>6. Live(a)' = Count(stash', a) + Held(oram_storage, K, a)
    BY <1>1 DEF Live
  <2>7. Stale(a)' = Held(oram_storage, Copied', a)
    BY <1>1 DEF Stale
  <2>8. Live(a) = Count(stash, a) + Held(oram_storage, K \cup {Here}, a)
    BY <2>4 DEF Live
  <2> HIDE DEF n, K
  <2>9. Live(a)' = Live(a)
    BY <2>1, <2>3, <2>5, <2>6, <2>8
  <2> QED BY <2>1, <2>2, <2>7, <2>9 DEF Stale, n
<1> QED BY <1>3, <1>4, <1>5, <1>6

\* The storage once the bucket of the running level is replaced.
Written == [oram_storage EXCEPT ![Here] = Evicted(level)]

LEMMA WriteBackCounts ==
  ASSUME RpcType, pc = "evict"
  PROVE  /\ Here \in Copied /\ Here \in Positions /\ Written \in [Positions -> Seq(Block)]
         /\ \A a : LET b == Count(Evicted(level), a)
                       s == Count(Erase(stash, Evicted(level)), a)
                       c == Count(oram_storage[Here], a)
                   IN  /\ s \in Nat /\ b \in Nat /\ c \in Nat /\ s + b = Count(stash, a)
                       /\ Held(oram_storage, Positions, a) =
                             Held(oram_storage, Positions \ Copied, a) + Stale(a)
                       /\ Held(Written, (Positions \ Copied) \cup {Here}, a) =
                             Held(oram_storage, Positions \ Copied, a) + b
                       /\ Held(Written, Copied \ {Here}, a) + c = Stale(a)
                       /\ Held(Written, Copied \ {Here}, a) \in Nat
                       /\ Held(Written, Positions, a) + c =
                             Held(oram_storage, Positions \ Copied, a) + b + Stale(a)
                       /\ b # 0 => Here \in Path(position_map[a])
<1> DEFINE e == Evicted(level)
           K == Positions \ Copied
           L == Copied \ {Here}
<1>1. level \in Levels /\ Here \in Positions
  BY PathInStorage DEF RpcType, Here
<1>2. Here \in Copied
  BY <1>1, SizeAssumption DEF Copied, Here, Levels
<1>3. e \in Seq(Block)
  BY WriteBackFacts
<1>4. Written \in [Positions -> Seq(Block)] /\ oram_storage \in [Positions -> Seq(Block)]
  BY <1>1, <1>3 DEF Written, RpcType
<1>5. Written[Here] = e /\ \A k \in Positions \ {Here} : Written[k] = oram_storage[k]
  BY <1>1 DEF Written, RpcType
<1>6. /\ K \in SUBSET Positions /\ L \in SUBSET Positions /\ Here \notin K /\ Here \notin L
      /\ L \cup {Here} = Copied /\ K \cup Copied = Positions /\ K \cap Copied = {}
      /\ (K \cup {Here}) \cup L = Positions /\ (K \cup {Here}) \cap L = {}
      /\ K \cup {Here} \in SUBSET Positions /\ Copied \in SUBSET Positions
  BY <1>1, <1>2, CopiedFacts
<1> HIDE DEF e, K, L
<1>7. ASSUME NEW a
      PROVE  LET b == Count(e, a)
                 s == Count(Erase(stash, e), a)
                 c == Count(oram_storage[Here], a)
             IN  /\ s \in Nat /\ b \in Nat /\ c \in Nat /\ s + b = Count(stash, a)
                 /\ Held(oram_storage, Positions, a) = Held(oram_storage, K, a) + Stale(a)
                 /\ Held(Written, K \cup {Here}, a) = Held(oram_storage, K, a) + b
                 /\ Held(Written, L, a) + c = Stale(a)
                 /\ Held(Written, L, a) \in Nat
                 /\ Held(Written, Positions, a) + c = Held(oram_storage, K, a) + b + Stale(a)
                 /\ b # 0 => Here \in Path(position_map[a])
  <2>1. /\ Count(Erase(stash, e), a) \in Nat /\ Count(e, a) \in Nat
        /\ Count(oram_storage[Here], a) \in Nat
        /\ Count(Erase(stash, e), a) + Count(e, a) = Count(stash, a)
    BY <1>1, <1>3, <1>4, WriteBackFacts, CountFacts DEF e
  <2>2. Held(oram_storage, Positions, a) = Held(oram_storage, K, a) + Stale(a)
    <3>1. Held(oram_storage, K \cup Copied, a) =
             Held(oram_storage, K, a) + Held(oram_storage, Copied, a)
      BY <1>4, <1>6, HeldUnion
    <3> QED BY <3>1, <1>6 DEF Stale
  <2>3. Held(Written, K, a) = Held(oram_storage, K, a)
    BY <1>5, <1>6, HeldSame
  <2>4. Held(Written, L, a) = Held(oram_storage, L, a)
    BY <1>5, <1>6, HeldSame
  <2>5. Held(Written, K \cup {Here}, a) = Held(Written, K, a) + Count(e, a)
    BY ZenonT(60), <1>1, <1>4, <1>5, <1>6, HeldAdd
  <2>6. Stale(a) = Held(oram_storage, L, a) + Count(oram_storage[Here], a)
    BY <1>1, <1>4, <1>6, HeldAdd DEF Stale
  <2>7. Held(Written, Positions, a) = Held(Written, K \cup {Here}, a) + Held(Written, L, a)
    <3>1. Held(Written, (K \cup {Here}) \cup L, a) =
             Held(Written, K \cup {Here}, a) + Held(Written, L, a)
      BY ZenonT(60), <1>4, <1>6, HeldUnion
    <3> QED BY <3>1, <1>6
  <2>8. Held(Written, L, a) \in Nat /\ Held(oram_storage, K, a) \in Nat
    BY <1>4, <1>6, HeldFacts
  <2>9. Count(e, a) # 0 => Here \in Path(position_map[a])
    <3> SUFFICES ASSUME Count(e, a) # 0 PROVE Here \in Path(position_map[a])
      OBVIOUS
    <3>1. PICK i \in DOMAIN e : e[i].index = a
      BY <1>3, CountFacts
    <3>2. Fits(e[i], level)
      BY WriteBackFacts DEF e
    <3> QED BY <3>1, <3>2, <1>1 DEF Fits, Here, Path
  <2> QED BY <2>1, <2>2, <2>3, <2>4, <2>5, <2>6, <2>7, <2>8, <2>9
<1> QED BY <1>1, <1>2, <1>4, <1>7 DEF e, K, L

LEMMA StartCounts ==
  ASSUME RpcType, CountInv, NEW c \in Call, access(c) \/ access_direct(c)
  PROVE  CountInv'
<1>1. /\ pc = "idle" /\ pc' = "read" /\ level' = 0 /\ call' = c
      /\ stash' = stash /\ oram_storage' = oram_storage
      /\ oldLeaf' = position_map[c.index] /\ failures' = failures /\ touched' = touched
  BY DEF access, access_direct, Start, history
<1>2. Copied = {} /\ Copied' = {}
  <2>1. 0 .. 0 - 1 = {}
    OBVIOUS
  <2> QED BY <1>1, <2>1 DEF Copied
<1>3. \A a \in Address : position_map'[a] = position_map[a] \/ a = c.index
  BY CallType DEF access, access_direct, RpcType
<1> SUFFICES ASSUME NEW a \in Address PROVE CountOf(a)'
  BY DEF CountInv
<1>4. LeafOf(a)' = LeafOf(a)
  BY <1>1, <1>3 DEF LeafOf
<1>5. Live(a)' = Live(a) /\ Bound(a)' = Bound(a)
  BY <1>1, <1>2 DEF Live, Bound
<1>6. Reachable(a)' <=> Reachable(a)
  BY <1>1, <1>2, <1>4 DEF Reachable
<1>7. Stale(a)' = 0
  <2>1. Held(oram_storage, {}, a) = 0
    BY HeldFacts DEF RpcType
  <2> QED BY <1>1, <1>2, <2>1 DEF Stale
<1>8. CountOf(a)
  BY DEF CountInv
<1>9. Count(stash, a)' >= 0
  BY <1>1, CountFacts DEF RpcType
<1> QED BY <1>1, <1>5, <1>6, <1>7, <1>8, <1>9 DEF CountOf

LEMMA ReadCountInv ==
  ASSUME RpcType, CountInv, ReadPathBucket
  PROVE  CountInv'
<1> SUFFICES ASSUME NEW a \in Address PROVE CountOf(a)'
  BY DEF CountInv
<1>1. /\ pc = "read" /\ pc' = "read"
      /\ UNCHANGED <<oram_storage, oldLeaf, position_map, call, failures, touched>>
  BY DEF ReadPathBucket, history
<1>2. /\ Here \in Positions \ Copied /\ Copied' = Copied \cup {Here}
      /\ Count(stash', a) = Count(stash, a) + Count(oram_storage[Here], a)
      /\ Live(a)' = Live(a)
      /\ Stale(a)' = Stale(a) + Count(oram_storage[Here], a)
  BY ReadCounts
<1>3. Count(oram_storage[Here], a) \in Nat /\ Count(stash, a) \in Nat /\ Stale(a) \in Nat
  BY <1>2, NumberFacts
<1>4. LeafOf(a)' = LeafOf(a) /\ Bound(a)' = Bound(a)
  BY <1>1 DEF LeafOf, Bound
<1>5. Reachable(a) => Reachable(a)'
  <2>1. CASE Count(stash, a) # 0
    BY <2>1, <1>2, <1>3 DEF Reachable
  <2>2. ASSUME NEW k \in Path(LeafOf(a)) \ Copied, Count(oram_storage[k], a) # 0
        PROVE  Reachable(a)'
    <3>1. CASE k = Here
      BY <3>1, <2>2, <1>2, <1>3 DEF Reachable
    <3>2. CASE k # Here
      BY <3>2, <2>2, <1>1, <1>2, <1>4 DEF Reachable
    <3> QED BY <3>1, <3>2
  <2> QED BY <2>1, <2>2 DEF Reachable
<1>6. CountOf(a)
  BY DEF CountInv
<1>7. Count(stash, a)' = Count(stash', a)
  OBVIOUS
<1> QED BY <1>1, <1>2, <1>3, <1>4, <1>5, <1>6, <1>7 DEF CountOf

\* Serving the request: a block more, or none, and the whole path is copied.
LEMMA ServeCounts ==
  ASSUME RpcType, Serve
  PROVE  /\ pc = "read" /\ pc' = "evict" /\ Copied = Path(oldLeaf) /\ Copied' = Copied
         /\ UNCHANGED <<oram_storage, oldLeaf, position_map, call, failures, touched>>
         /\ Reachable(call.index) <=> Count(stash, call.index) # 0
         /\ \A a \in Address :
              /\ LeafOf(a)' = position_map[a]
              /\ a # call.index => LeafOf(a) = position_map[a]
              /\ Count(stash', a) = Count(stash, a)
                    + (IF call.op = "WRITE" /\ a = call.index /\ Count(stash, a) = 0
                       THEN 1 ELSE 0)
              /\ Live(a)' = Count(stash', a) + Held(oram_storage, Positions \ Copied, a)
              /\ Stale(a)' = Stale(a)
<1>1. /\ pc = "read" /\ level = num_levels /\ pc' = "evict" /\ level' = num_levels - 1
      /\ UNCHANGED <<oram_storage, oldLeaf, position_map, call, failures, touched>>
  BY DEF Serve
<1>2. Copied = Path(oldLeaf) /\ Copied' = Copied
  BY <1>1 DEF Copied, Path, Levels
<1>3. Reachable(call.index) <=> Count(stash, call.index) # 0
  <2>1. Path(LeafOf(call.index)) \ Copied = {}
    BY <1>1, <1>2 DEF LeafOf
  <2> QED BY <2>1 DEF Reachable
<1>4. ASSUME NEW a \in Address
      PROVE  Count(stash', a) = Count(stash, a)
                + (IF call.op = "WRITE" /\ a = call.index /\ Count(stash, a) = 0 THEN 1 ELSE 0)
  <2>1. CASE ServeRead
    <3>1. stash' = stash /\ call.op = "READ" /\ Count(stash, a) \in Nat
      BY <2>1, NumberFacts DEF ServeRead
    <3> QED BY <3>1
  <2>2. CASE ServeWrite
    <3> DEFINE i == Find(stash, call.index)
               w == [index |-> call.index, data |-> call.data]
    <3>1. call.op = "WRITE" /\ w \in Block /\ stash \in Seq(Block) /\ Count(stash, a) \in Nat
      BY <2>2, CallType, NumberFacts DEF RpcType, ServeWrite
    <3>2. i = 0 <=> Count(stash, call.index) = 0
      BY <3>1, FindFirst
    <3>3. CASE i = 0
      <4>1. stash' = Append(stash, w)
        BY <2>2, <3>3 DEF ServeWrite
      <4>2. Count(Append(stash, w), a) = Count(stash, a) + (IF w.index = a THEN 1 ELSE 0)
        BY <3>1, CountAppend
      <4>3. w.index = call.index
        OBVIOUS
      <4>4. Count(stash', a) = Count(stash, a) + (IF call.index = a THEN 1 ELSE 0)
        BY <4>1, <4>2, <4>3
      <4> HIDE DEF w, i
      <4> QED BY <4>4, <3>1, <3>2, <3>3
    <3>4. CASE i # 0
      <4>1. stash' = [stash EXCEPT ![i].data = call.data]
        BY <2>2, <3>4 DEF ServeWrite
      <4>2. i \in 1 .. Len(stash) /\ DOMAIN stash = 1 .. Len(stash)
        BY <3>1, <3>4, FindFirst, LenProperties
      <4>3. stash[i] \in Block
        BY <3>1, <4>2, ElementOfSeq
      <4>4. /\ Len(stash') = Len(stash)
            /\ \A j \in 1 .. Len(stash) : stash'[j].index = stash[j].index
        <5>1. stash' = [stash EXCEPT ![i] = [stash[i] EXCEPT !.data = call.data]]
          BY <4>1
        <5>2. [stash[i] EXCEPT !.data = call.data].index = stash[i].index
          BY <4>3 DEF Block
        <5>3. Len(stash') = Len(stash)
          BY <3>1, <4>2, <5>1, ExceptSeq
        <5>4. \A j \in 1 .. Len(stash) : stash'[j] = IF j = i THEN [stash[i] EXCEPT !.data = call.data]
                                                      ELSE stash[j]
          BY <4>2, <5>1
        <5> HIDE DEF i
        <5> QED BY <5>2, <5>3, <5>4
      <4>5. Count(stash', a) = Count(stash, a)
        BY <4>4 DEF Count, Upto
      <4> HIDE DEF i, w
      <4> QED BY <4>5, <3>1, <3>2, <3>4
    <3> QED BY <3>3, <3>4
  <2> QED BY <2>1, <2>2 DEF Serve
<1>5. ASSUME NEW a \in Address
      PROVE  /\ LeafOf(a)' = position_map[a]
             /\ a # call.index => LeafOf(a) = position_map[a]
             /\ Live(a)' = Count(stash', a) + Held(oram_storage, Positions \ Copied, a)
             /\ Stale(a)' = Stale(a)
  BY <1>1, <1>2 DEF LeafOf, Live, Stale
<1> QED BY <1>1, <1>2, <1>3, <1>4, <1>5

LEMMA ServeCountInv ==
  ASSUME RpcType, CountInv, Serve
  PROVE  CountInv'
<1> SUFFICES ASSUME NEW a \in Address PROVE CountOf(a)'
  BY DEF CountInv
<1> DEFINE n == IF call.op = "WRITE" /\ a = call.index /\ Count(stash, a) = 0 THEN 1 ELSE 0
           h == Held(oram_storage, Positions \ Copied, a)
<1>1. /\ pc = "read" /\ pc' = "evict" /\ Copied = Path(oldLeaf) /\ Copied' = Copied
      /\ UNCHANGED <<oram_storage, oldLeaf, position_map, call, failures, touched>>
      /\ Reachable(call.index) <=> Count(stash, call.index) # 0
  BY ServeCounts
<1>2. /\ LeafOf(a)' = position_map[a] /\ (a # call.index => LeafOf(a) = position_map[a])
      /\ Count(stash', a) = Count(stash, a) + n
      /\ Live(a)' = Count(stash', a) + h /\ Stale(a)' = Stale(a)
  BY ServeCounts
<1>3. /\ Count(stash, a) \in Nat /\ h \in Nat /\ Stale(a) \in Nat
      /\ Power(2, failures) \in Nat \ {0} /\ Live(a) = Count(stash, a) + h
  BY NumberFacts DEF Live
<1>4. Reachable(a) => Reachable(a)'
  <2>1. CASE Count(stash, a) # 0
    BY <2>1, <1>2, <1>3 DEF Reachable
  <2>2. CASE Count(stash, a) = 0 /\ a # call.index
    <3>1. LeafOf(a)' = LeafOf(a)
      BY <2>2, <1>2
    <3> QED BY <2>2, <3>1, <1>1 DEF Reachable
  <2> QED BY <2>1, <2>2, <1>1
<1>5. n = 1 => ~Reachable(a) /\ Reachable(a)'
  <2> SUFFICES ASSUME n = 1 PROVE ~Reachable(a) /\ Reachable(a)'
    OBVIOUS
  <2>1. a = call.index /\ Count(stash, a) = 0
    OBVIOUS
  <2>2. Count(stash', a) # 0
    BY <2>1, <1>2
  <2> QED BY <2>1, <2>2, <1>1 DEF Reachable
<1>6. n \in {0, 1}
  OBVIOUS
<1>7. ~Reachable(a) => Count(stash, a) = 0
  BY DEF Reachable
<1>8. Bound(a)' = Bound(a) /\ Bound(a) <= Power(2, failures) /\ Bound(a) \in Nat
  BY <1>1, <1>3 DEF Bound
<1>9. CountOf(a)
  BY DEF CountInv
<1> HIDE DEF n, h
<1>10. Live(a)' <= Bound(a)' /\ (~Reachable(a)' => Live(a)' <= Bound(a)' - 1)
  BY <1>2, <1>3, <1>4, <1>5, <1>6, <1>8, <1>9 DEF CountOf
<1>11. Stale(a)' <= Power(2, failures') /\ (~Reachable(a)' => Stale(a)' = 0)
  BY <1>1, <1>2, <1>3, <1>4, <1>7, <1>8, <1>9 DEF CountOf
<1> QED BY <1>1, <1>10, <1>11 DEF CountOf

LEMMA EvictCounts ==
  ASSUME RpcType, EvictBucket
  PROVE  /\ Here \in Copied /\ Here \in Positions
         /\ Copied' = Copied \ {Here} /\ (pc' = "idle" => Copied' = {})
         /\ \A a : Live(a)' = Live(a)
<1> DEFINE e == Evicted(level)
<1>1. /\ pc = "evict" /\ pc' \in {"evict", "idle"}
      /\ stash' = Erase(stash, e) /\ oram_storage' = Written
      /\ UNCHANGED oldLeaf
  BY DEF EvictBucket, NextLevel, Written, Here
<1>2. Copied' = Copied \ {Here} /\ (pc' = "idle" => Copied' = {})
  <2>1. level \in Levels /\ Copied = {P(oldLeaf, l) : l \in 0 .. level}
    BY <1>1 DEF RpcType, Copied
  <2>2. \A l \in 0 .. level : l \in Levels
    BY <2>1, SizeAssumption DEF Levels
  <2>3. CASE level > 0 /\ level' = level - 1 /\ pc' = pc
    <3>1. 0 .. level = (0 .. level - 1) \cup {level}
      BY <2>1, <2>3 DEF Levels
    <3>2. \A l \in 0 .. level - 1 : P(oldLeaf, l) # Here
      <4> SUFFICES ASSUME NEW l \in 0 .. level - 1, P(oldLeaf, l) = Here PROVE FALSE
        OBVIOUS
      <4>1. l \in Levels /\ l # level
        BY <2>1, SizeAssumption DEF Levels
      <4> QED BY <4>1, <2>1, LevelsDisjoint DEF Here, RpcType
    <3>3. Copied' = {P(oldLeaf, l) : l \in 0 .. level - 1}
      BY <1>1, <2>3 DEF Copied
    <3> QED BY <2>1, <2>3, <3>1, <3>2, <3>3, <1>1 DEF Here
  <2>4. CASE level = 0 /\ pc' = "idle"
    <3>1. 0 .. level = {level}
      BY <2>4
    <3> QED BY <2>1, <2>4, <3>1 DEF Copied, Here
  <2> QED BY <1>1, <2>3, <2>4 DEF EvictBucket, NextLevel
<1>3. ASSUME NEW a PROVE Live(a)' = Live(a)
  <2> DEFINE b == Count(e, a)
             h == Held(oram_storage, Positions \ Copied, a)
  <2>1. /\ Here \in Copied /\ Here \in Positions
        /\ Count(stash', a) \in Nat /\ b \in Nat /\ Count(stash', a) + b = Count(stash, a)
        /\ Held(Written, (Positions \ Copied) \cup {Here}, a) = h + b
    BY <1>1, WriteBackCounts
  <2>2. Positions \ Copied' = (Positions \ Copied) \cup {Here}
    BY <1>2, <2>1
  <2>3. Live(a)' = Count(stash', a) + (h + b) /\ Live(a) = Count(stash, a) + h
    BY <1>1, <2>1, <2>2 DEF Live
  <2>4. h \in Nat
    BY NumberFacts
  <2> HIDE DEF b, h, e
  <2> QED BY <2>1, <2>3, <2>4
<1>4. Here \in Copied /\ Here \in Positions
  BY <1>1, WriteBackCounts
<1> QED BY <1>2, <1>3, <1>4

LEMMA EvictCountInv ==
  ASSUME RpcType, CountInv, EvictBucket
  PROVE  CountInv'
<1> SUFFICES ASSUME NEW a \in Address PROVE CountOf(a)'
  BY DEF CountInv
<1> DEFINE e == Evicted(level)
           b == Count(e, a)
<1>1. /\ pc = "evict" /\ pc' \in {"evict", "idle"}
      /\ stash' = Erase(stash, e) /\ oram_storage' = Written
      /\ UNCHANGED <<position_map, oldLeaf, call, failures, touched>>
  BY DEF EvictBucket, NextLevel, Written, Here
<1>2. Copied' = Copied \ {Here} /\ (pc' = "idle" => Copied' = {})
  BY EvictCounts
<1>3. /\ Here \in Copied /\ Here \in Positions
      /\ Count(stash', a) \in Nat /\ b \in Nat /\ Count(oram_storage[Here], a) \in Nat
      /\ Count(stash', a) + b = Count(stash, a)
      /\ Held(Written, Copied \ {Here}, a) + Count(oram_storage[Here], a) = Stale(a)
      /\ Held(Written, Copied \ {Here}, a) \in Nat
      /\ b # 0 => Here \in Path(position_map[a])
  BY <1>1, WriteBackCounts
<1>6. Stale(a)' = Held(Written, Copied \ {Here}, a)
  BY <1>1, <1>2 DEF Stale
<1>7. Bound(a)' = Bound(a)
  BY <1>1 DEF Bound
<1>8. LeafOf(a) = position_map[a] /\ LeafOf(a)' = position_map[a]
  BY <1>1 DEF LeafOf
<1>9. Written[Here] = e /\ \A k \in Positions \ {Here} : Written[k] = oram_storage[k]
  BY <1>3 DEF Written, RpcType
<1>10. Reachable(a) => Reachable(a)'
  <2>1. CASE Count(stash', a) # 0
    BY <2>1 DEF Reachable
  <2>2. CASE b # 0
    BY <2>2, <1>1, <1>2, <1>3, <1>8, <1>9 DEF Reachable
  <2>3. CASE Count(stash', a) = 0 /\ b = 0
    <3> SUFFICES ASSUME Reachable(a) PROVE Reachable(a)'
      OBVIOUS
    <3>1. Count(stash, a) = 0
      BY <2>3, <1>3
    <3>2. PICK k \in Path(position_map[a]) \ Copied : Count(oram_storage[k], a) # 0
      BY <3>1, <1>8 DEF Reachable
    <3>3. k \in Positions /\ k # Here
      BY <3>2, <1>3, PathInStorage DEF Path, RpcType
    <3> QED BY <3>2, <3>3, <1>1, <1>2, <1>8, <1>9 DEF Reachable
  <2> QED BY <2>1, <2>2, <2>3
<1>11. CountOf(a)
  BY DEF CountInv
<1>12. Power(2, failures) \in Nat /\ Stale(a) \in Nat /\ failures' = failures
  BY <1>1, NumberFacts
<1> HIDE DEF b, e
<1>13. Live(a)' = Live(a)
  BY EvictCounts
<1>14. Stale(a)' <= Stale(a) /\ Stale(a)' \in Nat
  BY <1>3, <1>6, <1>12
<1>15. Live(a)' <= Bound(a)' /\ (~Reachable(a)' => Live(a)' <= Bound(a)' - 1)
  BY <1>7, <1>10, <1>11, <1>13 DEF CountOf
<1>16. Stale(a)' <= Power(2, failures') /\ (~Reachable(a)' => Stale(a)' = 0)
  BY <1>1, <1>10, <1>11, <1>12, <1>14 DEF CountOf
<1> QED BY <1>1, <1>15, <1>16 DEF CountOf

\* What a failed access did not have in its hands is where it was.
LEMMA Untouched ==
  ASSUME RpcType, Throw, NEW a \in Address \ touched'
  PROVE  /\ a \notin touched /\ a # call.index
         /\ Count(stash, a) = 0 /\ Stale(a) = 0
         /\ \A k \in Path(oldLeaf) : Count(oram_storage[k], a) = 0
<1>1. a \notin touched /\ a \notin Handled
  BY DEF Throw
<1>2. \A k \in Path(oldLeaf) : oram_storage[k] \in Seq(Block)
  BY CopiedFacts DEF RpcType
<1>3. Count(stash, a) = 0
  BY <1>1, CountFacts DEF Handled, Indices, RpcType
<1>4. \A k \in Path(oldLeaf) : Count(oram_storage[k], a) = 0
  BY <1>1, <1>2, CountFacts DEF Handled, Indices
<1>5. Stale(a) = 0
  BY <1>4, CopiedFacts, HeldFacts DEF Stale, RpcType
<1> QED BY <1>1, <1>3, <1>4, <1>5 DEF Handled

LEMMA ThrowFacts ==
  ASSUME RpcType, Throw
  PROVE  /\ failures' = failures + 1 /\ pc' = "idle" /\ Copied' = {}
         /\ touched \subseteq touched'
         /\ \A a \in Address :
               /\ LeafOf(a)' = position_map[a]'
               /\ Bound(a)' = IF a \in touched' THEN 2 * Power(2, failures) ELSE 1
               /\ Live(a)' = Count(stash', a) + Held(oram_storage', Positions, a)
<1>1. /\ failures' = failures + 1 /\ pc' = "idle" /\ touched \subseteq touched'
  BY DEF Throw
<1>2. Copied' = {}
  BY <1>1 DEF Copied
<1>3. Power(2, failures + 1) = 2 * Power(2, failures)
  BY NumberFacts
<1>4. Positions \ {} = Positions
  OBVIOUS
<1> QED BY <1>1, <1>2, <1>3, <1>4 DEF LeafOf, Bound, Live

LEMMA ReadFailsCountInv ==
  ASSUME RpcType, CountInv, ReadBucketFails
  PROVE  CountInv'
<1> SUFFICES ASSUME NEW a \in Address PROVE CountOf(a)'
  BY DEF CountInv
<1>1. /\ pc = "read" /\ Throw
      /\ UNCHANGED <<position_map, stash, oram_storage, call>>
  BY DEF ReadBucketFails
<1>2. /\ pc' = "idle" /\ Copied' = {} /\ LeafOf(a)' = position_map[a]
      /\ Bound(a)' = IF a \in touched' THEN 2 * Power(2, failures) ELSE 1
      /\ Live(a)' = Count(stash, a) + Held(oram_storage, Positions, a)
  BY <1>1, ThrowFacts
<1>3. Live(a)' = Live(a) + Stale(a)
  <2>1. /\ Positions \ Copied \in SUBSET Positions /\ Copied \in SUBSET Positions
        /\ (Positions \ Copied) \cup Copied = Positions
        /\ (Positions \ Copied) \cap Copied = {}
    BY CopiedFacts
  <2>2. Held(oram_storage, (Positions \ Copied) \cup Copied, a) =
           Held(oram_storage, Positions \ Copied, a) + Held(oram_storage, Copied, a)
    BY ZenonT(60), <2>1, HeldUnion DEF RpcType
  <2>3. Live(a) = Count(stash, a) + Held(oram_storage, Positions \ Copied, a)
    BY DEF Live
  <2>4. /\ Count(stash, a) \in Nat /\ Stale(a) \in Nat
        /\ Held(oram_storage, Positions \ Copied, a) \in Nat
    BY NumberFacts
  <2>5. Stale(a) = Held(oram_storage, Copied, a)
    BY DEF Stale
  <2>6. Held(oram_storage, Positions, a) =
           Held(oram_storage, Positions \ Copied, a) + Stale(a)
    BY <2>1, <2>2, <2>5
  <2> QED BY <1>2, <2>3, <2>4, <2>6
<1>4. /\ Count(stash, a) \in Nat /\ Stale(a) \in Nat /\ Live(a) \in Nat
      /\ Power(2, failures) \in Nat \ {0} /\ Count(stash, a) <= Live(a)
  <2>1. /\ Count(stash, a) \in Nat /\ Stale(a) \in Nat /\ Live(a) \in Nat
        /\ Held(oram_storage, Positions \ Copied, a) \in Nat
        /\ Power(2, failures) \in Nat \ {0}
    BY NumberFacts
  <2>2. Live(a) = Count(stash, a) + Held(oram_storage, Positions \ Copied, a)
    BY DEF Live
  <2> QED BY <2>1, <2>2
<1>5. CountOf(a)
  BY DEF CountInv
<1>6. Bound(a) <= Power(2, failures) /\ Bound(a) \in Nat
  BY <1>4 DEF Bound
<1>7. CASE a \in touched'
  <2>1. ~Reachable(a)' => Count(stash, a) = 0
    BY <1>1 DEF Reachable
  <2> QED BY <1>1, <1>2, <1>3, <1>4, <1>5, <1>6, <1>7, <2>1 DEF CountOf
<1>8. CASE a \notin touched'
  <2>1. a \notin touched /\ a # call.index /\ Stale(a) = 0
    BY <1>1, <1>8, Untouched
  <2>2. LeafOf(a) = position_map[a]
    BY <2>1 DEF LeafOf
  <2>3. Reachable(a) => Reachable(a)'
    BY <1>1, <1>2, <2>2 DEF Reachable
  <2>4. Bound(a) = 1 /\ Bound(a)' = 1
    BY <1>2, <1>8, <2>1 DEF Bound
  <2> QED BY <1>2, <1>3, <1>4, <1>5, <2>1, <2>3, <2>4 DEF CountOf
<1> QED BY <1>7, <1>8

LEMMA WriteFailsCountInv ==
  ASSUME RpcType, CountInv, WriteBucketFails
  PROVE  CountInv'
<1> SUFFICES ASSUME NEW a \in Address PROVE CountOf(a)'
  BY DEF CountInv
<1> DEFINE b == Count(Evicted(level), a)
           s == Count(stash', a)
           c == Count(oram_storage[Here], a)
           h == Held(oram_storage, Positions \ Copied, a)
<1>1. /\ pc = "evict" /\ Throw
      /\ stash' = Erase(stash, Evicted(level))
      /\ oram_storage' \in {oram_storage, Written}
      /\ UNCHANGED <<position_map, call>>
  BY DEF WriteBucketFails, Written, Here
<1>2. /\ pc' = "idle" /\ Copied' = {} /\ LeafOf(a)' = position_map[a]
      /\ Bound(a)' = IF a \in touched' THEN 2 * Power(2, failures) ELSE 1
      /\ Live(a)' = s + Held(oram_storage', Positions, a)
  BY <1>1, ThrowFacts
<1>3. /\ Here \in Copied /\ Here \in Positions
      /\ s \in Nat /\ b \in Nat /\ c \in Nat /\ s + b = Count(stash, a)
      /\ Held(oram_storage, Positions, a) = h + Stale(a)
      /\ Held(Written, Positions, a) + c = h + b + Stale(a)
      /\ c <= Stale(a)
      /\ b # 0 => Here \in Path(position_map[a])
  <2>1. /\ Here \in Copied /\ Here \in Positions
        /\ s \in Nat /\ b \in Nat /\ c \in Nat /\ s + b = Count(stash, a)
        /\ Held(oram_storage, Positions, a) = h + Stale(a)
        /\ Held(Written, Positions, a) + c = h + b + Stale(a)
        /\ Held(Written, Copied \ {Here}, a) + c = Stale(a)
        /\ Held(Written, Copied \ {Here}, a) \in Nat
        /\ b # 0 => Here \in Path(position_map[a])
    BY <1>1, WriteBackCounts
  <2> HIDE DEF b, s, c, h
  <2>2. c <= Stale(a)
    BY <2>1
  <2> QED BY <2>1, <2>2
<1>4. /\ h \in Nat /\ Stale(a) \in Nat /\ Live(a) = Count(stash, a) + h
      /\ Power(2, failures) \in Nat \ {0}
  BY NumberFacts DEF Live
<1>5. Written[Here] = Evicted(level) /\ \A k \in Positions \ {Here} : Written[k] = oram_storage[k]
  BY <1>3 DEF Written, RpcType
<1>6. CountOf(a)
  BY DEF CountInv
<1>7. Bound(a) <= Power(2, failures) /\ Bound(a) \in Nat
  BY <1>4 DEF Bound
<1>8. LeafOf(a) = position_map[a] /\ Path(position_map[a]) \subseteq Positions
  BY <1>1, PathInStorage DEF LeafOf, Path, RpcType
<1>9. \/ Live(a)' = Live(a) + Stale(a) - b
      \/ oram_storage' = Written /\ Live(a)' = Live(a) + Stale(a) - c
  <2>1. CASE oram_storage' = oram_storage
    <3>1. Live(a)' = s + (h + Stale(a))
      BY <2>1, <1>2, <1>3
    <3> HIDE DEF b, s, c, h
    <3> QED BY <3>1, <1>3, <1>4
  <2>2. CASE oram_storage' = Written
    <3>1. Live(a)' = s + Held(Written, Positions, a)
      BY <2>2, <1>2
    <3>2. Held(Written, Positions, a) = h + b + Stale(a) - c
      <4>1. Held(Written, Positions, a) \in Nat
        BY WriteBackCounts, HeldFacts, <1>1
      <4> HIDE DEF b, s, c, h
      <4> QED BY <4>1, <1>3, <1>4
    <3> HIDE DEF b, s, c, h
    <3> QED BY <2>2, <3>1, <3>2, <1>3, <1>4
  <2> QED BY <1>1, <2>1, <2>2
\* If the block was within reach, it still is, or it is lost with the bucket.
<1>10. Reachable(a) /\ ~Reachable(a)' => oram_storage' = oram_storage /\ b # 0
  <2> SUFFICES ASSUME Reachable(a), ~Reachable(a)' PROVE oram_storage' = oram_storage /\ b # 0
    OBVIOUS
  <2>1. s = 0 /\ \A k \in Path(position_map[a]) : Count(oram_storage'[k], a) = 0
    BY <1>2 DEF Reachable
  <2>2. ASSUME NEW k \in Path(position_map[a]) \ Copied, Count(oram_storage[k], a) # 0
        PROVE  FALSE
    <3>1. oram_storage'[k] = oram_storage[k]
      BY <1>1, <1>3, <1>5, <1>8
    <3> QED BY <2>1, <2>2, <3>1
  <2>3. b # 0
    BY <2>1, <2>2, <1>3, <1>8 DEF Reachable
  <2>4. oram_storage' # Written
    BY <2>1, <2>3, <1>3, <1>5
  <2> QED BY <1>1, <2>3, <2>4
<1> HIDE DEF b, s, c, h
<1>11. CASE a \in touched'
  <2>1. Live(a)' <= Live(a) + Stale(a)
    BY <1>3, <1>4, <1>9
  <2>2. Live(a) <= Power(2, failures) /\ Stale(a) <= Power(2, failures)
    BY <1>1, <1>6, <1>7, <1>4, <1>3 DEF CountOf
  <2>3. ~Reachable(a)' => Live(a)' <= 2 * Power(2, failures) - 1
    <3>1. CASE ~Reachable(a)
      <4>1. Stale(a) = 0
        BY <3>1, <1>1, <1>6 DEF CountOf
      <4> QED BY <4>1, <2>1, <2>2, <1>3, <1>4, <1>9
    <3>2. CASE Reachable(a) /\ ~Reachable(a)'
      <4>1. b # 0 /\ oram_storage' = oram_storage
        BY <3>2, <1>10
      <4>2. Live(a)' = Live(a) + Stale(a) - b
        <5>1. Live(a)' = s + (h + Stale(a))
          BY <4>1, <1>2, <1>3 DEF s
        <5> QED BY <5>1, <1>3, <1>4
      <4> QED BY <4>1, <4>2, <2>2, <1>3, <1>4
    <3> QED BY <3>1, <3>2
  <2> QED BY <1>2, <1>3, <1>4, <1>9, <1>11, <2>1, <2>2, <2>3 DEF CountOf
<1>12. CASE a \notin touched'
  <2>1. a \notin touched /\ Stale(a) = 0 /\ Count(stash, a) = 0
    BY <1>1, <1>12, Untouched
  <2>2. b = 0 /\ c = 0
    BY <2>1, <1>3
  <2>3. Live(a)' = Live(a)
    BY <2>1, <2>2, <1>3, <1>4, <1>9
  <2>4. Bound(a) = 1 /\ Bound(a)' = 1
    BY <1>2, <1>12, <2>1 DEF Bound
  <2> QED BY <1>2, <1>6, <1>10, <2>2, <2>3, <2>4 DEF CountOf
<1> QED BY <1>11, <1>12

LEMMA InitCount == Init => CountInv
<1> SUFFICES ASSUME Init, NEW a \in Address PROVE CountOf(a)
  BY DEF CountInv
<1>1. RpcType
  BY InitType
<1>2. pc = "idle" /\ stash = <<>> /\ \A k \in Positions : oram_storage[k] = <<>>
  BY DEF Init
<1>3. Count(<<>>, a) = 0
  <2>1. <<>> \in Seq(Block) /\ DOMAIN <<>> = {}
    BY EmptySeq
  <2> QED BY <2>1, CountFacts
<1>4. Held(oram_storage, Positions \ Copied, a) = 0
  <2>1. Positions \ Copied \in SUBSET Positions
    OBVIOUS
  <2> QED BY <1>1, <1>2, <1>3, <2>1, HeldFacts DEF RpcType
<1>5. Live(a) = 0
  BY <1>2, <1>3, <1>4 DEF Live
<1>6. Bound(a) = 1
  BY DEF Bound, Init
<1> QED BY <1>2, <1>5, <1>6 DEF CountOf

LEMMA NextCount == RpcType /\ CountInv /\ [Next]_vars => CountInv'
<1> SUFFICES ASSUME RpcType, CountInv, [Next]_vars PROVE CountInv'
  OBVIOUS
<1>1. CASE UNCHANGED vars
  BY ZenonT(60), <1>1 DEF vars, memVars, ctlVars, history, CountInv, CountOf, Live, Stale, Bound,
              Reachable, LeafOf, Copied
<1> QED BY <1>1, StartCounts, ReadCountInv, ServeCountInv, EvictCountInv, ReadFailsCountInv,
           WriteFailsCountInv DEF Next

LEMMA PlacesCount ==
  ASSUME RpcType, NEW a
  PROVE  Cardinality(Places(a)) = Count(stash, a) + Held(oram_storage, Positions, a)
<1> DEFINE c == [k \in {-1} |-> stash]
           A == Spots(c, -1, a)
           B == Within(oram_storage, Positions, a)
<1>1. IsFiniteSet(A) /\ Cardinality(A) = Count(stash, a)
  BY SpotsCount DEF RpcType
<1>2. IsFiniteSet(B) /\ Cardinality(B) = Held(oram_storage, Positions, a)
  BY HeldFacts DEF RpcType, Held
<1>3. A \cap B = {}
  <2> SUFFICES ASSUME NEW x \in A, x \in B PROVE FALSE
    OBVIOUS
  <2>1. x[1] = -1
    BY DEF Spots
  <2>2. PICK k \in Positions : x \in Spots(oram_storage, k, a)
    BY DEF Within
  <2>3. x[1] = k
    BY <2>2 DEF Spots
  <2>4. -1 \notin Positions
    BY DEF Positions
  <2> QED BY <2>1, <2>3, <2>4
<1>4. Places(a) = A \cup B
  <2>1. A = {<<-1, i>> : i \in {j \in DOMAIN stash : stash[j].index = a}}
    BY LenProperties DEF Spots, Upto, RpcType
  <2>2. \A k \in Positions : Spots(oram_storage, k, a) =
           {<<k, i>> : i \in {j \in DOMAIN oram_storage[k] : oram_storage[k][j].index = a}}
    BY LenProperties DEF Spots, Upto, RpcType
  <2>3. B = UNION {{<<k, i>> : i \in {j \in DOMAIN oram_storage[k] :
                                        oram_storage[k][j].index = a}} : k \in Positions}
    BY <2>2 DEF Within
  <2> HIDE DEF A, B
  <2> QED BY <2>1, <2>3 DEF Places
<1>5. Cardinality(A) \in Nat /\ Cardinality(B) \in Nat
  BY <1>1, <1>2, FS_CardinalityType
<1>6. Cardinality(A \cup B) = Cardinality(A) + Cardinality(B) - Cardinality(A \cap B)
  <2> HIDE DEF A, B
  <2> QED BY <1>1, <1>2, FS_Union
<1>7. Cardinality(A \cap B) = 0
  BY <1>3, FS_EmptySet
<1> HIDE DEF A, B
<1> QED BY <1>1, <1>2, <1>4, <1>5, <1>6, <1>7

LEMMA BoundedFromCount == RpcType /\ CountInv => CopiesBounded
<1> SUFFICES ASSUME RpcType, CountInv, pc = "idle", NEW a \in Address
             PROVE  Cardinality(Places(a)) <= Power(2, failures)
  BY DEF CopiesBounded
<1>1. Copied = {} /\ Positions \ {} = Positions
  BY CopiedFacts
<1>2. Live(a) = Cardinality(Places(a))
  BY <1>1, PlacesCount DEF Live
<1>3. Power(2, failures) \in Nat \ {0} /\ Live(a) \in Nat
  BY NumberFacts
<1>4. Live(a) <= Bound(a)
  BY DEF CountInv, CountOf
<1> QED BY <1>2, <1>3, <1>4 DEF Bound

LEMMA CountHolds == Spec => [](RpcType /\ CountInv)
<1>1. RpcType /\ CountInv /\ [Next]_vars => (RpcType /\ CountInv)'
  BY NextType, NextCount
<1> QED BY InitType, InitCount, <1>1, PTL DEF Spec

(* Between two accesses an address has no more blocks than 2^failures, the *)
(* copies in the stash and in every bucket counted.                        *)
THEOREM CopiesBoundedHolds == Spec => []CopiesBounded
  BY CountHolds, BoundedFromCount, PTL

(***************************************************************************)
(* What the blocks hold.                                                   *)
(***************************************************************************)
LEMMA SetsOf ==
  ASSUME NEW s \in Seq(Block)
  PROVE  /\ Sets(s) \in SUBSET Block
         /\ \A a : Count(s, a) = 0 <=> \A b \in Sets(s) : b.index # a
         /\ \A a : \A b, c \in Sets(s) :
               Count(s, a) <= 1 /\ b.index = a /\ c.index = a => b = c
<1>1. DOMAIN s = 1 .. Len(s) /\ \A i \in 1 .. Len(s) : s[i] \in Block
  BY LenProperties, ElementOfSeq
<1>2. Sets(s) \in SUBSET Block
  BY <1>1 DEF Sets
<1>3. \A a : Count(s, a) = 0 <=> \A b \in Sets(s) : b.index # a
  BY CountFacts DEF Sets
<1>4. ASSUME NEW a, NEW b \in Sets(s), NEW c \in Sets(s),
             Count(s, a) <= 1, b.index = a, c.index = a
      PROVE  b = c
  <2>1. PICK i \in DOMAIN s, j \in DOMAIN s : b = s[i] /\ c = s[j]
    BY DEF Sets
  <2> QED BY <1>4, <2>1, CountOne
<1> QED BY <1>2, <1>3, <1>4

LEMMA SetsConcat ==
  ASSUME NEW s \in Seq(Block), NEW t \in Seq(Block)
  PROVE  Sets(s \o t) = Sets(s) \cup Sets(t)
<1> DEFINE u == s \o t
           m == Len(s)
           n == Len(t)
<1>1. /\ m \in Nat /\ n \in Nat /\ DOMAIN u = 1 .. m + n
      /\ DOMAIN s = 1 .. m /\ DOMAIN t = 1 .. n
      /\ \A i \in 1 .. m + n : u[i] = IF i <= m THEN s[i] ELSE t[i - m]
  BY LenProperties, ConcatProperties
<1> HIDE DEF u, m, n
<1>2. ASSUME NEW x \in Sets(u) PROVE x \in Sets(s) \cup Sets(t)
  <2>1. PICK i \in 1 .. m + n : x = u[i]
    BY <1>1 DEF Sets
  <2>2. CASE i <= m
    BY <1>1, <2>1, <2>2 DEF Sets
  <2>3. CASE i > m
    <3>1. i - m \in 1 .. n /\ x = t[i - m]
      BY <1>1, <2>1, <2>3
    <3> QED BY <1>1, <3>1 DEF Sets
  <2> QED BY <1>1, <2>2, <2>3
<1>3. ASSUME NEW x \in Sets(s) PROVE x \in Sets(u)
  <2>1. PICK i \in 1 .. m : x = s[i]
    BY <1>1 DEF Sets
  <2>2. i \in 1 .. m + n /\ u[i] = x
    BY <1>1, <2>1
  <2> QED BY <1>1, <2>2 DEF Sets
<1>4. ASSUME NEW x \in Sets(t) PROVE x \in Sets(u)
  <2>1. PICK i \in 1 .. n : x = t[i]
    BY <1>1 DEF Sets
  <2>2. m + i \in 1 .. m + n /\ u[m + i] = x
    BY <1>1, <2>1
  <2> QED BY <1>1, <2>2 DEF Sets
<1> QED BY <1>2, <1>3, <1>4 DEF u

\* What a WRITE makes of the stash.
LEMMA ServeWriteSets ==
  ASSUME RpcType, ServeWrite
  PROVE  LET w == [index |-> call.index, data |-> call.data]
         IN  /\ w \in Sets(stash') /\ w \in Block
             /\ Sets(stash') \subseteq Sets(stash) \cup {w}
             /\ \A b \in Sets(stash) : b.index # call.index => b \in Sets(stash')
<1> DEFINE i == Find(stash, call.index)
           w == [index |-> call.index, data |-> call.data]
<1>1. call.op = "WRITE" /\ w \in Block /\ stash \in Seq(Block)
  BY CallType DEF RpcType, ServeWrite
<1>2. DOMAIN stash = 1 .. Len(stash) /\ Len(stash) \in Nat
  BY <1>1, LenProperties
<1>3. CASE i = 0
  <2>1. stash' = Append(stash, w)
    BY <1>3 DEF ServeWrite
  <2> HIDE DEF w, i
  <2>2. /\ DOMAIN stash' = 1 .. Len(stash) + 1 /\ stash'[Len(stash) + 1] = w
        /\ \A j \in 1 .. Len(stash) : stash'[j] = stash[j]
    BY <1>1, <1>2, <2>1, AppendProperties, LenProperties
  <2>3. ASSUME NEW x \in Sets(stash') PROVE x \in Sets(stash) \cup {w}
    <3>1. PICK j \in 1 .. Len(stash) + 1 : x = stash'[j]
      BY <2>2 DEF Sets
    <3>2. j = Len(stash) + 1 \/ j \in 1 .. Len(stash)
      BY <1>2
    <3> QED BY <1>2, <2>2, <3>1, <3>2 DEF Sets
  <2>4. ASSUME NEW x \in Sets(stash) PROVE x \in Sets(stash')
    <3>1. PICK j \in 1 .. Len(stash) : x = stash[j]
      BY <1>2 DEF Sets
    <3>2. j \in 1 .. Len(stash) + 1 /\ stash'[j] = x
      BY <1>2, <2>2, <3>1
    <3> QED BY <2>2, <3>2 DEF Sets
  <2>5. w \in Sets(stash')
    <3>1. Len(stash) + 1 \in 1 .. Len(stash) + 1
      BY <1>2
    <3> QED BY <2>2, <3>1 DEF Sets
  <2> QED BY <1>1, <2>3, <2>4, <2>5 DEF w
<1>4. CASE i # 0
  <2>1. stash' = [stash EXCEPT ![i].data = call.data]
    BY <1>4 DEF ServeWrite
  <2>2. i \in 1 .. Len(stash) /\ stash[i].index = call.index
    BY <1>1, <1>4, FindFirst
  <2>3. stash[i] \in Block
    BY <1>1, <2>2, ElementOfSeq
  <2>4. [stash[i] EXCEPT !.data = call.data] = w
    BY <2>2, <2>3 DEF Block
  <2>5. stash' = [stash EXCEPT ![i] = w]
    BY <2>1, <2>4
  <2> HIDE DEF w, i
  <2>6. /\ DOMAIN stash' = DOMAIN stash /\ stash'[i] = w
        /\ \A j \in DOMAIN stash : j # i => stash'[j] = stash[j]
    BY <1>2, <2>2, <2>5
  <2>7. ASSUME NEW x \in Sets(stash') PROVE x \in Sets(stash) \cup {w}
    BY <2>6 DEF Sets
  <2>8. ASSUME NEW x \in Sets(stash), x.index # call.index PROVE x \in Sets(stash')
    <3>1. PICK j \in DOMAIN stash : x = stash[j]
      BY DEF Sets
    <3>2. j # i
      BY <2>2, <2>8, <3>1
    <3> QED BY <2>6, <3>1, <3>2 DEF Sets
  <2>9. w \in Sets(stash')
    BY <1>2, <2>2, <2>6 DEF Sets
  <2> QED BY <1>1, <2>7, <2>8, <2>9 DEF w
<1> QED BY <1>3, <1>4

\* Every block holds data that its address may have.
Truthful ==
    /\ \A b \in Sets(stash) : b.data \in truth[b.index]
    /\ \A k \in Positions : \A b \in Sets(oram_storage[k]) : b.data \in truth[b.index]

\* An address that may have no block within reach may read as nothing.
MayBeGone == \A a \in Address : a \in touched \/ Live(a) = 0 => NoData \in truth[a]

\* The blocks that stay of the address of a WRITE hold what was written.
Overwritten ==
    pc = "evict" /\ call.op = "WRITE" /\ call.index \notin touched =>
       /\ Live(call.index) # 0
       /\ \A b \in Sets(stash) : b.index = call.index => b.data = call.data
       /\ \A k \in Positions \ Copied : \A b \in Sets(oram_storage[k]) :
             b.index = call.index => b.data = call.data

DataInv == Truthful /\ MayBeGone /\ Overwritten /\ FailureConfined

IInv == RpcType /\ CountInv /\ DataInv

LEMMA BlockIndex ==
  ASSUME RpcType
  PROVE  /\ \A b \in Sets(stash) : b.index \in Address
         /\ \A k \in Positions : \A b \in Sets(oram_storage[k]) : b.index \in Address
<1>1. stash \in Seq(Block) /\ \A k \in Positions : oram_storage[k] \in Seq(Block)
  BY DEF RpcType
<1>2. Sets(stash) \in SUBSET Block /\ \A k \in Positions : Sets(oram_storage[k]) \in SUBSET Block
  BY <1>1, SetsOf
<1> QED BY <1>2 DEF Block

LEMMA InitData == Init => DataInv
<1> SUFFICES ASSUME Init PROVE DataInv
  OBVIOUS
<1>1. Sets(<<>>) = {}
  <2>1. DOMAIN <<>> = {}
    BY EmptySeq
  <2> QED BY <2>1 DEF Sets
<1>2. pc = "idle" /\ stash = <<>> /\ \A k \in Positions : oram_storage[k] = <<>>
  BY DEF Init
<1>3. \A a \in Address : NoData \in truth[a]
  BY DEF Init
<1> QED BY <1>1, <1>2, <1>3 DEF DataInv, Truthful, MayBeGone, Overwritten, FailureConfined

LEMMA StartDataInv ==
  ASSUME IInv, NEW c \in Call, access(c) \/ access_direct(c)
  PROVE  DataInv'
<1>1. /\ pc = "idle" /\ pc' = "read" /\ level' = 0
      /\ stash' = stash /\ oram_storage' = oram_storage
      /\ truth' = truth /\ touched' = touched
  BY DEF access, access_direct, Start, history
<1>2. Copied = {} /\ Copied' = {}
  <2>1. 0 .. 0 - 1 = {}
    OBVIOUS
  <2> QED BY <1>1, <2>1 DEF Copied
<1>3. \A a : Live(a)' = Live(a)
  BY <1>1, <1>2 DEF Live
<1>4. Truthful' /\ MayBeGone'
  BY <1>1, <1>3 DEF IInv, DataInv, Truthful, MayBeGone
<1> QED BY <1>1, <1>4 DEF DataInv, Overwritten, FailureConfined

LEMMA ReadDataInv ==
  ASSUME IInv, ReadPathBucket
  PROVE  DataInv'
<1>1. /\ pc' = "read" /\ stash' = stash \o oram_storage[Here]
      /\ UNCHANGED <<oram_storage, truth, touched>>
  BY DEF ReadPathBucket, history, Here
<1>2. Here \in Positions /\ \A a : Live(a)' = Live(a)
  BY ReadCounts DEF IInv
<1>3. Sets(stash') = Sets(stash) \cup Sets(oram_storage[Here])
  BY <1>1, <1>2, SetsConcat DEF IInv, RpcType
<1>4. Truthful' /\ MayBeGone'
  BY <1>1, <1>2, <1>3 DEF IInv, DataInv, Truthful, MayBeGone
<1> QED BY <1>1, <1>4 DEF DataInv, Overwritten, FailureConfined

LEMMA ServeReadDataInv ==
  ASSUME IInv, Serve, ServeRead
  PROVE  DataInv'
<1> DEFINE i == Find(stash, call.index)
<1>1. /\ pc = "read" /\ pc' = "evict" /\ call.op = "READ" /\ call' = call
      /\ UNCHANGED <<stash, oram_storage, truth, touched>>
      /\ response' = IF i = 0 THEN NoData ELSE stash[i].data
  BY DEF Serve, ServeRead
<1>2. /\ Copied' = Copied
      /\ Reachable(call.index) <=> Count(stash, call.index) # 0
  BY ServeCounts DEF IInv
<1>3. call.index \in Address
  BY CallType DEF IInv, RpcType
<1>4. \A a : Live(a)' = Live(a)
  BY <1>1, <1>2 DEF Live
<1>5. response' \in truth[call.index]
  <2>1. CASE i = 0
    <3>1. Count(stash, call.index) = 0
      BY <2>1, FindFirst DEF IInv, RpcType
    <3>2. Live(call.index) <= Bound(call.index) - 1
      BY <1>2, <1>3, <3>1 DEF IInv, CountInv, CountOf
    <3>3. call.index \in touched \/ Live(call.index) = 0
      <4>1. Live(call.index) \in Nat
        BY NumberFacts DEF IInv
      <4> QED BY <3>2, <4>1 DEF Bound
    <3> QED BY <1>1, <1>3, <2>1, <3>3 DEF IInv, DataInv, MayBeGone
  <2>2. CASE i # 0
    <3>1. i \in 1 .. Len(stash) /\ stash[i].index = call.index
      BY <2>2, FindFirst DEF IInv, RpcType
    <3>2. stash[i] \in Sets(stash)
      BY <3>1, LenProperties DEF Sets, IInv, RpcType
    <3>3. stash[i].data \in truth[stash[i].index]
      BY <3>2 DEF IInv, DataInv, Truthful
    <3> QED BY <1>1, <2>2, <3>1, <3>3
  <2> QED BY <2>1, <2>2
<1>6. Truthful' /\ MayBeGone'
  BY <1>1, <1>4 DEF IInv, DataInv, Truthful, MayBeGone
<1> QED BY <1>1, <1>5, <1>6 DEF DataInv, Overwritten, FailureConfined

LEMMA ServeWriteDataInv ==
  ASSUME IInv, Serve, ServeWrite
  PROVE  DataInv'
<1> DEFINE w == [index |-> call.index, data |-> call.data]
           x == call.index
<1>1. /\ pc = "read" /\ pc' = "evict" /\ call.op = "WRITE" /\ call' = call
      /\ UNCHANGED <<oram_storage, touched>>
      /\ truth' = [truth EXCEPT ![call.index] = @ \cup {call.data}]
  BY DEF Serve, ServeWrite
<1>2. Copied' = Copied /\ x \in Address
  BY ServeCounts, CallType DEF IInv, RpcType
<1>3. /\ call.data \in truth'[x]
      /\ \A a \in Address : truth[a] \subseteq truth'[a]
  BY <1>1, <1>2 DEF IInv, RpcType
<1>4. /\ w \in Sets(stash') /\ Sets(stash') \subseteq Sets(stash) \cup {w}
      /\ w.index = x /\ w.data = call.data
  BY ServeWriteSets DEF IInv
<1> HIDE DEF w
<1>5. Truthful'
  <2>1. \A b \in Sets(stash) : b.data \in truth'[b.index]
    BY <1>3, BlockIndex DEF IInv, DataInv, Truthful
  <2>2. \A k \in Positions : \A b \in Sets(oram_storage[k]) : b.data \in truth'[b.index]
    BY <1>3, BlockIndex DEF IInv, DataInv, Truthful
  <2> QED BY <1>1, <1>3, <1>4, <2>1, <2>2 DEF Truthful
<1>6. stash' \in Seq(Block)
  BY ServeType DEF IInv, RpcType
<1>7. ASSUME NEW a \in Address
      PROVE  /\ Count(stash', a) = Count(stash, a) + (IF a = x /\ Count(stash, a) = 0 THEN 1 ELSE 0)
             /\ Live(a)' = Count(stash', a) + Held(oram_storage, Positions \ Copied, a)
             /\ Live(a) = Count(stash, a) + Held(oram_storage, Positions \ Copied, a)
             /\ Count(stash, a) \in Nat /\ Held(oram_storage, Positions \ Copied, a) \in Nat
  <2>1. /\ Count(stash', a) = Count(stash, a) + (IF a = x /\ Count(stash, a) = 0 THEN 1 ELSE 0)
        /\ Live(a)' = Count(stash', a) + Held(oram_storage, Positions \ Copied, a)
    BY <1>1, ServeCounts DEF IInv
  <2>2. Count(stash, a) \in Nat /\ Held(oram_storage, Positions \ Copied, a) \in Nat
    BY NumberFacts DEF IInv
  <2> QED BY <2>1, <2>2 DEF Live
<1>8. MayBeGone'
  <2> SUFFICES ASSUME NEW a \in Address, a \in touched \/ Live(a)' = 0
               PROVE  NoData \in truth'[a]
    BY <1>1 DEF MayBeGone
  <2>1. Live(a)' = 0 => Live(a) = 0
    BY <1>7
  <2> QED BY <1>3, <2>1 DEF IInv, DataInv, MayBeGone
<1>9. Overwritten'
  <2> SUFFICES ASSUME NEW y \in Address, y = call.index, y \notin touched
               PROVE  /\ Live(y)' # 0
                      /\ \A b \in Sets(stash') : b.index = y => b.data = call.data
                      /\ \A k \in Positions \ Copied : \A b \in Sets(oram_storage[k]) : b.index # y
    BY <1>1, <1>2 DEF Overwritten, Live
  <2>1. Live(y)' <= 1
    <3>1. CountInv'
      BY ServeCountInv DEF IInv
    <3>2. Live(y)' <= Bound(y)'
      BY <3>1 DEF CountInv, CountOf
    <3> QED BY <1>1, <3>2 DEF Bound
  <2>2. Count(stash', y) # 0 /\ Count(stash', y) \in Nat
    BY <1>7
  <2>3. Count(stash', y) = 1 /\ Held(oram_storage, Positions \ Copied, y) = 0 /\ Live(y)' # 0
    <3>1. /\ Live(y)' = Count(stash', y) + Held(oram_storage, Positions \ Copied, y)
          /\ Held(oram_storage, Positions \ Copied, y) \in Nat
      BY <1>7
    <3> QED BY <2>1, <2>2, <3>1
  <2>4. \A b \in Sets(stash') : b.index = y => b = w
    BY <1>4, <1>6, <2>3, SetsOf
  <2>5. \A k \in Positions \ Copied : Count(oram_storage[k], y) = 0
    <3>1. Positions \ Copied \in SUBSET Positions
      OBVIOUS
    <3> QED BY ZenonT(60), <2>3, <3>1, HeldFacts DEF IInv, RpcType
  <2>6. \A k \in Positions \ Copied : \A b \in Sets(oram_storage[k]) : b.index # y
    BY <2>5, SetsOf DEF IInv, RpcType
  <2> QED BY <1>4, <2>3, <2>4, <2>6
<1> QED BY <1>1, <1>5, <1>8, <1>9 DEF DataInv, FailureConfined

\* No block appears in a write back that was not in the stash.
LEMMA WriteBackSets ==
  ASSUME RpcType, pc = "evict"
  PROVE  /\ Sets(Erase(stash, Evicted(level))) \subseteq Sets(stash)
         /\ Sets(Evicted(level)) \subseteq Sets(stash)
         /\ Here \in Positions /\ Written[Here] = Evicted(level)
         /\ \A k \in Positions \ {Here} : Written[k] = oram_storage[k]
<1>1. Here \in Positions
  BY WriteBackCounts
<1>2. Written[Here] = Evicted(level) /\ \A k \in Positions \ {Here} : Written[k] = oram_storage[k]
  BY <1>1 DEF Written, RpcType
<1> QED BY <1>1, <1>2, WriteBackFacts DEF Sets

LEMMA EvictDataInv ==
  ASSUME IInv, EvictBucket
  PROVE  DataInv'
<1> DEFINE e == Evicted(level)
           x == call.index
<1>1. /\ pc = "evict" /\ stash' = Erase(stash, e) /\ oram_storage' = Written
      /\ UNCHANGED <<call, response, touched>>
      /\ \/ pc' = "evict" /\ truth' = truth
         \/ pc' = "idle" /\ truth' = truth
         \/ /\ pc' = "idle" /\ call.op = "WRITE" /\ x \notin touched
            /\ truth' = [truth EXCEPT ![x] = {call.data}]
  BY DEF EvictBucket, NextLevel, Written, Here
<1>2. /\ Here \in Copied /\ Copied' = Copied \ {Here} /\ (pc' = "idle" => Copied' = {})
      /\ \A a : Live(a)' = Live(a)
  BY EvictCounts DEF IInv
<1>3. /\ Sets(stash') \subseteq Sets(stash) /\ Sets(e) \subseteq Sets(stash) /\ Here \in Positions
      /\ oram_storage'[Here] = e
      /\ \A k \in Positions \ {Here} : oram_storage'[k] = oram_storage[k]
  BY <1>1, WriteBackSets DEF IInv
<1> HIDE DEF e
<1>4. x \in Address
  BY CallType DEF IInv, RpcType
<1>5. call.op = "WRITE" /\ x \notin touched =>
         /\ Live(x) # 0
         /\ \A b \in Sets(stash') : b.index = x => b.data = call.data
         /\ \A k \in Positions \ Copied' : \A b \in Sets(oram_storage'[k]) :
               b.index = x => b.data = call.data
  BY <1>1, <1>2, <1>3 DEF IInv, DataInv, Overwritten
<1>6. /\ \A b \in Sets(stash') : b.data \in truth[b.index] /\ b.index \in Address
      /\ \A k \in Positions : \A b \in Sets(oram_storage'[k]) :
            b.data \in truth[b.index] /\ b.index \in Address
  BY <1>3, BlockIndex DEF IInv, DataInv, Truthful
<1>7. CASE truth' = truth
  <2>1. Truthful' /\ MayBeGone' /\ FailureConfined'
    BY <1>1, <1>2, <1>6, <1>7 DEF IInv, DataInv, Truthful, MayBeGone, FailureConfined
  <2>2. Overwritten'
    <3> SUFFICES ASSUME NEW y \in Address, y = x, call.op = "WRITE", y \notin touched
                 PROVE  /\ Live(y)' # 0
                        /\ \A b \in Sets(stash') : b.index = y => b.data = call.data
                        /\ \A k \in Positions \ Copied' : \A b \in Sets(oram_storage'[k]) :
                              b.index = y => b.data = call.data
      BY <1>1, <1>4 DEF Overwritten, Live
    <3> QED BY <1>2, <1>5
  <2> QED BY <2>1, <2>2 DEF DataInv
<1>8. CASE /\ pc' = "idle" /\ call.op = "WRITE" /\ x \notin touched
           /\ truth' = [truth EXCEPT ![x] = {call.data}]
  <2>1. /\ truth'[x] = {call.data} /\ \A a \in Address : a # x => truth'[a] = truth[a]
    BY <1>4, <1>8 DEF IInv, RpcType
  <2>2. Positions \ Copied' = Positions
    BY <1>2, <1>8
  <2>3. Truthful'
    BY <1>5, <1>6, <1>8, <2>1, <2>2 DEF Truthful
  <2>4. MayBeGone'
    BY <1>1, <1>2, <1>5, <1>8, <2>1 DEF MayBeGone, IInv, DataInv
  <2> QED BY <1>8, <2>3, <2>4 DEF DataInv, Overwritten, FailureConfined
<1> QED BY <1>1, <1>7, <1>8

\* A failed access leaves blocks whose data was there before.
LEMMA ThrowDataInv ==
  ASSUME IInv, Throw,
         \A b \in Sets(stash') : b \in Sets(stash),
         \A k \in Positions : \A b \in Sets(oram_storage'[k]) :
            b \in Sets(stash) \cup Sets(oram_storage[k]),
         \A a \in Address \ touched' : Live(a)' = 0 => Live(a) = 0
  PROVE  DataInv'
<1>1. /\ pc' = "idle"
      /\ \A a \in Address : truth'[a] = IF a \in touched' THEN truth[a] \cup {NoData} ELSE truth[a]
  BY DEF Throw
<1>2. \A a \in Address : truth[a] \subseteq truth'[a]
  BY <1>1
<1>3. Truthful'
  BY <1>2, BlockIndex DEF Truthful, IInv, DataInv
<1>4. MayBeGone'
  BY <1>1, <1>2 DEF MayBeGone, IInv, DataInv
<1> QED BY <1>1, <1>3, <1>4 DEF DataInv, Overwritten, FailureConfined

\* No copies are added to those of an address that is not touched.
LEMMA UntouchedLive ==
  ASSUME RpcType, ReadBucketFails \/ WriteBucketFails, NEW a \in Address \ touched'
  PROVE  Live(a)' = Live(a)
<1>1. Throw
  BY DEF ReadBucketFails, WriteBucketFails
<1>2. Stale(a) = 0 /\ Count(stash, a) = 0 /\ \A k \in Path(oldLeaf) : Count(oram_storage[k], a) = 0
  BY <1>1, Untouched
<1>3. Live(a)' = Count(stash', a) + Held(oram_storage', Positions, a)
  BY <1>1, ThrowFacts
<1>4. Live(a) = Held(oram_storage, Positions \ Copied, a)
  <2>1. Held(oram_storage, Positions \ Copied, a) \in Nat
    BY NumberFacts
  <2> QED BY <1>2, <2>1 DEF Live
<1>5. CASE ReadBucketFails
  <2>1. /\ Positions \ Copied \in SUBSET Positions /\ Copied \in SUBSET Positions
        /\ (Positions \ Copied) \cup Copied = Positions
        /\ (Positions \ Copied) \cap Copied = {}
    BY CopiedFacts
  <2>2. Held(oram_storage, (Positions \ Copied) \cup Copied, a) =
           Held(oram_storage, Positions \ Copied, a) + Held(oram_storage, Copied, a)
    BY ZenonT(60), <2>1, HeldUnion DEF RpcType
  <2>3. Held(oram_storage, Positions, a) = Held(oram_storage, Positions \ Copied, a) + Stale(a)
    BY <2>1, <2>2 DEF Stale
  <2>4. Held(oram_storage, Positions \ Copied, a) \in Nat
    BY NumberFacts
  <2>5. stash' = stash /\ oram_storage' = oram_storage
    BY <1>5 DEF ReadBucketFails
  <2> QED BY <1>2, <1>3, <1>4, <2>3, <2>4, <2>5
<1>6. CASE WriteBucketFails
  <2> DEFINE b == Count(Evicted(level), a)
             s == Count(Erase(stash, Evicted(level)), a)
             c == Count(oram_storage[Here], a)
             h == Held(oram_storage, Positions \ Copied, a)
  <2>1. /\ pc = "evict" /\ stash' = Erase(stash, Evicted(level))
        /\ oram_storage' \in {oram_storage, Written}
    BY <1>6 DEF WriteBucketFails, Written, Here
  <2>2. /\ s \in Nat /\ b \in Nat /\ c \in Nat /\ s + b = Count(stash, a) /\ Here \in Copied
        /\ Held(oram_storage, Positions, a) = h + Stale(a)
        /\ Held(Written, Positions, a) + c = h + b + Stale(a)
    BY <2>1, WriteBackCounts
  <2>3. c = 0
    BY <1>2, <2>2, CopiedFacts
  <2>4. /\ h \in Nat /\ Held(Written, Positions, a) \in Nat
    BY <2>1, NumberFacts, WriteBackCounts, HeldFacts
  <2>5. Live(a)' = s + Held(oram_storage', Positions, a)
    BY <1>3, <2>1
  <2> HIDE DEF b, s, c, h
  <2>6. s = 0 /\ b = 0
    BY <1>2, <2>2
  <2>7. Held(oram_storage, Positions, a) = h /\ Held(Written, Positions, a) = h
    BY <1>2, <2>2, <2>3, <2>4, <2>6
  <2>8. Live(a)' = h
    BY <2>1, <2>4, <2>5, <2>6, <2>7
  <2> QED BY <1>4, <2>8 DEF h
<1> QED BY <1>5, <1>6

LEMMA FailsDataInv ==
  ASSUME IInv, ReadBucketFails \/ WriteBucketFails
  PROVE  DataInv'
<1>1. \A a \in Address \ touched' : Live(a)' = 0 => Live(a) = 0
  BY UntouchedLive DEF IInv
<1>2. CASE ReadBucketFails
  <2>1. Throw /\ stash' = stash /\ oram_storage' = oram_storage
    BY <1>2 DEF ReadBucketFails
  <2> QED BY <1>1, <2>1, ThrowDataInv
<1>3. CASE WriteBucketFails
  <2>1. /\ Throw /\ pc = "evict" /\ stash' = Erase(stash, Evicted(level))
        /\ oram_storage' \in {oram_storage, Written}
    BY <1>3 DEF WriteBucketFails, Written, Here
  <2>2. \A k \in Positions : \A b \in Sets(oram_storage'[k]) :
            b \in Sets(stash) \cup Sets(oram_storage[k])
    BY <2>1, WriteBackSets DEF IInv
  <2>3. \A b \in Sets(stash') : b \in Sets(stash)
    BY <2>1, WriteBackSets DEF IInv
  <2> QED BY <1>1, <2>1, <2>2, <2>3, ThrowDataInv
<1> QED BY <1>2, <1>3

LEMMA NextInv == IInv /\ [Next]_vars => IInv'
<1> SUFFICES ASSUME IInv, [Next]_vars PROVE IInv'
  OBVIOUS
<1>1. RpcType' /\ CountInv'
  BY NextType, NextCount DEF IInv
<1>2. CASE UNCHANGED vars
  <2>1. DataInv'
    BY <1>2 DEF vars, memVars, ctlVars, history, IInv, DataInv, Truthful, MayBeGone,
                Overwritten, FailureConfined, Live, Copied
  <2> QED BY <1>1, <2>1 DEF IInv
<1>3. CASE Serve
  <2>1. DataInv'
    BY <1>3, ServeReadDataInv, ServeWriteDataInv DEF Serve
  <2> QED BY <1>1, <2>1 DEF IInv
<1> QED BY <1>1, <1>2, <1>3, StartDataInv, ReadDataInv, EvictDataInv, FailsDataInv DEF Next, IInv

LEMMA InvariantHolds == Spec => []IInv
<1>1. Init => IInv
  BY InitType, InitCount, InitData DEF IInv
<1> QED BY <1>1, NextInv, PTL DEF Spec

(* A READ answers with data its address held, with what was last written   *)
(* if no failed access had the address in its hands.                       *)
THEOREM FailureConfinedHolds == Spec => []FailureConfined
<1>1. IInv => FailureConfined
  BY DEF IInv, DataInv
<1> QED BY <1>1, InvariantHolds, PTL

(***************************************************************************)
(* Until a call fails, the vectors behave as the sets of PathOram.         *)
(***************************************************************************)
SetsBar == [k \in Positions |-> Sets(oram_storage[k])]

LEMMA OneBlock ==
  ASSUME IInv, failures = 0, NEW a \in Address
  PROVE  Count(stash, a) <= 1
<1>1. Live(a) <= 1
  <2>1. a \notin touched
    BY DEF IInv, RpcType
  <2> QED BY <2>1 DEF IInv, CountInv, CountOf, Bound
<1>2. Count(stash, a) \in Nat /\ Held(oram_storage, Positions \ Copied, a) \in Nat
  BY NumberFacts DEF IInv
<1> QED BY <1>1, <1>2 DEF Live

\* Different blocks of a bucket are different members of its set.
LEMMA SetsSize ==
  ASSUME NEW s \in Seq(Block), \A a \in Address : Count(s, a) <= 1
  PROVE  Cardinality(Sets(s)) = Len(s)
<1> DEFINE n == Len(s)
           f == [i \in 1 .. n |-> s[i]]
<1>1. n \in Nat /\ DOMAIN s = 1 .. n /\ \A i \in 1 .. n : s[i].index \in Address
  <2>1. \A i \in 1 .. n : s[i] \in Block
    BY ElementOfSeq
  <2> QED BY <2>1, LenProperties DEF Block
<1> HIDE DEF n
<1>2. f \in Bijection(1 .. n, Sets(s))
  <2>1. f \in [1 .. n -> Sets(s)]
    BY <1>1 DEF Sets
  <2>2. \A i, j \in 1 .. n : f[i] = f[j] => i = j
    <3> SUFFICES ASSUME NEW i \in 1 .. n, NEW j \in 1 .. n, f[i] = f[j] PROVE i = j
      OBVIOUS
    <3>1. i \in DOMAIN s /\ j \in DOMAIN s /\ s[i] = s[j] /\ s[i].index \in Address
      BY <1>1
    <3>2. Count(s, s[i].index) <= 1
      BY <3>1
    <3> QED BY <3>1, <3>2, CountOne
  <2>3. \A x \in Sets(s) : \E i \in 1 .. n : f[i] = x
    BY <1>1 DEF Sets
  <2> HIDE DEF f
  <2> QED BY <2>1, <2>2, <2>3, Fun_IsBij
<1>3. ExistsBijection(1 .. n, Sets(s))
  BY <1>2 DEF ExistsBijection
<1>4. IsFiniteSet(1 .. n) /\ Cardinality(1 .. n) = n
  BY <1>1, FS_Interval
<1> HIDE DEF f
<1> QED BY <1>3, <1>4, FS_Bijection DEF n

LEMMA InitSets == Init => Abstract!Init
<1> SUFFICES ASSUME Init PROVE Abstract!Init
  OBVIOUS
<1>1. Sets(<<>>) = {}
  <2>1. DOMAIN <<>> = {}
    BY EmptySeq
  <2> QED BY <2>1 DEF Sets
<1>2. Sets(stash) = {} /\ [k \in Positions |-> Sets(oram_storage[k])] = [k \in Positions |-> {}]
  BY <1>1 DEF Init
<1> QED BY <1>2 DEF Init, Abstract!Init, Abstract!Leaves, Leaves, Abstract!num_leaves, num_leaves,
           Abstract!Positions, Positions, Abstract!num_buckets, num_buckets,
           Abstract!Call, Call

LEMMA StartSets ==
  ASSUME IInv, NEW c \in Call, access(c) \/ access_direct(c)
  PROVE  Abstract!Next
<1>1. c \in Abstract!Call
  BY DEF Call, Abstract!Call
<1>2. Abstract!Start(c)
  BY DEF access, access_direct, Start, Abstract!Start
<1>3. CASE access(c)
  BY <1>1, <1>2, <1>3 DEF access, Abstract!access, Abstract!Next, Leaves, Abstract!Leaves,
                          num_leaves, Abstract!num_leaves
<1>4. CASE access_direct(c)
  BY <1>1, <1>2, <1>4 DEF access_direct, Abstract!access_direct, Abstract!Next
<1> QED BY <1>3, <1>4

LEMMA SamePosition == \A x, l : Abstract!P(x, l) = P(x, l)
  BY DEF P, Abstract!P

LEMMA ReadSets ==
  ASSUME IInv, ReadPathBucket
  PROVE  Abstract!Next
<1>1. /\ pc = "read" /\ level < num_levels /\ level' = level + 1
      /\ stash' = stash \o oram_storage[Here]
      /\ UNCHANGED <<position_map, oram_storage, pc, oldLeaf, call, response>>
  BY DEF ReadPathBucket, Here
<1>2. Here \in Positions
  BY ReadCounts DEF IInv
<1>3. Sets(stash') = Sets(stash) \cup Sets(oram_storage[Here])
  BY <1>1, <1>2, SetsConcat DEF IInv, RpcType
<1>4. [k \in Positions |-> Sets(oram_storage[k])][Abstract!P(oldLeaf, level)] =
         Sets(oram_storage[Here])
  BY <1>2, SamePosition DEF Here
<1>5. Abstract!ReadPathBucket
  BY <1>1, <1>3, <1>4 DEF Abstract!ReadPathBucket
<1> QED BY <1>5 DEF Abstract!Next

LEMMA ServeSets ==
  ASSUME IInv, failures = 0, Serve
  PROVE  Abstract!Next
<1> DEFINE x == call.index
           w == [index |-> call.index, data |-> call.data]
<1>1. /\ pc = "read" /\ level = num_levels /\ pc' = "evict" /\ level' = num_levels - 1
      /\ UNCHANGED <<position_map, oram_storage, oldLeaf, call>>
  BY DEF Serve
<1>2. x \in Address /\ stash \in Seq(Block) /\ response = NoData
  BY <1>1, CallType DEF IInv, RpcType
<1>3. CASE ServeRead
  <2>1. Abstract!ServeRead
    <3> DEFINE i == Find(stash, x)
    <3>1. /\ call.op = "READ" /\ stash' = stash
          /\ response' = IF i = 0 THEN NoData ELSE stash[i].data
      BY <1>3 DEF ServeRead
    <3>2. CASE i = 0
      <4>1. \A b \in Sets(stash) : b.index # x
        BY <1>2, <3>2, FindFirst, SetsOf
      <4>2. Abstract!BlocksOf(call.index) = {}
        BY <4>1 DEF Abstract!BlocksOf
      <4> QED BY <1>2, <3>1, <3>2, <4>2 DEF Abstract!ServeRead
    <3>3. CASE i # 0
      <4>1. i \in 1 .. Len(stash) /\ stash[i].index = x
        BY <1>2, <3>3, FindFirst
      <4>2. stash[i] \in Sets(stash)
        BY <1>2, <4>1, LenProperties DEF Sets
      <4>3. stash[i] \in Abstract!BlocksOf(call.index)
        BY <4>1, <4>2 DEF Abstract!BlocksOf
      <4> QED BY <3>1, <3>3, <4>3 DEF Abstract!ServeRead
    <3> QED BY <3>2, <3>3
  <2>2. Abstract!Serve
    BY <1>1, <2>1 DEF Abstract!Serve
  <2> QED BY <2>2 DEF Abstract!Next
<1>4. CASE ServeWrite
  <2>1. call.op = "WRITE" /\ response' = response
    BY <1>4 DEF ServeWrite
  <2>2. /\ w \in Sets(stash') /\ w.index = x
        /\ Sets(stash') \subseteq Sets(stash) \cup {w}
        /\ \A b \in Sets(stash) : b.index # x => b \in Sets(stash')
    BY <1>4, ServeWriteSets DEF IInv
  <2> HIDE DEF w
  <2>3. stash' \in Seq(Block)
    BY ServeType DEF IInv, RpcType
  <2>4. Count(stash', x) <= 1
    <3>1. Count(stash', x) = Count(stash, x) + (IF Count(stash, x) = 0 THEN 1 ELSE 0)
      BY <1>2, <2>1, ServeCounts DEF IInv
    <3>2. Count(stash, x) <= 1 /\ Count(stash, x) \in Nat
      BY <1>2, OneBlock, CountFacts
    <3> QED BY <3>1, <3>2
  <2>5. \A b \in Sets(stash') : b.index = x => b = w
    BY <2>2, <2>3, <2>4, SetsOf
  <2>6. Sets(stash') = (Sets(stash) \ Abstract!BlocksOf(call.index)) \cup {w}
    <3>1. Abstract!BlocksOf(call.index) = {b \in Sets(stash) : b.index = x}
      BY DEF Abstract!BlocksOf
    <3> QED BY <2>2, <2>5, <3>1
  <2>7. Abstract!ServeWrite
    BY <2>1, <2>6 DEF Abstract!ServeWrite, w
  <2>8. Abstract!Serve
    BY <1>1, <2>7 DEF Abstract!Serve
  <2> QED BY <2>8 DEF Abstract!Next
<1> QED BY <1>3, <1>4 DEF Serve

LEMMA EvictSets ==
  ASSUME IInv, failures = 0, EvictBucket
  PROVE  Abstract!Next
<1> DEFINE e == Evicted(level)
           r == Erase(stash, e)
           S == Sets(e)
<1>1. /\ pc = "evict" /\ stash' = r /\ oram_storage' = Written
      /\ UNCHANGED <<position_map, oldLeaf, call, response>>
  BY DEF EvictBucket, Written, Here
<1>2. /\ e \in Seq(Block) /\ r \in Seq(Block) /\ Len(e) <= bucket_size
      /\ \A a : Count(r, a) + Count(e, a) = Count(stash, a)
      /\ \A i \in DOMAIN e : Fits(e[i], level) /\ \E j \in DOMAIN stash : e[i] = stash[j]
      /\ \/ Len(e) = bucket_size
         \/ \A j \in DOMAIN stash :
               Fits(stash[j], level) => \E i \in DOMAIN e : e[i] = stash[j]
  BY <1>1, WriteBackFacts DEF IInv
<1>3. /\ Sets(r) \subseteq Sets(stash) /\ S \subseteq Sets(stash) /\ Here \in Positions
      /\ Written[Here] = e /\ \A k \in Positions \ {Here} : Written[k] = oram_storage[k]
  BY <1>1, WriteBackSets DEF IInv
<1> HIDE DEF e, r
<1>4. stash \in Seq(Block) /\ Sets(stash) \in SUBSET Block
  BY SetsOf DEF IInv, RpcType
<1>5. ASSUME NEW a \in Address
      PROVE  /\ Count(stash, a) <= 1 /\ Count(stash, a) \in Nat
             /\ Count(r, a) \in Nat /\ Count(e, a) \in Nat /\ Count(e, a) <= 1
  <2>1. Count(stash, a) <= 1
    BY OneBlock
  <2>2. Count(stash, a) \in Nat /\ Count(r, a) \in Nat /\ Count(e, a) \in Nat
    BY <1>2, <1>4, CountFacts
  <2>3. Count(r, a) + Count(e, a) = Count(stash, a)
    BY <1>2
  <2> QED BY <2>1, <2>2, <2>3
<1>6. Abstract!Cardinality(S) = Len(e)
  <2>1. Cardinality(S) = Len(e)
    BY <1>2, <1>5, SetsSize
  <2> HIDE DEF S
  <2> QED BY <2>1 DEF Abstract!Cardinality, Cardinality
<1>7. S \in SUBSET Abstract!Evictable(level)
  <2>1. \A b \in S : Fits(b, level)
    BY <1>2 DEF Sets
  <2> QED BY <1>3, <2>1, SamePosition DEF Abstract!Evictable, Fits
<1>8. Abstract!Fills(S, level)
  <2>1. CASE Len(e) = bucket_size
    BY <1>6, <2>1, <1>2 DEF Abstract!Fills
  <2>2. CASE \A j \in DOMAIN stash :
               Fits(stash[j], level) => \E i \in DOMAIN e : e[i] = stash[j]
    <3>1. \A b \in Sets(stash) : Fits(b, level) => b \in S
      BY <2>2 DEF Sets
    <3>2. Abstract!Evictable(level) \subseteq S
      BY <3>1, SamePosition DEF Abstract!Evictable, Fits
    <3>3. S = Abstract!Evictable(level)
      BY <3>2, <1>7
    <3> HIDE DEF S
    <3> QED BY <1>6, <1>2, <3>3 DEF Abstract!Fills
  <2> QED BY <1>2, <2>1, <2>2
<1>9. Sets(r) = Sets(stash) \ S
  <2>1. ASSUME NEW b \in Sets(r) PROVE b \notin S
    <3>1. b.index \in Address
      BY <1>3, <1>4 DEF Block
    <3>2. Count(r, b.index) # 0
      BY <1>2, SetsOf
    <3>3. Count(r, b.index) + Count(e, b.index) = Count(stash, b.index)
      BY <1>2
    <3>4. Count(e, b.index) = 0
      BY <3>1, <3>2, <3>3, <1>5
    <3> QED BY <1>2, <3>4, SetsOf
  <2>2. ASSUME NEW b \in Sets(stash), b \notin S PROVE b \in Sets(r)
    <3>1. b.index \in Address
      BY <1>4 DEF Block
    <3>2. \A c \in Sets(stash) : c.index = b.index => c = b
      BY <1>4, <1>5, <3>1, SetsOf
    <3>3. \A c \in S : c.index # b.index
      BY <1>3, <2>2, <3>2
    <3>4. Count(e, b.index) = 0
      BY <1>2, <3>3, SetsOf
    <3>5. Count(stash, b.index) # 0
      BY <1>4, SetsOf
    <3>6. Count(r, b.index) + Count(e, b.index) = Count(stash, b.index)
      BY <1>2
    <3>7. Count(r, b.index) # 0
      BY <3>1, <3>4, <3>5, <3>6, <1>5
    <3>8. PICK c \in Sets(r) : c.index = b.index
      BY <1>2, <3>7, SetsOf
    <3> QED BY <1>3, <3>2, <3>8
  <2> QED BY <1>3, <2>1, <2>2
<1>10. [k \in Positions |-> Sets(oram_storage'[k])] =
          [[k \in Positions |-> Sets(oram_storage[k])] EXCEPT ![Abstract!P(oldLeaf, level)] = S]
  BY <1>1, <1>3, SamePosition DEF Here
<1>11. Abstract!WriteBack(S)
  BY <1>1, <1>9, <1>10 DEF Abstract!WriteBack
<1>12. Abstract!NextLevel
  BY DEF EvictBucket, NextLevel, Abstract!NextLevel
<1>13. Abstract!EvictBucket
  <2> HIDE DEF S
  <2> QED BY <1>1, <1>7, <1>8, <1>11, <1>12 DEF Abstract!EvictBucket
<1> QED BY <1>13 DEF Abstract!Next

LEMMA NextSets == IInv /\ [Next]_vars => [failures' = 0 => Abstract!Next]_(Abstract!vars)
<1> SUFFICES ASSUME IInv, [Next]_vars
             PROVE  (failures' = 0 => Abstract!Next) \/ UNCHANGED Abstract!vars
  OBVIOUS
<1>1. CASE UNCHANGED vars
  BY <1>1 DEF vars, memVars, ctlVars, Abstract!vars
<1>2. CASE ReadBucketFails \/ WriteBucketFails
  BY <1>2 DEF ReadBucketFails, WriteBucketFails, Throw, IInv, RpcType
<1>3. CASE Serve \/ EvictBucket
  <2>1. failures' = failures
    BY <1>3 DEF Serve, EvictBucket
  <2> QED BY <1>3, <2>1, ServeSets, EvictSets
<1> QED BY <1>1, <1>2, <1>3, StartSets, ReadSets DEF Next

(* Until a call fails, finding, overwriting, evicting and erasing blocks   *)
(* in vectors, by index and by position, does what PathOram says of sets.  *)
THEOREM PathOramImplemented == Spec => ImplementsPathOram
  BY InitSets, NextSets, InvariantHolds, PTL DEF Spec, ImplementsPathOram
=============================================================================
