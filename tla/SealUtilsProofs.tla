-------------------------- MODULE SealUtilsProofs --------------------------
(***************************************************************************)
(* What the helpers of utils.cpp compute, for every size: the permutation  *)
(* is one, get_bits gives every number below 2^base a slot of its own, so  *)
(* that no document is overwritten when the sub arrays are filled, and a   *)
(* sorted array has the elements of the array in the order of their keys.  *)
(* At the end, the numbering of the buckets of OramTree, for any height.   *)
(*                                                                         *)
(* Induction over natural numbers is stated with sets, so that every fact  *)
(* used has constants as its only parameters.                              *)
(***************************************************************************)
EXTENDS SealUtils, FiniteSetTheorems, FunctionTheorems, WellFoundedInduction, TLAPS

(* A set of natural numbers that is not empty has a least element: the
   intervals 0 .. n of its elements have a minimum under strict inclusion. *)
LEMMA LeastNatural ==
  ASSUME NEW S \in SUBSET Nat, S # {}
  PROVE  \E m \in S : \A k \in S : m <= k
<1> DEFINE T == {0 .. n : n \in S}
<1>1. T \subseteq FiniteSubsetsOf(Nat)
  <2>1. ASSUME NEW n \in S PROVE 0 .. n \in FiniteSubsetsOf(Nat)
    BY FS_Interval DEF FiniteSubsetsOf
  <2> QED BY <2>1
<1>2. T # {}
  OBVIOUS
<1>3. PICK X \in T : \A Y \in T : <<Y, X>> \notin StrictSubsetOrdering(Nat)
  <2> HIDE DEF T
  <2>1. IsWellFoundedOn(StrictSubsetOrdering(Nat), FiniteSubsetsOf(Nat))
    BY FS_StrictSubsetOrderingWellFounded
  <2> QED BY <1>1, <1>2, <2>1, WFMin
<1>4. PICK m \in S : X = 0 .. m
  OBVIOUS
<1>5. ASSUME NEW k \in S, k < m PROVE FALSE
  <2>1. 0 .. k \in SUBSET X /\ 0 .. k # X
    <3>1. m \in X /\ m \notin 0 .. k
      BY <1>4, <1>5
    <3> QED BY <1>4, <1>5, <3>1
  <2>2. <<0 .. k, X>> \in StrictSubsetOrdering(Nat)
    BY <2>1, <1>4 DEF StrictSubsetOrdering
  <2> QED BY <2>2, <1>3
<1> QED BY <1>5

(* Induction up to n, with the set of the numbers that have the property in
   place of the property. *)
LEMMA UpwardInduction ==
  ASSUME NEW n \in Nat, NEW S, 0 \in S, \A k \in 0 .. n - 1 : k \in S => k + 1 \in S
  PROVE  0 .. n \subseteq S
<1> DEFINE B == (0 .. n) \ S
<1>1. SUFFICES ASSUME B # {} PROVE FALSE
  OBVIOUS
<1>2. B \in SUBSET Nat
  OBVIOUS
<1>3. PICK m \in B : \A k \in B : m <= k
  <2> HIDE DEF B
  <2> QED BY <1>1, <1>2, LeastNatural
<1>4. m # 0 /\ m \in Nat
  OBVIOUS
<1>5. m - 1 \in 0 .. n - 1 /\ m - 1 \notin B
  BY <1>3, <1>4
<1> QED BY <1>5, (m - 1) + 1 = m

\* g is computed from first in k steps, step d by F.
Runs(g, X, F, first, k) ==
    g \in [0 .. k -> X] /\ g[0] = first /\ \A d \in 1 .. k : g[d] = F[<<d, g[d - 1]>>]

(* A recursion over the numbers up to m has a solution. *)
LEMMA Recursion ==
  ASSUME NEW X, NEW first \in X, NEW m \in Nat, NEW F \in [(1 .. m) \X X -> X]
  PROVE  \E g : Runs(g, X, F, first, m)
<1> DEFINE S == {k \in 0 .. m : \E g : Runs(g, X, F, first, k)}
<1>1. 0 \in S
  <2> DEFINE g == [d \in 0 .. 0 |-> first]
  <2>1. g \in [0 .. 0 -> X] /\ g[0] = first
    OBVIOUS
  <2> HIDE DEF g
  <2> QED BY <2>1 DEF Runs
<1>2. ASSUME NEW k \in 0 .. m - 1, k \in S PROVE k + 1 \in S
  <2>1. PICK g : Runs(g, X, F, first, k)
    BY <1>2
  <2>2. g \in [0 .. k -> X] /\ g[0] = first /\ \A d \in 1 .. k : g[d] = F[<<d, g[d - 1]>>]
    BY <2>1 DEF Runs
  <2> DEFINE z == F[<<k + 1, g[k]>>]
             h == [d \in 0 .. k + 1 |-> IF d = k + 1 THEN z ELSE g[d]]
  <2>3. z \in X
    <3>1. k \in 0 .. k /\ k + 1 \in 1 .. m
      OBVIOUS
    <3>2. <<k + 1, g[k]>> \in (1 .. m) \X X
      BY <2>2, <3>1
    <3> QED BY <3>2
  <2>4. /\ h \in [0 .. k + 1 -> X] /\ h[k + 1] = z
        /\ \A d \in 0 .. k : h[d] = g[d]
    <3> HIDE DEF z
    <3>1. \A d \in 0 .. k + 1 : (IF d = k + 1 THEN z ELSE g[d]) \in X
      BY <2>2, <2>3
    <3>2. k + 1 \in 0 .. k + 1 /\ \A d \in 0 .. k : d \in 0 .. k + 1 /\ d # k + 1
      OBVIOUS
    <3> QED BY <3>1, <3>2
  <2>5. \A d \in 1 .. k + 1 : h[d] = F[<<d, h[d - 1]>>]
    <3> SUFFICES ASSUME NEW d \in 1 .. k + 1 PROVE h[d] = F[<<d, h[d - 1]>>]
      OBVIOUS
    <3>1. h[d - 1] = g[d - 1]
      BY <2>4, d - 1 \in 0 .. k
    <3>2. CASE d = k + 1
      BY <2>4, <3>1, <3>2, d - 1 = k
    <3>3. CASE d # k + 1
      BY <2>2, <2>4, <3>1, <3>3, d \in 1 .. k
    <3> QED BY <3>2, <3>3
  <2>6. h[0] = first
    BY <2>2, <2>4, 0 \in 0 .. k
  <2> HIDE DEF h
  <2>7. Runs(h, X, F, first, k + 1)
    BY <2>4, <2>5, <2>6 DEF Runs
  <2> QED BY <2>7
<1>3. 0 .. m \subseteq S
  <2> HIDE DEF S
  <2> QED BY <1>1, <1>2, UpwardInduction
<1> QED BY <1>3

-----------------------------------------------------------------------------
(* The row of powers that Power reads. *)
LEMMA PowerRow ==
  ASSUME NEW b \in Nat, NEW n \in Nat
  PROVE  \E p : /\ p \in [0 .. n -> Nat] /\ p[0] = 1
                /\ \A k \in 1 .. n : p[k] = b * p[k - 1]
                /\ Power(b, n) = p[n]
<1> DEFINE Body(f) == [k \in 0 .. n |-> IF k = 0 THEN 1 ELSE b * f[k - 1]]
           F == [z \in (1 .. n) \X Nat |-> b * z[2]]
           p == CHOOSE f : f = Body(f)
<1>1. PICK g : Runs(g, Nat, F, 1, n)
  <2>1. F \in [(1 .. n) \X Nat -> Nat]
    OBVIOUS
  <2> HIDE DEF F
  <2> QED BY <2>1, Recursion
<1>2. g = Body(g)
  <2>1. g \in [0 .. n -> Nat] /\ g[0] = 1 /\ \A k \in 1 .. n : g[k] = F[<<k, g[k - 1]>>]
    BY <1>1 DEF Runs
  <2>2. \A k \in 1 .. n : g[k] = b * g[k - 1]
    <3> SUFFICES ASSUME NEW k \in 1 .. n PROVE g[k] = b * g[k - 1]
      OBVIOUS
    <3>1. g[k - 1] \in Nat
      BY <2>1, k - 1 \in 0 .. n
    <3> QED BY <2>1, <3>1
  <2> HIDE DEF F
  <2>3. \A k \in 0 .. n : g[k] = IF k = 0 THEN 1 ELSE b * g[k - 1]
    BY <2>1, <2>2
  <2> QED BY <2>1, <2>3
<1>3. p = Body(p)
  BY <1>2
<1>4. Power(b, n) = p[n]
  BY DEF Power
<1> HIDE DEF p
<1>5. /\ DOMAIN p = 0 .. n /\ p = [k \in 0 .. n |-> p[k]]
      /\ p[0] = 1 /\ \A k \in 1 .. n : p[k] = b * p[k - 1]
  <2>1. \A k \in 0 .. n : Body(p)[k] = IF k = 0 THEN 1 ELSE b * p[k - 1]
    OBVIOUS
  <2>2. DOMAIN Body(p) = 0 .. n /\ Body(p) = [k \in 0 .. n |-> Body(p)[k]]
    OBVIOUS
  <2> HIDE DEF Body
  <2> QED BY <1>3, <2>1, <2>2
<1>6. \A k \in 0 .. n : p[k] \in Nat
  <2> DEFINE S == {k \in 0 .. n : p[k] \in Nat}
  <2>1. 0 \in S
    BY <1>5
  <2>2. ASSUME NEW k \in 0 .. n - 1, k \in S PROVE k + 1 \in S
    <3>1. p[k + 1] = b * p[k]
      BY <1>5, k + 1 \in 1 .. n, (k + 1) - 1 = k
    <3>2. p[k] \in Nat
      BY <2>2
    <3> QED BY <3>1, <3>2, k + 1 \in 0 .. n
  <2>3. 0 .. n \subseteq S
    <3> HIDE DEF S
    <3> QED BY <2>1, <2>2, UpwardInduction
  <2> QED BY <2>3
<1> QED BY <1>4, <1>5, <1>6

(* The powers of b. *)
LEMMA Powers ==
  ASSUME NEW b \in Nat, NEW n \in Nat
  PROVE  Power(b, n) \in Nat /\ Power(b, 0) = 1 /\ Power(b, n + 1) = b * Power(b, n)
<1>1. PICK p : /\ p \in [0 .. n -> Nat] /\ p[0] = 1
               /\ \A k \in 1 .. n : p[k] = b * p[k - 1]
               /\ Power(b, n) = p[n]
  BY PowerRow
<1>2. n + 1 \in Nat
  OBVIOUS
<1>3. PICK q : /\ q \in [0 .. n + 1 -> Nat] /\ q[0] = 1
               /\ \A k \in 1 .. n + 1 : q[k] = b * q[k - 1]
               /\ Power(b, n + 1) = q[n + 1]
  BY <1>2, PowerRow
<1>4. Power(b, 0) = 1
  BY PowerRow
<1>5. q[n] = p[n]
  <2> DEFINE S == {k \in 0 .. n : q[k] = p[k]}
  <2>1. 0 \in S
    BY <1>1, <1>3
  <2>2. ASSUME NEW k \in 0 .. n - 1, k \in S PROVE k + 1 \in S
    BY <1>1, <1>3, <2>2, k + 1 \in 1 .. n, k + 1 \in 1 .. n + 1, (k + 1) - 1 = k
  <2>3. 0 .. n \subseteq S
    <3> HIDE DEF S
    <3> QED BY <2>1, <2>2, UpwardInduction
  <2> QED BY <2>3
<1>6. q[n + 1] = b * q[n]
  BY <1>3, n + 1 \in 1 .. n + 1, (n + 1) - 1 = n
<1> QED BY <1>1, <1>3, <1>4, <1>5, <1>6

(* A number is below the power of which it is the exponent. *)
LEMMA PowerAboveExponent ==
  ASSUME NEW b \in Nat, b > 1, NEW n \in Nat
  PROVE  Power(b, n) \in Nat /\ Power(b, n) > n
<1> DEFINE S == {k \in 0 .. n : Power(b, k) > k}
<1>1. 0 \in S
  BY Powers
<1>2. ASSUME NEW k \in 0 .. n - 1, k \in S PROVE k + 1 \in S
  <2> DEFINE y == Power(b, k)
  <2>1. y \in Nat /\ y > k /\ Power(b, k + 1) = b * y
    BY <1>2, Powers, k \in Nat
  <2> HIDE DEF y
  <2>2. b * y >= 2 * y
    BY <2>1
  <2>3. b * y \in Nat
    BY <2>1
  <2>4. b * y > k + 1
    <3>1. 2 * y > k + 1
      BY <2>1
    <3> HIDE <2>1
    <3>2. y \in Nat
      BY <2>1
    <3> QED BY <2>2, <2>3, <3>1, <3>2
  <2> QED BY <2>1, <2>4
<1>3. 0 .. n \subseteq S
  <2> HIDE DEF S
  <2> QED BY <1>1, <1>2, UpwardInduction
<1> QED BY <1>3, Powers

LEMMA PowerOfTwo ==
  ASSUME NEW n \in Nat
  PROVE  Power(2, n) \in Nat \ {0}
<1> DEFINE y == Power(2, n)
<1>1. y \in Nat /\ y > n
  BY PowerAboveExponent
<1> HIDE DEF y
<1>2. y \in Nat \ {0}
  BY <1>1
<1> QED BY <1>2 DEF y

(* Powers of the same base multiply. *)
LEMMA PowerSum ==
  ASSUME NEW b \in Nat, NEW m \in Nat, NEW n \in Nat
  PROVE  Power(b, m + n) = Power(b, m) * Power(b, n)
<1> DEFINE S == {k \in 0 .. n : Power(b, m + k) = Power(b, m) * Power(b, k)}
<1>1. 0 \in S
  BY Powers
<1>2. ASSUME NEW k \in 0 .. n - 1, k \in S PROVE k + 1 \in S
  <2> DEFINE y == Power(b, k)
             z == Power(b, m)
  <2>1. /\ y \in Nat /\ z \in Nat /\ Power(b, k + 1) = b * y
        /\ Power(b, m + k) = z * y /\ Power(b, (m + k) + 1) = b * Power(b, m + k)
    BY <1>2, Powers, k \in Nat, m + k \in Nat
  <2>2. b * (z * y) = z * (b * y)
    <3> HIDE DEF y, z
    <3> QED BY <2>1
  <2>3. Power(b, m + (k + 1)) = Power(b, (m + k) + 1)
    BY m + (k + 1) = (m + k) + 1
  <2> QED BY <2>1, <2>2, <2>3
<1>3. 0 .. n \subseteq S
  <2> HIDE DEF S
  <2> QED BY <1>1, <1>2, UpwardInduction
<1> QED BY <1>3

(* Base finds the digits. *)
LEMMA BaseDigits ==
  ASSUME NEW n \in Nat
  PROVE  Base(n) \in Nat /\ Power(2, Base(n)) \in Nat /\ Power(2, Base(n)) >= n
<1> DEFINE S == {b \in 0 .. n : Power(2, b) >= n}
<1>1. n \in S
  BY PowerAboveExponent
<1>2. PICK m \in S : \A k \in S : m <= k
  <2>1. S \in SUBSET Nat /\ S # {}
    BY <1>1
  <2> HIDE DEF S
  <2> QED BY <2>1, LeastNatural
<1>3. \A c \in 0 .. m - 1 : Power(2, c) < n
  <2> SUFFICES ASSUME NEW c \in 0 .. m - 1 PROVE Power(2, c) < n
    OBVIOUS
  <2>1. c \in Nat /\ c \in 0 .. n /\ c \notin S
    BY <1>2
  <2>2. Power(2, c) \in Nat
    BY <2>1, Powers
  <2> QED BY <2>1, <2>2
<1>4. \E b \in 0 .. n : Power(2, b) >= n /\ \A c \in 0 .. b - 1 : Power(2, c) < n
  BY <1>2, <1>3
<1>5. Base(n) \in 0 .. n /\ Power(2, Base(n)) >= n
  BY <1>4 DEF Base
<1> QED BY <1>5, Powers

(* Quotient and remainder. *)
LEMMA Division ==
  ASSUME NEW n \in Nat, NEW d \in Nat \ {0}
  PROVE  /\ n \div d \in Nat
         /\ n % d \in 0 .. d - 1
         /\ n = d * (n \div d) + (n % d)
OBVIOUS

-----------------------------------------------------------------------------
\* The permutations of the numbers below m.
Permutation(m) == {f \in [0 .. m - 1 -> 0 .. m - 1] : \A a, b \in 0 .. m - 1 : f[a] = f[b] => a = b}

(* An exchange keeps a permutation. *)
LEMMA ExchangePermutes ==
  ASSUME NEW m \in Nat, NEW f \in Permutation(m), NEW a \in 0 .. m - 1, NEW b \in 0 .. m - 1
  PROVE  Exchange(f, a, b) \in Permutation(m)
<1> DEFINE h == Exchange(f, a, b)
<1>1. f \in [0 .. m - 1 -> 0 .. m - 1] /\ \A c, d \in 0 .. m - 1 : f[c] = f[d] => c = d
  BY DEF Permutation
<1>2. /\ h \in [0 .. m - 1 -> 0 .. m - 1]
      /\ \A c \in 0 .. m - 1 : h[c] = IF c = b THEN f[a] ELSE IF c = a THEN f[b] ELSE f[c]
  BY <1>1 DEF Exchange
<1> HIDE DEF h
<1>3. \A c, d \in 0 .. m - 1 : h[c] = h[d] => c = d
  BY <1>1, <1>2
<1>4. h \in Permutation(m)
  BY <1>2, <1>3 DEF Permutation
<1> QED BY <1>4 DEF h

\* The exchanges of Fisher and Yates make a permutation of the numbers of base
\* digits, whatever the key stream is: no two pairs are laid in one slot.
THEOREM PermutationHolds ==
  ASSUME NEW base \in Nat, NEW stream, NEW n \in Nat, stream \in [0 .. n - 1 -> Nat],
         Power(2, base) <= n
  PROVE  pseudo_random_permutation(stream, base) \in Permutation(Power(2, base))
<1> DEFINE interval == Power(2, base)
           identity == [v \in 0 .. interval - 1 |-> v]
           j(k) == (k - 1) + (stream[k - 1] % (interval - (k - 1)))
           Body(f) == [k \in 0 .. interval - 1 |->
                          IF k = 0 THEN identity ELSE Exchange(f[k - 1], k - 1, j(k))]
           X == Permutation(interval)
           F == [z \in (1 .. interval - 1) \X X |-> Exchange(z[2], z[1] - 1, j(z[1]))]
           p == CHOOSE f : f = Body(f)
<1>1. interval \in Nat \ {0} /\ interval - 1 \in Nat
  <2>1. interval \in Nat \ {0}
    BY PowerOfTwo
  <2> HIDE DEF interval
  <2> QED BY <2>1
<1>2. pseudo_random_permutation(stream, base) = p[interval - 1]
  BY DEF pseudo_random_permutation
<1>3. interval <= n
  OBVIOUS
<1> HIDE DEF interval
<1>4. identity \in X
  <2>1. identity \in [0 .. interval - 1 -> 0 .. interval - 1]
    BY <1>1
  <2>2. \A a, b \in 0 .. interval - 1 : identity[a] = identity[b] => a = b
    BY <1>1
  <2> HIDE DEF identity
  <2> QED BY <2>1, <2>2 DEF Permutation
<1>5. ASSUME NEW k \in 1 .. interval - 1
      PROVE  j(k) \in 0 .. interval - 1 /\ k - 1 \in 0 .. interval - 1
  <2>1. k - 1 \in 0 .. n - 1
    BY <1>1, <1>3
  <2>2. stream[k - 1] \in Nat
    BY <2>1
  <2>3. interval - (k - 1) \in Nat \ {0}
    BY <1>1
  <2>4. stream[k - 1] % (interval - (k - 1)) \in 0 .. (interval - (k - 1)) - 1
    BY <2>2, <2>3, Division
  <2> QED BY <1>1, <2>4
<1> HIDE DEF j
<1>6. F \in [(1 .. interval - 1) \X X -> X]
  <2>1. ASSUME NEW k \in 1 .. interval - 1, NEW s \in X
        PROVE  Exchange(s, k - 1, j(k)) \in X
    BY <1>1, <1>5, ExchangePermutes
  <2> HIDE DEF X
  <2>2. \A z \in (1 .. interval - 1) \X X : Exchange(z[2], z[1] - 1, j(z[1])) \in X
    BY <2>1
  <2> QED BY <2>2
<1>7. PICK g : Runs(g, X, F, identity, interval - 1)
  <2> HIDE DEF F, X, identity
  <2> QED BY <1>1, <1>4, <1>6, Recursion
<1>8. g = Body(g)
  <2>1. /\ g \in [0 .. interval - 1 -> X] /\ g[0] = identity
        /\ \A k \in 1 .. interval - 1 : g[k] = F[<<k, g[k - 1]>>]
    BY <1>7 DEF Runs
  <2>2. \A k \in 1 .. interval - 1 : g[k] = Exchange(g[k - 1], k - 1, j(k))
    <3> SUFFICES ASSUME NEW k \in 1 .. interval - 1
                 PROVE  g[k] = Exchange(g[k - 1], k - 1, j(k))
      OBVIOUS
    <3>1. g[k - 1] \in X
      BY <1>1, <2>1, k - 1 \in 0 .. interval - 1
    <3>2. F[<<k, g[k - 1]>>] = Exchange(g[k - 1], k - 1, j(k))
      <4> HIDE DEF X
      <4> QED BY <3>1
    <3> QED BY <2>1, <3>2
  <2> HIDE DEF F, X, identity
  <2>3. \A k \in 0 .. interval - 1 :
           g[k] = IF k = 0 THEN identity ELSE Exchange(g[k - 1], k - 1, j(k))
    BY <1>1, <2>1, <2>2
  <2> QED BY <2>1, <2>3
<1>9. p = Body(p)
  BY <1>8
<1> HIDE DEF p
<1>10. /\ p[0] = identity
       /\ \A k \in 1 .. interval - 1 : p[k] = Exchange(p[k - 1], k - 1, j(k))
  <2> HIDE DEF identity
  <2>1. \A k \in 0 .. interval - 1 :
           Body(p)[k] = IF k = 0 THEN identity ELSE Exchange(p[k - 1], k - 1, j(k))
    OBVIOUS
  <2> HIDE DEF Body
  <2>2. \A k \in 0 .. interval - 1 :
           p[k] = IF k = 0 THEN identity ELSE Exchange(p[k - 1], k - 1, j(k))
    BY <1>9, <2>1
  <2>3. 0 \in 0 .. interval - 1 /\ \A k \in 1 .. interval - 1 : k \in 0 .. interval - 1 /\ k # 0
    BY <1>1
  <2> QED BY <2>2, <2>3
<1>11. p[interval - 1] \in X
  <2> DEFINE S == {k \in 0 .. interval - 1 : p[k] \in X}
  <2> HIDE DEF X, identity, Body
  <2>1. 0 \in S
    BY <1>1, <1>4, <1>10
  <2>2. ASSUME NEW k \in 0 .. interval - 1 - 1, k \in S PROVE k + 1 \in S
    <3>1. k + 1 \in 1 .. interval - 1 /\ (k + 1) - 1 = k /\ k + 1 \in 0 .. interval - 1
      BY <1>1
    <3>2. p[k + 1] = Exchange(p[k], k, j(k + 1))
      BY <1>10, <3>1
    <3>3. p[k] \in X
      BY <2>2
    <3>4. j(k + 1) \in 0 .. interval - 1 /\ k \in 0 .. interval - 1
      BY <1>5, <3>1
    <3>5. Exchange(p[k], k, j(k + 1)) \in X
      BY <1>1, <3>3, <3>4, ExchangePermutes DEF X
    <3> QED BY <3>1, <3>2, <3>5
  <2>3. 0 .. interval - 1 \subseteq S
    <3> HIDE DEF S
    <3> QED BY <1>1, <2>1, <2>2, UpwardInduction
  <2>4. interval - 1 \in 0 .. interval - 1
    BY <1>1
  <2> QED BY <2>3, <2>4
<1> QED BY <1>2, <1>11 DEF interval
-----------------------------------------------------------------------------
\* Two numbers that get_bits puts into the same slot are the same.
THEOREM GetBitsInjective ==
  ASSUME NEW base \in Nat, NEW alpha \in 0 .. base, NEW m \in Nat, NEW n \in Nat,
         get_bits(base, m, alpha) = get_bits(base, n, alpha)
  PROVE  m = n
<1> DEFINE d == Power(2, base - alpha)
<1>0. d \in Nat \ {0}
  BY PowerOfTwo, base - alpha \in Nat
<1>1. m \div d = n \div d /\ m % d = n % d
  BY alpha <= base DEF get_bits
<1> HIDE DEF d
<1>2. m = d * (m \div d) + (m % d)
  BY <1>0, Division
<1>3. n = d * (n \div d) + (n % d)
  BY <1>0, Division
<1> QED BY <1>1, <1>2, <1>3

\* 2^alpha arrays of 2^(base - alpha) slots.
LEMMA SlotOfDigits ==
  ASSUME NEW base \in Nat, NEW alpha \in 0 .. base, NEW n \in 0 .. Power(2, base) - 1
  PROVE  get_bits(base, n, alpha) \in Slots(base, alpha)
<1> DEFINE d == Power(2, base - alpha)
           a == Power(2, alpha)
<1>0. a \in Nat /\ d \in Nat \ {0}
  <2>1. alpha \in Nat /\ base - alpha \in Nat
    OBVIOUS
  <2>2. d \in Nat \ {0} /\ a \in Nat \ {0}
    BY <2>1, PowerOfTwo
  <2> QED BY <2>2
<1>a. Power(2, base) = a * d
  <2>1. alpha \in Nat /\ base - alpha \in Nat /\ alpha + (base - alpha) = base
    OBVIOUS
  <2> QED BY <2>1, PowerSum
<1>b. get_bits(base, n, alpha) = <<n \div d, n % d>>
  BY alpha <= base DEF get_bits
<1>c. Slots(base, alpha) = (0 .. a - 1) \X (0 .. d - 1)
  BY alpha <= base DEF Slots, ArraySize
<1> HIDE DEF d, a
<1>1. n \in Nat /\ n < a * d
  BY <1>0, <1>a
<1>2. n \div d \in Nat /\ n % d \in 0 .. d - 1 /\ n = d * (n \div d) + (n % d)
  BY <1>0, <1>1, Division
<1>3. n \div d < a
  <2>1. SUFFICES ASSUME n \div d >= a PROVE FALSE
    BY <1>2, <1>0
  <2>2. \A q \in Nat : q >= a => d * q >= a * d
    BY <1>0
  <2> QED BY <1>1, <1>2, <1>0, <2>1, <2>2
<1>4. n \div d \in 0 .. a - 1
  BY <1>0, <1>2, <1>3
<1> QED BY <1>2, <1>4, <1>b, <1>c

\* The slot is one of the sub arrays, whether the number has alpha digits or not.
THEOREM GetBitsInSlots ==
  ASSUME NEW base \in Nat, NEW alpha \in Nat, NEW n \in 0 .. Power(2, base) - 1
  PROVE  get_bits(base, n, alpha) \in Slots(base, alpha)
<1>1. CASE ~(alpha <= base)
  <2>1. get_bits(base, n, alpha) = <<0, 0>> /\ ArraySize(base, alpha) = 1
    BY <1>1 DEF get_bits, ArraySize
  <2> DEFINE y == Power(2, alpha)
  <2>2. y \in Nat \ {0}
    BY PowerOfTwo
  <2>3. Slots(base, alpha) = (0 .. y - 1) \X (0 .. 0)
    BY <2>1 DEF Slots
  <2> HIDE DEF y
  <2>4. 0 \in 0 .. y - 1
    BY <2>2
  <2> QED BY <2>1, <2>3, <2>4
<1>2. CASE alpha <= base
  BY <1>2, SlotOfDigits
<1> QED BY <1>1, <1>2
-----------------------------------------------------------------------------
\* f tells where the elements of a sorted array come from.
Sorts(f, n, s, key) ==
    /\ f \in Bijection(1 .. n, 1 .. n)
    /\ DOMAIN SortedBy(s, key) = 1 .. n
    /\ \A r \in 1 .. n : SortedBy(s, key)[r] = s[f[r]]
    /\ \A q, r \in 1 .. n : q <= r => key[f[q]] <= key[f[r]]

\* Sorting loses and repeats no element, and puts them in the order of the keys.
THEOREM SortHolds ==
  ASSUME NEW n \in Nat, NEW s, DOMAIN s = 1 .. n, NEW key \in [1 .. n -> Int]
  PROVE  \E f : Sorts(f, n, s, key)
<1> DEFINE Below(j) == {k \in 1 .. n : key[k] < key[j] \/ (key[k] = key[j] /\ k <= j)}
           R == [j \in 1 .. n |-> Rank(key, j)]
           f == [r \in 1 .. n |-> CHOOSE j \in 1 .. n : R[j] = r]
<1>1. \A j \in 1 .. n : R[j] = Cardinality(Below(j))
  BY DEF Rank
<1>2. /\ DOMAIN SortedBy(s, key) = 1 .. n
      /\ \A r \in 1 .. n : SortedBy(s, key)[r] = s[f[r]]
  BY DEF SortedBy
<1>3. IsFiniteSet(1 .. n) /\ Cardinality(1 .. n) = n
  BY FS_Interval
<1>4. ASSUME NEW j \in 1 .. n
      PROVE  IsFiniteSet(Below(j)) /\ Below(j) \subseteq 1 .. n /\ j \in Below(j) /\ R[j] \in 1 .. n
  <2>1. Below(j) \subseteq 1 .. n /\ j \in Below(j)
    OBVIOUS
  <2> DEFINE B == Below(j)
  <2>a. B \subseteq 1 .. n /\ j \in B /\ R[j] = Cardinality(B)
    BY <1>1, <2>1
  <2> HIDE DEF B, R
  <2>2. IsFiniteSet(B) /\ Cardinality(B) \in Nat /\ Cardinality(B) <= n
    BY <1>3, <2>a, FS_Subset, FS_CardinalityType
  <2>3. Cardinality(B) # 0
    BY <2>2, <2>a, FS_EmptySet
  <2>4. R[j] \in 1 .. n
    BY <2>2, <2>3, <2>a
  <2> QED BY <2>1, <2>2, <2>4 DEF B
<1>5. ASSUME NEW j \in 1 .. n, NEW k \in 1 .. n, k \in Below(j), k # j
      PROVE  R[k] < R[j]
  <2>1. Below(k) \subseteq Below(j) /\ j \notin Below(k)
    BY <1>5
  <2> DEFINE A == Below(k)
             B == Below(j)
  <2>2. A \subseteq B /\ A # B
    BY <1>4, <2>1
  <2>a. R[k] \in 1 .. n /\ R[j] \in 1 .. n /\ IsFiniteSet(B)
    BY <1>4
  <2>b. R[k] = Cardinality(A) /\ R[j] = Cardinality(B)
    BY <1>1
  <2> HIDE DEF A, B, R
  <2>3. /\ IsFiniteSet(B) /\ R[k] = Cardinality(A) /\ R[j] = Cardinality(B)
        /\ R[k] \in Nat /\ R[j] \in Nat
    BY <2>a, <2>b
  <2>4. Cardinality(A) <= Cardinality(B) /\ Cardinality(A) # Cardinality(B)
    BY <2>2, <2>3, FS_Subset
  <2> QED BY <2>3, <2>4
<1>6. \A j, k \in 1 .. n : R[j] = R[k] => j = k
  <2> SUFFICES ASSUME NEW j \in 1 .. n, NEW k \in 1 .. n, R[j] = R[k], j # k PROVE FALSE
    OBVIOUS
  <2>1. j \in Below(k) \/ k \in Below(j)
    OBVIOUS
  <2>a. R[j] \in 1 .. n /\ R[k] \in 1 .. n
    BY <1>4
  <2> HIDE DEF R, Below
  <2>2. R[j] \in Nat /\ R[k] \in Nat
    BY <2>a
  <2>3. R[j] < R[k] \/ R[k] < R[j]
    BY <1>5, <2>1
  <2> QED BY <2>2, <2>3
<1>7. R \in Injection(1 .. n, 1 .. n)
  <2>1. R \in [1 .. n -> 1 .. n]
    BY <1>4
  <2> HIDE DEF R
  <2> QED BY <1>6, <2>1, Fun_IsInj
<1> HIDE DEF R, Below
<1>8. \A r \in 1 .. n : \E j \in 1 .. n : R[j] = r
  <2>1. R \in Surjection(1 .. n, 1 .. n)
    BY <1>3, <1>7, FS_Injection
  <2> QED BY <2>1, Zenon DEF Surjection
<1>9. \A r \in 1 .. n : f[r] \in 1 .. n /\ R[f[r]] = r
  BY <1>8
<1> HIDE DEF f
<1>10. f \in [1 .. n -> 1 .. n]
  <2>1. f = [r \in 1 .. n |-> f[r]]
    BY DEF f
  <2> QED BY <1>9, <2>1
<1>11. f \in Bijection(1 .. n, 1 .. n)
  <2>1. \A a, b \in 1 .. n : f[a] = f[b] => a = b
    BY <1>9
  <2>2. \A t \in 1 .. n : \E r \in 1 .. n : f[r] = t
    <3> SUFFICES ASSUME NEW t \in 1 .. n PROVE \E r \in 1 .. n : f[r] = t
      OBVIOUS
    <3>1. R[t] \in 1 .. n
      BY <1>4
    <3>2. R[f[R[t]]] = R[t] /\ f[R[t]] \in 1 .. n
      BY <1>9, <3>1
    <3>3. f[R[t]] = t
      BY <1>6, <3>2
    <3> QED BY <3>1, <3>3
  <2> QED BY <1>10, <2>1, <2>2, Fun_IsBij
<1>12. \A q, r \in 1 .. n : q <= r => key[f[q]] <= key[f[r]]
  <2> SUFFICES ASSUME NEW q \in 1 .. n, NEW r \in 1 .. n, q <= r, ~(key[f[q]] <= key[f[r]])
               PROVE  FALSE
    OBVIOUS
  <2>1. f[q] \in 1 .. n /\ f[r] \in 1 .. n /\ key[f[q]] \in Int /\ key[f[r]] \in Int
    BY <1>10
  <2>2. key[f[r]] < key[f[q]]
    BY <2>1
  <2>3. f[r] \in Below(f[q]) /\ f[r] # f[q]
    BY <2>1, <2>2 DEF Below
  <2>4. R[f[r]] < R[f[q]]
    BY <1>5, <2>1, <2>3
  <2> QED BY <1>9, <2>4
<1> QED BY <1>2, <1>11, <1>12 DEF Sorts
-----------------------------------------------------------------------------
(* Of some slots that are not none, one is the first. *)
LEMMA FirstSlotIn ==
  ASSUME NEW S, S \subseteq Nat \X Nat, S # {}
  PROVE  FirstSlot(S) \in S
<1> DEFINE A == {s[1] : s \in S}
<1>1. A \in SUBSET Nat /\ A # {}
  OBVIOUS
<1>2. PICK a \in A : \A b \in A : a <= b
  <2> HIDE DEF A
  <2> QED BY <1>1, LeastNatural
<1> DEFINE B == {s[2] : s \in {t \in S : t[1] = a}}
<1>3. B \in SUBSET Nat /\ B # {}
  BY <1>2
<1>4. PICK c \in B : \A b \in B : c <= b
  <2> HIDE DEF B
  <2> QED BY <1>3, LeastNatural
<1>5. PICK s \in S : s[1] = a /\ s[2] = c
  BY <1>4
<1>6. \A t \in S : s[1] < t[1] \/ (s[1] = t[1] /\ s[2] <= t[2])
  <2> SUFFICES ASSUME NEW t \in S PROVE s[1] < t[1] \/ (s[1] = t[1] /\ s[2] <= t[2])
    OBVIOUS
  <2>1. t[1] \in A /\ t[1] \in Nat /\ a \in Nat
    BY <1>1
  <2>2. CASE t[1] = a
    BY <1>4, <1>5, <2>2
  <2>3. CASE t[1] # a
    <3>1. a <= t[1]
      BY <1>2, <2>1
    <3> HIDE DEF A
    <3>2. a < t[1]
      BY <2>1, <2>3, <3>1
    <3> QED BY <1>5, <3>2
  <2> QED BY <2>2, <2>3
<1> QED BY <1>5, <1>6 DEF FirstSlot
-----------------------------------------------------------------------------
(* Counting through a bijection. *)
LEMMA CountThrough ==
  ASSUME NEW n \in Nat, NEW f \in Bijection(1 .. n, 1 .. n), NEW A \in SUBSET (1 .. n)
  PROVE  Cardinality({r \in 1 .. n : f[r] \in A}) = Cardinality(A)
<1> DEFINE B == {r \in 1 .. n : f[r] \in A}
           g == [r \in B |-> f[r]]
<1>1. /\ f \in [1 .. n -> 1 .. n]
      /\ \A a, b \in 1 .. n : f[a] = f[b] => a = b
      /\ \A t \in 1 .. n : \E r \in 1 .. n : f[r] = t
  BY DEF Bijection, Injection, Surjection, IsInjective
<1>2. g \in Bijection(B, A)
  <2>1. g \in [B -> A]
    BY <1>1
  <2>2. \A a, b \in B : g[a] = g[b] => a = b
    BY <1>1
  <2>3. \A t \in A : \E r \in B : g[r] = t
    BY <1>1
  <2> HIDE DEF g, B
  <2> QED BY <2>1, <2>2, <2>3, Fun_IsBij
<1>3. IsFiniteSet(B)
  <2>1. B \in SUBSET (1 .. n) /\ IsFiniteSet(1 .. n)
    BY FS_Interval
  <2> HIDE DEF B
  <2> QED BY <2>1, FS_Subset
<1> HIDE DEF g, B
<1>4. ExistsBijection(B, A)
  BY <1>2, Fun_ExistsBij
<1>5. Cardinality(B) = Cardinality(A)
  BY <1>3, <1>4, FS_Bijection
<1> QED BY <1>5 DEF B

(* A set of natural numbers without gaps is an interval. *)
LEMMA NoGaps ==
  ASSUME NEW n \in Nat, NEW A \in SUBSET (1 .. n), NEW a \in A, \A b \in A : a <= b,
         \A b \in A, c \in 1 .. n : a <= c /\ c <= b => c \in A
  PROVE  A = a .. a + Cardinality(A) - 1
<1> DEFINE D == {n - b : b \in A}
<1>1. D \in SUBSET Nat /\ D # {}
  OBVIOUS
<1>2. PICK d \in D : \A e \in D : d <= e
  <2> HIDE DEF D
  <2> QED BY <1>1, LeastNatural
<1>3. PICK top \in A : d = n - top
  BY <1>2
<1>4. \A b \in A : b <= top
  <2> SUFFICES ASSUME NEW b \in A PROVE b <= top
    OBVIOUS
  <2>1. n - b \in D
    OBVIOUS
  <2>2. n - top <= n - b
    BY <1>2, <1>3, <2>1
  <2>3. top \in Nat /\ b \in Nat
    OBVIOUS
  <2> HIDE DEF D
  <2> QED BY <2>2, <2>3
<1>5. A = a .. top
  <2>1. \A c \in 1 .. n : a <= c /\ c <= top => c \in A
    OBVIOUS
  <2>2. \A b \in A : b \in 1 .. n /\ a <= b /\ b <= top
    BY <1>4
  <2>3. \A c \in a .. top : c \in 1 .. n
    BY a \in 1 .. n, top \in 1 .. n
  <2>4. \A b \in A : b \in a .. top
    BY <2>2, a \in 1 .. n, top \in 1 .. n
  <2>5. \A c \in a .. top : c \in A
    BY <2>1, <2>3, a \in 1 .. n, top \in 1 .. n
  <2> QED BY <2>4, <2>5
<1>6. Cardinality(A) = top - a + 1
  BY <1>4, <1>5, FS_Interval
<1> QED BY <1>5, <1>6

-----------------------------------------------------------------------------
(***************************************************************************)
(* A tree of N levels.  Its modules write 2^n for a power, which the       *)
(* provers do not know, and assume PowersUpTo(N).                          *)
(***************************************************************************)
PowersUpTo(N) ==
    /\ 2^0 = 1
    /\ \A n \in 0 .. N : 2^n \in Nat /\ 2^(n + 1) = 2 * 2^n

\* P of OramTree.
TreePosition(N, leaf, level) == 2^level - 1 + leaf \div 2^(N - level - 1)

(* Powers of two are positive. *)
LEMMA PowerType ==
  ASSUME NEW N \in Nat, PowersUpTo(N)
  PROVE  \A n \in 0 .. N : 2^n \in Nat /\ 2^n >= 1
<1> DEFINE S == {n \in 0 .. N : 2^n \in Nat /\ 2^n >= 1}
<1>1. 0 \in S
  BY DEF PowersUpTo
<1>2. \A k \in 0 .. N - 1 : k \in S => k + 1 \in S
  BY DEF PowersUpTo
<1>3. 0 .. N \subseteq S
  <2> HIDE DEF S
  <2> QED BY <1>1, <1>2, UpwardInduction
<1> QED BY <1>3

(* Powers of two at least double from one exponent to a greater one. *)
LEMMA PowerMono ==
  ASSUME NEW N \in Nat, PowersUpTo(N), NEW i \in 0 .. N, NEW j \in 0 .. N, i < j
  PROVE  2 * 2^i <= 2^j
<1> DEFINE S == {n \in 0 .. N : i < n => 2 * 2^i <= 2^n}
<1>1. 0 \in S
  OBVIOUS
<1>2. \A k \in 0 .. N - 1 : k \in S => k + 1 \in S
  <2>1. \A n \in 0 .. N : 2^n \in Nat /\ 2^n >= 1
    BY PowerType
  <2> QED BY <2>1 DEF PowersUpTo
<1>3. 0 .. N \subseteq S
  <2> HIDE DEF S
  <2> QED BY <1>1, <1>2, UpwardInduction
<1> QED BY <1>3

(* A level has as many buckets as the leaves divided by those below each. *)
LEMMA PowerSplit ==
  ASSUME NEW N \in Nat, PowersUpTo(N), NEW l \in 0 .. N
  PROVE  2^N = 2^l * 2^(N - l)
<1> DEFINE S == {n \in 0 .. N : 2^N = 2^n * 2^(N - n)}
<1>0. \A n \in 0 .. N : 2^n \in Nat /\ 2^n >= 1
  BY PowerType
<1>1. 0 \in S
  <2>1. 2^N \in Nat /\ N - 0 = N /\ 2^0 = 1
    BY <1>0 DEF PowersUpTo
  <2> QED BY <2>1
<1>2. \A k \in 0 .. N - 1 : k \in S => k + 1 \in S
  <2> TAKE k \in 0 .. N - 1
  <2> HAVE k \in S
  <2>1. 2^(k + 1) = 2 * 2^k /\ 2^k \in Nat
    BY DEF PowersUpTo
  <2>2. 2^((N - (k + 1)) + 1) = 2 * 2^(N - (k + 1)) /\ 2^(N - (k + 1)) \in Nat
    <3>1. N - (k + 1) \in 0 .. N
      OBVIOUS
    <3> QED BY <3>1 DEF PowersUpTo
  <2>3. (N - (k + 1)) + 1 = N - k
    OBVIOUS
  <2>4. 2^N = 2^k * 2^(N - k)
    OBVIOUS
  <2>5. 2^N = 2^k * (2 * 2^(N - (k + 1)))
    BY <2>2, <2>3, <2>4
  <2>6. \A a, b \in Nat : a * (2 * b) = (2 * a) * b
    OBVIOUS
  <2> QED BY <2>1, <2>2, <2>5, <2>6
<1>3. 0 .. N \subseteq S
  <2> HIDE DEF S
  <2> QED BY <1>1, <1>2, UpwardInduction
<1> QED BY <1>3

(* The quotient of a number below m * d is below m. *)
LEMMA DivisionBound ==
  ASSUME NEW a \in Nat, NEW m \in Nat \ {0}, NEW d \in Nat \ {0}, a < m * d
  PROVE  a \div d \in 0 .. m - 1
<1>1. a \div d \in Nat /\ a = d * (a \div d) + (a % d) /\ a % d \in 0 .. d - 1
  OBVIOUS
<1>2. ASSUME a \div d >= m PROVE FALSE
  <2>1. \A q \in Nat : q >= m => d * q >= m * d
    OBVIOUS
  <2> QED BY <1>1, <1>2, <2>1
<1> QED BY <1>1, <1>2

(* The buckets of level l are the 2^l positions of that level, and the     *)
(* buckets of a path are buckets of the storage, which has 2^N - 1.        *)
THEOREM PositionOfLevel ==
  ASSUME NEW N \in Nat \ {0}, PowersUpTo(N),
         NEW x \in 0 .. 2^(N - 1) - 1, NEW l \in 0 .. N - 1
  PROVE  /\ TreePosition(N, x, l) \in 2^l - 1 .. 2^(l + 1) - 2
         /\ TreePosition(N, x, l) \in 0 .. 2^N - 2
<1> DEFINE d == 2^(N - l - 1)
<1>0. \A n \in 0 .. N : 2^n \in Nat /\ 2^n >= 1
  BY PowerType
<1>1. l \in 0 .. N /\ N - l - 1 \in 0 .. N /\ l + 1 \in 0 .. N /\ N - 1 \in 0 .. N
  OBVIOUS
<1>2. d \in Nat \ {0} /\ 2^l \in Nat \ {0} /\ 2^(l + 1) = 2 * 2^l
  BY <1>0, <1>1 DEF PowersUpTo
<1>3. x \in Nat /\ x < 2^l * d
  <2>1. N - 1 \in Nat /\ PowersUpTo(N - 1) /\ l \in 0 .. N - 1
    BY DEF PowersUpTo
  <2>2. 2^(N - 1) = 2^l * 2^((N - 1) - l)
    BY <2>1, PowerSplit
  <2>3. (N - 1) - l = N - l - 1 /\ 2^(N - 1) \in Nat
    BY <1>0, <1>1
  <2> QED BY <2>2, <2>3
<1>4. x \div d \in 0 .. 2^l - 1
  <2> HIDE DEF d
  <2> QED BY <1>2, <1>3, DivisionBound
<1>5. TreePosition(N, x, l) = 2^l - 1 + x \div d
  BY DEF TreePosition
<1>6. TreePosition(N, x, l) \in 2^l - 1 .. 2^(l + 1) - 2
  BY <1>2, <1>4, <1>5
<1>7. 2^(l + 1) <= 2^N
  <2>1. CASE l + 1 = N
    BY <2>1, <1>0
  <2>2. CASE l + 1 < N
    BY <2>2, <1>0, <1>1, PowerMono
  <2> QED BY <1>1, <2>1, <2>2
<1>8. 2^(l + 1) \in Nat /\ 2^N \in Nat
  BY <1>0, <1>1
<1> QED BY <1>2, <1>6, <1>7, <1>8

(* Buckets of different levels are different. *)
THEOREM LevelsApart ==
  ASSUME NEW N \in Nat \ {0}, PowersUpTo(N),
         NEW x \in 0 .. 2^(N - 1) - 1, NEW y \in 0 .. 2^(N - 1) - 1,
         NEW i \in 0 .. N - 1, NEW j \in 0 .. N - 1,
         TreePosition(N, x, i) = TreePosition(N, y, j)
  PROVE  i = j
<1>0. \A n \in 0 .. N : 2^n \in Nat /\ 2^n >= 1
  BY PowerType
<1>1. ASSUME NEW a \in 0 .. 2^(N - 1) - 1, NEW b \in 0 .. 2^(N - 1) - 1,
             NEW k \in 0 .. N - 1, NEW l \in 0 .. N - 1, k < l
      PROVE  TreePosition(N, a, k) < TreePosition(N, b, l)
  <2>1. k \in 0 .. N /\ l \in 0 .. N /\ l + 1 \in 0 .. N
    OBVIOUS
  <2>2. 2^(k + 1) <= 2^l /\ 2^(k + 1) \in Nat /\ 2^l \in Nat
    <3>1. 2 * 2^k <= 2^l
      BY <2>1, <1>1, PowerMono
    <3> QED BY <3>1, <2>1, <1>0 DEF PowersUpTo
  <2>3. /\ TreePosition(N, a, k) \in 2^k - 1 .. 2^(k + 1) - 2
        /\ TreePosition(N, b, l) \in 2^l - 1 .. 2^(l + 1) - 2
    BY PositionOfLevel
  <2>4. 2^k \in Nat /\ 2^(l + 1) \in Nat
    BY <2>1, <1>0
  <2> QED BY <2>2, <2>3, <2>4
<1>2. TreePosition(N, x, i) \in Int /\ TreePosition(N, y, j) \in Int
  BY PositionOfLevel
<1>3. ~ (i < j) /\ ~ (j < i)
  BY <1>1, <1>2
<1> QED BY <1>3
=============================================================================
