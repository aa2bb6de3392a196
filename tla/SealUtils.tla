----------------------------- MODULE SealUtils -----------------------------
(***************************************************************************)
(* The helpers of utils.cpp that lay pairs out in the sub arrays, and the  *)
(* functions of the C++ library that they and the client use.              *)
(***************************************************************************)
EXTENDS Integers, FiniteSets

\* pow(b, n), as a function that proofs can unfold.
Power(b, n) == LET p[k \in 0 .. n] == IF k = 0 THEN 1 ELSE b * p[k - 1] IN p[n]

\* std::sort of s, whose elements have the keys given.  It leaves the order of
\* equal keys open; here they stay in the order of s.
Rank(key, j) == Cardinality({k \in DOMAIN key : key[k] < key[j] \/ (key[k] = key[j] /\ k <= j)})
SortedBy(s, key) ==
    LET rank == [j \in DOMAIN s |-> Rank(key, j)]
    IN  [r \in DOMAIN s |-> s[CHOOSE j \in DOMAIN s : rank[j] = r]]

\* ceil(log(n) / log(2)), the digits of the numbers below n.
Base(n) == CHOOSE b \in 0 .. n : Power(2, b) >= n /\ \A c \in 0 .. b - 1 : Power(2, c) < n

Exchange_CopyBug(s, a, b) == [s EXCEPT ![a] = s[b]]     \* one half of the swap
Exchange(s, a, b)         == [s EXCEPT ![a] = s[b], ![b] = s[a]]

\* Fisher-Yates over the numbers of base digits with the key stream: round k exchanges
\* number k - 1 with one that is not before it.
pseudo_random_permutation(stream, base) ==
    LET interval == Power(2, base)
        ans_after[k \in 0 .. interval - 1] ==
           IF k = 0 THEN [v \in 0 .. interval - 1 |-> v]
           ELSE LET j == (k - 1) + (stream[k - 1] % (interval - (k - 1)))
                    s == ans_after[k - 1]
                IN  Exchange(s, k - 1, j)
    IN  ans_after[interval - 1]

\* The alpha high bits of a number of base digits choose the ORAM, the rest the address.
\* Nobody sees to it that the number has alpha digits.  If it has not, the width of the rest
\* wraps below zero: the shift by more than 31 and the conversion of the infinite power are
\* undefined, and the x86-64 build of the Makefile gives zeros for both (alpha up to 32).
get_bits_WidthBug(base, number, alpha) == <<number \div Power(2, alpha), number % Power(2, alpha)>>
get_bits(base, number, alpha) ==
    IF alpha <= base THEN <<number \div Power(2, base - alpha), number % Power(2, base - alpha)>>
    ELSE <<0, 0>>

\* The subscripts of the sub arrays; an array has ceil(2^base / 2^alpha) elements.
ArraySize(base, alpha) == IF alpha <= base THEN Power(2, base - alpha) ELSE 1
Slots(base, alpha)     == (0 .. Power(2, alpha) - 1) \X (0 .. ArraySize(base, alpha) - 1)

\* The one of some slots that the upload writes first.
FirstSlot(slots) == CHOOSE s \in slots : \A t \in slots :
                       s[1] < t[1] \/ (s[1] = t[1] /\ s[2] <= t[2])
=============================================================================
