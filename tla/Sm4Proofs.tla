----------------------------- MODULE Sm4Proofs -----------------------------
(***************************************************************************)
(* What is encrypted is decrypted to the same bytes, for any message, any  *)
(* key and any tables: the rounds are undone whatever the substitution is. *)
(***************************************************************************)
EXTENDS Sm4, SequenceTheorems, TLAPS

\* The 32 bits that PUT_ULONG_BE keeps of a word.
Low(x) == x \cap 0 .. 31

Padded == pad(ptext, AES_BLOCK_BYTES)

\* The first n rounds were done on U with the subkeys s.
Chain(U, s, n) ==
    \A j \in 0 .. n - 1 : U[j + 4] = sm4F(U[j], U[j + 1], U[j + 2], U[j + 3], s[j])

\* The first n steps of the key schedule.
KeyChain(K, s, n) ==
    /\ \A j \in 0 .. 3 : K[j] = KeyWords(key)[j]
    /\ \A j \in 0 .. n - 1 :
          /\ K[j + 4] = Xor(K[j], sm4CalciRK(Xor(Xor(K[j + 1], K[j + 2]), Xor(K[j + 3], CK[j]))))
          /\ s[j] = K[j + 4]

\* U is what the rounds made of the block of s at position n.
Run(U, s, n, subkeys) ==
    /\ Chain(U, subkeys, 32)
    /\ \A w \in 0 .. 3 : U[w] = WordAt(s, n, w)

\* The block at position n of out is the encrypted one of in.
Enciphered(in, out, n, subkeys) ==
    \E U : Run(U, in, n, subkeys) /\ \A b \in 1 .. 16 : out[n + b] = PutBlock(U)[b]

\* f is a function on D.
On(f, D) == f = [n \in D |-> f[n]]

Sizes ==
    /\ ptext \in Seq(Byte) /\ key \in [1 .. 16 -> Byte]
    /\ job \in {"encrypt", "decrypt"}
    /\ i \in 0 .. 32
    /\ On(k, 0 .. 35) /\ On(sk, 0 .. 31) /\ On(ulbuf, 0 .. 35)
    /\ input \in Seq(Byte) /\ output \in Seq(Byte)
    /\ \E m \in Nat : Len(output) = 16 * m
    /\ \E m \in Nat : Len(input) = 16 * m
    /\ length = Len(input) - Len(output) /\ length >= 0
    /\ pc \in {"setkey", "block", "round", "done", "throw", "crash"}
    /\ pc = "round" => length > 0

Encrypting ==
    job = "encrypt" =>
       /\ input = Padded
       /\ pc \in {"setkey", "block", "round"}
       /\ pc = "setkey" => KeyChain(k, sk, i) /\ output = <<>>
       /\ pc \in {"block", "round"} => KeyChain(k, sk, 32)
       /\ \A m \in Nat : 16 * m < Len(output) => Enciphered(input, output, 16 * m, sk)
       /\ pc = "round" => /\ \A w \in 0 .. 3 : ulbuf[w] = WordAt(input, Len(output), w)
                          /\ Chain(ulbuf, sk, i)

\* The encryption is over, and its result is the input.
Kept ==
    /\ Len(input) = Len(Padded)
    /\ KeyChain(enc.k, enc.sk, 32)
    /\ \A m \in Nat : 16 * m < Len(input) => Enciphered(Padded, input, 16 * m, enc.sk)

Decrypting ==
    job = "decrypt" /\ ~lost =>
       /\ Kept
       /\ pc = "setkey" => /\ \A j \in 0 .. i + 3 : k[j] = enc.k[j]
                           /\ \A j \in 0 .. i - 1 : sk[j] = enc.sk[j]
                           /\ output = <<>>
       /\ pc \in {"block", "round"} => \A j \in 0 .. 31 : sk[j] = enc.sk[31 - j]
       /\ \A n \in 1 .. Len(output) : output[n] = Padded[n]
       /\ pc = "round" => \E U : /\ Run(U, Padded, Len(output), enc.sk)
                                 /\ \A j \in 0 .. i + 3 : Low(ulbuf[j]) = Low(U[35 - j])
       /\ pc \in {"done", "throw", "crash"} => pc = "done" /\ result = ptext

CInv == Sizes /\ Encrypting /\ Decrypting
-----------------------------------------------------------------------------
(* Exclusive or.                                                           *)
LEMMA XorLaws ==
  ASSUME NEW a, NEW b, NEW c, NEW d
  PROVE  /\ Xor(Xor(a, b), b) = a
         /\ Xor(Xor(a, b), Xor(c, d)) = Xor(Xor(c, b), Xor(a, d))
         /\ Low(Xor(a, b)) = Xor(Low(a), Low(b))
BY DEF Xor, Low

(* A byte of a word is one of its lower 32 bits.                           *)
LEMMA PutByteLow ==
  ASSUME NEW x, NEW n \in 0 .. 3
  PROVE  PutByte(x, n) = PutByte(Low(x), n) /\ PutByte(x, n) \in Byte
BY DEF PutByte, Low, Byte

(* The bytes of a word and the word of its bytes.                          *)
LEMMA WordOfBytes ==
  ASSUME NEW x
  PROVE  GetWord([n \in 0 .. 3 |-> PutByte(x, n)]) = Low(x)
<1> DEFINE b == [n \in 0 .. 3 |-> PutByte(x, n)]
<1>1. ASSUME NEW e \in Low(x) PROVE e \in GetWord(b)
  <2>1. e \in 0 .. 31 /\ e \in x
    BY <1>1 DEF Low
  <2>2. PICK n \in 0 .. 3, j \in 0 .. 7 : e = 8 * (3 - n) + j
    <3>1. CASE e < 8    BY <2>1, <3>1, e = 8 * (3 - 3) + e
    <3>2. CASE 8 <= e /\ e < 16    BY <2>1, <3>2, e = 8 * (3 - 2) + (e - 8)
    <3>3. CASE 16 <= e /\ e < 24   BY <2>1, <3>3, e = 8 * (3 - 1) + (e - 16)
    <3>4. CASE 24 <= e             BY <2>1, <3>4, e = 8 * (3 - 0) + (e - 24)
    <3> QED BY <2>1, <3>1, <3>2, <3>3, <3>4
  <2>3. j \in b[n]
    BY <2>1, <2>2 DEF PutByte
  <2> QED BY <2>2, <2>3 DEF GetWord
<1>2. ASSUME NEW e \in GetWord(b) PROVE e \in Low(x)
  <2>1. PICK n \in 0 .. 3 : e \in {8 * (3 - n) + j : j \in b[n]}
    BY <1>2 DEF GetWord
  <2>2. PICK j \in b[n] : e = 8 * (3 - n) + j
    BY <2>1
  <2>3. j \in 0 .. 7 /\ e \in x
    BY <2>2 DEF PutByte
  <2> QED BY <2>2, <2>3 DEF Low
<1> QED BY <1>1, <1>2

LEMMA BytesOfWord ==
  ASSUME NEW b, b \in [0 .. 3 -> Byte], NEW n \in 0 .. 3
  PROVE  PutByte(GetWord(b), n) = b[n]
<1>1. ASSUME NEW j \in 0 .. 7, 8 * (3 - n) + j \in GetWord(b) PROVE j \in b[n]
  <2>1. PICK m \in 0 .. 3 : 8 * (3 - n) + j \in {8 * (3 - m) + e : e \in b[m]}
    BY <1>1 DEF GetWord
  <2>2. PICK e \in b[m] : 8 * (3 - n) + j = 8 * (3 - m) + e
    BY <2>1
  <2>3. e \in 0 .. 7
    BY <2>2 DEF Byte
  <2>4. m = n /\ e = j
    BY <2>2, <2>3
  <2> QED BY <2>4
<1>2. ASSUME NEW j \in b[n] PROVE j \in 0 .. 7 /\ 8 * (3 - n) + j \in GetWord(b)
  BY DEF Byte, GetWord
<1> QED BY <1>1, <1>2 DEF PutByte

(* The substitution sees the lower 32 bits only.                           *)
LEMMA LtLow ==
  ASSUME NEW x, NEW y, Low(x) = Low(y)
  PROVE  sm4Lt(x) = sm4Lt(y)
<1>1. \A n \in 0 .. 3 : PutByte(x, n) = PutByte(y, n)
  BY PutByteLow
<1>2. Tau(x) = Tau(y)
  BY <1>1 DEF Tau
<1> QED BY <1>2 DEF sm4Lt

(* A round on the words of a round in reverse order undoes it.             *)
LEMMA RoundUndone ==
  ASSUME NEW u0, NEW u1, NEW u2, NEW u3, NEW v0, NEW v1, NEW v2, NEW v3, NEW rk,
         Low(v0) = Low(sm4F(u0, u1, u2, u3, rk)),
         Low(v1) = Low(u3), Low(v2) = Low(u2), Low(v3) = Low(u1)
  PROVE  Low(sm4F(v0, v1, v2, v3, rk)) = Low(u0)
<1> DEFINE U == Xor(Xor(u1, u2), Xor(u3, rk))
           V == Xor(Xor(v1, v2), Xor(v3, rk))
<1>1. Low(V) = Low(U)
  <2>1. Low(V) = Xor(Xor(Low(v1), Low(v2)), Xor(Low(v3), Low(rk)))
    BY XorLaws
  <2>2. Low(U) = Xor(Xor(Low(u1), Low(u2)), Xor(Low(u3), Low(rk)))
    BY XorLaws
  <2>3. Low(V) = Xor(Xor(Low(u3), Low(u2)), Xor(Low(u1), Low(rk)))
    BY <2>1
  <2> QED BY <2>2, <2>3, XorLaws
<1>2. sm4Lt(V) = sm4Lt(U)
  BY <1>1, LtLow
<1>3. Low(sm4F(v0, v1, v2, v3, rk)) = Xor(Low(v0), Low(sm4Lt(V)))
  BY XorLaws DEF sm4F
<1>4. Low(v0) = Xor(Low(u0), Low(sm4Lt(U)))
  BY XorLaws DEF sm4F
<1> QED BY <1>2, <1>3, <1>4, XorLaws
-----------------------------------------------------------------------------
(* A function on 1 .. n is a sequence of length n.                         *)
LEMMA SeqOfFunction ==
  ASSUME NEW S, NEW n \in Nat, NEW f \in [1 .. n -> S]
  PROVE  f \in Seq(S) /\ Len(f) = n
<1>1. f \in Seq(S)
  BY SeqDef
<1>2. Len(f) \in Nat /\ 1 .. Len(f) = 1 .. n
  BY <1>1, LenProperties
<1>3. Len(f) = n
  BY <1>2
<1> QED BY <1>1, <1>3

(* The padding: a whole number of blocks, at least one byte more than the  *)
(* data, and the number of the bytes added in the last of them.            *)
LEMMA CountOfPadding ==
  ASSUME NEW p \in 1 .. 16
  PROVE  ToInt(ToByte(p)) = p
<1>1. \A j \in 0 .. 7 : Bit(ToByte(p), j) = (p \div Weight[j + 1]) % 2
  BY DEF Bit, ToByte, Weight
<1>2. /\ Bit(ToByte(p), 0) = (p \div 1) % 2
      /\ Bit(ToByte(p), 1) = (p \div 2) % 2
      /\ Bit(ToByte(p), 2) = (p \div 4) % 2
      /\ Bit(ToByte(p), 3) = (p \div 8) % 2
      /\ Bit(ToByte(p), 4) = (p \div 16) % 2
      /\ Bit(ToByte(p), 5) = (p \div 32) % 2
      /\ Bit(ToByte(p), 6) = (p \div 64) % 2
      /\ Bit(ToByte(p), 7) = (p \div 128) % 2
  BY <1>1 DEF Weight
<1>3. CASE p = 1
  BY <1>2, <1>3 DEF ToInt
<1>4. CASE p = 2
  BY <1>2, <1>4 DEF ToInt
<1>5. CASE p = 3
  BY <1>2, <1>5 DEF ToInt
<1>6. CASE p = 4
  BY <1>2, <1>6 DEF ToInt
<1>7. CASE p = 5
  BY <1>2, <1>7 DEF ToInt
<1>8. CASE p = 6
  BY <1>2, <1>8 DEF ToInt
<1>9. CASE p = 7
  BY <1>2, <1>9 DEF ToInt
<1>10. CASE p = 8
  BY <1>2, <1>10 DEF ToInt
<1>11. CASE p = 9
  BY <1>2, <1>11 DEF ToInt
<1>12. CASE p = 10
  BY <1>2, <1>12 DEF ToInt
<1>13. CASE p = 11
  BY <1>2, <1>13 DEF ToInt
<1>14. CASE p = 12
  BY <1>2, <1>14 DEF ToInt
<1>15. CASE p = 13
  BY <1>2, <1>15 DEF ToInt
<1>16. CASE p = 14
  BY <1>2, <1>16 DEF ToInt
<1>17. CASE p = 15
  BY <1>2, <1>17 DEF ToInt
<1>18. CASE p = 16
  BY <1>2, <1>18 DEF ToInt
<1> QED BY <1>3, <1>4, <1>5, <1>6, <1>7, <1>8, <1>9, <1>10, <1>11, <1>12, <1>13, <1>14, <1>15, <1>16, <1>17, <1>18

LEMMA PadShape ==
  ASSUME NEW data \in Seq(Byte)
  PROVE  \E p \in 1 .. 16 :
            /\ pad(data, 16) \in Seq(Byte)
            /\ Len(pad(data, 16)) = Len(data) + p
            /\ \E m \in Nat : Len(data) + p = 16 * m
            /\ \A n \in 1 .. Len(data) : pad(data, 16)[n] = data[n]
            /\ pad(data, 16)[Len(data) + p] = ToByte(p)
<1> DEFINE d == Len(data)
           mult == getBlocks(16, d) * 16
           p == IF mult = d THEN 16 ELSE mult - d
           P == [n \in 1 .. d + p |-> IF n <= d THEN data[n]
                                      ELSE IF n = d + p THEN ToByte(p) ELSE {}]
<1>1. d \in Nat
  BY LenProperties
<1>2. \E m \in Nat : mult = 16 * m /\ 16 * m >= d /\ 16 * m < d + 16
  <2>1. PICK q \in Nat : q = d \div 16
    BY <1>1
  <2>2. 16 * q <= d /\ d < 16 * q + 16
    BY <1>1, <2>1
  <2>3. getBlocks(16, d) = IF d > q * 16 THEN q + 1 ELSE q
    BY <2>1 DEF getBlocks
  <2>4. CASE d > q * 16
    BY <1>1, <2>2, <2>3, <2>4, mult = 16 * (q + 1), q + 1 \in Nat
  <2>5. CASE ~(d > q * 16)
    BY <1>1, <2>2, <2>3, <2>5, mult = 16 * q
  <2> QED BY <2>4, <2>5
<1>3. p \in 1 .. 16 /\ \E m \in Nat : d + p = 16 * m
  <2>1. PICK m \in Nat : mult = 16 * m /\ 16 * m >= d /\ 16 * m < d + 16
    BY <1>2
  <2> HIDE DEF mult
  <2>2. CASE mult = d
    <3>1. p = 16 /\ m + 1 \in Nat
      BY <2>1, <2>2
    <3>2. d + 16 = 16 * (m + 1)
      BY <2>1, <2>2
    <3>3. d + p = 16 * (m + 1)
      BY <3>1, <3>2
    <3>4. \E q \in Nat : d + p = 16 * q
      <4> WITNESS m + 1 \in Nat
      <4> QED BY <3>3
    <3> QED BY <3>1, <3>4
  <2>3. CASE mult # d
    <3>1. p \in 1 .. 16 /\ d + p = 16 * m
      BY SMTT(30), <1>1, <2>1, <2>3
    <3> QED BY <3>1
  <2> QED BY <2>2, <2>3
<1>4. pad(data, 16) = P
  BY DEF pad
<1> HIDE DEF p, mult
<1>5. \A n \in 1 .. d + p : P[n] \in Byte
  <2> SUFFICES ASSUME NEW n \in 1 .. d + p PROVE P[n] \in Byte
    OBVIOUS
  <2>1. CASE n <= d
    BY <1>1, <1>3, <2>1, ElementOfSeq
  <2>2. CASE n > d
    BY <1>1, <1>3, <2>2 DEF ToByte, Byte
  <2> QED BY <1>1, <1>3, <2>1, <2>2
<1>6. P \in [1 .. d + p -> Byte] /\ d + p \in Nat
  BY <1>1, <1>3, <1>5
<1>7. P \in Seq(Byte) /\ Len(P) = d + p
  BY <1>6, SeqOfFunction
<1>8. /\ \A n \in 1 .. d : P[n] = data[n]
      /\ P[d + p] = ToByte(p)
  BY SMTT(30), <1>1, <1>3
<1> HIDE DEF P, d
<1>9. /\ pad(data, 16) \in Seq(Byte)
      /\ Len(pad(data, 16)) = d + p
      /\ \E m \in Nat : d + p = 16 * m
      /\ \A n \in 1 .. d : pad(data, 16)[n] = data[n]
      /\ pad(data, 16)[d + p] = ToByte(p)
  BY <1>3, <1>4, <1>7, <1>8
<1> QED BY <1>3, <1>9 DEF d

LEMMA PaddedBlocks ==
  ASSUME ptext \in Seq(Byte)
  PROVE  Padded \in Seq(Byte) /\ Len(Padded) > 0 /\ \E m \in Nat : Len(Padded) = 16 * m
<1>1. Len(ptext) \in Nat
  BY LenProperties
<1> QED BY SMTT(30), <1>1, PadShape DEF Padded, AES_BLOCK_BYTES

(* What is left when the padding is taken away again is the data.          *)
LEMMA PadRemoved ==
  ASSUME NEW data \in Seq(Byte)
  PROVE  LET P == pad(data, 16)
         IN  /\ P # <<>>
             /\ PadCount(P) \in 1 .. 16
             /\ SubSeq(P, 1, Len(P) - PadCount(P)) = data
<1> DEFINE P == pad(data, 16)
<1>1. PICK p \in 1 .. 16 : /\ P \in Seq(Byte)
                           /\ Len(P) = Len(data) + p
                           /\ \A n \in 1 .. Len(data) : P[n] = data[n]
                           /\ P[Len(data) + p] = ToByte(p)
  BY PadShape
<1> HIDE DEF P
<1>2. PadCount(P) = p
  BY <1>1, CountOfPadding DEF PadCount
<1>3. Len(data) \in Nat /\ P # <<>>
  BY <1>1, LenProperties, EmptySeq
<1>4. SubSeq(P, 1, Len(data)) = data
  <2>1. \A n \in 1 .. Len(data) : P[n] \in Byte
    BY <1>1, ElementOfSeq
  <2>2. /\ SubSeq(P, 1, Len(data)) \in Seq(Byte)
        /\ Len(SubSeq(P, 1, Len(data))) = Len(data)
        /\ \A n \in 1 .. Len(data) : SubSeq(P, 1, Len(data))[n] = P[n]
    BY <1>3, <2>1, SubSeqProperties
  <2> QED BY <1>1, <2>2, SeqEqual
<1>5. Len(P) - PadCount(P) = Len(data)
  BY <1>1, <1>2, <1>3
<1> QED BY <1>2, <1>3, <1>4, <1>5 DEF P
-----------------------------------------------------------------------------
(* Where byte b of word w is in the block at position n.                   *)
LEMMA Offset ==
  ASSUME NEW n \in Nat, NEW w \in 0 .. 3, NEW b \in 0 .. 3
  PROVE  4 * w + b + 1 \in 1 .. 16 /\ n + 4 * w + b + 1 = n + (4 * w + b + 1)
OBVIOUS

LEMMA InRange ==
  ASSUME NEW n \in Nat, NEW m \in 1 .. 16, NEW l \in Nat, n + 16 <= l
  PROVE  n + m \in 1 .. l
OBVIOUS

(* The 16 bytes of a finished block.                                       *)
LEMMA BlockBytes ==
  ASSUME NEW U
  PROVE  /\ PutBlock(U) \in Seq(Byte) /\ Len(PutBlock(U)) = 16
         /\ \A w \in 0 .. 3, b \in 0 .. 3 : PutBlock(U)[4 * w + b + 1] = PutByte(U[35 - w], b)
<1>1. \A n \in 1 .. 16 : PutBlock(U)[n] \in Byte
  BY DEF PutBlock, PutByte, Byte
<1>2. PutBlock(U) \in [1 .. 16 -> Byte]
  BY <1>1 DEF PutBlock
<1>3. PutBlock(U) \in Seq(Byte) /\ Len(PutBlock(U)) = 16
  BY <1>2, SeqOfFunction
<1>4. ASSUME NEW w \in 0 .. 3, NEW b \in 0 .. 3
      PROVE  PutBlock(U)[4 * w + b + 1] = PutByte(U[35 - w], b)
  <2>1. (4 * w + b + 1 - 1) \div 4 = w /\ (4 * w + b + 1 - 1) % 4 = b
    OBVIOUS
  <2>2. 4 * w + b + 1 \in 1 .. 16
    OBVIOUS
  <2> QED BY <2>1, <2>2 DEF PutBlock
<1> QED BY <1>3, <1>4

(* The words of an encrypted block are the last words of the rounds.       *)
LEMMA BlockLoaded ==
  ASSUME NEW U, NEW s, NEW n \in Nat,
         \A b \in 1 .. 16 : s[n + b] = PutBlock(U)[b]
  PROVE  \A w \in 0 .. 3 : Low(WordAt(s, n, w)) = Low(U[35 - w])
<1> SUFFICES ASSUME NEW w \in 0 .. 3 PROVE Low(WordAt(s, n, w)) = Low(U[35 - w])
  OBVIOUS
<1>1. \A b \in 0 .. 3 : s[n + 4 * w + b + 1] = PutByte(U[35 - w], b)
  <2> SUFFICES ASSUME NEW b \in 0 .. 3 PROVE s[n + 4 * w + b + 1] = PutByte(U[35 - w], b)
    OBVIOUS
  <2>1. 4 * w + b + 1 \in 1 .. 16 /\ n + 4 * w + b + 1 = n + (4 * w + b + 1)
    BY Offset
  <2> QED BY <2>1, BlockBytes
<1>2. WordAt(s, n, w) = GetWord([b \in 0 .. 3 |-> PutByte(U[35 - w], b)])
  <2>1. [b \in 0 .. 3 |-> s[n + 4 * w + b + 1]] = [b \in 0 .. 3 |-> PutByte(U[35 - w], b)]
    BY <1>1
  <2> QED BY <2>1 DEF WordAt
<1>3. WordAt(s, n, w) = Low(U[35 - w])
  BY <1>2, WordOfBytes
<1> QED BY <1>3 DEF Low

(* A round with the subkeys in the opposite order.                         *)
LEMMA StepUndone ==
  ASSUME NEW U, NEW s, Chain(U, s, 32), NEW n \in 0 .. 31
  PROVE  \A v0, v1, v2, v3 :
            /\ Low(v0) = Low(U[35 - n]) /\ Low(v1) = Low(U[34 - n])
            /\ Low(v2) = Low(U[33 - n]) /\ Low(v3) = Low(U[32 - n])
            => Low(sm4F(v0, v1, v2, v3, s[31 - n])) = Low(U[31 - n])
<1>1. U[35 - n] = sm4F(U[31 - n], U[32 - n], U[33 - n], U[34 - n], s[31 - n])
  <2>1. 31 - n \in 0 .. 32 - 1 /\ 31 - n + 4 = 35 - n /\ 31 - n + 1 = 32 - n
        /\ 31 - n + 2 = 33 - n /\ 31 - n + 3 = 34 - n
    OBVIOUS
  <2>2. U[31 - n + 4] = sm4F(U[31 - n], U[31 - n + 1], U[31 - n + 2], U[31 - n + 3], s[31 - n])
    BY <2>1 DEF Chain
  <2> QED BY <2>1, <2>2
<1> QED BY <1>1, RoundUndone

(* The block that all rounds were undone for is the one put in.            *)
LEMMA BlockUndone ==
  ASSUME NEW U, NEW V, NEW s, NEW S \in Seq(Byte), NEW n \in Nat, n + 16 <= Len(S),
         Run(U, S, n, s),
         \A j \in 0 .. 35 : Low(V[j]) = Low(U[35 - j])
  PROVE  \A b \in 1 .. 16 : PutBlock(V)[b] = S[n + b]
<1>1. ASSUME NEW w \in 0 .. 3, NEW b \in 0 .. 3
      PROVE  PutBlock(V)[4 * w + b + 1] = S[n + 4 * w + b + 1]
  <2> DEFINE B == [c \in 0 .. 3 |-> S[n + 4 * w + c + 1]]
  <2>1. B \in [0 .. 3 -> Byte]
    <3>1. ASSUME NEW c \in 0 .. 3 PROVE S[n + 4 * w + c + 1] \in Byte
      <4>1. Len(S) \in Nat
        BY LenProperties
      <4>2. 4 * w + c + 1 \in 1 .. 16 /\ n + 4 * w + c + 1 = n + (4 * w + c + 1)
        BY Offset
      <4>3. n + 4 * w + c + 1 \in 1 .. Len(S)
        BY <4>1, <4>2, InRange
      <4> QED BY <4>3, ElementOfSeq
    <3> QED BY <3>1
  <2>2. Low(V[35 - w]) = Low(GetWord(B))
    <3>1. 35 - w \in 0 .. 35 /\ 35 - (35 - w) = w
      OBVIOUS
    <3>2. U[w] = GetWord(B)
      BY DEF Run, WordAt
    <3> QED BY <3>1, <3>2
  <2>3. PutByte(V[35 - w], b) = PutByte(GetWord(B), b)
    BY <2>2, PutByteLow
  <2>4. PutByte(GetWord(B), b) = B[b]
    BY <2>1, BytesOfWord
  <2>5. PutBlock(V)[4 * w + b + 1] = PutByte(V[35 - w], b)
    BY BlockBytes
  <2> QED BY <2>3, <2>4, <2>5
<1>2. ASSUME NEW c \in 1 .. 16 PROVE \E w \in 0 .. 3, b \in 0 .. 3 : c = 4 * w + b + 1
  <2>1. CASE c < 5               BY <2>1, c = 4 * 0 + (c - 1) + 1
  <2>2. CASE 5 <= c /\ c < 9     BY <2>2, c = 4 * 1 + (c - 5) + 1
  <2>3. CASE 9 <= c /\ c < 13    BY <2>3, c = 4 * 2 + (c - 9) + 1
  <2>4. CASE 13 <= c             BY <2>4, c = 4 * 3 + (c - 13) + 1
  <2> QED BY <2>1, <2>2, <2>3, <2>4
<1> SUFFICES ASSUME NEW c \in 1 .. 16 PROVE PutBlock(V)[c] = S[n + c]
  OBVIOUS
<1>3. PICK w \in 0 .. 3, b \in 0 .. 3 : c = 4 * w + b + 1
  BY <1>2
<1>4. n + c = n + 4 * w + b + 1
  BY <1>3
<1> QED BY <1>1, <1>3, <1>4
-----------------------------------------------------------------------------
(* One more step of the key schedule, and one more round.                  *)
LEMMA KeyStep ==
  ASSUME NEW K, NEW s, NEW n \in 0 .. 31, NEW w,
         On(K, 0 .. 35), On(s, 0 .. 31),
         KeyChain(K, s, n),
         w = Xor(K[n], sm4CalciRK(Xor(Xor(K[n + 1], K[n + 2]), Xor(K[n + 3], CK[n]))))
  PROVE  KeyChain([K EXCEPT ![n + 4] = w], [s EXCEPT ![n] = w], n + 1)
<1> DEFINE K1 == [K EXCEPT ![n + 4] = w]
           s1 == [s EXCEPT ![n] = w]
<1>1. /\ \A j \in 0 .. n + 3 : K1[j] = K[j]
      /\ K1[n + 4] = w
      /\ \A j \in 0 .. n - 1 : s1[j] = s[j]
      /\ s1[n] = w
  <2>1. DOMAIN K = 0 .. 35 /\ DOMAIN s = 0 .. 31
    BY DEF On
  <2>2. n + 4 \in 0 .. 35 /\ n + 4 \notin 0 .. n + 3 /\ n \notin 0 .. n - 1
    OBVIOUS
  <2>3. 0 .. n + 3 \subseteq 0 .. 35 /\ 0 .. n - 1 \subseteq 0 .. 31
    OBVIOUS
  <2> QED BY <2>1, <2>2, <2>3
<1> HIDE DEF K1, s1
<1>2. \A j \in 0 .. 3 : K1[j] = KeyWords(key)[j]
  BY <1>1 DEF KeyChain
<1>3. ASSUME NEW j \in 0 .. n
      PROVE  /\ K1[j + 4] = Xor(K1[j], sm4CalciRK(Xor(Xor(K1[j + 1], K1[j + 2]), Xor(K1[j + 3], CK[j]))))
             /\ s1[j] = K1[j + 4]
  <2>1. K1[j] = K[j] /\ K1[j + 1] = K[j + 1] /\ K1[j + 2] = K[j + 2] /\ K1[j + 3] = K[j + 3]
    BY <1>1
  <2>2. CASE j = n
    BY <1>1, <2>1, <2>2
  <2>3. CASE j # n
    <3>1. j \in 0 .. n - 1 /\ j + 4 \in 0 .. n + 3
      BY <2>3
    <3> QED BY <1>1, <2>1, <3>1 DEF KeyChain
  <2> QED BY <2>2, <2>3
<1>4. \A j \in 0 .. (n + 1) - 1 : j \in 0 .. n
  OBVIOUS
<1>5. KeyChain(K1, s1, n + 1)
  BY <1>2, <1>3, <1>4 DEF KeyChain
<1> QED BY <1>5 DEF K1, s1

LEMMA ChainStep ==
  ASSUME NEW U, NEW s, NEW n \in 0 .. 31, NEW w,
         On(U, 0 .. 35),
         Chain(U, s, n),
         w = sm4F(U[n], U[n + 1], U[n + 2], U[n + 3], s[n])
  PROVE  Chain([U EXCEPT ![n + 4] = w], s, n + 1)
<1> DEFINE U1 == [U EXCEPT ![n + 4] = w]
<1>1. (\A j \in 0 .. n + 3 : U1[j] = U[j]) /\ U1[n + 4] = w
  BY DEF On
<1> HIDE DEF U1
<1>2. ASSUME NEW j \in 0 .. n
      PROVE  U1[j + 4] = sm4F(U1[j], U1[j + 1], U1[j + 2], U1[j + 3], s[j])
  <2>1. U1[j] = U[j] /\ U1[j + 1] = U[j + 1] /\ U1[j + 2] = U[j + 2] /\ U1[j + 3] = U[j + 3]
    BY <1>1
  <2>2. CASE j = n
    BY <1>1, <2>1, <2>2
  <2>3. CASE j # n
    <3>1. j \in 0 .. n - 1 /\ j + 4 \in 0 .. n + 3
      BY <2>3
    <3> QED BY <1>1, <2>1, <3>1 DEF Chain
  <2> QED BY <2>2, <2>3
<1>3. \A j \in 0 .. (n + 1) - 1 : j \in 0 .. n
  OBVIOUS
<1>4. Chain(U1, s, n + 1)
  BY <1>2, <1>3 DEF Chain
<1> QED BY SMTT(30), <1>4 DEF U1

(* Between two multiples of 16 there is room for a block.                  *)
LEMMA NextBlock ==
  ASSUME NEW a \in Nat, NEW b \in Nat, \E m \in Nat : a = 16 * m, \E m \in Nat : b = 16 * m, a < b
  PROVE  a + 16 <= b
<1>1. PICK m \in Nat : a = 16 * m
  OBVIOUS
<1>2. PICK q \in Nat : b = 16 * q
  OBVIOUS
<1> QED BY <1>1, <1>2

LEMMA FunctionOn ==
  ASSUME NEW D, NEW S, NEW f \in [D -> S]
  PROVE  On(f, D)
BY DEF On

LEMMA KeptStays ==
  ASSUME Kept, UNCHANGED <<ptext, key, input, enc>>
  PROVE  Kept'
<1>1. Padded' = Padded
  BY DEF Padded
<1>2. Len(input') = Len(Padded')
  BY SMTT(30), <1>1 DEF Kept
<1>3. KeyChain(enc.k, enc.sk, 32)'
  BY DEF Kept, KeyChain
<1>4. ASSUME NEW m \in Nat, 16 * m < Len(input)
      PROVE  Enciphered(Padded, input, 16 * m, enc.sk)'
  <2>1. Enciphered(Padded, input, 16 * m, enc.sk)
    BY <1>4 DEF Kept
  <2> QED BY <1>1, <2>1 DEF Enciphered
<1> QED BY <1>2, <1>3, <1>4 DEF Kept

LEMMA InitCInv == Init => CInv
<1> SUFFICES ASSUME Init PROVE CInv
  OBVIOUS
<1>1. ptext \in Seq(Byte) /\ key \in [1 .. 16 -> Byte]
  BY MessageAssumption, KeyAssumption DEF Init
<1>2. input = Padded /\ output = <<>> /\ Len(output) = 0 /\ output \in Seq(Byte)
  BY EmptySeq DEF Init, Padded
<1>3. input \in Seq(Byte) /\ Len(input) > 0 /\ \E m \in Nat : Len(input) = 16 * m
  BY <1>1, <1>2, PaddedBlocks
<1>4. Len(input) \in Nat
  BY <1>3, LenProperties
<1>5. Sizes
  <2>1. On(k, 0 .. 35) /\ On(sk, 0 .. 31) /\ On(ulbuf, 0 .. 35)
    BY DEF Init, On, KeyWords, NoWords
  <2>2. \E m \in Nat : Len(output) = 16 * m
    BY <1>2, 0 = 16 * 0
  <2>3. length = Len(input) - Len(output) /\ length >= 0
    BY <1>2, <1>4 DEF Init
  <2>4. /\ job \in {"encrypt", "decrypt"} /\ i \in 0 .. 32
        /\ pc \in {"setkey", "block", "round", "done", "throw", "crash"} /\ pc # "round"
    BY DEF Init
  <2> QED BY <1>1, <1>2, <1>3, <2>1, <2>2, <2>3, <2>4 DEF Sizes
<1>6. Encrypting
  <2>1. KeyChain(k, sk, i)
    BY DEF Init, KeyChain
  <2> QED BY <1>2, <2>1 DEF Encrypting, Init
<1> QED BY <1>5, <1>6 DEF CInv, Decrypting, Init

LEMMA KeyRoundKeeps == CInv /\ KeyRound => CInv'
<1> SUFFICES ASSUME CInv, KeyRound PROVE CInv'
  OBVIOUS
<1> DEFINE w == Xor(k[i], sm4CalciRK(Xor(Xor(k[i + 1], k[i + 2]), Xor(k[i + 3], CK[i]))))
<1>1. /\ i \in 0 .. 31 /\ i' = i + 1
      /\ k' = [k EXCEPT ![i + 4] = w] /\ sk' = [sk EXCEPT ![i] = w]
      /\ On(k, 0 .. 35) /\ On(sk, 0 .. 31)
  BY DEF CInv, Sizes, KeyRound
<1>2. UNCHANGED <<ptext, key, job, pc, input, output, length, ulbuf, result, lost, enc>> /\ pc = "setkey"
  BY DEF KeyRound
<1> HIDE DEF w
<1>3. Sizes'
  <2>1. On(k', 0 .. 35) /\ On(sk', 0 .. 31)
    BY <1>1 DEF On
  <2>2. (i \in 0 .. 32)'
    BY <1>1
  <2> QED BY <1>2, <2>1, <2>2 DEF CInv, Sizes
<1>4. Encrypting'
  <2> SUFFICES ASSUME job = "encrypt" PROVE Encrypting'
    BY <1>2 DEF Encrypting
  <2>1. KeyChain(k, sk, i) /\ output = <<>> /\ input = Padded
    BY <1>2 DEF CInv, Encrypting
  <2>2. KeyChain([k EXCEPT ![i + 4] = w], [sk EXCEPT ![i] = w], i + 1)
    BY <1>1, <2>1, KeyStep DEF w
  <2>3. KeyChain(k', sk', i')
    BY <1>1, <2>2
  <2>4. KeyChain(k, sk, i)'
    BY <1>2, <2>3 DEF KeyChain
  <2>5. (input = Padded /\ output = <<>> /\ pc = "setkey")'
    BY <1>2, <2>1 DEF Padded
  <2>6. Len(output') = 0
    BY <2>5, EmptySeq
  <2> QED BY <2>4, <2>5, <2>6 DEF Encrypting
<1>5. Decrypting'
  <2> SUFFICES ASSUME job = "decrypt", ~lost PROVE Decrypting'
    BY <1>2 DEF Decrypting
  <2>1. /\ Kept /\ output = <<>>
        /\ \A j \in 0 .. i + 3 : k[j] = enc.k[j]
        /\ \A j \in 0 .. i - 1 : sk[j] = enc.sk[j]
        /\ \A n \in 1 .. Len(output) : output[n] = Padded[n]
    BY <1>2 DEF CInv, Decrypting
  <2>2. enc.k[i + 4] = w /\ enc.sk[i] = w
    <3>1. k[i] = enc.k[i] /\ k[i + 1] = enc.k[i + 1] /\ k[i + 2] = enc.k[i + 2] /\ k[i + 3] = enc.k[i + 3]
      <4>1. i \in 0 .. i + 3 /\ i + 1 \in 0 .. i + 3 /\ i + 2 \in 0 .. i + 3 /\ i + 3 \in 0 .. i + 3
        BY <1>1
      <4> QED BY <2>1, <4>1
    <3>2. /\ enc.k[i + 4] = Xor(enc.k[i], sm4CalciRK(Xor(Xor(enc.k[i + 1], enc.k[i + 2]), Xor(enc.k[i + 3], CK[i]))))
          /\ enc.sk[i] = enc.k[i + 4]
      <4>1. i \in 0 .. 32 - 1
        BY <1>1
      <4> QED BY <2>1, <4>1 DEF Kept, KeyChain
    <3> QED BY <3>1, <3>2 DEF w
  <2>3. /\ \A j \in 0 .. i' + 3 : k'[j] = enc.k[j]
        /\ \A j \in 0 .. i' - 1 : sk'[j] = enc.sk[j]
    <3>1. DOMAIN k = 0 .. 35 /\ DOMAIN sk = 0 .. 31
      BY <1>1 DEF On
    <3>2. ASSUME NEW j \in 0 .. i + 4 PROVE k'[j] = enc.k[j]
      <4>1. j \in 0 .. 35 /\ (j = i + 4 \/ j \in 0 .. i + 3)
        BY <1>1
      <4> QED BY <1>1, <2>1, <2>2, <3>1, <4>1
    <3>3. ASSUME NEW j \in 0 .. i PROVE sk'[j] = enc.sk[j]
      <4>1. j \in 0 .. 31 /\ (j = i \/ j \in 0 .. i - 1)
        BY <1>1
      <4> QED BY <1>1, <2>1, <2>2, <3>1, <4>1
    <3>4. i' + 3 = i + 4 /\ i' - 1 = i
      BY <1>1
    <3> QED BY <3>2, <3>3, <3>4
  <2>4. Kept'
    BY <1>2, <2>1, KeptStays
  <2>5. (output = <<>> /\ pc = "setkey" /\ \A n \in 1 .. Len(output) : output[n] = Padded[n])'
    BY <1>2, <2>1 DEF Padded
  <2> QED BY <1>2, <2>3, <2>4, <2>5 DEF Decrypting
<1> QED BY <1>3, <1>4, <1>5 DEF CInv

LEMMA KeyDoneKeeps == CInv /\ KeyDone => CInv'
<1> SUFFICES ASSUME CInv, KeyDone PROVE CInv'
  OBVIOUS
<1>1. /\ pc = "setkey" /\ i = 32 /\ pc' = "block"
      /\ UNCHANGED <<ptext, key, job, i, k, input, output, length, ulbuf, result, lost, enc>>
  BY DEF KeyDone
<1>2. IF job = "decrypt" THEN sk' = Swapped(sk) ELSE sk' = sk
  BY DEF KeyDone
<1>3. Sizes'
  <2>1. On(sk', 0 .. 31)
    BY <1>2 DEF CInv, Sizes, On, Swapped
  <2> QED BY <1>1, <2>1 DEF CInv, Sizes
<1>4. Encrypting'
  <2> SUFFICES ASSUME job = "encrypt" PROVE Encrypting'
    BY <1>1 DEF Encrypting
  <2>1. KeyChain(k, sk, 32) /\ output = <<>> /\ input = Padded
    BY <1>1 DEF CInv, Encrypting
  <2>2. KeyChain(k, sk, 32)'
    BY <1>1, <1>2, <2>1 DEF KeyChain
  <2>3. (input = Padded)' /\ Len(output') = 0
    BY <1>1, <2>1, EmptySeq DEF Padded
  <2> QED BY <1>1, <2>2, <2>3 DEF Encrypting
<1>5. Decrypting'
  <2> SUFFICES ASSUME job = "decrypt", ~lost PROVE Decrypting'
    BY <1>1 DEF Decrypting
  <2>1. /\ Kept
        /\ \A j \in 0 .. 31 : sk[j] = enc.sk[j]
        /\ \A n \in 1 .. Len(output) : output[n] = Padded[n]
    <3>1. Decrypting /\ 32 - 1 = 31
      BY DEF CInv
    <3> QED BY <1>1, <3>1 DEF Decrypting
  <2>2. \A j \in 0 .. 31 : sk'[j] = enc.sk[31 - j]
    <3>1. sk' = Swapped(sk) /\ \A j \in 0 .. 31 : 31 - j \in 0 .. 31
      BY <1>2
    <3> QED BY <2>1, <3>1 DEF Swapped
  <2>3. Kept'
    BY <1>1, <2>1, KeptStays
  <2>4. (\A n \in 1 .. Len(output) : output[n] = Padded[n])'
    BY <1>1, <2>1 DEF Padded
  <2> QED BY <1>1, <2>2, <2>3, <2>4 DEF Decrypting
<1> QED BY <1>3, <1>4, <1>5 DEF CInv

LEMMA LoadBlockKeeps == CInv /\ LoadBlock => CInv'
<1> SUFFICES ASSUME CInv, LoadBlock PROVE CInv'
  OBVIOUS
<1>1. /\ pc = "block" /\ length > 0 /\ pc' = "round" /\ i' = 0
      /\ UNCHANGED <<ptext, key, job, k, sk, input, output, length, result, lost, enc>>
      /\ ulbuf' = [n \in 0 .. 35 |-> IF n < 4 THEN WordAt(input, Len(output), n) ELSE {}]
  BY DEF LoadBlock
<1>2. \A w \in 0 .. 3 : ulbuf'[w] = WordAt(input, Len(output), w)
  BY <1>1
<1>3. Sizes'
  <2>1. On(ulbuf', 0 .. 35)
    <3>1. ulbuf' = [n \in 0 .. 35 |-> IF n < 4 THEN WordAt(input, Len(output), n) ELSE {}]
      BY <1>1
    <3>2. \A n \in 0 .. 35 : ulbuf'[n] = IF n < 4 THEN WordAt(input, Len(output), n) ELSE {}
      BY <3>1
    <3>3. ulbuf' \in [0 .. 35 -> {WordAt(input, Len(output), n) : n \in 0 .. 35} \cup {{}}]
      BY <3>1
    <3> QED BY <3>3, FunctionOn
  <2>2. /\ pc' = "round" /\ length > 0 /\ i' \in 0 .. 32
        /\ UNCHANGED <<ptext, key, job, k, sk, input, output, length>>
    BY <1>1
  <2> QED BY <2>1, <2>2 DEF CInv, Sizes
<1>4. Encrypting'
  <2> SUFFICES ASSUME job = "encrypt" PROVE Encrypting'
    BY <1>1 DEF Encrypting
  <2>1. /\ KeyChain(k, sk, 32) /\ input = Padded
        /\ \A m \in Nat : 16 * m < Len(output) => Enciphered(input, output, 16 * m, sk)
    BY <1>1 DEF CInv, Encrypting
  <2>2. (KeyChain(k, sk, 32) /\ input = Padded)'
    BY <1>1, <2>1 DEF KeyChain, Padded
  <2>3. (\A m \in Nat : 16 * m < Len(output) => Enciphered(input, output, 16 * m, sk))'
    BY <1>1, <2>1 DEF Enciphered
  <2>4. (\A w \in 0 .. 3 : ulbuf[w] = WordAt(input, Len(output), w))'
    BY <1>1, <1>2
  <2>5. Chain(ulbuf, sk, i)'
    BY <1>1 DEF Chain
  <2> QED BY <1>1, <2>2, <2>3, <2>4, <2>5 DEF Encrypting
<1>5. Decrypting'
  <2> SUFFICES ASSUME job = "decrypt", ~lost PROVE Decrypting'
    BY <1>1 DEF Decrypting
  <2>1. /\ Kept
        /\ \A j \in 0 .. 31 : sk[j] = enc.sk[31 - j]
        /\ \A n \in 1 .. Len(output) : output[n] = Padded[n]
    BY <1>1 DEF CInv, Decrypting
  <2>2. PICK m \in Nat : Len(output) = 16 * m
    BY DEF CInv, Sizes
  <2>3. 16 * m < Len(input)
    <3>1. Len(input) \in Nat /\ length = Len(input) - Len(output)
      BY LenProperties DEF CInv, Sizes
    <3> QED BY <1>1, <2>2, <3>1
  <2>4. PICK U : Run(U, Padded, Len(output), enc.sk) /\ \A b \in 1 .. 16 : input[Len(output) + b] = PutBlock(U)[b]
    <3>1. Enciphered(Padded, input, 16 * m, enc.sk)
      BY <2>1, <2>3 DEF Kept
    <3> QED BY <2>2, <3>1 DEF Enciphered
  <2>5. \A w \in 0 .. 3 : Low(WordAt(input, Len(output), w)) = Low(U[35 - w])
    <3>1. Len(output) \in Nat
      BY <2>2
    <3> QED BY <2>4, <3>1, BlockLoaded
  <2>6. \A j \in 0 .. i' + 3 : Low(ulbuf'[j]) = Low(U[35 - j])
    BY <1>1, <1>2, <2>5
  <2>7. Run(U, Padded', Len(output'), enc'.sk)
    BY <1>1, <2>4 DEF Padded
  <2>8. Kept'
    BY <1>1, <2>1, KeptStays
  <2>9. (/\ \A j \in 0 .. 31 : sk[j] = enc.sk[31 - j]
         /\ \A n \in 1 .. Len(output) : output[n] = Padded[n])'
    BY <1>1, <2>1 DEF Padded
  <2>10. (\E V : /\ Run(V, Padded, Len(output), enc.sk)
                 /\ \A j \in 0 .. i + 3 : Low(ulbuf[j]) = Low(V[35 - j]))'
    BY <2>6, <2>7
  <2> QED BY <1>1, <2>8, <2>9, <2>10 DEF Decrypting
<1> QED BY <1>3, <1>4, <1>5 DEF CInv

LEMMA RoundKeeps == CInv /\ Round => CInv'
<1> SUFFICES ASSUME CInv, Round PROVE CInv'
  OBVIOUS
<1> DEFINE w == sm4F(ulbuf[i], ulbuf[i + 1], ulbuf[i + 2], ulbuf[i + 3], sk[i])
<1>1. /\ pc = "round" /\ i \in 0 .. 31 /\ i' = i + 1
      /\ ulbuf' = [ulbuf EXCEPT ![i + 4] = w]
      /\ On(ulbuf, 0 .. 35)
      /\ UNCHANGED <<ptext, key, job, pc, k, sk, input, output, length, result, lost, enc>>
  BY DEF CInv, Sizes, Round
<1> HIDE DEF w
<1>2. (\A j \in 0 .. i + 3 : ulbuf'[j] = ulbuf[j]) /\ ulbuf'[i + 4] = w
  <2>1. DOMAIN ulbuf = 0 .. 35
    BY <1>1 DEF On
  <2>2. i + 4 \in 0 .. 35 /\ i + 4 \notin 0 .. i + 3 /\ 0 .. i + 3 \subseteq 0 .. 35
    BY <1>1
  <2> QED BY <1>1, <2>1, <2>2
<1>3. Sizes'
  <2>1. On(ulbuf', 0 .. 35)
    <3>1. ulbuf' = [ulbuf EXCEPT ![i + 4] = w] /\ On(ulbuf, 0 .. 35)
      BY <1>1
    <3> QED BY <3>1 DEF On
  <2>2. i' \in 0 .. 32
    BY <1>1
  <2> QED BY <1>1, <2>1, <2>2 DEF CInv, Sizes
<1>4. Encrypting'
  <2> SUFFICES ASSUME job = "encrypt" PROVE Encrypting'
    BY <1>1 DEF Encrypting
  <2>1. /\ KeyChain(k, sk, 32) /\ input = Padded
        /\ \A m \in Nat : 16 * m < Len(output) => Enciphered(input, output, 16 * m, sk)
        /\ \A v \in 0 .. 3 : ulbuf[v] = WordAt(input, Len(output), v)
        /\ Chain(ulbuf, sk, i)
    BY <1>1 DEF CInv, Encrypting
  <2>2. (KeyChain(k, sk, 32) /\ input = Padded)'
    BY <1>1, <2>1 DEF KeyChain, Padded
  <2>3. (\A m \in Nat : 16 * m < Len(output) => Enciphered(input, output, 16 * m, sk))'
    BY <1>1, <2>1 DEF Enciphered
  <2>4. (\A v \in 0 .. 3 : ulbuf[v] = WordAt(input, Len(output), v))'
    <3>1. \A v \in 0 .. 3 : v \in 0 .. i + 3
      BY <1>1
    <3> QED BY <1>1, <1>2, <2>1, <3>1
  <2>5. Chain([ulbuf EXCEPT ![i + 4] = w], sk, i + 1)
    BY <1>1, <2>1, ChainStep DEF w
  <2>6. Chain(ulbuf, sk, i)'
    BY <1>1, <2>5 DEF Chain
  <2> QED BY <1>1, <2>2, <2>3, <2>4, <2>6 DEF Encrypting
<1>5. Decrypting'
  <2> SUFFICES ASSUME job = "decrypt", ~lost PROVE Decrypting'
    BY <1>1 DEF Decrypting
  <2>1. /\ Kept
        /\ \A j \in 0 .. 31 : sk[j] = enc.sk[31 - j]
        /\ \A n \in 1 .. Len(output) : output[n] = Padded[n]
    BY <1>1 DEF CInv, Decrypting
  <2>2. PICK U : /\ Run(U, Padded, Len(output), enc.sk)
                 /\ \A j \in 0 .. i + 3 : Low(ulbuf[j]) = Low(U[35 - j])
    BY <1>1 DEF CInv, Decrypting
  <2>3. Low(w) = Low(U[35 - (i + 4)])
    <3>1. Chain(U, enc.sk, 32) /\ sk[i] = enc.sk[31 - i]
      BY <1>1, <2>1, <2>2 DEF Run
    <3>2. /\ Low(ulbuf[i]) = Low(U[35 - i]) /\ Low(ulbuf[i + 1]) = Low(U[34 - i])
          /\ Low(ulbuf[i + 2]) = Low(U[33 - i]) /\ Low(ulbuf[i + 3]) = Low(U[32 - i])
      <4>1. /\ i \in 0 .. i + 3 /\ i + 1 \in 0 .. i + 3 /\ i + 2 \in 0 .. i + 3 /\ i + 3 \in 0 .. i + 3
            /\ 35 - (i + 1) = 34 - i /\ 35 - (i + 2) = 33 - i /\ 35 - (i + 3) = 32 - i
        BY <1>1
      <4> QED BY <2>2, <4>1
    <3> DEFINE s == enc.sk
    <3>3. Chain(U, s, 32)
      BY <3>1
    <3> HIDE DEF s
    <3>4. Low(sm4F(ulbuf[i], ulbuf[i + 1], ulbuf[i + 2], ulbuf[i + 3], s[31 - i])) = Low(U[31 - i])
      <4>1. i \in 0 .. 31
        BY <1>1
      <4>2. \A v0, v1, v2, v3 :
              /\ Low(v0) = Low(U[35 - i]) /\ Low(v1) = Low(U[34 - i])
              /\ Low(v2) = Low(U[33 - i]) /\ Low(v3) = Low(U[32 - i])
              => Low(sm4F(v0, v1, v2, v3, s[31 - i])) = Low(U[31 - i])
        BY <3>3, <4>1, StepUndone
      <4> QED BY <3>2, <4>2
    <3>5. 35 - (i + 4) = 31 - i
      BY <1>1
    <3> QED BY <3>1, <3>4, <3>5 DEF w, s
  <2>4. \A j \in 0 .. i' + 3 : Low(ulbuf'[j]) = Low(U[35 - j])
    <3> SUFFICES ASSUME NEW j \in 0 .. i + 4 PROVE Low(ulbuf'[j]) = Low(U[35 - j])
      BY <1>1
    <3>1. j = i + 4 \/ j \in 0 .. i + 3
      BY <1>1
    <3> QED BY <1>2, <2>2, <2>3, <3>1
  <2>5. Run(U, Padded', Len(output'), enc'.sk)
    BY <1>1, <2>2 DEF Padded
  <2>6. Kept'
    BY <1>1, <2>1, KeptStays
  <2>7. (/\ \A j \in 0 .. 31 : sk[j] = enc.sk[31 - j]
         /\ \A n \in 1 .. Len(output) : output[n] = Padded[n])'
    BY <1>1, <2>1 DEF Padded
  <2>8. (\E V : /\ Run(V, Padded, Len(output), enc.sk)
                /\ \A j \in 0 .. i + 3 : Low(ulbuf[j]) = Low(V[35 - j]))'
    BY <2>4, <2>5
  <2> QED BY <1>1, <2>6, <2>7, <2>8 DEF Decrypting
<1> QED BY <1>3, <1>4, <1>5 DEF CInv

LEMMA StoreBlockKeeps == CInv /\ StoreBlock => CInv'
<1> SUFFICES ASSUME CInv, StoreBlock PROVE CInv'
  OBVIOUS
<1> DEFINE l == Len(output)
<1>1. /\ pc = "round" /\ i = 32 /\ pc' = "block"
      /\ output' = output \o PutBlock(ulbuf) /\ length' = length - 16
      /\ UNCHANGED <<ptext, key, job, i, k, sk, input, ulbuf, result, lost, enc>>
  BY DEF StoreBlock
<1>2. /\ output \in Seq(Byte) /\ input \in Seq(Byte)
      /\ l \in Nat /\ Len(input) \in Nat
      /\ length = Len(input) - l /\ length > 0
      /\ \E m \in Nat : l = 16 * m
      /\ \E m \in Nat : Len(input) = 16 * m
  BY <1>1, LenProperties DEF CInv, Sizes
<1>3. l + 16 <= Len(input)
  <2>1. l < Len(input)
    BY <1>2
  <2> QED BY <1>2, <2>1, NextBlock
<1>4. /\ output' \in Seq(Byte) /\ Len(output') = l + 16
      /\ \A n \in 1 .. l : output'[n] = output[n]
      /\ \A b \in 1 .. 16 : output'[l + b] = PutBlock(ulbuf)[b]
  <2>1. PutBlock(ulbuf) \in Seq(Byte) /\ Len(PutBlock(ulbuf)) = 16
    BY BlockBytes
  <2>2. /\ output' \in Seq(Byte) /\ Len(output') = l + 16
        /\ \A n \in 1 .. l + 16 : output'[n] = IF n <= l THEN output[n] ELSE PutBlock(ulbuf)[n - l]
    <3> DEFINE B == PutBlock(ulbuf)
    <3>1. B \in Seq(Byte) /\ Len(B) = 16 /\ output' = output \o B /\ output \in Seq(Byte)
      BY <1>1, <1>2, <2>1
    <3> HIDE DEF B
    <3>2. /\ output \o B \in Seq(Byte) /\ Len(output \o B) = Len(output) + Len(B)
          /\ \A n \in 1 .. Len(output) + Len(B) :
                (output \o B)[n] = IF n <= Len(output) THEN output[n] ELSE B[n - Len(output)]
      BY <3>1, ConcatProperties
    <3> QED BY <3>1, <3>2 DEF B
  <2>3. ASSUME NEW b \in 1 .. 16 PROVE output'[l + b] = PutBlock(ulbuf)[b]
    <3>1. l + b \in 1 .. l + 16 /\ ~(l + b <= l) /\ l + b - l = b
      BY <1>2
    <3> QED BY <2>2, <3>1
  <2>4. \A n \in 1 .. l : n \in 1 .. l + 16 /\ n <= l
    BY <1>2
  <2> QED BY <2>2, <2>3, <2>4
<1> HIDE DEF l
<1>5. Sizes'
  <2>1. PICK m \in Nat : l = 16 * m
    BY <1>2
  <2>2. \E q \in Nat : Len(output') = 16 * q
    <3> WITNESS m + 1 \in Nat
    <3> QED BY <1>4, <2>1
  <2>3. length' = Len(input') - Len(output') /\ length' >= 0
    <3>1. length' = length - 16 /\ input' = input
      BY <1>1
    <3>2. Len(output') = l + 16 /\ length = Len(input) - l /\ l \in Nat /\ Len(input) \in Nat
      BY <1>2, <1>4
    <3> QED BY <1>3, <3>1, <3>2
  <2>4. On(k, 0 .. 35)' /\ On(sk, 0 .. 31)' /\ On(ulbuf, 0 .. 35)'
    BY <1>1 DEF CInv, Sizes
  <2>5. (/\ ptext \in Seq(Byte) /\ key \in [1 .. 16 -> Byte] /\ job \in {"encrypt", "decrypt"}
         /\ i \in 0 .. 32 /\ input \in Seq(Byte) /\ \E m1 \in Nat : Len(input) = 16 * m1)'
    BY <1>1 DEF CInv, Sizes
  <2> QED BY <1>1, <1>4, <2>2, <2>3, <2>4, <2>5 DEF Sizes
<1>6. Encrypting'
  <2> SUFFICES ASSUME job = "encrypt" PROVE Encrypting'
    BY <1>1 DEF Encrypting
  <2>1. /\ KeyChain(k, sk, 32) /\ input = Padded
        /\ \A m \in Nat : 16 * m < l => Enciphered(input, output, 16 * m, sk)
        /\ \A v \in 0 .. 3 : ulbuf[v] = WordAt(input, l, v)
        /\ Chain(ulbuf, sk, i)
    BY <1>1 DEF CInv, Encrypting, l
  <2>2. (KeyChain(k, sk, 32) /\ input = Padded)'
    BY <1>1, <2>1 DEF KeyChain, Padded
  <2>3. ASSUME NEW m \in Nat, 16 * m < l + 16
        PROVE  Enciphered(input, output', 16 * m, sk)
    <3>1. PICK q \in Nat : l = 16 * q
      BY <1>2
    <3>2. CASE 16 * m = l
      <4>1. Run(ulbuf, input, 16 * m, sk)
        BY <1>1, <2>1, <3>2 DEF Run
      <4>2. \A b \in 1 .. 16 : output'[16 * m + b] = PutBlock(ulbuf)[b]
        BY <1>4, <3>2
      <4> QED BY <4>1, <4>2 DEF Enciphered
    <3>3. CASE 16 * m # l
      <4>1. 16 * m < l /\ 16 * m + 16 <= l
        BY <2>3, <3>1, <3>3
      <4>2. PICK U : Run(U, input, 16 * m, sk) /\ \A b \in 1 .. 16 : output[16 * m + b] = PutBlock(U)[b]
        BY <2>1, <4>1 DEF Enciphered
      <4>3. \A b \in 1 .. 16 : 16 * m + b \in 1 .. l
        BY <1>2, <4>1
      <4>4. \A b \in 1 .. 16 : output'[16 * m + b] = PutBlock(U)[b]
        BY <1>4, <4>2, <4>3
      <4> QED BY <4>2, <4>4 DEF Enciphered
    <3> QED BY <3>2, <3>3
  <2>4. (\A m \in Nat : 16 * m < Len(output) => Enciphered(input, output, 16 * m, sk))'
    <3>1. Len(output') = l + 16 /\ input' = input /\ sk' = sk
      BY <1>1, <1>4
    <3> QED BY <2>3, <3>1 DEF Enciphered
  <2> QED BY <1>1, <2>2, <2>4 DEF Encrypting
<1>7. Decrypting'
  <2> SUFFICES ASSUME job = "decrypt", ~lost PROVE Decrypting'
    BY <1>1 DEF Decrypting
  <2>1. /\ Kept
        /\ \A j \in 0 .. 31 : sk[j] = enc.sk[31 - j]
        /\ \A n \in 1 .. l : output[n] = Padded[n]
    BY <1>1 DEF CInv, Decrypting, l
  <2>2. PICK U : /\ Run(U, Padded, l, enc.sk)
                 /\ \A j \in 0 .. i + 3 : Low(ulbuf[j]) = Low(U[35 - j])
    BY <1>1 DEF CInv, Decrypting, l
  <2>3. \A j \in 0 .. 35 : Low(ulbuf[j]) = Low(U[35 - j])
    <3>1. i + 3 = 35
      BY <1>1
    <3> QED BY <2>2, <3>1
  <2>4. Padded \in Seq(Byte) /\ l + 16 <= Len(Padded)
    <3>1. ptext \in Seq(Byte) /\ Len(input) = Len(Padded)
      BY <2>1 DEF CInv, Sizes, Kept
    <3> QED BY <1>3, <3>1, PaddedBlocks
  <2>5. \A b \in 1 .. 16 : PutBlock(ulbuf)[b] = Padded[l + b]
    <3> DEFINE s == enc.sk
               S == Padded
    <3>1. S \in Seq(Byte) /\ l \in Nat /\ l + 16 <= Len(S) /\ Run(U, S, l, s)
      BY <1>2, <2>2, <2>4
    <3> HIDE DEF s, S
    <3>2. \A b \in 1 .. 16 : PutBlock(ulbuf)[b] = S[l + b]
      BY ZenonT(40), <2>3, <3>1, BlockUndone
    <3> QED BY <3>2 DEF S
  <2>6. ASSUME NEW n \in 1 .. l + 16 PROVE output'[n] = Padded[n]
    <3>1. CASE n <= l
      <4>1. n \in 1 .. l
        BY <1>2, <3>1
      <4> QED BY <1>4, <2>1, <4>1
    <3>2. CASE ~(n <= l)
      <4>1. n - l \in 1 .. 16 /\ l + (n - l) = n
        BY <1>2, <3>2
      <4> QED BY <1>4, <2>5, <4>1
    <3> QED BY <3>1, <3>2
  <2>7. (\A n \in 1 .. Len(output) : output[n] = Padded[n])'
    BY <1>1, <1>4, <2>6 DEF Padded
  <2>8. Kept'
    BY <1>1, <2>1, KeptStays
  <2>9. (\A j \in 0 .. 31 : sk[j] = enc.sk[31 - j])'
    BY <1>1, <2>1
  <2> QED BY <1>1, <2>7, <2>8, <2>9 DEF Decrypting
<1> QED BY <1>5, <1>6, <1>7 DEF CInv

LEMMA DecryptKeeps == CInv /\ Decrypt => CInv'
<1> SUFFICES ASSUME CInv, Decrypt PROVE CInv'
  OBVIOUS
<1>1. /\ pc = "block" /\ length <= 0 /\ job = "encrypt"
      /\ job' = "decrypt" /\ pc' = "setkey" /\ i' = 0
      /\ k' = KeyWords(key) /\ sk' = [n \in 0 .. 31 |-> {}]
      /\ input' = IF lost THEN <<>> ELSE output
      /\ length' = Len(input') /\ output' = <<>>
      /\ enc' = [k |-> k, sk |-> sk]
      /\ UNCHANGED <<ptext, key, ulbuf, result, lost>>
  BY DEF Decrypt
<1>2. output' \in Seq(Byte) /\ Len(output') = 0
  BY <1>1, EmptySeq
<1>3. /\ input \in Seq(Byte) /\ output \in Seq(Byte)
      /\ length = Len(input) - Len(output) /\ length >= 0
      /\ \E m \in Nat : Len(output) = 16 * m
  BY DEF CInv, Sizes
<1>4. Len(input) \in Nat /\ Len(output) \in Nat /\ Len(output) = Len(input)
  BY <1>1, <1>3, LenProperties
<1>5. input' \in Seq(Byte) /\ Len(input') \in Nat /\ \E m \in Nat : Len(input') = 16 * m
  <2>1. CASE lost
    BY <1>1, <1>2, <2>1, 0 = 16 * 0
  <2>2. CASE ~lost
    BY <1>1, <1>3, <1>4, <2>2
  <2> QED BY <2>1, <2>2
<1>6. Sizes'
  <2>1. On(k', 0 .. 35) /\ On(sk', 0 .. 31) /\ On(ulbuf', 0 .. 35)
    BY <1>1 DEF CInv, Sizes, On, KeyWords
  <2>2. \E m \in Nat : Len(output') = 16 * m
    BY <1>2, 0 = 16 * 0
  <2>3. length' = Len(input') - Len(output') /\ length' >= 0
    BY <1>1, <1>2, <1>5
  <2>4. (ptext \in Seq(Byte) /\ key \in [1 .. 16 -> Byte])'
    BY <1>1 DEF CInv, Sizes
  <2>5. i' \in 0 .. 32 /\ job' \in {"encrypt", "decrypt"}
        /\ pc' \in {"setkey", "block", "round", "done", "throw", "crash"} /\ pc' # "round"
    BY <1>1
  <2> QED BY <1>2, <1>5, <2>1, <2>2, <2>3, <2>4, <2>5 DEF Sizes
<1>7. Encrypting'
  BY <1>1 DEF Encrypting
<1>8. Decrypting'
  <2> SUFFICES ASSUME ~lost PROVE Decrypting'
    BY <1>1 DEF Decrypting
  <2>1. /\ KeyChain(k, sk, 32) /\ input = Padded
        /\ \A m \in Nat : 16 * m < Len(output) => Enciphered(input, output, 16 * m, sk)
    BY <1>1 DEF CInv, Encrypting
  <2>2. enc'.k = k /\ enc'.sk = sk /\ Padded' = Padded /\ input' = output
    BY <1>1 DEF Padded
  <2>3. KeyChain(enc.k, enc.sk, 32)'
    BY <1>1, <2>1, <2>2 DEF KeyChain
  <2>4. Len(input') = Len(Padded')
    BY <1>4, <2>1, <2>2
  <2>5. ASSUME NEW m \in Nat, 16 * m < Len(input')
        PROVE  Enciphered(Padded, input, 16 * m, enc.sk)'
    <3>1. Enciphered(Padded, output, 16 * m, sk)
      BY <2>1, <2>2, <2>5
    <3> QED BY <2>2, <3>1 DEF Enciphered
  <2>6. Kept'
    BY <2>3, <2>4, <2>5 DEF Kept
  <2>7. \A j \in 0 .. i' + 3 : k'[j] = enc'.k[j]
    <3>1. i' + 3 = 3 /\ k' = KeyWords(key)
      BY <1>1
    <3>2. \A j \in 0 .. 3 : k[j] = KeyWords(key)[j]
      BY <2>1 DEF KeyChain
    <3> QED BY <2>2, <3>1, <3>2
  <2>8. (\A j \in 0 .. i - 1 : sk[j] = enc.sk[j])'
    BY <1>1
  <2>9. (\A n \in 1 .. Len(output) : output[n] = Padded[n])'
    BY <1>2
  <2> QED BY <1>1, <2>6, <2>7, <2>8, <2>9 DEF Decrypting
<1> QED BY <1>6, <1>7, <1>8 DEF CInv

LEMMA UnpadKeeps == CInv /\ Unpad => CInv'
<1> SUFFICES ASSUME CInv, Unpad PROVE CInv'
  OBVIOUS
<1>1. /\ pc = "block" /\ length <= 0 /\ job = "decrypt"
      /\ pc' \in {"crash", "throw", "done"}
      /\ UNCHANGED <<ptext, key, job, i, k, sk, input, output, length, ulbuf, lost, enc>>
  BY DEF Unpad
<1>2. Sizes'
  BY <1>1 DEF CInv, Sizes
<1>3. Encrypting'
  BY <1>1 DEF Encrypting
<1>4. Decrypting'
  <2> SUFFICES ASSUME ~lost PROVE Decrypting'
    BY <1>1 DEF Decrypting
  <2>1. Kept /\ \A n \in 1 .. Len(output) : output[n] = Padded[n]
    BY <1>1 DEF CInv, Decrypting
  <2>2. /\ ptext \in Seq(Byte) /\ input \in Seq(Byte) /\ output \in Seq(Byte)
        /\ length = Len(input) - Len(output) /\ length >= 0
    BY DEF CInv, Sizes
  <2>3. Padded \in Seq(Byte) /\ Len(output) = Len(Padded)
    <3>1. Len(input) \in Nat /\ Len(output) \in Nat
      BY <2>2, LenProperties
    <3> QED BY <1>1, <2>1, <2>2, <3>1, PaddedBlocks DEF Kept
  <2>4. output = pad(ptext, 16)
    BY <2>1, <2>2, <2>3, SeqEqual DEF Padded, AES_BLOCK_BYTES
  <2>5. /\ output # <<>> /\ PadCount(output) \in 1 .. 16
        /\ SubSeq(output, 1, Len(output) - PadCount(output)) = ptext
    BY <2>2, <2>4, PadRemoved
  <2>6. pc' = "done" /\ result' = ptext
    BY <2>5 DEF Unpad, AES_BLOCK_BYTES
  <2>7. Kept' /\ (\A n \in 1 .. Len(output) : output[n] = Padded[n])'
    <3>1. Kept'
      BY <1>1, <2>1, KeptStays
    <3> QED BY <1>1, <2>1, <3>1 DEF Padded
  <2> QED BY <1>1, <2>6, <2>7 DEF Decrypting
<1> QED BY <1>2, <1>3, <1>4 DEF CInv

LEMMA StutterKeeps == CInv /\ UNCHANGED vars => CInv'
<1> SUFFICES ASSUME CInv, UNCHANGED vars PROVE CInv'
  OBVIOUS
<1>1. UNCHANGED <<ptext, key, job, pc, i, k, sk, input, output, length, ulbuf, result, lost, enc>>
  BY DEF vars
<1>2. Padded' = Padded
  BY <1>1 DEF Padded
<1>3. Sizes'
  BY <1>1 DEF CInv, Sizes
<1>4. Encrypting'
  BY <1>1, <1>2 DEF CInv, Encrypting, KeyChain, Chain, Enciphered
<1>5. Decrypting'
  <2> SUFFICES ASSUME job = "decrypt", ~lost PROVE Decrypting'
    BY <1>1 DEF Decrypting
  <2>1. Kept'
    BY <1>1, KeptStays DEF CInv, Decrypting
  <2> QED BY <1>1, <1>2, <2>1 DEF CInv, Decrypting
<1> QED BY <1>3, <1>4, <1>5 DEF CInv

(* The message that was encrypted is what the decryption returns, and the  *)
(* decryption neither throws nor reads outside its buffer, for every       *)
(* message, key, substitution table and parameters (sm4.cpp).              *)
THEOREM RoundTripHolds == Spec => []RoundTrip
<1>1. CInv /\ [Next]_vars => CInv'
  BY KeyRoundKeeps, KeyDoneKeeps, LoadBlockKeeps, RoundKeeps, StoreBlockKeeps, DecryptKeeps,
     UnpadKeeps, StutterKeeps DEF Next
<1>2. CInv => RoundTrip
  BY DEF CInv, Sizes, Encrypting, Decrypting, RoundTrip
<1> QED BY InitCInv, <1>1, <1>2, PTL DEF Spec
-----------------------------------------------------------------------------
(* The widths of the words.                                                *)
Wide == SUBSET (0 .. 63)

LEMMA XorWide ==
  /\ \A a, b \in Wide : Xor(a, b) \in Wide
  /\ \A a, b \in SUBSET (0 .. 31) : Xor(a, b) \in SUBSET (0 .. 31)
BY DEF Xor, Wide

LEMMA RotlWide ==
  ASSUME NEW x \in SUBSET (0 .. 31), NEW n \in 0 .. 32
  PROVE  ROTL(x, n) \in Wide
<1>1. SHL(x, n) \subseteq 0 .. 63
  BY DEF SHL
<1>2. {j - (32 - n) : j \in {m \in x : m >= 32 - n}} \subseteq 0 .. 63
  OBVIOUS
<1> QED BY <1>1, <1>2 DEF ROTL, Wide

LEMMA TauWide == \A ka : Tau(ka) \in SUBSET (0 .. 31)
<1> SUFFICES ASSUME NEW ka PROVE Tau(ka) \in SUBSET (0 .. 31)
  OBVIOUS
<1> DEFINE b == [n \in 0 .. 3 |-> Sbox(PutByte(ka, n))]
<1>1. \A n \in 0 .. 3 : b[n] \subseteq 0 .. 7
  <2> SUFFICES ASSUME NEW n \in 0 .. 3 PROVE b[n] \subseteq 0 .. 7
    OBVIOUS
  <2>1. PutByte(ka, n) \in Byte
    BY DEF PutByte, Byte
  <2>2. Sbox(PutByte(ka, n)) \in Byte
    BY <2>1, TableAssumption
  <2> QED BY <2>2 DEF Byte
<1>2. GetWord(b) \subseteq 0 .. 31
  <2> HIDE DEF b
  <2>1. \A n \in 0 .. 3 : {8 * (3 - n) + j : j \in b[n]} \subseteq 0 .. 31
    BY <1>1
  <2> QED BY <2>1 DEF GetWord
<1> QED BY <1>2 DEF Tau

LEMMA FunctionsWide ==
  /\ \A ka : sm4Lt(ka) \in Wide /\ sm4CalciRK(ka) \in Wide
  /\ \A x0 \in Wide : \A x1, x2, x3, rk : sm4F(x0, x1, x2, x3, rk) \in Wide
<1>1. \A ka : Tau(ka) \in Wide
  BY TauWide DEF Wide
<1>2. ASSUME NEW ka PROVE sm4Lt(ka) \in Wide /\ sm4CalciRK(ka) \in Wide
  <2> DEFINE bb == Tau(ka)
  <2>0. bb \in SUBSET (0 .. 31) /\ bb \in Wide
    BY <1>1, TauWide
  <2> HIDE DEF bb
  <2>1. /\ ROTL(bb, 2) \in Wide /\ ROTL(bb, 10) \in Wide /\ ROTL(bb, 18) \in Wide
        /\ ROTL(bb, 24) \in Wide /\ ROTL(bb, 13) \in Wide /\ ROTL(bb, 23) \in Wide
    BY <2>0, RotlWide
  <2>2. /\ Xor(bb, Xor(Xor(ROTL(bb, 2), ROTL(bb, 10)), Xor(ROTL(bb, 18), ROTL(bb, 24)))) \in Wide
        /\ Xor(bb, Xor(ROTL(bb, 13), ROTL(bb, 23))) \in Wide
    BY <2>0, <2>1, XorWide
  <2> QED BY <2>2 DEF sm4Lt, sm4CalciRK, bb
<1> QED BY <1>2, XorWide DEF sm4F

LEMMA WordWide ==
  ASSUME NEW s \in Seq(Byte), NEW n \in Nat, NEW w \in 0 .. 3, n + 4 * w + 4 <= Len(s)
  PROVE  WordAt(s, n, w) \in SUBSET (0 .. 31)
<1> DEFINE b == [j \in 0 .. 3 |-> s[n + 4 * w + j + 1]]
<1>1. \A j \in 0 .. 3 : b[j] \subseteq 0 .. 7
  <2> SUFFICES ASSUME NEW j \in 0 .. 3 PROVE b[j] \subseteq 0 .. 7
    OBVIOUS
  <2>1. n + 4 * w + j + 1 \in 1 .. Len(s)
    BY LenProperties
  <2> QED BY <2>1, ElementOfSeq DEF Byte
<1>2. GetWord(b) \subseteq 0 .. 31
  <2> HIDE DEF b
  <2>1. \A j \in 0 .. 3 : {8 * (3 - j) + m : m \in b[j]} \subseteq 0 .. 31
    <3> SUFFICES ASSUME NEW j \in 0 .. 3, NEW m \in b[j] PROVE 8 * (3 - j) + m \in 0 .. 31
      OBVIOUS
    <3>1. m \in Int /\ 0 <= m /\ m <= 7
      <4>1. b[j] \subseteq 0 .. 7
        BY <1>1
      <4>2. m \in 0 .. 7
        BY <4>1
      <4> QED BY <4>2
    <3>2. 3 - j \in 0 .. 3
      OBVIOUS
    <3>3. \A d \in 0 .. 3, e \in Int : 0 <= e /\ e <= 7 => 8 * d + e \in 0 .. 31
      OBVIOUS
    <3> QED BY ONLY <3>1, <3>2, <3>3
  <2> QED BY <2>1 DEF GetWord
<1> QED BY <1>2 DEF WordAt

Words ==
    /\ ptext \in Message /\ key \in Key /\ lost \in BOOLEAN
    /\ k \in [0 .. 35 -> Wide] /\ sk \in [0 .. 31 -> Wide] /\ ulbuf \in [0 .. 35 -> Wide]
    /\ result \in Seq(Byte)

(* The words that a key schedule and a block start with.                   *)
LEMMA StartsWide ==
  /\ key \in Key => KeyWords(key) \in [0 .. 35 -> Wide]
  /\ \A s \in Seq(Byte), n \in Nat : n + 16 <= Len(s) =>
        [w \in 0 .. 35 |-> IF w < 4 THEN WordAt(s, n, w) ELSE {}] \in [0 .. 35 -> Wide]
  /\ NoWords \in [0 .. 35 -> Wide] /\ [n \in 0 .. 31 |-> {}] \in [0 .. 31 -> Wide]
<1>1. ASSUME key \in Key PROVE KeyWords(key) \in [0 .. 35 -> Wide]
  <2>1. key \in Seq(Byte) /\ Len(key) = 16
    BY <1>1, KeyAssumption, SeqOfFunction
  <2>2. \A w \in 0 .. 3 : Xor(WordAt(key, 0, w), FK[w]) \in Wide
    <3> SUFFICES ASSUME NEW w \in 0 .. 3 PROVE Xor(WordAt(key, 0, w), FK[w]) \in Wide
      OBVIOUS
    <3>1. WordAt(key, 0, w) \in SUBSET (0 .. 31)
      <4>1. 0 \in Nat /\ 0 + 4 * w + 4 <= Len(key)
        BY <2>1
      <4> QED BY ONLY <2>1, <4>1, WordWide
    <3>2. FK[w] \in SUBSET (0 .. 31)
      BY TableAssumption
    <3> QED BY <3>1, <3>2, XorWide DEF Wide
  <2>3. {} \in Wide
    BY DEF Wide
  <2> QED BY <2>2, <2>3 DEF KeyWords
<1>2. ASSUME NEW s \in Seq(Byte), NEW n \in Nat, n + 16 <= Len(s)
      PROVE  [w \in 0 .. 35 |-> IF w < 4 THEN WordAt(s, n, w) ELSE {}] \in [0 .. 35 -> Wide]
  <2>1. \A w \in 0 .. 3 : WordAt(s, n, w) \in Wide
    <3> SUFFICES ASSUME NEW w \in 0 .. 3 PROVE WordAt(s, n, w) \in Wide
      OBVIOUS
    <3>1. Len(s) \in Nat
      BY LenProperties
    <3>2. n + 4 * w + 4 <= Len(s)
      BY <1>2, <3>1
    <3>3. WordAt(s, n, w) \in SUBSET (0 .. 31)
      BY <3>2, WordWide
    <3> QED BY <3>3 DEF Wide
  <2>2. {} \in Wide
    BY DEF Wide
  <2> QED BY <2>1, <2>2
<1>3. NoWords \in [0 .. 35 -> Wide] /\ [n \in 0 .. 31 |-> {}] \in [0 .. 31 -> Wide]
  BY DEF NoWords, Wide
<1> QED BY <1>1, <1>2, <1>3

LEMMA WordsKept == CInv /\ Words /\ [Next]_vars => Words'
<1> SUFFICES ASSUME CInv, Words, [Next]_vars PROVE Words'
  OBVIOUS
<1>1. CASE KeyRound
  <2> DEFINE w == Xor(k[i], sm4CalciRK(Xor(Xor(k[i + 1], k[i + 2]), Xor(k[i + 3], CK[i]))))
  <2>1. w \in Wide
    <3>1. i \in 0 .. 35
      BY <1>1 DEF CInv, Sizes
    <3> QED BY <3>1, FunctionsWide, XorWide DEF Words
  <2>2. k' = [k EXCEPT ![i + 4] = w] /\ sk' = [sk EXCEPT ![i] = w]
    BY <1>1 DEF KeyRound
  <2>3. k' \in [0 .. 35 -> Wide] /\ sk' \in [0 .. 31 -> Wide]
    <3> HIDE DEF w
    <3> QED BY <2>1, <2>2 DEF Words
  <2> QED BY <1>1, <2>3 DEF KeyRound, Words
<1>2. CASE KeyDone
  <2>1. Swapped(sk) \in [0 .. 31 -> Wide]
    BY DEF Swapped, Words
  <2> QED BY <1>2, <2>1 DEF KeyDone, Words
<1>3. CASE LoadBlock
  <2>1. Len(output) + 16 <= Len(input) /\ Len(output) \in Nat /\ input \in Seq(Byte)
    <3>1. PICK m \in Nat : Len(output) = 16 * m
      BY DEF CInv, Sizes
    <3>2. PICK l \in Nat : Len(input) = 16 * l
      BY DEF CInv, Sizes
    <3>3. 16 * l - 16 * m > 0
      BY <1>3, <3>1, <3>2 DEF LoadBlock, CInv, Sizes
    <3>4. l >= m + 1
      BY <3>3
    <3>5. 16 * m + 16 <= 16 * l /\ 16 * m \in Nat
      BY <3>4
    <3>6. input \in Seq(Byte)
      BY DEF CInv, Sizes
    <3> QED BY <3>1, <3>2, <3>5, <3>6
  <2>2. ulbuf' \in [0 .. 35 -> Wide]
    BY <1>3, <2>1, StartsWide DEF LoadBlock
  <2> QED BY <1>3, <2>2 DEF LoadBlock, Words
<1>4. CASE Round
  <2> DEFINE w == sm4F(ulbuf[i], ulbuf[i + 1], ulbuf[i + 2], ulbuf[i + 3], sk[i])
  <2>1. w \in Wide
    <3>1. i \in 0 .. 35
      BY <1>4 DEF CInv, Sizes
    <3> QED BY <3>1, FunctionsWide DEF Words
  <2>2. ulbuf' \in [0 .. 35 -> Wide]
    <3>1. ulbuf' = [ulbuf EXCEPT ![i + 4] = w]
      BY <1>4 DEF Round
    <3> HIDE DEF w
    <3> QED BY <2>1, <3>1 DEF Words
  <2> QED BY <1>4, <2>2 DEF Round, Words
<1>5. CASE StoreBlock
  BY <1>5 DEF StoreBlock, Words
<1>6. CASE Decrypt
  <2>1. k' \in [0 .. 35 -> Wide] /\ sk' \in [0 .. 31 -> Wide]
    BY <1>6, StartsWide DEF Decrypt, Words
  <2> QED BY <1>6, <2>1 DEF Decrypt, Words
<1>7. CASE Unpad
  <2>1. result' \in Seq(Byte)
    <3>1. CASE result' = result
      BY <3>1 DEF Words
    <3>2. CASE /\ output # <<>> /\ PadCount(output) \in 1 .. AES_BLOCK_BYTES
               /\ result' = SubSeq(output, 1, Len(output) - PadCount(output))
      <4>1. output \in Seq(Byte) /\ Len(output) \in Nat
        BY LenProperties DEF CInv, Sizes
      <4>2. \A j \in 1 .. Len(output) - PadCount(output) : output[j] \in Byte
        BY <3>2, <4>1, ElementOfSeq
      <4>3. Len(output) - PadCount(output) \in Int
        BY <3>2, <4>1
      <4> QED BY <3>2, <4>1, <4>2, <4>3, SubSeqProperties
    <3> QED BY <1>7, <3>1, <3>2 DEF Unpad
  <2> QED BY <1>7, <2>1 DEF Unpad, Words
<1>8. CASE UNCHANGED vars
  BY <1>8 DEF vars, Words
<1> QED BY <1>1, <1>2, <1>3, <1>4, <1>5, <1>6, <1>7, <1>8 DEF Next

(* No word ever has a bit above the 63rd, so the unsigned longs of the     *)
(* build hold what the rounds make of them, and the pointers of            *)
(* sm4_crypt_ecb never pass the end of the input.                          *)
THEOREM Sm4TypeCorrect == Spec => []TypeOK
<1>1. Init => Words
  <2> SUFFICES ASSUME Init PROVE Words
    OBVIOUS
  <2>1. k \in [0 .. 35 -> Wide] /\ sk \in [0 .. 31 -> Wide] /\ ulbuf \in [0 .. 35 -> Wide]
    BY SMTT(30), StartsWide DEF Init
  <2> QED BY <2>1 DEF Init, Words
<1>2. CInv /\ [Next]_vars => CInv'
  BY KeyRoundKeeps, KeyDoneKeeps, LoadBlockKeeps, RoundKeeps, StoreBlockKeeps, DecryptKeeps,
     UnpadKeeps, StutterKeeps DEF Next
<1>3. CInv /\ Words => TypeOK
  BY DEF CInv, Sizes, Words, Wide, TypeOK
<1> QED BY InitCInv, WordsKept, <1>1, <1>2, <1>3, PTL DEF Spec
=============================================================================
