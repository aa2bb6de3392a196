-------------------------------- MODULE Sm4 --------------------------------
(***************************************************************************)
(* encrypt_SM4_EBC and decrypt_SM4_EBC: padding, the key schedule, and the *)
(* rounds of every block.  A word is the set of the positions of its one   *)
(* bits and a byte a subset of 0 .. 7, so that exclusive or is the         *)
(* symmetric difference.  The words are unsigned longs of 64 bits for the  *)
(* 32 of the cipher: ROTL leaves bits above the 31st, which the next       *)
(* PUT_ULONG_BE drops.                                                     *)
(*                                                                         *)
(* The base64 text between the two functions, which restores the bytes it  *)
(* was made from, is left out, and so is the mode, which nothing reads.    *)
(***************************************************************************)
EXTENDS Integers, Sequences

CONSTANTS
    Sbox(_),        \* SboxTable as a function of bytes
    FK, CK,         \* the parameters of the standard
    Message,        \* plaintexts, sequences of bytes
    Key,            \* keys, sequences of 16 bytes
    Known           \* known answers: [key, text, cipher] of a block

Byte == SUBSET (0 .. 7)

ASSUME MessageAssumption == Message \subseteq Seq(Byte)
ASSUME KeyAssumption == Key \subseteq [1 .. 16 -> Byte]
ASSUME TableAssumption ==
    /\ \A b \in Byte : Sbox(b) \in Byte
    /\ FK \in [0 .. 3 -> SUBSET (0 .. 31)] /\ CK \in [0 .. 31 -> SUBSET (0 .. 31)]

VARIABLES
    ptext, key,
    job,            \* "encrypt" or "decrypt"
    pc,             \* "setkey", "block", "round", or how it ended
    i,              \* the counter of the running loop
    k, sk,          \* words of the key schedule, and subkeys
    input, output,  \* what was written of output is as long as what was read of input
    length,         \* bytes that sm4_crypt_ecb still has to read
    ulbuf,
    result,         \* what decrypt_SM4_EBC returns
    lost,           \* the block is not in the ORAM when it is read back
    enc             \* history: k and sk of the encryption

vars == <<ptext, key, job, pc, i, k, sk, input, output, length, ulbuf, result, lost, enc>>
-----------------------------------------------------------------------------
Xor(a, b) == (a \ b) \cup (b \ a)

SHL(x, n)  == {j + n : j \in x \cap 0 .. 31}
ROTL_NoWrapBug(x, n) == SHL(x, n)      \* the high bits are shifted out

ROTL(x, n) == SHL(x, n) \cup {j - (32 - n) : j \in {m \in x : m >= 32 - n}}

\* PUT_ULONG_BE and GET_ULONG_BE; byte 0 is the highest of the lower four.
PutByte(x, n) == {j \in 0 .. 7 : 8 * (3 - n) + j \in x}
GetWord(b)    == UNION {{8 * (3 - n) + j : j \in b[n]} : n \in 0 .. 3}

Tau(ka) == GetWord([n \in 0 .. 3 |-> Sbox(PutByte(ka, n))])

sm4Lt(ka) ==
    LET bb == Tau(ka) IN
    Xor(bb, Xor(Xor(ROTL(bb, 2), ROTL(bb, 10)), Xor(ROTL(bb, 18), ROTL(bb, 24))))

sm4CalciRK(ka) ==
    LET bb == Tau(ka) IN Xor(bb, Xor(ROTL(bb, 13), ROTL(bb, 23)))

sm4F(x0, x1, x2, x3, rk) == Xor(x0, sm4Lt(Xor(Xor(x1, x2), Xor(x3, rk))))

\* Word w of the 16 bytes that follow the first n of a sequence.
WordAt(s, n, w) == GetWord([b \in 0 .. 3 |-> s[n + 4 * w + b + 1]])

\* The words 35, 34, 33 and 32 are put out.
PutBlock(u) == [n \in 1 .. 16 |-> PutByte(u[35 - (n - 1) \div 4], (n - 1) % 4)]
-----------------------------------------------------------------------------
AES_BLOCK_BYTES == 16

Weight == <<1, 2, 4, 8, 16, 32, 64, 128>>
ToByte(n) == {j \in 0 .. 7 : (n \div Weight[j + 1]) % 2 = 1}
Bit(b, j) == IF j \in b THEN 1 ELSE 0
ToInt(b)  == Bit(b, 0) + 2 * Bit(b, 1) + 4 * Bit(b, 2) + 8 * Bit(b, 3)
                + 16 * Bit(b, 4) + 32 * Bit(b, 5) + 64 * Bit(b, 6) + 128 * Bit(b, 7)

getBlocks(unit, len) ==
    LET blocks == len \div unit
    IN  IF len > blocks * unit THEN blocks + 1 ELSE blocks

pad_FullBug(data, unit) ==      \* no block is added when the length is a multiple
    LET padding == getBlocks(unit, Len(data)) * unit - Len(data)
        paddedLen == Len(data) + padding
    IN  [n \in 1 .. paddedLen |-> IF n <= Len(data) THEN data[n]
                                  ELSE IF n = paddedLen THEN ToByte(padding) ELSE {}]

pad(data, unit) ==
    LET multipleLen == getBlocks(unit, Len(data)) * unit
        padding     == IF multipleLen = Len(data) THEN unit ELSE multipleLen - Len(data)
        paddedLen   == Len(data) + padding
    IN  [n \in 1 .. paddedLen |-> IF n <= Len(data) THEN data[n]
                                  ELSE IF n = paddedLen THEN ToByte(padding) ELSE {}]

PadCount(data) == ToInt(data[Len(data)])
-----------------------------------------------------------------------------
NoWords == [n \in 0 .. 35 |-> {}]

\* The start of sm4_setkey.
KeyWords(ky) == [n \in 0 .. 35 |-> IF n < 4 THEN Xor(WordAt(ky, 0, n), FK[n]) ELSE {}]

Init ==
    /\ ptext \in Message /\ key \in Key
    /\ job = "encrypt" /\ pc = "setkey"
    /\ i = 0
    /\ k = KeyWords(key) /\ sk = [n \in 0 .. 31 |-> {}]
    /\ input = pad(ptext, AES_BLOCK_BYTES) /\ output = <<>>
    /\ length = Len(input)
    /\ ulbuf = NoWords
    /\ result = <<>>
    /\ lost \in BOOLEAN
    /\ enc = [k |-> NoWords, sk |-> sk]

KeyRound ==
    /\ pc = "setkey" /\ i < 32
    /\ LET w == Xor(k[i], sm4CalciRK(Xor(Xor(k[i + 1], k[i + 2]), Xor(k[i + 3], CK[i]))))
       IN  k' = [k EXCEPT ![i + 4] = w] /\ sk' = [sk EXCEPT ![i] = w]
    /\ i' = i + 1
    /\ UNCHANGED <<ptext, key, job, pc, input, output, length, ulbuf, result, lost, enc>>

\* The loop of sm4_setkey_dec: each pair of subkeys is exchanged once.
Swapped(s) == [n \in 0 .. 31 |-> s[31 - n]]

KeyDone ==
    /\ pc = "setkey" /\ i = 32
    /\ pc' = "block"
    /\ IF job = "decrypt" THEN sk' = Swapped(sk) ELSE UNCHANGED sk
    /\ UNCHANGED <<ptext, key, job, i, k, input, output, length, ulbuf, result, lost, enc>>

\* sm4_crypt_ecb starts sm4_one_round on the next block.
LoadBlock ==
    /\ pc = "block" /\ length > 0
    /\ pc' = "round" /\ i' = 0
    /\ ulbuf' = [n \in 0 .. 35 |-> IF n < 4 THEN WordAt(input, Len(output), n) ELSE {}]
    /\ UNCHANGED <<ptext, key, job, k, sk, input, output, length, result, lost, enc>>

Round ==
    /\ pc = "round" /\ i < 32
    /\ ulbuf' = [ulbuf EXCEPT ![i + 4] =
                   sm4F(ulbuf[i], ulbuf[i + 1], ulbuf[i + 2], ulbuf[i + 3], sk[i])]
    /\ i' = i + 1
    /\ UNCHANGED <<ptext, key, job, pc, k, sk, input, output, length, result, lost, enc>>

StoreBlock_LengthBug ==         \* the length is counted down twice
    /\ pc = "round" /\ i = 32
    /\ output' = output \o PutBlock(ulbuf)
    /\ length' = length - 32
    /\ pc' = "block"
    /\ UNCHANGED <<ptext, key, job, i, k, sk, input, ulbuf, result, lost, enc>>

StoreBlock ==
    /\ pc = "round" /\ i = 32
    /\ output' = output \o PutBlock(ulbuf)
    /\ length' = length - 16
    /\ pc' = "block"
    /\ UNCHANGED <<ptext, key, job, i, k, sk, input, ulbuf, result, lost, enc>>

\* encrypt_SM4_EBC has returned; decrypt_SM4_EBC is called with what the ORAM
\* gives back, which is empty when it does not have the block.
Decrypt ==
    /\ pc = "block" /\ length <= 0 /\ job = "encrypt"
    /\ job' = "decrypt" /\ pc' = "setkey" /\ i' = 0
    /\ k' = KeyWords(key) /\ sk' = [n \in 0 .. 31 |-> {}]
    /\ input' = IF lost THEN <<>> ELSE output
    /\ length' = Len(input')
    /\ output' = <<>>
    /\ enc' = [k |-> k, sk |-> sk]
    /\ UNCHANGED <<ptext, key, ulbuf, result, lost>>

\* unpad reads the last byte: of an empty vector, which has no memory, the
\* one before address 0.
Unpad ==
    /\ pc = "block" /\ length <= 0 /\ job = "decrypt"
    /\ \/ /\ output = <<>>
          /\ pc' = "crash" /\ UNCHANGED result
       \/ /\ output # <<>> /\ PadCount(output) \notin 1 .. AES_BLOCK_BYTES
          /\ pc' = "throw" /\ UNCHANGED result
       \/ /\ output # <<>> /\ PadCount(output) \in 1 .. AES_BLOCK_BYTES
          /\ pc' = "done"
          /\ result' = SubSeq(output, 1, Len(output) - PadCount(output))
    /\ UNCHANGED <<ptext, key, job, i, k, sk, input, output, length, ulbuf, lost, enc>>

Next == KeyRound \/ KeyDone \/ LoadBlock \/ Round \/ StoreBlock \/ Decrypt \/ Unpad

Spec == Init /\ [][Next]_vars
-----------------------------------------------------------------------------
\* No word needs more than the 64 bits of an unsigned long, and the length
\* left is what the pointers have still to pass.
TypeOK ==
    /\ ptext \in Message /\ key \in Key
    /\ job \in {"encrypt", "decrypt"}
    /\ pc \in {"setkey", "block", "round", "done", "throw", "crash"}
    /\ i \in 0 .. 32
    /\ k \in [0 .. 35 -> SUBSET (0 .. 63)] /\ sk \in [0 .. 31 -> SUBSET (0 .. 63)]
    /\ ulbuf \in [0 .. 35 -> SUBSET (0 .. 63)]
    /\ {input, output, result} \subseteq Seq(Byte)
    /\ length = Len(input) - Len(output)
    /\ lost \in BOOLEAN

\* What was encrypted is decrypted to the same bytes, whatever its length and
\* its bytes are, although the words carry bits that are not the cipher's.
RoundTrip == pc \in {"done", "throw", "crash"} /\ ~lost => pc = "done" /\ result = ptext

\* sm4.cpp: "given by the SM4 standard".  A block of a known answer of the
\* standard is encrypted to that answer.
KnownAnswers ==
    \A v \in Known :
       job = "encrypt" /\ key = v.key /\ output # <<>> /\ SubSeq(input, 1, 16) = v.text =>
          SubSeq(output, 1, 16) = v.cipher
=============================================================================
