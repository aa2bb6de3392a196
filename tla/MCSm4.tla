------------------------------- MODULE MCSm4 -------------------------------
(***************************************************************************)
(* Sm4 with the tables of the code, on messages around a multiple of the   *)
(* block length, and with the first example of the SM4 standard.           *)
(***************************************************************************)
EXTENDS Sm4, Sm4Tables

MCSbox(b) == sm4Sbox(b)
MCFK == FKWords
MCCK == CKWords

BytesOf(s) == [n \in DOMAIN s |-> Bits(s[n])]
Fill(len, b) == [n \in 1 .. len |-> Bits(b)]

Standard == BytesOf(<<1, 35, 69, 103, 137, 171, 205, 239, 254, 220, 186, 152, 118, 84, 50, 16>>)
Answer   == BytesOf(<<104, 30, 223, 52, 210, 6, 150, 94, 134, 179, 233, 79, 83, 110, 66, 70>>)

Messages == {<<>>, Fill(1, 255), Fill(15, 1), Fill(16, 0), Fill(17, 16), Standard,
             Standard \o Fill(15, 2)}
Keys     == {Standard, Fill(16, 0)}
Answers  == {[key |-> Standard, text |-> Standard, cipher |-> Answer]}
=============================================================================
