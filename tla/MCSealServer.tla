---------------------------- MODULE MCSealServer ----------------------------
(***************************************************************************)
(* Two clients.  A has an array of its own, a1, and the first array of the *)
(* key kB, which B uses too: for its second array, b1, and for its         *)
(* dictionary, bd.                                                         *)
(***************************************************************************)
EXTENDS SealServer, TLC

CONSTANTS A, B, a1, aB, b1, bd, kA, kB, dA, dB

Owner    == a1 :> A     @@ aB :> A     @@ b1 :> B     @@ bd :> B
MapKey   == a1 :> kA    @@ aB :> kB    @@ b1 :> kB    @@ bd :> kB
IsOdict  == a1 :> FALSE @@ aB :> FALSE @@ b1 :> FALSE @@ bd :> TRUE
OramId   == a1 :> 0     @@ aB :> 0     @@ b1 :> 1     @@ bd :> 0
Contents == a1 :> {dA}  @@ aB :> {}    @@ b1 :> {}    @@ bd :> {dB}
Same     == A :> 1 @@ B :> 1
Mixed    == A :> 2 @@ B :> 1
=============================================================================
