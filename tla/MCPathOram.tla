----------------------------- MODULE MCPathOram -----------------------------
(***************************************************************************)
(* Small instances of PathOram for TLC.                                    *)
(***************************************************************************)
EXTENDS PathOram

CONSTANTS d1, d2

\* The constructor's computation of num_levels.
ASSUME num_levels = 1 + (CHOOSE k \in 0 .. num_blocks :
                            2^k >= num_blocks /\ \A j \in 0 .. k - 1 : 2^j < num_blocks)
=============================================================================
