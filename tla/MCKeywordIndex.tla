--------------------------- MODULE MCKeywordIndex ---------------------------
(***************************************************************************)
(* Tables of up to three rows and a few key streams.                       *)
(***************************************************************************)
EXTENDS KeywordIndex

StreamsBound == 0 .. 15     \* as many as the largest permutation needs
SmallStreams == {[k \in StreamsBound |-> 7 * k + 5],
                 [k \in StreamsBound |-> k * k + 3]}
=============================================================================
