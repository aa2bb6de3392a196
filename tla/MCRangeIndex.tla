---------------------------- MODULE MCRangeIndex ----------------------------
EXTENDS RangeIndex

StreamsBound == 0 .. StreamLength - 1
SmallStreams == {[k \in StreamsBound |-> 7 * k + 5], [k \in StreamsBound |-> k * k + 3]}
=============================================================================
