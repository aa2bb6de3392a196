--------------------------- MODULE MCPathOramRpc ---------------------------
EXTENDS PathOramRpc
CONSTANTS d1, d2
DataSymmetry == Permutations({d1, d2})
=============================================================================
