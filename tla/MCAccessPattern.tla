-------------------------- MODULE MCAccessPattern --------------------------
EXTENDS AccessPattern
CONSTANT d1
=============================================================================
