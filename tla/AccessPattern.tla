--------------------------- MODULE AccessPattern ---------------------------
(***************************************************************************)
(* What the server learns of an access: the leaf whose path is read.  The  *)
(* path says nothing of earlier accesses if its leaf was drawn after the   *)
(* last access of the address and has not been shown since.  The ORAM of   *)
(* the dictionary serves access_direct for the nodes, and access for the   *)
(* padding, which goes to address 0.                                       *)
(***************************************************************************)
EXTENDS PathOram

VARIABLES
    shown,      \* history: addresses whose present leaf the server has seen
    repeated    \* history: the running access reads a path shown before

patternVars == <<shown, repeated>>

\* The leaf of the address called is shown; a leaf newly drawn is not.
Observe(c, drawn) ==
    /\ repeated' = (c.index \in shown)
    /\ shown' = IF drawn THEN shown \ {c.index} ELSE shown \cup {c.index}

Pad(c)    == c.index = 0 /\ access(c) /\ Observe(c, TRUE)
Direct(c) == access_direct(c) /\ Observe(c, FALSE)

PatternInit == Init /\ shown = {} /\ repeated = FALSE

PatternNext ==
    \/ \E c \in Call : Pad(c) \/ Direct(c)
    \/ (ReadPathBucket \/ Serve \/ EvictBucket) /\ UNCHANGED patternVars

PatternSpec == PatternInit /\ [][PatternNext]_<<vars, patternVars>>

\* No access reads a path that the server can link to an earlier access of
\* the same address.  Client.h says so of the dictionary's accesses: "the
\* physical accesses observed by the server are oblivious".
PathsUnlinked == ~repeated
=============================================================================
