------------------------------ MODULE OramTree ------------------------------
(***************************************************************************)
(* The complete binary tree of buckets that OramReadPathEviction keeps on  *)
(* the server.  Buckets are numbered breadth first from the root, and a    *)
(* leaf names the path of buckets from the root down to it.                *)
(***************************************************************************)
EXTENDS Integers

CONSTANTS
    num_blocks,     \* addresses the constructor gives a random leaf
    bucket_size,    \* blocks a bucket holds
    num_levels      \* ceil(log2(num_blocks)) + 1

ASSUME SizeAssumption ==
    /\ num_blocks \in Nat \ {0}
    /\ bucket_size \in Nat \ {0}
    /\ num_levels \in Nat \ {0}

\* The arithmetic of powers of two, which the provers do not know.
ASSUME PowersOfTwo ==
    /\ 2^0 = 1
    /\ \A n \in 0..num_levels : /\ 2^n \in Nat
                                /\ 2^(n + 1) = 2 * 2^n

num_buckets == 2^num_levels - 1
num_leaves  == 2^(num_levels - 1)

\* The constructor throws when the tree has less room than this.
ASSUME RoomAssumption == num_buckets * bucket_size >= num_blocks

Levels    == 0 .. num_levels - 1
Leaves    == 0 .. num_leaves - 1
Positions == 0 .. num_buckets - 1

\* The position of the bucket at a level of the path to a leaf: the shift
\* right of the code is a division, leaf being non-negative.
P(leaf, level) == 2^level - 1 + leaf \div 2^(num_levels - level - 1)

Path(leaf) == {P(leaf, l) : l \in Levels}
=============================================================================
