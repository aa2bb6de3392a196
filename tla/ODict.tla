------------------------------- MODULE ODict -------------------------------
(***************************************************************************)
(* The oblivious dictionary of Client: an AVL tree whose nodes are blocks  *)
(* of an ORAM.  A batch (ODS_start ... ODS_finalize) works on a cache of   *)
(* the nodes it has read, and writes the cache back at its end.            *)
(*                                                                         *)
(* insert_priv and find_priv are recursive.  Here each call is a step on   *)
(* the way down, and each return a step on the way up; frames holds the    *)
(* copies of the nodes that the pending calls read (their variable root).  *)
(* A node has its left fields at 1 and its right fields at 2.              *)
(*                                                                         *)
(* The ORAM is the memory that PathOram implements.  The cache is made     *)
(* with INT_MAX entries and never evicts.  old_tag, which nothing reads    *)
(* but the code that sets it, and the encryption are left out.             *)
(***************************************************************************)
EXTENDS Integers, Sequences

CONSTANTS
    Key,            \* keys in their order
    num_leaves,     \* position tags are leaves
    MaxNodes,       \* bound on the nodes made, keys inserted twice included
    MaxCalls        \* bound on the calls of a batch

ASSUME KeyAssumption == Key \subseteq Nat
ASSUME BoundAssumption == {MaxNodes, MaxCalls} \subseteq Nat /\ num_leaves \in Nat \ {0}

VARIABLES
    oram,           \* the nodes in the ORAM
    cache,          \* the nodes of the running batch
    root_id, node_count, read_count, write_count,
    pc,             \* "idle", "batch", or what runs: "descend", "ascend", "find"
    batch,          \* "insert" or "find"
    frames,         \* nodes read by the pending calls of insert_priv
    at,             \* the root_id argument of the running call
    node,           \* the node to insert, or one with the key to find
    cur,            \* the node the last call of insert_priv returned
    calls,          \* calls of the running batch so far
    answer          \* the id of the node that the last call, a find, returned, or 0

store  == <<oram, root_id, node_count>>
counts == <<read_count, write_count>>
locals == <<frames, at, node, cur>>
vars   == <<store, counts, cache, calls, pc, batch, locals, answer>>

Id  == 1 .. MaxNodes
Tag == 0 .. num_leaves - 1
Node == [id : Id, key : Key, child : [{1, 2} -> {0} \cup Id],
         height : [{1, 2} -> Nat], pos_tag : Tag, childrenPos : [{1, 2} -> Tag]]

NewNode(id, k) == [id |-> id, key |-> k, child |-> <<0, 0>>, height |-> <<0, 0>>,
                   pos_tag |-> 0, childrenPos |-> <<0, 0>>]

NoNode == NewNode(0, 0)

Init ==
    /\ oram = <<>> /\ cache = <<>>
    /\ root_id = 0 /\ node_count = 1
    /\ read_count = 0 /\ write_count = 0
    /\ pc = "idle" /\ batch = "find"
    /\ frames = <<>> /\ at = 0 /\ calls = 0 /\ answer = 0
    /\ node = NoNode /\ cur = NoNode

----------------------------------------------------------------------------
\* f, and g where f is not defined.
Over(f, g) == [i \in DOMAIN f \cup DOMAIN g |-> IF i \in DOMAIN f THEN f[i] ELSE g[i]]

\* A node that is not in the cache is fetched from the ORAM and put there.
Fetch(c, id) == IF id \in DOMAIN c THEN c ELSE Over(c, [i \in {id} |-> oram[id]])

get_height(n) == 1 + (IF n.height[1] > n.height[2] THEN n.height[1] ELSE n.height[2])

Side(n, k) == IF n.key < k THEN 2 ELSE 1

\* A node whose child on side s is id, with the height and the tag kept for it.
WithChild(n, s, id, h, tag) ==
    [n EXCEPT !.child[s] = id, !.height[s] = h, !.childrenPos[s] = tag]

\* right_rotate for s = 1, left_rotate for s = 2: the child on side s goes up.
Rotate_SideBug(c, id, s) ==         \* the outer subtree is handed over
    LET o    == 3 - s
        c1   == Fetch(c, c[id].child[s])
        kid  == c1[c[id].child[s]]
        down == WithChild(c[id], s, kid.child[s], kid.height[s], c[id].childrenPos[s])
        up   == WithChild(kid, o, id, get_height(down), kid.childrenPos[o])
    IN  [c1 EXCEPT ![id] = down, ![kid.id] = up]

Rotate(c, id, s) ==
    LET o    == 3 - s
        c1   == Fetch(c, c[id].child[s])
        kid  == c1[c[id].child[s]]
        down == WithChild(c[id], s, kid.child[o], kid.height[o], kid.childrenPos[o])
        up   == WithChild(kid, o, id, get_height(down), down.pos_tag)
    IN  [c1 EXCEPT ![id] = down, ![kid.id] = up]

\* left_right_rotate for s = 1, right_left_rotate for s = 2.
DoubleRotate(c, id, s) ==
    LET kid == c[id].child[s]
        top == c[kid].child[3 - s]
        c1  == Rotate(c, kid, 3 - s)
    IN  Rotate([c1 EXCEPT ![id] = WithChild(@, s, top, get_height(c1[top]), @.childrenPos[s])],
               id, s)

\* The cache after balance, the node it returns and its reads and writes.
Balance_DoubleBug(c, id) ==         \* double rotations are done as single ones
    LET heavy == {s \in {1, 2} : c[id].height[s] - c[id].height[3 - s] > 1}
    IN  IF heavy = {}
        THEN [cache |-> c, top |-> id, reads |-> 1, writes |-> 0]
        ELSE LET s   == CHOOSE x \in heavy : TRUE
                 kid == c[id].child[s]
                 c1  == Fetch(c, kid)
             IN  [cache |-> Rotate(c1, id, s), top |-> kid, reads |-> 4, writes |-> 2]

balance(c, id) ==
    LET heavy == {s \in {1, 2} : c[id].height[s] - c[id].height[3 - s] > 1}
    IN  IF heavy = {}
        THEN [cache |-> c, top |-> id, reads |-> 1, writes |-> 0]
        ELSE LET s   == CHOOSE x \in heavy : TRUE
                 kid == c[id].child[s]
                 c1  == Fetch(c, kid)
             IN  IF c1[kid].height[s] >= c1[kid].height[3 - s]
                 THEN [cache |-> Rotate(c1, id, s), top |-> kid,
                       reads |-> 4, writes |-> 2]
                 ELSE [cache |-> DoubleRotate(c1, id, s), top |-> c1[kid].child[3 - s],
                       reads |-> 7, writes |-> 5]
----------------------------------------------------------------------------
\* The locals of a call are gone when it has returned.
Return == pc' = "batch" /\ frames' = <<>> /\ at' = 0 /\ node' = NoNode /\ cur' = NoNode

ODS_start ==
    /\ pc = "idle"
    /\ pc' = "batch" /\ batch' \in {"insert", "find"}
    /\ cache' = <<>>
    /\ UNCHANGED <<store, counts, calls, locals, answer>>

\* Client::insert(nodes) takes the next node; its maker has drawn its id.
insert(k) ==
    /\ pc = "batch" /\ batch = "insert" /\ node_count <= MaxNodes
    /\ calls < MaxCalls /\ calls' = calls + 1
    /\ node' = NewNode(node_count, k) /\ node_count' = node_count + 1
    /\ pc' = "descend" /\ at' = root_id /\ frames' = <<>> /\ answer' = 0
    /\ UNCHANGED <<oram, root_id, counts, cache, batch, cur>>

\* insert_priv reads the root of a subtree and calls itself for a child, or
\* does not when the key is there already.
Descend ==
    /\ pc = "descend" /\ at # 0
    /\ cache' = Fetch(cache, at) /\ read_count' = read_count + 1
    /\ LET root == Fetch(cache, at)[at] IN
       /\ frames' = Append(frames, root)
       /\ IF root.key = node.key
          THEN pc' = "ascend" /\ UNCHANGED at
          ELSE at' = root.child[Side(root, node.key)] /\ UNCHANGED pc
    /\ UNCHANGED <<store, write_count, calls, batch, node, cur, answer>>

Attach_NotPutBug ==         \* the new node is returned but not cached
    /\ pc = "descend" /\ at = 0
    /\ cur' = node /\ pc' = "ascend"
    /\ UNCHANGED <<store, counts, cache, calls, batch, frames, at, node, answer>>

\* insert_priv at an empty subtree puts the node there.
Attach ==
    /\ pc = "descend" /\ at = 0
    /\ cache' = Over([i \in {node.id} |-> node], cache)
    /\ cur' = node /\ pc' = "ascend"
    /\ UNCHANGED <<store, counts, calls, batch, frames, at, node, answer>>

Linked_HeightBug(root) ==       \* the height of the subtree is not refreshed
    IF root.key = node.key THEN root
    ELSE [root EXCEPT !.child[Side(root, node.key)] = cur.id]

\* root after the recursive call.
Linked(root) ==
    LET s == Side(root, node.key)
    IN  IF root.key = node.key THEN root
        ELSE WithChild(root, s, cur.id, get_height(cur), root.childrenPos[s])

\* insert_priv writes its root and balances it.
Ascend ==
    /\ pc = "ascend" /\ frames # <<>>
    /\ LET root == frames[Len(frames)]
           b    == balance([cache EXCEPT ![root.id] = Linked(root)], root.id) IN
       /\ cache' = b.cache
       /\ cur' = b.cache[b.top]
       /\ read_count' = read_count + b.reads
       /\ write_count' = write_count + 1 + b.writes
    /\ frames' = SubSeq(frames, 1, Len(frames) - 1)
    /\ UNCHANGED <<store, pc, calls, batch, at, node, answer>>

InsertReturns ==
    /\ pc = "ascend" /\ frames = <<>>
    /\ root_id' = cur.id
    /\ Return
    /\ UNCHANGED <<oram, node_count, counts, cache, calls, batch, answer>>

find(k) ==
    /\ pc = "batch" /\ batch = "find"
    /\ calls < MaxCalls /\ calls' = calls + 1
    /\ pc' = "find" /\ at' = root_id /\ node' = NewNode(0, k) /\ answer' = 0
    /\ UNCHANGED <<store, counts, cache, batch, frames, cur>>

find_priv ==
    /\ pc = "find" /\ at # 0
    /\ cache' = Fetch(cache, at) /\ read_count' = read_count + 1
    /\ LET root == Fetch(cache, at)[at] IN
       IF root.key = node.key
       THEN answer' = root.id /\ Return
       ELSE /\ at' = root.child[Side(root, node.key)]
            /\ UNCHANGED <<answer, pc, frames, node, cur>>
    /\ UNCHANGED <<store, write_count, calls, batch>>

FindNothing_NoRootBug ==        \* the missing subtree is not noticed
    /\ pc = "find" /\ at = 0
    /\ answer' = 0
    /\ UNCHANGED <<store, counts, cache, calls, pc, batch, locals>>

FindNothing ==
    /\ pc = "find" /\ at = 0
    /\ answer' = 0
    /\ Return
    /\ UNCHANGED <<store, counts, cache, calls, batch>>

\* Every cached node gets a new tag, and those of its children that are cached
\* too; position_tag[id] makes a zero for a child that is not.
update_pos(tag) ==
    [i \in DOMAIN cache |->
       [cache[i] EXCEPT !.pos_tag = tag[i],
          !.childrenPos = [s \in {1, 2} |-> IF cache[i].child[s] \in DOMAIN cache
                                            THEN tag[cache[i].child[s]] ELSE 0]]]

ODS_finalize_NewOnlyBug ==      \* only nodes the ORAM does not have are written
    /\ pc = "batch"
    /\ oram' = Over(oram, cache)
    /\ cache' = <<>>
    /\ pc' = "idle" /\ read_count' = 0 /\ write_count' = 0 /\ calls' = 0
    /\ UNCHANGED <<root_id, node_count, batch, locals, answer>>

ODS_finalize ==
    /\ pc = "batch"
    /\ \E tag \in [DOMAIN cache -> Tag] : oram' = Over(update_pos(tag), oram)
    /\ cache' = <<>>
    /\ pc' = "idle" /\ read_count' = 0 /\ write_count' = 0 /\ calls' = 0
    /\ UNCHANGED <<root_id, node_count, batch, locals, answer>>

Step == Descend \/ Attach \/ Ascend \/ InsertReturns \/ find_priv \/ FindNothing

Next ==
    \/ ODS_start \/ ODS_finalize
    \/ \E k \in Key : insert(k) \/ find(k)
    \/ Step

Spec == Init /\ [][Next]_vars

\* A call of insert or find runs to its end.  Ascend always changes frames;
\* its condition stands for ENABLED Ascend, which TLC is slow to evaluate.
Running == pc \in {"descend", "ascend", "find"}
Fairness ==
    /\ WF_vars(Descend) /\ WF_vars(Attach) /\ WF_vars(InsertReturns)
    /\ WF_vars(find_priv) /\ WF_vars(FindNothing)
    /\ []<>~(pc = "ascend" /\ frames # <<>>) \/ []<><<Ascend>>_vars
FairSpec == Spec /\ Fairness
-----------------------------------------------------------------------------
Nodes == Over(cache, oram)      \* as the batch sees them

\* The types, and no id is used whose node neither the cache nor the ORAM has.
TypeOK ==
    /\ \A c \in {oram, cache} : \A i \in DOMAIN c :
          /\ c[i] \in Node /\ c[i].id = i
          /\ \A s \in {1, 2} : c[i].child[s] \in {0} \cup DOMAIN Nodes
    /\ {root_id, at, answer} \subseteq {0} \cup DOMAIN Nodes
    /\ node_count \in 1 .. MaxNodes + 1
    /\ read_count \in Nat /\ write_count \in Nat
    /\ pc \in {"idle", "batch", "descend", "ascend", "find"}
    /\ \A i \in DOMAIN frames : frames[i] \in Node

Quiet == ~Running

\* The ids of every subtree of n from left to right, and its depth, as far as d
\* nodes down.
InOrder(n) ==
    LET t[d \in 0 .. MaxNodes] ==
           [id \in {0} \cup DOMAIN n |->
              IF id = 0 \/ d = 0 THEN <<>>
              ELSE t[d - 1][n[id].child[1]] \o <<id>> \o t[d - 1][n[id].child[2]]]
    IN  t

Depths(n) ==
    LET t[d \in 0 .. MaxNodes] ==
           [id \in {0} \cup DOMAIN n |->
              IF id = 0 \/ d = 0 THEN 0
              ELSE LET l == t[d - 1][n[id].child[1]]
                       r == t[d - 1][n[id].child[2]]
                   IN  1 + (IF l > r THEN l ELSE r)]
    IN  t

\* A cycle would be followed only so far.
Tree     == InOrder(Nodes)[MaxNodes][root_id]
Depth(n) == Depths(n)[MaxNodes]

\* Between insertions the nodes form a search tree, whatever rotations were
\* done on copies of nodes read before them: every node is reached from the
\* root, in the order of the keys, so that no link lost a subtree.
SearchTree ==
    Quiet => LET t == Tree n == Nodes IN
                /\ {t[i] : i \in DOMAIN t} = DOMAIN n
                /\ \A i \in 1 .. Len(t) - 1 : n[t[i]].key < n[t[i + 1]].key

\* The heights in the nodes are the heights of their subtrees, and those of
\* two siblings differ by one at most: the tree stays an AVL tree over any
\* sequence of batches.
AVLBalanced ==
    Quiet => LET n == Nodes depth == Depth(n) IN
                \A i \in DOMAIN n :
                   /\ \A s \in {1, 2} : n[i].height[s] = depth[n[i].child[s]]
                   /\ n[i].height[1] - n[i].height[2] \in -1 .. 1

\* The dictionary is what the tree holds; while an insertion is rearranging
\* the tree, what it held before.
DictBar ==
    LET n   == Nodes
        t   == Tree
        ids == IF Quiet THEN {t[i] : i \in DOMAIN t} ELSE DOMAIN n \ {node.id}
    IN  [k \in {n[i].key : i \in ids} |-> CHOOSE i \in ids : n[i].key = k]

RequestBar == CASE pc = "find"                  -> <<"find", node.key, 0>>
                [] pc \in {"descend", "ascend"} -> <<"insert", node.key, node.id>>
                [] OTHER                        -> <<"none", 0, 0>>

Map == INSTANCE Dictionary WITH dict <- DictBar, request <- RequestBar

\* The batches implement a map: a key stays with the node it was first
\* inserted with, no key is lost by a rotation or a flush, and find returns
\* the node of the key, or nothing when the key was never inserted.
ImplementsDictionary == Map!Spec

\* A call that has started returns: no rotation leaves a cycle for it to
\* follow.
CallReturns == Running ~> Quiet
=============================================================================
