---------------------------- MODULE ODictProofs ----------------------------
(***************************************************************************)
(* For any ids, keys and number of nodes: the nodes of the oblivious       *)
(* dictionary, taken from the cache or else from the ORAM, are an AVL      *)
(* search tree between insertions, and insert, find and the flush          *)
(* implement the map of Dictionary.                                        *)
(*                                                                         *)
(* DInv, the inductive invariant, says what holds inside an insertion:     *)
(* the tree without the new node is an AVL tree while insert_priv goes     *)
(* down, and while it returns one slot of the path is Loose: the subtree   *)
(* that is handed up has not been linked, and may have grown by one.       *)
(***************************************************************************)
EXTENDS ODict, SealUtilsProofs

\* Key a is on side s of key b.
On(s, a, b) == IF s = 1 THEN a < b ELSE b < a

Height(n, i) == IF i = 0 THEN 0 ELSE get_height(n[i])

Heap(n) ==
    \A i \in DOMAIN n :
       /\ n[i] \in Node /\ n[i].id = i
       /\ \A s \in {1, 2} : n[i].child[s] \in {0} \cup DOMAIN n

\* The nodes of n form a search tree with the root r: D gives the descendants of
\* every node, and no node has two parents.
Shape(n, r, D) ==
    /\ r \in {0} \cup DOMAIN n
    /\ D \in [{0} \cup DOMAIN n -> SUBSET DOMAIN n] /\ D[0] = {} /\ D[r] = DOMAIN n
    /\ \A i \in DOMAIN n :
          /\ D[i] = {i} \cup D[n[i].child[1]] \cup D[n[i].child[2]]
          /\ \A s \in {1, 2} : \A j \in D[n[i].child[s]] : On(s, n[j].key, n[i].key)
    /\ \A i \in DOMAIN n, s \in {1, 2} :
          n[i].child[s] # 0 =>
             /\ n[i].child[s] # r
             /\ \A j \in DOMAIN n, t \in {1, 2} :
                   n[j].child[t] = n[i].child[s] => j = i /\ t = s

Level(n, i) ==
    /\ \A s \in {1, 2} : n[i].height[s] = Height(n, n[i].child[s])
    /\ n[i].height[1] - n[i].height[2] \in -1 .. 1

\* n once the child of p on side t is c; the height that p keeps for it stays.
Hook(n, p, t, c) ==
    IF p = 0 THEN n
    ELSE [n EXCEPT ![p] = WithChild(n[p], t, c, n[p].height[t], n[p].childrenPos[t])]

\* The slot t of p, or the root when p is 0, is to be linked to c, after which
\* n is an AVL tree but for the height that p keeps for c, which may be one less.
Loose(n, r, p, t, c) ==
    LET v == Hook(n, p, t, c) IN
    /\ c \in DOMAIN n /\ p \in {0} \cup DOMAIN n
    /\ \E D : Shape(v, IF p = 0 THEN c ELSE r, D)
    /\ \A i \in DOMAIN n \ {p} : Level(v, i)
    /\ p # 0 =>
          /\ \A s \in {1, 2} \ {t} : v[p].height[s] = Height(v, v[p].child[s])
          /\ v[p].height[1] - v[p].height[2] \in -1 .. 1
          /\ Height(v, c) - v[p].height[t] \in 0 .. 1

\* The fields of a node have their types, and its height is above those of its children.
LEMMA NodeFields ==
  ASSUME NEW x \in Node
  PROVE  /\ x.id \in Id /\ x.id \in Nat \ {0} /\ x.key \in Key /\ x.key \in Nat
         /\ x.pos_tag \in Tag
         /\ \A s \in {1, 2} : /\ x.child[s] \in {0} \cup Id /\ x.height[s] \in Nat
                              /\ x.childrenPos[s] \in Tag
         /\ get_height(x) \in Nat /\ get_height(x) > 0
         /\ get_height(x) > x.height[1] /\ get_height(x) > x.height[2]
         /\ get_height(x) = 1 + x.height[1] \/ get_height(x) = 1 + x.height[2]
<1>1. /\ x.id \in Id /\ x.key \in Key /\ x.pos_tag \in Tag
      /\ x.child \in [{1, 2} -> {0} \cup Id] /\ x.height \in [{1, 2} -> Nat]
      /\ x.childrenPos \in [{1, 2} -> Tag]
  BY DEF Node
<1>2. x.id \in Nat \ {0} /\ x.key \in Nat
  <2>1. MaxNodes \in Nat
    BY BoundAssumption
  <2>2. QED
    <3>1. \A i \in Id : i \in Nat \ {0}
      BY <2>1 DEF Id
    <3>2. QED
      BY <1>1, <3>1, KeyAssumption
<1>3. \A s \in {1, 2} : /\ x.child[s] \in {0} \cup Id /\ x.height[s] \in Nat
                        /\ x.childrenPos[s] \in Tag
  BY <1>1
<1>4. x.height[1] \in Nat /\ x.height[2] \in Nat
  BY <1>1
<1>5. /\ get_height(x) \in Nat /\ get_height(x) > 0
      /\ get_height(x) > x.height[1] /\ get_height(x) > x.height[2]
      /\ get_height(x) = 1 + x.height[1] \/ get_height(x) = 1 + x.height[2]
  BY <1>4 DEF get_height
<1>6. QED
  BY <1>1, <1>2, <1>3, <1>5

\* y is the node x with the child c on side s, of height h.
Adopts(x, y, s, c, h) ==
    /\ y \in Node /\ y.id = x.id /\ y.key = x.key /\ y.pos_tag = x.pos_tag
    /\ y.child[s] = c /\ y.height[s] = h
    /\ \A o \in {1, 2} : o # s => y.child[o] = x.child[o] /\ y.height[o] = x.height[o]

\* Linking a child changes one side of a node.
LEMMA WithChildFields ==
  ASSUME NEW x \in Node, NEW s \in {1, 2}, NEW c \in {0} \cup Id, NEW h \in Nat, NEW tag \in Tag
  PROVE  Adopts(x, WithChild(x, s, c, h, tag), s, c, h)
<1> DEFINE C == [x.child EXCEPT ![s] = c]
           H == [x.height EXCEPT ![s] = h]
           T == [x.childrenPos EXCEPT ![s] = tag]
           y == WithChild(x, s, c, h, tag)
<1>1. /\ x.id \in Id /\ x.key \in Key /\ x.pos_tag \in Tag
      /\ x.child \in [{1, 2} -> {0} \cup Id] /\ x.height \in [{1, 2} -> Nat]
      /\ x.childrenPos \in [{1, 2} -> Tag]
  BY DEF Node
<1>2. /\ C \in [{1, 2} -> {0} \cup Id] /\ C[s] = c
      /\ \A o \in {1, 2} : o # s => C[o] = x.child[o]
  BY <1>1
<1>3. /\ H \in [{1, 2} -> Nat] /\ H[s] = h
      /\ \A o \in {1, 2} : o # s => H[o] = x.height[o]
  BY <1>1
<1>4. T \in [{1, 2} -> Tag]
  BY <1>1
<1>5. y = [x EXCEPT !.child = C, !.height = H, !.childrenPos = T]
  BY DEF WithChild, Node
<1> HIDE DEF C, H, T, y
<1>6. /\ y \in Node /\ y.id = x.id /\ y.key = x.key /\ y.pos_tag = x.pos_tag
      /\ y.child = C /\ y.height = H
  BY <1>2, <1>3, <1>4, <1>5 DEF Node
<1>7. QED
  BY <1>2, <1>3, <1>6 DEF y, Adopts

\* What a rotation does to a heap: up is the child on side s, which goes up.
LEMMA RotateEffect ==
  ASSUME NEW n, Heap(n), NEW id \in DOMAIN n, NEW s \in {1, 2}, NEW o \in {1, 2}, o = 3 - s,
         NEW up, up = n[id].child[s], up # 0, up # id,
         NEW m, m = Rotate(n, id, s)
  PROVE  /\ DOMAIN m = DOMAIN n /\ up \in DOMAIN n
         /\ \A i \in DOMAIN n \ {id, up} : m[i] = n[i]
         /\ \A i \in DOMAIN n : m[i] \in Node /\ m[i].id = i /\ m[i].key = n[i].key
         /\ m[id].child[s] = n[up].child[o] /\ m[id].child[o] = n[id].child[o]
         /\ m[id].height[s] = n[up].height[o] /\ m[id].height[o] = n[id].height[o]
         /\ m[up].child[s] = n[up].child[s] /\ m[up].child[o] = id
         /\ m[up].height[s] = n[up].height[s] /\ m[up].height[o] = get_height(m[id])
<1> DEFINE down == WithChild(n[id], s, n[up].child[o], n[up].height[o], n[up].childrenPos[o])
           top  == WithChild(n[up], o, id, get_height(down), down.pos_tag)
<1>7. s # o
  OBVIOUS
<1>1. up \in DOMAIN n /\ n[up].id = up /\ n[up] \in Node /\ n[id] \in Node /\ n[id].id = id
  BY DEF Heap
<1>2. Fetch(n, up) = n
  BY <1>1 DEF Fetch
<1>3. m = [n EXCEPT ![id] = down, ![up] = top]
  BY <1>1, <1>2 DEF Rotate
<1>4. /\ n[up].child[o] \in {0} \cup Id /\ n[up].height[o] \in Nat /\ n[up].childrenPos[o] \in Tag
      /\ id \in {0} \cup Id
  BY <1>1, NodeFields
<1>5. /\ down \in Node /\ down.id = id /\ down.key = n[id].key /\ down.pos_tag = n[id].pos_tag
      /\ down.child[s] = n[up].child[o] /\ down.child[o] = n[id].child[o]
      /\ down.height[s] = n[up].height[o] /\ down.height[o] = n[id].height[o]
  <2> DEFINE x == n[id]
           c == n[up].child[o]
           h == n[up].height[o]
           tag == n[up].childrenPos[o]
  <2>1. x \in Node /\ c \in {0} \cup Id /\ h \in Nat /\ tag \in Tag
    BY <1>1, <1>4
  <2> HIDE DEF x, c, h, tag
  <2>2. Adopts(x, WithChild(x, s, c, h, tag), s, c, h)
    BY <2>1, WithChildFields
  <2>3. QED
    BY <2>1, <2>2, <1>1, <1>7 DEF x, c, h, tag, Adopts
<1> HIDE DEF down
<1>6. get_height(down) \in Nat /\ down.pos_tag \in Tag
  BY <1>5, NodeFields
<1>8. /\ top \in Node /\ top.id = up /\ top.key = n[up].key
      /\ top.child[o] = id /\ top.child[s] = n[up].child[s]
      /\ top.height[o] = get_height(down) /\ top.height[s] = n[up].height[s]
  <2> DEFINE x == n[up]
           c == id
           h == get_height(down)
           tag == down.pos_tag
  <2>1. x \in Node /\ c \in {0} \cup Id /\ h \in Nat /\ tag \in Tag
    BY <1>1, <1>4, <1>6
  <2> HIDE DEF x, c, h, tag
  <2>2. Adopts(x, WithChild(x, o, c, h, tag), o, c, h)
    BY <2>1, WithChildFields
  <2>3. QED
    BY <2>1, <2>2, <1>1, <1>7 DEF x, c, h, tag, Adopts
<1> HIDE DEF top
<1>9. DOMAIN m = DOMAIN n /\ m[id] = down /\ m[up] = top
      /\ \A i \in DOMAIN n \ {id, up} : m[i] = n[i]
  BY <1>1, <1>3
<1>10. ASSUME NEW i \in DOMAIN n PROVE m[i] \in Node /\ m[i].id = i /\ m[i].key = n[i].key
  BY <1>5, <1>8, <1>9 DEF Heap
<1>11. QED
  BY <1>1, <1>5, <1>8, <1>9, <1>10

LEMMA TwoSides ==
  ASSUME NEW s \in {1, 2}, NEW o \in {1, 2}, o # s
  PROVE  /\ (s = 1 /\ o = 2) \/ (s = 2 /\ o = 1)
         /\ o = 3 - s
<1>1. (s = 1 /\ o = 2) \/ (s = 2 /\ o = 1)
  OBVIOUS
<1>2. o = 3 - s
  BY <1>1
<1>3. QED
  BY <1>1, <1>2

LEMMA GetHeight ==
  ASSUME NEW x, NEW s \in {1, 2}, NEW o \in {1, 2}, o # s,
         NEW a \in Nat, NEW b \in Nat, x.height[s] = a, x.height[o] = b
  PROVE  /\ get_height(x) = 1 + (IF a > b THEN a ELSE b)
         /\ x.height[1] - x.height[2] \in -1 .. 1 <=> a - b \in -1 .. 1
<1>1. CASE s = 1 /\ o = 2
  BY <1>1 DEF get_height
<1>2. CASE s = 2 /\ o = 1
  BY <1>2 DEF get_height
<1>3. QED
  BY <1>1, <1>2, TwoSides

LEMMA OnOrder ==
  ASSUME NEW s \in {1, 2}, NEW o \in {1, 2}, o # s, NEW a \in Nat, NEW b \in Nat, NEW c \in Nat
  PROVE  /\ ~On(s, a, a)
         /\ On(s, a, b) <=> On(o, b, a)
         /\ On(s, a, b) /\ On(s, b, c) => On(s, a, c)
BY DEF On

\* No node is below itself.
LEMMA NoCycle ==
  ASSUME NEW n, Heap(n), NEW r, NEW D, Shape(n, r, D), NEW i \in DOMAIN n, NEW s \in {1, 2}
  PROVE  /\ i \in D[i] /\ i \notin D[n[i].child[s]] /\ n[i].child[s] # i
         /\ D[n[i].child[s]] \subseteq D[i]
<1>1. n[i] \in Node /\ n[i].key \in Nat
  BY NodeFields DEF Heap
<1>2. i \in D[i] /\ D[n[i].child[s]] \subseteq D[i]
  BY DEF Shape
<1>3. i \notin D[n[i].child[s]]
  BY <1>1, OnOrder DEF Shape, On
<1>4. QED
  BY <1>2, <1>3

\* A node has one parent, and the root none.
LEMMA OneParent ==
  ASSUME NEW n, NEW r, NEW D, Shape(n, r, D), NEW i \in DOMAIN n, NEW s \in {1, 2},
         n[i].child[s] # 0
  PROVE  /\ n[i].child[s] # r
         /\ \A j \in DOMAIN n, t \in {1, 2} : n[j].child[t] = n[i].child[s] => j = i /\ t = s
BY DEF Shape

\* p is the child of pp on side tt, or the root when pp is 0.
Slot(w, r, p, pp, tt) ==
    /\ p \in DOMAIN w /\ pp \in {0} \cup DOMAIN w /\ tt \in {1, 2}
    /\ pp = 0 => r = p
    /\ pp # 0 => w[pp].child[tt] = p

\* v is n after the child up of id on side s went up, under the slot t of p.
Risen(n, v, id, up, s, o, p, t) ==
    /\ Heap(v) /\ DOMAIN v = DOMAIN n /\ \A i \in DOMAIN n : v[i].key = n[i].key
    /\ v[id].child[s] = n[up].child[o] /\ v[id].child[o] = n[id].child[o]
    /\ v[up].child[s] = n[up].child[s] /\ v[up].child[o] = id
    /\ \A i \in DOMAIN n \ {id, up}, x \in {1, 2} :
          v[i].child[x] = IF i = p /\ x = t THEN up ELSE n[i].child[x]

\* A rotation under the slot t of p, or at the root, leaves a search tree of the
\* same nodes.
LEMMA RotateShape ==
  ASSUME NEW n, Heap(n), NEW r, NEW D, Shape(n, r, D),
         NEW id, NEW p, NEW t, Slot(n, r, id, p, t),
         NEW s \in {1, 2}, NEW o \in {1, 2}, o # s,
         NEW up \in DOMAIN n, up = n[id].child[s], up # 0,
         NEW v, Risen(n, v, id, up, s, o, p, t)
  PROVE  \E E : Shape(v, IF p = 0 THEN up ELSE r, E)
<1> DEFINE mid == n[up].child[o]
           in  == n[up].child[s]
           out == n[id].child[o]
           E == [i \in {0} \cup DOMAIN n |->
                   IF i = id THEN {id} \cup D[mid] \cup D[out] ELSE IF i = up THEN D[id] ELSE D[i]]
           q == IF p = 0 THEN up ELSE r
<1>0. /\ id \in DOMAIN n /\ p \in {0} \cup DOMAIN n /\ t \in {1, 2}
      /\ p = 0 => r = id
      /\ p # 0 => n[p].child[t] = id
      /\ Heap(v) /\ DOMAIN v = DOMAIN n /\ \A i \in DOMAIN n : v[i].key = n[i].key
      /\ v[id].child[s] = n[up].child[o] /\ v[id].child[o] = n[id].child[o]
      /\ v[up].child[s] = n[up].child[s] /\ v[up].child[o] = id
      /\ \A i \in DOMAIN n \ {id, up}, x \in {1, 2} :
            v[i].child[x] = IF i = p /\ x = t THEN up ELSE n[i].child[x]
  BY DEF Risen, Slot
<1> USE <1>0
<1>1. \A i \in DOMAIN n : n[i] \in Node /\ n[i].key \in Nat /\ i # 0
  <2>1. \A i \in DOMAIN n : n[i] \in Node /\ n[i].id = i
    BY SMTT(30) DEF Heap
  <2>2. QED
    BY <2>1, NodeFields
<1>2. /\ {mid, in, out} \subseteq {0} \cup DOMAIN n
      /\ D[mid] \cup D[in] \cup D[out] \subseteq DOMAIN n
  <2>1. {mid, in, out} \subseteq {0} \cup DOMAIN n
    BY SMTT(30) DEF Heap
  <2>2. QED
    BY <2>1 DEF Shape
<1>3. /\ D[id] = {id} \cup D[up] \cup D[out]
      /\ D[up] = {up} \cup D[in] \cup D[mid]
  BY DEF Shape
<1>4. /\ id \notin D[up] /\ id \notin D[out] /\ up \notin D[in] /\ up \notin D[mid]
      /\ up # id /\ mid # id /\ in # id /\ mid # up /\ in # up /\ out # id /\ out # up
  <2>1. id \notin D[up] /\ id \notin D[out] /\ up # id /\ out # id /\ up \notin D[in] /\ up \notin D[mid]
        /\ in # up /\ mid # up /\ id \in D[id]
    BY NoCycle
  <2>2. out # up
    BY SMTT(30), OneParent
  <2>3. mid # id /\ in # id
    BY <1>3, <2>1
  <2>4. QED
    BY <2>1, <2>2, <2>3
<1>5. p # id /\ p # up
  <2>1. SUFFICES ASSUME p \in DOMAIN n, n[p].child[t] = id PROVE p # id /\ p # up
    BY <1>1
  <2>2. p # id
    BY <2>1, NoCycle
  <2>3. D[n[p].child[t]] \subseteq D[p] /\ id \in D[id]
    BY SMTT(30), <2>1, NoCycle
  <2>4. QED
    BY <1>4, <2>1, <2>2, <2>3
<1>6. /\ mid # 0 => \A i \in DOMAIN n, x \in {1, 2} : n[i].child[x] = mid => i = up /\ x = o
      /\ in # 0 => \A i \in DOMAIN n, x \in {1, 2} : n[i].child[x] = in => i = up /\ x = s
      /\ out # 0 => \A i \in DOMAIN n, x \in {1, 2} : n[i].child[x] = out => i = id /\ x = o
      /\ \A i \in DOMAIN n, x \in {1, 2} : n[i].child[x] = up => i = id /\ x = s
      /\ \A i \in DOMAIN n, x \in {1, 2} : n[i].child[x] = id => i = p /\ x = t
      /\ mid # r /\ in # r /\ out # r /\ up # r /\ (p # 0 => id # r)
  <2>1. r # 0
    BY DEF Shape
  <2>2. mid # 0 => /\ mid # r
                   /\ \A i \in DOMAIN n, x \in {1, 2} : n[i].child[x] = mid => i = up /\ x = o
    BY OneParent
  <2>3. in # 0 => /\ in # r
                  /\ \A i \in DOMAIN n, x \in {1, 2} : n[i].child[x] = in => i = up /\ x = s
    BY OneParent
  <2>4. out # 0 => /\ out # r
                   /\ \A i \in DOMAIN n, x \in {1, 2} : n[i].child[x] = out => i = id /\ x = o
    BY OneParent
  <2>5. up # r /\ \A i \in DOMAIN n, x \in {1, 2} : n[i].child[x] = up => i = id /\ x = s
    BY SMTT(30), OneParent
  <2>6. CASE p = 0
    <3>1. \A i \in DOMAIN n, x \in {1, 2} : n[i].child[x] # id
      BY SMTT(30), <1>1, <2>6, OneParent
    <3>2. QED
      BY <2>1, <2>2, <2>3, <2>4, <2>5, <2>6, <3>1
  <2>7. CASE p # 0
    <3>1. id # r /\ \A i \in DOMAIN n, x \in {1, 2} : n[i].child[x] = id => i = p /\ x = t
      BY <1>1, <2>7, OneParent
    <3>2. QED
      BY <2>1, <2>2, <2>3, <2>4, <2>5, <2>7, <3>1
  <2>8. QED
    BY <2>6, <2>7
<1>7. /\ v[id].child[s] = mid /\ v[id].child[o] = out
      /\ v[up].child[s] = in /\ v[up].child[o] = id
  BY SMTT(30)
<1>8. /\ D \in [{0} \cup DOMAIN n -> SUBSET DOMAIN n] /\ D[0] = {} /\ D[r] = DOMAIN n
      /\ \A i \in DOMAIN n : D[i] = {i} \cup D[n[i].child[1]] \cup D[n[i].child[2]]
      /\ \A i \in DOMAIN n, x \in {1, 2} : \A j \in D[n[i].child[x]] : On(x, n[j].key, n[i].key)
      /\ \A i \in DOMAIN n, x \in {1, 2} : n[i].child[x] # 0 =>
             /\ n[i].child[x] # r
             /\ \A j \in DOMAIN n, y \in {1, 2} :
                   n[j].child[y] = n[i].child[x] => j = i /\ y = x
      /\ r \in {0} \cup DOMAIN n
  BY SMTT(30) DEF Shape
<1>9. /\ E \in [{0} \cup DOMAIN n -> SUBSET DOMAIN n] /\ E[0] = {} /\ E[q] = DOMAIN n
      /\ E[id] = {id} \cup D[mid] \cup D[out] /\ E[up] = D[id]
      /\ \A i \in {0} \cup DOMAIN n : i # id /\ i # up => E[i] = D[i]
      /\ q \in {0} \cup DOMAIN n
  <2>1. 0 # id /\ 0 # up
    BY <1>1
  <2> HIDE DEF mid, in, out
  <2>2. E \in [{0} \cup DOMAIN n -> SUBSET DOMAIN n]
    BY <1>2, <1>8
  <2>3. /\ E[id] = {id} \cup D[mid] \cup D[out] /\ E[up] = D[id]
        /\ \A i \in {0} \cup DOMAIN n : i # id /\ i # up => E[i] = D[i]
    BY <1>4
  <2> HIDE DEF E
  <2>4. E[0] = {}
    BY SMTT(30), <1>8, <2>1, <2>3
  <2>5. E[q] = DOMAIN n
    BY <1>8, <2>3, <1>6
  <2>6. QED
    BY <2>2, <2>3, <2>4, <2>5, <1>8
<1> HIDE DEF mid, in, out, E
<1>10. E[mid] = D[mid] /\ E[in] = D[in] /\ E[out] = D[out]
  BY <1>2, <1>4, <1>9
<1>11. ASSUME NEW i \in DOMAIN n \ {id, up}, NEW x \in {1, 2}
       PROVE  E[v[i].child[x]] = D[n[i].child[x]]
  <2>1. n[i].child[x] \in {0} \cup DOMAIN n
    BY DEF Heap
  <2>2. CASE i = p /\ x = t
    BY <1>1, <1>9, <2>2
  <2>3. CASE ~(i = p /\ x = t)
    <3>1. v[i].child[x] = n[i].child[x]
      BY <2>3
    <3>2. n[i].child[x] # id /\ n[i].child[x] # up
      BY <1>6, <2>3
    <3>3. E[n[i].child[x]] = D[n[i].child[x]]
      BY <1>9, <2>1, <3>2
    <3>4. QED
      BY <3>1, <3>3
  <2>4. QED
    BY <2>2, <2>3
<1>12. \A i \in DOMAIN n : E[i] = {i} \cup E[v[i].child[1]] \cup E[v[i].child[2]]
  <2>1. E[id] = {id} \cup E[v[id].child[s]] \cup E[v[id].child[o]]
    BY <1>7, <1>9, <1>10
  <2>2. E[up] = {up} \cup E[v[up].child[s]] \cup E[v[up].child[o]]
    BY <1>3, <1>7, <1>9, <1>10
  <2>3. ASSUME NEW i \in DOMAIN n \ {id, up}
        PROVE  E[i] = {i} \cup E[v[i].child[1]] \cup E[v[i].child[2]]
    <3>1. E[v[i].child[1]] = D[n[i].child[1]] /\ E[v[i].child[2]] = D[n[i].child[2]]
      BY SMTT(30), <1>11
    <3>2. E[i] = D[i] /\ D[i] = {i} \cup D[n[i].child[1]] \cup D[n[i].child[2]]
      BY <1>8, <1>9
    <3>3. QED
      BY <3>1, <3>2
  <2>4. (s = 1 /\ o = 2) \/ (s = 2 /\ o = 1)
    BY TwoSides
  <2>5. QED
    BY <2>1, <2>2, <2>3, <2>4
<1>13. ASSUME NEW i \in DOMAIN n, NEW x \in {1, 2}, NEW j \in E[v[i].child[x]]
       PROVE  On(x, n[j].key, n[i].key)
  <2>1. CASE i = id /\ x = s
    BY <1>3, <1>7, <1>8, <1>10, <2>1
  <2>2. CASE i = id /\ x = o
    BY SMTT(30), <1>7, <1>8, <1>10, <2>2 DEF out
  <2>3. CASE i = up /\ x = s
    BY <1>7, <1>8, <1>10, <2>3 DEF in
  <2>4. CASE i = up /\ x = o
    <3>1. On(o, n[id].key, n[up].key)
      <4>1. up \in D[up]
        BY <1>3
      <4>2. On(s, n[up].key, n[id].key)
        BY <1>8, <4>1
      <4>3. QED
        BY <1>1, <4>2, OnOrder
    <3>2. j \in {id} \cup D[mid] \cup D[out]
      BY <1>7, <1>9, <2>4
    <3>3. CASE j \in D[mid]
      BY <1>8, <2>4, <3>3 DEF mid
    <3>4. CASE j \in D[out]
      <4>1. On(o, n[j].key, n[id].key)
        BY <1>8, <3>4 DEF out
      <4>2. j \in DOMAIN n
        BY SMTT(30), <1>2, <3>4
      <4>3. QED
        BY <1>1, <2>4, <3>1, <4>1, <4>2, OnOrder
    <3>5. QED
      BY <2>4, <3>1, <3>2, <3>3, <3>4
  <2>5. CASE i \notin {id, up}
    BY <1>8, <1>11, <2>5
  <2>6. QED
    BY <2>1, <2>2, <2>3, <2>4, <2>5
<1>14. ASSUME NEW i \in DOMAIN n, NEW x \in {1, 2}, v[i].child[x] # 0
       PROVE  /\ v[i].child[x] # q
              /\ \A j \in DOMAIN n, y \in {1, 2} :
                    v[j].child[y] = v[i].child[x] => j = i /\ y = x
  <2>1. \A j \in DOMAIN n \ {id, up}, y \in {1, 2} :
           \/ j = p /\ y = t /\ v[j].child[y] = up
           \/ /\ v[j].child[y] = n[j].child[y]
              /\ n[j].child[y] \notin ({id, up} \cup ({mid, in, out} \ {0}))
    BY SMTT(30), <1>6
  <2>2. mid # 0 => mid # in /\ mid # out
    <3>1. SUFFICES ASSUME mid # 0 PROVE mid # in /\ mid # out
      OBVIOUS
    <3>2. \A j \in DOMAIN n, y \in {1, 2} : n[j].child[y] = mid => j = up /\ y = o
      BY <1>6, <3>1
    <3>3. mid # in
      <4>1. n[up].child[s] = mid => s = o
        BY <3>2
      <4>2. QED
        BY <4>1 DEF in
    <3>4. mid # out
      <4>1. n[id].child[o] = mid => id = up
        BY <3>2
      <4>2. QED
        BY <1>4, <4>1 DEF out
    <3>5. QED
      BY <3>3, <3>4
  <2>3. in # 0 => in # out
    BY <1>4, <1>6 DEF mid, in, out
  <2>4. v[i].child[x] # q
    <3>1. CASE p = 0
      BY <2>1, <1>1, <1>4, <1>7, <3>1
    <3>2. CASE p # 0
      <4>1. \A j \in DOMAIN n, y \in {1, 2} : n[j].child[y] # r
        BY <1>1, <1>8, <1>9
      <4>2. QED
        BY <2>1, <1>6, <1>7, <3>2, <4>1
    <3>3. QED
      BY <3>1, <3>2
  <2>5. ASSUME NEW j \in DOMAIN n, NEW y \in {1, 2}, v[j].child[y] = v[i].child[x]
        PROVE  j = i /\ y = x
    <3>1. CASE j \in {id, up} /\ i \in {id, up}
      BY <1>4, <1>7, <2>2, <2>3, <2>5, <1>14, <3>1
    <3>2. CASE j \in {id, up} /\ i \notin {id, up}
      BY SMTT(30), <1>4, <1>7, <2>1, <2>5, <1>14, <3>2
    <3>3. CASE j \notin {id, up} /\ i \in {id, up}
      BY SMTT(30), <1>4, <1>7, <2>1, <2>5, <1>14, <3>3
    <3>4. CASE j \notin {id, up} /\ i \notin {id, up}
      BY SMTT(30), <1>8, <2>1, <2>5, <1>14, <3>4
    <3>5. QED
      BY <3>1, <3>2, <3>3, <3>4
  <2>6. QED
    BY <2>4, <2>5
<1>15. Shape(v, q, E)
  <2> HIDE DEF q
  <2>1. \A i \in DOMAIN v, x \in {1, 2} : \A j \in E[v[i].child[x]] : On(x, v[j].key, v[i].key)
    <3>1. ASSUME NEW i \in DOMAIN n, NEW x \in {1, 2}, NEW j \in E[v[i].child[x]]
          PROVE  On(x, v[j].key, v[i].key)
      <4>1. v[i].child[x] \in {0} \cup DOMAIN n
        BY DEF Heap
      <4>2. j \in DOMAIN n
        BY <1>9, <4>1
      <4>3. QED
        BY <1>13, <4>2
    <3>2. QED
      BY <3>1
  <2>2. QED
    BY <1>9, <1>12, <1>14, <2>1 DEF Shape
<1>16. QED
  BY <1>15

\* Shape and Level depend on the keys, the children and the heights only.
LEMMA ShapeAgree ==
  ASSUME NEW n, NEW m, DOMAIN m = DOMAIN n,
         \A i \in DOMAIN n : m[i].key = n[i].key,
         \A i \in DOMAIN n, s \in {1, 2} : m[i].child[s] = n[i].child[s],
         NEW r, NEW D, Shape(n, r, D)
  PROVE  Shape(m, r, D)
<1>1. /\ r \in {0} \cup DOMAIN n
      /\ D \in [{0} \cup DOMAIN n -> SUBSET DOMAIN n] /\ D[0] = {} /\ D[r] = DOMAIN n
      /\ \A i \in DOMAIN n : D[i] = {i} \cup D[n[i].child[1]] \cup D[n[i].child[2]]
  BY DEF Shape
<1>2. ASSUME NEW i \in DOMAIN n, NEW s \in {1, 2}, NEW j \in D[m[i].child[s]]
      PROVE  On(s, m[j].key, m[i].key)
  <2>1. j \in D[n[i].child[s]]
    OBVIOUS
  <2>2. j \in D[i]
    BY <1>1, <2>1
  <2>3. j \in DOMAIN n /\ On(s, n[j].key, n[i].key)
    BY <1>1, <2>1, <2>2 DEF Shape
  <2>4. QED
    BY <2>3
<1>4. \A i \in DOMAIN n, s \in {1, 2} :
          m[i].child[s] # 0 =>
             /\ m[i].child[s] # r
             /\ \A j \in DOMAIN n, t \in {1, 2} :
                   m[j].child[t] = m[i].child[s] => j = i /\ t = s
  BY DEF Shape
<1>5. \A i \in DOMAIN m : D[i] = {i} \cup D[m[i].child[1]] \cup D[m[i].child[2]]
  BY <1>1
<1>6. \A i \in DOMAIN m, s \in {1, 2} : \A j \in D[m[i].child[s]] : On(s, m[j].key, m[i].key)
  BY <1>2
<1>7. QED
  BY <1>1, <1>4, <1>5, <1>6 DEF Shape

LEMMA HeightNat ==
  ASSUME NEW n, Heap(n), NEW i \in {0} \cup DOMAIN n
  PROVE  Height(n, i) \in Nat /\ (Height(n, i) = 0 <=> i = 0)
<1>1. CASE i = 0
  BY <1>1 DEF Height
<1>2. CASE i # 0
  <2>1. n[i] \in Node
    BY <1>2 DEF Heap
  <2>2. get_height(n[i]) \in Nat /\ get_height(n[i]) > 0
    BY <2>1, NodeFields
  <2>3. QED
    BY <1>2, <2>2 DEF Height
<1>3. QED
  BY <1>1, <1>2

\* v is n with c as the child of p on side t.
Hooked(n, v, p, t, c) ==
    /\ DOMAIN v = DOMAIN n /\ Heap(v)
    /\ \A i \in DOMAIN n \ {p} : v[i] = n[i]
    /\ \A i \in DOMAIN n : v[i].key = n[i].key
    /\ v[p].child[t] = c
    /\ \A x \in {1, 2} : x # t => v[p].child[x] = n[p].child[x]
    /\ \A x \in {1, 2} : v[p].height[x] = n[p].height[x]
    /\ get_height(v[p]) = get_height(n[p])

\* v is n with c as the child of p on side t, and h as its height.
Relinked(n, v, p, t, c, h) ==
    /\ DOMAIN v = DOMAIN n /\ Heap(v)
    /\ \A i \in DOMAIN n \ {p} : v[i] = n[i]
    /\ \A i \in DOMAIN n : v[i].key = n[i].key
    /\ v[p].child[t] = c /\ v[p].height[t] = h
    /\ \A x \in {1, 2} : x # t => v[p].child[x] = n[p].child[x] /\ v[p].height[x] = n[p].height[x]

Swapped(n, v, p, y) ==
    DOMAIN v = DOMAIN n /\ v[p] = y /\ \A i \in DOMAIN n \ {p} : v[i] = n[i]

LEMMA Relink ==
  ASSUME NEW n, Heap(n), NEW p \in DOMAIN n, NEW t \in {1, 2}, NEW c \in {0} \cup DOMAIN n,
         NEW h \in Nat, NEW tag \in Tag,
         NEW v, Swapped(n, v, p, WithChild(n[p], t, c, h, tag))
  PROVE  Relinked(n, v, p, t, c, h)
<1>1. /\ DOMAIN v = DOMAIN n /\ v[p] = WithChild(n[p], t, c, h, tag)
      /\ \A i \in DOMAIN n \ {p} : v[i] = n[i]
  BY DEF Swapped
<1>2. n[p] \in Node /\ n[p].id = p
  BY DEF Heap
<1>3. c \in {0} \cup Id
  <2>1. \A i \in DOMAIN n : n[i] \in Node /\ n[i].id = i
    BY DEF Heap
  <2>2. QED
    BY <2>1, NodeFields
<1>4. Adopts(n[p], v[p], t, c, h)
  BY <1>1, <1>2, <1>3, WithChildFields
<1>5. /\ v[p] \in Node /\ v[p].id = p /\ v[p].key = n[p].key
      /\ v[p].child[t] = c /\ v[p].height[t] = h
      /\ \A x \in {1, 2} : x # t => v[p].child[x] = n[p].child[x] /\ v[p].height[x] = n[p].height[x]
  BY <1>2, <1>4 DEF Adopts
<1>6. Heap(v)
  <2>1. ASSUME NEW i \in DOMAIN v, i # p
        PROVE  /\ v[i] \in Node /\ v[i].id = i
               /\ \A s \in {1, 2} : v[i].child[s] \in {0} \cup DOMAIN v
    BY <1>1, <2>1 DEF Heap
  <2>2. ASSUME NEW s \in {1, 2} PROVE v[p].child[s] \in {0} \cup DOMAIN v
    <3>1. n[p].child[s] \in {0} \cup DOMAIN n
      BY DEF Heap
    <3>2. CASE s = t
      BY <1>1, <1>5, <3>2
    <3>3. CASE s # t
      BY <1>1, <1>5, <3>1, <3>3
    <3>4. QED
      BY <3>2, <3>3
  <2>3. QED
    BY <1>5, <2>1, <2>2 DEF Heap
<1>7. QED
  BY <1>1, <1>5, <1>6 DEF Relinked

LEMMA HookFields ==
  ASSUME NEW n, Heap(n), NEW p \in DOMAIN n, NEW t \in {1, 2}, NEW c \in {0} \cup DOMAIN n
  PROVE  Hooked(n, Hook(n, p, t, c), p, t, c)
<1> DEFINE v == Hook(n, p, t, c)
           h == n[p].height[t]
           tag == n[p].childrenPos[t]
<1>1. n[p] \in Node /\ n[p].id = p
  BY DEF Heap
<1>2. p # 0 /\ h \in Nat /\ tag \in Tag
  BY <1>1, NodeFields
<1>3. v = [n EXCEPT ![p] = WithChild(n[p], t, c, h, tag)]
  BY <1>2 DEF Hook
<1> HIDE DEF v, tag
<1>4. Relinked(n, v, p, t, c, h)
  <2> HIDE DEF h
  <2>1. Swapped(n, v, p, WithChild(n[p], t, c, h, tag))
    BY <1>3 DEF Swapped
  <2>2. QED
    BY <1>2, <2>1, Relink
<1>5. \A x \in {1, 2} : v[p].height[x] = n[p].height[x]
  BY <1>4 DEF Relinked
<1>6. get_height(v[p]) = get_height(n[p])
  BY <1>5 DEF get_height
<1>7. Hooked(n, v, p, t, c)
  BY <1>4, <1>5, <1>6 DEF Hooked, Relinked
<1>8. QED
  BY <1>7 DEF v

\* m is w after the child kid of p on side s went up, and v is m after the slot
\* of p was linked to kid.
Turned(w, m, v, p, kid, s, o, pp, tt) ==
    /\ DOMAIN m = DOMAIN w /\ Heap(m) /\ DOMAIN v = DOMAIN w /\ Heap(v)
    /\ \A i \in DOMAIN w : m[i].key = w[i].key /\ v[i].key = w[i].key
    /\ \A i \in DOMAIN w \ {p, kid} : m[i] = w[i]
    /\ pp # p /\ pp # kid /\ kid # p
    /\ \A i \in DOMAIN w \ {p, kid}, x \in {1, 2} :
          /\ v[i].height[x] = w[i].height[x]
          /\ v[i].child[x] = IF i = pp /\ x = tt THEN kid ELSE w[i].child[x]
          /\ w[i].child[x] # kid
          /\ w[i].child[x] = p => i = pp /\ x = tt
    /\ v[p] = m[p] /\ v[kid] = m[kid]
    /\ m[p].child[s] = w[kid].child[o] /\ m[p].child[o] = w[p].child[o]
    /\ m[p].height[s] = w[kid].height[o] /\ m[p].height[o] = w[p].height[o]
    /\ m[kid].child[s] = w[kid].child[s] /\ m[kid].child[o] = p
    /\ m[kid].height[s] = w[kid].height[s] /\ m[kid].height[o] = get_height(m[p])
    /\ w[kid].child[s] \notin {p, kid} /\ w[kid].child[o] \notin {p, kid}
    /\ w[p].child[o] \notin {p, kid}

\* A rotation under a hooked slot keeps the search tree.
LEMMA RotateUnder ==
  ASSUME NEW w, Heap(w), NEW r, NEW D, Shape(w, r, D),
         NEW p, NEW pp, NEW tt, Slot(w, r, p, pp, tt),
         NEW s \in {1, 2}, NEW o \in {1, 2}, o # s,
         NEW kid \in DOMAIN w, kid = w[p].child[s], kid # 0
  PROVE  LET m == Rotate(w, p, s)
             v == Hook(m, pp, tt, kid)
         IN  /\ Turned(w, m, v, p, kid, s, o, pp, tt)
             /\ \E E : Shape(v, IF pp = 0 THEN kid ELSE r, E)
<1> DEFINE m == Rotate(w, p, s)
           v == Hook(m, pp, tt, kid)
<1>0. /\ p \in DOMAIN w /\ pp \in {0} \cup DOMAIN w /\ tt \in {1, 2}
      /\ pp = 0 => r = p
      /\ pp # 0 => w[pp].child[tt] = p
      /\ m = Rotate(w, p, s) /\ v = Hook(m, pp, tt, kid)
  BY DEF Slot
<1> USE <1>0
<1> HIDE DEF m, v
<1>1. kid # p /\ (pp # 0 => pp # p)
  BY NoCycle
<1>2. o = 3 - s
  BY TwoSides
<1>3. /\ DOMAIN m = DOMAIN w
      /\ \A i \in DOMAIN w \ {p, kid} : m[i] = w[i]
      /\ \A i \in DOMAIN w : m[i] \in Node /\ m[i].id = i /\ m[i].key = w[i].key
      /\ m[p].child[s] = w[kid].child[o] /\ m[p].child[o] = w[p].child[o]
      /\ m[p].height[s] = w[kid].height[o] /\ m[p].height[o] = w[p].height[o]
      /\ m[kid].child[s] = w[kid].child[s] /\ m[kid].child[o] = p
      /\ m[kid].height[s] = w[kid].height[s] /\ m[kid].height[o] = get_height(m[p])
  BY SMTT(30), <1>1, <1>2, RotateEffect
<1>4. \A i \in DOMAIN w, x \in {1, 2} : w[i].child[x] \in {0} \cup DOMAIN w
  BY DEF Heap
<1>5. Heap(m)
  <2>1. ASSUME NEW i \in DOMAIN w, NEW x \in {1, 2} PROVE m[i].child[x] \in {0} \cup DOMAIN m
    <3>1. x = s \/ x = o
      BY TwoSides
    <3>2. CASE i = p
      BY <1>3, <1>4, <3>1, <3>2
    <3>3. CASE i = kid
      BY <1>3, <1>4, <3>1, <3>3
    <3>4. CASE i # p /\ i # kid
      BY <1>3, <1>4, <3>4
    <3>5. QED
      BY <3>2, <3>3, <3>4
  <2>2. QED
    BY <1>3, <2>1 DEF Heap
<1>6. \A i \in DOMAIN w : i # 0
  <2>1. \A i \in DOMAIN w : w[i] \in Node /\ w[i].id = i
    BY DEF Heap
  <2>2. QED
    BY <2>1, NodeFields
<1>7. /\ \A i \in DOMAIN w, x \in {1, 2} : w[i].child[x] = kid => i = p
      /\ \A i \in DOMAIN w, x \in {1, 2} : w[i].child[x] = p => i = pp /\ x = tt
  <2>1. \A i \in DOMAIN w, x \in {1, 2} : w[i].child[x] = kid => i = p
    BY OneParent
  <2>2. CASE pp = 0
    BY <1>6, <2>1, <2>2, OneParent
  <2>3. CASE pp # 0
    <3>1. \A i \in DOMAIN w, x \in {1, 2} : w[i].child[x] = p => i = pp /\ x = tt
      BY <1>6, <2>3, OneParent
    <3>2. QED
      BY <2>1, <3>1
  <2>4. QED
    BY <2>2, <2>3
<1>8. pp # p /\ pp # kid
  <2>1. CASE pp = 0
    BY <1>6, <2>1
  <2>2. CASE pp # 0
    <3>1. D[w[p].child[s]] \subseteq D[p] /\ D[w[pp].child[tt]] \subseteq D[pp]
          /\ p \notin D[w[p].child[s]] /\ p \in D[p]
      BY SMTT(30), <2>2, NoCycle
    <3>2. QED
      BY <1>1, <2>2, <3>1
  <2>3. QED
    BY <2>1, <2>2
<1>9. /\ DOMAIN v = DOMAIN w /\ Heap(v)
      /\ \A i \in DOMAIN w \ {pp} : v[i] = m[i]
      /\ \A i \in DOMAIN w : v[i].key = m[i].key
      /\ pp # 0 => /\ v[pp].child[tt] = kid
                   /\ \A x \in {1, 2} : x # tt => v[pp].child[x] = m[pp].child[x]
                   /\ \A x \in {1, 2} : v[pp].height[x] = m[pp].height[x]
  <2>1. CASE pp = 0
    BY <1>3, <1>5, <2>1 DEF Hook
  <2>2. CASE pp # 0
    <3>1. pp \in DOMAIN m /\ kid \in {0} \cup DOMAIN m
      BY <1>3, <2>2
    <3>2. Hooked(m, v, pp, tt, kid)
      BY <1>5, <3>1, HookFields
    <3>3. QED
      BY <1>3, <2>2, <3>2 DEF Hooked
  <2>3. QED
    BY <2>1, <2>2
<1>10. v[p] = m[p] /\ v[kid] = m[kid]
  BY <1>8, <1>9
<1>11. ASSUME NEW i \in DOMAIN w \ {p, kid}, NEW x \in {1, 2}
       PROVE  /\ v[i].height[x] = w[i].height[x]
              /\ v[i].child[x] = IF i = pp /\ x = tt THEN kid ELSE w[i].child[x]
              /\ w[i].child[x] # kid
              /\ w[i].child[x] = p => i = pp /\ x = tt
  <2>1. w[i].child[x] # kid /\ (w[i].child[x] = p => i = pp /\ x = tt)
    BY <1>7
  <2>2. m[i] = w[i]
    BY <1>3
  <2>3. CASE i = pp
    BY <1>6, <1>9, <2>1, <2>2, <2>3
  <2>4. CASE i # pp
    BY <1>9, <2>1, <2>2, <2>4
  <2>5. QED
    BY <2>3, <2>4
<1>12. \E E : Shape(v, IF pp = 0 THEN kid ELSE r, E)
  <2>1. \A i \in DOMAIN w : v[i].key = w[i].key
    BY <1>3, <1>9
  <2>2. /\ v[p].child[s] = w[kid].child[o] /\ v[p].child[o] = w[p].child[o]
        /\ v[kid].child[s] = w[kid].child[s] /\ v[kid].child[o] = p
    BY <1>3, <1>10
  <2>3. \A i \in DOMAIN w \ {p, kid}, x \in {1, 2} :
           v[i].child[x] = IF i = pp /\ x = tt THEN kid ELSE w[i].child[x]
    BY <1>11
  <2>4. QED
    <3>1. Heap(v) /\ DOMAIN v = DOMAIN w
      BY <1>9
    <3>2. Risen(w, v, p, kid, s, o, pp, tt)
      BY ZenonT(40), <2>1, <2>2, <2>3, <3>1 DEF Risen
    <3>3. QED
      BY SMTT(30), <3>2, RotateShape
<1>13. /\ w[kid].child[s] \notin {p, kid} /\ w[kid].child[o] \notin {p, kid}
       /\ w[p].child[o] \notin {p, kid}
  <2>1. /\ w[kid].child[s] # kid /\ w[kid].child[o] # kid /\ w[p].child[o] # p
    BY NoCycle
  <2>2. w[kid].child[s] # p /\ w[kid].child[o] # p
    BY <1>7, <1>8
  <2>3. w[p].child[o] # kid
    BY OneParent
  <2>4. QED
    BY <2>1, <2>2, <2>3
<1>14. Turned(w, m, v, p, kid, s, o, pp, tt)
  <2>1. \A i \in DOMAIN w : m[i].key = w[i].key /\ v[i].key = w[i].key
    BY <1>3, <1>9
  <2>2. \A i \in DOMAIN w \ {p, kid}, x \in {1, 2} :
               /\ v[i].height[x] = w[i].height[x]
               /\ v[i].child[x] = IF i = pp /\ x = tt THEN kid ELSE w[i].child[x]
               /\ w[i].child[x] # kid
               /\ w[i].child[x] = p => i = pp /\ x = tt
    BY <1>11
  <2>3. QED
    BY <1>1, <1>3, <1>5, <1>8, <1>9, <1>10, <1>13, <2>1, <2>2 DEF Turned
<1>15. QED
  BY <1>12, <1>14 DEF m, v

\* p, under the slot tt of pp or at the root, has the heights of its children
\* but may be out of balance; pp keeps for it the height that it had.
Tilted(w, r, p, pp, tt, old) ==
    /\ Heap(w) /\ \E D : Shape(w, r, D)
    /\ Slot(w, r, p, pp, tt) /\ old \in Nat
    /\ \A i \in DOMAIN w \ {p, pp} : Level(w, i)
    /\ \A s \in {1, 2} : w[p].height[s] = Height(w, w[p].child[s])
    /\ pp # 0 =>
          /\ w[pp].height[tt] = old
          /\ \A s \in {1, 2} \ {tt} : w[pp].height[s] = Height(w, w[pp].child[s])
          /\ w[pp].height[1] - w[pp].height[2] \in -1 .. 1

\* m has the keys of w, and every node that was higher than old is unchanged.
Kept(w, m, p, old) ==
    /\ DOMAIN m = DOMAIN w /\ Heap(m)
    /\ \A i \in DOMAIN w : m[i].key = w[i].key
    /\ \A i \in DOMAIN w \ {p} : get_height(w[i]) > old => m[i] = w[i]

\* The rotation of balance for an outer heavy subtree restores the levels.
LEMMA SingleBalance ==
  ASSUME NEW w, NEW r, NEW p, NEW pp, NEW tt, NEW h \in Nat, Tilted(w, r, p, pp, tt, h + 2),
         NEW s \in {1, 2}, NEW o \in {1, 2}, o # s,
         NEW kid, kid = w[p].child[s], w[p].height[s] = h + 2, w[p].height[o] = h,
         w[kid].height[s] = h + 1, w[kid].height[o] \in h .. h + 1,
         NEW m, m = Rotate(w, p, s)
  PROVE  Kept(w, m, p, h + 2) /\ Loose(m, r, pp, tt, kid)
<1> DEFINE v == Hook(m, pp, tt, kid)
<1>1. /\ Heap(w) /\ p \in DOMAIN w /\ pp \in {0} \cup DOMAIN w /\ tt \in {1, 2}
      /\ pp # 0 => w[pp].child[tt] = p
      /\ \A i \in DOMAIN w \ {p, pp} : Level(w, i)
      /\ \A x \in {1, 2} : w[p].height[x] = Height(w, w[p].child[x])
      /\ pp # 0 =>
          /\ w[pp].height[tt] = h + 2
          /\ \A x \in {1, 2} \ {tt} : w[pp].height[x] = Height(w, w[pp].child[x])
          /\ w[pp].height[1] - w[pp].height[2] \in -1 .. 1
      /\ Slot(w, r, p, pp, tt)
  BY DEF Tilted, Slot
<1>2. PICK D : Shape(w, r, D)
  BY DEF Tilted
<1>3. kid # 0 /\ kid \in DOMAIN w /\ get_height(w[kid]) = h + 2
  <2>1. Height(w, kid) = h + 2 /\ kid \in {0} \cup DOMAIN w
    BY <1>1 DEF Heap
  <2>2. kid # 0
    BY <2>1 DEF Height
  <2>3. QED
    BY <2>1, <2>2 DEF Height
<1>4. /\ Turned(w, m, v, p, kid, s, o, pp, tt)
      /\ \E E : Shape(v, IF pp = 0 THEN kid ELSE r, E)
  BY <1>1, <1>2, <1>3, RotateUnder
<1> HIDE DEF v
<1>5. /\ DOMAIN m = DOMAIN w /\ Heap(m) /\ DOMAIN v = DOMAIN w /\ Heap(v)
      /\ \A i \in DOMAIN w : m[i].key = w[i].key
      /\ \A i \in DOMAIN w \ {p, kid} : m[i] = w[i]
      /\ pp # p /\ pp # kid /\ kid # p /\ v[p] = m[p] /\ v[kid] = m[kid]
      /\ \A i \in DOMAIN w \ {p, kid}, x \in {1, 2} :
            /\ v[i].height[x] = w[i].height[x]
            /\ v[i].child[x] = IF i = pp /\ x = tt THEN kid ELSE w[i].child[x]
            /\ w[i].child[x] # kid
            /\ w[i].child[x] = p => i = pp /\ x = tt
  BY <1>4 DEF Turned
<1>6. /\ v[p].child[s] = w[kid].child[o] /\ v[p].child[o] = w[p].child[o]
      /\ v[p].height[s] = w[kid].height[o] /\ v[p].height[o] = h
      /\ v[kid].child[s] = w[kid].child[s] /\ v[kid].child[o] = p
      /\ v[kid].height[s] = h + 1 /\ v[kid].height[o] = get_height(v[p])
      /\ w[kid].child[s] \notin {p, kid} /\ w[kid].child[o] \notin {p, kid}
      /\ w[p].child[o] \notin {p, kid}
  BY <1>4 DEF Turned
<1>7. (s = 1 /\ o = 2) \/ (s = 2 /\ o = 1)
  BY TwoSides
<1>8. \A c \in {0} \cup DOMAIN w : c # p /\ c # kid => Height(v, c) = Height(w, c)
  <2>1. ASSUME NEW c \in DOMAIN w, c # p, c # kid PROVE get_height(v[c]) = get_height(w[c])
    <3>1. v[c].height[1] = w[c].height[1] /\ v[c].height[2] = w[c].height[2]
      BY <1>5, <2>1
    <3>2. QED
      BY <3>1 DEF get_height
  <2>2. QED
    BY <2>1 DEF Height
<1>9. \A i \in DOMAIN w, x \in {1, 2} : w[i].child[x] \in {0} \cup DOMAIN w
  BY SMTT(30), <1>1 DEF Heap
<1>10. /\ w[kid].height[s] = Height(w, w[kid].child[s])
       /\ w[kid].height[o] = Height(w, w[kid].child[o])
  BY SMTT(30), <1>1, <1>3, <1>5 DEF Level
<1>11. w[kid].height[o] \in Nat
       /\ get_height(v[p]) = 1 + w[kid].height[o]
       /\ (w[kid].height[o] = h \/ w[kid].height[o] = h + 1)
  <2>1. w[kid].height[o] = h \/ w[kid].height[o] = h + 1
    BY SMTT(30)
  <2>2. CASE s = 1 /\ o = 2
    BY SMTT(30), <1>6, <2>1, <2>2 DEF get_height
  <2>3. CASE s = 2 /\ o = 1
    BY <1>6, <2>1, <2>3 DEF get_height
  <2>4. QED
    BY <1>7, <2>1, <2>2, <2>3
<1>12. Level(v, p)
  <2>1. v[p].height[s] = Height(v, v[p].child[s])
    BY SMTT(30), <1>3, <1>6, <1>8, <1>9, <1>10
  <2>2. v[p].height[o] = Height(v, v[p].child[o])
    BY ZenonT(40), <1>1, <1>6, <1>8, <1>9
  <2>3. v[p].height[1] - v[p].height[2] \in -1 .. 1
    <3> DEFINE g == w[kid].height[o]
    <3>1. v[p].height[s] = g /\ v[p].height[o] = h
      BY <1>6
    <3>2. g \in Nat /\ (g = h \/ g = h + 1)
      BY <1>11
    <3> HIDE DEF g
    <3>3. CASE s = 1 /\ o = 2
      BY <3>1, <3>2, <3>3
    <3>4. CASE s = 2 /\ o = 1
      BY <3>1, <3>2, <3>4
    <3>5. QED
      BY <1>7, <3>3, <3>4
  <2>4. QED
    BY SMTT(30), <1>7, <2>1, <2>2, <2>3 DEF Level
<1>13. Level(v, kid)
  <2>1. v[kid].height[s] = Height(v, v[kid].child[s])
    BY <1>3, <1>6, <1>8, <1>9, <1>10
  <2>2. v[kid].height[o] = Height(v, v[kid].child[o])
    <3>1. p # 0
      BY SMTT(30), <1>1, NodeFields DEF Heap
    <3>2. QED
      BY <1>6, <3>1 DEF Height
  <2>3. v[kid].height[1] - v[kid].height[2] \in -1 .. 1
    <3> DEFINE g == w[kid].height[o]
    <3>1. v[kid].height[s] = h + 1 /\ v[kid].height[o] = 1 + g
      BY <1>6, <1>11
    <3>2. g \in Nat /\ (g = h \/ g = h + 1)
      BY <1>11
    <3> HIDE DEF g
    <3>3. CASE s = 1 /\ o = 2
      BY <3>1, <3>2, <3>3
    <3>4. CASE s = 2 /\ o = 1
      BY <3>1, <3>2, <3>4
    <3>5. QED
      BY <1>7, <3>3, <3>4
  <2>4. QED
    BY <1>7, <2>1, <2>2, <2>3 DEF Level
<1>14. ASSUME NEW i \in DOMAIN w \ {p, kid, pp} PROVE Level(v, i)
  <2>1. ASSUME NEW x \in {1, 2} PROVE v[i].height[x] = Height(v, v[i].child[x])
    <3>1. v[i].child[x] = w[i].child[x] /\ w[i].child[x] \notin {p, kid}
      BY <1>5
    <3>2. w[i].height[x] = Height(w, w[i].child[x])
      BY SMTT(30), <1>1 DEF Level
    <3>3. v[i].height[x] = w[i].height[x]
      BY <1>5
    <3>4. w[i].child[x] \in {0} \cup DOMAIN w
      BY <1>9
    <3>5. Height(v, w[i].child[x]) = Height(w, w[i].child[x])
      BY <1>8, <3>1, <3>4
    <3>6. QED
      BY <3>1, <3>2, <3>3, <3>5
  <2>2. v[i].height[1] - v[i].height[2] \in -1 .. 1
    BY <1>1, <1>5 DEF Level
  <2>3. QED
    BY <2>1, <2>2 DEF Level
<1>15. ASSUME pp # 0
       PROVE  /\ \A x \in {1, 2} \ {tt} : v[pp].height[x] = Height(v, v[pp].child[x])
              /\ v[pp].height[1] - v[pp].height[2] \in -1 .. 1
              /\ Height(v, kid) - v[pp].height[tt] \in 0 .. 1
  <2>1. ASSUME NEW x \in {1, 2} \ {tt} PROVE v[pp].height[x] = Height(v, v[pp].child[x])
    <3>1. v[pp].child[x] = w[pp].child[x] /\ w[pp].child[x] \notin {p, kid}
      BY <1>1, <1>5, <1>15
    <3>2. w[pp].height[x] = Height(w, w[pp].child[x])
      BY <1>1, <1>15
    <3>3. pp \in DOMAIN w
      BY <1>1, <1>15
    <3>4. Height(v, w[pp].child[x]) = Height(w, w[pp].child[x])
      BY <1>8, <1>9, <3>1, <3>3
    <3>5. v[pp].height[x] = w[pp].height[x]
      BY <1>5, <3>3
    <3>6. QED
      BY SMTT(30), <3>1, <3>2, <3>4, <3>5
  <2>2. v[pp].height[1] - v[pp].height[2] \in -1 .. 1
    BY <1>1, <1>5, <1>15
  <2>3. v[pp].height[tt] = h + 2
    BY <1>1, <1>5, <1>15
  <2>4. Height(v, kid) = h + 2 \/ Height(v, kid) = h + 3
    <3>1. CASE s = 1 /\ o = 2
      BY SMTT(30), <1>3, <1>6, <1>11, <3>1 DEF get_height, Height
    <3>2. CASE s = 2 /\ o = 1
      BY <1>3, <1>6, <1>11, <3>2 DEF get_height, Height
    <3>3. QED
      BY SMTT(30), <1>7, <3>1, <3>2
  <2>5. QED
    BY <2>1, <2>2, <2>3, <2>4
<1>16. Loose(m, r, pp, tt, kid)
  <2>1. \A i \in DOMAIN m \ {pp} : Level(v, i)
    BY <1>5, <1>12, <1>13, <1>14
  <2>2. kid \in DOMAIN m /\ pp \in {0} \cup DOMAIN m
    BY SMTT(30), <1>1, <1>3, <1>5
  <2>3. QED
    BY <1>4, <1>15, <2>1, <2>2 DEF Loose, v
<1>17. Kept(w, m, p, h + 2)
  BY <1>3, <1>5 DEF Kept
<1>18. QED
  BY <1>16, <1>17

\* The shape that a double rotation is for: g, inside kid, is as high as kid less 1.
Zigzag(w, p, s, o, kid, g, h) ==
    /\ kid = w[p].child[s] /\ g = w[kid].child[o]
    /\ w[p].height[s] = h + 2 /\ w[p].height[o] = h
    /\ w[kid].height[s] = h /\ w[kid].height[o] = h + 1

\* The two rotations of balance for an inner heavy subtree restore the levels.
LEMMA DoubleBalance ==
  ASSUME NEW w, NEW r, NEW p, NEW pp, NEW tt, NEW h \in Nat, Tilted(w, r, p, pp, tt, h + 2),
         NEW s \in {1, 2}, NEW o \in {1, 2}, o # s,
         NEW kid, NEW g, Zigzag(w, p, s, o, kid, g, h)
  PROVE  /\ Kept(w, DoubleRotate(w, p, s), p, h + 2)
         /\ Loose(DoubleRotate(w, p, s), r, pp, tt, g)
<1> DEFINE m  == DoubleRotate(w, p, s)
           c1 == Rotate(w, kid, o)
           c2 == [c1 EXCEPT ![p] = WithChild(c1[p], s, g, get_height(c1[g]), c1[p].childrenPos[s])]
           v1 == Hook(c1, p, s, g)
           v  == Hook(m, pp, tt, g)
<1>0. /\ kid = w[p].child[s] /\ g = w[kid].child[o]
      /\ w[p].height[s] = h + 2 /\ w[p].height[o] = h
      /\ w[kid].height[s] = h /\ w[kid].height[o] = h + 1
  BY DEF Zigzag
<1>1. /\ Heap(w) /\ p \in DOMAIN w /\ pp \in {0} \cup DOMAIN w /\ tt \in {1, 2}
      /\ pp # 0 => w[pp].child[tt] = p
      /\ pp = 0 => r = p
      /\ \A i \in DOMAIN w \ {p, pp} : Level(w, i)
      /\ \A x \in {1, 2} : w[p].height[x] = Height(w, w[p].child[x])
      /\ pp # 0 =>
          /\ w[pp].height[tt] = h + 2
          /\ \A x \in {1, 2} \ {tt} : w[pp].height[x] = Height(w, w[pp].child[x])
          /\ w[pp].height[1] - w[pp].height[2] \in -1 .. 1
      /\ Slot(w, r, p, pp, tt)
  BY DEF Tilted, Slot
<1>2. PICK D : Shape(w, r, D)
  BY DEF Tilted
<1>3. \A i \in DOMAIN w, x \in {1, 2} : w[i].child[x] \in {0} \cup DOMAIN w
  BY <1>1 DEF Heap
<1>4. \A i \in DOMAIN w : w[i] \in Node /\ i # 0 /\ i \in Id
  <2>1. \A i \in DOMAIN w : w[i] \in Node /\ w[i].id = i
    BY <1>1 DEF Heap
  <2>2. QED
    BY <2>1, NodeFields
<1>5. kid # 0 /\ kid \in DOMAIN w /\ get_height(w[kid]) = h + 2
  <2>1. Height(w, kid) = h + 2 /\ kid \in {0} \cup DOMAIN w
    BY <1>0, <1>1, <1>3
  <2>2. kid # 0
    BY <2>1 DEF Height
  <2>3. QED
    BY <2>1, <2>2 DEF Height
<1>6. p # kid /\ pp # p /\ pp # kid
  <2>1. p # kid /\ D[kid] \subseteq D[p] /\ p \notin D[kid] /\ p \in D[p]
    BY <1>0, <1>1, <1>2, <1>5, NoCycle
  <2>2. CASE pp = 0
    BY <1>1, <1>4, <1>5, <2>1, <2>2
  <2>3. CASE pp # 0
    <3>1. pp # p /\ D[p] \subseteq D[pp]
      BY SMTT(30), <1>1, <1>2, <2>3, NoCycle
    <3>2. QED
      BY <2>1, <3>1
  <2>4. QED
    BY <2>2, <2>3
<1>7. /\ Level(w, kid) /\ w[kid].height[s] = Height(w, w[kid].child[s])
      /\ w[kid].height[o] = Height(w, g)
  BY <1>0, <1>1, <1>5, <1>6 DEF Level
<1>8. g # 0 /\ g \in DOMAIN w /\ get_height(w[g]) = h + 1
  <2>1. Height(w, g) = h + 1 /\ g \in {0} \cup DOMAIN w
    BY <1>0, <1>3, <1>5, <1>7
  <2>2. g # 0
    BY <2>1 DEF Height
  <2>3. QED
    BY <2>1, <2>2 DEF Height
<1>9. kid # g /\ g # p /\ g # pp
  <2>1. /\ kid # g /\ D[g] \subseteq D[kid] /\ g \in D[g]
        /\ D[kid] \subseteq D[p] /\ p \notin D[kid] /\ p \in D[p]
    BY <1>0, <1>1, <1>2, <1>5, <1>8, NoCycle
  <2>2. CASE pp = 0
    BY <1>8, <2>1, <2>2
  <2>3. CASE pp # 0
    <3>1. D[p] \subseteq D[pp]
      BY <1>1, <1>2, <2>3, NoCycle
    <3>2. QED
      BY <2>1, <3>1
  <2>4. QED
    BY SMTT(30), <2>2, <2>3
<1>10. Level(w, g)
  BY SMTT(30), <1>1, <1>8, <1>9
<1>11. /\ m = Rotate(c2, p, s) /\ c1 = Rotate(w, kid, o) /\ v1 = Hook(c1, p, s, g)
       /\ v = Hook(m, pp, tt, g)
       /\ c2 = [c1 EXCEPT ![p] = WithChild(c1[p], s, g, get_height(c1[g]), c1[p].childrenPos[s])]
  <2>1. o = 3 - s
    BY TwoSides
  <2>2. QED
    BY <1>0, <2>1 DEF DoubleRotate
<1> HIDE DEF m, c1, c2, v1, v
<1>12. /\ Turned(w, c1, v1, kid, g, o, s, p, s)
       /\ \E E : Shape(v1, r, E)
  <2>1. Slot(w, r, kid, p, s)
    BY <1>0, <1>1, <1>4, <1>5 DEF Slot
  <2>2. p # 0
    BY SMTT(30), <1>1, <1>4
  <2>3. Heap(w) /\ Shape(w, r, D) /\ s # o /\ g \in DOMAIN w /\ g = w[kid].child[o] /\ g # 0
    BY <1>0, <1>1, <1>2, <1>8
  <2>4. LET mm == Rotate(w, kid, o)
            vv == Hook(mm, p, s, g)
        IN  /\ Turned(w, mm, vv, kid, g, o, s, p, s)
            /\ \E E : Shape(vv, IF p = 0 THEN g ELSE r, E)
    BY <2>1, <2>3, RotateUnder
  <2>5. QED
    BY <1>11, <2>2, <2>4
<1>13. /\ DOMAIN c1 = DOMAIN w /\ Heap(c1) /\ DOMAIN v1 = DOMAIN w
       /\ \A i \in DOMAIN w : c1[i].key = w[i].key /\ v1[i].key = w[i].key
       /\ \A i \in DOMAIN w \ {kid, g} : c1[i] = w[i]
       /\ v1[kid] = c1[kid] /\ v1[g] = c1[g]
  BY <1>12 DEF Turned
<1>20. \A i \in DOMAIN w \ {kid, g}, x \in {1, 2} :
             /\ v1[i].height[x] = w[i].height[x]
             /\ v1[i].child[x] = IF i = p /\ x = s THEN g ELSE w[i].child[x]
             /\ w[i].child[x] # g
             /\ w[i].child[x] = kid => i = p /\ x = s
  BY <1>12 DEF Turned
<1>14. /\ c1[kid].child[o] = w[g].child[s] /\ c1[kid].child[s] = w[kid].child[s]
       /\ c1[kid].height[o] = w[g].height[s] /\ c1[kid].height[s] = h
       /\ c1[g].child[o] = w[g].child[o] /\ c1[g].child[s] = kid
       /\ c1[g].height[o] = w[g].height[o] /\ c1[g].height[s] = get_height(c1[kid])
       /\ w[g].child[s] \notin {kid, g} /\ w[g].child[o] \notin {kid, g}
       /\ w[kid].child[s] \notin {kid, g}
  BY ZenonT(40), <1>0, <1>12 DEF Turned
<1>16. (s = 1 /\ o = 2) \/ (s = 2 /\ o = 1)
  BY TwoSides
<1>17. Relinked(c1, c2, p, s, g, get_height(c1[g]))
  <2> DEFINE hh  == get_height(c1[g])
             tag == c1[p].childrenPos[s]
  <2>1. c1[p] \in Node /\ c1[g] \in Node
    BY <1>1, <1>8, <1>13 DEF Heap
  <2>2. hh \in Nat /\ tag \in Tag
    BY <2>1, NodeFields
  <2>3. p \in DOMAIN c1 /\ g \in {0} \cup DOMAIN c1 /\ Heap(c1)
    BY <1>1, <1>8, <1>13
  <2>4. c2 = [c1 EXCEPT ![p] = WithChild(c1[p], s, g, hh, tag)]
    BY <1>11
  <2> HIDE DEF hh, tag
  <2>5. Relinked(c1, c2, p, s, g, hh)
    <3>1. Swapped(c1, c2, p, WithChild(c1[p], s, g, hh, tag))
      BY <2>3, <2>4 DEF Swapped
    <3>2. QED
      BY <2>2, <2>3, <3>1, Relink
  <2>6. QED
    BY <2>5 DEF hh
<1>15. /\ DOMAIN c2 = DOMAIN w /\ Heap(c2)
       /\ \A i \in DOMAIN w \ {p} : c2[i] = c1[i]
       /\ \A i \in DOMAIN w : c2[i].key = w[i].key
       /\ c2[p].child[s] = g /\ c2[p].child[o] = w[p].child[o] /\ c2[p].height[o] = h
  <2>1. c1[p] = w[p]
    BY <1>1, <1>6, <1>9, <1>13
  <2>2. QED
    BY <1>0, <1>13, <1>17, <2>1 DEF Relinked
<1>18. \E E : Shape(c2, r, E)
  <2>1. PICK E : Shape(v1, r, E)
    BY <1>12
  <2>2. \A i \in DOMAIN v1 : c2[i].key = v1[i].key
    BY <1>13, <1>15
  <2>3. ASSUME NEW i \in DOMAIN v1, NEW x \in {1, 2} PROVE c2[i].child[x] = v1[i].child[x]
    <3>1. CASE i = p
      <4>1. p \in DOMAIN w \ {kid, g}
        BY <1>1, <1>6, <1>9
      <4>2. v1[p].child[s] = g /\ v1[p].child[o] = w[p].child[o]
        BY <1>20, <4>1
      <4>3. QED
        BY <1>15, <1>16, <3>1, <4>2
    <3>2. CASE i \in {kid, g}
      <4>1. i \in DOMAIN w \ {p}
        BY <1>5, <1>6, <1>8, <1>9, <3>2
      <4>2. QED
        BY <1>13, <1>15, <3>2, <4>1
    <3>3. CASE i \notin {p, kid, g}
      <4>1. i \in DOMAIN w
        BY <1>13
      <4>2. c2[i] = w[i]
        BY <1>13, <1>15, <3>3, <4>1
      <4>3. v1[i].child[x] = w[i].child[x]
        BY <1>20, <3>3, <4>1
      <4>4. QED
        BY <4>2, <4>3
    <3>4. QED
      BY <3>1, <3>2, <3>3
  <2>4. DOMAIN c2 = DOMAIN v1
    BY <1>13, <1>15
  <2>5. QED
    BY <2>1, <2>2, <2>3, <2>4, ShapeAgree
<1>19. /\ Turned(c2, m, v, p, g, s, o, pp, tt)
       /\ \E E : Shape(v, IF pp = 0 THEN g ELSE r, E)
  <2>1. Slot(c2, r, p, pp, tt)
    <3>1. pp # 0 => c2[pp] = w[pp]
      BY <1>1, <1>6, <1>9, <1>13, <1>15
    <3>2. QED
      BY <1>1, <1>15, <3>1 DEF Slot
  <2>2. PICK E : Shape(c2, r, E)
    BY <1>18
  <2>3. Heap(c2) /\ Shape(c2, r, E) /\ o # s /\ g \in DOMAIN c2 /\ g = c2[p].child[s] /\ g # 0
    BY <1>8, <1>15, <2>2
  <2>4. LET mm == Rotate(c2, p, s)
            vv == Hook(mm, pp, tt, g)
        IN  /\ Turned(c2, mm, vv, p, g, s, o, pp, tt)
            /\ \E F : Shape(vv, IF pp = 0 THEN g ELSE r, F)
    BY <2>1, <2>3, RotateUnder
  <2>5. QED
    BY <1>11, <2>4
<1>21. /\ DOMAIN m = DOMAIN w /\ Heap(m) /\ DOMAIN v = DOMAIN w
       /\ \A i \in DOMAIN w : m[i].key = w[i].key
       /\ \A i \in DOMAIN w \ {p, g} : m[i] = c2[i]
       /\ v[p] = m[p] /\ v[g] = m[g]
       /\ m[p].child[s] = w[g].child[o] /\ m[p].child[o] = w[p].child[o]
       /\ m[p].height[s] = w[g].height[o] /\ m[p].height[o] = h
       /\ m[g].child[s] = kid /\ m[g].child[o] = p
       /\ m[g].height[s] = get_height(c1[kid]) /\ m[g].height[o] = get_height(m[p])
       /\ w[g].child[o] # p /\ w[p].child[o] \notin {p, g}
  <2>1. /\ DOMAIN m = DOMAIN c2 /\ Heap(m) /\ DOMAIN v = DOMAIN c2
        /\ \A i \in DOMAIN c2 : m[i].key = c2[i].key /\ v[i].key = c2[i].key
        /\ \A i \in DOMAIN c2 \ {p, g} : m[i] = c2[i]
        /\ v[p] = m[p] /\ v[g] = m[g]
        /\ m[p].child[s] = c2[g].child[o] /\ m[p].child[o] = c2[p].child[o]
        /\ m[p].height[s] = c2[g].height[o] /\ m[p].height[o] = c2[p].height[o]
        /\ m[g].child[s] = c2[g].child[s] /\ m[g].child[o] = p
        /\ m[g].height[s] = c2[g].height[s] /\ m[g].height[o] = get_height(m[p])
        /\ c2[g].child[o] \notin {p, g} /\ c2[p].child[o] \notin {p, g}
    BY <1>19 DEF Turned
  <2>2. c2[g] = c1[g]
    BY <1>8, <1>9, <1>15
  <2>3. c2[g].child[o] = w[g].child[o] /\ c2[g].height[o] = w[g].height[o]
        /\ c2[g].child[s] = kid /\ c2[g].height[s] = get_height(c1[kid])
    BY <1>14, <2>2
  <2>4. \A i \in DOMAIN w : m[i].key = w[i].key
    BY <1>15, <2>1
  <2>5. QED
    BY <1>15, <2>1, <2>3, <2>4
<1>22. \A i \in DOMAIN c2 \ {p, g}, x \in {1, 2} :
             /\ v[i].height[x] = c2[i].height[x]
             /\ v[i].child[x] = IF i = pp /\ x = tt THEN g ELSE c2[i].child[x]
             /\ c2[i].child[x] # g
             /\ c2[i].child[x] = p => i = pp /\ x = tt
  BY <1>19 DEF Turned
<1>23. ASSUME NEW i \in DOMAIN w \ {p, kid, g}, NEW x \in {1, 2}
       PROVE  /\ v[i].height[x] = w[i].height[x]
              /\ v[i].child[x] = IF i = pp /\ x = tt THEN g ELSE w[i].child[x]
              /\ w[i].child[x] # g /\ w[i].child[x] # kid
              /\ w[i].child[x] = p => i = pp /\ x = tt
  <2>1. c2[i] = w[i]
    BY <1>13, <1>15
  <2>2. w[i].child[x] # kid
    BY <1>20
  <2>3. i \in DOMAIN c2 \ {p, g}
    BY <1>15
  <2>4. /\ v[i].height[x] = c2[i].height[x]
        /\ v[i].child[x] = IF i = pp /\ x = tt THEN g ELSE c2[i].child[x]
        /\ c2[i].child[x] # g
        /\ c2[i].child[x] = p => i = pp /\ x = tt
    BY <1>22, <2>3
  <2>5. QED
    BY <2>1, <2>2, <2>4
<1>24. /\ v[kid].child[s] = w[kid].child[s] /\ v[kid].child[o] = w[g].child[s]
       /\ v[kid].height[s] = h /\ v[kid].height[o] = w[g].height[s]
       /\ w[kid].child[s] \notin {p, kid, g} /\ w[g].child[s] \notin {p, kid, g}
  <2>1. kid \in DOMAIN c2 \ {p, g} /\ c2[kid] = c1[kid] /\ kid # pp
    BY <1>5, <1>6, <1>9, <1>15
  <2>2. ASSUME NEW x \in {1, 2}
        PROVE  /\ v[kid].height[x] = c2[kid].height[x]
               /\ v[kid].child[x] = c2[kid].child[x] /\ c2[kid].child[x] # p
    <3>1. /\ v[kid].height[x] = c2[kid].height[x]
          /\ v[kid].child[x] = IF kid = pp /\ x = tt THEN g ELSE c2[kid].child[x]
          /\ c2[kid].child[x] = p => kid = pp /\ x = tt
      BY <1>22, <2>1
    <3>2. QED
      BY <2>1, <3>1
  <2>3. /\ v[kid].child[s] = c1[kid].child[s] /\ v[kid].child[o] = c1[kid].child[o]
        /\ v[kid].height[s] = c1[kid].height[s] /\ v[kid].height[o] = c1[kid].height[o]
        /\ c1[kid].child[s] # p /\ c1[kid].child[o] # p
    BY <2>1, <2>2
  <2>4. QED
    BY <1>14, <2>3
<1>25. w[g].child[o] \notin {p, kid, g} /\ w[p].child[o] \notin {p, kid, g}
  <2>1. w[p].child[o] # kid
    <3>1. p \in DOMAIN w \ {kid, g}
      BY SMTT(30), <1>1, <1>6, <1>9
    <3>2. QED
      BY <1>20, <3>1
  <2>2. QED
    BY <1>14, <1>21, <2>1
<1>40. Height(w, w[p].child[o]) = h /\ Height(w, w[kid].child[s]) = h
  BY <1>0, <1>1, <1>7
<1>26. \A c \in {0} \cup DOMAIN w : c \notin {p, kid, g} => Height(v, c) = Height(w, c)
  <2>1. ASSUME NEW c \in DOMAIN w, c \notin {p, kid, g} PROVE get_height(v[c]) = get_height(w[c])
    <3>1. v[c].height[1] = w[c].height[1] /\ v[c].height[2] = w[c].height[2]
      BY <1>23, <2>1
    <3>2. QED
      BY <3>1 DEF get_height
  <2>2. QED
    BY <2>1 DEF Height
<1> DEFINE ga == w[g].height[s]
           gb == w[g].height[o]
<1>27. /\ ga = Height(w, w[g].child[s]) /\ gb = Height(w, w[g].child[o])
       /\ ga \in Nat /\ gb \in Nat /\ ga <= h /\ gb <= h /\ ga - h \in -1 .. 1 /\ gb - h \in -1 .. 1
       /\ (ga = h \/ gb = h)
  <2>1. ga \in Nat /\ gb \in Nat
    BY <1>4, <1>8, NodeFields
  <2>2. w[g].height[1] - w[g].height[2] \in -1 .. 1
    BY <1>10 DEF Level
  <2>3. w[g].height[s] = ga /\ w[g].height[o] = gb
    OBVIOUS
  <2>4. ga = Height(w, w[g].child[s]) /\ gb = Height(w, w[g].child[o])
    BY <1>10 DEF Level
  <2> HIDE DEF ga, gb
  <2>5. 1 + (IF ga > gb THEN ga ELSE gb) = h + 1 /\ ga - gb \in -1 .. 1
    BY <1>8, <2>1, <2>2, <2>3, GetHeight
  <2>6. QED
    BY <2>1, <2>4, <2>5
<1>28. /\ v[p].height[s] = gb /\ v[p].height[o] = h /\ get_height(v[p]) = h + 1
       /\ v[p].height[1] - v[p].height[2] \in -1 .. 1
  <2>1. v[p].height[s] = gb /\ v[p].height[o] = h
    BY <1>21
  <2> HIDE DEF ga, gb
  <2>2. /\ get_height(v[p]) = 1 + (IF gb > h THEN gb ELSE h)
        /\ v[p].height[1] - v[p].height[2] \in -1 .. 1 <=> gb - h \in -1 .. 1
    BY <1>27, <2>1, GetHeight
  <2>3. QED
    BY <1>27, <2>1, <2>2
<1>29. /\ v[kid].height[s] = h /\ v[kid].height[o] = ga
       /\ v[kid].height[1] - v[kid].height[2] \in -1 .. 1
       /\ get_height(v[kid]) = h + 1 /\ get_height(c1[kid]) = h + 1
  <2>1. c1[kid].height[s] = h /\ c1[kid].height[o] = ga
    BY <1>14
  <2>2. v[kid].height[s] = h /\ v[kid].height[o] = ga
    BY <1>24
  <2> HIDE DEF ga, gb
  <2>3. /\ get_height(v[kid]) = 1 + (IF h > ga THEN h ELSE ga)
        /\ v[kid].height[1] - v[kid].height[2] \in -1 .. 1 <=> h - ga \in -1 .. 1
    BY <1>27, <2>2, GetHeight
  <2>4. get_height(c1[kid]) = 1 + (IF h > ga THEN h ELSE ga)
    BY <1>27, <2>1, GetHeight
  <2>5. QED
    BY <1>27, <2>2, <2>3, <2>4
<1>39. \A c \in {0} \cup DOMAIN w : c # p /\ c # kid /\ c # g => Height(v, c) = Height(w, c)
  BY <1>26
<1>30. Level(v, p)
  <2>1. v[p].height[s] = Height(v, v[p].child[s])
    <3>1. v[p].child[s] = w[g].child[o] /\ w[g].child[o] \in {0} \cup DOMAIN w
      BY <1>3, <1>8, <1>21
    <3>2. Height(v, w[g].child[o]) = Height(w, w[g].child[o])
      BY <1>25, <1>39, <3>1
    <3>3. QED
      BY <1>27, <1>28, <3>1, <3>2
  <2>2. v[p].height[o] = Height(v, v[p].child[o])
    <3>1. v[p].child[o] = w[p].child[o] /\ w[p].child[o] \in {0} \cup DOMAIN w
      BY <1>1, <1>3, <1>21
    <3>2. Height(v, w[p].child[o]) = Height(w, w[p].child[o])
      BY <1>25, <1>39, <3>1
    <3>3. QED
      BY <1>28, <1>40, <3>1, <3>2
  <2>3. QED
    BY <1>16, <1>28, <2>1, <2>2 DEF Level
<1>31. Level(v, kid)
  <2>1. v[kid].height[s] = Height(v, v[kid].child[s])
    <3>1. w[kid].child[s] \in {0} \cup DOMAIN w
      BY <1>3, <1>5
    <3>2. Height(v, w[kid].child[s]) = Height(w, w[kid].child[s])
      BY <1>24, <1>39, <3>1
    <3>3. QED
      BY <1>24, <1>40, <3>2
  <2>2. v[kid].height[o] = Height(v, v[kid].child[o])
    <3>1. v[kid].child[o] = w[g].child[s] /\ w[g].child[s] \in {0} \cup DOMAIN w
      BY <1>3, <1>8, <1>24
    <3>2. Height(v, w[g].child[s]) = Height(w, w[g].child[s])
      BY <1>24, <1>39, <3>1
    <3>3. QED
      BY <1>27, <1>29, <3>1, <3>2
  <2>3. QED
    BY <1>16, <1>29, <2>1, <2>2 DEF Level
<1>32. /\ v[g].height[s] = h + 1 /\ v[g].height[o] = h + 1
       /\ v[g].child[s] = kid /\ v[g].child[o] = p
       /\ get_height(v[g]) = h + 2 /\ v[g].height[1] - v[g].height[2] \in -1 .. 1
  <2>1. /\ v[g].height[s] = h + 1 /\ v[g].height[o] = h + 1
        /\ v[g].child[s] = kid /\ v[g].child[o] = p
    BY <1>21, <1>28, <1>29
  <2> DEFINE hh == h + 1
  <2>2. hh \in Nat /\ v[g].height[s] = hh /\ v[g].height[o] = hh
    BY <2>1
  <2> HIDE DEF hh
  <2>3. /\ get_height(v[g]) = 1 + (IF hh > hh THEN hh ELSE hh)
        /\ v[g].height[1] - v[g].height[2] \in -1 .. 1 <=> hh - hh \in -1 .. 1
    BY <2>2, GetHeight
  <2>4. get_height(v[g]) = 1 + hh /\ v[g].height[1] - v[g].height[2] \in -1 .. 1
    BY <2>2, <2>3
  <2>5. QED
    BY <2>1, <2>4 DEF hh
<1>33. Level(v, g)
  <2>1. Height(v, kid) = h + 1 /\ Height(v, p) = h + 1
    BY <1>1, <1>4, <1>5, <1>28, <1>29 DEF Height
  <2>2. \A x \in {1, 2} : v[g].height[x] = Height(v, v[g].child[x])
    BY <1>16, <1>32, <2>1
  <2>3. QED
    BY <1>32, <2>2 DEF Level
<1>34. ASSUME NEW i \in DOMAIN w \ {p, kid, g, pp} PROVE Level(v, i)
  <2>1. ASSUME NEW x \in {1, 2} PROVE v[i].height[x] = Height(v, v[i].child[x])
    <3>1. /\ v[i].height[x] = w[i].height[x]
          /\ v[i].child[x] = w[i].child[x] /\ w[i].child[x] \notin {p, kid, g}
      <4>1. i \in DOMAIN w \ {p, kid, g} /\ i # pp
        OBVIOUS
      <4>2. QED
        BY <1>23, <4>1
    <3>2. w[i].height[x] = Height(w, w[i].child[x])
      BY <1>1 DEF Level
    <3>3. QED
      BY <1>3, <1>26, <3>1, <3>2
  <2>2. v[i].height[1] - v[i].height[2] \in -1 .. 1
    <3>1. v[i].height[1] = w[i].height[1] /\ v[i].height[2] = w[i].height[2]
      BY <1>23
    <3>2. QED
      BY <1>1, <3>1 DEF Level
  <2>3. QED
    BY <2>1, <2>2 DEF Level
<1>35. ASSUME pp # 0
       PROVE  /\ \A x \in {1, 2} \ {tt} : v[pp].height[x] = Height(v, v[pp].child[x])
              /\ v[pp].height[1] - v[pp].height[2] \in -1 .. 1
              /\ Height(v, g) - v[pp].height[tt] \in 0 .. 1
  <2>0. pp \in DOMAIN w \ {p, kid, g}
    BY <1>1, <1>6, <1>9, <1>35
  <2>1. ASSUME NEW x \in {1, 2} \ {tt} PROVE v[pp].height[x] = Height(v, v[pp].child[x])
    <3>1. /\ v[pp].height[x] = w[pp].height[x]
          /\ v[pp].child[x] = w[pp].child[x] /\ w[pp].child[x] \notin {p, kid, g}
      BY <1>23, <2>0
    <3>2. w[pp].height[x] = Height(w, w[pp].child[x])
      BY <1>1, <1>35
    <3>3. QED
      BY <1>3, <1>26, <2>0, <3>1, <3>2
  <2>2. \A x \in {1, 2} : v[pp].height[x] = w[pp].height[x]
    BY <1>23, <2>0
  <2>3. v[pp].height[1] - v[pp].height[2] \in -1 .. 1
    BY <1>1, <1>35, <2>2
  <2>4. v[pp].height[tt] = h + 2
    BY <1>1, <1>35, <2>2
  <2>5. Height(v, g) = h + 2
    BY <1>8, <1>32 DEF Height
  <2>6. QED
    BY <2>1, <2>3, <2>4, <2>5
<1>36. Loose(m, r, pp, tt, g)
  <2>1. \A i \in DOMAIN m \ {pp} : Level(v, i)
    BY <1>21, <1>30, <1>31, <1>33, <1>34
  <2>2. g \in DOMAIN m /\ pp \in {0} \cup DOMAIN m
    BY <1>1, <1>8, <1>21
  <2>3. \E E : Shape(v, IF pp = 0 THEN g ELSE r, E)
    BY <1>19
  <2>4. QED
    BY <1>11, <1>35, <2>1, <2>2, <2>3 DEF Loose
<1>37. Kept(w, m, p, h + 2)
  <2>1. ASSUME NEW i \in DOMAIN w \ {p}, get_height(w[i]) > h + 2 PROVE m[i] = w[i]
    <3>1. i # kid /\ i # g
      BY <1>5, <1>8, <2>1
    <3>2. QED
      BY <1>13, <1>15, <1>21, <3>1
  <2>2. QED
    BY <1>21, <2>1 DEF Kept
<1>38. QED
  BY <1>36, <1>37 DEF m

\* m has the keys, the children and the heights of n.
Alike(n, m) ==
    /\ DOMAIN m = DOMAIN n
    /\ \A i \in DOMAIN n : m[i].key = n[i].key
    /\ \A i \in DOMAIN n, s \in {1, 2} :
          m[i].child[s] = n[i].child[s] /\ m[i].height[s] = n[i].height[s]

LEMMA AlikeShape ==
  ASSUME NEW n, NEW m, Alike(n, m), NEW r, NEW D, Shape(n, r, D)
  PROVE  Shape(m, r, D)
<1>1. /\ DOMAIN m = DOMAIN n
      /\ \A i \in DOMAIN n : m[i].key = n[i].key
      /\ \A i \in DOMAIN n, s \in {1, 2} : m[i].child[s] = n[i].child[s]
  BY DEF Alike
<1>2. QED
  BY <1>1, ShapeAgree

LEMMA AlikeHeight ==
  ASSUME NEW n, NEW m, Alike(n, m), NEW c \in {0} \cup DOMAIN n
  PROVE  Height(m, c) = Height(n, c)
<1>1. CASE c = 0
  BY <1>1 DEF Height
<1>2. CASE c # 0
  <2>1. m[c].height[1] = n[c].height[1] /\ m[c].height[2] = n[c].height[2]
    BY <1>2 DEF Alike
  <2>2. get_height(m[c]) = get_height(n[c])
    BY <2>1 DEF get_height
  <2>3. QED
    BY <1>2, <2>2 DEF Height
<1>3. QED
  BY <1>1, <1>2

LEMMA AlikeLevel ==
  ASSUME NEW n, NEW m, Alike(n, m), Heap(n), NEW i \in DOMAIN n, Level(n, i)
  PROVE  Level(m, i)
<1>1. \A s \in {1, 2} : n[i].child[s] \in {0} \cup DOMAIN n
  BY DEF Heap
<1>2. ASSUME NEW s \in {1, 2} PROVE m[i].height[s] = Height(m, m[i].child[s])
  <2>1. m[i].child[s] = n[i].child[s] /\ m[i].height[s] = n[i].height[s]
    BY DEF Alike
  <2>2. n[i].height[s] = Height(n, n[i].child[s])
    BY DEF Level
  <2>3. Height(m, n[i].child[s]) = Height(n, n[i].child[s])
    BY <1>1, AlikeHeight
  <2>4. QED
    BY <2>1, <2>2, <2>3
<1>3. m[i].height[1] - m[i].height[2] \in -1 .. 1
  <2>1. m[i].height[1] = n[i].height[1] /\ m[i].height[2] = n[i].height[2]
    BY DEF Alike
  <2>2. QED
    BY <2>1 DEF Level
<1>4. QED
  BY <1>2, <1>3 DEF Level

LEMMA KidSlot ==
  ASSUME NEW w, Heap(w), NEW r, NEW D, Shape(w, r, D),
         NEW p, NEW pp, NEW tt, Slot(w, r, p, pp, tt), NEW s \in {1, 2}, w[p].child[s] # 0
  PROVE  /\ w[p].child[s] \in DOMAIN w /\ pp # p
         /\ w[p].child[s] # p /\ w[p].child[s] # pp
<1>1. /\ p \in DOMAIN w /\ pp \in {0} \cup DOMAIN w /\ tt \in {1, 2}
      /\ pp # 0 => w[pp].child[tt] = p
  BY DEF Slot
<1>2. p # 0
  <2>1. w[p] \in Node /\ w[p].id = p
    BY <1>1 DEF Heap
  <2>2. QED
    BY <2>1, NodeFields
<1>3. w[p].child[s] \in DOMAIN w
  BY <1>1 DEF Heap
<1>4. /\ w[p].child[s] # p /\ D[w[p].child[s]] \subseteq D[p]
      /\ p \notin D[w[p].child[s]] /\ p \in D[p]
  BY <1>1, NoCycle
<1>5. pp # 0 => pp # p /\ D[p] \subseteq D[pp]
  BY <1>1, NoCycle
<1>6. QED
  BY <1>2, <1>3, <1>4, <1>5

\* The child on one side of p is as high as before, or by 1 higher, and old is
\* the height that p had.
Grown(w, p, old) ==
    \E t, o \in {1, 2}, ot \in Nat :
       /\ o # t
       /\ w[p].height[t] - ot \in 0 .. 1
       /\ ot - w[p].height[o] \in -1 .. 1
       /\ old = 1 + (IF ot > w[p].height[o] THEN ot ELSE w[p].height[o])

\* A node that is level stays as it is, and the slot above it is Loose.
LEMMA NoRotation ==
  ASSUME NEW w, NEW r, NEW p, NEW pp, NEW tt, NEW old, Tilted(w, r, p, pp, tt, old),
         w[p].height[1] - w[p].height[2] \in -1 .. 1,
         get_height(w[p]) - old \in 0 .. 1
  PROVE  Kept(w, w, p, old) /\ Loose(w, r, pp, tt, p)
<1>1. /\ Heap(w) /\ p \in DOMAIN w /\ pp \in {0} \cup DOMAIN w /\ tt \in {1, 2}
      /\ pp = 0 => r = p
      /\ pp # 0 => w[pp].child[tt] = p
      /\ \A i \in DOMAIN w \ {p, pp} : Level(w, i)
      /\ \A x \in {1, 2} : w[p].height[x] = Height(w, w[p].child[x])
      /\ pp # 0 =>
          /\ w[pp].height[tt] = old
          /\ \A x \in {1, 2} \ {tt} : w[pp].height[x] = Height(w, w[pp].child[x])
          /\ w[pp].height[1] - w[pp].height[2] \in -1 .. 1
  BY DEF Tilted, Slot
<1>2. PICK D : Shape(w, r, D)
  BY DEF Tilted
<1>3. Level(w, p)
  BY <1>1 DEF Level
<1>4. Kept(w, w, p, old)
  BY <1>1 DEF Kept
<1>5. CASE pp = 0
  <2>1. Hook(w, pp, tt, p) = w
    BY <1>5 DEF Hook
  <2>2. \A i \in DOMAIN w \ {pp} : Level(w, i)
    BY <1>1, <1>3
  <2>3. QED
    BY <1>1, <1>2, <1>4, <1>5, <2>1, <2>2 DEF Loose
<1>6. CASE pp # 0
  <2> DEFINE v == Hook(w, pp, tt, p)
  <2>1. Hooked(w, v, pp, tt, p)
    BY <1>1, <1>6, HookFields
  <2> HIDE DEF v
  <2>2. /\ DOMAIN v = DOMAIN w /\ \A i \in DOMAIN w : v[i].key = w[i].key
        /\ \A i \in DOMAIN w \ {pp} : v[i] = w[i]
        /\ v[pp].child[tt] = p
        /\ \A x \in {1, 2} : x # tt => v[pp].child[x] = w[pp].child[x]
        /\ \A x \in {1, 2} : v[pp].height[x] = w[pp].height[x]
    BY <2>1 DEF Hooked
  <2>3. ASSUME NEW i \in DOMAIN w, NEW x \in {1, 2}
        PROVE  v[i].child[x] = w[i].child[x] /\ v[i].height[x] = w[i].height[x]
    <3>1. CASE i = pp
      BY <1>1, <1>6, <2>2, <3>1
    <3>2. CASE i # pp
      BY <2>2, <3>2
    <3>3. QED
      BY <3>1, <3>2
  <2>4. Alike(w, v)
    BY <2>2, <2>3 DEF Alike
  <2>5. Shape(v, r, D)
    BY <1>2, <2>4, AlikeShape
  <2>6. \A i \in DOMAIN w \ {pp} : Level(v, i)
    <3>1. ASSUME NEW i \in DOMAIN w \ {pp} PROVE Level(v, i)
      <4>1. Level(w, i)
        BY <1>1, <1>3
      <4>2. QED
        BY <1>1, <2>4, <4>1, AlikeLevel
    <3>2. QED
      BY <3>1
  <2>7. ASSUME NEW x \in {1, 2} \ {tt} PROVE v[pp].height[x] = Height(v, v[pp].child[x])
    <3>1. w[pp].child[x] \in {0} \cup DOMAIN w
      BY <1>1, <1>6 DEF Heap
    <3>2. Height(v, w[pp].child[x]) = Height(w, w[pp].child[x])
      BY <2>4, <3>1, AlikeHeight
    <3>3. w[pp].height[x] = Height(w, w[pp].child[x])
      BY <1>1, <1>6
    <3>4. QED
      BY <2>2, <3>2, <3>3
  <2>8. v[pp].height[tt] = old /\ v[pp].height[1] - v[pp].height[2] \in -1 .. 1
    BY <1>1, <1>6, <2>2
  <2>9. Height(v, p) = get_height(w[p])
    <3>1. p # 0
      <4>1. w[p] \in Node /\ w[p].id = p
        BY <1>1 DEF Heap
      <4>2. QED
        BY <4>1, NodeFields
    <3>2. Height(v, p) = Height(w, p)
      <4>1. p \in {0} \cup DOMAIN w
        BY <1>1
      <4>2. QED
        BY <2>4, <4>1, AlikeHeight
    <3>3. QED
      BY <3>1, <3>2 DEF Height
  <2>10. Loose(w, r, pp, tt, p)
    BY <1>1, <1>6, <2>5, <2>6, <2>7, <2>8, <2>9 DEF Loose, v
  <2>11. QED
    BY <1>4, <2>10
<1>7. QED
  BY <1>5, <1>6

\* balance keeps a heap, the keys and the search tree, and leaves the levels right.
LEMMA BalanceHeap ==
  ASSUME NEW w, NEW r, NEW p, NEW pp, NEW tt, NEW old, Tilted(w, r, p, pp, tt, old),
         Grown(w, p, old)
  PROVE  /\ Kept(w, balance(w, p).cache, p, old)
         /\ Loose(balance(w, p).cache, r, pp, tt, balance(w, p).top)
<1> DEFINE heavy == {s \in {1, 2} : w[p].height[s] - w[p].height[3 - s] > 1}
<1>1. /\ Heap(w) /\ p \in DOMAIN w /\ Slot(w, r, p, pp, tt)
      /\ \A i \in DOMAIN w \ {p, pp} : Level(w, i)
      /\ \A x \in {1, 2} : w[p].height[x] = Height(w, w[p].child[x])
  BY DEF Tilted, Slot
<1>2. PICK D : Shape(w, r, D)
  BY DEF Tilted
<1>3. PICK t, o \in {1, 2}, ot \in Nat :
       /\ o # t
       /\ w[p].height[t] - ot \in 0 .. 1
       /\ ot - w[p].height[o] \in -1 .. 1
       /\ old = 1 + (IF ot > w[p].height[o] THEN ot ELSE w[p].height[o])
  BY DEF Grown
<1> DEFINE a == w[p].height[t]
           b == w[p].height[o]
<1>4. a \in Nat /\ b \in Nat /\ w[p].height[t] = a /\ w[p].height[o] = b
  <2>1. w[p] \in Node
    BY <1>1 DEF Heap
  <2>2. QED
    BY <2>1, NodeFields
<1>5. /\ a - ot \in 0 .. 1 /\ ot - b \in -1 .. 1 /\ old = 1 + (IF ot > b THEN ot ELSE b)
      /\ o = 3 - t /\ t = 3 - o
  BY <1>3, TwoSides
<1>6. get_height(w[p]) = 1 + (IF a > b THEN a ELSE b)
      /\ (w[p].height[1] - w[p].height[2] \in -1 .. 1 <=> a - b \in -1 .. 1)
  <2> HIDE DEF a, b
  <2>1. QED
    BY <1>3, <1>4, GetHeight
<1>7. CASE a - b \in -1 .. 1
  <2> HIDE DEF a, b
  <2>1. get_height(w[p]) - old \in 0 .. 1
    BY <1>4, <1>5, <1>6, <1>7
  <2>2. heavy = {}
    <3>1. ~(a - b > 1) /\ ~(b - a > 1)
      BY <1>4, <1>7
    <3>2. \A s \in {1, 2} : s = t \/ s = o
      BY <1>3, TwoSides
    <3>3. QED
      BY <1>4, <1>5, <3>1, <3>2
  <2>3. balance(w, p) = [cache |-> w, top |-> p, reads |-> 1, writes |-> 0]
    BY <2>2 DEF balance
  <2>4. balance(w, p).cache = w /\ balance(w, p).top = p
    BY <2>3
  <2>5. w[p].height[1] - w[p].height[2] \in -1 .. 1
    BY <1>6, <1>7
  <2>6. QED
    BY <2>1, <2>4, <2>5, NoRotation
<1>8. CASE a - b \notin -1 .. 1
  <2> DEFINE kid == w[p].child[t]
  <2> HIDE DEF a, b
  <2>1. a = b + 2 /\ ot = b + 1 /\ old = b + 2
    BY <1>4, <1>5, <1>8
  <2>2. heavy = {t}
    <3>1. a - b > 1 /\ ~(b - a > 1)
      BY <1>4, <2>1
    <3>2. \A s \in {1, 2} : s = t \/ s = o
      BY <1>3, TwoSides
    <3>3. QED
      BY <1>4, <1>5, <3>1, <3>2
  <2>3. (CHOOSE x \in heavy : TRUE) = t
    BY <2>2
  <2>4. kid # 0 /\ Height(w, kid) = b + 2
    <3>1. Height(w, kid) = b + 2
      BY <1>1, <1>4, <2>1
    <3>2. QED
      BY <1>4, <3>1 DEF Height
  <2>5. kid \in DOMAIN w /\ kid # p /\ kid # pp
    BY <1>1, <1>2, <2>4, KidSlot
  <2>6. Level(w, kid) /\ get_height(w[kid]) = b + 2
    BY <1>1, <2>4, <2>5 DEF Height
  <2>7. Fetch(w, kid) = w
    BY <2>5 DEF Fetch
  <2>8. heavy # {}
    BY <2>2
  <2>9. balance(w, p) =
           IF w[kid].height[t] >= w[kid].height[3 - t]
           THEN [cache |-> Rotate(w, p, t), top |-> kid, reads |-> 4, writes |-> 2]
           ELSE [cache |-> DoubleRotate(w, p, t), top |-> w[kid].child[3 - t],
                 reads |-> 7, writes |-> 5]
    BY <2>3, <2>7, <2>8 DEF balance
  <2> DEFINE ka == w[kid].height[t]
             kb == w[kid].height[o]
  <2>10. ka \in Nat /\ kb \in Nat /\ w[kid].height[t] = ka /\ w[kid].height[o] = kb
    <3>1. w[kid] \in Node
      BY SMTT(30), <1>1, <2>5 DEF Heap
    <3>2. QED
      BY <3>1, NodeFields
  <2>11. /\ 1 + (IF ka > kb THEN ka ELSE kb) = b + 2 /\ ka - kb \in -1 .. 1
    <3>1. w[kid].height[1] - w[kid].height[2] \in -1 .. 1
      BY <2>6 DEF Level
    <3> HIDE DEF ka, kb
    <3>2. QED
      BY SMTT(30), <1>3, <2>6, <2>10, <3>1, GetHeight
  <2> HIDE DEF kid
  <2>12. CASE ka >= kb
    <3>1. balance(w, p).cache = Rotate(w, p, t) /\ balance(w, p).top = kid
      BY <1>5, <2>9, <2>12
    <3>2. ka = b + 1 /\ kb \in b .. b + 1
      <4> HIDE DEF ka, kb
      <4>1. QED
        BY <1>4, <2>10, <2>11, <2>12
    <3>3. /\ Tilted(w, r, p, pp, tt, b + 2) /\ kid = w[p].child[t]
          /\ w[p].height[t] = b + 2 /\ w[p].height[o] = b
          /\ w[kid].height[t] = b + 1 /\ w[kid].height[o] \in b .. b + 1
      BY SMTT(30), <1>4, <2>1, <3>2 DEF kid
    <3>4. Kept(w, Rotate(w, p, t), p, b + 2) /\ Loose(Rotate(w, p, t), r, pp, tt, kid)
      BY <1>3, <1>4, <3>3, SingleBalance
    <3>5. QED
      BY <2>1, <3>1, <3>4
  <2>13. CASE ~(ka >= kb)
    <3> DEFINE g == w[kid].child[o]
    <3>1. balance(w, p).cache = DoubleRotate(w, p, t) /\ balance(w, p).top = g
      BY <1>5, <2>9, <2>13
    <3>2. ka = b /\ kb = b + 1
      <4> HIDE DEF ka, kb
      <4>1. QED
        BY <1>4, <2>10, <2>11, <2>13
    <3>3. Zigzag(w, p, t, o, kid, g, b)
      BY <1>4, <2>1, <3>2 DEF Zigzag, kid
    <3>4. Tilted(w, r, p, pp, tt, b + 2)
      BY <2>1
    <3> HIDE DEF g
    <3>5. Kept(w, DoubleRotate(w, p, t), p, b + 2) /\ Loose(DoubleRotate(w, p, t), r, pp, tt, g)
      BY <1>3, <1>4, <3>3, <3>4, DoubleBalance
    <3>6. QED
      BY <2>1, <3>1, <3>5
  <2>14. QED
    BY <2>12, <2>13
<1>9. QED
  BY <1>7, <1>8

\* The nodes form an AVL tree with the root r.
Avl(n, r) == Heap(n) /\ (\E D : Shape(n, r, D)) /\ \A i \in DOMAIN n : Level(n, i)

\* Balancing a node of an AVL tree changes nothing.
LEMMA AvlTilted ==
  ASSUME NEW n, NEW r, Avl(n, r), NEW p, NEW pp, NEW tt, Slot(n, r, p, pp, tt)
  PROVE  /\ Tilted(n, r, p, pp, tt, get_height(n[p]))
         /\ Grown(n, p, get_height(n[p]))
<1>1. /\ Heap(n) /\ \A i \in DOMAIN n : Level(n, i)
      /\ p \in DOMAIN n /\ pp \in {0} \cup DOMAIN n /\ tt \in {1, 2}
      /\ pp # 0 => n[pp].child[tt] = p
  BY DEF Avl, Slot
<1> DEFINE a == n[p].height[1]
           b == n[p].height[2]
           h == get_height(n[p])
<1>2. n[p] \in Node /\ n[p].id = p
  BY <1>1 DEF Heap
<1>3. p # 0 /\ a \in Nat /\ b \in Nat /\ h \in Nat
  BY <1>2, NodeFields
<1>4. a - b \in -1 .. 1
  BY <1>1 DEF Level
<1>5. h = 1 + (IF a > b THEN a ELSE b)
  BY DEF get_height
<1>6. Height(n, p) = h
  BY <1>3 DEF Height
<1>7. Grown(n, p, h)
  <2>1. n[p].height[1] = a /\ n[p].height[2] = b
    OBVIOUS
  <2> HIDE DEF a, b, h
  <2>2. a - a \in 0 .. 1
    BY <1>3
  <2>3. /\ 1 \in {1, 2} /\ 2 \in {1, 2} /\ a \in Nat /\ 2 # 1
        /\ n[p].height[1] - a \in 0 .. 1 /\ a - n[p].height[2] \in -1 .. 1
        /\ h = 1 + (IF a > n[p].height[2] THEN a ELSE n[p].height[2])
    BY <1>3, <1>4, <1>5, <2>1, <2>2
  <2>4. QED
    BY <2>3 DEF Grown
<1>8. Tilted(n, r, p, pp, tt, h)
  <2> HIDE DEF h
  <2>1. pp # 0 =>
          /\ n[pp].height[tt] = h
          /\ \A s \in {1, 2} \ {tt} : n[pp].height[s] = Height(n, n[pp].child[s])
          /\ n[pp].height[1] - n[pp].height[2] \in -1 .. 1
    BY <1>1, <1>6 DEF Level
  <2>2. \A s \in {1, 2} : n[p].height[s] = Height(n, n[p].child[s])
    BY <1>1 DEF Level
  <2>3. \E D : Shape(n, r, D)
    BY DEF Avl
  <2>4. QED
    BY <1>1, <1>3, <2>1, <2>2, <2>3 DEF Tilted
<1>9. QED
  BY <1>7, <1>8

\* Linking p to the loose subtree, with its height, leaves at most p itself out
\* of balance.
LEMMA LinkTilted ==
  ASSUME NEW n, Heap(n), NEW r, NEW p \in DOMAIN n, NEW t \in {1, 2}, NEW c,
         Loose(n, r, p, t, c),
         NEW pp, NEW tt, Slot(n, r, p, pp, tt), pp # p,
         NEW w, Relinked(n, w, p, t, c, get_height(n[c]))
  PROVE  /\ Tilted(w, r, p, pp, tt, get_height(n[p]))
         /\ Grown(w, p, get_height(n[p]))
<1> DEFINE v == Hook(n, p, t, c)
           hc == get_height(n[c])
           hp == get_height(n[p])
<1>1. p # 0 /\ n[p] \in Node
  <2>1. n[p] \in Node /\ n[p].id = p
    BY DEF Heap
  <2>2. QED
    BY <2>1, NodeFields
<1>2. c \in DOMAIN n
  BY DEF Loose
<1>3. Hooked(n, v, p, t, c)
  BY <1>2, HookFields
<1>4. PICK D : Shape(v, r, D)
  BY <1>1 DEF Loose
<1>5. /\ \A i \in DOMAIN n \ {p} : Level(v, i)
      /\ \A s \in {1, 2} \ {t} : v[p].height[s] = Height(v, v[p].child[s])
      /\ v[p].height[1] - v[p].height[2] \in -1 .. 1
      /\ Height(v, c) - v[p].height[t] \in 0 .. 1
  BY <1>1 DEF Loose
<1> HIDE DEF v
<1>6. /\ DOMAIN v = DOMAIN n /\ Heap(v)
      /\ \A i \in DOMAIN n \ {p} : v[i] = n[i]
      /\ \A i \in DOMAIN n : v[i].key = n[i].key
      /\ v[p].child[t] = c
      /\ \A x \in {1, 2} : x # t => v[p].child[x] = n[p].child[x]
      /\ \A x \in {1, 2} : v[p].height[x] = n[p].height[x]
      /\ get_height(v[p]) = hp
  BY <1>3 DEF Hooked
<1>7. /\ DOMAIN w = DOMAIN n /\ Heap(w)
      /\ \A i \in DOMAIN n \ {p} : w[i] = n[i]
      /\ \A i \in DOMAIN n : w[i].key = n[i].key
      /\ w[p].child[t] = c /\ w[p].height[t] = hc
      /\ \A x \in {1, 2} : x # t => w[p].child[x] = n[p].child[x] /\ w[p].height[x] = n[p].height[x]
  BY DEF Relinked
<1>8. /\ pp \in {0} \cup DOMAIN n /\ tt \in {1, 2}
      /\ pp = 0 => r = p
      /\ pp # 0 => n[pp].child[tt] = p
  BY DEF Slot
<1>9. c # p
  BY <1>4, <1>6, NoCycle
<1>10. Height(v, c) = hc /\ Height(w, c) = hc
  <2>1. c # 0
    <3>1. n[c] \in Node /\ n[c].id = c
      BY <1>2 DEF Heap
    <3>2. QED
      BY <3>1, NodeFields
  <2>2. QED
    BY <1>2, <1>6, <1>7, <1>9, <2>1 DEF Height
<1>11. \A x \in {0} \cup DOMAIN n : x # p => Height(w, x) = Height(v, x)
  BY <1>6, <1>7 DEF Height
<1>12. \A i \in DOMAIN n, x \in {1, 2} : v[i].child[x] = p => i = pp /\ x = tt
  <2>1. CASE pp = 0
    BY <1>1, <1>4, <1>6, <1>8, <2>1, OneParent
  <2>2. CASE pp # 0
    <3>1. v[pp].child[tt] = p /\ pp \in DOMAIN v
      BY <1>6, <1>8, <2>2
    <3>2. QED
      BY <1>1, <1>4, <1>6, <1>8, <3>1, OneParent
  <2>3. QED
    BY <2>1, <2>2
<1>13. \A i \in DOMAIN n, x \in {1, 2} : v[i].child[x] \in {0} \cup DOMAIN n
  BY <1>6 DEF Heap
<1>14. \A i \in DOMAIN n, x \in {1, 2} : w[i].child[x] = v[i].child[x]
  <2>1. ASSUME NEW x \in {1, 2} PROVE w[p].child[x] = v[p].child[x]
    BY <1>6, <1>7
  <2>2. QED
    BY <1>6, <1>7, <2>1
<1>15. Shape(w, r, D)
  <2>1. DOMAIN w = DOMAIN v /\ \A i \in DOMAIN v : w[i].key = v[i].key
    BY <1>6, <1>7
  <2>2. \A i \in DOMAIN v, x \in {1, 2} : w[i].child[x] = v[i].child[x]
    BY <1>6, <1>14
  <2>3. QED
    BY <1>4, <2>1, <2>2, ShapeAgree
<1>16. ASSUME NEW i \in DOMAIN n \ {p, pp} PROVE Level(w, i)
  <2>1. w[i] = v[i] /\ Level(v, i)
    BY <1>5, <1>6, <1>7
  <2>2. ASSUME NEW x \in {1, 2} PROVE w[i].height[x] = Height(w, w[i].child[x])
    <3>1. v[i].child[x] # p /\ v[i].child[x] \in {0} \cup DOMAIN n
      BY <1>12, <1>13
    <3>2. v[i].height[x] = Height(v, v[i].child[x])
      BY <2>1 DEF Level
    <3>3. QED
      BY <1>11, <2>1, <3>1, <3>2
  <2>3. QED
    BY <2>1, <2>2 DEF Level
<1>17. ASSUME NEW x \in {1, 2} PROVE w[p].height[x] = Height(w, w[p].child[x])
  <2>1. CASE x = t
    BY <1>7, <1>10, <2>1
  <2>2. CASE x # t
    <3>1. v[p].child[x] # p /\ v[p].child[x] \in {0} \cup DOMAIN n
      BY <1>4, <1>6, <1>13, NoCycle
    <3>2. v[p].height[x] = Height(v, v[p].child[x])
      BY <1>5, <2>2
    <3>3. w[p].height[x] = v[p].height[x] /\ w[p].child[x] = v[p].child[x]
      BY <1>6, <1>7, <2>2
    <3>4. QED
      BY <1>11, <3>1, <3>2, <3>3
  <2>3. QED
    BY <2>1, <2>2
<1>18. ASSUME pp # 0
       PROVE  /\ w[pp].height[tt] = hp
              /\ \A s \in {1, 2} \ {tt} : w[pp].height[s] = Height(w, w[pp].child[s])
              /\ w[pp].height[1] - w[pp].height[2] \in -1 .. 1
  <2>1. pp \in DOMAIN n \ {p} /\ w[pp] = v[pp] /\ v[pp] = n[pp]
    BY <1>6, <1>7, <1>8, <1>18
  <2>2. Level(v, pp)
    BY <1>5, <2>1
  <2>3. v[pp].height[tt] = Height(v, p)
    BY <1>8, <1>18, <2>1, <2>2 DEF Level
  <2>4. Height(v, p) = hp
    BY <1>1, <1>6 DEF Height
  <2>5. ASSUME NEW x \in {1, 2} \ {tt} PROVE w[pp].height[x] = Height(w, w[pp].child[x])
    <3>1. v[pp].child[x] # p /\ v[pp].child[x] \in {0} \cup DOMAIN n
      BY <1>12, <1>13, <2>1
    <3>2. v[pp].height[x] = Height(v, v[pp].child[x])
      BY <2>2 DEF Level
    <3>3. QED
      BY <1>11, <2>1, <3>1, <3>2
  <2>6. QED
    BY <2>1, <2>2, <2>3, <2>4, <2>5 DEF Level
<1>19. Slot(w, r, p, pp, tt)
  BY <1>7, <1>8 DEF Slot
<1>20. hp \in Nat
  BY <1>1, NodeFields
<1>21. Tilted(w, r, p, pp, tt, hp)
  BY <1>7, <1>15, <1>16, <1>17, <1>18, <1>19, <1>20 DEF Tilted
<1>22. Grown(w, p, hp)
  <2> DEFINE ot == n[p].height[t]
  <2>1. PICK o \in {1, 2} : o # t
    OBVIOUS
  <2> DEFINE b == n[p].height[o]
  <2>2. ot \in Nat /\ b \in Nat /\ n[p].height[t] = ot /\ n[p].height[o] = b
    BY <1>1, NodeFields
  <2>3. v[p].height[1] = n[p].height[1] /\ v[p].height[2] = n[p].height[2]
    BY <1>6
  <2>4. w[p].height[t] = hc /\ w[p].height[o] = b /\ hc - ot \in 0 .. 1
    BY <1>5, <1>6, <1>7, <1>10, <2>1
  <2> HIDE DEF ot, b
  <2>5. hp = 1 + (IF ot > b THEN ot ELSE b) /\ ot - b \in -1 .. 1
    BY <1>5, <2>1, <2>2, <2>3, GetHeight
  <2> HIDE DEF hp, hc
  <2>6. /\ w[p].height[t] - ot \in 0 .. 1 /\ ot - w[p].height[o] \in -1 .. 1
        /\ hp = 1 + (IF ot > w[p].height[o] THEN ot ELSE w[p].height[o])
    BY <2>4, <2>5
  <2>7. QED
    BY <2>1, <2>2, <2>6 DEF Grown
<1>23. QED
  BY <1>21, <1>22

----------------------------------------------------------------------------
\* The operations on a cache c, seen over the ORAM: a fetch changes nothing, and
\* every other operation does the same to both.
Merged(c, g, n) ==
    /\ DOMAIN n = DOMAIN c \cup DOMAIN g
    /\ \A i \in DOMAIN c : n[i] = c[i]
    /\ \A i \in DOMAIN g \ DOMAIN c : n[i] = g[i]

LEMMA OverFields ==
  ASSUME NEW c, NEW g
  PROVE  Merged(c, g, Over(c, g))
BY DEF Over, Merged

LEMMA OverSame ==
  ASSUME NEW c, NEW d, NEW g, DOMAIN c \cup DOMAIN g = DOMAIN d \cup DOMAIN g,
         \A i \in DOMAIN c \cup DOMAIN g : Over(c, g)[i] = Over(d, g)[i]
  PROVE  Over(c, g) = Over(d, g)
BY DEF Over

Put(c, id, y) == [c EXCEPT ![id] = y]

LEMMA OverPut ==
  ASSUME NEW c, NEW g, NEW id \in DOMAIN c, NEW y
  PROVE  Over(Put(c, id, y), g) = Put(Over(c, g), id, y)
BY DEF Over, Put

\* d is c after id was fetched, and the batch sees n in both.
Fetched(c, d, n, id) ==
    /\ Over(d, oram) = n
    /\ DOMAIN d = DOMAIN c \cup {id}
    /\ \A i \in DOMAIN d : d[i] = n[i]

LEMMA FetchOver ==
  ASSUME NEW c, NEW id \in DOMAIN Over(c, oram)
  PROVE  Fetched(c, Fetch(c, id), Over(c, oram), id)
<1> DEFINE d == Fetch(c, id)
           n == Over(c, oram)
<1> HIDE DEF n
<1>1. /\ DOMAIN n = DOMAIN c \cup DOMAIN oram
      /\ \A i \in DOMAIN c : n[i] = c[i]
      /\ \A i \in DOMAIN oram \ DOMAIN c : n[i] = oram[i]
      /\ id \in DOMAIN n
  BY OverFields DEF Merged, n
<1>2. DOMAIN d = DOMAIN c \cup {id} /\ \A i \in DOMAIN d : d[i] = n[i]
  <2>1. CASE id \in DOMAIN c
    BY <1>1, <2>1 DEF Fetch
  <2>2. CASE id \notin DOMAIN c
    <3> DEFINE one == [i \in {id} |-> oram[id]]
    <3>1. d = Over(c, one)
      BY <2>2 DEF Fetch
    <3>2. DOMAIN one = {id} /\ one[id] = oram[id]
      OBVIOUS
    <3> HIDE DEF one, d
    <3>3. /\ DOMAIN d = DOMAIN c \cup DOMAIN one
          /\ \A i \in DOMAIN c : d[i] = c[i]
          /\ \A i \in DOMAIN one \ DOMAIN c : d[i] = one[i]
      <4>1. Merged(c, one, d)
        BY <3>1, OverFields
      <4>2. QED
        BY <4>1 DEF Merged
    <3>4. QED
      BY <1>1, <2>2, <3>2, <3>3
  <2>3. QED
    BY <2>1, <2>2
<1> HIDE DEF d
<1>3. Over(d, oram) = n
  <2>1. /\ DOMAIN Over(d, oram) = DOMAIN d \cup DOMAIN oram
        /\ \A i \in DOMAIN d : Over(d, oram)[i] = d[i]
        /\ \A i \in DOMAIN oram \ DOMAIN d : Over(d, oram)[i] = oram[i]
    BY OverFields DEF Merged
  <2>2. DOMAIN c \cup DOMAIN oram = DOMAIN d \cup DOMAIN oram
    BY <1>1, <1>2
  <2>3. \A i \in DOMAIN c \cup DOMAIN oram : n[i] = Over(d, oram)[i]
    BY <1>1, <1>2, <2>1
  <2>4. QED
    BY <2>2, <2>3, OverSame DEF n
<1>4. QED
  BY <1>2, <1>3 DEF Fetched, d, n

KidOf(n, id, s, kid) == kid \in DOMAIN n /\ kid = n[id].child[s] /\ n[kid].id = kid

LEMMA RotateOver ==
  ASSUME NEW c, NEW id \in DOMAIN c, NEW s \in {1, 2}, NEW kid, KidOf(Over(c, oram), id, s, kid)
  PROVE  /\ Over(Rotate(c, id, s), oram) = Rotate(Over(c, oram), id, s)
         /\ DOMAIN Rotate(c, id, s) = DOMAIN c \cup {kid}
<1> DEFINE n    == Over(c, oram)
           o    == 3 - s
           d    == Fetch(c, kid)
           down == WithChild(n[id], s, n[kid].child[o], n[kid].height[o], n[kid].childrenPos[o])
           up   == WithChild(n[kid], o, id, get_height(down), down.pos_tag)
<1>0. kid \in DOMAIN n /\ kid = n[id].child[s] /\ n[kid].id = kid
  BY DEF KidOf
<1>1. Over(d, oram) = n /\ DOMAIN d = DOMAIN c \cup {kid} /\ \A i \in DOMAIN d : d[i] = n[i]
  BY <1>0, FetchOver DEF Fetched
<1> HIDE DEF n
<1>2. c[id] = n[id] /\ Fetch(n, kid) = n
  BY <1>0, OverFields DEF Fetch, Merged, n
<1>3. Rotate(n, id, s) = [n EXCEPT ![id] = down, ![kid] = up]
  BY <1>0, <1>2 DEF Rotate
<1>4. Rotate(c, id, s) = [d EXCEPT ![id] = down, ![kid] = up]
  <2>1. d[kid] = n[kid] /\ c[id].child[s] = kid
    BY <1>0, <1>1, <1>2
  <2>2. QED
    BY <1>0, <1>2, <2>1 DEF Rotate
<1> HIDE DEF d, down, up
<1> DEFINE d1 == Put(d, id, down)
           n1 == Put(n, id, down)
<1>5. Over(d1, oram) = n1
  BY <1>1, OverPut
<1>6. DOMAIN d1 = DOMAIN c \cup {kid}
  BY <1>1 DEF Put
<1>7. Rotate(c, id, s) = Put(d1, kid, up) /\ Rotate(n, id, s) = Put(n1, kid, up)
  BY <1>3, <1>4 DEF Put
<1> HIDE DEF d1, n1
<1>8. Over(Put(d1, kid, up), oram) = Put(n1, kid, up)
  BY <1>5, <1>6, OverPut
<1>9. DOMAIN Put(d1, kid, up) = DOMAIN c \cup {kid}
  BY <1>6 DEF Put
<1>10. QED
  BY <1>7, <1>8, <1>9 DEF n

\* kid and top are to go up, in the cache c.
ZigzagIn(c, id, s, o, kid, top) ==
    /\ id \in DOMAIN c /\ s \in {1, 2} /\ o \in {1, 2} /\ o # s /\ kid \in DOMAIN c
    /\ KidOf(Over(c, oram), id, s, kid) /\ KidOf(Over(c, oram), kid, o, top)

LEMMA DoubleRotateOver ==
  ASSUME NEW c, Heap(Over(c, oram)), NEW r, NEW D, Shape(Over(c, oram), r, D),
         NEW id, NEW s, NEW o, NEW kid, NEW top, ZigzagIn(c, id, s, o, kid, top)
  PROVE  /\ Over(DoubleRotate(c, id, s), oram) = DoubleRotate(Over(c, oram), id, s)
         /\ DOMAIN DoubleRotate(c, id, s) = DOMAIN c \cup {top}
<1> DEFINE n  == Over(c, oram)
           c1 == Rotate(c, kid, o)
           n1 == Rotate(n, kid, o)
           y  == WithChild(n1[id], s, top, get_height(n1[top]), n1[id].childrenPos[s])
           c2 == Put(c1, id, y)
           n2 == Put(n1, id, y)
<1>0. /\ id \in DOMAIN c /\ s \in {1, 2} /\ o \in {1, 2} /\ o # s /\ kid \in DOMAIN c
      /\ KidOf(Over(c, oram), id, s, kid) /\ KidOf(Over(c, oram), kid, o, top)
  BY SMTT(30) DEF ZigzagIn
<1> USE <1>0
<1>1. /\ Heap(n) /\ Shape(n, r, D) /\ kid = n[id].child[s] /\ top \in DOMAIN n
      /\ top = n[kid].child[o] /\ o = 3 - s
  BY TwoSides DEF KidOf
<1>2. id \in DOMAIN n /\ kid \in DOMAIN n /\ c[id] = n[id] /\ c[kid] = n[kid]
  <2>1. Merged(c, oram, n)
    BY OverFields
  <2> HIDE DEF n
  <2>2. QED
    BY <2>1 DEF Merged
<1>3. \A i \in DOMAIN n : n[i].id = i /\ i # 0
  <2> HIDE DEF n
  <2>1. \A i \in DOMAIN n : n[i] \in Node /\ n[i].id = i
    BY <1>1 DEF Heap
  <2>2. QED
    BY SMTT(30), <2>1, NodeFields
<1>4. Over(c1, oram) = n1 /\ DOMAIN c1 = DOMAIN c \cup {top}
  <2>1. /\ Over(Rotate(c, kid, o), oram) = Rotate(Over(c, oram), kid, o)
        /\ DOMAIN Rotate(c, kid, o) = DOMAIN c \cup {top}
    BY RotateOver
  <2>2. QED
    BY <2>1
<1> HIDE DEF n, c1, n1
<1>5. Turned(n, n1, Hook(n1, id, s, top), kid, top, o, s, id, s)
  <2>1. Slot(n, r, kid, id, s) /\ s # o /\ top # 0
    BY <1>1, <1>2, <1>3 DEF Slot
  <2>2. LET m == Rotate(n, kid, o)
            v == Hook(m, id, s, top)
        IN  /\ Turned(n, m, v, kid, top, o, s, id, s)
            /\ \E E : Shape(v, IF id = 0 THEN top ELSE r, E)
    BY <1>1, <1>2, <2>1, RotateUnder
  <2>3. QED
    BY <2>2 DEF n1
<1>6. Heap(n1) /\ DOMAIN n1 = DOMAIN n /\ id # top /\ id # kid
  BY <1>5 DEF Turned
<1>7. c1[id] = n1[id] /\ c1[top] = n1[top]
  <2>1. Merged(c1, oram, n1)
    BY <1>4, OverFields
  <2>2. QED
    BY <1>4, <2>1 DEF Merged
<1>8. Over(c2, oram) = n2 /\ DOMAIN c2 = DOMAIN c \cup {top}
  <2> HIDE DEF y
  <2>1. Over(c2, oram) = n2
    BY <1>4, OverPut
  <2>2. DOMAIN c2 = DOMAIN c \cup {top}
    BY <1>4 DEF Put
  <2>3. QED
    BY <2>1, <2>2
<1>9. Relinked(n1, n2, id, s, top, get_height(n1[top]))
  <2> DEFINE h   == get_height(n1[top])
             tag == n1[id].childrenPos[s]
  <2>1. n1[id] \in Node /\ n1[top] \in Node
    BY <1>1, <1>2, <1>6 DEF Heap
  <2>2. h \in Nat /\ tag \in Tag
    BY <2>1, NodeFields
  <2> HIDE DEF h, tag
  <2>3. y = WithChild(n1[id], s, top, h, tag)
    BY DEF h, tag
  <2> HIDE DEF y
  <2>4. DOMAIN n2 = DOMAIN n1 /\ n2[id] = y /\ \A i \in DOMAIN n1 \ {id} : n2[i] = n1[i]
    BY <1>2, <1>6 DEF Put
  <2> HIDE DEF n2
  <2>5. Swapped(n1, n2, id, WithChild(n1[id], s, top, h, tag))
    BY <2>3, <2>4 DEF Swapped
  <2>6. id \in DOMAIN n1 /\ top \in {0} \cup DOMAIN n1
    BY <1>1, <1>2, <1>6
  <2>7. Relinked(n1, n2, id, s, top, h)
    BY SMTT(30), <1>6, <2>2, <2>5, <2>6, Relink
  <2>8. QED
    BY <2>7 DEF h
<1>10. DoubleRotate(c, id, s) = Rotate(c2, id, s)
  BY <1>1, <1>2, <1>7 DEF DoubleRotate, c1, Put
<1>11. DoubleRotate(n, id, s) = Rotate(n2, id, s)
  BY <1>1, <1>2 DEF DoubleRotate, n1, Put
<1> HIDE DEF c2, n2
<1>12. /\ Over(Rotate(c2, id, s), oram) = Rotate(n2, id, s)
       /\ DOMAIN Rotate(c2, id, s) = DOMAIN c2 \cup {top}
  <2>1. Heap(n2) /\ DOMAIN n2 = DOMAIN n /\ n2[id].child[s] = top
    BY <1>6, <1>9 DEF Relinked
  <2>2. n2[top].id = top
    BY <1>1, <2>1 DEF Heap
  <2>3. id \in DOMAIN c2 /\ KidOf(Over(c2, oram), id, s, top)
    BY <1>1, <1>8, <2>1, <2>2 DEF KidOf
  <2>4. QED
    <3>1. /\ Over(Rotate(c2, id, s), oram) = Rotate(Over(c2, oram), id, s)
          /\ DOMAIN Rotate(c2, id, s) = DOMAIN c2 \cup {top}
      BY <2>3, RotateOver
    <3>2. QED
      BY <1>8, <3>1
<1>13. QED
  BY <1>8, <1>10, <1>11, <1>12 DEF n

\* balance on the cache does what it does on all the nodes, and the node it
\* returns is in the cache.
Balanced(c, p) ==
    LET b == balance(c, p)
        m == balance(Over(c, oram), p)
    IN  Over(b.cache, oram) = m.cache /\ b.top = m.top /\ m.top \in DOMAIN b.cache
        /\ DOMAIN c \subseteq DOMAIN b.cache
        /\ b.reads \in Nat /\ b.writes \in Nat

\* Balancing the cache is balancing the cache over the ORAM.
LEMMA BalanceOver ==
  ASSUME NEW c, NEW r, NEW p \in DOMAIN c, NEW pp, NEW tt, NEW old,
         Tilted(Over(c, oram), r, p, pp, tt, old)
  PROVE  Balanced(c, p)
<1> DEFINE n == Over(c, oram)
           heavy == {s \in {1, 2} : n[p].height[s] - n[p].height[3 - s] > 1}
<1>1. /\ Heap(n) /\ p \in DOMAIN n /\ Slot(n, r, p, pp, tt)
      /\ \A i \in DOMAIN n \ {p, pp} : Level(n, i)
      /\ \A x \in {1, 2} : n[p].height[x] = Height(n, n[p].child[x])
  BY DEF Tilted, Slot
<1>2. PICK D : Shape(n, r, D)
  BY DEF Tilted
<1>3. c[p] = n[p]
  BY OverFields DEF Merged
<1> HIDE DEF n
<1>4. heavy = {s \in {1, 2} : c[p].height[s] - c[p].height[3 - s] > 1}
  BY <1>3
<1>5. CASE heavy = {}
  <2>1. balance(n, p) = [cache |-> n, top |-> p, reads |-> 1, writes |-> 0]
    BY <1>5 DEF balance
  <2>2. balance(c, p) = [cache |-> c, top |-> p, reads |-> 1, writes |-> 0]
    BY <1>4, <1>5 DEF balance
  <2>3. QED
    BY <2>1, <2>2 DEF Balanced, n
<1>6. CASE heavy # {}
  <2> DEFINE s   == CHOOSE x \in heavy : TRUE
             o   == 3 - s
             kid == n[p].child[s]
             c1  == Fetch(c, kid)
  <2>1. s \in {1, 2} /\ n[p].height[s] - n[p].height[3 - s] > 1
    BY <1>6
  <2>2. o \in {1, 2} /\ o # s
    <3> HIDE DEF s
    <3>1. QED
      BY <2>1
  <2>3. kid \in DOMAIN n /\ kid # p /\ kid # pp
    <3> HIDE DEF s
    <3>1. n[p] \in Node
      BY <1>1 DEF Heap
    <3>2. n[p].height[s] \in Nat /\ n[p].height[o] \in Nat
      BY <2>1, <2>2, <3>1, NodeFields
    <3>3. n[p].height[s] # 0
      BY <2>1, <3>2
    <3>4. Height(n, kid) # 0
      BY <1>1, <2>1, <3>3
    <3>5. kid # 0
      BY SMTT(30), <3>4 DEF Height
    <3>6. QED
      BY <1>1, <1>2, <2>1, <3>5, KidSlot
  <2>4. Over(c1, oram) = n /\ DOMAIN c1 = DOMAIN c \cup {kid} /\ \A i \in DOMAIN c1 : c1[i] = n[i]
    BY <2>3, FetchOver DEF Fetched, n
  <2>5. Fetch(n, kid) = n
    BY <2>3 DEF Fetch
  <2>6. balance(n, p) =
           IF n[kid].height[s] >= n[kid].height[o]
           THEN [cache |-> Rotate(n, p, s), top |-> kid, reads |-> 4, writes |-> 2]
           ELSE [cache |-> DoubleRotate(n, p, s), top |-> n[kid].child[o],
                 reads |-> 7, writes |-> 5]
    BY <1>6, <2>5 DEF balance
  <2>7. balance(c, p) =
           IF n[kid].height[s] >= n[kid].height[o]
           THEN [cache |-> Rotate(c1, p, s), top |-> kid, reads |-> 4, writes |-> 2]
           ELSE [cache |-> DoubleRotate(c1, p, s), top |-> n[kid].child[o],
                 reads |-> 7, writes |-> 5]
    <3>1. c1[kid] = n[kid]
      BY <2>4
    <3>2. QED
      BY <1>3, <1>4, <1>6, <3>1 DEF balance
  <2> HIDE DEF s, o, kid, c1
  <2>8. CASE n[kid].height[s] >= n[kid].height[o]
    <3>1. /\ balance(n, p).cache = Rotate(n, p, s) /\ balance(n, p).top = kid
          /\ balance(c, p).cache = Rotate(c1, p, s) /\ balance(c, p).top = kid
          /\ balance(c, p).reads \in Nat /\ balance(c, p).writes \in Nat
      BY <2>6, <2>7, <2>8
    <3>2. KidOf(Over(c1, oram), p, s, kid) /\ p \in DOMAIN c1
      BY <1>1, <2>3, <2>4 DEF kid, Heap, KidOf
    <3>3. /\ Over(Rotate(c1, p, s), oram) = Rotate(n, p, s)
          /\ DOMAIN Rotate(c1, p, s) = DOMAIN c1 \cup {kid}
      <4>1. /\ Over(Rotate(c1, p, s), oram) = Rotate(Over(c1, oram), p, s)
            /\ DOMAIN Rotate(c1, p, s) = DOMAIN c1 \cup {kid}
        BY <2>1, <3>2, RotateOver
      <4>2. QED
        BY <2>4, <4>1
    <3>4. QED
      BY <2>4, <3>1, <3>3 DEF Balanced, n
  <2>9. CASE ~(n[kid].height[s] >= n[kid].height[o])
    <3> DEFINE top == n[kid].child[o]
    <3>1. /\ balance(n, p).cache = DoubleRotate(n, p, s) /\ balance(n, p).top = top
          /\ balance(c, p).cache = DoubleRotate(c1, p, s) /\ balance(c, p).top = top
          /\ balance(c, p).reads \in Nat /\ balance(c, p).writes \in Nat
      BY <2>6, <2>7, <2>9
    <3>2. p \in DOMAIN c1 /\ kid \in DOMAIN c1 /\ KidOf(n, p, s, kid)
      BY <1>1, <2>3, <2>4 DEF kid, Heap, KidOf
    <3>3. top \in DOMAIN n
      <4>1. n[kid] \in Node /\ top \in {0} \cup DOMAIN n
        BY <1>1, <2>2, <2>3 DEF Heap
      <4>2. n[kid].height[s] \in Nat /\ n[kid].height[o] \in Nat
        BY <2>1, <2>2, <4>1, NodeFields
      <4>3. n[kid].height[o] # 0
        BY <2>9, <4>2
      <4>4. n[kid].height[o] = Height(n, top)
        BY <1>1, <2>2, <2>3 DEF Level
      <4>5. top # 0
        BY <4>3, <4>4 DEF Height
      <4>6. QED
        BY <4>1, <4>5
    <3>4. KidOf(n, kid, o, top)
      BY <1>1, <3>3 DEF Heap, KidOf
    <3> HIDE DEF top
    <3>5. /\ Over(DoubleRotate(c1, p, s), oram) = DoubleRotate(n, p, s)
          /\ DOMAIN DoubleRotate(c1, p, s) = DOMAIN c1 \cup {top}
      <4>1. /\ Heap(Over(c1, oram)) /\ Shape(Over(c1, oram), r, D)
            /\ ZigzagIn(c1, p, s, o, kid, top)
        BY <1>1, <1>2, <2>1, <2>2, <2>4, <3>2, <3>4 DEF ZigzagIn
      <4>2. /\ Over(DoubleRotate(c1, p, s), oram) = DoubleRotate(Over(c1, oram), p, s)
            /\ DOMAIN DoubleRotate(c1, p, s) = DOMAIN c1 \cup {top}
        BY <4>1, DoubleRotateOver
      <4>3. QED
        BY <2>4, <4>2
    <3>6. QED
      BY <2>4, <3>1, <3>5 DEF Balanced, n
  <2>10. QED
    BY <2>8, <2>9
<1>7. QED
  BY <1>5, <1>6

----------------------------------------------------------------------------
\* fr are nodes of n from its root r downwards, towards the key k.
Path(n, fr, r, k) ==
    /\ fr \in Seq(Node)
    /\ \A m \in 1 .. Len(fr) : fr[m].id \in DOMAIN n /\ n[fr[m].id] = fr[m]
    /\ \A l, m \in 1 .. Len(fr) : l < m => get_height(fr[l]) > get_height(fr[m])
    /\ fr # <<>> => fr[1].id = r
    /\ \A m \in 1 .. Len(fr) - 1 :
          fr[m].key # k /\ fr[m + 1].id = fr[m].child[Side(fr[m], k)]

LEMMA SideIs ==
  ASSUME NEW x \in Node, NEW k \in Nat, x.key # k
  PROVE  Side(x, k) \in {1, 2} /\ On(Side(x, k), k, x.key) /\ 3 - Side(x, k) \in {1, 2}
<1>1. x.key \in Nat
  BY NodeFields
<1>2. QED
  BY <1>1 DEF Side, On

\* The nodes of a path are different, and only the one before is a node's parent.
LEMMA PathParent ==
  ASSUME NEW n, Heap(n), NEW r, NEW D, Shape(n, r, D), NEW k \in Nat, NEW fr, Path(n, fr, r, k),
         NEW l \in 1 .. Len(fr)
  PROVE  /\ \A m \in 1 .. Len(fr) : fr[m].id = fr[l].id => m = l
         /\ \A i \in DOMAIN n, x \in {1, 2} :
               n[i].child[x] = fr[l].id => l > 1 /\ i = fr[l - 1].id /\ x = Side(fr[l - 1], k)
<1>1. /\ fr \in Seq(Node) /\ Len(fr) \in Nat
      /\ \A m \in 1 .. Len(fr) : fr[m] \in Node /\ fr[m].id \in DOMAIN n /\ n[fr[m].id] = fr[m]
      /\ \A a, m \in 1 .. Len(fr) : a < m => get_height(fr[a]) > get_height(fr[m])
      /\ fr # <<>> => fr[1].id = r
      /\ \A m \in 1 .. Len(fr) - 1 :
            fr[m].key # k /\ fr[m + 1].id = fr[m].child[Side(fr[m], k)]
  BY DEF Path
<1>2. ASSUME NEW m \in 1 .. Len(fr), fr[m].id = fr[l].id PROVE m = l
  <2>1. fr[m] = fr[l] /\ get_height(fr[l]) \in Nat /\ m \in Nat /\ l \in Nat
    BY <1>1, <1>2, NodeFields
  <2>2. ~(m < l) /\ ~(l < m)
    <3>1. ~(get_height(fr[l]) > get_height(fr[l]))
      BY <2>1
    <3>2. QED
      BY <1>1, <1>2, <2>1, <3>1
  <2>3. QED
    BY <2>1, <2>2
<1>3. ASSUME NEW i \in DOMAIN n, NEW x \in {1, 2}, n[i].child[x] = fr[l].id
      PROVE  l > 1 /\ i = fr[l - 1].id /\ x = Side(fr[l - 1], k)
  <2>1. fr[l].id \in DOMAIN n /\ fr[l].id # 0
    <3>1. fr[l] \in Node
      BY <1>1
    <3>2. QED
      BY <1>1, <3>1, NodeFields
  <2>2. fr[l].id # r
    BY <1>3, <2>1, OneParent
  <2>3. fr # <<>>
    BY <1>1
  <2>4. l # 1
    BY <1>1, <2>2, <2>3
  <2> DEFINE q == l - 1
  <2>5. q \in 1 .. Len(fr) - 1 /\ q \in 1 .. Len(fr) /\ q + 1 = l /\ l > 1
    BY <1>1, <2>4
  <2> HIDE DEF q
  <2>6. /\ fr[q] \in Node /\ fr[q].id \in DOMAIN n /\ n[fr[q].id] = fr[q] /\ fr[q].key # k
        /\ fr[l].id = fr[q].child[Side(fr[q], k)]
    BY <1>1, <2>5
  <2>7. Side(fr[q], k) \in {1, 2} /\ n[fr[q].id].child[Side(fr[q], k)] = n[i].child[x]
    BY <1>3, <2>6, SideIs
  <2>8. n[i].child[x] # 0
    BY <1>3, <2>1
  <2>9. fr[q].id = i /\ Side(fr[q], k) = x
    <3> DEFINE j == fr[q].id
               y == Side(fr[q], k)
    <3>1. j \in DOMAIN n /\ y \in {1, 2} /\ n[j].child[y] = n[i].child[x]
      BY <2>6, <2>7
    <3> HIDE DEF j, y
    <3>2. j = i /\ y = x
      BY <2>8, <3>1, OneParent
    <3>3. QED
      BY <3>2 DEF j, y
  <2>10. QED
    BY <2>5, <2>9 DEF q
<1>4. QED
  BY <1>2, <1>3


\* Where a call goes on from the path fr, and the slot it comes back to.
Target(fr, r, k) == IF fr = <<>> THEN r ELSE fr[Len(fr)].child[Side(fr[Len(fr)], k)]
Above(fr)        == IF fr = <<>> THEN 0 ELSE fr[Len(fr)].id
Turn(fr, k)      == IF fr = <<>> THEN 1 ELSE Side(fr[Len(fr)], k)

Passed(fr, k) == fr # <<>> => fr[Len(fr)].key # k

\* n2 is n with the new node x.
Added(n, n2, x) ==
    /\ DOMAIN n2 = DOMAIN n \cup {x.id} /\ n2[x.id] = x
    /\ \A i \in DOMAIN n : n2[i] = n[i]

LEMMA AddedHeap ==
  ASSUME NEW n, Heap(n), NEW k \in Nat, NEW x \in Node, x = NewNode(x.id, k),
         NEW n2, Added(n, n2, x)
  PROVE  Heap(n2) /\ \A s \in {1, 2} : x.child[s] = 0 /\ x.height[s] = 0
<1>1. \A s \in {1, 2} : x.child[s] = 0 /\ x.height[s] = 0
  BY DEF NewNode
<1>2. QED
  BY <1>1 DEF Heap, Added

\* The descendants once id is below all nodes of F.
Widened(D, F, id) ==
    [i \in DOMAIN D \cup {id} |-> IF i = id THEN {id} ELSE IF i \in F THEN D[i] \cup {id} ELSE D[i]]

\* How the path F through n is hooked to the new node id: v is n with id, as the child
\* on side t of p, and D the descendants in n.
Grafted(n, v, D, F, p, t, id, k) ==
    /\ DOMAIN v = DOMAIN n \cup {id} /\ id \notin DOMAIN n /\ id # 0 /\ v[id].key = k
    /\ \A s \in {1, 2} : v[id].child[s] = 0
    /\ F \subseteq DOMAIN n /\ p \in F /\ t \in {1, 2} /\ 0 \notin DOMAIN n
    /\ \A i \in DOMAIN n : v[i].key = n[i].key
    /\ \A i \in DOMAIN n, s \in {1, 2} :
          /\ n[i].child[s] \in {0} \cup DOMAIN n
          /\ v[i].child[s] = IF i = p /\ s = t THEN id ELSE n[i].child[s]
          /\ n[i].child[s] \in F => i \in F
          /\ n[i].child[s] \in F \/ (i = p /\ s = t) => On(s, k, n[i].key)
    /\ \A i \in F : i = p \/ \E s \in {1, 2} : n[i].child[s] \in F
    /\ n[p].child[t] = 0

\* A new node in an empty slot extends the search tree.
LEMMA GraftedShape ==
  ASSUME NEW n, NEW v, NEW r, NEW D, Shape(n, r, D), NEW F, NEW p, NEW t, NEW id, NEW k,
         Grafted(n, v, D, F, p, t, id, k), r \in F
  PROVE  Shape(v, r, Widened(D, F, id))
<1> DEFINE E == Widened(D, F, id)
<1>1. /\ D \in [{0} \cup DOMAIN n -> SUBSET DOMAIN n] /\ D[0] = {} /\ D[r] = DOMAIN n
      /\ \A i \in DOMAIN n :
          /\ D[i] = {i} \cup D[n[i].child[1]] \cup D[n[i].child[2]]
          /\ \A s \in {1, 2} : \A j \in D[n[i].child[s]] : On(s, n[j].key, n[i].key)
      /\ \A i \in DOMAIN n, s \in {1, 2} :
          n[i].child[s] # 0 =>
             /\ n[i].child[s] # r
             /\ \A j \in DOMAIN n, tt \in {1, 2} :
                   n[j].child[tt] = n[i].child[s] => j = i /\ tt = s
  BY DEF Shape
<1>2. /\ DOMAIN v = DOMAIN n \cup {id} /\ id \notin DOMAIN n /\ id # 0 /\ v[id].key = k
      /\ \A s \in {1, 2} : v[id].child[s] = 0
      /\ F \subseteq DOMAIN n /\ p \in F /\ t \in {1, 2} /\ 0 \notin DOMAIN n
      /\ \A i \in DOMAIN n : v[i].key = n[i].key
      /\ \A i \in DOMAIN n, s \in {1, 2} :
            /\ n[i].child[s] \in {0} \cup DOMAIN n
            /\ v[i].child[s] = IF i = p /\ s = t THEN id ELSE n[i].child[s]
            /\ n[i].child[s] \in F => i \in F
            /\ n[i].child[s] \in F \/ (i = p /\ s = t) => On(s, k, n[i].key)
      /\ \A i \in F : i = p \/ \E s \in {1, 2} : n[i].child[s] \in F
      /\ n[p].child[t] = 0
  BY DEF Grafted
<1>3. /\ DOMAIN E = {0, id} \cup DOMAIN n /\ E[id] = {id} /\ E[0] = {}
      /\ \A i \in F : E[i] = D[i] \cup {id}
      /\ \A i \in DOMAIN n \ F : E[i] = D[i]
  BY <1>1, <1>2 DEF Widened
<1> HIDE DEF E
<1>4. E \in [{0} \cup DOMAIN v -> SUBSET DOMAIN v]
  <2>1. E = [i \in DOMAIN E |-> E[i]]
    BY DEF E, Widened
  <2>2. \A i \in DOMAIN E : E[i] \in SUBSET DOMAIN v
    BY <1>1, <1>2, <1>3
  <2>3. DOMAIN E = {0} \cup DOMAIN v
    BY <1>2, <1>3
  <2>4. QED
    BY <2>1, <2>2, <2>3
<1>5. E[r] = DOMAIN v
  BY <1>1, <1>2, <1>3
<1>6. ASSUME NEW i \in DOMAIN n, NEW s \in {1, 2}
      PROVE  /\ v[i].child[s] \in F \/ (i = p /\ s = t) => E[v[i].child[s]] = D[n[i].child[s]] \cup {id}
             /\ ~(v[i].child[s] \in F \/ (i = p /\ s = t)) =>
                   /\ E[v[i].child[s]] = D[n[i].child[s]]
                   /\ v[i].child[s] = n[i].child[s]
  <2>1. CASE i = p /\ s = t
    <3>1. v[i].child[s] = id /\ n[i].child[s] = 0
      BY <1>2, <2>1
    <3>2. E[v[i].child[s]] = {id} /\ D[n[i].child[s]] = {}
      BY <1>1, <1>3, <3>1
    <3>3. QED
      BY <2>1, <3>2
  <2>2. CASE ~(i = p /\ s = t)
    <3>1. v[i].child[s] = n[i].child[s] /\ n[i].child[s] \in {0} \cup DOMAIN n
      BY <1>2, <2>2
    <3> DEFINE c == n[i].child[s]
    <3> HIDE DEF c
    <3>2. c \in F => E[c] = D[c] \cup {id}
      BY <1>3
    <3>3. c \in {0} \cup DOMAIN n /\ c \notin F => E[c] = D[c]
      BY <1>1, <1>3
    <3>4. QED
      BY <2>2, <3>1, <3>2, <3>3 DEF c
  <2>3. QED
    BY <2>1, <2>2
<1>7. ASSUME NEW i \in DOMAIN v
      PROVE  E[i] = {i} \cup E[v[i].child[1]] \cup E[v[i].child[2]]
  <2>1. CASE i = id
    BY SMTT(30), <1>2, <1>3, <2>1
  <2>2. CASE i \in F
    <3>1. E[i] = D[i] \cup {id}
      BY <1>3, <2>2
    <3>2. \E s \in {1, 2} : v[i].child[s] \in F \/ (i = p /\ s = t)
      <4>1. CASE i = p
        BY <1>2, <4>1
      <4>2. CASE i # p
        <5>1. PICK s \in {1, 2} : n[i].child[s] \in F
          BY <1>2, <2>2, <4>2
        <5>2. v[i].child[s] = n[i].child[s]
          BY <1>2, <2>2, <4>2
        <5>3. QED
          BY <5>1, <5>2
      <4>3. QED
        BY <4>1, <4>2
    <3>3. D[i] = {i} \cup D[n[i].child[1]] \cup D[n[i].child[2]]
      BY <1>1, <1>2, <2>2
    <3>4. \A s \in {1, 2} : \/ E[v[i].child[s]] = D[n[i].child[s]]
                            \/ E[v[i].child[s]] = D[n[i].child[s]] \cup {id}
      <4>1. i \in DOMAIN n
        BY <1>2, <2>2
      <4>2. QED
        BY <1>6, <4>1
    <3>5. \E s \in {1, 2} : E[v[i].child[s]] = D[n[i].child[s]] \cup {id}
      <4>1. i \in DOMAIN n
        BY <1>2, <2>2
      <4>2. QED
        BY <1>6, <3>2, <4>1
    <3>6. QED
      BY <3>1, <3>3, <3>4, <3>5
  <2>3. CASE i \in DOMAIN n \ F
    <3>1. \A s \in {1, 2} : E[v[i].child[s]] = D[n[i].child[s]]
      BY <1>2, <1>6, <2>3
    <3>2. QED
      BY <1>1, <1>3, <2>3, <3>1
  <2>4. QED
    BY <1>2, <2>1, <2>2, <2>3
<1>8. ASSUME NEW i \in DOMAIN v, NEW s \in {1, 2}, NEW j \in E[v[i].child[s]]
      PROVE  On(s, v[j].key, v[i].key)
  <2>1. CASE i = id
    BY <1>2, <1>3, <2>1
  <2>2. CASE i # id
    <3>1. i \in DOMAIN n
      BY <1>2, <2>2
    <3>2. CASE j \in D[n[i].child[s]]
      <4>1. j \in DOMAIN n
        BY <1>1, <1>2, <3>1, <3>2
      <4>2. QED
        BY <1>1, <1>2, <3>1, <3>2, <4>1
    <3>3. CASE j \notin D[n[i].child[s]]
      <4>1. j = id /\ (v[i].child[s] \in F \/ (i = p /\ s = t))
        BY <1>6, <3>1, <3>3
      <4>2. n[i].child[s] \in F \/ (i = p /\ s = t)
        BY <1>2, <3>1, <4>1
      <4>3. QED
        BY <1>2, <3>1, <4>1, <4>2
    <3>4. QED
      BY <3>2, <3>3
  <2>3. QED
    BY <2>1, <2>2
<1>9. ASSUME NEW i \in DOMAIN v, NEW s \in {1, 2}, v[i].child[s] # 0
      PROVE  /\ v[i].child[s] # r
             /\ \A j \in DOMAIN v, x \in {1, 2} : v[j].child[x] = v[i].child[s] => j = i /\ x = s
  <2>1. i \in DOMAIN n
    BY <1>2, <1>9
  <2>2. CASE i = p /\ s = t
    BY <1>2, <2>1, <2>2
  <2>3. CASE ~(i = p /\ s = t)
    <3>1. v[i].child[s] = n[i].child[s] /\ n[i].child[s] # id
      BY <1>2, <2>1, <2>3
    <3>2. n[i].child[s] # 0
      BY <1>9, <3>1
    <3>3. /\ n[i].child[s] # r
          /\ \A j \in DOMAIN n, x \in {1, 2} : n[j].child[x] = n[i].child[s] => j = i /\ x = s
      BY <1>1, <2>1, <3>2
    <3>4. ASSUME NEW j \in DOMAIN v, NEW x \in {1, 2}, v[j].child[x] = v[i].child[s] PROVE j = i /\ x = s
      <4>1. j # id
        BY <1>2, <3>1, <3>2, <3>4
      <4>2. j \in DOMAIN n /\ n[j].child[x] = n[i].child[s]
        BY <1>2, <3>1, <3>4, <4>1
      <4>3. QED
        BY <3>3, <4>2
    <3>5. QED
      BY <3>1, <3>3, <3>4
  <2>4. QED
    BY <2>2, <2>3
<1>10. r \in {0} \cup DOMAIN v /\ E[0] = {}
  BY <1>2, <1>3
<1>11. Shape(v, r, E)
  BY <1>4, <1>5, <1>7, <1>8, <1>9, <1>10 DEF Shape
<1>12. QED
  BY <1>11 DEF E

\* fr is a path to the empty slot for the new node x.
Open(n, r, D, fr, k, x) ==
    /\ Heap(n) /\ Shape(n, r, D) /\ \A i \in DOMAIN n : Level(n, i)
    /\ Path(n, fr, r, k) /\ Passed(fr, k) /\ Target(fr, r, k) = 0
    /\ x \in Node /\ x = NewNode(x.id, k) /\ x.id \notin DOMAIN n

LEMMA PathEnd ==
  ASSUME NEW n, NEW r, NEW D, NEW k \in Nat, NEW fr, NEW x, Open(n, r, D, fr, k, x), fr # <<>>
  PROVE  /\ Len(fr) \in 1 .. Len(fr) /\ fr[Len(fr)].key # k
         /\ Above(fr) \in DOMAIN n /\ Turn(fr, k) \in {1, 2}
         /\ Above(fr) = fr[Len(fr)].id /\ Turn(fr, k) = Side(fr[Len(fr)], k)
         /\ n[Above(fr)] = fr[Len(fr)] /\ fr[Len(fr)] \in Node
         /\ n[Above(fr)].child[Turn(fr, k)] = 0
<1>1. fr \in Seq(Node) /\ \A m \in 1 .. Len(fr) : fr[m].id \in DOMAIN n /\ n[fr[m].id] = fr[m]
  BY DEF Open, Path
<1>2. Len(fr) \in 1 .. Len(fr)
  BY <1>1
<1>3. fr[Len(fr)] \in Node /\ fr[Len(fr)].key # k /\ fr[Len(fr)].child[Side(fr[Len(fr)], k)] = 0
  BY <1>1, <1>2 DEF Open, Passed, Target
<1>4. Side(fr[Len(fr)], k) \in {1, 2}
  BY <1>3, SideIs
<1>5. Above(fr) = fr[Len(fr)].id /\ Turn(fr, k) = Side(fr[Len(fr)], k)
  BY DEF Above, Turn
<1>6. QED
  BY <1>1, <1>2, <1>3, <1>4, <1>5

\* A new node at the end of its path grafts the search tree.
LEMMA PathGraft ==
  ASSUME NEW n, NEW r, NEW D, NEW k \in Nat, NEW fr, NEW x, Open(n, r, D, fr, k, x), fr # <<>>,
         NEW n2, Added(n, n2, x), NEW v, Hooked(n2, v, Above(fr), Turn(fr, k), x.id)
  PROVE  Grafted(n, v, D, {fr[m].id : m \in 1 .. Len(fr)}, Above(fr), Turn(fr, k), x.id, k)
<1> DEFINE F == {fr[m].id : m \in 1 .. Len(fr)}
           p == Above(fr)
           t == Turn(fr, k)
           id == x.id
           last == fr[Len(fr)]
<1>1. /\ Heap(n) /\ Shape(n, r, D) /\ Path(n, fr, r, k) /\ x \in Node /\ id \notin DOMAIN n
      /\ x = NewNode(id, k)
  BY DEF Open
<1>2. /\ Len(fr) \in 1 .. Len(fr) /\ last.key # k /\ p \in DOMAIN n /\ t \in {1, 2}
      /\ p = last.id /\ t = Side(last, k) /\ n[p] = last /\ last \in Node /\ n[p].child[t] = 0
  BY PathEnd
<1>3. /\ fr \in Seq(Node) /\ Len(fr) \in Nat
      /\ \A m \in 1 .. Len(fr) : fr[m] \in Node /\ fr[m].id \in DOMAIN n /\ n[fr[m].id] = fr[m]
      /\ \A m \in 1 .. Len(fr) - 1 :
            fr[m].key # k /\ fr[m + 1].id = fr[m].child[Side(fr[m], k)]
  BY <1>1 DEF Path
<1>4. /\ DOMAIN n2 = DOMAIN n \cup {id} /\ n2[id] = x /\ \A i \in DOMAIN n : n2[i] = n[i]
  BY DEF Added
<1>5. /\ DOMAIN v = DOMAIN n2
      /\ \A i \in DOMAIN n2 \ {p} : v[i] = n2[i]
      /\ \A i \in DOMAIN n2 : v[i].key = n2[i].key
      /\ v[p].child[t] = id
      /\ \A s \in {1, 2} : s # t => v[p].child[s] = n2[p].child[s]
  BY DEF Hooked
<1>6. id # 0 /\ x.key = k /\ \A s \in {1, 2} : x.child[s] = 0
  BY <1>1, NodeFields DEF NewNode
<1>7. 0 \notin DOMAIN n /\ \A i \in DOMAIN n, s \in {1, 2} : n[i].child[s] \in {0} \cup DOMAIN n
  BY <1>1, NodeFields DEF Heap
<1> HIDE DEF p, t, id, last
<1>8. F \subseteq DOMAIN n /\ p \in F
  BY <1>2, <1>3 DEF last
<1>9. ASSUME NEW i \in DOMAIN n, NEW s \in {1, 2}, n[i].child[s] \in F
      PROVE  i \in F /\ On(s, k, n[i].key)
  <2>1. PICK l \in 1 .. Len(fr) : fr[l].id = n[i].child[s]
    BY <1>9
  <2>2. l > 1 /\ i = fr[l - 1].id /\ s = Side(fr[l - 1], k)
    BY <1>1, <2>1, PathParent
  <2> DEFINE q == l - 1
  <2>3. q \in 1 .. Len(fr) /\ q \in 1 .. Len(fr) - 1 /\ i = fr[q].id /\ s = Side(fr[q], k)
    BY <1>3, <2>1, <2>2
  <2> HIDE DEF q
  <2>4. fr[q] \in Node /\ fr[q].key # k /\ n[i] = fr[q] /\ i \in F
    BY <1>3, <2>3
  <2>5. QED
    BY <2>3, <2>4, SideIs
<1>10. On(t, k, n[p].key)
  BY <1>2, SideIs
<1>11. ASSUME NEW i \in F, i # p PROVE \E s \in {1, 2} : n[i].child[s] \in F
  <2>1. PICK m \in 1 .. Len(fr) : i = fr[m].id
    OBVIOUS
  <2>2. m # Len(fr)
    BY <1>2, <1>11, <2>1 DEF last
  <2>3. m \in 1 .. Len(fr) - 1 /\ m + 1 \in 1 .. Len(fr)
    BY <1>3, <2>1, <2>2
  <2>4. n[i] = fr[m] /\ fr[m] \in Node /\ fr[m].key # k /\ fr[m + 1].id = fr[m].child[Side(fr[m], k)]
    BY <1>3, <2>1, <2>3
  <2>5. Side(fr[m], k) \in {1, 2}
    BY <2>4, SideIs
  <2>6. fr[m + 1].id \in F
    BY <2>3
  <2>7. QED
    BY <2>4, <2>5, <2>6
<1> HIDE DEF F
<1>12. ASSUME NEW i \in DOMAIN n, NEW s \in {1, 2}
       PROVE  v[i].child[s] = IF i = p /\ s = t THEN id ELSE n[i].child[s]
  BY <1>1, <1>2, <1>4, <1>5
<1>13. /\ DOMAIN v = DOMAIN n \cup {id} /\ v[id].key = k /\ \A s \in {1, 2} : v[id].child[s] = 0
       /\ \A i \in DOMAIN n : v[i].key = n[i].key
  <2>1. id # p
    BY <1>1, <1>2
  <2>2. QED
    BY <1>4, <1>5, <1>6, <2>1
<1>14. Grafted(n, v, D, F, p, t, id, k)
  BY <1>1, <1>2, <1>6, <1>7, <1>8, <1>9, <1>10, <1>11, <1>12, <1>13 DEF Grafted
<1>15. QED
  BY <1>14 DEF F, p, t, id

\* A new node at the open end of its path leaves a tree that is only loose there.
LEMMA AttachLoose ==
  ASSUME NEW n, NEW r, NEW D, NEW k \in Nat, NEW fr, NEW x, Open(n, r, D, fr, k, x),
         NEW n2, Added(n, n2, x)
  PROVE  /\ Heap(n2) /\ Path(n2, fr, r, k)
         /\ Loose(n2, r, Above(fr), Turn(fr, k), x.id)
<1> DEFINE p == Above(fr)
           t == Turn(fr, k)
           id == x.id
           v == Hook(n2, p, t, id)
<1>1. /\ Heap(n) /\ Shape(n, r, D) /\ Path(n, fr, r, k) /\ x \in Node /\ id \notin DOMAIN n
      /\ x = NewNode(id, k) /\ \A i \in DOMAIN n : Level(n, i)
  BY DEF Open
<1>2. /\ DOMAIN n2 = DOMAIN n \cup {id} /\ n2[id] = x /\ \A i \in DOMAIN n : n2[i] = n[i]
  BY DEF Added
<1>3. Heap(n2) /\ \A s \in {1, 2} : x.child[s] = 0 /\ x.height[s] = 0
  BY <1>1, AddedHeap
<1>4. Path(n2, fr, r, k)
  BY <1>1, <1>2 DEF Path
<1>5. id # 0 /\ 0 \notin DOMAIN n /\ x.key = k
  <2>1. \A i \in DOMAIN n : n[i] \in Node /\ n[i].id = i
    BY <1>1 DEF Heap
  <2>2. QED
    BY <1>1, <2>1, NodeFields DEF NewNode
<1>6. CASE fr = <<>>
  <2>1. p = 0 /\ r = 0 /\ v = n2
    BY <1>6 DEF Above, Hook, Open, Target
  <2>2. DOMAIN n = {} /\ DOMAIN n2 = {id}
    BY <1>1, <1>2, <2>1 DEF Shape
  <2> DEFINE E == [i \in {0, id} |-> IF i = 0 THEN {} ELSE {id}]
  <2>3. Shape(n2, id, E)
    BY <1>2, <1>3, <1>5, <2>2 DEF Shape
  <2>4. Level(n2, id)
    <3>1. n2[id].height[1] - n2[id].height[2] \in -1 .. 1
      BY <1>2, <1>3
    <3>2. QED
      BY <1>2, <1>3, <3>1 DEF Level, Height
  <2> HIDE DEF p, t, id, v, E
  <2>5. \E D2 : Shape(v, IF p = 0 THEN id ELSE r, D2)
    BY <2>1, <2>3
  <2>6. Loose(n2, r, p, t, id)
    BY <2>1, <2>2, <2>4, <2>5 DEF Loose, v
  <2>7. QED
    BY <1>3, <1>4, <2>6 DEF p, t, id
<1>7. CASE fr # <<>>
  <2>1. /\ p \in DOMAIN n /\ t \in {1, 2} /\ n[p].child[t] = 0
    BY <1>7, PathEnd
  <2>2. Hooked(n2, v, p, t, id)
    BY <1>2, <1>3, <2>1, HookFields
  <2>3. \E E : Shape(v, r, E)
    <3> DEFINE F == {fr[m].id : m \in 1 .. Len(fr)}
    <3>1. Grafted(n, v, D, F, p, t, id, k)
      BY <1>7, <2>2, PathGraft
    <3>2. r \in F
      <4>1. fr[1].id = r /\ fr \in Seq(Node)
        BY <1>1, <1>7 DEF Path
      <4>2. 1 \in 1 .. Len(fr)
        BY <1>7, <4>1
      <4>3. QED
        BY <4>1, <4>2
    <3> HIDE DEF F, v
    <3>3. Shape(v, r, Widened(D, F, id))
      BY <1>1, <3>1, <3>2, GraftedShape
    <3>4. QED
      BY <3>3
  <2> HIDE DEF v
  <2>4. /\ DOMAIN v = DOMAIN n2 /\ Heap(v)
        /\ \A i \in DOMAIN n2 \ {p} : v[i] = n2[i]
        /\ v[p].child[t] = id
        /\ \A s \in {1, 2} : s # t => v[p].child[s] = n2[p].child[s]
        /\ \A s \in {1, 2} : v[p].height[s] = n2[p].height[s]
        /\ get_height(v[p]) = get_height(n2[p])
    BY <2>2 DEF Hooked
  <2> HIDE DEF p, t, id
  <2>5. /\ \A i \in DOMAIN n : \A s \in {1, 2} : n[i].child[s] \in {0} \cup DOMAIN n
        /\ n[p] \in Node
    BY <1>1, <2>1 DEF Heap
  <2>6. \A c \in {0} \cup DOMAIN n : Height(v, c) = Height(n, c)
    BY <1>1, <1>2, <1>5, <2>1, <2>4 DEF Height
  <2>7. /\ \A i \in DOMAIN n, s \in {1, 2} : n[i].height[s] = Height(n, n[i].child[s])
        /\ \A i \in DOMAIN n : n[i].height[1] - n[i].height[2] \in -1 .. 1
    BY <1>1 DEF Level
  <2>8. v[id] = x /\ id # p
    BY <1>1, <1>2, <2>1, <2>4
  <2>9. ASSUME NEW i \in DOMAIN n2 \ {p} PROVE Level(v, i)
    <3>1. CASE i = id
      <4>1. \A s \in {1, 2} : v[i].height[s] = 0 /\ v[i].child[s] = 0
        BY <1>3, <2>8, <3>1
      <4>2. v[i].height[1] - v[i].height[2] \in -1 .. 1
        BY <4>1
      <4>3. QED
        BY <4>1, <4>2 DEF Level, Height
    <3>2. CASE i # id
      <4>1. i \in DOMAIN n /\ v[i] = n[i]
        BY <1>2, <2>4, <2>9, <3>2
      <4>2. \A s \in {1, 2} : v[i].height[s] = Height(v, v[i].child[s])
        BY <2>5, <2>6, <2>7, <4>1
      <4>3. QED
        BY <2>7, <4>1, <4>2 DEF Level
    <3>3. QED
      BY <3>1, <3>2
  <2>10. ASSUME NEW s \in {1, 2} \ {t} PROVE v[p].height[s] = Height(v, v[p].child[s])
    <3>1. v[p].child[s] = n[p].child[s] /\ v[p].height[s] = n[p].height[s]
      BY <1>2, <2>1, <2>4
    <3>2. n[p].height[s] = Height(n, n[p].child[s]) /\ n[p].child[s] \in {0} \cup DOMAIN n
      BY <2>1, <2>5, <2>7
    <3>3. QED
      BY <2>6, <3>1, <3>2
  <2>11. v[p].height[1] - v[p].height[2] \in -1 .. 1
    BY <1>2, <2>1, <2>4, <2>7
  <2>12. Height(v, id) - v[p].height[t] \in 0 .. 1
    <3>1. Height(v, id) = 1
      BY <1>3, <1>5, <2>8 DEF Height, get_height
    <3>2. v[p].height[t] = 0
      BY <1>2, <2>1, <2>4, <2>7 DEF Height
    <3>3. QED
      BY <3>1, <3>2
  <2>13. p # 0 /\ id \in DOMAIN n2 /\ p \in DOMAIN n2
    BY <1>2, <1>5, <2>1
  <2>14. Loose(n2, r, p, t, id)
    BY <2>3, <2>9, <2>10, <2>11, <2>12, <2>13 DEF Loose, v
  <2>15. QED
    BY <1>3, <1>4, <2>14 DEF p, t, id
<1>8. QED
  BY <1>6, <1>7


\* The path on which a call of insert_priv goes on, and the one left when it returns.
LEMMA PathStep ==
  ASSUME NEW n, NEW r, Avl(n, r), NEW k \in Nat, NEW fr, Path(n, fr, r, k), Passed(fr, k),
         NEW a \in DOMAIN n, a = Target(fr, r, k)
  PROVE  Path(n, Append(fr, n[a]), r, k) /\ n[a] \in Node /\ n[a].id = a
<1> DEFINE g == Append(fr, n[a])
           last == fr[Len(fr)]
<1>1. /\ fr \in Seq(Node) /\ Len(fr) \in Nat
      /\ \A m \in 1 .. Len(fr) : fr[m].id \in DOMAIN n /\ n[fr[m].id] = fr[m] /\ fr[m] \in Node
      /\ \A l, m \in 1 .. Len(fr) : l < m => get_height(fr[l]) > get_height(fr[m])
      /\ fr # <<>> => fr[1].id = r
      /\ \A m \in 1 .. Len(fr) - 1 :
            fr[m].key # k /\ fr[m + 1].id = fr[m].child[Side(fr[m], k)]
  BY SMTT(30) DEF Path
<1>2. n[a] \in Node /\ n[a].id = a
  BY DEF Avl, Heap
<1>3. /\ g \in Seq(Node) /\ Len(g) = Len(fr) + 1 /\ g[Len(fr) + 1] = n[a]
      /\ \A m \in 1 .. Len(fr) : g[m] = fr[m]
  BY <1>1, <1>2
<1>4. CASE fr = <<>>
  <2>1. Len(fr) = 0 /\ a = r
    BY <1>4 DEF Target
  <2> HIDE DEF g
  <2>2. Len(g) = 1 /\ g[1] = n[a]
    BY <1>3, <2>1
  <2>3. QED
    BY <1>2, <1>3, <2>1, <2>2 DEF Path, g
<1>5. CASE fr # <<>>
  <2>1. /\ Len(fr) \in 1 .. Len(fr) /\ last.key # k /\ a = last.child[Side(last, k)]
        /\ last \in Node /\ last.id \in DOMAIN n /\ n[last.id] = last
    BY <1>1, <1>5 DEF Target, Passed
  <2>2. get_height(last) > get_height(n[a])
    <3>1. Side(last, k) \in {1, 2} /\ a # 0
      BY <1>2, <2>1, SideIs, NodeFields
    <3>2. last.height[Side(last, k)] = get_height(n[a])
      BY <2>1, <3>1 DEF Avl, Level, Height
    <3> DEFINE s == Side(last, k)
    <3> HIDE DEF s, last
    <3>3. \A x \in {1, 2} : get_height(last) > last.height[x]
      BY <2>1, NodeFields
    <3>4. QED
      BY <3>1, <3>2, <3>3
  <2> DEFINE hh(m) == get_height(fr[m])
  <2>3. \A m \in 1 .. Len(fr) : get_height(fr[m]) \in Nat
    BY <1>1, NodeFields
  <2>4. get_height(n[a]) \in Nat
    BY <1>2, NodeFields
  <2>5. \A l \in 1 .. Len(fr) : get_height(fr[l]) > get_height(n[a])
    <3>1. SUFFICES ASSUME NEW l \in 1 .. Len(fr) PROVE get_height(fr[l]) > get_height(n[a])
      OBVIOUS
    <3>2. CASE l = Len(fr)
      BY <2>2, <3>2
    <3>3. CASE l # Len(fr)
      <4>1. get_height(fr[l]) > get_height(last)
        BY <1>1, <2>1, <3>3
      <4>2. get_height(fr[l]) \in Nat /\ get_height(last) \in Nat
        BY <2>1, <2>3
      <4> HIDE DEF last
      <4>3. QED
        BY <2>2, <2>4, <4>1, <4>2
    <3>4. QED
      BY <3>2, <3>3
  <2> HIDE DEF g
  <2>6. ASSUME NEW l \in 1 .. Len(g), NEW m \in 1 .. Len(g), l < m
        PROVE  get_height(g[l]) > get_height(g[m])
    <3>1. l \in 1 .. Len(fr)
      BY <1>1, <1>3, <2>6
    <3>2. CASE m \in 1 .. Len(fr)
      BY <1>1, <1>3, <2>6, <3>1, <3>2
    <3>3. CASE m = Len(fr) + 1
      BY <1>3, <2>5, <3>1, <3>3
    <3>4. QED
      BY <1>1, <1>3, <3>2, <3>3
  <2>7. ASSUME NEW m \in 1 .. Len(g) - 1
        PROVE  g[m].key # k /\ g[m + 1].id = g[m].child[Side(g[m], k)]
    <3>1. CASE m \in 1 .. Len(fr) - 1
      <4>1. m \in 1 .. Len(fr) /\ m + 1 \in 1 .. Len(fr)
        BY <1>1, <3>1
      <4>2. QED
        BY <1>1, <1>3, <3>1, <4>1
    <3>2. CASE m = Len(fr)
      BY <1>2, <1>3, <2>1, <3>2
    <3>3. QED
      BY <1>1, <1>3, <3>1, <3>2
  <2>8. ASSUME NEW m \in 1 .. Len(g) PROVE g[m].id \in DOMAIN n /\ n[g[m].id] = g[m]
    <3>1. CASE m \in 1 .. Len(fr)
      BY <1>1, <1>3, <3>1
    <3>2. CASE m = Len(fr) + 1
      BY <1>2, <1>3, <3>2
    <3>3. QED
      BY <1>1, <1>3, <3>1, <3>2
  <2>9. g[1].id = r
    BY <1>1, <1>3, <1>5, <2>1
  <2>10. QED
    BY <1>2, <1>3, <2>6, <2>7, <2>8, <2>9 DEF Path, g
<1>6. QED
  BY <1>4, <1>5

Front(fr) == SubSeq(fr, 1, Len(fr) - 1)

LEMMA FrontFields ==
  ASSUME NEW fr \in Seq(Node), fr # <<>>
  PROVE  /\ Len(fr) \in Nat /\ Len(fr) \in 1 .. Len(fr)
         /\ Front(fr) \in Seq(Node) /\ Len(Front(fr)) = Len(fr) - 1
         /\ \A i \in 1 .. Len(Front(fr)) : i \in 1 .. Len(fr) - 1 /\ i \in 1 .. Len(fr) /\ Front(fr)[i] = fr[i]
<1> DEFINE g == Front(fr)
<1>1. Len(fr) \in Nat /\ Len(fr) \in 1 .. Len(fr)
  OBVIOUS
<1>2. g = [i \in 1 .. Len(fr) - 1 |-> fr[i]]
  BY DEF Front
<1>3. \A i \in 1 .. Len(fr) - 1 : i \in 1 .. Len(fr)
  BY <1>1
<1>4. Len(fr) - 1 \in Nat
  BY <1>1
<1> HIDE DEF g
<1>5. g \in Seq(Node) /\ Len(g) = Len(fr) - 1
  BY <1>2, <1>3, <1>4
<1>6. \A i \in 1 .. Len(g) : i \in 1 .. Len(fr) - 1 /\ i \in 1 .. Len(fr) /\ g[i] = fr[i]
  BY <1>2, <1>3, <1>5
<1>7. QED
  BY <1>1, <1>5, <1>6 DEF g

\* The node p at the end of a path is the child that the node before points to.
Ends(n, fr, r, k, p) ==
    /\ Slot(n, r, p, Above(Front(fr)), Turn(Front(fr), k))
    /\ Above(Front(fr)) # p /\ p \in DOMAIN n /\ n[p] = fr[Len(fr)] /\ fr[Len(fr)] \in Node

\* Once its last node is dealt with, what is before it is the path to the slot above.
LEMMA PathFront ==
  ASSUME NEW n, Heap(n), NEW r, NEW k \in Nat, NEW fr, Path(n, fr, r, k), fr # <<>>,
         NEW p, p = fr[Len(fr)].id,
         NEW m, DOMAIN m = DOMAIN n,
         \A i \in DOMAIN n \ {p} : get_height(n[i]) > get_height(n[p]) => m[i] = n[i]
  PROVE  Path(m, Front(fr), r, k) /\ Passed(Front(fr), k) /\ Ends(n, fr, r, k, p)
<1> DEFINE g == Front(fr)
           last == fr[Len(fr)]
<1>1. /\ fr \in Seq(Node) /\ Len(fr) \in Nat
      /\ \A i \in 1 .. Len(fr) : fr[i].id \in DOMAIN n /\ n[fr[i].id] = fr[i] /\ fr[i] \in Node
      /\ \A l, i \in 1 .. Len(fr) : l < i => get_height(fr[l]) > get_height(fr[i])
      /\ fr # <<>> => fr[1].id = r
      /\ \A i \in 1 .. Len(fr) - 1 :
            fr[i].key # k /\ fr[i + 1].id = fr[i].child[Side(fr[i], k)]
  BY DEF Path
<1>2. Len(fr) \in 1 .. Len(fr) /\ p \in DOMAIN n /\ n[p] = last /\ last \in Node
  BY <1>1
<1>3. g \in Seq(Node) /\ Len(g) = Len(fr) - 1 /\ \A i \in 1 .. Len(g) : g[i] = fr[i]
  BY <1>1, FrontFields
<1>4. g = <<>> <=> Len(fr) = 1
  BY <1>1, <1>2, <1>3
<1>5. ASSUME NEW i \in 1 .. Len(g)
      PROVE  i \in 1 .. Len(fr) /\ get_height(fr[i]) > get_height(last) /\ fr[i].id # p
             /\ fr[i].id \in DOMAIN n /\ n[fr[i].id] = fr[i] /\ m[fr[i].id] = fr[i]
  <2>1. i \in 1 .. Len(fr) /\ i < Len(fr)
    BY <1>2, <1>3
  <2>2. get_height(fr[i]) > get_height(last)
    BY <1>1, <1>2, <2>1
  <2>3. get_height(last) \in Nat
    BY <1>2, NodeFields
  <2>4. fr[i].id # p
    <3>1. n[fr[i].id] = fr[i]
      BY <1>1, <2>1
    <3>2. CASE fr[i] = last
      <4>1. get_height(last) > get_height(last)
        BY <2>2, <3>2
      <4> HIDE DEF last
      <4>2. QED
        BY <2>3, <4>1
    <3>3. QED
      BY <1>2, <3>1, <3>2
  <2>5. QED
    BY <1>1, <1>2, <2>1, <2>2, <2>4
<1> HIDE DEF g, last
<1>6. Path(m, g, r, k)
  <2>1. \A l, i \in 1 .. Len(g) : l < i => get_height(g[l]) > get_height(g[i])
    BY <1>1, <1>3, <1>5
  <2>2. g # <<>> => g[1].id = r
    <3>1. SUFFICES ASSUME g # <<>> PROVE g[1].id = r
      OBVIOUS
    <3>2. 1 \in 1 .. Len(g)
      BY <1>3, <3>1
    <3>3. QED
      BY <1>1, <1>3, <3>2
  <2>3. ASSUME NEW i \in 1 .. Len(g) - 1
        PROVE  g[i].key # k /\ g[i + 1].id = g[i].child[Side(g[i], k)]
    <3>1. i \in 1 .. Len(g) /\ i + 1 \in 1 .. Len(g) /\ i \in 1 .. Len(fr) - 1
      BY <1>2, <1>3
    <3>2. QED
      BY <1>1, <1>3, <3>1
  <2>4. QED
    BY <1>3, <1>5, <2>1, <2>2, <2>3 DEF Path
<1>7. CASE g = <<>>
  <2>1. r = p
    BY <1>1, <1>4, <1>7
  <2>2. p # 0
    BY <1>2, NodeFields DEF last
  <2>3. QED
    BY <1>2, <1>6, <1>7, <2>1, <2>2 DEF Above, Turn, Passed, Slot, Ends, g, last
<1>8. CASE g # <<>>
  <2> DEFINE q == Len(g)
  <2>1. q \in 1 .. Len(g) /\ q \in 1 .. Len(fr) - 1 /\ q + 1 = Len(fr)
    BY <1>3, <1>8
  <2> HIDE DEF q
  <2>2. /\ g[q] = fr[q] /\ fr[q].key # k /\ p = fr[q].child[Side(fr[q], k)] /\ fr[q] \in Node
        /\ fr[q].id \in DOMAIN n /\ n[fr[q].id] = fr[q] /\ fr[q].id # p
    BY <1>1, <1>3, <1>5, <2>1
  <2>3. Side(fr[q], k) \in {1, 2}
    BY <2>2, SideIs
  <2>4. fr[q].id # 0
    BY <2>2, NodeFields
  <2>5. Above(g) = fr[q].id /\ Turn(g, k) = Side(fr[q], k) /\ Passed(g, k)
    BY <1>8, <2>2 DEF Above, Turn, Passed, q
  <2>6. QED
    BY <1>2, <1>6, <2>2, <2>3, <2>4, <2>5 DEF Slot, Ends, g, last
<1>9. QED
  BY <1>7, <1>8

----------------------------------------------------------------------------
\* If the key k is in the tree, it is below a.
Covers(n, r, a, k) == \E D : Shape(n, r, D) /\ \A j \in DOMAIN n : n[j].key = k => j \in D[a]

SameKeys(n, m) == DOMAIN m = DOMAIN n /\ \A i \in DOMAIN n : m[i].key = n[i].key

Distinct(n) == \A i, j \in DOMAIN n : n[i].key = n[j].key => i = j

Fresh == node \in Node /\ node = NewNode(node.id, node.key) /\ node.id = node_count - 1

\* The pending calls of insert_priv have read the nodes of a path, which they
\* find unchanged when they go on.
Pending ==
    /\ Path(Nodes, frames, root_id, node.key) /\ Fresh
    /\ \A m \in 1 .. Len(frames) : frames[m].id \in DOMAIN cache

Descending ==
    /\ Pending /\ Passed(frames, node.key) /\ node.id \notin DOMAIN Nodes
    /\ at = Target(frames, root_id, node.key)
    /\ Covers(Nodes, root_id, at, node.key)

\* On the way up the tree is an AVL tree, when the key was there, or one but for
\* the link to what the last call returned.
Ascending ==
    /\ Pending
    /\ IF node.id \in DOMAIN Nodes THEN Nodes[node.id].key = node.key
                                   ELSE \E j \in DOMAIN Nodes : Nodes[j].key = node.key
    /\ \/ frames # <<>> /\ frames[Len(frames)].key = node.key /\ Avl(Nodes, root_id)
       \/ /\ Passed(frames, node.key)
          /\ cur.id \in DOMAIN cache /\ cur = Nodes[cur.id]
          /\ Loose(Nodes, root_id, Above(frames), Turn(frames, node.key), cur.id)

DInv ==
    /\ TypeOK /\ Distinct(Nodes) /\ DOMAIN Nodes \subseteq 1 .. node_count - 1
    /\ pc = "idle" => cache = <<>>
    /\ pc # "ascend" => Avl(Nodes, root_id)
    /\ pc = "find" => node.id = 0 /\ node.key \in Key /\ Covers(Nodes, root_id, at, node.key)
    /\ pc = "descend" => Descending
    /\ pc = "ascend" => Ascending

Stored(c, ids) ==
    \A i \in DOMAIN c :
       /\ c[i] \in Node /\ c[i].id = i
       /\ \A s \in {1, 2} : c[i].child[s] \in {0} \cup ids

LEMMA HeapStored ==
  ASSUME NEW c, NEW g
  PROVE  /\ Stored(c, DOMAIN Over(c, g)) /\ Stored(g, DOMAIN Over(c, g)) => Heap(Over(c, g))
         /\ Heap(Over(c, g)) => Stored(c, DOMAIN Over(c, g))
<1> DEFINE n == Over(c, g)
<1> HIDE DEF n
<1>1. /\ DOMAIN n = DOMAIN c \cup DOMAIN g
      /\ \A i \in DOMAIN c : n[i] = c[i]
      /\ \A i \in DOMAIN g \ DOMAIN c : n[i] = g[i]
  BY OverFields DEF Merged, n
<1>2. ASSUME Stored(c, DOMAIN n), Stored(g, DOMAIN n) PROVE Heap(n)
  BY <1>1, <1>2 DEF Stored, Heap
<1>3. ASSUME Heap(n) PROVE Stored(c, DOMAIN n)
  BY <1>1, <1>3 DEF Stored, Heap
<1>4. QED
  BY <1>2, <1>3 DEF n

\* The parts of the type invariant that an action may disturb.
Counters ==
    /\ node_count \in 1 .. MaxNodes + 1 /\ read_count \in Nat /\ write_count \in Nat
    /\ pc \in {"idle", "batch", "descend", "ascend", "find"}

Typed ==
    /\ Stored(oram, DOMAIN Nodes) /\ Heap(Nodes)
    /\ {root_id, at, answer} \subseteq {0} \cup DOMAIN Nodes
    /\ Counters /\ \A i \in DOMAIN frames : frames[i] \in Node

LEMMA TypeParts == TypeOK <=> Typed
<1>1. /\ Stored(cache, DOMAIN Nodes) /\ Stored(oram, DOMAIN Nodes) => Heap(Nodes)
      /\ Heap(Nodes) => Stored(cache, DOMAIN Nodes)
  BY HeapStored DEF Nodes
<1>2. (\A c \in {oram, cache} : \A i \in DOMAIN c :
          /\ c[i] \in Node /\ c[i].id = i
          /\ \A s \in {1, 2} : c[i].child[s] \in {0} \cup DOMAIN Nodes)
      <=> Stored(cache, DOMAIN Nodes) /\ Stored(oram, DOMAIN Nodes)
  BY DEF Stored
<1>3. QED
  BY <1>1, <1>2 DEF TypeOK, Counters, Typed

LEMMA CoversStep ==
  ASSUME NEW n, Heap(n), NEW r, NEW k \in Nat, NEW a \in DOMAIN n, Covers(n, r, a, k), n[a].key # k
  PROVE  Covers(n, r, n[a].child[Side(n[a], k)], k)
<1> DEFINE s == Side(n[a], k)
           o == 3 - s
<1>1. PICK D : Shape(n, r, D) /\ \A j \in DOMAIN n : n[j].key = k => j \in D[a]
  BY DEF Covers
<1>2. n[a] \in Node
  BY DEF Heap
<1>3. s \in {1, 2} /\ On(s, k, n[a].key) /\ o \in {1, 2} /\ o # s /\ n[a].key \in Nat
  BY <1>2, SideIs, NodeFields
<1>4. D[a] = {a} \cup D[n[a].child[s]] \cup D[n[a].child[o]]
  <2>1. D[a] = {a} \cup D[n[a].child[1]] \cup D[n[a].child[2]]
    BY <1>1 DEF Shape
  <2> HIDE DEF s, o
  <2>2. QED
    BY <1>3, <2>1
<1> HIDE DEF s, o
<1>5. ASSUME NEW j \in DOMAIN n, n[j].key = k PROVE j \in D[n[a].child[s]]
  <2>1. j \in D[a] /\ j # a
    BY <1>1, <1>5
  <2>2. j \notin D[n[a].child[o]]
    <3>1. SUFFICES ASSUME j \in D[n[a].child[o]] PROVE FALSE
      OBVIOUS
    <3>2. On(o, n[j].key, n[a].key)
      BY <1>1, <1>3, <3>1 DEF Shape
    <3>3. QED
      BY <1>3, <1>5, <3>2 DEF On
  <2>3. QED
    BY <1>4, <2>1, <2>2
<1>6. QED
  BY <1>1, <1>5 DEF Covers, s

LEMMA NewNodeType ==
  ASSUME NEW id \in Id, NEW k \in Key
  PROVE  NewNode(id, k) \in Node /\ NewNode(id, k).id = id /\ NewNode(id, k).key = k
<1>1. 0 \in Tag
  BY BoundAssumption DEF Tag
<1>2. <<0, 0>> \in [{1, 2} -> {0}]
  OBVIOUS
<1>3. /\ <<0, 0>> \in [{1, 2} -> {0} \cup Id] /\ <<0, 0>> \in [{1, 2} -> Nat]
      /\ <<0, 0>> \in [{1, 2} -> Tag]
  BY <1>1, <1>2
<1>4. QED
  BY <1>1, <1>3 DEF NewNode, Node


LEMMA TypePartsPrimed == TypeOK' <=> Typed'
BY TypeParts, PTL

\* DInv holds at the start, and each action keeps it.
LEMMA InitInv == Init => DInv
<1> SUFFICES ASSUME Init PROVE DInv
  OBVIOUS
<1>1. /\ oram = <<>> /\ cache = <<>> /\ root_id = 0 /\ node_count = 1
      /\ read_count = 0 /\ write_count = 0 /\ pc = "idle" /\ frames = <<>>
      /\ at = 0 /\ answer = 0
  BY DEF Init
<1>2. DOMAIN Nodes = {}
  <2>1. DOMAIN oram = {} /\ DOMAIN cache = {}
    BY <1>1
  <2>2. DOMAIN Nodes = DOMAIN cache \cup DOMAIN oram
    BY OverFields DEF Merged, Nodes
  <2>3. QED
    BY <2>1, <2>2
<1>3. TypeOK
  <2>1. Stored(oram, DOMAIN Nodes) /\ Heap(Nodes)
    BY <1>1, <1>2 DEF Stored, Heap
  <2>2. Counters
    BY <1>1, BoundAssumption DEF Counters
  <2>3. \A i \in DOMAIN frames : frames[i] \in Node
    BY <1>1
  <2>4. Typed
    BY <1>1, <2>1, <2>2, <2>3 DEF Typed
  <2>5. QED
    BY <2>4, TypeParts
<1>4. Avl(Nodes, root_id)
  <2> DEFINE D == [i \in {0} |-> {}]
  <2>1. Shape(Nodes, root_id, D)
    BY <1>1, <1>2 DEF Shape
  <2> HIDE DEF D
  <2>2. QED
    BY <1>2, <2>1 DEF Avl, Heap
<1>5. QED
  BY <1>1, <1>2, <1>3, <1>4 DEF DInv, Distinct

\* What the steps of the calls need of the invariant.
LEMMA InvFacts ==
  ASSUME DInv
  PROVE  /\ Stored(oram, DOMAIN Nodes) /\ Heap(Nodes) /\ Distinct(Nodes)
         /\ root_id \in {0} \cup DOMAIN Nodes /\ at \in {0} \cup DOMAIN Nodes
         /\ answer \in {0} \cup DOMAIN Nodes
         /\ node_count \in 1 .. MaxNodes + 1 /\ read_count \in Nat /\ write_count \in Nat
         /\ DOMAIN Nodes \subseteq 1 .. node_count - 1 /\ 0 \notin DOMAIN Nodes
         /\ \A i \in DOMAIN frames : frames[i] \in Node
<1>1. Typed
  BY TypeParts DEF DInv
<1>2. node_count \in 1 .. MaxNodes + 1 /\ DOMAIN Nodes \subseteq 1 .. node_count - 1
  BY <1>1 DEF Typed, Counters, DInv
<1>3. 0 \notin DOMAIN Nodes
  BY <1>2
<1>4. QED
  BY <1>1, <1>2, <1>3 DEF DInv, Typed, Counters

\* A fetch does not change the nodes that the batch sees.
LEMMA FetchNodes ==
  ASSUME NEW id \in DOMAIN Nodes, cache' = Fetch(cache, id), oram' = oram
  PROVE  /\ Nodes' = Nodes /\ Fetch(cache, id)[id] = Nodes[id]
         /\ DOMAIN cache' = DOMAIN cache \cup {id}
<1>1. Fetched(cache, Fetch(cache, id), Nodes, id)
  BY FetchOver DEF Nodes
<1>2. QED
  BY <1>1 DEF Fetched, Nodes


LEMMA StartInv == ASSUME DInv, ODS_start PROVE DInv'
<1>1. /\ pc = "idle" /\ pc' = "batch" /\ cache' = <<>>
      /\ UNCHANGED <<oram, root_id, node_count, read_count, write_count, frames, at, answer>>
  BY DEF ODS_start, store, counts, locals
<1>2. cache' = cache /\ Nodes' = Nodes
  BY <1>1 DEF DInv, Nodes
<1>3. Typed /\ Avl(Nodes, root_id) /\ Distinct(Nodes) /\ DOMAIN Nodes \subseteq 1 .. node_count - 1
  BY <1>1, TypeParts DEF DInv
<1>4. Typed'
  BY <1>1, <1>2, <1>3 DEF Typed, Counters
<1>5. QED
  BY <1>1, <1>2, <1>3, <1>4, TypePartsPrimed DEF DInv

LEMMA InsertInv == ASSUME DInv, NEW k \in Key, insert(k) PROVE DInv'
<1>1. /\ pc = "batch" /\ pc' = "descend" /\ node_count <= MaxNodes
      /\ node' = NewNode(node_count, k) /\ node_count' = node_count + 1
      /\ at' = root_id /\ frames' = <<>> /\ answer' = 0
      /\ UNCHANGED <<oram, root_id, read_count, write_count, cache>>
  BY DEF insert, counts
<1>2. Nodes' = Nodes
  BY <1>1 DEF Nodes
<1>3. /\ Typed /\ Avl(Nodes, root_id) /\ Distinct(Nodes)
      /\ node_count \in 1 .. MaxNodes + 1 /\ DOMAIN Nodes \subseteq 1 .. node_count - 1
  BY <1>1, TypeParts DEF DInv, Typed, Counters
<1>4. MaxNodes \in Nat /\ node_count \in Id
  BY <1>1, <1>3, BoundAssumption DEF Id
<1>5. node' \in Node /\ node'.id = node_count /\ node'.key = k
  BY <1>1, <1>4, NewNodeType
<1>6. Typed'
  <2>1. node_count' \in 1 .. MaxNodes + 1
    BY <1>1, <1>3, <1>4
  <2>2. \A i \in DOMAIN frames' : frames'[i] \in Node
    BY <1>1
  <2>3. QED
    BY <1>1, <1>2, <1>3, <2>1, <2>2 DEF Typed, Counters
<1>7. DOMAIN Nodes' \subseteq 1 .. node_count' - 1 /\ node'.id \notin DOMAIN Nodes'
  BY <1>1, <1>2, <1>3, <1>5
<1>8. Covers(Nodes', root_id', at', k)
  <2>1. PICK D : Shape(Nodes, root_id, D)
    BY <1>3 DEF Avl
  <2>2. D[root_id] = DOMAIN Nodes
    BY <2>1 DEF Shape
  <2>3. QED
    BY <1>1, <1>2, <2>1, <2>2 DEF Covers
<1>9. Pending' /\ Passed(frames', k) /\ at' = Target(frames', root_id', k)
  <2>1. frames' \in Seq(Node) /\ Len(frames') = 0
    BY <1>1
  <2>2. Path(Nodes', frames', root_id', k)
    BY <1>1, <2>1 DEF Path
  <2>3. Fresh'
    BY <1>1, <1>3, <1>5 DEF Fresh
  <2>4. QED
    BY <1>1, <1>5, <2>1, <2>2, <2>3 DEF Pending, Passed, Target
<1>10. Descending'
  BY <1>5, <1>7, <1>8, <1>9 DEF Descending
<1>11. QED
  BY <1>1, <1>2, <1>3, <1>6, <1>7, <1>10, TypePartsPrimed DEF DInv

LEMMA FindInv == ASSUME DInv, NEW k \in Key, find(k) PROVE DInv'
<1>1. /\ pc = "batch" /\ pc' = "find" /\ node' = NewNode(0, k) /\ at' = root_id /\ answer' = 0
      /\ UNCHANGED <<oram, root_id, node_count, read_count, write_count, cache, frames>>
  BY DEF find, store, counts
<1>2. Nodes' = Nodes
  BY <1>1 DEF Nodes
<1>3. /\ Typed /\ Avl(Nodes, root_id) /\ Distinct(Nodes) /\ DOMAIN Nodes \subseteq 1 .. node_count - 1
  BY <1>1, TypeParts DEF DInv
<1>4. node'.id = 0 /\ node'.key = k
  BY <1>1 DEF NewNode
<1>5. Typed'
  BY <1>1, <1>2, <1>3 DEF Typed, Counters
<1>6. Covers(Nodes', root_id', at', k)
  <2>1. PICK D : Shape(Nodes, root_id, D)
    BY <1>3 DEF Avl
  <2>2. D[root_id] = DOMAIN Nodes
    BY <2>1 DEF Shape
  <2>3. QED
    BY <1>1, <1>2, <2>1, <2>2 DEF Covers
<1>7. QED
  BY <1>1, <1>2, <1>3, <1>4, <1>5, <1>6, TypePartsPrimed DEF DInv

LEMMA FindPrivInv == ASSUME DInv, find_priv PROVE DInv'
<1> DEFINE root == Fetch(cache, at)[at]
<1>1. /\ pc = "find" /\ at # 0 /\ cache' = Fetch(cache, at) /\ read_count' = read_count + 1
      /\ UNCHANGED <<oram, root_id, node_count, write_count>>
      /\ \/ /\ root.key = node.key /\ answer' = root.id /\ pc' = "batch" /\ frames' = <<>> /\ at' = 0
         \/ /\ root.key # node.key /\ at' = root.child[Side(root, node.key)]
            /\ answer' = answer /\ pc' = pc /\ frames' = frames /\ node' = node
  BY DEF find_priv, store, Return
<1>2. /\ Typed /\ Avl(Nodes, root_id) /\ Distinct(Nodes) /\ DOMAIN Nodes \subseteq 1 .. node_count - 1
      /\ node.id = 0 /\ node.key \in Key /\ Covers(Nodes, root_id, at, node.key)
  BY <1>1, TypeParts DEF DInv
<1>3. at \in DOMAIN Nodes /\ node.key \in Nat /\ read_count \in Nat
  BY <1>1, <1>2, KeyAssumption DEF Typed, Counters
<1>4. Nodes' = Nodes /\ root = Nodes[at]
  BY <1>1, <1>3, FetchNodes
<1>5. root \in Node /\ root.id = at /\ \A s \in {1, 2} : root.child[s] \in {0} \cup DOMAIN Nodes
  BY <1>2, <1>3, <1>4 DEF Avl, Heap
<1> HIDE DEF root
<1>6. CASE root.key = node.key
  <2>1. answer' = at /\ pc' = "batch" /\ frames' = <<>> /\ at' = 0
    BY <1>1, <1>5, <1>6
  <2>2. \A i \in DOMAIN frames' : frames'[i] \in Node
    BY <2>1
  <2>3. Typed'
    BY <1>1, <1>2, <1>3, <1>4, <2>1, <2>2 DEF Typed, Counters
  <2>4. QED
    BY <1>1, <1>2, <1>4, <2>1, <2>3, TypePartsPrimed DEF DInv
<1>7. CASE root.key # node.key
  <2>1. /\ at' = root.child[Side(root, node.key)] /\ answer' = answer /\ pc' = pc
        /\ frames' = frames /\ node' = node
    BY <1>1, <1>7
  <2>2. Side(root, node.key) \in {1, 2}
    BY <1>3, <1>5, <1>7, SideIs
  <2>3. at' \in {0} \cup DOMAIN Nodes
    BY <1>5, <2>1, <2>2
  <2>4. Typed'
    BY <1>1, <1>2, <1>3, <1>4, <2>1, <2>3 DEF Typed, Counters
  <2>5. Covers(Nodes, root_id, at', node.key)
    <3>1. Heap(Nodes) /\ Nodes[at].key # node.key
      BY <1>2, <1>4, <1>7 DEF Avl
    <3>2. Covers(Nodes, root_id, Nodes[at].child[Side(Nodes[at], node.key)], node.key)
      BY <1>2, <1>3, <3>1, CoversStep
    <3>3. QED
      BY <1>4, <2>1, <3>2
  <2>6. QED
    BY <1>1, <1>2, <1>4, <2>1, <2>4, <2>5, TypePartsPrimed DEF DInv
<1>8. QED
  BY <1>6, <1>7

LEMMA FindNothingInv == ASSUME DInv, FindNothing PROVE DInv'
<1>1. /\ pc = "find" /\ answer' = 0 /\ pc' = "batch" /\ frames' = <<>> /\ at' = 0
      /\ UNCHANGED <<oram, root_id, node_count, read_count, write_count, cache>>
  BY DEF FindNothing, store, counts, Return
<1>2. Nodes' = Nodes
  BY <1>1 DEF Nodes
<1>3. /\ Typed /\ Avl(Nodes, root_id) /\ Distinct(Nodes) /\ DOMAIN Nodes \subseteq 1 .. node_count - 1
  BY <1>1, TypeParts DEF DInv
<1>4. Typed'
  <2>1. \A i \in DOMAIN frames' : frames'[i] \in Node
    BY <1>1
  <2>2. QED
    BY <1>1, <1>2, <1>3, <2>1 DEF Typed, Counters
<1>5. QED
  BY <1>1, <1>2, <1>3, <1>4, TypePartsPrimed DEF DInv


LEMMA DescendInv == ASSUME DInv, Descend PROVE DInv'
<1> DEFINE root == Fetch(cache, at)[at]
           k == node.key
<1>1. /\ pc = "descend" /\ at # 0 /\ cache' = Fetch(cache, at) /\ read_count' = read_count + 1
      /\ frames' = Append(frames, root)
      /\ UNCHANGED <<oram, root_id, node_count, write_count, node, answer>>
      /\ \/ root.key = k /\ pc' = "ascend" /\ at' = at
         \/ root.key # k /\ at' = root.child[Side(root, k)] /\ pc' = pc
  BY DEF Descend, store
<1>2. /\ Typed /\ Avl(Nodes, root_id) /\ Distinct(Nodes) /\ DOMAIN Nodes \subseteq 1 .. node_count - 1
      /\ Descending
  BY <1>1, TypeParts DEF DInv
<1>3. /\ Path(Nodes, frames, root_id, k) /\ Fresh /\ Passed(frames, k) /\ node.id \notin DOMAIN Nodes
      /\ \A m \in 1 .. Len(frames) : frames[m].id \in DOMAIN cache
      /\ at = Target(frames, root_id, k) /\ Covers(Nodes, root_id, at, k)
  BY <1>2 DEF Descending, Pending
<1>4. /\ at \in DOMAIN Nodes /\ k \in Nat /\ read_count \in Nat /\ Heap(Nodes)
  BY <1>1, <1>2, <1>3, NodeFields DEF Typed, Counters, Fresh
<1>5. Nodes' = Nodes /\ root = Nodes[at] /\ DOMAIN cache' = DOMAIN cache \cup {at}
  BY <1>1, <1>4, FetchNodes
<1> HIDE DEF root
<1>6. root \in Node /\ root.id = at /\ \A s \in {1, 2} : root.child[s] \in {0} \cup DOMAIN Nodes
  BY <1>4, <1>5 DEF Heap
<1>7. Path(Nodes', frames', root_id', node'.key)
  <2>1. Path(Nodes, Append(frames, Nodes[at]), root_id, k)
    BY <1>2, <1>3, <1>4, PathStep
  <2>2. QED
    BY <1>1, <1>5, <2>1
<1>8. frames \in Seq(Node) /\ frames' \in Seq(Node)
  BY <1>3, <1>7 DEF Path
<1>9. /\ Len(frames') = Len(frames) + 1 /\ Len(frames) \in Nat /\ frames'[Len(frames')] = root
      /\ frames' # <<>> /\ \A m \in 1 .. Len(frames) : frames'[m] = frames[m]
  BY <1>1, <1>6, <1>8
<1>10. \A m \in 1 .. Len(frames') : frames'[m].id \in DOMAIN cache'
  <2>1. SUFFICES ASSUME NEW m \in 1 .. Len(frames') PROVE frames'[m].id \in DOMAIN cache'
    OBVIOUS
  <2>2. CASE m \in 1 .. Len(frames)
    BY <1>3, <1>5, <1>9, <2>2
  <2>3. CASE m = Len(frames')
    BY <1>5, <1>6, <1>9, <2>3
  <2>4. QED
    BY <1>9, <2>2, <2>3
<1>11. Pending'
  BY <1>1, <1>3, <1>7, <1>10 DEF Pending, Fresh
<1>12. at' \in {0} \cup DOMAIN Nodes
  <2>1. CASE root.key = k
    BY <1>1, <1>4, <2>1
  <2>2. CASE root.key # k
    <3>1. Side(root, k) \in {1, 2}
      BY <1>4, <1>6, <2>2, SideIs
    <3>2. QED
      BY <1>1, <1>6, <2>2, <3>1
  <2>3. QED
    BY <2>1, <2>2
<1>13. Typed'
  <2>1. \A i \in DOMAIN frames' : frames'[i] \in Node
    BY <1>8
  <2>2. QED
    BY <1>1, <1>2, <1>4, <1>5, <1>12, <2>1 DEF Typed, Counters
<1>14. CASE root.key = k
  <2>1. pc' = "ascend"
    BY <1>1, <1>14
  <2>2. /\ node'.id \notin DOMAIN Nodes'
        /\ \E j \in DOMAIN Nodes' : Nodes'[j].key = node'.key
    BY <1>1, <1>3, <1>4, <1>5, <1>14
  <2>3. frames' # <<>> /\ frames'[Len(frames')].key = node'.key /\ Avl(Nodes', root_id')
    BY <1>1, <1>2, <1>5, <1>9, <1>14
  <2>4. Ascending'
    BY <1>11, <2>2, <2>3 DEF Ascending
  <2>5. QED
    BY <1>1, <1>2, <1>5, <1>13, <2>1, <2>4, TypePartsPrimed DEF DInv
<1>15. CASE root.key # k
  <2>1. at' = root.child[Side(root, k)] /\ pc' = pc
    BY <1>1, <1>15
  <2>2. Passed(frames', node'.key) /\ at' = Target(frames', root_id', node'.key)
    BY <1>1, <1>9, <1>15, <2>1 DEF Passed, Target
  <2>3. Covers(Nodes', root_id', at', node'.key)
    <3>1. Nodes[at].key # k
      BY <1>5, <1>15
    <3>2. Covers(Nodes, root_id, Nodes[at].child[Side(Nodes[at], k)], k)
      BY <1>3, <1>4, <3>1, CoversStep
    <3>3. QED
      BY <1>1, <1>5, <2>1, <3>2
  <2>4. Descending'
    BY <1>1, <1>3, <1>5, <1>11, <2>2, <2>3 DEF Descending
  <2>5. QED
    BY <1>1, <1>2, <1>5, <1>13, <2>1, <2>4, TypePartsPrimed DEF DInv
<1>16. QED
  BY <1>14, <1>15

LEMMA AttachInv == ASSUME DInv, Attach PROVE DInv' /\ Added(Nodes, Nodes', node)
<1> DEFINE k == node.key
           id == node.id
<1>1. /\ pc = "descend" /\ at = 0 /\ cache' = Over([i \in {id} |-> node], cache)
      /\ cur' = node /\ pc' = "ascend"
      /\ UNCHANGED <<oram, root_id, node_count, read_count, write_count, frames, at, node, answer>>
  BY DEF Attach, store, counts
<1>2. /\ Typed /\ Avl(Nodes, root_id) /\ Distinct(Nodes) /\ DOMAIN Nodes \subseteq 1 .. node_count - 1
      /\ Descending
  BY <1>1, TypeParts DEF DInv
<1>3. /\ Path(Nodes, frames, root_id, k) /\ Fresh /\ Passed(frames, k) /\ id \notin DOMAIN Nodes
      /\ \A m \in 1 .. Len(frames) : frames[m].id \in DOMAIN cache
      /\ 0 = Target(frames, root_id, k) /\ Covers(Nodes, root_id, 0, k)
  BY <1>1, <1>2 DEF Descending, Pending
<1>4. /\ node \in Node /\ node = NewNode(id, k) /\ id = node_count - 1 /\ k \in Nat /\ id \in Nat \ {0}
      /\ node_count \in Nat
  BY <1>2, <1>3, NodeFields, BoundAssumption DEF Fresh, Typed, Counters
<1>5. /\ DOMAIN cache' = DOMAIN cache \cup {id} /\ cache'[id] = node
      /\ \A i \in DOMAIN cache : i # id => cache'[i] = cache[i]
  <2> DEFINE one == [i \in {id} |-> node]
  <2>1. DOMAIN one = {id} /\ one[id] = node
    OBVIOUS
  <2>2. Merged(one, cache, cache')
    BY <1>1, OverFields
  <2> HIDE DEF one
  <2>3. QED
    BY <2>1, <2>2 DEF Merged
<1>6. Added(Nodes, Nodes', node)
  <2>1. Merged(cache, oram, Nodes) /\ Merged(cache', oram, Nodes')
    BY <1>1, OverFields DEF Nodes
  <2>2. QED
    BY <1>3, <1>5, <2>1 DEF Merged, Added
<1>7. /\ DOMAIN Nodes' = DOMAIN Nodes \cup {id} /\ Nodes'[id] = node
      /\ \A i \in DOMAIN Nodes : Nodes'[i] = Nodes[i]
  BY <1>6 DEF Added
<1>8. PICK D : Shape(Nodes, root_id, D) /\ \A j \in DOMAIN Nodes : Nodes[j].key = k => j \in D[0]
  BY <1>3 DEF Covers
<1>9. \A j \in DOMAIN Nodes : Nodes[j].key # k
  BY <1>8 DEF Shape
<1>10. Open(Nodes, root_id, D, frames, k, node)
  BY <1>2, <1>3, <1>4, <1>8 DEF Open, Avl
<1> DEFINE n2 == Nodes'
<1>11. /\ Heap(n2) /\ Path(n2, frames, root_id, k)
       /\ Loose(n2, root_id, Above(frames), Turn(frames, k), id)
  <2>1. Added(Nodes, n2, node)
    BY <1>6
  <2> HIDE DEF n2
  <2>2. QED
    BY <1>4, <1>10, <2>1, AttachLoose
<1>12. Typed'
  <2>1. Stored(oram, DOMAIN Nodes')
    BY <1>2, <1>7 DEF Typed, Stored
  <2>2. QED
    BY <1>1, <1>2, <1>7, <1>11, <2>1 DEF Typed, Counters
<1>13. Distinct(Nodes')
  <2>1. ASSUME NEW i \in DOMAIN Nodes', NEW j \in DOMAIN Nodes', Nodes'[i].key = Nodes'[j].key
        PROVE  i = j
    <3>1. CASE i \in DOMAIN Nodes /\ j \in DOMAIN Nodes
      BY <1>2, <1>7, <2>1, <3>1 DEF Distinct
    <3>2. CASE i = id \/ j = id
      BY <1>7, <1>9, <2>1, <3>2
    <3>3. QED
      BY <1>7, <3>1, <3>2
  <2>2. QED
    BY <2>1 DEF Distinct
<1>14. DOMAIN Nodes' \subseteq 1 .. node_count' - 1
  BY <1>1, <1>2, <1>4, <1>7
<1>15. Ascending'
  <2>1. Pending'
    BY <1>1, <1>3, <1>5, <1>11 DEF Pending, Fresh
  <2>2. node'.id \in DOMAIN Nodes' /\ Nodes'[node'.id].key = node'.key
    BY <1>1, <1>7
  <2>3. Passed(frames', node'.key) /\ cur'.id \in DOMAIN cache' /\ cur' = Nodes'[cur'.id]
    BY <1>1, <1>3, <1>5, <1>7
  <2>4. Loose(Nodes', root_id', Above(frames'), Turn(frames', node'.key), cur'.id)
    BY <1>1, <1>11
  <2>5. QED
    BY <2>1, <2>2, <2>3, <2>4 DEF Ascending
<1>16. QED
  BY <1>1, <1>6, <1>12, <1>13, <1>14, <1>15, TypePartsPrimed DEF DInv

LEMMA LooseRoot ==
  ASSUME NEW n, Heap(n), NEW r, NEW t, NEW c, Loose(n, r, 0, t, c), 0 \notin DOMAIN n
  PROVE  Avl(n, c)
BY DEF Loose, Hook, Avl

LEMMA InsertReturnsInv == ASSUME DInv, InsertReturns PROVE DInv'
<1>1. /\ pc = "ascend" /\ frames = <<>> /\ root_id' = cur.id
      /\ pc' = "batch" /\ frames' = <<>> /\ at' = 0
      /\ UNCHANGED <<oram, node_count, read_count, write_count, cache, answer>>
  BY DEF InsertReturns, counts, Return
<1>2. Nodes' = Nodes
  BY <1>1 DEF Nodes
<1>3. /\ Typed /\ Distinct(Nodes) /\ DOMAIN Nodes \subseteq 1 .. node_count - 1 /\ Ascending
  BY <1>1, TypeParts DEF DInv
<1>4. Loose(Nodes, root_id, 0, 1, cur.id)
  BY <1>1, <1>3 DEF Ascending, Above, Turn
<1>5. Avl(Nodes, cur.id)
  <2>1. Heap(Nodes) /\ 0 \notin DOMAIN Nodes
    BY <1>3 DEF Typed
  <2>2. QED
    BY <1>4, <2>1, LooseRoot
<1>6. cur.id \in DOMAIN Nodes
  BY <1>4 DEF Loose
<1>7. Typed'
  <2>1. \A i \in DOMAIN frames' : frames'[i] \in Node
    BY <1>1
  <2>2. QED
    BY <1>1, <1>2, <1>3, <1>6, <2>1 DEF Typed, Counters
<1>8. QED
  BY <1>1, <1>2, <1>3, <1>5, <1>7, TypePartsPrimed DEF DInv


\* Linking the last node of the path to what the call returned leaves at most
\* that node out of balance.
LEMMA AscendTilted ==
  ASSUME Heap(Nodes), Ascending, frames # <<>>,
         NEW root, root = frames[Len(frames)], NEW w, w = Put(Nodes, root.id, Linked(root)),
         NEW pp, pp = Above(Front(frames)), NEW tt, tt = Turn(Front(frames), node.key)
  PROVE  /\ DOMAIN w = DOMAIN Nodes /\ \A i \in DOMAIN Nodes \ {root.id} : w[i] = Nodes[i]
         /\ \A i \in DOMAIN Nodes : w[i].key = Nodes[i].key
         /\ Tilted(w, root_id, root.id, pp, tt, get_height(root)) /\ Grown(w, root.id, get_height(root))
<1> DEFINE n == Nodes
           p == root.id
           k == node.key
           s == Side(root, k)
<1>1. /\ Path(n, frames, root_id, k) /\ k \in Nat
      /\ \/ root.key = k /\ Avl(n, root_id)
         \/ /\ root.key # k /\ cur.id \in DOMAIN cache /\ cur = n[cur.id]
            /\ Loose(n, root_id, Above(frames), Turn(frames, k), cur.id)
  BY NodeFields DEF Ascending, Pending, Fresh, Passed
<1>2. /\ p \in DOMAIN n /\ n[p] = root /\ root \in Node /\ Slot(n, root_id, p, pp, tt) /\ pp # p
  <2>1. Heap(n) /\ p = frames[Len(frames)].id /\ Path(n, frames, root_id, k) /\ k \in Nat
    BY <1>1
  <2> DEFINE m == n
  <2>2. /\ DOMAIN m = DOMAIN n
        /\ \A i \in DOMAIN n \ {p} : get_height(n[i]) > get_height(n[p]) => m[i] = n[i]
    OBVIOUS
  <2> HIDE DEF n, m, p, k
  <2>3. Ends(n, frames, root_id, k, p)
    BY <2>1, <2>2, PathFront
  <2>4. QED
    BY <2>3 DEF Ends, k
<1>3. /\ DOMAIN w = DOMAIN n /\ w[p] = Linked(root)
      /\ \A i \in DOMAIN n \ {p} : w[i] = n[i]
  BY <1>2 DEF Put
<1> HIDE DEF n, p
<1>4. CASE root.key = k
  <2>1. Avl(n, root_id) /\ Linked(root) = root
    BY <1>1, <1>4 DEF Linked
  <2>2. n = [i \in DOMAIN n |-> n[i]] /\ w = [i \in DOMAIN n |-> w[i]]
    BY DEF n, Nodes, Over, Put
  <2>3. w = n
    BY <1>2, <1>3, <2>1, <2>2
  <2>4. Tilted(n, root_id, p, pp, tt, get_height(n[p])) /\ Grown(n, p, get_height(n[p]))
    BY <1>2, <2>1, AvlTilted
  <2>5. QED
    BY <1>2, <2>3, <2>4 DEF p, n
<1>5. CASE root.key # k
  <2> DEFINE c == cur.id
  <2>1. Above(frames) = p /\ Turn(frames, k) = s
    BY DEF Above, Turn, p
  <2>2. Loose(n, root_id, p, s, c) /\ cur = n[c]
    BY <1>1, <1>5, <2>1
  <2>3. s \in {1, 2}
    BY <1>1, <1>2, <1>5, SideIs
  <2>4. c \in DOMAIN n
    BY <2>2 DEF Loose
  <2>5. n[c] \in Node /\ get_height(n[c]) \in Nat /\ root.childrenPos[s] \in Tag
    <3>1. n[c] \in Node
      BY <2>4 DEF Heap, n
    <3>2. QED
      BY <1>2, <2>3, <3>1, NodeFields
  <2>6. Linked(root) = WithChild(n[p], s, c, get_height(n[c]), root.childrenPos[s])
    BY SMTT(30), <1>2, <1>5, <2>2 DEF Linked
  <2>7. Swapped(n, w, p, WithChild(n[p], s, c, get_height(n[c]), root.childrenPos[s]))
    BY <1>3, <2>6 DEF Swapped
  <2> DEFINE h == get_height(n[c])
             tag == root.childrenPos[s]
  <2> HIDE DEF s, c
  <2>8. Relinked(n, w, p, s, c, get_height(n[c]))
    <3>1. h \in Nat /\ tag \in Tag /\ Heap(n) /\ Swapped(n, w, p, WithChild(n[p], s, c, h, tag))
      BY <2>5, <2>7 DEF n
    <3> HIDE DEF h, tag
    <3>2. Relinked(n, w, p, s, c, h)
      BY <1>2, <2>3, <2>4, <3>1, Relink
    <3>3. QED
      BY <3>2 DEF h
  <2>9. Tilted(w, root_id, p, pp, tt, get_height(n[p])) /\ Grown(w, p, get_height(n[p]))
    BY <1>2, <2>2, <2>3, <2>8, LinkTilted DEF n
  <2>10. \A i \in DOMAIN n : w[i].key = n[i].key
    BY <2>8 DEF Relinked
  <2>11. QED
    BY <1>2, <1>3, <2>9, <2>10 DEF p, n
<1>6. QED
  BY <1>4, <1>5

LEMMA AscendInv == ASSUME DInv, Ascend PROVE DInv' /\ SameKeys(Nodes, Nodes')
<1> DEFINE root == frames[Len(frames)]
           p == root.id
           k == node.key
           c2 == [cache EXCEPT ![p] = Linked(root)]
           b == balance(c2, p)
           w == Over(c2, oram)
           m == balance(w, p)
           old == get_height(root)
           front == Front(frames)
           pp == Above(front)
           tt == Turn(front, k)
<1>1. /\ pc = "ascend" /\ pc' = pc /\ frames # <<>> /\ cache' = b.cache /\ cur' = b.cache[b.top]
      /\ read_count' = read_count + b.reads /\ write_count' = write_count + 1 + b.writes
      /\ frames' = front
      /\ UNCHANGED <<oram, root_id, node_count, at, node, answer>>
  BY DEF Ascend, store, Front
<1>2. /\ Typed /\ Distinct(Nodes) /\ DOMAIN Nodes \subseteq 1 .. node_count - 1 /\ Ascending
      /\ Heap(Nodes) /\ read_count \in Nat /\ write_count \in Nat
  BY <1>1, TypeParts DEF DInv, Typed, Counters
<1>3. /\ Path(Nodes, frames, root_id, k) /\ Fresh /\ k \in Nat
      /\ \A i \in 1 .. Len(frames) : frames[i].id \in DOMAIN cache
      /\ IF node.id \in DOMAIN Nodes THEN Nodes[node.id].key = k
                                     ELSE \E j \in DOMAIN Nodes : Nodes[j].key = k
  BY <1>2, NodeFields DEF Ascending, Pending, Fresh
<1>4. frames \in Seq(Node) /\ Len(frames) \in 1 .. Len(frames) /\ p \in DOMAIN cache
  <2>1. frames \in Seq(Node)
    BY <1>3 DEF Path
  <2>2. Len(frames) \in 1 .. Len(frames)
    BY <1>1, <2>1
  <2>3. QED
    BY <1>3, <2>1, <2>2
<1>5. w = Put(Nodes, p, Linked(root)) /\ DOMAIN c2 = DOMAIN cache
  BY <1>4, OverPut DEF Put, Nodes
<1>6. /\ DOMAIN w = DOMAIN Nodes /\ \A i \in DOMAIN Nodes \ {p} : w[i] = Nodes[i]
      /\ \A i \in DOMAIN Nodes : w[i].key = Nodes[i].key
      /\ Tilted(w, root_id, p, pp, tt, old) /\ Grown(w, p, old)
  <2> HIDE DEF w
  <2>1. QED
    BY <1>1, <1>2, <1>5, AscendTilted
<1>7. Balanced(c2, p)
  <2>1. p \in DOMAIN c2 /\ Tilted(Over(c2, oram), root_id, p, pp, tt, old)
    BY <1>4, <1>5, <1>6
  <2> HIDE DEF c2, p, pp, tt, old
  <2>2. QED
    BY <2>1, BalanceOver
<1>8. /\ Nodes' = m.cache /\ b.top = m.top /\ m.top \in DOMAIN cache' /\ DOMAIN c2 \subseteq DOMAIN cache'
      /\ b.reads \in Nat /\ b.writes \in Nat
  BY <1>1, <1>7 DEF Balanced, Nodes
<1>9. Kept(w, m.cache, p, old) /\ Loose(m.cache, root_id, pp, tt, m.top)
  <2> HIDE DEF w, p, pp, tt, old
  <2>1. QED
    BY <1>6, BalanceHeap
<1> DEFINE n2 == Nodes'
<1>10. /\ DOMAIN n2 = DOMAIN Nodes /\ Heap(n2)
       /\ \A i \in DOMAIN Nodes : n2[i].key = Nodes[i].key
       /\ \A i \in DOMAIN Nodes \ {p} : get_height(Nodes[i]) > old => n2[i] = Nodes[i]
       /\ Loose(n2, root_id, pp, tt, m.top)
  <2> HIDE DEF w, m, p, old, pp, tt
  <2>1. Kept(w, n2, p, old) /\ Loose(n2, root_id, pp, tt, m.top)
    BY <1>8, <1>9
  <2> HIDE DEF n2
  <2>2. QED
    BY <1>6, <2>1 DEF Kept
<1> HIDE DEF n2
<1>11. Nodes[p] = root
  BY <1>3, <1>4 DEF Path
<1>12. Path(n2, front, root_id, k) /\ Passed(front, k)
  <2>1. \A i \in DOMAIN Nodes \ {p} : get_height(Nodes[i]) > get_height(Nodes[p]) => n2[i] = Nodes[i]
    BY <1>10, <1>11
  <2>2. /\ Heap(Nodes) /\ Path(Nodes, frames, root_id, k) /\ k \in Nat /\ frames # <<>>
        /\ p = frames[Len(frames)].id /\ DOMAIN n2 = DOMAIN Nodes
    BY <1>1, <1>2, <1>3, <1>10
  <2> HIDE DEF p, k
  <2>3. Path(n2, Front(frames), root_id, k) /\ Passed(Front(frames), k)
    BY <2>1, <2>2, PathFront
  <2>4. QED
    BY <2>3
<1>13. \A i \in 1 .. Len(front) : front[i].id \in DOMAIN cache'
  <2>1. \A i \in 1 .. Len(front) : i \in 1 .. Len(frames) /\ front[i] = frames[i]
    BY <1>1, <1>4, FrontFields
  <2>2. QED
    BY <1>3, <1>5, <1>8, <2>1
<1>14. Pending'
  BY <1>1, <1>3, <1>12, <1>13 DEF Pending, Fresh, n2
<1>15. cur' = Nodes'[m.top] /\ m.top \in DOMAIN Nodes' /\ cur'.id = m.top
  <2>1. Merged(cache', oram', Nodes')
    BY OverFields DEF Nodes
  <2>2. m.top \in DOMAIN Nodes' /\ Nodes'[m.top] = cache'[m.top]
    BY <1>8, <2>1 DEF Merged
  <2>3. cur' = Nodes'[m.top]
    BY <1>1, <1>8, <2>2
  <2>4. n2[m.top].id = m.top
    BY <1>10, <2>2 DEF Heap, n2
  <2>5. QED
    BY <2>2, <2>3, <2>4 DEF n2
<1>16. Ascending'
  <2>1. IF node'.id \in DOMAIN Nodes' THEN Nodes'[node'.id].key = node'.key
                                      ELSE \E j \in DOMAIN Nodes' : Nodes'[j].key = node'.key
    BY <1>1, <1>3, <1>10 DEF n2
  <2>2. Passed(frames', node'.key) /\ cur'.id \in DOMAIN cache' /\ cur' = Nodes'[cur'.id]
    BY <1>1, <1>8, <1>12, <1>15
  <2>3. Loose(Nodes', root_id', Above(frames'), Turn(frames', node'.key), cur'.id)
    BY SMTT(30), <1>1, <1>10, <1>15 DEF n2
  <2>4. QED
    BY <1>14, <2>1, <2>2, <2>3 DEF Ascending
<1>17. Typed'
  <2>1. Stored(oram, DOMAIN Nodes')
    BY <1>2, <1>10 DEF Typed, n2
  <2>2. \A i \in DOMAIN frames' : frames'[i] \in Node
    <3>1. frames' \in Seq(Node)
      BY <1>1, <1>12 DEF Path
    <3>2. QED
      BY <3>1
  <2>3. read_count' \in Nat /\ write_count' \in Nat
    BY SMTT(30), <1>1, <1>2, <1>8
  <2>4. QED
    BY <1>1, <1>2, <1>10, <2>1, <2>2, <2>3 DEF Typed, Counters, n2
<1>18. Distinct(Nodes')
  BY <1>2, <1>10 DEF Distinct, n2
<1>19. QED
  BY <1>1, <1>2, <1>10, <1>16, <1>17, <1>18, TypePartsPrimed DEF DInv, SameKeys, n2


LEMMA UpdatePosFields ==
  ASSUME Stored(cache, DOMAIN Nodes), NEW tag \in [DOMAIN cache -> Tag], NEW i \in DOMAIN cache,
         NEW x, x = update_pos(tag)[i]
  PROVE  /\ x \in Node /\ x.id = i /\ x.key = cache[i].key
         /\ \A s \in {1, 2} : x.child[s] = cache[i].child[s] /\ x.height[s] = cache[i].height[s]
<1> DEFINE T == [s \in {1, 2} |-> IF cache[i].child[s] \in DOMAIN cache
                                  THEN tag[cache[i].child[s]] ELSE 0]
<1>1. cache[i] \in Node /\ cache[i].id = i
  BY DEF Stored
<1>2. tag[i] \in Tag
  OBVIOUS
<1>3. T \in [{1, 2} -> Tag]
  BY BoundAssumption DEF Tag
<1>4. x = [cache[i] EXCEPT !.pos_tag = tag[i], !.childrenPos = T]
  BY DEF update_pos
<1> HIDE DEF T
<1>5. QED
  BY <1>1, <1>2, <1>3, <1>4 DEF Node

LEMMA FinalizeInv == ASSUME DInv, ODS_finalize PROVE DInv' /\ SameKeys(Nodes, Nodes')
<1>1. PICK tag \in [DOMAIN cache -> Tag] : oram' = Over(update_pos(tag), oram)
  BY DEF ODS_finalize
<1>2. /\ pc = "batch" /\ pc' = "idle" /\ cache' = <<>> /\ read_count' = 0 /\ write_count' = 0
      /\ UNCHANGED <<root_id, node_count, frames, at, answer>>
  BY DEF ODS_finalize, locals
<1>3. /\ Typed /\ Avl(Nodes, root_id) /\ Distinct(Nodes) /\ DOMAIN Nodes \subseteq 1 .. node_count - 1
  BY <1>2, TypeParts DEF DInv
<1>4. Stored(cache, DOMAIN Nodes) /\ Stored(oram, DOMAIN Nodes) /\ Heap(Nodes)
  BY <1>3, HeapStored DEF Nodes, Typed
<1>5. Merged(cache, oram, Nodes)
  BY OverFields DEF Nodes
<1> DEFINE u == update_pos(tag)
           n2 == Nodes'
<1>6. Merged(u, oram, oram')
  BY <1>1, OverFields
<1>7. DOMAIN u = DOMAIN cache
  BY DEF update_pos
<1>8. DOMAIN n2 = DOMAIN oram' /\ \A i \in DOMAIN oram' : n2[i] = oram'[i]
  <2>1. Merged(cache', oram', n2)
    BY OverFields DEF Nodes
  <2>2. DOMAIN cache' = {}
    BY <1>2
  <2> HIDE DEF n2
  <2>3. QED
    BY <2>1, <2>2 DEF Merged
<1> HIDE DEF n2
<1>9. DOMAIN n2 = DOMAIN Nodes
  BY <1>5, <1>6, <1>7, <1>8 DEF Merged
<1>10. ASSUME NEW i \in DOMAIN Nodes
       PROVE  /\ n2[i] \in Node /\ n2[i].id = i /\ n2[i].key = Nodes[i].key
              /\ \A s \in {1, 2} : /\ n2[i].child[s] = Nodes[i].child[s]
                                   /\ n2[i].height[s] = Nodes[i].height[s]
  <2>1. CASE i \in DOMAIN cache
    <3>1. n2[i] = u[i] /\ Nodes[i] = cache[i]
      BY <1>5, <1>6, <1>7, <1>8, <2>1 DEF Merged
    <3>2. QED
      BY <1>4, <2>1, <3>1, UpdatePosFields
  <2>2. CASE i \notin DOMAIN cache
    <3>1. i \in DOMAIN oram /\ n2[i] = oram[i] /\ Nodes[i] = oram[i]
      BY <1>5, <1>6, <1>7, <1>8, <2>2 DEF Merged
    <3>2. QED
      BY <1>4, <3>1 DEF Stored
  <2>3. QED
    BY <2>1, <2>2
<1>11. Alike(Nodes, n2)
  BY <1>9, <1>10 DEF Alike
<1>12. Heap(n2)
  BY <1>4, <1>9, <1>10 DEF Heap
<1>13. Avl(n2, root_id)
  <2>1. PICK D : Shape(Nodes, root_id, D)
    BY <1>3 DEF Avl
  <2>2. Shape(n2, root_id, D)
    BY <1>11, <2>1, AlikeShape
  <2>3. \A i \in DOMAIN n2 : Level(n2, i)
    BY <1>3, <1>4, <1>9, <1>11, AlikeLevel DEF Avl
  <2>4. QED
    BY <1>12, <2>2, <2>3 DEF Avl
<1>14. Typed'
  <2>1. Stored(oram', DOMAIN n2)
    BY <1>8, <1>12 DEF Stored, Heap
  <2>2. QED
    BY <1>2, <1>3, <1>9, <1>12, <2>1 DEF Typed, Counters, n2
<1>15. Distinct(n2)
  BY <1>3, <1>9, <1>10 DEF Distinct
<1>16. QED
  BY <1>2, <1>3, <1>9, <1>10, <1>13, <1>14, <1>15, TypePartsPrimed DEF DInv, SameKeys, n2

\* No step leaves DInv.
LEMMA StepInv == DInv /\ [Next]_vars => DInv'
<1> SUFFICES ASSUME DInv, [Next]_vars PROVE DInv'
  OBVIOUS
<1>1. CASE ODS_start
  BY <1>1, StartInv
<1>2. CASE ODS_finalize
  BY <1>2, FinalizeInv
<1>3. ASSUME NEW k \in Key, insert(k) PROVE DInv'
  BY <1>3, InsertInv
<1>4. ASSUME NEW k \in Key, find(k) PROVE DInv'
  BY <1>4, FindInv
<1>5. CASE Descend
  BY <1>5, DescendInv
<1>6. CASE Attach
  BY <1>6, AttachInv
<1>7. CASE Ascend
  BY <1>7, AscendInv
<1>8. CASE InsertReturns
  BY <1>8, InsertReturnsInv
<1>9. CASE find_priv
  BY <1>9, FindPrivInv
<1>10. CASE FindNothing
  BY <1>10, FindNothingInv
<1>11. CASE UNCHANGED vars
  BY <1>11 DEF vars, store, counts, locals, DInv, TypeOK, Nodes, Descending, Ascending, Pending,
               Fresh
<1>12. QED
  BY <1>1, <1>2, <1>3, <1>4, <1>5, <1>6, <1>7, <1>8, <1>9, <1>10, <1>11 DEF Next, Step

\* Every action keeps the invariant, insert_priv at every depth included.
THEOREM Inductive == Spec => []DInv
<1>1. Init => DInv
  BY InitInv
<1>2. DInv /\ [Next]_vars => DInv'
  BY StepInv
<1>3. QED
  BY <1>1, <1>2, PTL DEF Spec

\* No id is used whose node neither the cache nor the ORAM has.
THEOREM TypeCorrect == Spec => []TypeOK
<1>1. DInv => TypeOK
  BY DEF DInv
<1>2. QED
  BY <1>1, Inductive, PTL

----------------------------------------------------------------------------
\* g iterates F from x.
Iterated(g, X, F, x, m) ==
    g \in [0 .. m -> X] /\ g[0] = x /\ \A d \in 1 .. m : g[d] = F[g[d - 1]]

\* The values of a function iterated m times.
LEMMA Iterates ==
  ASSUME NEW X, NEW F \in [X -> X], NEW x \in X, NEW m \in Nat
  PROVE  \E g : Iterated(g, X, F, x, m)
<1> DEFINE S == {k \in Nat : \E g : Iterated(g, X, F, x, k)}
<1>1. 0 \in S
  <2> DEFINE g == [d \in 0 .. 0 |-> x]
  <2>1. g \in [0 .. 0 -> X] /\ g[0] = x
    OBVIOUS
  <2> HIDE DEF g
  <2>2. Iterated(g, X, F, x, 0)
    BY <2>1 DEF Iterated
  <2>3. QED
    BY <2>2
<1>2. ASSUME NEW k \in 0 .. m - 1, k \in S PROVE k + 1 \in S
  <2>1. k \in Nat
    OBVIOUS
  <2>2. PICK g \in [0 .. k -> X] : g[0] = x /\ \A d \in 1 .. k : g[d] = F[g[d - 1]]
    BY <1>2 DEF Iterated
  <2> DEFINE h == [d \in 0 .. k + 1 |-> IF d = k + 1 THEN F[g[k]] ELSE g[d]]
  <2>3. h \in [0 .. k + 1 -> X]
    BY <2>1, <2>2
  <2>4. h[0] = x /\ h[k + 1] = F[g[k]] /\ \A d \in 0 .. k : h[d] = g[d]
    BY <2>1, <2>2
  <2> HIDE DEF h
  <2>5. ASSUME NEW d \in 1 .. k + 1 PROVE h[d] = F[h[d - 1]]
    <3>1. CASE d = k + 1
      BY <2>1, <2>4, <3>1
    <3>2. CASE d # k + 1
      <4>1. d \in 1 .. k /\ d \in 0 .. k /\ d - 1 \in 0 .. k
        BY <2>1, <3>2
      <4>2. QED
        BY <2>2, <2>4, <4>1
    <3>3. QED
      BY <3>1, <3>2
  <2>6. Iterated(h, X, F, x, k + 1) /\ k + 1 \in Nat
    BY <2>1, <2>3, <2>4, <2>5 DEF Iterated
  <2>7. QED
    BY <2>6
<1>3. 0 .. m \subseteq S
  <2> HIDE DEF S
  <2>1. QED
    BY <1>1, <1>2, UpwardInduction
<1>4. m \in S
  BY <1>3
<1>5. QED
  BY <1>4

Longer(l, r) == 1 + (IF l > r THEN l ELSE r)

DepthRow(n, row) ==
    [id \in {0} \cup DOMAIN n |->
       IF id = 0 THEN 0 ELSE Longer(row[n[id].child[1]], row[n[id].child[2]])]

\* The function of the depths is the one its recurrence defines.
LEMMA DepthsRows ==
  ASSUME NEW n, Heap(n), NEW t, t = Depths(n)
  PROVE  /\ t[0] = [id \in {0} \cup DOMAIN n |-> 0]
         /\ \A d \in 1 .. MaxNodes : t[d] = DepthRow(n, t[d - 1])
<1> DEFINE ids == {0} \cup DOMAIN n
           Body(f, d) == [id \in ids |->
              IF id = 0 \/ d = 0 THEN 0
              ELSE LET l == f[d - 1][n[id].child[1]]
                       r == f[d - 1][n[id].child[2]]
                   IN  1 + (IF l > r THEN l ELSE r)]
           X == [ids -> Nat]
           F == [row \in X |-> DepthRow(n, row)]
           x == [id \in ids |-> 0]
<1>1. t = CHOOSE f : f = [d \in 0 .. MaxNodes |-> Body(f, d)]
  BY DEF Depths
<1>2. MaxNodes \in Nat
  BY BoundAssumption
<1>3. F \in [X -> X] /\ x \in X
  <2>1. ASSUME NEW row \in X PROVE DepthRow(n, row) \in X
    <3>1. \A id \in DOMAIN n, s \in {1, 2} : n[id].child[s] \in ids
      BY DEF Heap
    <3>2. \A c \in ids : row[c] \in Nat
      OBVIOUS
    <3>3. \A id \in DOMAIN n : Longer(row[n[id].child[1]], row[n[id].child[2]]) \in Nat
      BY <3>1, <3>2 DEF Longer
    <3>4. QED
      BY <3>3 DEF DepthRow
  <2>2. QED
    BY <2>1
<1>4. PICK g \in [0 .. MaxNodes -> X] : g[0] = x /\ \A d \in 1 .. MaxNodes : g[d] = F[g[d - 1]]
  <2> HIDE DEF F, X, x
  <2>1. PICK g : Iterated(g, X, F, x, MaxNodes)
    BY <1>2, <1>3, Iterates
  <2>2. QED
    BY <2>1 DEF Iterated
<1>5. \A f : Body(f, 0) = x
  OBVIOUS
<1>6. \A f : \A d \in 1 .. MaxNodes : Body(f, d) = DepthRow(n, f[d - 1])
  BY <1>2 DEF DepthRow, Longer
<1> HIDE DEF Body, x
<1>7. g = [d \in 0 .. MaxNodes |-> Body(g, d)]
  <2>1. ASSUME NEW d \in 0 .. MaxNodes PROVE g[d] = Body(g, d)
    <3>1. CASE d = 0
      BY <1>4, <1>5, <3>1
    <3>2. CASE d # 0
      <4>1. d \in 1 .. MaxNodes /\ d - 1 \in 0 .. MaxNodes
        BY <1>2, <3>2
      <4>2. g[d - 1] \in X
        BY <1>4, <4>1
      <4>3. QED
        BY <1>4, <1>6, <4>1, <4>2
    <3>3. QED
      BY <3>1, <3>2
  <2>2. QED
    BY <1>4, <2>1
<1>8. t = [d \in 0 .. MaxNodes |-> Body(t, d)]
  BY <1>1, <1>7
<1>9. \A d \in 0 .. MaxNodes : t[d] = Body(t, d)
  BY <1>8
<1>10. t[0] = x
  BY <1>2, <1>5, <1>9
<1>11. \A d \in 1 .. MaxNodes : t[d] = DepthRow(n, t[d - 1])
  BY <1>2, <1>6, <1>9
<1>12. QED
  BY <1>10, <1>11 DEF x


\* A node of height h has one of every height from 1 to h below it, so no
\* height exceeds the number of the ids.
LEMMA HeightBound ==
  ASSUME NEW n, Heap(n), \A i \in DOMAIN n : Level(n, i), NEW top \in DOMAIN n
  PROVE  Height(n, top) \in 1 .. MaxNodes
<1> DEFINE h == Height(n, top)
<1>1. /\ \A i \in DOMAIN n : i \in Id /\ i # 0 /\ Height(n, i) \in Nat /\ Height(n, i) # 0
      /\ MaxNodes \in Nat /\ DOMAIN n \subseteq 1 .. MaxNodes
  <2>1. \A i \in DOMAIN n : n[i] \in Node /\ n[i].id = i
    BY DEF Heap
  <2>2. \A i \in DOMAIN n : i \in Id /\ i # 0
    BY <2>1, NodeFields
  <2>3. ASSUME NEW i \in DOMAIN n PROVE Height(n, i) \in Nat /\ Height(n, i) # 0
    <3>1. i \in {0} \cup DOMAIN n /\ i # 0
      BY <2>2
    <3>2. QED
      BY <3>1, HeightNat
  <2>4. QED
    BY <2>2, <2>3, BoundAssumption DEF Id
<1>2. ASSUME NEW i \in DOMAIN n, Height(n, i) > 1
      PROVE  \E j \in DOMAIN n : Height(n, j) = Height(n, i) - 1
  <2>1. n[i] \in Node
    BY DEF Heap
  <2>2. PICK s \in {1, 2} : get_height(n[i]) = 1 + n[i].height[s]
    BY <2>1, NodeFields
  <2>3. n[i].height[s] \in Nat /\ n[i].height[s] = Height(n, n[i].child[s])
    BY <2>1, NodeFields DEF Level
  <2>4. Height(n, i) = 1 + n[i].height[s]
    BY <1>1, <2>2 DEF Height
  <2>5. n[i].child[s] # 0
    BY <1>2, <2>3, <2>4 DEF Height
  <2>6. n[i].child[s] \in DOMAIN n
    BY <2>5 DEF Heap
  <2> DEFINE c == n[i].child[s]
             x == n[i].height[s]
  <2>7. Height(n, c) = x /\ x \in Nat /\ Height(n, i) = 1 + x /\ c \in DOMAIN n
    BY <2>3, <2>4, <2>6
  <2> HIDE DEF c, x
  <2>8. QED
    BY <2>7
<1> HIDE DEF h
<1>3. h \in Nat \ {0} /\ top \in DOMAIN n /\ Height(n, top) = h
  BY <1>1 DEF h
<1> DEFINE S == {j \in Nat : j < h => \E i \in DOMAIN n : Height(n, i) = h - j}
<1>4. 0 .. h \subseteq S
  <2>1. 0 \in S
    BY <1>3
  <2>2. ASSUME NEW j \in 0 .. h - 1, j \in S PROVE j + 1 \in S
    <3>1. SUFFICES ASSUME j + 1 < h PROVE \E i \in DOMAIN n : Height(n, i) = h - (j + 1)
      OBVIOUS
    <3>2. PICK i \in DOMAIN n : Height(n, i) = h - j
      BY <1>3, <2>2, <3>1
    <3>3. Height(n, i) > 1 /\ h - j - 1 = h - (j + 1)
      BY <1>3, <3>1, <3>2
    <3>4. QED
      BY <1>2, <3>2, <3>3
  <2> HIDE DEF S
  <2>3. QED
    BY <1>3, <2>1, <2>2, UpwardInduction
<1>5. ASSUME NEW x \in 1 .. h PROVE \E i \in DOMAIN n : Height(n, i) = x
  <2>1. h - x \in S /\ h - x < h /\ h - (h - x) = x
    BY <1>3, <1>4
  <2>2. QED
    BY <2>1
<1> DEFINE f == [x \in 1 .. h |-> CHOOSE i \in DOMAIN n : Height(n, i) = x]
<1>6. f \in [1 .. h -> 1 .. MaxNodes] /\ \A x \in 1 .. h : Height(n, f[x]) = x
  BY <1>1, <1>5
<1>7. \A x, y \in 1 .. h : f[x] = f[y] => x = y
  <2> HIDE DEF f
  <2>1. QED
    BY <1>6
<1> HIDE DEF f
<1>8. /\ IsFiniteSet(1 .. h) /\ Cardinality(1 .. h) = h
      /\ IsFiniteSet(1 .. MaxNodes) /\ Cardinality(1 .. MaxNodes) = MaxNodes
  BY <1>1, <1>3, FS_Interval
<1>9. ~(Cardinality(1 .. MaxNodes) < Cardinality(1 .. h))
  <2> DEFINE A == 1 .. h
             B == 1 .. MaxNodes
  <2>1. f \in [A -> B] /\ (\A x, y \in A : f[x] = f[y] => x = y) /\ IsFiniteSet(A) /\ IsFiniteSet(B)
    BY <1>6, <1>7, <1>8
  <2> HIDE DEF A, B
  <2>2. ~(Cardinality(B) < Cardinality(A))
    BY <2>1, FS_PigeonHole
  <2>3. QED
    BY <2>2 DEF A, B
<1>10. h \in 1 .. MaxNodes
  BY <1>1, <1>3, <1>8, <1>9
<1>11. QED
  BY <1>10 DEF h

\* The depth of a subtree is the height of its root.
LEMMA DepthIsHeight ==
  ASSUME NEW n, Heap(n), \A i \in DOMAIN n : Level(n, i), NEW c \in {0} \cup DOMAIN n
  PROVE  Depth(n)[c] = Height(n, c)
<1> DEFINE t == Depths(n)
           ids == {0} \cup DOMAIN n
           S == {d \in 0 .. MaxNodes : \A i \in ids : Height(n, i) <= d => t[d][i] = Height(n, i)}
<1>1. /\ t[0] = [i \in ids |-> 0]
      /\ \A d \in 1 .. MaxNodes : t[d] = DepthRow(n, t[d - 1])
  BY DepthsRows
<1> HIDE DEF t
<1>2. MaxNodes \in Nat /\ \A i \in ids : Height(n, i) \in Nat /\ (Height(n, i) = 0 <=> i = 0)
  BY HeightNat, BoundAssumption
<1>3. 0 \in S
  <2>1. \A i \in ids : Height(n, i) <= 0 => t[0][i] = Height(n, i)
    BY <1>1, <1>2
  <2>2. QED
    BY <1>2, <2>1
<1>4. ASSUME NEW d \in 0 .. MaxNodes - 1, d \in S PROVE d + 1 \in S
  <2>1. d + 1 \in 1 .. MaxNodes /\ (d + 1) - 1 = d /\ d \in Nat /\ d + 1 \in 0 .. MaxNodes
    BY <1>2
  <2>2. t[d + 1] = DepthRow(n, t[d])
    BY <1>1, <2>1
  <2>3. ASSUME NEW i \in ids, Height(n, i) <= d + 1 PROVE t[d + 1][i] = Height(n, i)
    <3>1. CASE i = 0
      BY <1>2, <2>2, <3>1 DEF DepthRow
    <3>2. CASE i # 0
      <4> DEFINE l == n[i].child[1]
                 r == n[i].child[2]
      <4>1. n[i] \in Node /\ l \in ids /\ r \in ids /\ i \in DOMAIN n
        BY <3>2 DEF Heap
      <4>2. t[d + 1][i] = Longer(t[d][l], t[d][r])
        BY <2>2, <3>2 DEF DepthRow
      <4>3. n[i].height[1] = Height(n, l) /\ n[i].height[2] = Height(n, r)
        BY <4>1 DEF Level
      <4> HIDE DEF l, r
      <4>4. Height(n, i) = Longer(Height(n, l), Height(n, r))
        BY <3>2, <4>3 DEF Height, get_height, Longer
      <4>5. Height(n, l) \in Nat /\ Height(n, r) \in Nat
        BY <1>2, <4>1
      <4>6. Height(n, l) <= d /\ Height(n, r) <= d
        BY <2>1, <2>3, <4>4, <4>5 DEF Longer
      <4>7. t[d][l] = Height(n, l) /\ t[d][r] = Height(n, r)
        BY <1>4, <4>1, <4>6
      <4>8. QED
        BY <4>2, <4>4, <4>7
    <3>3. QED
      BY <3>1, <3>2
  <2>4. QED
    BY <2>1, <2>3
<1>5. MaxNodes \in S
  <2> HIDE DEF S
  <2>1. 0 .. MaxNodes \subseteq S
    BY <1>2, <1>3, <1>4, UpwardInduction
  <2>2. MaxNodes \in 0 .. MaxNodes
    BY <1>2
  <2>3. QED
    BY <2>1, <2>2
<1>6. Height(n, c) <= MaxNodes
  <2>1. CASE c = 0
    BY <1>2, <2>1 DEF Height
  <2>2. CASE c # 0
    BY <1>2, <2>2, HeightBound
  <2>3. QED
    BY <2>1, <2>2
<1>7. QED
  BY <1>5, <1>6 DEF Depth, t

\* Between insertions every height in a node is that of the subtree, and those
\* of siblings differ by one at most.
THEOREM StaysBalanced == Spec => []AVLBalanced
<1>1. DInv => AVLBalanced
  <2> SUFFICES ASSUME DInv, Quiet, NEW i \in DOMAIN Nodes
               PROVE  /\ \A s \in {1, 2} : Nodes[i].height[s] = Depth(Nodes)[Nodes[i].child[s]]
                      /\ Nodes[i].height[1] - Nodes[i].height[2] \in -1 .. 1
    BY DEF AVLBalanced
  <2>1. Heap(Nodes) /\ \A j \in DOMAIN Nodes : Level(Nodes, j)
    BY DEF DInv, Avl, Quiet, Running
  <2>2. \A s \in {1, 2} : Nodes[i].child[s] \in {0} \cup DOMAIN Nodes
    BY <2>1 DEF Heap
  <2>3. \A s \in {1, 2} : Depth(Nodes)[Nodes[i].child[s]] = Height(Nodes, Nodes[i].child[s])
    BY <2>1, <2>2, DepthIsHeight
  <2>4. QED
    BY <2>1, <2>3 DEF Level
<1>2. QED
  BY <1>1, Inductive, PTL


----------------------------------------------------------------------------
OrderRow(n, row) ==
    [id \in {0} \cup DOMAIN n |->
       IF id = 0 THEN <<>> ELSE row[n[id].child[1]] \o <<id>> \o row[n[id].child[2]]]

\* The function of the traversals is the one its recurrence defines.
LEMMA OrderRows ==
  ASSUME NEW n, Heap(n), NEW t, t = InOrder(n)
  PROVE  /\ t[0] = [id \in {0} \cup DOMAIN n |-> <<>>]
         /\ \A d \in 1 .. MaxNodes : t[d] = OrderRow(n, t[d - 1])
<1> DEFINE ids == {0} \cup DOMAIN n
           Body(f, d) == [id \in ids |->
              IF id = 0 \/ d = 0 THEN <<>>
              ELSE f[d - 1][n[id].child[1]] \o <<id>> \o f[d - 1][n[id].child[2]]]
           X == [ids -> Seq(ids)]
           F == [row \in X |-> OrderRow(n, row)]
           x == [id \in ids |-> <<>>]
<1>1. t = CHOOSE f : f = [d \in 0 .. MaxNodes |-> Body(f, d)]
  BY DEF InOrder
<1>2. MaxNodes \in Nat
  BY BoundAssumption
<1>3. F \in [X -> X] /\ x \in X
  <2>1. ASSUME NEW row \in X PROVE OrderRow(n, row) \in X
    <3>1. \A id \in DOMAIN n, s \in {1, 2} : n[id].child[s] \in ids
      BY DEF Heap
    <3>2. \A c \in ids : row[c] \in Seq(ids)
      OBVIOUS
    <3>3. ASSUME NEW id \in DOMAIN n
          PROVE  row[n[id].child[1]] \o <<id>> \o row[n[id].child[2]] \in Seq(ids)
      <4> DEFINE l == row[n[id].child[1]]
                 r == row[n[id].child[2]]
      <4>1. l \in Seq(ids) /\ r \in Seq(ids) /\ <<id>> \in Seq(ids)
        BY <3>1, <3>2
      <4> HIDE DEF l, r, ids
      <4>2. l \o <<id>> \in Seq(ids)
        BY <4>1
      <4>3. l \o <<id>> \o r \in Seq(ids)
        BY <4>1, <4>2
      <4>4. QED
        BY <4>3 DEF l, r
    <3>4. <<>> \in Seq(ids)
      OBVIOUS
    <3>5. QED
      BY <3>3, <3>4 DEF OrderRow
  <2>2. QED
    BY <2>1
<1>4. PICK g \in [0 .. MaxNodes -> X] : g[0] = x /\ \A d \in 1 .. MaxNodes : g[d] = F[g[d - 1]]
  <2> HIDE DEF F, X, x
  <2>1. PICK g : Iterated(g, X, F, x, MaxNodes)
    BY <1>2, <1>3, Iterates
  <2>2. QED
    BY <2>1 DEF Iterated
<1>5. \A f : Body(f, 0) = x
  OBVIOUS
<1>6. \A f : \A d \in 1 .. MaxNodes : Body(f, d) = OrderRow(n, f[d - 1])
  BY <1>2 DEF OrderRow
<1> HIDE DEF Body, x
<1>7. g = [d \in 0 .. MaxNodes |-> Body(g, d)]
  <2>1. ASSUME NEW d \in 0 .. MaxNodes PROVE g[d] = Body(g, d)
    <3>1. CASE d = 0
      BY <1>4, <1>5, <3>1
    <3>2. CASE d # 0
      <4>1. d \in 1 .. MaxNodes /\ d - 1 \in 0 .. MaxNodes
        BY <1>2, <3>2
      <4>2. g[d - 1] \in X
        BY <1>4, <4>1
      <4>3. QED
        BY <1>4, <1>6, <4>1, <4>2
    <3>3. QED
      BY <3>1, <3>2
  <2>2. QED
    BY <1>4, <2>1
<1>8. t = [d \in 0 .. MaxNodes |-> Body(t, d)]
  BY <1>1, <1>7
<1>9. \A d \in 0 .. MaxNodes : t[d] = Body(t, d)
  BY <1>8
<1>10. t[0] = x
  BY <1>2, <1>5, <1>9
<1>11. \A d \in 1 .. MaxNodes : t[d] = OrderRow(n, t[d - 1])
  BY <1>2, <1>6, <1>9
<1>12. QED
  BY <1>10, <1>11 DEF x

Sorted(n, q) == \A i \in 1 .. Len(q) - 1 : n[q[i]].key < n[q[i + 1]].key

\* The ids of a subtree, when those of its two halves are in order.
LEMMA Joined ==
  ASSUME NEW A, NEW B, NEW l \in Seq(A), NEW r \in Seq(B), NEW a, NEW q, q = l \o <<a>> \o r
  PROVE  /\ q \in Seq({a} \cup A \cup B) /\ Len(l) \in Nat /\ Len(r) \in Nat
         /\ Len(q) = Len(l) + 1 + Len(r)
         /\ \A i \in 1 .. Len(l) : q[i] = l[i]
         /\ q[Len(l) + 1] = a
         /\ \A i \in 1 .. Len(r) : q[Len(l) + 1 + i] = r[i]
<1> DEFINE C == {a} \cup A \cup B
           q1 == l \o <<a>>
<1>1. l \in Seq(C) /\ r \in Seq(C) /\ <<a>> \in Seq(C)
  OBVIOUS
<1> HIDE DEF C
<1>2. /\ q1 \in Seq(C) /\ Len(q1) = Len(l) + 1 /\ Len(l) \in Nat /\ Len(r) \in Nat
      /\ \A i \in 1 .. Len(l) : q1[i] = l[i]
      /\ q1[Len(l) + 1] = a
  BY <1>1
<1>3. q = q1 \o r
  OBVIOUS
<1> HIDE DEF q1
<1>4. /\ q \in Seq(C) /\ Len(q) = Len(q1) + Len(r)
      /\ \A i \in 1 .. Len(q1) : q[i] = q1[i]
      /\ \A i \in 1 .. Len(r) : q[Len(q1) + i] = r[i]
  BY <1>1, <1>2, <1>3
<1>5. QED
  BY <1>2, <1>4 DEF C

\* A node a with its smaller keys in A and its greater ones in B.
Parts(n, a, A, B) == (\A j \in A : n[j].key < n[a].key) /\ \A j \in B : n[a].key < n[j].key

LEMMA JoinedSorted ==
  ASSUME NEW A, NEW B, NEW l \in Seq(A), NEW r \in Seq(B), NEW a, NEW q, q = l \o <<a>> \o r,
         NEW n, Sorted(n, l), Sorted(n, r), Parts(n, a, A, B)
  PROVE  Sorted(n, q)
<1>0. (\A j \in A : n[j].key < n[a].key) /\ \A j \in B : n[a].key < n[j].key
  BY DEF Parts
<1>1. /\ Len(l) \in Nat /\ Len(r) \in Nat /\ Len(q) = Len(l) + 1 + Len(r)
      /\ \A i \in 1 .. Len(l) : q[i] = l[i]
      /\ q[Len(l) + 1] = a
      /\ \A i \in 1 .. Len(r) : q[Len(l) + 1 + i] = r[i]
  BY Joined
<1>2. (\A i \in 1 .. Len(l) : l[i] \in A) /\ (\A i \in 1 .. Len(r) : r[i] \in B)
  OBVIOUS
<1>3. ASSUME NEW i \in 1 .. Len(q) - 1 PROVE n[q[i]].key < n[q[i + 1]].key
  <2>1. CASE i \in 1 .. Len(l) - 1
    <3>1. i \in 1 .. Len(l) /\ i + 1 \in 1 .. Len(l)
      BY <1>1, <2>1
    <3>2. QED
      BY <1>1, <2>1, <3>1 DEF Sorted
  <2>2. CASE i = Len(l)
    <3>1. i \in 1 .. Len(l)
      BY <1>1, <2>2
    <3>2. q[i] = l[i] /\ l[i] \in A /\ q[i + 1] = a
      BY <1>1, <1>2, <2>2, <3>1
    <3>3. QED
      BY <1>0, <3>2
  <2>3. CASE i = Len(l) + 1
    <3>1. 1 \in 1 .. Len(r)
      BY <1>1, <2>3
    <3>2. q[i] = a /\ q[i + 1] = r[1] /\ r[1] \in B
      BY <1>1, <1>2, <2>3, <3>1
    <3>3. QED
      BY <1>0, <3>2
  <2>4. CASE i > Len(l) + 1
    <3> DEFINE x == i - (Len(l) + 1)
    <3>1. /\ x \in 1 .. Len(r) - 1 /\ x \in 1 .. Len(r) /\ x + 1 \in 1 .. Len(r)
          /\ i = Len(l) + 1 + x /\ i + 1 = Len(l) + 1 + (x + 1)
      BY <1>1, <2>4
    <3> HIDE DEF x
    <3>2. q[i] = r[x] /\ q[i + 1] = r[x + 1]
      BY <1>1, <3>1
    <3>3. QED
      BY <3>1, <3>2 DEF Sorted
  <2>5. QED
    BY <1>1, <2>1, <2>2, <2>3, <2>4
<1>4. QED
  BY <1>3 DEF Sorted


\* q is an enumeration of A in the order of the keys.
Lists(n, q, A) == q \in Seq(A) /\ Sorted(n, q) /\ \A j \in A : \E x \in 1 .. Len(q) : q[x] = j

\* row has an ordered part of every subtree, and all of those not higher than d.
Ordered(n, D, row, d) ==
    \A i \in {0} \cup DOMAIN n :
       /\ row[i] \in Seq(D[i]) /\ Sorted(n, row[i])
       /\ Height(n, i) <= d => Lists(n, row[i], D[i])

LEMMA OrderStep ==
  ASSUME NEW n, Heap(n), \A i \in DOMAIN n : Level(n, i), NEW r, NEW D, Shape(n, r, D),
         NEW d \in Nat, NEW row, Ordered(n, D, row, d)
  PROVE  Ordered(n, D, OrderRow(n, row), d + 1)
<1>1. ASSUME NEW i \in {0} \cup DOMAIN n, NEW q, q = OrderRow(n, row)[i]
      PROVE  /\ q \in Seq(D[i]) /\ Sorted(n, q)
             /\ Height(n, i) <= d + 1 => Lists(n, q, D[i])
  <2>1. CASE i = 0
    <3>1. q = <<>> /\ D[i] = {}
      BY <1>1, <2>1 DEF OrderRow, Shape
    <3>2. QED
      BY <3>1 DEF Sorted, Lists
  <2>2. CASE i # 0
    <3> DEFINE c1 == n[i].child[1]
               c2 == n[i].child[2]
               l == row[c1]
               m == row[c2]
               A == D[c1]
               B == D[c2]
    <3>1. /\ i \in DOMAIN n /\ n[i] \in Node /\ c1 \in {0} \cup DOMAIN n /\ c2 \in {0} \cup DOMAIN n
      BY <2>2 DEF Heap
    <3>2. q = l \o <<i>> \o m
      BY <1>1, <2>2 DEF OrderRow
    <3>3. D[i] = {i} \cup A \cup B
      BY <3>1 DEF Shape
    <3>4. Parts(n, i, A, B)
      <4>1. /\ \A j \in D[n[i].child[1]] : On(1, n[j].key, n[i].key)
            /\ \A j \in D[n[i].child[2]] : On(2, n[j].key, n[i].key)
        BY <3>1 DEF Shape
      <4>2. QED
        BY <4>1 DEF On, Parts
    <3>5. l \in Seq(A) /\ Sorted(n, l) /\ m \in Seq(B) /\ Sorted(n, m)
      BY <3>1 DEF Ordered
    <3>6. Height(n, i) <= d + 1 => Lists(n, l, A) /\ Lists(n, m, B)
      <4>1. SUFFICES ASSUME Height(n, i) <= d + 1 PROVE Height(n, c1) <= d /\ Height(n, c2) <= d
        BY <3>1 DEF Ordered
      <4>2. n[i].height[1] = Height(n, c1) /\ n[i].height[2] = Height(n, c2)
        BY <3>1 DEF Level
      <4>3. Height(n, i) = get_height(n[i])
        BY <2>2 DEF Height
      <4> DEFINE h1 == Height(n, c1)
                 h2 == Height(n, c2)
                 h == Height(n, i)
      <4>4. h \in Nat /\ h > h1 /\ h > h2 /\ h1 \in Nat /\ h2 \in Nat
        BY <3>1, <4>2, <4>3, NodeFields
      <4> HIDE DEF c1, c2
      <4>5. QED
        <5>1. h <= d + 1
          BY <4>1
        <5> HIDE DEF h, h1, h2
        <5>2. h1 <= d /\ h2 <= d
          BY <4>4, <5>1
        <5>3. QED
          BY <5>2 DEF h1, h2
    <3> HIDE DEF l, m, A, B
    <3>7. /\ q \in Seq({i} \cup A \cup B) /\ Len(l) \in Nat /\ Len(m) \in Nat
          /\ Len(q) = Len(l) + 1 + Len(m)
          /\ \A x \in 1 .. Len(l) : q[x] = l[x]
          /\ q[Len(l) + 1] = i
          /\ \A x \in 1 .. Len(m) : q[Len(l) + 1 + x] = m[x]
      BY <3>2, <3>5, Joined
    <3>8. Sorted(n, q)
      BY <3>2, <3>4, <3>5, JoinedSorted
    <3>9. ASSUME Height(n, i) <= d + 1, NEW j \in D[i] PROVE \E x \in 1 .. Len(q) : q[x] = j
      <4>1. Lists(n, l, A) /\ Lists(n, m, B)
        BY <3>6, <3>9
      <4>2. CASE j = i
        <5>1. Len(l) + 1 \in 1 .. Len(q)
          BY <3>7
        <5>2. QED
          BY <3>7, <4>2, <5>1
      <4>3. CASE j \in A
        <5>1. PICK x \in 1 .. Len(l) : l[x] = j
          BY <4>1, <4>3 DEF Lists
        <5>2. x \in 1 .. Len(q) /\ q[x] = j
          BY <3>7, <5>1
        <5>3. QED
          BY <5>2
      <4>4. CASE j \in B
        <5>1. PICK x \in 1 .. Len(m) : m[x] = j
          BY <4>1, <4>4 DEF Lists
        <5>2. Len(l) + 1 + x \in 1 .. Len(q) /\ q[Len(l) + 1 + x] = j
          BY <3>7, <5>1
        <5>3. QED
          BY <5>2
      <4>5. QED
        BY <3>3, <3>9, <4>2, <4>3, <4>4
    <3>10. QED
      BY <3>3, <3>7, <3>8, <3>9 DEF Lists
  <2>3. QED
    BY <2>1, <2>2
<1>2. QED
  BY <1>1 DEF Ordered

\* In an AVL tree the enumeration meets every node once, in the order of the keys.
LEMMA OrderIsTree ==
  ASSUME NEW n, NEW r, Avl(n, r)
  PROVE  Lists(n, InOrder(n)[MaxNodes][r], DOMAIN n)
<1> DEFINE t == InOrder(n)
           ids == {0} \cup DOMAIN n
<1>1. Heap(n) /\ \A i \in DOMAIN n : Level(n, i)
  BY DEF Avl
<1>2. PICK D : Shape(n, r, D)
  BY DEF Avl
<1> DEFINE S == {d \in Nat : Ordered(n, D, t[d], d)}
<1>3. /\ t[0] = [i \in ids |-> <<>>]
      /\ \A d \in 1 .. MaxNodes : t[d] = OrderRow(n, t[d - 1])
  BY <1>1, OrderRows
<1> HIDE DEF t
<1>4. /\ MaxNodes \in Nat /\ r \in ids /\ D[0] = {} /\ D[r] = DOMAIN n
      /\ \A i \in ids : Height(n, i) \in Nat /\ (Height(n, i) = 0 <=> i = 0)
  BY <1>1, <1>2, HeightNat, BoundAssumption DEF Shape
<1>5. 0 \in S
  <2>1. ASSUME NEW i \in ids
        PROVE  /\ t[0][i] \in Seq(D[i]) /\ Sorted(n, t[0][i])
               /\ Height(n, i) <= 0 => Lists(n, t[0][i], D[i])
    <3>1. t[0][i] = <<>>
      BY <1>3
    <3>2. <<>> \in Seq(D[i]) /\ Sorted(n, <<>>)
      BY DEF Sorted
    <3>3. Height(n, i) <= 0 => D[i] = {}
      <4>1. Height(n, i) \in Nat /\ (Height(n, i) = 0 <=> i = 0)
        BY <1>4
      <4>2. QED
        BY <1>4, <4>1
    <3>4. QED
      BY <3>1, <3>2, <3>3 DEF Lists
  <2>2. QED
    BY <2>1 DEF Ordered
<1>6. ASSUME NEW d \in 0 .. MaxNodes - 1, d \in S PROVE d + 1 \in S
  <2>1. d + 1 \in 1 .. MaxNodes /\ (d + 1) - 1 = d /\ d \in Nat /\ d + 1 \in Nat
    BY <1>4
  <2>2. t[d + 1] = OrderRow(n, t[d])
    BY <1>3, <2>1
  <2>3. Ordered(n, D, OrderRow(n, t[d]), d + 1)
    BY <1>1, <1>2, <1>6, <2>1, OrderStep
  <2>4. QED
    BY <2>1, <2>2, <2>3
<1>7. Ordered(n, D, t[MaxNodes], MaxNodes)
  <2>1. 0 .. MaxNodes \subseteq S
    <3> HIDE DEF S
    <3>1. QED
      BY <1>4, <1>5, <1>6, UpwardInduction
  <2>2. MaxNodes \in 0 .. MaxNodes
    BY <1>4
  <2>3. QED
    BY <2>1, <2>2
<1>8. Height(n, r) <= MaxNodes
  <2>1. CASE r = 0
    BY <1>4, <2>1 DEF Height
  <2>2. CASE r # 0
    BY <1>1, <1>4, <2>2, HeightBound
  <2>3. QED
    BY <2>1, <2>2
<1>9. QED
  BY <1>4, <1>7, <1>8 DEF Ordered, t

\* Between insertions the tree holds every node.
LEMMA TreeHoldsAll ==
  ASSUME DInv, Quiet
  PROVE  Sorted(Nodes, Tree) /\ {Tree[i] : i \in DOMAIN Tree} = DOMAIN Nodes
<1> DEFINE t == Tree
           A == DOMAIN Nodes
           X == DOMAIN t
<1>1. Avl(Nodes, root_id)
  BY DEF DInv, Quiet, Running
<1>2. Lists(Nodes, t, DOMAIN Nodes)
  BY <1>1, OrderIsTree DEF Tree
<1> HIDE DEF t
<1>3. /\ t \in Seq(DOMAIN Nodes) /\ DOMAIN t = 1 .. Len(t) /\ Sorted(Nodes, t)
      /\ \A j \in DOMAIN Nodes : \E x \in 1 .. Len(t) : t[x] = j
  BY <1>2 DEF Lists
<1>4. (\A x \in X : t[x] \in A) /\ \A j \in A : \E x \in X : t[x] = j
  BY <1>3
<1> HIDE DEF A, X
<1>5. {t[i] : i \in X} = A
  BY <1>4
<1>6. QED
  BY <1>3, <1>5 DEF A, X, t

\* Between insertions every node is in the tree, in the order of the keys.
THEOREM StaysSearchTree == Spec => []SearchTree
<1>1. DInv => SearchTree
  BY TreeHoldsAll DEF SearchTree, Sorted
<1>2. QED
  BY <1>1, Inductive, PTL


----------------------------------------------------------------------------
\* The map of the keys of the nodes ids of n.
DictOf(n, ids) == [k \in {n[i].key : i \in ids} |-> CHOOSE i \in ids : n[i].key = k]

Held == IF Quiet THEN DOMAIN Nodes ELSE DOMAIN Nodes \ {node.id}

\* The refinement mapping, in terms of the nodes.
LEMMA BarParts == DInv => DictBar = DictOf(Nodes, Held)
<1> SUFFICES ASSUME DInv PROVE DictBar = DictOf(Nodes, Held)
  OBVIOUS
<1> DEFINE t == Tree
           ids == IF Quiet THEN {t[i] : i \in DOMAIN t} ELSE DOMAIN Nodes \ {node.id}
<1>1. ids = Held
  BY TreeHoldsAll DEF Held
<1>2. DictBar = DictOf(Nodes, ids)
  BY DEF DictBar, DictOf
<1>3. QED
  BY <1>1, <1>2

LEMMA BarPartsPrimed == DInv' => DictBar' = DictOf(Nodes', Held')
<1>1. (DInv => DictBar = DictOf(Nodes, Held))'
  BY BarParts, PTL
<1>2. QED
  BY <1>1

\* d maps the keys of the nodes ids of n.
Maps(d, n, ids) == DOMAIN d = {n[i].key : i \in ids} /\ \A i \in ids : d[n[i].key] = i

LEMMA DictOfFields ==
  ASSUME NEW n, Distinct(n), NEW ids \in SUBSET DOMAIN n
  PROVE  Maps(DictOf(n, ids), n, ids)
<1>1. ASSUME NEW i \in ids PROVE (CHOOSE j \in ids : n[j].key = n[i].key) = i
  BY DEF Distinct
<1>2. QED
  BY <1>1 DEF DictOf, Maps

LEMMA DictOfSame ==
  ASSUME NEW n, NEW m, NEW ids, \A i \in ids : m[i].key = n[i].key
  PROVE  DictOf(m, ids) = DictOf(n, ids)
<1>1. {m[i].key : i \in ids} = {n[i].key : i \in ids}
  OBVIOUS
<1>2. \A k : (CHOOSE i \in ids : m[i].key = k) = (CHOOSE i \in ids : n[i].key = k)
  OBVIOUS
<1>3. QED
  BY <1>1, <1>2 DEF DictOf

LEMMA BarInit == Init => Map!Init
<1> SUFFICES ASSUME Init PROVE Map!Init
  OBVIOUS
<1>1. DInv
  BY InitInv
<1>2. DOMAIN Nodes = {} /\ pc = "idle" /\ answer = 0
  <2>1. oram = <<>> /\ cache = <<>>
    BY DEF Init
  <2>2. DOMAIN oram = {} /\ DOMAIN cache = {}
    BY <2>1
  <2>3. DOMAIN Nodes = DOMAIN cache \cup DOMAIN oram
    BY OverFields DEF Merged, Nodes
  <2>4. QED
    BY <2>2, <2>3 DEF Init
<1>3. Held = {}
  BY <1>2 DEF Held
<1>4. DictBar = <<>>
  <2>1. DictBar = DictOf(Nodes, {})
    BY <1>1, <1>3, BarParts
  <2>2. DictOf(Nodes, {}) = <<>>
    BY DEF DictOf
  <2>3. QED
    BY <2>1, <2>2
<1>5. RequestBar = <<"none", 0, 0>>
  BY <1>2 DEF RequestBar
<1>6. QED
  BY <1>2, <1>4, <1>5 DEF Map!Init, Map!NoRequest


\* A step that changes neither the map, nor the request, nor the answer.
BarSame == DictBar' = DictBar /\ RequestBar' = RequestBar /\ answer' = answer

BarStep == [Map!Next]_<<DictBar, RequestBar, answer>>

\* A step that leaves the map alone.
LEMMA SameStep == BarSame => BarStep
BY DEF BarSame, BarStep

LEMMA HeldNodes ==
  ASSUME DInv, DInv', Held' = Held, \A i \in Held : Nodes'[i].key = Nodes[i].key
  PROVE  DictBar' = DictBar
<1> DEFINE n == Nodes
           m == Nodes'
           ids == Held
           ids2 == Held'
<1>1. DictBar = DictOf(n, ids) /\ DictBar' = DictOf(m, ids2) /\ ids2 = ids
      /\ \A i \in ids : m[i].key = n[i].key
  BY BarParts, BarPartsPrimed
<1> HIDE DEF n, m, ids, ids2
<1>2. DictOf(m, ids) = DictOf(n, ids)
  BY <1>1, DictOfSame
<1>3. QED
  BY <1>1, <1>2

LEMMA BarStart == ASSUME DInv, DInv', ODS_start PROVE BarSame
<1>1. /\ pc = "idle" /\ pc' = "batch" /\ cache' = <<>> /\ cache = <<>>
      /\ UNCHANGED <<oram, answer>>
  BY DEF ODS_start, store, DInv
<1>2. Nodes' = Nodes
  BY <1>1 DEF Nodes
<1>3. Held' = Held
  BY <1>1, <1>2 DEF Held, Quiet, Running
<1>4. DictBar' = DictBar
  BY <1>2, <1>3, HeldNodes
<1>5. RequestBar' = RequestBar
  BY <1>1 DEF RequestBar
<1>6. QED
  BY <1>1, <1>4, <1>5 DEF BarSame

LEMMA BarFinalize == ASSUME DInv, DInv', ODS_finalize PROVE BarSame
<1>1. pc = "batch" /\ pc' = "idle" /\ answer' = answer
  BY DEF ODS_finalize
<1>2. DOMAIN Nodes' = DOMAIN Nodes /\ \A i \in DOMAIN Nodes : Nodes'[i].key = Nodes[i].key
  BY FinalizeInv DEF SameKeys
<1>3. Held' = Held /\ Held = DOMAIN Nodes
  BY <1>1, <1>2 DEF Held, Quiet, Running
<1>4. DictBar' = DictBar
  BY <1>2, <1>3, HeldNodes
<1>5. RequestBar' = RequestBar
  BY <1>1 DEF RequestBar
<1>6. QED
  BY <1>1, <1>4, <1>5 DEF BarSame

LEMMA BarInsert == ASSUME DInv, DInv', NEW k \in Key, insert(k) PROVE BarStep
<1>1. /\ pc = "batch" /\ pc' = "descend" /\ node_count <= MaxNodes
      /\ node' = NewNode(node_count, k) /\ answer' = 0
      /\ UNCHANGED <<oram, cache>>
  BY DEF insert
<1>2. Nodes' = Nodes
  BY <1>1 DEF Nodes
<1>3. DOMAIN Nodes \subseteq 1 .. node_count - 1 /\ node_count \in 1 .. MaxNodes + 1
  BY InvFacts
<1>4. node_count \in 1 .. MaxNodes /\ node_count \notin DOMAIN Nodes
  BY <1>1, <1>3, BoundAssumption
<1>5. node'.id = node_count /\ node'.key = k
  BY <1>1 DEF NewNode
<1>6. Held' = Held
  BY <1>1, <1>2, <1>4, <1>5 DEF Held, Quiet, Running
<1>7. DictBar' = DictBar
  BY <1>2, <1>6, HeldNodes
<1>8. RequestBar = <<"none", 0, 0>> /\ RequestBar' = <<"insert", k, node_count>>
  BY <1>1, <1>5 DEF RequestBar
<1>9. Map!Request(<<"insert", k, node_count>>)
  BY <1>1, <1>7, <1>8 DEF Map!Request, Map!NoRequest
<1>10. QED
  BY <1>4, <1>9 DEF BarStep, Map!Next

LEMMA BarFind == ASSUME DInv, DInv', NEW k \in Key, find(k) PROVE BarStep
<1>1. /\ pc = "batch" /\ pc' = "find" /\ node' = NewNode(0, k) /\ answer' = 0
      /\ UNCHANGED <<oram, cache>>
  BY DEF find, store
<1>2. Nodes' = Nodes
  BY <1>1 DEF Nodes
<1>3. Held' = Held
  <2>1. 0 \notin DOMAIN Nodes /\ node'.id = 0
    BY <1>1, InvFacts DEF NewNode
  <2>2. QED
    BY <1>1, <1>2, <2>1 DEF Held, Quiet, Running
<1>4. DictBar' = DictBar
  BY <1>2, <1>3, HeldNodes
<1>5. node'.key = k
  BY <1>1 DEF NewNode
<1>6. RequestBar = <<"none", 0, 0>> /\ RequestBar' = <<"find", k, 0>>
  BY <1>1, <1>5 DEF RequestBar
<1>7. Map!Request(<<"find", k, 0>>)
  BY <1>1, <1>4, <1>6 DEF Map!Request, Map!NoRequest
<1>8. QED
  BY <1>7 DEF BarStep, Map!Next

LEMMA BarDescend == ASSUME DInv, DInv', Descend PROVE BarSame
<1>1. /\ pc = "descend" /\ pc' \in {"descend", "ascend"} /\ at # 0 /\ cache' = Fetch(cache, at)
      /\ UNCHANGED <<oram, node, answer>>
  BY DEF Descend, store
<1>2. at \in DOMAIN Nodes
  BY <1>1, InvFacts
<1>3. Nodes' = Nodes
  BY <1>1, <1>2, FetchNodes
<1>4. Held' = Held
  BY <1>1, <1>3 DEF Held, Quiet, Running
<1>5. DictBar' = DictBar
  BY <1>3, <1>4, HeldNodes
<1>6. RequestBar' = RequestBar
  BY <1>1 DEF RequestBar
<1>7. QED
  BY <1>1, <1>5, <1>6 DEF BarSame

LEMMA BarAttach == ASSUME DInv, DInv', Attach PROVE BarSame
<1>1. pc = "descend" /\ pc' = "ascend" /\ UNCHANGED <<node, answer>>
  BY DEF Attach
<1>2. /\ DOMAIN Nodes' = DOMAIN Nodes \cup {node.id}
      /\ \A i \in DOMAIN Nodes : Nodes'[i] = Nodes[i]
  BY AttachInv DEF Added
<1>3. node.id \notin DOMAIN Nodes
  BY <1>1 DEF DInv, Descending
<1>4. Held' = Held /\ Held = DOMAIN Nodes
  BY <1>1, <1>2, <1>3 DEF Held, Quiet, Running
<1>5. DictBar' = DictBar
  BY <1>2, <1>4, HeldNodes
<1>6. RequestBar' = RequestBar
  BY <1>1 DEF RequestBar
<1>7. QED
  BY <1>1, <1>5, <1>6 DEF BarSame

LEMMA BarAscend == ASSUME DInv, DInv', Ascend PROVE BarSame
<1>1. pc = "ascend" /\ pc' = "ascend" /\ UNCHANGED <<node, answer>>
  BY DEF Ascend
<1>2. DOMAIN Nodes' = DOMAIN Nodes /\ \A i \in DOMAIN Nodes : Nodes'[i].key = Nodes[i].key
  BY AscendInv DEF SameKeys
<1>3. Held' = Held /\ Held \subseteq DOMAIN Nodes
  <2>1. Held = DOMAIN Nodes \ {node.id} /\ Held' = DOMAIN Nodes' \ {node'.id}
    BY <1>1 DEF Held, Quiet, Running
  <2>2. node'.id = node.id
    BY <1>1
  <2>3. QED
    BY <1>2, <2>1, <2>2
<1>4. DictBar' = DictBar
  BY <1>2, <1>3, HeldNodes
<1>5. RequestBar' = RequestBar
  BY <1>1 DEF RequestBar
<1>6. QED
  BY <1>1, <1>4, <1>5 DEF BarSame

\* The new node is in the map when the outermost call returns, and not before;
\* a node whose key was there is not.
LEMMA BarReturns == ASSUME DInv, DInv', InsertReturns PROVE BarStep
<1> DEFINE k == node.key
           id == node.id
           old == DictBar
           new == DictBar'
<1>1. /\ pc = "ascend" /\ pc' = "batch" /\ UNCHANGED <<oram, cache, answer>>
  BY DEF InsertReturns, Return
<1>2. Nodes' = Nodes
  BY <1>1 DEF Nodes
<1>3. /\ Distinct(Nodes) /\ node \in Node /\ node.id = node_count - 1
      /\ IF id \in DOMAIN Nodes THEN Nodes[id].key = k
                                ELSE \E j \in DOMAIN Nodes : Nodes[j].key = k
  BY <1>1 DEF DInv, Ascending, Pending, Fresh
<1>4. k \in Key /\ id \in 1 .. MaxNodes
  BY <1>3, NodeFields DEF Id
<1>5. /\ old = DictOf(Nodes, DOMAIN Nodes \ {id}) /\ new = DictOf(Nodes, DOMAIN Nodes)
  <2>1. Held = DOMAIN Nodes \ {id} /\ Held' = DOMAIN Nodes
    BY <1>1, <1>2 DEF Held, Quiet, Running
  <2>2. QED
    BY <1>2, <2>1, BarParts, BarPartsPrimed
<1>6. /\ old = [j \in DOMAIN old |-> old[j]] /\ new = [j \in DOMAIN new |-> new[j]]
  BY <1>5 DEF DictOf
<1> DEFINE n == Nodes
           ids == DOMAIN Nodes
           rest == ids \ {id}
<1> HIDE DEF old, new, n
<1>7. /\ DOMAIN old = {n[i].key : i \in rest} /\ \A i \in rest : old[n[i].key] = i
      /\ DOMAIN new = {n[i].key : i \in ids} /\ \A i \in ids : new[n[i].key] = i
  <2>1. /\ ids \in SUBSET DOMAIN n /\ rest \in SUBSET DOMAIN n /\ Distinct(n)
        /\ old = DictOf(n, rest) /\ new = DictOf(n, ids)
    BY <1>3, <1>5 DEF n
  <2> HIDE DEF ids, rest
  <2>2. Maps(DictOf(n, rest), n, rest) /\ Maps(DictOf(n, ids), n, ids)
    BY <2>1, DictOfFields
  <2>3. QED
    BY <2>1, <2>2 DEF Maps
<1>8. DOMAIN new = DOMAIN old \cup {k} /\ \A i \in DOMAIN old : new[i] = old[i]
  <2>1. IF id \in ids THEN n[id].key = k ELSE \E j \in ids : n[j].key = k
    BY <1>3 DEF n
  <2> HIDE DEF id, k, ids
  <2>2. QED
    BY <1>7, <2>1
<1>9. k \notin DOMAIN old => new[k] = id
  <2>1. IF id \in ids THEN n[id].key = k ELSE \E j \in ids : n[j].key = k
    BY <1>3 DEF n
  <2> HIDE DEF id, k, ids
  <2>2. QED
    BY <1>7, <2>1
<1>10. new = [j \in DOMAIN old \cup {k} |-> IF j \in DOMAIN old THEN old[j] ELSE id]
  BY <1>6, <1>8, <1>9
<1>11. RequestBar = <<"insert", k, id>> /\ RequestBar' = <<"none", 0, 0>>
  BY <1>1 DEF RequestBar
<1>12. Map!Insert(k, id)
  BY <1>1, <1>10, <1>11 DEF Map!Insert, Map!NoRequest, old, new
<1>13. QED
  BY <1>4, <1>12 DEF BarStep, Map!Next


\* What a search has found is what the map says of its key.
LEMMA BarFound == ASSUME DInv, DInv', find_priv PROVE BarStep
<1> DEFINE root == Fetch(cache, at)[at]
           k == node.key
           d == DictBar
<1>1. /\ pc = "find" /\ at # 0 /\ cache' = Fetch(cache, at) /\ oram' = oram
      /\ \/ /\ root.key = k /\ answer' = root.id /\ pc' = "batch"
         \/ /\ root.key # k /\ answer' = answer /\ pc' = pc /\ node' = node
  BY DEF find_priv, store, Return
<1>2. at \in DOMAIN Nodes /\ 0 \notin DOMAIN Nodes /\ Distinct(Nodes) /\ Heap(Nodes)
  BY <1>1, InvFacts
<1>3. Nodes' = Nodes /\ root = Nodes[at]
  BY <1>1, <1>2, FetchNodes
<1>4. root.id = at
  BY <1>2, <1>3 DEF Heap
<1>5. node.id = 0 /\ k \in Key
  BY <1>1 DEF DInv
<1> HIDE DEF root
<1>6. Held = DOMAIN Nodes /\ Held' = DOMAIN Nodes
  BY <1>1, <1>2, <1>3, <1>5 DEF Held, Quiet, Running
<1>7. DictBar' = d
  BY <1>3, <1>6, HeldNodes
<1>8. CASE root.key = k
  <2>1. d = DictOf(Nodes, DOMAIN Nodes)
    BY <1>6, BarParts
  <2> DEFINE ids == DOMAIN Nodes
             n == Nodes
  <2>2. ids \in SUBSET DOMAIN n /\ Distinct(n) /\ d = DictOf(n, ids)
    BY <1>2, <2>1
  <2> HIDE DEF ids, n, d, k
  <2>3. DOMAIN d = {n[i].key : i \in ids} /\ \A i \in ids : d[n[i].key] = i
    <3>1. Maps(DictOf(n, ids), n, ids)
      BY <2>2, DictOfFields
    <3>2. QED
      BY <2>2, <3>1 DEF Maps
  <2>4. at \in ids /\ n[at].key = k
    BY <1>2, <1>3, <1>8 DEF ids, n
  <2>5. k \in DOMAIN d /\ d[k] = at
    BY <2>3, <2>4
  <2>6. answer' = at /\ pc' = "batch"
    BY <1>1, <1>4, <1>8
  <2>7. RequestBar = <<"find", k, 0>> /\ RequestBar' = <<"none", 0, 0>>
    BY <1>1, <2>6 DEF RequestBar, k
  <2>8. Map!Find(k)
    BY <1>7, <2>5, <2>6, <2>7 DEF Map!Find, Map!NoRequest, d
  <2>9. QED
    BY <1>5, <2>8 DEF BarStep, Map!Next
<1>9. CASE root.key # k
  <2>1. RequestBar' = RequestBar /\ answer' = answer
    BY <1>1, <1>9 DEF RequestBar
  <2>2. QED
    BY <1>7, <2>1, SameStep DEF BarSame
<1>10. QED
  BY <1>8, <1>9

LEMMA BarFoundNothing == ASSUME DInv, DInv', FindNothing PROVE BarStep
<1> DEFINE k == node.key
           d == DictBar
<1>1. /\ pc = "find" /\ at = 0 /\ answer' = 0 /\ pc' = "batch" /\ UNCHANGED <<oram, cache>>
  BY DEF FindNothing, store, Return
<1>2. 0 \notin DOMAIN Nodes /\ Distinct(Nodes)
  BY InvFacts
<1>3. Nodes' = Nodes
  BY <1>1 DEF Nodes
<1>4. node.id = 0 /\ k \in Key /\ Covers(Nodes, root_id, 0, k)
  BY <1>1 DEF DInv
<1>5. Held = DOMAIN Nodes /\ Held' = DOMAIN Nodes
  BY <1>1, <1>2, <1>3, <1>4 DEF Held, Quiet, Running
<1>6. DictBar' = d
  BY <1>3, <1>5, HeldNodes
<1>7. \A j \in DOMAIN Nodes : Nodes[j].key # k
  BY <1>4 DEF Covers, Shape
<1>8. k \notin DOMAIN d
  <2>1. d = DictOf(Nodes, DOMAIN Nodes)
    BY <1>5, BarParts
  <2>2. DOMAIN d = {Nodes[i].key : i \in DOMAIN Nodes}
    BY <2>1 DEF DictOf
  <2>3. QED
    BY <1>7, <2>2
<1>9. RequestBar = <<"find", k, 0>> /\ RequestBar' = <<"none", 0, 0>>
  BY <1>1 DEF RequestBar
<1>10. Map!Find(k)
  BY <1>1, <1>6, <1>8, <1>9 DEF Map!Find, Map!NoRequest
<1>11. QED
  BY <1>4, <1>10 DEF BarStep, Map!Next

\* Every step is a step of the map or leaves it alone.
LEMMA BarNext == DInv /\ DInv' /\ [Next]_vars => BarStep
<1> SUFFICES ASSUME DInv, DInv', [Next]_vars PROVE BarStep
  OBVIOUS
<1>1. CASE ODS_start
  BY <1>1, BarStart, SameStep
<1>2. CASE ODS_finalize
  BY <1>2, BarFinalize, SameStep
<1>3. ASSUME NEW k \in Key, insert(k) PROVE BarStep
  BY <1>3, BarInsert
<1>4. ASSUME NEW k \in Key, find(k) PROVE BarStep
  BY <1>4, BarFind
<1>5. CASE Descend
  BY <1>5, BarDescend, SameStep
<1>6. CASE Attach
  BY <1>6, BarAttach, SameStep
<1>7. CASE Ascend
  BY <1>7, BarAscend, SameStep
<1>8. CASE InsertReturns
  BY <1>8, BarReturns
<1>9. CASE find_priv
  BY <1>9, BarFound
<1>10. CASE FindNothing
  BY <1>10, BarFoundNothing
<1>11. CASE UNCHANGED vars
  <2>1. Nodes' = Nodes /\ Held' = Held
    BY <1>11 DEF vars, store, counts, locals, Nodes, Held, Quiet, Running
  <2>2. DictBar' = DictBar
    BY <2>1, HeldNodes
  <2>3. RequestBar' = RequestBar /\ answer' = answer
    BY <1>11 DEF vars, store, counts, locals, RequestBar
  <2>4. QED
    BY <2>2, <2>3, SameStep DEF BarSame
<1>12. QED
  BY <1>1, <1>2, <1>3, <1>4, <1>5, <1>6, <1>7, <1>8, <1>9, <1>10, <1>11 DEF Next, Step

\* The tree, the cache and the ORAM implement the map: rotations and flushes lose
\* no key, a key stays with its first node, and a search returns that node.
THEOREM DictionaryImplemented == Spec => ImplementsDictionary
<1>1. Init => Map!Init
  BY BarInit
<1>2. DInv /\ DInv' /\ [Next]_vars => [Map!Next]_<<DictBar, RequestBar, answer>>
  BY BarNext DEF BarStep
<1>3. QED
  BY <1>1, <1>2, Inductive, PTL DEF Spec, ImplementsDictionary, Map!Spec

=============================================================================
