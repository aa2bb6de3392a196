------------------------- MODULE ClientCacheProofs -------------------------
(***************************************************************************)
(* The cache keeps what it was given, for any nodes, values and sizes: its *)
(* map and its table name the same nodes, so that what put evicts is       *)
(* another node than the one just put; and the table has its ids in the    *)
(* order of their use, so that it is the one used longest ago.             *)
(***************************************************************************)
EXTENDS ClientCache, FiniteSetTheorems, SequenceTheorems, TLAPS

Distinct(s) == \A m, n \in DOMAIN s : s[m] = s[n] => m = n

\* Sequences of ids without repetition.
Table(s) == s \in Seq(Id) /\ Distinct(s)

\* Erasing an id from a table leaves a table of the other ids.
LEMMA ErasedTable ==
  ASSUME NEW s, Table(s), NEW id \in Id
  PROVE  Table(Erase(s, id)) /\ Ids(Erase(s, id)) = Ids(s) \ {id}
<1>1. CASE id \notin Ids(s)
  BY <1>1 DEF Erase
<1>2. CASE id \in Ids(s)
  <2> DEFINE i == CHOOSE j \in DOMAIN s : s[j] = id /\ \A n \in 1 .. j - 1 : s[n] # id
             t == [j \in 1 .. Len(s) - 1 |-> IF j < i THEN s[j] ELSE s[j + 1]]
  <2>1. s \in Seq(Id) /\ Len(s) \in Nat /\ DOMAIN s = 1 .. Len(s) /\ Distinct(s)
    BY DEF Table
  <2>2. PICK k \in DOMAIN s : s[k] = id
    BY <1>2 DEF Ids
  <2>3. \A n \in 1 .. k - 1 : s[n] # id
    BY <2>1, <2>2 DEF Distinct
  <2>4. i \in DOMAIN s /\ s[i] = id
    BY <2>2, <2>3
  <2>5. Erase(s, id) = t
    BY <1>2 DEF Erase
  <2> HIDE DEF i
  <2>6. Len(s) - 1 \in Nat /\ i \in 1 .. Len(s)
    BY <2>1, <2>4
  <2>7. \A j \in 1 .. Len(s) - 1 : t[j] = IF j < i THEN s[j] ELSE s[j + 1]
    OBVIOUS
  <2>8. t \in [1 .. Len(s) - 1 -> Id]
    BY <2>1, <2>6
  <2> HIDE DEF t
  <2>9. t \in Seq(Id) /\ DOMAIN t = 1 .. Len(s) - 1
    <3> DEFINE N == Len(s) - 1
    <3>1. N \in Nat /\ t \in [1 .. N -> Id]
      BY <2>6, <2>8
    <3> HIDE DEF N
    <3>2. t \in Seq(Id) /\ DOMAIN t = 1 .. N
      BY <3>1
    <3>3. QED
      BY <3>2 DEF N
  <2>10. Distinct(t)
    <3> SUFFICES ASSUME NEW m \in 1 .. Len(s) - 1, NEW n \in 1 .. Len(s) - 1, t[m] = t[n]
                 PROVE m = n
      BY <2>9 DEF Distinct
    <3> DEFINE p(j) == IF j < i THEN j ELSE j + 1
    <3>1. /\ p(m) \in 1 .. Len(s) /\ t[m] = s[p(m)]
          /\ p(n) \in 1 .. Len(s) /\ t[n] = s[p(n)]
      BY <2>6, <2>7
    <3>2. p(m) = p(n)
      BY <2>1, <3>1 DEF Distinct
    <3>3. QED
      BY <2>6, <3>2
  <2>11. Ids(t) = Ids(s) \ {id}
    <3>1. ASSUME NEW j \in DOMAIN t PROVE t[j] \in Ids(s) \ {id}
      <4>1. j \in 1 .. Len(s) - 1
        BY <2>9
      <4>2. PICK m \in DOMAIN s : t[j] = s[m] /\ m # i
        <5>1. CASE j < i
          <6>1. j \in DOMAIN s /\ j # i /\ t[j] = s[j]
            BY <2>1, <2>6, <2>7, <4>1, <5>1
          <6>2. QED
            BY <6>1
        <5>2. CASE ~(j < i)
          <6>1. j + 1 \in DOMAIN s /\ j + 1 # i /\ t[j] = s[j + 1]
            BY <2>1, <2>6, <2>7, <4>1, <5>2
          <6>2. QED
            BY <6>1
        <5>3. QED
          BY <5>1, <5>2
      <4>3. s[m] # id
        BY <2>1, <2>4, <4>2 DEF Distinct
      <4>4. QED
        BY <4>2, <4>3 DEF Ids
    <3>2. ASSUME NEW j \in DOMAIN s, s[j] # id PROVE s[j] \in Ids(t)
      <4>1. j \in 1 .. Len(s) /\ j # i
        BY <2>1, <2>4, <3>2
      <4>2. CASE j < i
        <5>1. j \in DOMAIN t /\ t[j] = s[j]
          BY <2>6, <2>7, <2>9, <4>1, <4>2
        <5>2. QED
          BY <5>1 DEF Ids
      <4>3. CASE j > i
        <5>1. j - 1 \in DOMAIN t /\ t[j - 1] = s[j]
          BY <2>6, <2>7, <2>9, <4>1, <4>3
        <5>2. QED
          BY <5>1 DEF Ids
      <4>4. QED
        BY <2>6, <4>1, <4>2, <4>3
    <3>3. QED
      BY <3>1, <3>2 DEF Ids
  <2>12. QED
    BY <2>5, <2>9, <2>10, <2>11 DEF Table
<1>3. QED
  BY <1>1, <1>2

\* An id in front of a table that does not have it.
LEMMA FrontTable ==
  ASSUME NEW s, Table(s), NEW id \in Id, id \notin Ids(s)
  PROVE  /\ Table(<<id>> \o s) /\ Ids(<<id>> \o s) = Ids(s) \cup {id}
         /\ (<<id>> \o s)[1] = id
<1> DEFINE t == <<id>> \o s
<1>1. s \in Seq(Id) /\ Len(s) \in Nat /\ DOMAIN s = 1 .. Len(s) /\ Distinct(s)
  BY DEF Table
<1>2. t \in Seq(Id) /\ Len(t) = Len(s) + 1 /\ DOMAIN t = 1 .. Len(s) + 1
  BY <1>1
<1>3. t[1] = id /\ \A j \in 2 .. Len(s) + 1 : t[j] = s[j - 1]
  BY <1>1
<1>4. \A j \in 2 .. Len(s) + 1 : j - 1 \in DOMAIN s /\ t[j] \in Ids(s)
  BY <1>1, <1>3 DEF Ids
<1> HIDE DEF t
<1>5. Distinct(t)
  <2> SUFFICES ASSUME NEW m \in DOMAIN t, NEW n \in DOMAIN t, t[m] = t[n] PROVE m = n
    BY DEF Distinct
  <2>1. CASE m = 1 \/ n = 1
    BY <1>1, <1>2, <1>3, <1>4, <2>1
  <2>2. CASE m # 1 /\ n # 1
    <3>1. m \in 2 .. Len(s) + 1 /\ n \in 2 .. Len(s) + 1
      BY <1>1, <1>2, <2>2
    <3>2. s[m - 1] = s[n - 1] /\ m - 1 \in DOMAIN s /\ n - 1 \in DOMAIN s
      BY <1>3, <1>4, <3>1
    <3>3. m - 1 = n - 1
      BY <1>1, <3>2 DEF Distinct
    <3>4. QED
      BY <3>1, <3>3
  <2>3. QED
    BY <2>1, <2>2
<1>6. Ids(t) = Ids(s) \cup {id}
  <2>1. ASSUME NEW j \in DOMAIN t PROVE t[j] \in Ids(s) \cup {id}
    BY <1>1, <1>2, <1>3, <1>4
  <2>2. ASSUME NEW j \in DOMAIN s PROVE s[j] \in Ids(t)
    <3>1. j + 1 \in DOMAIN t /\ t[j + 1] = s[j]
      BY <1>1, <1>2, <1>3
    <3>2. QED
      BY <3>1 DEF Ids
  <2>3. id \in Ids(t)
    <3>1. 1 \in DOMAIN t
      BY <1>1, <1>2
    <3>2. QED
      BY <1>3, <3>1 DEF Ids
  <2>4. QED
    BY <2>1, <2>2, <2>3 DEF Ids
<1>7. QED
  BY <1>2, <1>3, <1>5, <1>6 DEF Table, t

\* An id that was used is in front, and the others stay.
LEMMA ToFrontTable ==
  ASSUME NEW s, Table(s), NEW id \in Id
  PROVE  /\ Table(ToFront(s, id)) /\ Ids(ToFront(s, id)) = Ids(s) \cup {id}
         /\ ToFront(s, id)[1] = id
<1>1. Table(Erase(s, id)) /\ Ids(Erase(s, id)) = Ids(s) \ {id}
  BY ErasedTable
<1>2. id \notin Ids(Erase(s, id))
  BY <1>1
<1>3. QED
  BY <1>1, <1>2, FrontTable DEF ToFront

\* A table without its last entry.
LEMMA TableWithoutLast ==
  ASSUME NEW s, Table(s), s # <<>>
  PROVE  /\ Table(SubSeq(s, 1, Len(s) - 1))
         /\ Ids(SubSeq(s, 1, Len(s) - 1)) = Ids(s) \ {s[Len(s)]}
         /\ s[Len(s)] \in Id
<1> DEFINE t == SubSeq(s, 1, Len(s) - 1)
<1>1. s \in Seq(Id) /\ Len(s) \in Nat \ {0} /\ DOMAIN s = 1 .. Len(s) /\ Distinct(s)
  BY DEF Table
<1>2. t \in Seq(Id) /\ DOMAIN t = 1 .. Len(s) - 1 /\ \A j \in 1 .. Len(s) - 1 : t[j] = s[j]
  BY <1>1
<1> HIDE DEF t
<1>3. Distinct(t)
  BY <1>1, <1>2 DEF Distinct
<1>4. Ids(t) = Ids(s) \ {s[Len(s)]}
  <2>1. ASSUME NEW j \in DOMAIN t PROVE t[j] \in Ids(s) \ {s[Len(s)]}
    <3>1. j \in DOMAIN s /\ j # Len(s) /\ t[j] = s[j] /\ Len(s) \in DOMAIN s
      BY <1>1, <1>2
    <3>2. QED
      BY <1>1, <3>1 DEF Ids, Distinct
  <2>2. ASSUME NEW j \in DOMAIN s, s[j] # s[Len(s)] PROVE s[j] \in Ids(t)
    <3>1. j \in DOMAIN t /\ t[j] = s[j]
      BY <1>1, <1>2, <2>2
    <3>2. QED
      BY <3>1 DEF Ids
  <2>3. QED
    BY <2>1, <2>2 DEF Ids
<1>5. QED
  BY <1>1, <1>2, <1>3, <1>4 DEF Table, t

-----------------------------------------------------------------------------
\* What put leaves: the id with its value, and no other id that was not there.
LEMMA PutKeeps ==
  ASSUME TypeOK, NEW id \in Id, NEW v \in Value,
         NEW table, Table(table), Ids(table) = DOMAIN cache_items, put(table, id, v)
  PROVE  /\ Table(lru_table') /\ Ids(lru_table') = DOMAIN cache_items'
         /\ Map(cache_items') /\ id \in DOMAIN cache_items' /\ cache_items'[id] = v
         /\ DOMAIN cache_items' \subseteq DOMAIN cache_items \cup {id}
         /\ \A j \in DOMAIN cache_items' \ {id} : cache_items'[j] = cache_items[j]
<1> DEFINE lru   == IF Cached(id) THEN ToFront(table, id) ELSE <<id>> \o table
           items == Set(cache_items, id, v)
<1>1. Map(cache_items) /\ max_size \in Nat \ {0}
  BY SizeAssumption DEF TypeOK
<1>2. /\ Map(items) /\ DOMAIN items = DOMAIN cache_items \cup {id} /\ items[id] = v
      /\ \A j \in DOMAIN cache_items \ {id} : items[j] = cache_items[j]
  BY <1>1 DEF Set, Map
<1>3. Table(lru) /\ Ids(lru) = DOMAIN cache_items \cup {id} /\ lru[1] = id
  <2>1. CASE Cached(id)
    BY <2>1, ToFrontTable
  <2>2. CASE ~Cached(id)
    BY <2>2, FrontTable DEF Cached
  <2>3. QED
    BY <2>1, <2>2
<1>4. \/ /\ Cardinality(DOMAIN items) > max_size
         /\ cache_items' = Without(items, {lru[Len(lru)]})
         /\ lru_table' = SubSeq(lru, 1, Len(lru) - 1)
      \/ cache_items' = items /\ lru_table' = lru
  BY DEF put
<1> HIDE DEF lru, items
<1>5. CASE /\ Cardinality(DOMAIN items) > max_size
           /\ cache_items' = Without(items, {lru[Len(lru)]})
           /\ lru_table' = SubSeq(lru, 1, Len(lru) - 1)
  <2>1. lru \in Seq(Id) /\ DOMAIN lru = 1 .. Len(lru) /\ Len(lru) \in Nat
    BY <1>3 DEF Table
  <2>2. lru # <<>> /\ Len(lru) # 0
    <3>1. id \in Ids(lru)
      BY <1>3
    <3>2. DOMAIN lru # {}
      BY <3>1 DEF Ids
    <3>3. QED
      BY <2>1, <3>2
  <2>3. Len(lru) # 1
    <3>1. SUFFICES ASSUME Len(lru) = 1 PROVE FALSE
      OBVIOUS
    <3>2. Ids(lru) = {id}
      BY <1>3, <2>1, <3>1 DEF Ids
    <3>3. Cardinality(DOMAIN items) = 1
      BY <1>2, <1>3, <3>2, FS_Singleton
    <3>4. QED
      BY <1>1, <1>5, <3>3
  <2>4. lru[Len(lru)] # id
    <3>1. 1 \in DOMAIN lru /\ Len(lru) \in DOMAIN lru
      BY <2>1, <2>2
    <3>2. QED
      BY <1>3, <2>3, <3>1 DEF Table, Distinct
  <2>5. /\ Table(lru_table') /\ Ids(lru_table') = Ids(lru) \ {lru[Len(lru)]}
    BY <1>3, <1>5, <2>2, TableWithoutLast
  <2>6. /\ Map(cache_items') /\ DOMAIN cache_items' = DOMAIN items \ {lru[Len(lru)]}
        /\ \A j \in DOMAIN items \ {lru[Len(lru)]} : cache_items'[j] = items[j]
    BY <1>2, <1>5 DEF Without, Map
  <2>7. QED
    BY <1>2, <1>3, <2>4, <2>5, <2>6
<1>6. CASE cache_items' = items /\ lru_table' = lru
  BY <1>2, <1>3, <1>6
<1>7. QED
  BY <1>4, <1>5, <1>6
-----------------------------------------------------------------------------
\* The inductive invariant: the table of the ids used is one without repetition.
CacheInv == TypeOK /\ Distinct(used) /\ TableOfCache /\ NodesKept

\* During a batch the table is one of the cached nodes.
LEMMA BatchTable ==
  ASSUME CacheInv, pc = "batch"
  PROVE  Table(lru_table) /\ Ids(lru_table) = DOMAIN cache_items
BY DEF CacheInv, TypeOK, TableOfCache, Table, Distinct

\* What every call of ODS_access does.
LEMMA AccessTable ==
  ASSUME CacheInv, NEW id \in Id, Access(id)
  PROVE  used' \in Seq(Id) /\ Distinct(used') /\ calls' \in Nat /\ pc = "batch"
<1>1. Table(used) /\ calls \in Nat
  BY DEF CacheInv, TypeOK, Table
<1>2. Table(ToFront(used, id))
  BY <1>1, ToFrontTable
<1>3. QED
  BY <1>1, <1>2 DEF Access, Table

\* The invariant of the next state, from its parts.
LEMMA BatchInv ==
  ASSUME TypeOK', Distinct(used)', Table(lru_table'), Ids(lru_table') = DOMAIN cache_items',
         NodesKept'
  PROVE  CacheInv'
BY DEF CacheInv, TableOfCache, Table, Distinct, Ids

\* A get moves a cached id to the front of the table.
LEMMA GetTable ==
  ASSUME CacheInv, pc = "batch", NEW id \in Id, Cached(id)
  PROVE  Table(get(id)) /\ Ids(get(id)) = DOMAIN cache_items
<1>1. Table(lru_table) /\ Ids(lru_table) = DOMAIN cache_items
  BY BatchTable
<1>2. Table(ToFront(lru_table, id)) /\ Ids(ToFront(lru_table, id)) = Ids(lru_table) \cup {id}
  BY <1>1, ToFrontTable
<1>3. QED
  BY <1>1, <1>2 DEF get, Cached

\* An intact node has one answer.
LEMMA OneAnswer ==
  ASSUME TypeOK, NEW id \in Id \ damaged, NEW v \in oram[id]
  PROVE  oram[id] = {v}
BY DEF TypeOK

LEMMA PutPreserves ==
  ASSUME CacheInv, NEW id \in Id, NEW v \in Value, Access(id),
         NEW table, Table(table), Ids(table) = DOMAIN cache_items, Put(table, id, v),
         UNCHANGED <<max_size, server, pc, failures, before>>
  PROVE  CacheInv'
<1>1. used' \in Seq(Id) /\ Distinct(used') /\ calls' \in Nat /\ pc = "batch"
  BY AccessTable
<1>2. TypeOK /\ NodesKept
  BY DEF CacheInv
<1>3. /\ Table(lru_table') /\ Ids(lru_table') = DOMAIN cache_items'
      /\ Map(cache_items') /\ id \in DOMAIN cache_items' /\ cache_items'[id] = v
      /\ DOMAIN cache_items' \subseteq DOMAIN cache_items \cup {id}
      /\ \A j \in DOMAIN cache_items' \ {id} : cache_items'[j] = cache_items[j]
  BY <1>2, PutKeeps DEF Put
<1>4. /\ Map(latest') /\ DOMAIN latest' = (DOMAIN latest \cup {id}) \ damaged
      /\ id \notin damaged => latest'[id] = v
      /\ \A j \in DOMAIN latest \ ({id} \cup damaged) : latest'[j] = latest[j]
  <2>1. Map(latest) /\ latest' = Without(Set(latest, id, v), damaged)
    BY <1>2 DEF TypeOK, Put
  <2>2. QED
    BY <2>1 DEF Set, Without, Map
<1>5. lost' = (lost \ {id}) \cup (Dirty \ (DOMAIN cache_items' \cup {id} \cup damaged))
  BY DEF Put
<1>6. lost' \subseteq Id
  BY <1>2, <1>5 DEF TypeOK, Dirty, Map
<1>7. TypeOK'
  BY <1>1, <1>2, <1>3, <1>4, <1>6 DEF TypeOK, Table, Map, server
<1>8. NodesKept'
  <2> SUFFICES ASSUME NEW j \in DOMAIN latest', j \notin lost', j \notin damaged
               PROVE  (IF j \in DOMAIN cache_items' THEN {cache_items'[j]} ELSE oram[j])
                         = {latest'[j]}
    BY <1>1 DEF NodesKept, Found, Cached, server
  <2>1. CASE j = id
    BY <1>3, <1>4, <2>1
  <2>2. CASE j # id
    <3>1. j \in DOMAIN latest \ (lost \cup damaged) /\ latest'[j] = latest[j] /\ j \in Id
      BY <1>2, <1>4, <1>5, <2>2 DEF TypeOK, Map
    <3>2. (IF j \in DOMAIN cache_items THEN {cache_items[j]} ELSE oram[j]) = {latest[j]}
      BY <1>1, <1>2, <3>1 DEF NodesKept, Found, Cached
    <3>3. CASE j \in DOMAIN cache_items'
      BY <1>3, <2>2, <3>1, <3>2, <3>3
    <3>4. CASE j \notin DOMAIN cache_items'
      <4>1. j \notin Dirty
        BY <1>5, <2>2, <3>1, <3>4
      <4>2. j \in DOMAIN cache_items => oram[j] = {cache_items[j]}
        BY <1>2, <3>1, <4>1, OneAnswer DEF Dirty
      <4>3. QED
        BY <3>1, <3>2, <3>4, <4>2
    <3>5. QED
      BY <3>3, <3>4
  <2>3. QED
    BY <2>1, <2>2
<1>9. QED
  BY <1>1, <1>3, <1>7, <1>8, BatchInv

LEMMA WritePreserves ==
  ASSUME CacheInv, NEW id \in Id, NEW v \in Value, Write(id, v)
  PROVE  CacheInv'
<1>1. Access(id) /\ UNCHANGED <<max_size, server, pc, failures, before>>
  BY DEF Write
<1>2. pc = "batch"
  BY <1>1 DEF Access
<1>3. CASE Cached(id) /\ Put(get(id), id, v)
  BY <1>1, <1>2, <1>3, GetTable, PutPreserves
<1>4. CASE Put(lru_table, id, v)
  BY <1>1, <1>2, <1>4, BatchTable, PutPreserves
<1>5. QED
  BY <1>3, <1>4 DEF Write

LEMMA InsertPreserves ==
  ASSUME CacheInv, NEW id \in Id, NEW v \in Value, Insert(id, v)
  PROVE  CacheInv'
<1>1. Access(id) /\ UNCHANGED <<max_size, server, pc, failures, before>> /\ Put(lru_table, id, v)
  BY DEF Insert
<1>2. pc = "batch"
  BY <1>1 DEF Access
<1>3. QED
  BY <1>1, <1>2, BatchTable, PutPreserves

\* A call that moves entries of the table and no more.
LEMMA MovePreserves ==
  ASSUME CacheInv, NEW id \in Id, Access(id), Table(lru_table'),
         Ids(lru_table') = DOMAIN cache_items,
         UNCHANGED <<max_size, cache_items, server, pc, failures, before, latest, lost>>
  PROVE  CacheInv'
<1>1. used' \in Seq(Id) /\ Distinct(used') /\ calls' \in Nat /\ pc = "batch"
  BY AccessTable
<1>2. TypeOK'
  BY <1>1 DEF CacheInv, TypeOK, Table, Map, server
<1>3. NodesKept'
  BY DEF CacheInv, NodesKept, Found, Cached, server
<1>4. QED
  BY <1>1, <1>2, <1>3, BatchInv

LEMMA DeletePreserves ==
  ASSUME CacheInv, NEW id \in Id, Delete(id)
  PROVE  CacheInv'
<1>1. Access(id) /\ UNCHANGED <<max_size, cache_items, server, pc, failures, before, latest, lost>>
  BY DEF Delete
<1>2. pc = "batch"
  BY <1>1 DEF Access
<1>3. CASE Cached(id) /\ lru_table' = get(id)
  BY <1>1, <1>2, <1>3, GetTable, MovePreserves
<1>4. CASE lru_table' = lru_table
  BY <1>1, <1>2, <1>4, BatchTable, MovePreserves
<1>5. QED
  BY <1>3, <1>4 DEF Delete

\* What is fetched is what the ORAM has, so a clean node may be evicted.
LEMMA ReadPreserves ==
  ASSUME CacheInv, NEW id \in Id, Read(id)
  PROVE  CacheInv'
<1>1. Access(id) /\ UNCHANGED <<max_size, server, pc, failures, before, latest>>
  BY DEF Read
<1>2. used' \in Seq(Id) /\ Distinct(used') /\ calls' \in Nat /\ pc = "batch"
  BY <1>1, AccessTable
<1>3. CASE Cached(id) /\ lru_table' = get(id) /\ UNCHANGED <<cache_items, lost>>
  BY <1>1, <1>2, <1>3, GetTable, MovePreserves
<1>4. ASSUME ~Cached(id), NEW v \in Answers(id), put(lru_table, id, v),
             lost' = lost \cup (Dirty \ (DOMAIN cache_items' \cup damaged))
      PROVE  CacheInv'
  <2>1. TypeOK /\ NodesKept /\ v \in Value /\ v \in oram[id]
    BY <1>4 DEF CacheInv, TypeOK, Answers
  <2>2. /\ Table(lru_table') /\ Ids(lru_table') = DOMAIN cache_items'
        /\ Map(cache_items') /\ id \in DOMAIN cache_items' /\ cache_items'[id] = v
        /\ DOMAIN cache_items' \subseteq DOMAIN cache_items \cup {id}
        /\ \A j \in DOMAIN cache_items' \ {id} : cache_items'[j] = cache_items[j]
    BY <1>2, <1>4, <2>1, BatchTable, PutKeeps
  <2>3. lost' \subseteq Id
    BY <1>4, <2>1 DEF TypeOK, Dirty, Map
  <2>4. TypeOK'
    BY <1>1, <1>2, <2>1, <2>2, <2>3 DEF TypeOK, Table, Map, server
  <2>5. NodesKept'
    <3> SUFFICES ASSUME NEW j \in DOMAIN latest, j \notin lost', j \notin damaged
                 PROVE  (IF j \in DOMAIN cache_items' THEN {cache_items'[j]} ELSE oram[j])
                           = {latest[j]}
      BY <1>1, <1>2 DEF NodesKept, Found, Cached, server
    <3>1. j \in Id
      BY <2>1 DEF TypeOK, Map
    <3>2. (IF j \in DOMAIN cache_items THEN {cache_items[j]} ELSE oram[j]) = {latest[j]}
      BY <1>2, <1>4, <2>1 DEF NodesKept, Found, Cached
    <3>3. CASE j = id
      BY <1>4, <2>1, <2>2, <3>2, <3>3, OneAnswer DEF Cached
    <3>4. CASE j # id /\ j \in DOMAIN cache_items'
      BY <2>2, <3>2, <3>4
    <3>5. CASE j \notin DOMAIN cache_items'
      <4>1. j \notin Dirty
        BY <1>4, <3>5
      <4>2. j \in DOMAIN cache_items => oram[j] = {cache_items[j]}
        BY <2>1, <3>1, <4>1, OneAnswer DEF Dirty
      <4>3. QED
        BY <3>2, <3>5, <4>2
    <3>6. QED
      BY <3>3, <3>4, <3>5
  <2>6. QED
    BY <1>2, <2>2, <2>4, <2>5, BatchInv
<1>5. QED
  BY <1>3, <1>4 DEF Read

\* The invariant of the next state outside a batch.
LEMMA OtherInv ==
  ASSUME TypeOK', Distinct(used)', pc' # "batch", NodesKept'
  PROVE  CacheInv'
BY DEF CacheInv, TableOfCache

LEMMA StartPreserves ==
  ASSUME CacheInv, ODS_start
  PROVE  CacheInv'
<1>1. before' = Without(oram, damaged)
  BY DEF ODS_start
<1>2. before' \in [Id \ damaged -> SUBSET (Value \cup {NoNode})]
  BY <1>1 DEF CacheInv, TypeOK, Without
<1>3. TypeOK'
  BY <1>2 DEF CacheInv, TypeOK, ODS_start, Empty, Map, server
<1>4. Distinct(used)' /\ TableOfCache'
  BY DEF CacheInv, ODS_start, Empty, Distinct, TableOfCache, Ids
<1>5. NodesKept'
  BY DEF CacheInv, NodesKept, Found, Cached, ODS_start, Empty, server
<1>6. QED
  BY <1>3, <1>4, <1>5 DEF CacheInv

LEMMA NoCalls ==
  ASSUME CallsEnd
  PROVE  calls' \in Nat /\ used' \in Seq(Id) /\ Distinct(used')
BY DEF CallsEnd, Distinct

LEMMA FinalizePreserves ==
  ASSUME CacheInv, ODS_finalize
  PROVE  CacheInv'
<1>1. CallsEnd
  BY DEF ODS_finalize
<1>2. TypeOK' /\ Distinct(used)' /\ pc' # "batch"
  BY <1>1, NoCalls DEF CacheInv, TypeOK, ODS_finalize, cache, server, Map
<1>3. NodesKept'
  BY DEF CacheInv, NodesKept, Found, Cached, ODS_finalize, cache, server
<1>4. QED
  BY <1>2, <1>3, OtherInv

\* What a failed access leaves of the nodes.
LEMMA FailedAccess ==
  ASSUME TypeOK, NEW called, NEW written, called \subseteq Id, Map(written),
         DOMAIN written \subseteq called, AccessFails(called, written)
  PROVE  /\ damaged \subseteq damaged' /\ damaged' \subseteq Id
         /\ oram' \in [Id -> SUBSET (Value \cup {NoNode})]
         /\ \A id \in damaged' : NoNode \in oram'[id]
         /\ \A id \in Id \ damaged' : oram'[id] = oram[id]
<1>1. PICK held \in SUBSET Stored : damaged' = damaged \cup called \cup held
  BY DEF AccessFails
<1>2. oram' = [id \in Id |->
                 oram[id] \cup (IF id \in damaged' THEN {NoNode} ELSE {})
                          \cup (IF id \in DOMAIN written THEN {written[id]} ELSE {})]
  BY DEF AccessFails
<1>3. damaged \subseteq Id /\ oram \in [Id -> SUBSET (Value \cup {NoNode})]
  BY DEF TypeOK
<1>4. damaged \subseteq damaged' /\ damaged' \subseteq Id /\ called \subseteq damaged'
  BY <1>1, <1>3 DEF Stored
<1>5. QED
  BY <1>2, <1>3, <1>4 DEF Map

\* What a failure drops is lost, unless the ORAM has it.
LEMMA ThrowPreserves ==
  ASSUME CacheInv, Throw, pc # "idle",
         damaged \subseteq damaged', damaged' \subseteq Id,
         oram' \in [Id -> SUBSET (Value \cup {NoNode})],
         \A id \in damaged' : NoNode \in oram'[id],
         \A id \in Id \ damaged' : oram'[id] = oram[id]
  PROVE  CacheInv'
<1>1. TypeOK /\ NodesKept
  BY DEF CacheInv
<1>2. /\ lost' = (lost \cup {id \in Dirty : cache_items[id] \notin oram'[id]}) \ damaged'
      /\ latest' = Without(latest, damaged') /\ before' = Without(before, damaged')
      /\ pc' = "idle" /\ failures' = failures + 1 /\ CallsEnd
      /\ UNCHANGED <<max_size, cache_items, lru_table>>
  BY DEF Throw, cache
<1>3. /\ Map(latest') /\ DOMAIN latest' = DOMAIN latest \ damaged'
      /\ \A id \in DOMAIN latest' : latest'[id] = latest[id]
  BY <1>1, <1>2 DEF TypeOK, Without, Map
<1>4. before' \in [Id \ damaged' -> SUBSET (Value \cup {NoNode})]
  BY <1>1, <1>2 DEF TypeOK, Without
<1>5. \A id \in Id \ damaged' : \E v \in Value \cup {NoNode} : oram'[id] = {v}
  BY <1>1 DEF TypeOK
<1>6. TypeOK' /\ Distinct(used)' /\ pc' # "batch"
  <2>1. lost' \subseteq Id
    BY <1>1, <1>2 DEF TypeOK, Dirty, Map
  <2>2. calls' \in Nat /\ used' \in Seq(Id) /\ Distinct(used')
    BY <1>2, NoCalls
  <2>3. max_size' \in Sizes /\ Map(cache_items') /\ lru_table' \in Seq(Id) /\ failures' \in Nat
    BY <1>1, <1>2 DEF TypeOK, Map
  <2>4. QED
    BY <1>2, <1>3, <1>4, <1>5, <2>1, <2>2, <2>3 DEF TypeOK
<1>7. NodesKept'
  <2> SUFFICES ASSUME NEW j \in DOMAIN latest', j \notin lost', j \notin damaged'
               PROVE  oram'[j] = {latest'[j]}
    BY <1>2 DEF NodesKept, Found
  <2>1. /\ j \in DOMAIN latest \ (lost \cup damaged) /\ j \in Id
        /\ latest'[j] = latest[j] /\ oram'[j] = oram[j]
    BY <1>1, <1>2, <1>3 DEF TypeOK, Map
  <2>2. (IF j \in DOMAIN cache_items THEN {cache_items[j]} ELSE oram[j]) = {latest[j]}
    BY <1>1, <2>1 DEF NodesKept, Found, Cached
  <2>3. CASE j \in DOMAIN cache_items
    <3>1. cache_items[j] \in oram[j]
      BY <1>2, <2>1, <2>3 DEF Dirty
    <3>2. oram[j] = {cache_items[j]}
      BY <1>1, <2>1, <3>1, OneAnswer
    <3>3. QED
      BY <2>1, <2>2, <2>3, <3>2
  <2>4. CASE j \notin DOMAIN cache_items
    BY <2>1, <2>2, <2>4
  <2>5. QED
    BY <2>3, <2>4
<1>8. QED
  BY <1>6, <1>7, OtherInv

\* Every way in which a batch fails is one of an access, or none.
LEMMA BatchFails ==
  ASSUME TypeOK,
         FinalizeFails \/ \E id \in Id : FetchFails(id) \/ FetchFindsNothing(id)
  PROVE  /\ Throw /\ pc # "idle"
         /\ damaged \subseteq damaged' /\ damaged' \subseteq Id
         /\ oram' \in [Id -> SUBSET (Value \cup {NoNode})]
         /\ \A id \in damaged' : NoNode \in oram'[id]
         /\ \A id \in Id \ damaged' : oram'[id] = oram[id]
<1>1. Throw /\ pc # "idle"
  BY DEF FinalizeFails, FetchFails, FetchFindsNothing, Fetching
<1>2. Map(Empty) /\ DOMAIN Empty = {}
  BY DEF Map, Empty
<1>3. ASSUME NEW id \in Id PROVE {id} \subseteq Id /\ DOMAIN Empty \subseteq {id}
  BY <1>2
<1>4. ASSUME NEW id \in DOMAIN cache_items
      PROVE  LET written == Set(Empty, id, cache_items[id])
             IN  id \in Id /\ Map(written) /\ DOMAIN written \subseteq {id}
  BY DEF Set, Empty, Map, TypeOK
<1>5. CASE AccessFails({}, Empty)
  BY <1>1, <1>2, <1>5, FailedAccess
<1>6. ASSUME NEW id \in Id, AccessFails({id}, Empty) PROVE
         /\ damaged \subseteq damaged' /\ damaged' \subseteq Id
         /\ oram' \in [Id -> SUBSET (Value \cup {NoNode})]
         /\ \A j \in damaged' : NoNode \in oram'[j]
         /\ \A j \in Id \ damaged' : oram'[j] = oram[j]
  BY <1>2, <1>3, <1>6, FailedAccess
<1>7. ASSUME NEW id \in DOMAIN cache_items,
             AccessFails({id}, Set(Empty, id, cache_items[id]))
      PROVE
         /\ damaged \subseteq damaged' /\ damaged' \subseteq Id
         /\ oram' \in [Id -> SUBSET (Value \cup {NoNode})]
         /\ \A j \in damaged' : NoNode \in oram'[j]
         /\ \A j \in Id \ damaged' : oram'[j] = oram[j]
  <2> DEFINE written == Set(Empty, id, cache_items[id])
  <2>1. {id} \subseteq Id /\ Map(written) /\ DOMAIN written \subseteq {id}
    BY <1>4
  <2>2. AccessFails({id}, written)
    BY <1>7
  <2> HIDE DEF written
  <2>3. QED
    BY <2>1, <2>2, FailedAccess
<1>8. CASE UNCHANGED server
  BY <1>1, <1>8 DEF server, TypeOK
<1>9. CASE FinalizeFails
  <2>1. DOMAIN cache_items \subseteq Id
    BY DEF TypeOK, Map
  <2>2. QED
    BY <1>1, <1>5, <1>6, <1>7, <1>9, <2>1 DEF FinalizeFails
<1>10. ASSUME NEW id \in Id, FetchFails(id) \/ FetchFindsNothing(id)
       PROVE  AccessFails({id}, Empty) \/ UNCHANGED server
  BY <1>10 DEF FetchFails, FetchFindsNothing
<1>11. QED
  BY <1>1, <1>6, <1>8, <1>9, <1>10

\* The node that is popped is in the ORAM as it was in the cache.
LEMMA FlushPreserves ==
  ASSUME CacheInv, Flush
  PROVE  CacheInv'
<1>1. TypeOK /\ NodesKept /\ Distinct(used)
  BY DEF CacheInv
<1>2. CASE FlushDone
  <2>1. TypeOK' /\ Distinct(used)' /\ pc' # "batch"
    BY <1>1, <1>2 DEF TypeOK, FlushDone, cache, server, Distinct, Map
  <2>2. NodesKept'
    BY <1>1, <1>2 DEF NodesKept, Found, Cached, FlushDone, cache, server
  <2>3. QED
    BY <2>1, <2>2, OtherInv
<1>3. ASSUME NEW id \in Id, FlushNext(id) PROVE CacheInv'
  <2>1. /\ pc = "flush" /\ id \in DOMAIN cache_items
        /\ oram' = [oram EXCEPT ![id] =
                      (IF id \in damaged THEN @ ELSE {}) \cup {cache_items[id]}]
        /\ cache_items' = Without(cache_items, {id})
        /\ UNCHANGED <<max_size, lru_table, damaged, pc, calls, failures, used, before, latest, lost>>
    BY <1>3 DEF FlushNext, WriteBack, Cached
  <2>2. /\ oram' \in [Id -> SUBSET (Value \cup {NoNode})]
        /\ oram'[id] = (IF id \in damaged THEN oram[id] ELSE {}) \cup {cache_items[id]}
        /\ \A j \in Id \ {id} : oram'[j] = oram[j]
    BY <1>1, <2>1 DEF TypeOK, Map
  <2>3. /\ Map(cache_items') /\ DOMAIN cache_items' = DOMAIN cache_items \ {id}
        /\ \A j \in DOMAIN cache_items \ {id} : cache_items'[j] = cache_items[j]
    BY <1>1, <2>1 DEF TypeOK, Without, Map
  <2>4. TypeOK' /\ Distinct(used)' /\ pc' # "batch"
    <3>1. \A j \in damaged : NoNode \in oram'[j]
      BY <1>1, <2>2 DEF TypeOK
    <3>2. ASSUME NEW j \in Id \ damaged PROVE \E v \in Value \cup {NoNode} : oram'[j] = {v}
      BY <1>1, <2>1, <2>2 DEF TypeOK, Map
    <3>3. QED
      BY <1>1, <2>1, <2>2, <2>3, <3>1, <3>2 DEF TypeOK, Distinct, Map
  <2>5. NodesKept'
    <3> SUFFICES ASSUME NEW j \in DOMAIN latest, j \notin lost, j \notin damaged
                 PROVE  (IF j \in DOMAIN cache_items' THEN {cache_items'[j]} ELSE oram'[j])
                           = {latest[j]}
      BY <2>1 DEF NodesKept, Found, Cached
    <3>1. (IF j \in DOMAIN cache_items THEN {cache_items[j]} ELSE oram[j]) = {latest[j]}
      BY <1>1, <2>1 DEF NodesKept, Found, Cached
    <3>2. j \in Id
      BY <1>1 DEF TypeOK, Map
    <3>3. QED
      BY <2>1, <2>2, <2>3, <3>1, <3>2
  <2>6. QED
    BY <2>4, <2>5, OtherInv
<1>4. QED
  BY <1>2, <1>3 DEF Flush
-----------------------------------------------------------------------------
LEMMA InitCacheInv == Init => CacheInv
<1> SUFFICES ASSUME Init PROVE CacheInv
  OBVIOUS
<1>1. TypeOK
  BY DEF Init, TypeOK, Empty, Map
<1>2. Distinct(used) /\ TableOfCache /\ NodesKept
  BY DEF Init, Distinct, TableOfCache, NodesKept, Empty
<1>3. QED
  BY <1>1, <1>2 DEF CacheInv

LEMMA NextCacheInv == CacheInv /\ [Next]_vars => CacheInv'
<1> SUFFICES ASSUME CacheInv, [Next]_vars PROVE CacheInv'
  OBVIOUS
<1>1. CASE ODS_start
  BY <1>1, StartPreserves
<1>2. CASE ODS_finalize
  BY <1>2, FinalizePreserves
<1>3. CASE Flush
  BY <1>3, FlushPreserves
<1>4. CASE FinalizeFails \/ \E id \in Id : FetchFails(id) \/ FetchFindsNothing(id)
  BY <1>4, BatchFails, ThrowPreserves DEF CacheInv
<1>5. ASSUME NEW id \in Id, Read(id) PROVE CacheInv'
  BY <1>5, ReadPreserves
<1>6. ASSUME NEW id \in Id, Delete(id) PROVE CacheInv'
  BY <1>6, DeletePreserves
<1>7. ASSUME NEW id \in Id, NEW v \in Value, Write(id, v) PROVE CacheInv'
  BY <1>7, WritePreserves
<1>8. ASSUME NEW id \in Id, NEW v \in Value, Insert(id, v) PROVE CacheInv'
  BY <1>8, InsertPreserves
<1>9. CASE UNCHANGED vars
  BY <1>9 DEF CacheInv, TypeOK, Distinct, TableOfCache, NodesKept, Found, Cached, Ids, Map,
              vars, cache, server
<1>10. QED
  BY <1>1, <1>2, <1>3, <1>4, <1>5, <1>6, <1>7, <1>8, <1>9 DEF Next

LEMMA CacheInvariant == Spec => []CacheInv
<1>1. QED
  BY InitCacheInv, NextCacheInv, PTL DEF Spec

\* The map, the table and the histories have their types.
THEOREM CacheTypeCorrect == Spec => []TypeOK
<1>1. CacheInv => TypeOK
  BY DEF CacheInv
<1>2. QED
  BY <1>1, CacheInvariant, PTL

\* Cache::get and Cache::put keep the map and the table on the same nodes, each
\* of them once, for every size of the cache.
THEOREM TableMatchesCache == Spec => []TableOfCache
<1>1. CacheInv => TableOfCache
  BY DEF CacheInv
<1>2. QED
  BY <1>1, CacheInvariant, PTL

\* A node has the value last written to it, in the cache or in the ORAM, unless
\* ODS_access evicted it before the flush, an exception ended its batch, or a
\* failed access had it in its hands.
THEOREM NodesAreKept == Spec => []NodesKept
<1>1. CacheInv => NodesKept
  BY DEF CacheInv
<1>2. QED
  BY <1>1, CacheInvariant, PTL

-----------------------------------------------------------------------------
\* Until the flush begins the ORAM is as the batch found it, and what is cached
\* is what was found or what was put.
BetweenInv ==
    /\ NothingBetween
    /\ pc = "batch" => \A id \in Id \ damaged : oram[id] = before[id]
    /\ pc # "idle" => \A id \in DOMAIN cache_items \ damaged :
                         \/ before[id] = {cache_items[id]}
                         \/ id \in DOMAIN latest /\ latest[id] = cache_items[id]

LEMMA PutBetween ==
  ASSUME CacheInv, BetweenInv, pc = "batch", NEW id \in Id, NEW v \in Value, NEW table,
         Table(table), Ids(table) = DOMAIN cache_items, Put(table, id, v),
         UNCHANGED <<server, pc, before>>
  PROVE  BetweenInv'
<1>1. TypeOK /\ UNCHANGED <<oram, damaged>>
  BY DEF CacheInv, server
<1>2. /\ cache_items'[id] = v
      /\ DOMAIN cache_items' \subseteq DOMAIN cache_items \cup {id}
      /\ \A j \in DOMAIN cache_items' \ {id} : cache_items'[j] = cache_items[j]
  BY <1>1, PutKeeps DEF Put
<1>3. /\ DOMAIN latest' = (DOMAIN latest \cup {id}) \ damaged
      /\ id \notin damaged => latest'[id] = v
      /\ \A j \in DOMAIN latest \ ({id} \cup damaged) : latest'[j] = latest[j]
  <2>1. latest' = Without(Set(latest, id, v), damaged)
    BY DEF Put
  <2>2. QED
    BY <2>1 DEF Set, Without
<1>4. \A j \in Id \ damaged : oram'[j] = before'[j]
  BY <1>1 DEF BetweenInv
<1>5. ASSUME NEW j \in DOMAIN cache_items' \ damaged
      PROVE  before'[j] = {cache_items'[j]} \/ (j \in DOMAIN latest' /\ latest'[j] = cache_items'[j])
  <2>1. CASE j = id
    BY <1>2, <1>3, <2>1
  <2>2. CASE j # id
    BY <1>2, <1>3, <1>5, <2>2 DEF BetweenInv
  <2>3. QED
    BY <2>1, <2>2
<1>6. QED
  BY <1>1, <1>4, <1>5 DEF BetweenInv, NothingBetween

\* What is fetched is what the batch found.
LEMMA ReadBetween ==
  ASSUME CacheInv, BetweenInv, NEW id \in Id, Read(id)
  PROVE  BetweenInv'
<1>1. /\ TypeOK /\ UNCHANGED <<oram, damaged, pc, before, latest>>
      /\ pc = "batch" /\ Access(id)
  BY DEF CacheInv, Read, Access, server
<1>2. CASE UNCHANGED cache_items
  BY <1>1, <1>2 DEF BetweenInv, NothingBetween
<1>3. ASSUME ~Cached(id), NEW v \in Answers(id), put(lru_table, id, v) PROVE BetweenInv'
  <2>1. v \in Value /\ v \in oram[id]
    BY <1>1 DEF TypeOK, Answers
  <2>2. /\ cache_items'[id] = v
        /\ DOMAIN cache_items' \subseteq DOMAIN cache_items \cup {id}
        /\ \A j \in DOMAIN cache_items' \ {id} : cache_items'[j] = cache_items[j]
    BY <1>1, <1>3, <2>1, BatchTable, PutKeeps
  <2>3. id \notin damaged => before[id] = {v}
    BY <1>1, <2>1, OneAnswer DEF BetweenInv
  <2>4. QED
    BY <1>1, <2>2, <2>3 DEF BetweenInv, NothingBetween
<1>4. QED
  BY <1>2, <1>3 DEF Read

\* A failed access changes no node that it had not in its hands.
LEMMA FailBetween ==
  ASSUME CacheInv, BetweenInv,
         FinalizeFails \/ \E id \in Id : FetchFails(id) \/ FetchFindsNothing(id)
  PROVE  BetweenInv'
<1>1. TypeOK
  BY DEF CacheInv
<1>2. /\ Throw /\ damaged \subseteq damaged'
      /\ \A id \in Id \ damaged' : oram'[id] = oram[id]
  BY <1>1, BatchFails
<1>3. /\ pc' = "idle" /\ latest' = Without(latest, damaged') /\ before' = Without(before, damaged')
  BY <1>2 DEF Throw
<1>4. ASSUME NEW id \in Id \ damaged'
      PROVE  oram'[id] = before'[id] \/ (id \in DOMAIN latest' /\ oram'[id] = {latest'[id]})
  <2>1. before'[id] = before[id] /\ oram'[id] = oram[id]
    BY <1>1, <1>2, <1>3 DEF TypeOK, Without
  <2>2. id \in DOMAIN latest => id \in DOMAIN latest' /\ latest'[id] = latest[id]
    BY <1>3 DEF Without
  <2>3. QED
    BY <1>2, <2>1, <2>2 DEF BetweenInv, NothingBetween
<1>5. QED
  BY <1>3, <1>4 DEF BetweenInv, NothingBetween

LEMMA FlushBetween ==
  ASSUME CacheInv, BetweenInv, NEW id \in Id, FlushNext(id)
  PROVE  BetweenInv'
<1>1. /\ pc = "flush" /\ id \in DOMAIN cache_items
      /\ oram' = [oram EXCEPT ![id] =
                    (IF id \in damaged THEN @ ELSE {}) \cup {cache_items[id]}]
      /\ cache_items' = Without(cache_items, {id})
      /\ UNCHANGED <<damaged, pc, before, latest>>
  BY DEF FlushNext, WriteBack, Cached
<1>2. \A j \in Id \ damaged : oram'[j] = IF j = id THEN {cache_items[id]} ELSE oram[j]
  BY <1>1 DEF CacheInv, TypeOK
<1>3. ASSUME NEW j \in Id \ damaged
      PROVE  oram'[j] = before[j] \/ (j \in DOMAIN latest /\ oram'[j] = {latest[j]})
  BY <1>1, <1>2 DEF BetweenInv, NothingBetween
<1>4. \A j \in DOMAIN cache_items' : j \in DOMAIN cache_items /\ cache_items'[j] = cache_items[j]
  BY <1>1 DEF Without
<1>5. QED
  BY <1>1, <1>3, <1>4 DEF BetweenInv, NothingBetween

LEMMA NextBetween ==
  ASSUME CacheInv, BetweenInv, [Next]_vars
  PROVE  BetweenInv'
<1>1. CASE ODS_start
  <2>1. /\ DOMAIN cache_items' = {} /\ UNCHANGED <<oram, damaged>>
        /\ before' = Without(oram, damaged)
    BY <1>1 DEF ODS_start, Empty, server
  <2>2. \A id \in Id \ damaged : before'[id] = oram'[id]
    BY <2>1 DEF CacheInv, TypeOK, Without
  <2>3. QED
    BY <2>1, <2>2 DEF BetweenInv, NothingBetween
<1>2. CASE \/ ODS_finalize \/ FlushDone \/ UNCHANGED vars
           \/ \E id \in Id : Delete(id)
  BY <1>2 DEF ODS_finalize, FlushDone, Delete, vars, cache, server, BetweenInv, NothingBetween,
              Access
<1>3. ASSUME NEW id \in Id, FlushNext(id) PROVE BetweenInv'
  BY <1>3, FlushBetween
<1>4. CASE FinalizeFails \/ \E id \in Id : FetchFails(id) \/ FetchFindsNothing(id)
  BY <1>4, FailBetween
<1>5. ASSUME NEW id \in Id, Read(id) PROVE BetweenInv'
  BY <1>5, ReadBetween
<1>6. ASSUME NEW id \in Id, NEW v \in Value, Write(id, v) \/ Insert(id, v) PROVE BetweenInv'
  <2>1. pc = "batch" /\ UNCHANGED <<server, pc, before>>
    BY <1>6 DEF Write, Insert, Access
  <2>2. (Cached(id) /\ Put(get(id), id, v)) \/ Put(lru_table, id, v)
    BY <1>6 DEF Write, Insert
  <2>3. QED
    BY <2>1, <2>2, BatchTable, GetTable, PutBetween
<1>7. QED
  BY <1>1, <1>2, <1>3, <1>4, <1>5, <1>6 DEF Next, Flush

\* A batch that fails anywhere, in the middle of its flush too, leaves each node
\* in the ORAM as the batch found it or as the batch left it, unless a failed
\* access had the node in its hands: nothing is written through before the flush.
THEOREM NothingBetweenHolds == Spec => []NothingBetween
<1>1. Init => BetweenInv
  BY DEF Init, BetweenInv, NothingBetween
<1>2. CacheInv /\ BetweenInv /\ [Next]_vars => BetweenInv'
  BY NextBetween
<1>3. BetweenInv => NothingBetween
  BY DEF BetweenInv
<1>4. QED
  BY <1>1, <1>2, <1>3, CacheInvariant, PTL DEF Spec
-----------------------------------------------------------------------------
\* put evicts nothing from a cache that has room for every node.
LEMMA RoomForAll ==
  ASSUME TypeOK, IsFiniteSet(Id), Cardinality(Id) <= max_size,
         NEW table, NEW id \in Id, NEW v \in Value, put(table, id, v)
  PROVE  DOMAIN cache_items' = DOMAIN cache_items \cup {id}
<1> DEFINE items == Set(cache_items, id, v)
<1>1. DOMAIN items = DOMAIN cache_items \cup {id} /\ DOMAIN items \subseteq Id
  BY DEF TypeOK, Map, Set
<1> HIDE DEF items
<1>2. /\ Cardinality(DOMAIN items) \in Nat /\ Cardinality(Id) \in Nat /\ max_size \in Nat
      /\ Cardinality(DOMAIN items) <= Cardinality(Id)
  BY <1>1, FS_Subset, FS_CardinalityType, SizeAssumption DEF TypeOK
<1>3. ~(Cardinality(DOMAIN items) > max_size)
  BY <1>2
<1>4. cache_items' = items
  BY <1>3 DEF put, items
<1>5. QED
  BY <1>1, <1>4

LEMMA NextNothingLost ==
  ASSUME IsFiniteSet(Id)
  PROVE  CacheInv /\ NothingLost /\ [Next]_vars => NothingLost'
<1> SUFFICES ASSUME CacheInv, NothingLost, [Next]_vars,
                    failures' = 0, Cardinality(Id) <= max_size'
             PROVE  lost' = {}
  BY DEF NothingLost
<1>1. TypeOK /\ max_size' = max_size
  BY DEF CacheInv, Next, ODS_start, ODS_finalize, Flush, FlushDone, FlushNext, WriteBack,
         FinalizeFails, FetchFails, FetchFindsNothing, Throw, Read, Write, Insert, Delete, vars
<1>2. ~Throw
  BY <1>1 DEF Throw, TypeOK
<1>3. failures = 0
  BY <1>2 DEF Next, ODS_start, ODS_finalize, Flush, FlushDone, FlushNext, WriteBack,
              FinalizeFails, FetchFails, FetchFindsNothing, Read, Write, Insert, Delete, vars
<1>4. lost = {}
  BY <1>1, <1>3 DEF NothingLost
<1>5. ASSUME NEW table, NEW id \in Id, NEW v \in Value, Put(table, id, v) PROVE lost' = {}
  <2>1. DOMAIN cache_items' = DOMAIN cache_items \cup {id}
    BY <1>1, <1>5, RoomForAll DEF Put
  <2>2. QED
    BY <1>4, <1>5, <2>1 DEF Put, Dirty
<1>6. ASSUME NEW id \in Id, Read(id) PROVE lost' = {}
  <2>1. CASE UNCHANGED lost
    BY <1>4, <2>1
  <2>2. ASSUME NEW v \in Answers(id), put(lru_table, id, v),
               lost' = lost \cup (Dirty \ (DOMAIN cache_items' \cup damaged))
        PROVE  lost' = {}
    <3>1. v \in Value
      BY <1>1, <2>2 DEF TypeOK, Answers
    <3>2. DOMAIN cache_items' = DOMAIN cache_items \cup {id}
      BY <1>1, <2>2, <3>1, RoomForAll
    <3>3. QED
      BY <1>4, <2>2, <3>2 DEF Dirty
  <2>3. QED
    BY <1>6, <2>1, <2>2 DEF Read
<1>7. ASSUME NEW id \in Id, NEW v \in Value, Write(id, v) \/ Insert(id, v) PROVE lost' = {}
  BY <1>5, <1>7 DEF Write, Insert
<1>8. CASE UNCHANGED lost
  BY <1>4, <1>8
<1>9. QED
  BY <1>2, <1>6, <1>7, <1>8
     DEF Next, ODS_start, ODS_finalize, Flush, FlushDone, FlushNext, WriteBack, FinalizeFails,
         FetchFails, FetchFindsNothing, Delete, vars

\* Why the client constructs the cache with INT_MAX entries: with room for the
\* nodes, and without a failure, no batch loses what it wrote.
THEOREM RoomIsEnough ==
  ASSUME IsFiniteSet(Id)
  PROVE  Spec => []NothingLost
<1>1. Init => NothingLost
  BY DEF Init, NothingLost
<1>2. CacheInv /\ NothingLost /\ [Next]_vars => NothingLost'
  BY NextNothingLost
<1>3. QED
  BY <1>1, <1>2, CacheInvariant, PTL DEF Spec
-----------------------------------------------------------------------------
\* a is before b in s.
Ahead(s, a, b) == \E i, j \in DOMAIN s : i < j /\ s[i] = a /\ s[j] = b

\* u has the entries of s, in the order in which s has them.
InOrder(s, u) ==
    /\ Ids(s) \subseteq Ids(u)
    /\ \A a, b : Ahead(s, a, b) => Ahead(u, a, b)

\* Erasing an id leaves the order of the others.
LEMMA AheadErase ==
  ASSUME NEW s, Table(s), NEW id \in Id, NEW a, NEW b
  PROVE  Ahead(Erase(s, id), a, b) <=> a # id /\ b # id /\ Ahead(s, a, b)
<1>1. s \in Seq(Id) /\ Len(s) \in Nat /\ DOMAIN s = 1 .. Len(s) /\ Distinct(s)
  BY DEF Table
<1>2. CASE id \notin Ids(s)
  BY <1>2 DEF Erase, Ahead, Ids
<1>3. CASE id \in Ids(s)
  <2> DEFINE i == CHOOSE j \in DOMAIN s : s[j] = id /\ \A n \in 1 .. j - 1 : s[n] # id
             t == [j \in 1 .. Len(s) - 1 |-> IF j < i THEN s[j] ELSE s[j + 1]]
  <2>1. PICK k \in DOMAIN s : s[k] = id
    BY <1>3 DEF Ids
  <2>2. \A n \in 1 .. k - 1 : s[n] # id
    BY <1>1, <2>1 DEF Distinct
  <2>3. i \in DOMAIN s /\ s[i] = id
    BY <2>1, <2>2
  <2>4. Erase(s, id) = t
    BY <1>3 DEF Erase
  <2> HIDE DEF i
  <2>5. /\ i \in 1 .. Len(s)
        /\ DOMAIN t = 1 .. Len(s) - 1
        /\ \A j \in 1 .. Len(s) - 1 : t[j] = IF j < i THEN s[j] ELSE s[j + 1]
    BY <1>1, <2>3
  <2> HIDE DEF t
  <2>6. ASSUME NEW m \in DOMAIN t, NEW n \in DOMAIN t, m < n, t[m] = a, t[n] = b
        PROVE  Ahead(s, a, b)
    <3> DEFINE p(j) == IF j < i THEN j ELSE j + 1
    <3>1. /\ p(m) \in 1 .. Len(s) /\ t[m] = s[p(m)]
          /\ p(n) \in 1 .. Len(s) /\ t[n] = s[p(n)]
          /\ p(m) < p(n)
      BY <1>1, <2>5, <2>6
    <3>2. QED
      BY <1>1, <2>6, <3>1 DEF Ahead
  <2>7. ASSUME NEW m \in DOMAIN s, NEW n \in DOMAIN s, m < n, s[m] = a, s[n] = b, a # id, b # id
        PROVE  Ahead(t, a, b)
    <3> DEFINE q(j) == IF j < i THEN j ELSE j - 1
    <3>1. m \in 1 .. Len(s) /\ n \in 1 .. Len(s) /\ m # i /\ n # i
      BY <1>1, <2>3, <2>7
    <3>2. /\ q(m) \in 1 .. Len(s) - 1 /\ t[q(m)] = s[m]
          /\ q(n) \in 1 .. Len(s) - 1 /\ t[q(n)] = s[n]
          /\ q(m) < q(n)
      BY SMTT(30), <1>1, <2>5, <2>7, <3>1
    <3>3. QED
      BY <2>5, <2>7, <3>2 DEF Ahead
  <2>8. Ahead(t, a, b) => a # id /\ b # id
    <3>1. Ids(t) = Ids(s) \ {id}
      BY <2>4, ErasedTable
    <3>2. QED
      BY <3>1 DEF Ahead, Ids
  <2>9. QED
    BY <2>4, <2>6, <2>7, <2>8 DEF Ahead
<1>4. QED
  BY <1>2, <1>3

\* What is put in front is before everything else.
LEMMA AheadFront ==
  ASSUME NEW s, Table(s), NEW id \in Id, NEW a, NEW b
  PROVE  Ahead(<<id>> \o s, a, b) <=> (a = id /\ b \in Ids(s)) \/ Ahead(s, a, b)
<1> DEFINE t == <<id>> \o s
<1>1. s \in Seq(Id) /\ Len(s) \in Nat /\ DOMAIN s = 1 .. Len(s)
  BY DEF Table
<1>2. /\ DOMAIN t = 1 .. Len(s) + 1 /\ t[1] = id
      /\ \A j \in 2 .. Len(s) + 1 : t[j] = s[j - 1]
  BY <1>1
<1> HIDE DEF t
<1>3. ASSUME NEW m \in DOMAIN t, NEW n \in DOMAIN t, m < n, t[m] = a, t[n] = b
      PROVE  (a = id /\ b \in Ids(s)) \/ Ahead(s, a, b)
  <2>1. n - 1 \in DOMAIN s /\ s[n - 1] = b
    BY <1>1, <1>2, <1>3
  <2>2. CASE m = 1
    BY <1>2, <1>3, <2>1, <2>2 DEF Ids
  <2>3. CASE m # 1
    <3>1. m - 1 \in DOMAIN s /\ s[m - 1] = a /\ m - 1 < n - 1
      BY <1>1, <1>2, <1>3, <2>3
    <3>2. QED
      BY <2>1, <3>1 DEF Ahead
  <2>4. QED
    BY <2>2, <2>3
<1>4. ASSUME a = id, NEW j \in DOMAIN s, b = s[j] PROVE Ahead(t, a, b)
  <2>1. /\ 1 \in DOMAIN t /\ j + 1 \in DOMAIN t /\ 1 < j + 1
        /\ t[1] = a /\ t[j + 1] = b
    BY <1>1, <1>2, <1>4
  <2>2. QED
    BY <2>1 DEF Ahead
<1>5. ASSUME NEW m \in DOMAIN s, NEW n \in DOMAIN s, m < n, s[m] = a, s[n] = b
      PROVE  Ahead(t, a, b)
  <2>1. /\ m + 1 \in DOMAIN t /\ n + 1 \in DOMAIN t /\ m + 1 < n + 1
        /\ t[m + 1] = a /\ t[n + 1] = b
    BY <1>1, <1>2, <1>5
  <2>2. QED
    BY <2>1 DEF Ahead
<1>6. (a = id /\ b \in Ids(s)) => Ahead(t, a, b)
  BY <1>4 DEF Ids
<1>7. QED
  BY <1>3, <1>5, <1>6 DEF Ahead, t

LEMMA AheadToFront ==
  ASSUME NEW s, Table(s), NEW id \in Id, NEW a, NEW b
  PROVE  Ahead(ToFront(s, id), a, b) <=>
            \/ a = id /\ b \in Ids(s) \ {id}
            \/ a # id /\ b # id /\ Ahead(s, a, b)
<1>1. Table(Erase(s, id)) /\ Ids(Erase(s, id)) = Ids(s) \ {id}
  BY ErasedTable
<1>2. QED
  BY <1>1, AheadErase, AheadFront DEF ToFront

\* Using an id keeps a table in the order of use, with the id or without it.
LEMMA OrderAfterUse ==
  ASSUME NEW s, Table(s), NEW u, Table(u), NEW id \in Id,
         InOrder(s, u) \/ InOrder(s, ToFront(u, id))
  PROVE  /\ InOrder(Erase(s, id), ToFront(u, id))
         /\ InOrder(ToFront(s, id), ToFront(u, id))
<1>1. /\ Ids(Erase(s, id)) = Ids(s) \ {id}
      /\ Ids(ToFront(s, id)) = Ids(s) \cup {id}
      /\ Ids(ToFront(u, id)) = Ids(u) \cup {id}
  BY ErasedTable, ToFrontTable
<1>2. Ids(s) \subseteq Ids(u) \cup {id}
  BY <1>1 DEF InOrder
<1>3. ASSUME NEW a, NEW b, a # id, b # id, Ahead(s, a, b) PROVE Ahead(ToFront(u, id), a, b)
  BY <1>3, AheadToFront DEF InOrder
<1>4. ASSUME NEW a, NEW b, Ahead(Erase(s, id), a, b) PROVE Ahead(ToFront(u, id), a, b)
  BY <1>3, <1>4, AheadErase
<1>5. ASSUME NEW a, NEW b, Ahead(ToFront(s, id), a, b) PROVE Ahead(ToFront(u, id), a, b)
  <2>1. CASE a = id /\ b \in Ids(s) \ {id}
    BY <1>2, <2>1, AheadToFront
  <2>2. CASE a # id /\ b # id /\ Ahead(s, a, b)
    BY <1>3, <2>2
  <2>3. QED
    BY <1>5, <2>1, <2>2, AheadToFront
<1>6. QED
  BY <1>1, <1>2, <1>4, <1>5 DEF InOrder

\* The last entry of a table comes after the others, which keep their order.
LEMMA OrderWithoutLast ==
  ASSUME NEW s, Table(s), s # <<>>, NEW u, InOrder(s, u)
  PROVE  /\ InOrder(SubSeq(s, 1, Len(s) - 1), u)
         /\ \A n \in Ids(SubSeq(s, 1, Len(s) - 1)) : Ahead(u, n, s[Len(s)])
<1> DEFINE t == SubSeq(s, 1, Len(s) - 1)
<1>1. s \in Seq(Id) /\ Len(s) \in Nat \ {0} /\ DOMAIN s = 1 .. Len(s)
  BY DEF Table
<1>2. DOMAIN t = 1 .. Len(s) - 1 /\ \A j \in 1 .. Len(s) - 1 : t[j] = s[j]
  BY <1>1
<1>3. Ids(t) = Ids(s) \ {s[Len(s)]}
  BY TableWithoutLast
<1> HIDE DEF t
<1>4. ASSUME NEW a, NEW b, Ahead(t, a, b) PROVE Ahead(s, a, b)
  <2>1. PICK i, j \in DOMAIN t : i < j /\ t[i] = a /\ t[j] = b
    BY <1>4 DEF Ahead
  <2>2. i \in DOMAIN s /\ j \in DOMAIN s /\ s[i] = a /\ s[j] = b
    BY <1>1, <1>2, <2>1
  <2>3. QED
    BY <2>1, <2>2 DEF Ahead
<1>5. ASSUME NEW j \in DOMAIN t PROVE Ahead(s, t[j], s[Len(s)])
  <2>1. j \in DOMAIN s /\ Len(s) \in DOMAIN s /\ j < Len(s) /\ s[j] = t[j]
    BY <1>1, <1>2
  <2>2. QED
    BY <2>1 DEF Ahead
<1>6. ASSUME NEW n \in Ids(t) PROVE Ahead(u, n, s[Len(s)])
  <2>1. PICK j \in DOMAIN t : n = t[j]
    BY DEF Ids
  <2>2. QED
    BY <1>5, <2>1 DEF InOrder
<1>7. QED
  BY <1>3, <1>4, <1>6 DEF InOrder, t

\* During a batch the table has its ids in the order in which they were used.
OrderInv == pc = "batch" => InOrder(lru_table, used)

\* What a step evicts was used before everything that it leaves in the cache.
Oldest ==
    \A id \in DOMAIN cache_items \ DOMAIN cache_items', n \in DOMAIN cache_items' :
       Ahead(used', n, id)

LEMMA PutOrder ==
  ASSUME CacheInv, pc = "batch", NEW id \in Id, NEW v \in Value, NEW table,
         Table(table), Ids(table) = DOMAIN cache_items, put(table, id, v),
         used' = ToFront(used, id),
         InOrder(table, used) \/ InOrder(table, ToFront(used, id))
  PROVE  InOrder(lru_table', used') /\ Oldest
<1> DEFINE lru   == ToFront(table, id)
           items == Set(cache_items, id, v)
<1>1. Table(used)
  BY DEF CacheInv, TypeOK, Table
<1>2. Table(lru) /\ Ids(lru) = DOMAIN cache_items \cup {id} /\ InOrder(lru, used')
  BY <1>1, ToFrontTable, OrderAfterUse
<1>3. DOMAIN items = DOMAIN cache_items \cup {id}
  BY DEF Set
<1>4. \/ /\ cache_items' = Without(items, {lru[Len(lru)]})
         /\ lru_table' = SubSeq(lru, 1, Len(lru) - 1)
      \/ cache_items' = items /\ lru_table' = lru
  <2>1. CASE Cached(id)
    BY <2>1 DEF put
  <2>2. CASE ~Cached(id)
    <3>1. Erase(table, id) = table
      BY <2>2 DEF Cached, Erase
    <3>2. QED
      BY <2>2, <3>1 DEF put, ToFront
  <2>3. QED
    BY <2>1, <2>2
<1> HIDE DEF lru, items
<1>5. CASE /\ cache_items' = Without(items, {lru[Len(lru)]})
           /\ lru_table' = SubSeq(lru, 1, Len(lru) - 1)
  <2>1. lru # <<>>
    BY <1>2 DEF Ids
  <2>2. DOMAIN cache_items' = (DOMAIN cache_items \cup {id}) \ {lru[Len(lru)]}
    BY <1>3, <1>5 DEF Without
  <2>3. /\ InOrder(lru_table', used')
        /\ \A n \in Ids(lru_table') : Ahead(used', n, lru[Len(lru)])
        /\ Ids(lru_table') = Ids(lru) \ {lru[Len(lru)]}
    BY <1>2, <1>5, <2>1, OrderWithoutLast, TableWithoutLast
  <2>4. QED
    BY <1>2, <2>2, <2>3 DEF Oldest
<1>6. CASE cache_items' = items /\ lru_table' = lru
  BY <1>2, <1>3, <1>6 DEF Oldest
<1>7. QED
  BY <1>4, <1>5, <1>6

\* A call of ODS_access keeps the order and evicts the oldest node.
LEMMA AccessOrder ==
  ASSUME CacheInv, OrderInv, NEW id \in Id,
         \/ Read(id) \/ Delete(id)
         \/ \E v \in Value : Write(id, v) \/ Insert(id, v)
  PROVE  InOrder(lru_table', used') /\ Oldest
<1>1. Access(id)
  BY DEF Read, Delete, Write, Insert
<1>2. pc = "batch" /\ used' = ToFront(used, id)
  BY <1>1 DEF Access
<1>3. Table(used) /\ Table(lru_table) /\ Ids(lru_table) = DOMAIN cache_items
  BY <1>2, BatchTable DEF CacheInv, TypeOK, Table
<1>4. InOrder(lru_table, used)
  BY <1>2 DEF OrderInv
<1>5. /\ InOrder(Erase(lru_table, id), used')
      /\ InOrder(get(id), used')
  BY <1>2, <1>3, <1>4, OrderAfterUse DEF get
<1>6. Cached(id) => Table(get(id)) /\ Ids(get(id)) = DOMAIN cache_items
  BY <1>2, GetTable
<1>7. ASSUME NEW v \in Value, put(lru_table, id, v) PROVE InOrder(lru_table', used') /\ Oldest
  BY <1>2, <1>3, <1>4, <1>7, PutOrder
<1>8. ASSUME NEW v \in Value, Cached(id), put(get(id), id, v)
      PROVE  InOrder(lru_table', used') /\ Oldest
  BY <1>2, <1>5, <1>6, <1>8, PutOrder
<1>9. CASE Read(id)
  <2>1. CASE Cached(id) /\ lru_table' = get(id) /\ UNCHANGED cache_items
    BY <1>5, <2>1 DEF Oldest
  <2>2. ASSUME NEW v \in Answers(id), put(lru_table, id, v)
        PROVE  InOrder(lru_table', used') /\ Oldest
    <3>1. v \in Value
      BY <2>2 DEF CacheInv, TypeOK, Answers
    <3>2. QED
      BY <1>7, <2>2, <3>1
  <2>3. QED
    BY <1>9, <2>1, <2>2 DEF Read
<1>10. CASE Delete(id)
  <2>1. UNCHANGED cache_items
    BY <1>10 DEF Delete
  <2>2. CASE lru_table' = get(id)
    BY <1>5, <2>1, <2>2 DEF Oldest
  <2>3. CASE ~Cached(id) /\ lru_table' = lru_table
    <3>1. Erase(lru_table, id) = lru_table
      BY <1>3, <2>3 DEF Cached, Erase
    <3>2. QED
      BY <1>5, <2>1, <2>3, <3>1 DEF Oldest
  <2>4. QED
    BY <1>10, <2>2, <2>3 DEF Delete
<1>11. ASSUME NEW v \in Value, Write(id, v) \/ Insert(id, v)
       PROVE  InOrder(lru_table', used') /\ Oldest
  <2>1. (Cached(id) /\ put(get(id), id, v)) \/ put(lru_table, id, v)
    BY <1>11 DEF Write, Insert, Put
  <2>2. QED
    BY <1>7, <1>8, <2>1
<1>12. QED
  BY <1>9, <1>10, <1>11

LEMMA NextOrder ==
  ASSUME CacheInv, OrderInv, [Next]_vars
  PROVE  OrderInv' /\ (pc = "batch" /\ pc' = "batch" => Oldest)
<1>1. CASE ODS_start
  <2>1. lru_table' = <<>> /\ pc = "idle"
    BY <1>1 DEF ODS_start
  <2>2. InOrder(lru_table', used')
    BY <2>1 DEF InOrder, Ids, Ahead
  <2>3. QED
    BY <2>1, <2>2 DEF OrderInv
<1>2. CASE \/ ODS_finalize \/ Flush \/ FinalizeFails
           \/ \E id \in Id : FetchFails(id) \/ FetchFindsNothing(id)
  <2>1. pc' # "batch"
    BY <1>2 DEF ODS_finalize, Flush, FlushDone, FlushNext, WriteBack, FinalizeFails, FetchFails,
                FetchFindsNothing, Throw
  <2>2. QED
    BY <2>1 DEF OrderInv
<1>3. ASSUME NEW id \in Id,
             \/ Read(id) \/ Delete(id)
             \/ \E v \in Value : Write(id, v) \/ Insert(id, v)
      PROVE  OrderInv' /\ Oldest
  BY <1>3, AccessOrder DEF OrderInv
<1>4. CASE UNCHANGED vars
  BY <1>4 DEF OrderInv, Oldest, vars, cache
<1>5. QED
  BY <1>1, <1>2, <1>3, <1>4 DEF Next

\* Cache::put evicts the node that ODS_access used the longest time ago, as the
\* table is in the order of use after every get, put, fetch and delete.
THEOREM EvictsOldestHolds == Spec => EvictsOldest
<1>1. Init => OrderInv
  BY DEF Init, OrderInv
<1>2. CacheInv /\ OrderInv /\ [Next]_vars => OrderInv'
  BY NextOrder
<1>3. CacheInv /\ OrderInv /\ [Next]_vars
        => [pc = "batch" /\ pc' = "batch" =>
              \A id \in DOMAIN cache_items \ DOMAIN cache_items', n \in DOMAIN cache_items' :
                 \E i, j \in DOMAIN used' : i < j /\ used'[i] = n /\ used'[j] = id]_vars
  BY NextOrder DEF Oldest, Ahead
<1>4. QED
  BY <1>1, <1>2, <1>3, CacheInvariant, PTL DEF Spec, EvictsOldest
=============================================================================
