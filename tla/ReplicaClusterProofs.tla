------------------------ MODULE ReplicaClusterProofs ------------------------
(***************************************************************************)
(* Theorems about ReplicaCluster, for any replicas, keys and number of     *)
(* requests.                                                               *)
(***************************************************************************)
EXTENDS ReplicaCluster, TLAPS

USE ClusterAssumption

-----------------------------------------------------------------------------
(* The inductive invariant                                                 *)

\* Request i set the key k, and no replica answered it with an error.
Good(k, i) == /\ i \in RequestIds /\ IsSet(i) /\ KeyOf(i) = k
              /\ ~(request[i].failed /\ request[i].node \in Replicas)

\* Request i set the key k on the node n.
Local(n, k, i) == i \in RequestIds /\ IsSet(i) /\ KeyOf(i) = k /\ request[i].node = n

\* What the Redis of n may hold for k: on a replica also the beginning of a value
\* and the value of a Set it answered with an error.
Keepable(n, k, v) == \/ v = Absent \/ Good(k, v)
                     \/ n \in Replicas /\ (Good(k, -v) \/ Local(n, k, v))

\* What may be forwarded to the primary, and written behind there.
Sendable(i) == i \in RequestIds /\ KeyOf(i) \in Keys /\ (IsSet(i) => Good(KeyOf(i), i))

Asked(q) == /\ q.pc # "free" => q.key \in Keys
            /\ IF q.pc \in {"row", "back"} THEN Good(q.key, q.val) ELSE q.val = Absent

CacheOK   == \A n \in Nodes, k \in Keys : Keepable(n, k, cache[n][k])
RowsOK    == \A k \in Keys : rows[k] = Absent \/ Good(k, rows[k])
TransitOK == \A i \in pending \cup forwards : Sendable(i)
QueryOK   == \A n \in Nodes : Asked(query[n])

RequestsOK == \A i \in RequestIds : request[i].op = "set" => request[i].key \in Keys

\* What a replica was told to store is there, and no lookup that could put
\* something else in its place is under way.
OwnOK == \A n \in Replicas, k \in Keys :
           own[n][k] # Absent => cache[n][k] = own[n][k] /\ query[n].key # k

Inv == TypeOK /\ RequestsOK /\ CacheOK /\ RowsOK /\ TransitOK /\ QueryOK /\ OwnOK

-----------------------------------------------------------------------------
(* Numbers and types                                                       *)

LEMMA IdFacts ==
  /\ Absent \notin RequestIds /\ Absent \in Held /\ RequestIds \subseteq Held
  /\ \A i \in RequestIds : /\ -i \notin RequestIds /\ -i \in Held /\ i # Absent /\ -i # Absent
                           /\ Origin(i) = i /\ Origin(-i) = i /\ Cut(i) = -i /\ -(-i) = i
  /\ Origin(Absent) = Absent
<1>1. \A i \in RequestIds : Cut(i) \in Values
  BY DEF Values
<1> QED BY <1>1 DEF Absent, RequestIds, Held, Values, Origin, Cut

RequestType == [op : {"none", "set", "delete"}, key : Keys \cup {NoKey},
                node : Nodes, failed : BOOLEAN]
QueryType   == [pc : {"free", "sent", "row", "back"}, key : Keys \cup {NoKey},
                val : Held, batch : BOOLEAN]

LEMMA Types ==
  ASSUME TypeOK
  PROVE  /\ request \in [RequestIds -> RequestType]
         /\ cache \in [Nodes -> [Keys -> Held]]
         /\ rows \in [Keys -> Held]
         /\ query \in [Nodes -> QueryType]
         /\ own \in [Replicas -> [Keys -> RequestIds \cup {Absent}]]
  BY DEF TypeOK, RequestType, QueryType

LEMMA FreeFacts == /\ Free \in QueryType /\ NoRequest \in RequestType
                   /\ Free.pc = "free" /\ Free.key = NoKey /\ Free.val = Absent
                   /\ NoRequest.op = "none" /\ NoRequest.key = NoKey
<1>1. Primary \in Nodes
  BY DEF Nodes
<1> QED BY <1>1, IdFacts DEF Free, NoRequest, QueryType, RequestType

-----------------------------------------------------------------------------
(* Requests                                                                *)

\* Requests that were made stay as they are.
Kept == /\ request' \in [RequestIds -> RequestType] /\ RequestsOK'
        /\ \A j \in RequestIds : request'[j] = request[j] \/ request[j] = NoRequest

LEMMA UnchangedKept ==
  ASSUME Inv, request' = request
  PROVE  Kept
  BY Types DEF Kept, Inv, RequestsOK

LEMMA MadeKept ==
  ASSUME Inv, NEW i \in RequestIds, NEW op \in {"set", "delete"}, NEW k \in Keys,
         NEW n \in Nodes, NEW failed \in BOOLEAN, Made(i, op, k, n, failed)
  PROVE  /\ Kept
         /\ request[i] = NoRequest
         /\ request'[i] = [op |-> op, key |-> k, node |-> n, failed |-> failed]
         /\ \A j \in RequestIds \ {i} : request'[j] = request[j]
<1>1. request \in [RequestIds -> RequestType] /\ RequestsOK
  BY Types DEF Inv
<1>2. request[i] = NoRequest
  BY DEF Made, RequestIds
<1>3. [op |-> op, key |-> k, node |-> n, failed |-> failed] \in RequestType
  BY DEF RequestType
<1>4. request' = [request EXCEPT ![i] = [op |-> op, key |-> k, node |-> n, failed |-> failed]]
  BY DEF Made
<1>5. request'[i].key = k /\ \A j \in RequestIds \ {i} : request'[j] = request[j]
  BY <1>1, <1>4
<1>6. RequestsOK'
  BY <1>1, <1>5 DEF RequestsOK
<1> QED BY <1>1, <1>2, <1>3, <1>4, <1>5, <1>6 DEF Kept

LEMMA GoodKept ==
  ASSUME Kept
  PROVE  /\ \A k, i : Good(k, i) => Good(k, i)'
         /\ \A n, k, i : Local(n, k, i) => Local(n, k, i)'
         /\ \A n, k, v : Keepable(n, k, v) => Keepable(n, k, v)'
         /\ \A i : Sendable(i) => Sendable(i)'
         /\ \A q : Asked(q) => Asked(q)'
<1>1. NoRequest.op # "set" /\ NoRequest.key \notin Keys
  BY FreeFacts
<1>2. \A i \in RequestIds : IsSet(i) \/ KeyOf(i) \in Keys => request'[i] = request[i]
  BY <1>1 DEF Kept, IsSet, KeyOf
<1>3. \A k, i : Good(k, i) => Good(k, i)'
  BY <1>2 DEF Good, IsSet, KeyOf
<1>4. \A n, k, i : Local(n, k, i) => Local(n, k, i)'
  BY <1>2 DEF Local, IsSet, KeyOf
<1>5. \A n, k, v : Keepable(n, k, v) => Keepable(n, k, v)'
  BY <1>3, <1>4 DEF Keepable
<1>6. \A i : Sendable(i) => Sendable(i)'
  BY <1>2, <1>3 DEF Sendable, IsSet, KeyOf
<1>7. \A q : Asked(q) => Asked(q)'
  BY <1>3 DEF Asked
<1> QED BY <1>3, <1>4, <1>5, <1>6, <1>7

-----------------------------------------------------------------------------
(* What a step does to one variable                                        *)

CacheInv == cache \in [Nodes -> [Keys -> Held]] /\ CacheOK
RowsInv  == rows \in [Keys -> Held] /\ RowsOK
QueryInv == query \in [Nodes -> QueryType] /\ QueryOK
OwnInv   == own \in [Replicas -> [Keys -> RequestIds \cup {Absent}]] /\ OwnOK

LEMMA InvParts ==
  Inv <=> /\ request \in [RequestIds -> RequestType] /\ RequestsOK
          /\ CacheInv /\ RowsInv /\ TransitOK /\ QueryInv /\ OwnInv
<1>1. TransitOK => \A i \in pending \cup forwards : i \in RequestIds /\ KeyOf(i) \in Keys
  BY DEF TransitOK, Sendable
<1> QED BY <1>1 DEF Inv, TypeOK, CacheInv, RowsInv, QueryInv, OwnInv, RequestType, QueryType

LEMMA InvNext ==
  ASSUME Kept, CacheInv', RowsInv', TransitOK', QueryInv', OwnInv'
  PROVE  Inv'
<1>1. (\A i \in pending \cup forwards : i \in RequestIds /\ KeyOf(i) \in Keys)'
  BY DEF TransitOK, Sendable
<1> QED BY <1>1 DEF Kept, Inv, TypeOK, CacheInv, RowsInv, QueryInv, OwnInv, RequestType, QueryType

LEMMA CacheSame ==
  ASSUME Inv, Kept, cache' = cache
  PROVE  CacheInv'
  BY InvParts, GoodKept DEF CacheInv, CacheOK

LEMMA CachePut ==
  ASSUME Inv, Kept, NEW m \in Nodes, NEW x \in Keys, NEW v \in Held, Put(m, x, v), Keepable(m, x, v)'
  PROVE  /\ CacheInv' /\ cache'[m][x] = v
         /\ \A n \in Nodes, k \in Keys : n # m \/ k # x => cache'[n][k] = cache[n][k]
<1>1. cache \in [Nodes -> [Keys -> Held]] /\ CacheOK
  BY InvParts DEF CacheInv
<1>2. cache' = [cache EXCEPT ![m][x] = v]
  BY DEF Put
<1>3. cache' \in [Nodes -> [Keys -> Held]]
  BY <1>1, <1>2
<1>4. cache'[m][x] = v /\ \A n \in Nodes, k \in Keys : n # m \/ k # x => cache'[n][k] = cache[n][k]
  BY <1>1, <1>2
<1>5. ASSUME NEW n \in Nodes, NEW k \in Keys
      PROVE  Keepable(n, k, cache[n][k])'
  <2>1. CASE n = m /\ k = x
    BY <1>4, <2>1
  <2>2. CASE n # m \/ k # x
    <3>1. PICK w \in Held : w = cache[n][k]
      BY <1>1
    <3>2. Keepable(n, k, w)'
      BY <1>1, <3>1, GoodKept DEF CacheOK
    <3> QED BY <1>4, <2>2, <3>1, <3>2
  <2> QED BY <2>1, <2>2
<1> QED BY <1>3, <1>4, <1>5 DEF CacheInv, CacheOK

LEMMA RowsSame ==
  ASSUME Inv, Kept, rows' = rows
  PROVE  RowsInv'
  BY InvParts, GoodKept DEF RowsInv, RowsOK

LEMMA TransitSame ==
  ASSUME Inv, Kept, pending' \cup forwards' \subseteq pending \cup forwards
  PROVE  TransitOK'
  BY GoodKept DEF Inv, TransitOK

LEMMA TransitNew ==
  ASSUME Inv, Kept, NEW i, Sendable(i)', pending' \cup forwards' \subseteq pending \cup forwards \cup {i}
  PROVE  TransitOK'
<1> SUFFICES ASSUME NEW j \in pending' \cup forwards' PROVE Sendable(j)'
  BY DEF TransitOK
<1>1. j = i \/ j \in pending \cup forwards
  OBVIOUS
<1> QED BY <1>1, GoodKept DEF Inv, TransitOK

LEMMA QuerySame ==
  ASSUME Inv, Kept, query' = query
  PROVE  QueryInv'
  BY InvParts, GoodKept DEF QueryInv, QueryOK

LEMMA QueryPut ==
  ASSUME Inv, Kept, NEW n \in Nodes, NEW q \in QueryType, query' = [query EXCEPT ![n] = q],
         Asked(q)'
  PROVE  /\ QueryInv' /\ query'[n] = q
         /\ \A m \in Nodes : m # n => query'[m] = query[m]
<1>1. query \in [Nodes -> QueryType] /\ QueryOK
  BY InvParts DEF QueryInv
<1>2. /\ query' \in [Nodes -> QueryType] /\ query'[n] = q
      /\ \A m \in Nodes : m # n => query'[m] = query[m]
  BY <1>1
<1>3. ASSUME NEW m \in Nodes PROVE Asked(query[m])'
  <2>1. CASE m = n
    BY <1>2, <2>1
  <2>2. CASE m # n
    <3>1. PICK r \in QueryType : r = query[m]
      BY <1>1
    <3>2. Asked(r)'
      BY <1>1, <3>1, GoodKept DEF QueryOK
    <3> QED BY <1>2, <2>2, <3>1, <3>2
  <2> QED BY <2>1, <2>2
<1> QED BY <1>2, <1>3 DEF QueryInv, QueryOK

\* A lookup that goes one step further.
LEMMA QueryGoes ==
  ASSUME Inv, Kept, NEW n \in Nodes, query[n].pc # "free", NEW pc \in {"row", "back"}, NEW v \in Held,
         Query(n, pc, v), Good(query[n].key, v)
  PROVE  /\ QueryInv' /\ query'[n].key = query[n].key /\ query'[n].val = v
         /\ \A m \in Nodes : m # n => query'[m] = query[m]
<1>1. query \in [Nodes -> QueryType] /\ Asked(query[n])
  BY InvParts DEF QueryInv, QueryOK
<1>2. PICK q \in QueryType : q = [query[n] EXCEPT !.pc = pc, !.val = v]
  BY <1>1 DEF QueryType
<1>3. q.pc = pc /\ q.key = query[n].key /\ q.val = v
  BY <1>1, <1>2 DEF QueryType
<1>4. query' = [query EXCEPT ![n] = q]
  BY <1>1, <1>2 DEF Query
<1>5. q.key \in Keys /\ Good(q.key, q.val)
  BY <1>1, <1>3 DEF Asked
<1>6. Asked(q)
  BY <1>3, <1>5 DEF Asked
<1>7. Asked(q)'
  BY <1>6, GoodKept
<1> QED BY <1>3, <1>4, <1>7, QueryPut

LEMMA QueryDone ==
  ASSUME Inv, Kept, NEW n \in Nodes, Done(n)
  PROVE  /\ QueryInv' /\ query'[n] = Free
         /\ \A m \in Nodes : m # n => query'[m] = query[m]
<1>1. Free \in QueryType /\ query' = [query EXCEPT ![n] = Free]
  BY FreeFacts DEF Done
<1>2. Asked(Free)'
  BY FreeFacts DEF Asked
<1> QED BY <1>1, <1>2, QueryPut

\* What own keeps may change on no other condition than these.
LEMMA OwnSame ==
  ASSUME Inv, own' = own,
         \A n \in Replicas, k \in Keys : own[n][k] # Absent => cache'[n][k] = cache[n][k],
         \A n \in Replicas, k \in Keys : own[n][k] # Absent /\ query'[n].key = k => query[n].key = k
  PROVE  OwnInv'
  BY InvParts DEF OwnInv, OwnOK

LEMMA OwnPut ==
  ASSUME Inv, NEW n \in Nodes, NEW k \in Keys, NEW v \in RequestIds \cup {Absent}, Owns(n, k, v),
         v # Absent /\ n \in Replicas => cache'[n][k] = v /\ query'[n].key # k,
         \A m \in Replicas, x \in Keys :
           m # n \/ x # k => /\ cache'[m][x] = cache[m][x]
                             /\ query'[m].key = x => query[m].key = x
  PROVE  OwnInv'
<1>1. own \in [Replicas -> [Keys -> RequestIds \cup {Absent}]] /\ OwnOK
  BY InvParts DEF OwnInv
<1>2. CASE n \in Replicas
  <2>1. own' = [own EXCEPT ![n][k] = v]
    BY <1>2 DEF Owns
  <2>2. own' \in [Replicas -> [Keys -> RequestIds \cup {Absent}]]
    BY <1>1, <2>1
  <2>3. /\ own'[n][k] = v
        /\ \A m \in Replicas, x \in Keys : m # n \/ x # k => own'[m][x] = own[m][x]
    BY <1>1, <1>2, <2>1
  <2>4. ASSUME NEW m \in Replicas, NEW x \in Keys, own'[m][x] # Absent
        PROVE  cache'[m][x] = own'[m][x] /\ query'[m].key # x
    <3>1. CASE m = n /\ x = k
      BY <1>2, <2>3, <2>4, <3>1
    <3>2. CASE m # n \/ x # k
      BY <1>1, <2>3, <2>4, <3>2 DEF OwnOK
    <3> QED BY <3>1, <3>2
  <2> QED BY <2>2, <2>4 DEF OwnInv, OwnOK
<1>3. CASE n \notin Replicas
  <2>1. own' = own
    BY <1>3 DEF Owns
  <2>2. ASSUME NEW m \in Replicas, NEW x \in Keys, own[m][x] # Absent
        PROVE  cache'[m][x] = own[m][x] /\ query'[m].key # x
    <3>1. m # n
      BY <1>3
    <3> QED BY <1>1, <2>2, <3>1 DEF OwnOK
  <2> QED BY <1>1, <2>1, <2>2 DEF OwnInv, OwnOK
<1> QED BY <1>2, <1>3

-----------------------------------------------------------------------------
(* Every step keeps the invariant                                          *)

LEMMA InvSet ==
  ASSUME Inv, NEW n \in Nodes, NEW i \in RequestIds, NEW k \in Keys, Set(n, i, k)
  PROVE  Inv'
<1> DEFINE v == IF Asking(n, k) \/ request'[i].failed THEN Absent ELSE i
<1>1. PICK failed \in BOOLEAN : /\ Made(i, "set", k, n, failed)
                                /\ IF failed THEN Rejected(n, i, k) ELSE Stored(n, i, k)
  BY DEF Set
<1>2. UNCHANGED <<rows, query>> /\ Owns(n, k, v)
  BY DEF Set
<1>3. /\ Kept
      /\ request'[i] = [op |-> "set", key |-> k, node |-> n, failed |-> failed]
  BY <1>1, MadeKept DEF Inv
<1>4. /\ ~failed \/ n \notin Replicas => Good(k, i)'
      /\ Local(n, k, i)'
  BY <1>3 DEF Good, Local, IsSet, KeyOf
<1>5. Keepable(n, k, i)' /\ i \in Held
  BY <1>4, IdFacts DEF Keepable, Nodes
<1>6. CacheInv' /\ \A m \in Replicas, x \in Keys : m # n \/ x # k => cache'[m][x] = cache[m][x]
  <2>1. CASE Put(n, k, i)
    BY <1>3, <1>5, <2>1, CachePut DEF Nodes
  <2>2. CASE UNCHANGED cache
    BY <1>3, <2>2, CacheSame
  <2> QED BY <1>1, <2>1, <2>2 DEF Rejected, Stored
<1>7. TransitOK'
  <2>1. CASE failed
    <3>1. pending' \cup forwards' \subseteq pending \cup forwards
      BY <1>1, <2>1 DEF Rejected
    <3> QED BY <1>3, <3>1, TransitSame
  <2>2. CASE ~failed
    <3>1. pending' \cup forwards' \subseteq pending \cup forwards \cup {i}
      BY <1>1, <2>2 DEF Stored, PassOn
    <3>2. Sendable(i)'
      BY <1>3, <1>4, <2>2 DEF Sendable, KeyOf
    <3> QED BY <1>3, <3>1, <3>2, TransitNew
  <2> QED BY <2>1, <2>2
<1>8. v # Absent => cache'[n][k] = v /\ query'[n].key # k
  <2>1. SUFFICES ASSUME v # Absent PROVE cache'[n][k] = v /\ query'[n].key # k
    OBVIOUS
  <2>2. v = i /\ ~Asking(n, k) /\ ~failed
    BY <1>3, <2>1
  <2>3. Put(n, k, i)
    BY <1>1, <2>2 DEF Stored
  <2>4. cache'[n][k] = i
    BY <1>3, <1>5, <2>3, CachePut
  <2> QED BY <1>2, <2>2, <2>4 DEF Asking
<1>9. v \in RequestIds \cup {Absent}
  OBVIOUS
<1> HIDE DEF v
<1>10. OwnInv'
  BY <1>2, <1>6, <1>8, <1>9, OwnPut
<1>11. RowsInv' /\ QueryInv'
  BY <1>2, <1>3, RowsSame, QuerySame
<1> QED BY <1>3, <1>6, <1>7, <1>10, <1>11, InvNext

LEMMA InvDelete ==
  ASSUME Inv, NEW n \in Nodes, NEW i \in RequestIds, NEW k \in Keys, Delete(n, i, k)
  PROVE  Inv'
<1>1. /\ Made(i, "delete", k, n, FALSE) /\ Deleted(n, i, k) /\ Owns(n, k, Absent)
      /\ UNCHANGED <<rows, query>>
  BY DEF Delete
<1>2. /\ Kept
      /\ request'[i] = [op |-> "delete", key |-> k, node |-> n, failed |-> FALSE]
  BY <1>1, MadeKept DEF Inv
<1>3. CacheInv' /\ \A m \in Replicas, x \in Keys : m # n \/ x # k => cache'[m][x] = cache[m][x]
  <2>1. CASE Put(n, k, Absent)
    <3>1. Keepable(n, k, Absent)' /\ Absent \in Held
      BY IdFacts DEF Keepable
    <3> QED BY <1>2, <2>1, <3>1, CachePut DEF Nodes
  <2>2. CASE UNCHANGED cache
    BY <1>2, <2>2, CacheSame
  <2> QED BY <1>1, <2>1, <2>2 DEF Deleted
<1>4. TransitOK'
  <2>1. pending' \cup forwards' \subseteq pending \cup forwards \cup {i}
    BY <1>1 DEF Deleted, PassOn
  <2>2. Sendable(i)'
    BY <1>2 DEF Sendable, KeyOf, IsSet
  <2> QED BY <1>2, <2>1, <2>2, TransitNew
<1>5. OwnInv'
  BY <1>1, <1>3, OwnPut
<1>6. RowsInv' /\ QueryInv'
  BY <1>1, <1>2, RowsSame, QuerySame
<1> QED BY <1>2, <1>3, <1>4, <1>5, <1>6, InvNext

\* The primary serves what a replica has forwarded.
LEMMA InvDeliver ==
  ASSUME Inv, NEW i, Deliver(i)
  PROVE  Inv'
<1>1. i \in forwards /\ UNCHANGED <<request, rows, query, own>> /\ Sendable(i)
  BY DEF Deliver, Inv, TransitOK
<1>2. Kept /\ i \in RequestIds /\ KeyOf(i) \in Keys /\ Primary \in Nodes /\ Primary \notin Replicas
  BY <1>1, UnchangedKept DEF Inv, Sendable, Nodes
<1>3. PICK k \in Keys : k = KeyOf(i)
  BY <1>2
<1>4. \/ IsSet(i) /\ (Stored(Primary, i, k) \/ Rejected(Primary, i, k))
      \/ Deleted(Primary, i, k)
  BY <1>3 DEF Deliver
<1>5. CacheInv' /\ \A m \in Replicas, x \in Keys : cache'[m][x] = cache[m][x]
  <2>1. ASSUME NEW v \in Held, Put(Primary, k, v), Keepable(Primary, k, v)
        PROVE  CacheInv' /\ \A m \in Replicas, x \in Keys : cache'[m][x] = cache[m][x]
    <3>1. Keepable(Primary, k, v)'
      BY <1>2, <2>1, GoodKept
    <3> QED BY <1>2, <2>1, <3>1, CachePut DEF Nodes
  <2>2. CASE UNCHANGED cache
    BY <1>2, <2>2, CacheSame
  <2>3. i \in Held /\ Absent \in Held
    BY <1>2, IdFacts
  <2>4. CASE IsSet(i) /\ Put(Primary, k, i)
    <3>1. Keepable(Primary, k, i)
      BY <1>1, <1>3, <2>4 DEF Keepable, Sendable
    <3> QED BY <2>1, <2>3, <2>4, <3>1
  <2>5. CASE Put(Primary, k, Absent)
    <3>1. Keepable(Primary, k, Absent)
      BY DEF Keepable
    <3> QED BY <2>1, <2>3, <2>5, <3>1
  <2> QED BY <1>4, <2>2, <2>4, <2>5 DEF Stored, Rejected, Deleted
<1>6. TransitOK'
  <2>1. pending' \cup forwards' \subseteq pending \cup forwards
    BY <1>1, <1>4 DEF Stored, Rejected, Deleted, PassOn
  <2> QED BY <1>2, <2>1, TransitSame
<1>7. OwnInv'
  BY <1>1, <1>5, OwnSame
<1>8. RowsInv' /\ QueryInv'
  BY <1>1, <1>2, RowsSame, QuerySame
<1> QED BY <1>2, <1>5, <1>6, <1>7, <1>8, InvNext

LEMMA InvDatabase ==
  ASSUME Inv, NEW i \in RequestIds, Lose(i) \/ Execute(i) \/ Drop(i)
  PROVE  Inv'
<1>1. UNCHANGED <<request, cache, query, own>>
  BY DEF Lose, Execute, Drop
<1>2. Kept
  BY <1>1, UnchangedKept DEF Inv
<1>3. TransitOK'
  <2>1. pending' \cup forwards' \subseteq pending \cup forwards
    BY DEF Lose, Execute, Drop
  <2> QED BY <1>2, <2>1, TransitSame
<1>4. RowsInv'
  <2>1. CASE rows' = rows
    BY <1>2, <2>1, RowsSame
  <2>2. CASE Execute(i)
    <3>1. Sendable(i)
      BY <2>2 DEF Execute, Inv, TransitOK
    <3>2. PICK k \in Keys, v \in Held : /\ rows' = [rows EXCEPT ![k] = v]
                                        /\ v = Absent \/ Good(k, v)
      BY <2>2, <3>1, IdFacts DEF Execute, Sendable
    <3>3. rows \in [Keys -> Held] /\ RowsOK
      BY InvParts DEF RowsInv
    <3>4. rows' \in [Keys -> Held]
      BY <3>2, <3>3
    <3>5. ASSUME NEW x \in Keys PROVE (rows[x] = Absent \/ Good(x, rows[x]))'
      <4>1. PICK w \in Held : w = rows'[x]
        BY <3>4
      <4>2. w = Absent \/ Good(x, w)
        BY <3>2, <3>3, <4>1 DEF RowsOK
      <4>3. w = Absent \/ Good(x, w)'
        BY <1>2, <4>2, GoodKept
      <4> QED BY <4>1, <4>3
    <3> QED BY <3>4, <3>5 DEF RowsInv, RowsOK
  <2> QED BY <2>1, <2>2 DEF Lose, Drop
<1>5. CacheInv' /\ QueryInv' /\ OwnInv'
  BY <1>1, <1>2, CacheSame, QuerySame, OwnSame
<1> QED BY <1>2, <1>3, <1>4, <1>5, InvNext

LEMMA InvAsk ==
  ASSUME Inv, NEW n \in Nodes, NEW k \in Keys, NEW batch \in BOOLEAN,
         Ask(n, k, batch) \/ AskOnError(n, k, batch)
  PROVE  Inv'
<1> DEFINE q == [pc |-> "sent", key |-> k, val |-> Absent, batch |-> batch]
<1>1. UNCHANGED <<request, cache, rows, pending, forwards>>
  BY DEF Ask, AskOnError
<1>2. Kept
  BY <1>1, UnchangedKept DEF Inv
<1>3. q \in QueryType /\ q.pc = "sent" /\ q.key = k /\ q.val = Absent
  BY IdFacts DEF QueryType
<1>4. query' = [query EXCEPT ![n] = q]
  <2>1. query \in [Nodes -> QueryType]
    BY InvParts DEF QueryInv
  <2> QED BY <2>1 DEF Ask, AskOnError
<1> HIDE DEF q
<1>5. Asked(q)'
  BY <1>3 DEF Asked, q
<1>6. QueryInv' /\ query'[n] = q /\ \A m \in Nodes : m # n => query'[m] = query[m]
  <2>1. PICK r \in QueryType : r = q
    BY <1>3
  <2>2. Asked(r)'
    BY <1>3, <2>1 DEF Asked
  <2> QED BY <1>2, <1>4, <2>1, <2>2, QueryPut
<1>7. OwnInv'
  <2>1. CASE Ask(n, k, batch)
    <3>1. own' = own /\ cache[n][k] = Absent
      BY <2>1 DEF Ask
    <3>2. n \in Replicas => own[n][k] = Absent
      <4>1. n \in Replicas /\ own[n][k] # Absent => cache[n][k] = own[n][k]
        BY DEF Inv, OwnOK
      <4> QED BY <3>1, <4>1
    <3>3. \A m \in Replicas, x \in Keys : own[m][x] # Absent /\ query'[m].key = x => query[m].key = x
      <4> SUFFICES ASSUME NEW m \in Replicas, NEW x \in Keys, own[m][x] # Absent, query'[m].key = x
                   PROVE  query[m].key = x
        OBVIOUS
      <4>1. CASE m = n
        BY <1>3, <1>6, <3>2, <4>1
      <4>2. CASE m # n
        BY <1>6, <4>2 DEF Nodes
      <4> QED BY <4>1, <4>2
    <3> QED BY <1>1, <3>1, <3>3, OwnSame
  <2>2. CASE AskOnError(n, k, batch)
    <3>1. Owns(n, k, Absent)
      BY <2>2 DEF AskOnError
    <3>2. \A m \in Replicas, x \in Keys :
            m # n \/ x # k => cache'[m][x] = cache[m][x] /\ (query'[m].key = x => query[m].key = x)
      <4> SUFFICES ASSUME NEW m \in Replicas, NEW x \in Keys, m # n \/ x # k, query'[m].key = x
                   PROVE  query[m].key = x
        BY <1>1
      <4>1. m # n
        BY <1>3, <1>6
      <4> QED BY <1>6, <4>1 DEF Nodes
    <3> QED BY <3>1, <3>2, OwnPut
  <2> QED BY <2>1, <2>2
<1>8. CacheInv' /\ RowsInv' /\ TransitOK'
  BY <1>1, <1>2, CacheSame, RowsSame, TransitSame
<1> QED BY <1>2, <1>6, <1>7, <1>8, InvNext

\* A lookup under way is about a key, and what it has found is a value of the key.
LEMMA QueryFacts ==
  ASSUME Inv, NEW n \in Nodes
  PROVE  /\ query[n] \in QueryType
         /\ query[n].pc # "free" => query[n].key \in Keys
         /\ query[n].pc \in {"row", "back"} => /\ Good(query[n].key, query[n].val)
                                               /\ query[n].val \in RequestIds
         /\ \A k \in Keys : rows[k] \in Held /\ (rows[k] # Absent => Good(k, rows[k]))
         /\ \A k \in Keys : /\ cache[Primary][k] \in Held
                            /\ cache[Primary][k] # Absent => Good(k, cache[Primary][k])
<1>1. /\ query \in [Nodes -> QueryType] /\ QueryOK /\ rows \in [Keys -> Held] /\ RowsOK
      /\ cache \in [Nodes -> [Keys -> Held]] /\ CacheOK
  BY InvParts DEF QueryInv, RowsInv, CacheInv
<1>2. Primary \in Nodes /\ Primary \notin Replicas
  BY DEF Nodes
<1>3. \A k \in Keys : cache[Primary][k] # Absent => Good(k, cache[Primary][k])
  BY <1>1, <1>2 DEF CacheOK, Keepable
<1> QED BY <1>1, <1>2, <1>3 DEF QueryOK, Asked, RowsOK, Good

LEMMA InvLookup ==
  ASSUME Inv, NEW n \in Nodes, PrimaryHit(n) \/ PrimaryRow(n) \/ PrimaryKeep(n)
  PROVE  Inv'
<1>1. UNCHANGED <<request, rows, pending, forwards, own>>
  BY DEF PrimaryHit, PrimaryRow, PrimaryKeep
<1>2. Kept
  BY <1>1, UnchangedKept DEF Inv
<1>3. query[n].pc \in {"sent", "row"}
  BY DEF PrimaryHit, PrimaryRow, PrimaryKeep
<1>4. PICK k \in Keys : k = query[n].key
  BY <1>3, QueryFacts
<1>5. PICK pc \in {"row", "back"}, v \in Held : Query(n, pc, v) /\ Good(k, v)
  <2>1. CASE PrimaryHit(n)
    BY <1>4, <2>1, QueryFacts DEF PrimaryHit
  <2>2. CASE PrimaryRow(n)
    BY <1>4, <2>2, QueryFacts DEF PrimaryRow
  <2>3. CASE PrimaryKeep(n)
    BY <1>4, <2>3, QueryFacts, IdFacts DEF PrimaryKeep
  <2> QED BY <2>1, <2>2, <2>3
<1>6. /\ QueryInv' /\ query'[n].key = query[n].key
      /\ \A m \in Nodes : m # n => query'[m] = query[m]
  BY <1>2, <1>3, <1>4, <1>5, QueryGoes
<1>7. CacheInv' /\ \A m \in Replicas, x \in Keys : cache'[m][x] = cache[m][x]
  <2>1. CASE cache' = cache
    BY <1>2, <2>1, CacheSame
  <2>2. CASE PrimaryKeep(n) /\ cache' # cache
    <3>1. Put(Primary, k, query[n].val) /\ Good(k, query[n].val) /\ query[n].val \in RequestIds
      BY <1>4, <2>2, QueryFacts DEF PrimaryKeep
    <3>2. PICK w \in Held : w = query[n].val
      BY <3>1, IdFacts
    <3>3. Keepable(Primary, k, w)
      BY <3>1, <3>2 DEF Keepable
    <3>4. Keepable(Primary, k, w)' /\ Primary \in Nodes /\ Put(Primary, k, w)
      BY <1>2, <3>1, <3>2, <3>3, GoodKept DEF Nodes
    <3> QED BY <1>2, <3>4, CachePut DEF Nodes
  <2> QED BY <2>1, <2>2 DEF PrimaryHit, PrimaryRow
<1>8. OwnInv'
  <2>1. \A m \in Replicas : query'[m].key = query[m].key
    BY <1>6 DEF Nodes
  <2> QED BY <1>1, <1>7, <2>1, OwnSame
<1>9. RowsInv' /\ TransitOK'
  BY <1>1, <1>2, RowsSame, TransitSame
<1> QED BY <1>2, <1>6, <1>7, <1>8, <1>9, InvNext

LEMMA InvKeep ==
  ASSUME Inv, NEW n \in Nodes, NotFound(n) \/ Keep(n) \/ (n = Primary /\ Answer)
  PROVE  Inv'
<1>1. UNCHANGED <<request, rows, pending, forwards, own>> /\ Done(n)
  BY DEF NotFound, Keep, Answer
<1>2. Kept
  BY <1>1, UnchangedKept DEF Inv
<1>3. QueryInv' /\ query'[n] = Free /\ \A m \in Nodes : m # n => query'[m] = query[m]
  BY <1>1, <1>2, QueryDone
<1>4. \A m \in Replicas, x \in Keys : query'[m].key = x => query[m].key = x
  BY <1>3, FreeFacts DEF Nodes
<1>5. /\ CacheInv'
      /\ \A m \in Replicas, x \in Keys : own[m][x] # Absent => cache'[m][x] = cache[m][x]
  <2>1. CASE cache' = cache
    BY <1>2, <2>1, CacheSame
  <2>2. CASE Keep(n) /\ cache' # cache
    <3>1. PICK k \in Keys : k = query[n].key
      BY <2>2, QueryFacts DEF Keep
    <3>2. Good(k, query[n].val) /\ n \in Replicas
      BY <2>2, <3>1, QueryFacts DEF Keep
    <3>3. PICK v \in Bodies(query[n]) : Put(n, k, v)
      BY <2>2, <3>1 DEF Keep
    <3>4. PICK i \in RequestIds : i = query[n].val
      BY <3>2 DEF Good
    <3>5. v = i \/ v = -i
      BY <3>3, <3>4 DEF Bodies, Cut
    <3>6. PICK w \in Held : w = v /\ (Good(k, w) \/ Good(k, -w))
      BY <3>2, <3>4, <3>5, IdFacts
    <3>7. Keepable(n, k, w)
      BY <3>2, <3>6 DEF Keepable
    <3>8. Keepable(n, k, w)' /\ Put(n, k, w)
      BY <1>2, <3>3, <3>6, <3>7, GoodKept
    <3>9. CacheInv' /\ \A m \in Nodes, x \in Keys : m # n \/ x # k => cache'[m][x] = cache[m][x]
      BY <1>2, <3>8, CachePut
    <3>10. own[n][k] = Absent
      BY <3>1, <3>2 DEF Inv, OwnOK
    <3> QED BY <3>9, <3>10 DEF Nodes
  <2> QED BY <2>1, <2>2 DEF NotFound, Answer
<1>6. OwnInv'
  BY <1>1, <1>4, <1>5, OwnSame
<1>7. RowsInv' /\ TransitOK'
  BY <1>1, <1>2, RowsSame, TransitSame
<1> QED BY <1>2, <1>3, <1>5, <1>6, <1>7, InvNext

LEMMA InvEvict ==
  ASSUME Inv, NEW n \in Nodes, NEW k \in Keys, Evict(n, k)
  PROVE  Inv'
<1>1. /\ UNCHANGED <<request, rows, pending, forwards, query>>
      /\ Put(n, k, Absent) /\ Owns(n, k, Absent)
  BY DEF Evict
<1>2. Kept
  BY <1>1, UnchangedKept DEF Inv
<1>3. Keepable(n, k, Absent)' /\ Absent \in Held
  BY IdFacts DEF Keepable
<1>4. CacheInv' /\ \A m \in Nodes, x \in Keys : m # n \/ x # k => cache'[m][x] = cache[m][x]
  BY <1>1, <1>2, <1>3, CachePut
<1>5. OwnInv'
  <2>1. \A m \in Replicas, x \in Keys :
          m # n \/ x # k => cache'[m][x] = cache[m][x] /\ (query'[m].key = x => query[m].key = x)
    BY <1>1, <1>4 DEF Nodes
  <2> QED BY <1>1, <2>1, OwnPut
<1>6. RowsInv' /\ TransitOK' /\ QueryInv'
  BY <1>1, <1>2, RowsSame, TransitSame, QuerySame
<1> QED BY <1>2, <1>4, <1>5, <1>6, InvNext

LEMMA InvInit == Init => Inv
<1> SUFFICES ASSUME Init PROVE Inv
  OBVIOUS
<1>1. request \in [RequestIds -> RequestType] /\ RequestsOK
  BY FreeFacts DEF Init, RequestsOK
<1>2. CacheInv
  BY IdFacts DEF Init, CacheInv, CacheOK, Keepable
<1>3. RowsInv
  BY IdFacts DEF Init, RowsInv, RowsOK
<1>4. TransitOK
  BY DEF Init, TransitOK
<1>5. QueryInv
  BY FreeFacts DEF Init, QueryInv, QueryOK, Asked
<1>6. OwnInv
  BY DEF Init, OwnInv, OwnOK
<1> QED BY <1>1, <1>2, <1>3, <1>4, <1>5, <1>6, InvParts

LEMMA InvStep == Inv /\ [Next]_vars => Inv'
<1> SUFFICES ASSUME Inv, [Next]_vars PROVE Inv'
  OBVIOUS
<1>1. ASSUME NEW n \in Nodes, NEW k \in Keys, Client(n, k) \/ Evict(n, k)
      PROVE  Inv'
  BY <1>1, InvSet, InvDelete, InvAsk, InvEvict DEF Client
<1>2. ASSUME NEW n \in Nodes, Lookup(n)
      PROVE  Inv'
  <2>1. CASE PrimaryHit(n) \/ PrimaryRow(n) \/ PrimaryKeep(n)
    BY <2>1, InvLookup
  <2>2. CASE NotFound(n) \/ Keep(n)
    BY <2>2, InvKeep
  <2> QED BY <1>2, <2>1, <2>2 DEF Lookup
<1>3. CASE Answer
  BY <1>3, InvKeep DEF Nodes
<1>4. ASSUME NEW i \in RequestIds, Transfer(i)
      PROVE  Inv'
  BY <1>4, InvDeliver, InvDatabase DEF Transfer
<1>5. CASE UNCHANGED vars
  <2>1. Kept
    BY <1>5, UnchangedKept DEF vars, Inv
  <2> QED BY <1>5, <2>1, CacheSame, RowsSame, TransitSame, QuerySame, OwnSame, InvNext DEF vars
<1> QED BY <1>1, <1>2, <1>3, <1>4, <1>5 DEF Next

THEOREM InvHolds == Spec => []Inv
  BY InvInit, InvStep, PTL DEF Spec

-----------------------------------------------------------------------------
(* What the invariant gives                                                *)

\* Type correctness, and that nothing is forwarded or written behind that was not
\* asked for.
THEOREM TypeCorrect == Spec => []TypeOK
<1>1. Inv => TypeOK
  BY DEF Inv
<1> QED BY <1>1, InvHolds, PTL

\* A value that a replica failed to store is nowhere else, and a body that BatchGet
\* cut short gets neither to the primary nor into PostgreSQL.
THEOREM FailuresAreLocal == Spec => []FailuresStayLocal
<1>1. Inv => FailuresStayLocal
  <2> SUFFICES ASSUME Inv, NEW i \in RequestIds, IsSet(i)
               PROVE  LET k == KeyOf(i)
                      IN  /\ request[i].failed /\ request[i].node \in Replicas =>
                               /\ i \notin pending \cup forwards /\ rows[k] # i
                               /\ \A n \in Nodes : cache[n][k] = i => n = request[i].node
                          /\ rows[k] # Cut(i) /\ cache[Primary][k] # Cut(i)
    BY DEF FailuresStayLocal
  <2> DEFINE k == KeyOf(i)
  <2>1. k \in Keys
    BY DEF Inv, RequestsOK, IsSet, KeyOf
  <2>2. CASE k \in Keys
    <3>1. ~Good(k, -i) /\ -i # Absent /\ i # Absent /\ Cut(i) = -i
      BY IdFacts DEF Good
    <3>2. rows[k] # Cut(i) /\ cache[Primary][k] # Cut(i)
      BY <2>2, <3>1 DEF Inv, RowsOK, CacheOK, Keepable, Nodes
    <3>3. ASSUME request[i].failed, request[i].node \in Replicas
          PROVE  /\ i \notin pending \cup forwards /\ rows[k] # i
                 /\ \A n \in Nodes : cache[n][k] = i => n = request[i].node
      <4>1. ~Good(k, i)
        BY <3>3 DEF Good
      <4>2. i \notin pending \cup forwards
        BY <4>1 DEF Inv, TransitOK, Sendable
      <4>3. rows[k] # i
        BY <2>2, <3>1, <4>1 DEF Inv, RowsOK
      <4>4. ASSUME NEW n \in Nodes, cache[n][k] = i PROVE n = request[i].node
        <5>1. Keepable(n, k, i)
          BY <2>2, <4>4 DEF Inv, CacheOK
        <5> QED BY <3>1, <4>1, <5>1 DEF Keepable, Local
      <4> QED BY <4>2, <4>3, <4>4
    <3> QED BY <3>2, <3>3
  <2> QED BY <2>1, <2>2
<1> QED BY <1>1, InvHolds, PTL

\* A replica's answers follow its own writes, whatever the primary and the other
\* replicas do.
THEOREM OwnWritesAreKept == Spec => []OwnWritesStay
<1>1. Inv => OwnWritesStay
  BY DEF Inv, OwnOK, OwnWritesStay
<1> QED BY <1>1, InvHolds, PTL

-----------------------------------------------------------------------------
(* The values of the cluster flow as in ValueFlow                          *)

\* Where a value can be after a step, one kind of place after the other.
CacheFrom(k, v)   == \A n \in Nodes : Origin(cache'[n][k]) = v => Somewhere(k, v)
RowsFrom(k, v)    == rows'[k] = v => Somewhere(k, v)
TransitFrom(k, v) == v \in pending' \cup forwards' /\ IsSet(v) /\ KeyOf(v) = k => Somewhere(k, v)
QueryFrom(k, v)   == \A n \in Nodes : query'[n].key = k /\ query'[n].val = v => Somewhere(k, v)

LEMMA PlacesSame ==
  ASSUME NEW k \in Keys, NEW v \in RequestIds
  PROVE  /\ cache' = cache => CacheFrom(k, v)
         /\ rows' = rows => RowsFrom(k, v)
         /\ pending' \cup forwards' \subseteq pending \cup forwards => TransitFrom(k, v)
         /\ query' = query => QueryFrom(k, v)
  BY DEF CacheFrom, RowsFrom, TransitFrom, QueryFrom, Somewhere

LEMMA PlacesPut ==
  ASSUME Inv, NEW k \in Keys, NEW v \in RequestIds, NEW m \in Nodes, NEW x \in Keys, NEW w \in Held,
         Put(m, x, w), x = k /\ Origin(w) = v => Somewhere(k, v)
  PROVE  CacheFrom(k, v)
<1> SUFFICES ASSUME NEW n \in Nodes, Origin(cache'[n][k]) = v PROVE Somewhere(k, v)
  BY DEF CacheFrom
<1>1. cache \in [Nodes -> [Keys -> Held]] /\ cache' = [cache EXCEPT ![m][x] = w]
  BY InvParts DEF CacheInv, Put
<1>2. CASE n = m /\ k = x
  BY <1>1, <1>2
<1>3. CASE n # m \/ k # x
  <2>1. cache'[n][k] = cache[n][k]
    BY <1>1, <1>3
  <2> QED BY <2>1 DEF Somewhere
<1> QED BY <1>2, <1>3

LEMMA PlacesQuery ==
  ASSUME Inv, NEW k \in Keys, NEW v \in RequestIds, NEW m \in Nodes,
         \A n \in Nodes : n # m => query'[n] = query[n],
         query'[m].key = k /\ query'[m].val = v => Somewhere(k, v)
  PROVE  QueryFrom(k, v)
<1> SUFFICES ASSUME NEW n \in Nodes, query'[n].key = k, query'[n].val = v PROVE Somewhere(k, v)
  BY DEF QueryFrom
<1>1. CASE n = m
  BY <1>1
<1>2. CASE n # m
  BY <1>2 DEF Somewhere
<1> QED BY <1>1, <1>2

LEMMA PlacesAll ==
  ASSUME NEW k \in Keys, NEW v \in RequestIds, request' = request,
         CacheFrom(k, v), RowsFrom(k, v), TransitFrom(k, v), QueryFrom(k, v)
  PROVE  Somewhere(k, v)' => Somewhere(k, v)
<1> SUFFICES ASSUME Somewhere(k, v)' PROVE Somewhere(k, v)
  OBVIOUS
<1>1. CASE (\E n \in Nodes : Origin(cache[n][k]) = v)'
  BY <1>1 DEF CacheFrom, Origin
<1>2. CASE rows'[k] = v
  BY <1>2 DEF RowsFrom
<1>3. CASE (v \in pending \cup forwards /\ IsSet(v) /\ KeyOf(v) = k)'
  BY <1>3 DEF TransitFrom, IsSet, KeyOf
<1>4. CASE (\E n \in Nodes : query[n].key = k /\ query[n].val = v)'
  BY <1>4 DEF QueryFrom
<1> QED BY <1>1, <1>2, <1>3, <1>4 DEF Somewhere

\* Only a Set of a client brings a value.
LEMMA OthersBringNothing ==
  ASSUME Inv, NEW k \in Keys, NEW v \in RequestIds,
         \/ \E n \in Nodes, x \in Keys, batch \in BOOLEAN : Ask(n, x, batch) \/ AskOnError(n, x, batch)
         \/ \E n \in Nodes, x \in Keys : Evict(n, x)
         \/ \E n \in Nodes : Lookup(n)
         \/ Answer
         \/ \E i \in RequestIds : Transfer(i)
         \/ UNCHANGED vars
  PROVE  request' = request /\ (Somewhere(k, v)' => Somewhere(k, v))
<1>0. Absent \in Held /\ Origin(Absent) # v /\ Absent # v /\ Primary \in Nodes
  BY IdFacts DEF Nodes
<1>1. ASSUME NEW n \in Nodes, NEW x \in Keys, NEW batch \in BOOLEAN,
             Ask(n, x, batch) \/ AskOnError(n, x, batch)
      PROVE  request' = request /\ (Somewhere(k, v)' => Somewhere(k, v))
  <2> DEFINE q == [pc |-> "sent", key |-> x, val |-> Absent, batch |-> batch]
  <2>1. UNCHANGED <<request, cache, rows, pending, forwards>> /\ query' = [query EXCEPT ![n] = q]
    BY <1>1 DEF Ask, AskOnError
  <2>2. query \in [Nodes -> QueryType] /\ q.val = Absent
    BY InvParts DEF QueryInv
  <2> HIDE DEF q
  <2>3. query'[n].val = Absent /\ \A m \in Nodes : m # n => query'[m] = query[m]
    BY <2>1, <2>2
  <2> QED BY <1>0, <2>1, <2>3, PlacesSame, PlacesQuery, PlacesAll
<1>2. ASSUME NEW n \in Nodes, NEW x \in Keys, Evict(n, x)
      PROVE  request' = request /\ (Somewhere(k, v)' => Somewhere(k, v))
  <2>1. UNCHANGED <<request, rows, pending, forwards, query>> /\ Put(n, x, Absent)
    BY <1>2 DEF Evict
  <2> QED BY <1>0, <2>1, PlacesSame, PlacesPut, PlacesAll
<1>3. ASSUME NEW n \in Nodes, PrimaryHit(n) \/ PrimaryRow(n)
      PROVE  request' = request /\ (Somewhere(k, v)' => Somewhere(k, v))
  <2>1. UNCHANGED <<request, cache, rows, pending, forwards>> /\ query[n].pc = "sent"
    BY <1>3 DEF PrimaryHit, PrimaryRow
  <2>2. PICK x \in Keys : x = query[n].key
    BY <2>1, QueryFacts
  <2>3. PICK pc \in {"row", "back"}, w \in Held :
          /\ Query(n, pc, w) /\ Good(x, w)
          /\ w = rows[x] \/ w = cache[Primary][x]
    <3>1. CASE PrimaryHit(n)
      BY <2>2, <3>1, QueryFacts DEF PrimaryHit
    <3>2. CASE PrimaryRow(n)
      BY <2>2, <3>2, QueryFacts DEF PrimaryRow
    <3> QED BY <1>3, <3>1, <3>2
  <2>4. Kept
    BY <2>1, UnchangedKept
  <2>5. /\ query'[n].key = x /\ query'[n].val = w
        /\ \A m \in Nodes : m # n => query'[m] = query[m]
    BY <2>1, <2>2, <2>3, <2>4, QueryGoes
  <2>6. Origin(w) = w
    BY <2>3, IdFacts DEF Good
  <2>7. x = k /\ w = v => Somewhere(k, v)
    BY <1>0, <2>3, <2>6 DEF Somewhere
  <2> QED BY <2>1, <2>5, <2>7, PlacesSame, PlacesQuery, PlacesAll
<1>4. ASSUME NEW n \in Nodes, PrimaryKeep(n)
      PROVE  request' = request /\ (Somewhere(k, v)' => Somewhere(k, v))
  <2>1. UNCHANGED <<request, rows, pending, forwards>> /\ query[n].pc = "row"
    BY <1>4 DEF PrimaryKeep
  <2>2. PICK x \in Keys : x = query[n].key
    BY <2>1, QueryFacts
  <2>3. PICK w \in Held : w = query[n].val /\ Good(x, w) /\ Origin(w) = w
    BY <2>1, <2>2, QueryFacts, IdFacts
  <2>4. Kept
    BY <2>1, UnchangedKept
  <2>5. Query(n, "back", w) /\ (Put(Primary, x, w) \/ UNCHANGED cache)
    BY <1>4, <2>2, <2>3 DEF PrimaryKeep
  <2>6. /\ query'[n].key = x /\ query'[n].val = w
        /\ \A m \in Nodes : m # n => query'[m] = query[m]
    BY <2>1, <2>2, <2>3, <2>4, <2>5, QueryGoes
  <2>7. x = k /\ w = v => Somewhere(k, v)
    BY <2>2, <2>3 DEF Somewhere
  <2>8. CacheFrom(k, v)
    BY <1>0, <2>3, <2>5, <2>7, PlacesSame, PlacesPut
  <2> QED BY <2>1, <2>6, <2>7, <2>8, PlacesSame, PlacesQuery, PlacesAll
<1>5. ASSUME NEW n \in Nodes, NotFound(n) \/ Keep(n) \/ (n = Primary /\ Answer)
      PROVE  request' = request /\ (Somewhere(k, v)' => Somewhere(k, v))
  <2>1. UNCHANGED <<request, rows, pending, forwards>> /\ Done(n)
    BY <1>5 DEF NotFound, Keep, Answer
  <2>2. Kept
    BY <2>1, UnchangedKept
  <2>3. query'[n].val = Absent /\ \A m \in Nodes : m # n => query'[m] = query[m]
    BY <2>1, <2>2, QueryDone, FreeFacts
  <2>4. CacheFrom(k, v)
    <3>1. CASE cache' = cache
      BY <3>1, PlacesSame
    <3>2. CASE Keep(n) /\ cache' # cache
      <4>1. PICK x \in Keys : x = query[n].key
        BY <3>2, QueryFacts DEF Keep
      <4>2. PICK i \in RequestIds : i = query[n].val
        BY <3>2, QueryFacts DEF Keep
      <4>3. PICK w \in {i, -i} : Put(n, x, w)
        BY <3>2, <4>1, <4>2 DEF Keep, Bodies, Cut
      <4>4. w \in Held /\ Origin(w) = i
        BY <4>3, IdFacts
      <4>5. x = k /\ i = v => Somewhere(k, v)
        BY <4>1, <4>2 DEF Somewhere
      <4> QED BY <4>3, <4>4, <4>5, PlacesPut
    <3> QED BY <1>5, <3>1, <3>2 DEF NotFound, Answer
  <2> QED BY <1>0, <2>1, <2>3, <2>4, PlacesSame, PlacesQuery, PlacesAll
<1>6. ASSUME NEW i \in RequestIds, Deliver(i)
      PROVE  request' = request /\ (Somewhere(k, v)' => Somewhere(k, v))
  <2>1. i \in forwards /\ UNCHANGED <<request, rows, query, own>>
    BY <1>6 DEF Deliver
  <2>2. PICK x \in Keys : x = KeyOf(i)
    BY <2>1 DEF Inv, TransitOK, Sendable
  <2>3. pending' \cup forwards' \subseteq pending \cup forwards
    BY <1>6, <2>1 DEF Deliver, Stored, Rejected, Deleted, PassOn
  <2>4. i \in Held /\ Origin(i) = i
    BY IdFacts
  <2>5. UNCHANGED cache \/ Put(Primary, x, Absent) \/ (IsSet(i) /\ Put(Primary, x, i))
    BY <1>6, <2>2 DEF Deliver, Stored, Rejected, Deleted
  <2>6. IsSet(i) /\ x = k /\ i = v => Somewhere(k, v)
    BY <2>1, <2>2 DEF Somewhere
  <2>7. CacheFrom(k, v)
    BY <1>0, <2>4, <2>5, <2>6, PlacesSame, PlacesPut
  <2> QED BY <2>1, <2>3, <2>7, PlacesSame, PlacesAll
<1>7. ASSUME NEW i \in RequestIds, Lose(i) \/ Execute(i) \/ Drop(i)
      PROVE  request' = request /\ (Somewhere(k, v)' => Somewhere(k, v))
  <2>1. /\ UNCHANGED <<request, cache, query>>
        /\ pending' \cup forwards' \subseteq pending \cup forwards
    BY <1>7 DEF Lose, Execute, Drop
  <2>2. RowsFrom(k, v)
    <3>1. CASE rows' = rows
      BY <3>1, PlacesSame
    <3>2. CASE Execute(i)
      <4>1. i \in pending /\ rows' = [rows EXCEPT ![KeyOf(i)] = IF IsSet(i) THEN i ELSE Absent]
        BY <3>2 DEF Execute
      <4>2. rows \in [Keys -> Held]
        BY InvParts DEF RowsInv
      <4>3. rows'[k] = rows[k] \/ rows'[k] = Absent \/ (IsSet(i) /\ KeyOf(i) = k /\ rows'[k] = i)
        BY <4>1, <4>2
      <4> QED BY <1>0, <4>1, <4>3 DEF RowsFrom, Somewhere
    <3> QED BY <1>7, <3>1, <3>2 DEF Lose, Drop
  <2> QED BY <2>1, <2>2, PlacesSame, PlacesAll
<1>8. CASE UNCHANGED vars
  BY <1>8, PlacesSame, PlacesAll DEF vars
<1>9. ASSUME NEW n \in Nodes, Lookup(n)
      PROVE  request' = request /\ (Somewhere(k, v)' => Somewhere(k, v))
  BY <1>3, <1>4, <1>5, <1>9 DEF Lookup
<1>10. CASE Answer
  BY <1>0, <1>5, <1>10
<1>11. ASSUME NEW i \in RequestIds, Transfer(i)
       PROVE  request' = request /\ (Somewhere(k, v)' => Somewhere(k, v))
  BY <1>6, <1>7, <1>11 DEF Transfer
<1> QED BY <1>1, <1>2, <1>8, <1>9, <1>10, <1>11

\* A Set brings its own value, on its own key; a Delete brings nothing.
LEMMA RequestsBringTheirs ==
  ASSUME Inv, NEW n \in Nodes, NEW i \in RequestIds, NEW x \in Keys, NEW op \in {"set", "delete"},
         NEW failed \in BOOLEAN, Made(i, op, x, n, failed),
         NEW w \in {i, Absent}, w = i => op = "set", cache' = cache \/ Put(n, x, w),
         pending' \cup forwards' \subseteq pending \cup forwards \cup {i}, UNCHANGED <<rows, query>>
  PROVE  /\ \A j \in RequestIds : IsSet(j)' <=> IsSet(j) \/ (j = i /\ op = "set")
         /\ ~IsSet(i)
         /\ \A k \in Keys, v \in RequestIds :
              Somewhere(k, v)' => Somewhere(k, v) \/ (k = x /\ v = i /\ op = "set")
<1>1. /\ request[i] = NoRequest
      /\ request'[i] = [op |-> op, key |-> x, node |-> n, failed |-> failed]
      /\ \A j \in RequestIds \ {i} : request'[j] = request[j]
  BY MadeKept
<1>2. /\ \A j \in RequestIds : IsSet(j)' <=> IsSet(j) \/ (j = i /\ op = "set")
      /\ ~IsSet(i)
  BY <1>1, FreeFacts DEF IsSet
<1>3. ASSUME NEW k \in Keys, NEW v \in RequestIds, Somewhere(k, v)'
      PROVE  Somewhere(k, v) \/ (k = x /\ v = i /\ op = "set")
  <2>1. CASE (\E m \in Nodes : Origin(cache[m][k]) = v)'
    <3>1. PICK m \in Nodes : Origin(cache'[m][k]) = v
      BY <2>1 DEF Origin
    <3>2. CASE cache' = cache
      BY <3>1, <3>2 DEF Somewhere
    <3>3. CASE Put(n, x, w) /\ m = n /\ k = x
      <4>1. cache'[m][k] = w
        BY <3>3, InvParts DEF CacheInv, Put
      <4>2. w = i /\ v = i
        BY <3>1, <4>1, IdFacts
      <4> QED BY <3>3, <4>2
    <3>4. CASE Put(n, x, w) /\ (m # n \/ k # x)
      <4>1. cache'[m][k] = cache[m][k]
        BY <3>4, InvParts DEF CacheInv, Put
      <4> QED BY <3>1, <4>1 DEF Somewhere
    <3> QED BY <3>2, <3>3, <3>4
  <2>2. CASE (v \in pending \cup forwards /\ IsSet(v) /\ KeyOf(v) = k)'
    <3>1. CASE v = i
      BY <1>1, <1>2, <2>2, <3>1 DEF KeyOf
    <3>2. CASE v # i
      BY <1>1, <1>2, <2>2, <3>2 DEF KeyOf, Somewhere
    <3> QED BY <3>1, <3>2
  <2>3. CASE rows'[k] = v \/ (\E m \in Nodes : query[m].key = k /\ query[m].val = v)'
    BY <2>3 DEF Somewhere
  <2> QED BY <1>3, <2>1, <2>2, <2>3 DEF Somewhere
<1> QED BY <1>2, <1>3

LEMMA FlowInit == Init => Flow!Init
<1> SUFFICES ASSUME Init PROVE Flow!Init
  OBVIOUS
<1>1. \A i \in RequestIds : ~IsSet(i)
  BY FreeFacts DEF Init, IsSet
<1>2. \A k \in Keys, v \in RequestIds : ~Somewhere(k, v)
  BY FreeFacts, IdFacts DEF Init, Somewhere
<1> QED BY <1>1, <1>2 DEF Flow!Init, Alive

LEMMA FlowStep ==
  Inv /\ [Next]_vars => [Flow!Next]_<<{i \in RequestIds : IsSet(i)}, Alive>>
<1> SUFFICES ASSUME Inv, [Next]_vars PROVE Flow!Next
  OBVIOUS
<1>1. ASSUME request' = request,
             \A k \in Keys, v \in RequestIds : Somewhere(k, v)' => Somewhere(k, v)
      PROVE  Flow!Next
  <2>1. Flow!Vanish
    BY <1>1 DEF Flow!Vanish, Alive, IsSet
  <2> QED BY <2>1 DEF Flow!Next
<1>2. ASSUME NEW n \in Nodes, NEW x \in Keys, NEW i \in RequestIds, Set(n, i, x)
      PROVE  Flow!Next
  <2>1. PICK failed \in BOOLEAN : /\ Made(i, "set", x, n, failed)
                                  /\ Rejected(n, i, x) \/ Stored(n, i, x)
    BY <1>2 DEF Set
  <2>2. /\ cache' = cache \/ Put(n, x, i)
        /\ pending' \cup forwards' \subseteq pending \cup forwards \cup {i}
    BY <2>1 DEF Rejected, Stored, PassOn
  <2>3. UNCHANGED <<rows, query>>
    BY <1>2 DEF Set
  <2>4. /\ \A j \in RequestIds : IsSet(j)' <=> IsSet(j) \/ j = i
        /\ ~IsSet(i)
        /\ \A k \in Keys, v \in RequestIds :
             Somewhere(k, v)' => Somewhere(k, v) \/ (k = x /\ v = i)
    BY <2>1, <2>2, <2>3, RequestsBringTheirs
  <2>5. Flow!Set(x, i)
    BY <2>4 DEF Flow!Set, Alive
  <2> QED BY <2>5 DEF Flow!Next
<1>3. ASSUME NEW n \in Nodes, NEW x \in Keys, NEW i \in RequestIds, Delete(n, i, x)
      PROVE  Flow!Next
  <2>1. Made(i, "delete", x, n, FALSE) /\ UNCHANGED <<rows, query>>
    BY <1>3 DEF Delete
  <2>2. /\ cache' = cache \/ Put(n, x, Absent)
        /\ pending' \cup forwards' \subseteq pending \cup forwards \cup {i}
    BY <1>3 DEF Delete, Deleted, PassOn
  <2>3. /\ \A j \in RequestIds : IsSet(j)' <=> IsSet(j)
        /\ \A k \in Keys, v \in RequestIds : Somewhere(k, v)' => Somewhere(k, v)
    BY <2>1, <2>2, IdFacts, RequestsBringTheirs
  <2>4. Flow!Vanish
    BY <2>3 DEF Flow!Vanish, Alive
  <2> QED BY <2>4 DEF Flow!Next
<1>4. ASSUME \/ \E n \in Nodes, x \in Keys, batch \in BOOLEAN :
                  Ask(n, x, batch) \/ AskOnError(n, x, batch)
             \/ \E n \in Nodes, x \in Keys : Evict(n, x)
             \/ \E n \in Nodes : Lookup(n)
             \/ Answer
             \/ \E i \in RequestIds : Transfer(i)
             \/ UNCHANGED vars
      PROVE  Flow!Next
  <2>1. ASSUME NEW k \in Keys, NEW v \in RequestIds
        PROVE  request' = request /\ (Somewhere(k, v)' => Somewhere(k, v))
    BY <1>4, OthersBringNothing
  <2>2. request' = request
    BY <1>4 DEF Ask, AskOnError, Evict, Lookup, PrimaryHit, PrimaryRow, PrimaryKeep, NotFound,
                Keep, Answer, Transfer, Deliver, Lose, Execute, Drop, vars
  <2> QED BY <1>1, <2>1, <2>2
<1> QED BY <1>2, <1>3, <1>4 DEF Next, Client

\* The cluster implements ValueFlow: whatever is lost, repeated, delayed, evicted
\* or overtaken, a value that is nowhere any more never comes back.
THEOREM FlowRefined == Spec => ValueFlowSpec
  BY FlowInit, FlowStep, InvHolds, PTL DEF Spec, ValueFlowSpec, Flow!Spec
=============================================================================
