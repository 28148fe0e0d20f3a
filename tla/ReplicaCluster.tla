--------------------------- MODULE ReplicaCluster ---------------------------
(***************************************************************************)
(* A primary and its replicas: the handlers of                             *)
(* internal/api/handlers_instance.go on both sides.                        *)
(*                                                                         *)
(* Every node has a Redis of its own.  A replica answers a Set or a Delete *)
(* from its Redis and forwards the request to the primary once, from a     *)
(* goroutine of its own; on a miss it asks the primary and keeps the       *)
(* answer.  Nothing tells replicas of each other's requests.               *)
(*                                                                         *)
(* The races inside the primary are those of PrimaryNode: here its Set is  *)
(* one step, and what it writes behind is a set of statements that are     *)
(* executed in any order, perhaps more than once (retries), or lost.       *)
(* Requests are numbered in the order clients make them; a value is named  *)
(* by the number of its Set.                                               *)
(***************************************************************************)
EXTENDS Integers, FiniteSets

CONSTANTS Replicas, Primary, Keys, NoKey,
          MaxRequests,  \* bound: Sets and Deletes in a behaviour
          Faults,       \* may Redis, PostgreSQL, processes and the network fail?
          Evictions,    \* bound: nodes whose Redis may evict a key
          Batches       \* do clients use BatchGet?

ASSUME ClusterAssumption == /\ Primary \notin Replicas /\ NoKey \notin Keys
                            /\ MaxRequests \in Nat
                            /\ {Faults, Batches} \subseteq BOOLEAN

Nodes      == Replicas \cup {Primary}
RequestIds == 1 .. MaxRequests
Absent     == 0

\* The first bytes of the value v, or none of them.
Cut(v)    == -v
Origin(v) == IF v < 0 THEN -v ELSE v
Values    == RequestIds \cup {Cut(i) : i \in RequestIds}

VARIABLES request,   \* every Set and Delete so far: what, on which key, where
          cache,     \* the Redis of every node
          rows,      \* PostgreSQL
          pending,   \* requests whose statement the primary is to execute
          forwards,  \* requests that replicas are forwarding
          query,     \* the Get or BatchGet each node is serving after a miss
          own        \* last Set of a replica that nothing in flight overtakes

vars == <<request, cache, rows, pending, forwards, query, own>>

NoRequest == [op |-> "none", key |-> NoKey, node |-> Primary, failed |-> FALSE]
Free      == [pc |-> "free", key |-> NoKey, val |-> Absent, batch |-> FALSE]

Init == /\ request = [i \in RequestIds |-> NoRequest]
        /\ cache = [n \in Nodes |-> [k \in Keys |-> Absent]]
        /\ rows = [k \in Keys |-> Absent]
        /\ pending = {} /\ forwards = {}
        /\ query = [n \in Nodes |-> Free]
        /\ own = [n \in Replicas |-> [k \in Keys |-> Absent]]

KeyOf(i) == request[i].key
IsSet(i) == request[i].op = "set"

Put(n, k, v) == cache' = [cache EXCEPT ![n][k] = v]

\* Request i is the next one.
Made(i, op, k, n, failed) ==
  /\ \A j \in RequestIds : request[j] = NoRequest <=> j >= i
  /\ request' = [request EXCEPT ![i] = [op |-> op, key |-> k, node |-> n, failed |-> failed]]

\* No write at n to k is overtaken any more: v is what n should answer.
Owns(n, k, v) == own' = IF n \in Replicas THEN [own EXCEPT ![n][k] = v] ELSE own

Asking(n, k) == query[n].key = k

-----------------------------------------------------------------------------
(* Set and Delete                                                          *)

\* Handlers.Set and Delete, after the local Redis: the primary writes behind
\* (or drops the write), a replica forwards.
PassOn(n, i, keep) ==
  IF n = Primary THEN /\ pending' = pending \cup keep
                      /\ forwards' = forwards \ {i}
                 ELSE /\ forwards' = forwards \cup {i}
                      /\ UNCHANGED pending

Stored(n, i, k) == /\ Put(n, k, i)
                   /\ PassOn(n, i, {i}) \/ (Faults /\ n = Primary /\ PassOn(n, i, {}))

\* Mutant of Rejected: the request is passed on all the same.
Rejected_Forwards(n, i, k) == /\ Faults
                              /\ UNCHANGED cache
                              /\ PassOn(n, i, {i})

\* Redis reports an error, with the value stored or not: answer 500.
Rejected(n, i, k) == /\ Faults
                     /\ Put(n, k, i) \/ UNCHANGED cache
                     /\ forwards' = forwards \ {i}
                     /\ UNCHANGED pending

\* Of Redis' answer to a Delete nothing is made.
Deleted(n, i, k) == /\ Put(n, k, Absent) \/ (Faults /\ UNCHANGED cache)
                    /\ PassOn(n, i, {i})

Set(n, i, k) ==
  /\ \/ Made(i, "set", k, n, FALSE) /\ Stored(n, i, k)
     \/ Made(i, "set", k, n, TRUE)  /\ Rejected(n, i, k)
  /\ Owns(n, k, IF Asking(n, k) \/ request'[i].failed THEN Absent ELSE i)
  /\ UNCHANGED <<rows, query>>

Delete(n, i, k) == /\ Made(i, "delete", k, n, FALSE)
                   /\ Deleted(n, i, k)
                   /\ Owns(n, k, Absent)
                   /\ UNCHANGED <<rows, query>>

\* A forwarded request reaches the primary, which serves it like any other.
Deliver(i) == /\ i \in forwards
              /\ IF IsSet(i) THEN \/ Stored(Primary, i, KeyOf(i))
                                  \/ Rejected(Primary, i, KeyOf(i))
                             ELSE Deleted(Primary, i, KeyOf(i))
              /\ UNCHANGED <<request, rows, query, own>>

\* The goroutine fails or ends with its process; nothing is tried again.
Lose(i) == /\ Faults /\ i \in forwards
           /\ forwards' = forwards \ {i}
           /\ UNCHANGED <<request, cache, rows, pending, query, own>>

-----------------------------------------------------------------------------
(* PostgreSQL                                                              *)

\* Mutant of Execute: a write that was settled is executed once more.
Execute_Again(i) ==
  /\ IsSet(i) /\ request[i].node = Primary
  /\ rows' = [rows EXCEPT ![KeyOf(i)] = i]
  /\ pending' = pending \ {i}
  /\ UNCHANGED <<request, cache, forwards, query, own>>

\* The statement of i; a write whose answer is late is executed again.
Execute(i) == /\ i \in pending
              /\ rows' = [rows EXCEPT ![KeyOf(i)] = IF IsSet(i) THEN i ELSE Absent]
              /\ \/ pending' = pending \ {i}
                 \/ Faults /\ IsSet(i) /\ UNCHANGED pending
              /\ UNCHANGED <<request, cache, forwards, query, own>>

Drop(i) == /\ Faults /\ i \in pending
           /\ pending' = pending \ {i}
           /\ UNCHANGED <<request, cache, rows, forwards, query, own>>

-----------------------------------------------------------------------------
(* Get and BatchGet                                                        *)

Query(n, pc, v) == query' = [query EXCEPT ![n].pc = pc, ![n].val = v]
Done(n)         == query' = [query EXCEPT ![n] = Free]

\* Mutant of Ask: a replica asks the primary whatever its Redis has.
Ask_Always(n, k, batch) ==
  /\ query[n] = Free
  /\ query' = [query EXCEPT ![n] = [pc |-> "sent", key |-> k, val |-> Absent, batch |-> batch]]
  /\ UNCHANGED <<request, cache, rows, pending, forwards, own>>

\* A miss: the primary is asked, or PostgreSQL on the primary.  BatchGet asks
\* the primary only, so on the primary it stops here.
Ask(n, k, batch) ==
  /\ query[n] = Free /\ cache[n][k] = Absent
  /\ batch => Batches /\ n \in Replicas
  /\ query' = [query EXCEPT ![n] = [pc |-> "sent", key |-> k, val |-> Absent, batch |-> batch]]
  /\ UNCHANGED <<request, cache, rows, pending, forwards, own>>

\* An error of Redis counts as a miss.
AskOnError(n, k, batch) ==
  /\ Faults /\ query[n] = Free
  /\ batch => Batches /\ n \in Replicas
  /\ query' = [query EXCEPT ![n] = [pc |-> "sent", key |-> k, val |-> Absent, batch |-> batch]]
  /\ Owns(n, k, Absent)
  /\ UNCHANGED <<request, cache, rows, pending, forwards>>

\* The primary finds the value in its Redis.
PrimaryHit(n) == /\ query[n].pc = "sent"
                 /\ cache[Primary][query[n].key] # Absent
                 /\ Query(n, "back", cache[Primary][query[n].key])
                 /\ UNCHANGED <<request, cache, rows, pending, forwards, own>>

\* The primary misses and finds a row.
PrimaryRow(n) == /\ query[n].pc = "sent"
                 /\ cache[Primary][query[n].key] = Absent \/ Faults
                 /\ rows[query[n].key] # Absent
                 /\ Query(n, "row", rows[query[n].key])
                 /\ UNCHANGED <<request, cache, rows, pending, forwards, own>>

PrimaryKeep(n) == /\ query[n].pc = "row"
                  /\ Put(Primary, query[n].key, query[n].val) \/ (Faults /\ UNCHANGED cache)
                  /\ Query(n, "back", query[n].val)
                  /\ UNCHANGED <<request, rows, pending, forwards, own>>

\* Mutant of NotFound: the status is not looked at, and the body of the error is
\* kept, which is nobody's value.
NotFound_KeepsBody(n) == /\ query[n].pc = "sent" /\ rows[query[n].key] = Absent
                         /\ Put(n, query[n].key, MaxRequests + 1)
                         /\ Done(n)
                         /\ UNCHANGED <<request, rows, pending, forwards, own>>

\* 404: the primary has nothing, or PostgreSQL failed.  Otherwise the primary
\* is down, or has answered with an error, or a process has ended.
NotFound(n) == /\ \/ query[n].pc = "sent" /\ rows[query[n].key] = Absent
                  \/ Faults /\ query[n].pc # "free"
               /\ Done(n)
               /\ UNCHANGED <<request, cache, rows, pending, forwards, own>>

\* BatchGet cancels its request before it reads the body, and takes what it
\* gets for the value.
Bodies(q) == {q.val} \cup (IF q.batch THEN {Cut(q.val)} ELSE {})

\* The replica keeps the answer, whatever its Redis holds by now.
Keep(n) == /\ n \in Replicas /\ query[n].pc = "back"
           /\ \/ \E v \in Bodies(query[n]) : Put(n, query[n].key, v)
              \/ Faults /\ UNCHANGED cache
           /\ Done(n)
           /\ UNCHANGED <<request, rows, pending, forwards, own>>

\* A Get on the primary is answered.
Answer == /\ query[Primary].pc = "back"
          /\ Done(Primary)
          /\ UNCHANGED <<request, cache, rows, pending, forwards, own>>

Evict(n, k) == /\ n \in Evictions /\ cache[n][k] # Absent
               /\ Put(n, k, Absent)
               /\ Owns(n, k, Absent)
               /\ UNCHANGED <<request, rows, pending, forwards, query>>

-----------------------------------------------------------------------------
Client(n, k) == \/ \E i \in RequestIds : Set(n, i, k) \/ Delete(n, i, k)
                \/ \E batch \in BOOLEAN : Ask(n, k, batch) \/ AskOnError(n, k, batch)

Lookup(n) == PrimaryHit(n) \/ PrimaryRow(n) \/ PrimaryKeep(n) \/ NotFound(n) \/ Keep(n)

Transfer(i) == Deliver(i) \/ Lose(i) \/ Execute(i) \/ Drop(i)

Next == \/ \E n \in Nodes, k \in Keys : Client(n, k) \/ Evict(n, k)
        \/ \E n \in Nodes : Lookup(n)
        \/ Answer
        \/ \E i \in RequestIds : Transfer(i)

Spec == Init /\ [][Next]_vars

-----------------------------------------------------------------------------
(* Properties                                                              *)

Held == Values \cup {Absent}

\* Every variable keeps its type; what is forwarded or pending was requested.
TypeOK == /\ request \in [RequestIds -> [op : {"none", "set", "delete"}, key : Keys \cup {NoKey},
                                         node : Nodes, failed : BOOLEAN]]
          /\ cache \in [Nodes -> [Keys -> Held]]
          /\ rows \in [Keys -> Held]
          /\ \A i \in pending \cup forwards : i \in RequestIds /\ KeyOf(i) \in Keys
          /\ query \in [Nodes -> [pc : {"free", "sent", "row", "back"}, key : Keys \cup {NoKey},
                                  val : Held, batch : BOOLEAN]]
          /\ own \in [Replicas -> [Keys -> RequestIds \cup {Absent}]]

\* A Set that a replica answered with an error stays on that replica: no other
\* node, no row and no request on its way has the value.  A body that BatchGet
\* cut short stays in the Redis of the replica that read it.
FailuresStayLocal ==
  \A i \in RequestIds : IsSet(i) =>
    LET k == KeyOf(i)
    IN  /\ request[i].failed /\ request[i].node \in Replicas =>
             /\ i \notin pending \cup forwards /\ rows[k] # i
             /\ \A n \in Nodes : cache[n][k] = i => n = request[i].node
        /\ rows[k] # Cut(i) /\ cache[Primary][k] # Cut(i)

\* What a replica was told to store it answers with until it is told otherwise:
\* after a Set that no lookup of the key was waiting beside, its Redis holds the
\* value until its next Set, Delete or eviction of the key or an error of Redis.
\* Nothing that happens elsewhere, forwards in any order included, changes it.
OwnWritesStay ==
  \A n \in Replicas, k \in Keys : own[n][k] # Absent => cache[n][k] = own[n][k]

\* Is v stored for k somewhere, or on its way?
Somewhere(k, v) == \/ \E n \in Nodes : Origin(cache[n][k]) = v
                   \/ rows[k] = v
                   \/ v \in pending \cup forwards /\ IsSet(v) /\ KeyOf(v) = k
                   \/ \E n \in Nodes : query[n].key = k /\ query[n].val = v

Alive == {e \in Keys \X RequestIds : Somewhere(e[1], e[2])}

Flow == INSTANCE ValueFlow WITH
          Values <- RequestIds,
          used   <- {i \in RequestIds : IsSet(i)},
          alive  <- Alive

\* Values flow through the cluster as ValueFlow says: each comes from one Set,
\* stays with its key, and once it is nowhere it never comes back.
ValueFlowSpec == Flow!Spec

Quiet == pending = {} /\ forwards = {} /\ \A n \in Nodes : query[n] = Free

\* "Used for last-write-wins" (async_writer.go:17) says the timestamp that a
\* replica sends with a write: once nothing is in flight, the row holds the
\* newest of the writes that one replica has made.
NewestWriteWins ==
  Quiet => \A i, j \in RequestIds :
             /\ IsSet(i) /\ IsSet(j) /\ KeyOf(i) = KeyOf(j) /\ i < j
             /\ request[i].node = request[j].node /\ request[j].node \in Replicas
             => rows[KeyOf(i)] # i
=============================================================================
