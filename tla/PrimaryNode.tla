---------------------------- MODULE PrimaryNode ----------------------------
(***************************************************************************)
(* A primary: the Set, Get and Delete handlers of                          *)
(* internal/api/handlers_instance.go over a Redis cache, the AsyncWriter   *)
(* and PostgreSQL.                                                         *)
(*                                                                         *)
(* Every request runs in a goroutine of its own and is interrupted between *)
(* any two calls it makes to Redis, the write queue and PostgreSQL.  A key *)
(* stands for an <instance, key> pair, the unit of both stores; a value is *)
(* named by the number of the Set that brought it.  Sets are numbered in   *)
(* the order in which Redis takes them.                                    *)
(***************************************************************************)
EXTENDS Naturals, Sequences

CONSTANTS Keys, NoKey, Workers, Capacity, MaxRetry, MaxWrites,
          DBFaults, Restarts,
          Handlers,     \* requests served at the same time
          MaxDeletes,   \* bound: Delete requests in a behaviour
          CacheFaults,  \* may a call to Redis fail?
          Evictions     \* may Redis evict a key (allkeys-lru)?

ASSUME QueueAssumption == /\ NoKey \notin Keys
                          /\ Capacity \in Nat \ {0} /\ MaxRetry \in Nat /\ MaxWrites \in Nat
                          /\ DBFaults \in BOOLEAN /\ Restarts \in BOOLEAN
ASSUME CacheAssumption ==
  MaxDeletes \in Nat /\ CacheFaults \in BOOLEAN /\ Evictions \in BOOLEAN

VARIABLES keyOf, fate, queue, closed, pc, hand, exited, server, applied, rows,
          redis,    \* the Set whose value Redis holds for each key
          setKey,   \* key of every Set request made so far
          hpc,      \* what each handler will do next
          hkey,     \* key of the request a handler is serving
          hval,     \* value the handler holds: of its Set, or read from a row
          del,      \* the goroutines Delete requests have started
          intent    \* what the clients last asked of each key, as Redis saw it

awVars  == <<keyOf, fate, queue, closed, pc, hand, exited, server, applied, rows>>
apiVars == <<redis, setKey, hpc, hkey, hval, del, intent>>
vars    == <<awVars, apiVars>>

AW == INSTANCE AsyncWriter

WriteIds  == 1 .. MaxWrites
DeleteIds == 1 .. MaxDeletes
Absent    == 0              \* no such key in Redis, no such row

Init == /\ AW!Init
        /\ redis  = [k \in Keys |-> Absent]
        /\ setKey = [i \in WriteIds |-> NoKey]
        /\ hpc    = [h \in Handlers |-> "free"]
        /\ hkey   = [h \in Handlers |-> NoKey]
        /\ hval   = [h \in Handlers |-> Absent]
        /\ del    = [d \in DeleteIds |-> NoKey]
        /\ intent = [k \in Keys |-> Absent]

\* A handler goes on to step l of a request on k, holding value v.
Goto(h, l, k, v) == /\ hpc'  = [hpc  EXCEPT ![h] = l]
                    /\ hkey' = [hkey EXCEPT ![h] = k]
                    /\ hval' = [hval EXCEPT ![h] = v]
Answer(h) == Goto(h, "free", NoKey, Absent)

Free(h) == ~exited /\ hpc[h] = "free"
At(h, l) == ~exited /\ hpc[h] = l

\* Mutant of CachePut: the Redis key lacks the instance's namespace.
CachePut_NoNamespace(k, v) == redis' = [x \in Keys |-> v]

CachePut(k, v) == redis' = [redis EXCEPT ![k] = v]

-----------------------------------------------------------------------------
(* Set                                                                     *)

\* The request arrives and its value goes to Redis.
SetCached(h, i, k) == /\ CachePut(k, i)
                      /\ intent' = [intent EXCEPT ![k] = i]
                      /\ Goto(h, "enqueue", k, i)

\* Redis reports an error, having stored the value or not: answer 500, and
\* PostgreSQL is never told.
SetFailed(h, i, k) == /\ CacheFaults
                      /\ CachePut(k, i) \/ UNCHANGED redis
                      /\ Answer(h)
                      /\ UNCHANGED intent

Set(h, i, k) == /\ Free(h)
                /\ \A j \in WriteIds : setKey[j] = NoKey <=> j >= i
                /\ setKey' = [setKey EXCEPT ![i] = k]
                /\ SetCached(h, i, k) \/ SetFailed(h, i, k)
                /\ UNCHANGED <<awVars, del>>

\* asyncWriter.Write, and the answer: 200 whether it was queued or dropped,
\* 500 when the send panics.
SetEnqueue(h) == /\ At(h, "enqueue")
                 /\ AW!Write(hval[h], hkey[h])
                 /\ Answer(h)
                 /\ UNCHANGED <<redis, setKey, del, intent>>

-----------------------------------------------------------------------------
(* Get.  A hit answers with what Redis holds and changes nothing.          *)

\* Any error of Redis is taken for a miss.
GetMiss(h, k) == /\ Free(h)
                 /\ redis[k] = Absent \/ CacheFaults
                 /\ Goto(h, "lookup", k, Absent)
                 /\ UNCHANGED <<awVars, redis, setKey, del, intent>>

GetRow(h) == /\ At(h, "lookup")
             /\ rows[hkey[h]] # Absent
             /\ Goto(h, "repopulate", hkey[h], rows[hkey[h]])
             /\ UNCHANGED <<awVars, redis, setKey, del, intent>>

\* No row, or PostgreSQL failed: 404 in both cases.
GetNone(h) == /\ At(h, "lookup")
              /\ rows[hkey[h]] = Absent \/ DBFaults
              /\ Answer(h)
              /\ UNCHANGED <<awVars, redis, setKey, del, intent>>

\* The value read goes to Redis without a look at what is there by now.
Repopulate(h) == /\ At(h, "repopulate")
                 /\ \/ CachePut(hkey[h], hval[h])
                    \/ CacheFaults /\ UNCHANGED redis
                 /\ Answer(h)
                 /\ UNCHANGED <<awVars, setKey, del, intent>>

-----------------------------------------------------------------------------
(* Delete                                                                  *)

\* Delete from Redis, whose error is ignored, start the goroutine that will
\* delete the row, and answer 204.
Delete(h, d, k) == /\ Free(h)
                   /\ \A e \in DeleteIds : del[e] = NoKey <=> e >= d
                   /\ del'    = [del EXCEPT ![d] = k]
                   /\ intent' = [intent EXCEPT ![k] = Absent]
                   /\ CachePut(k, Absent) \/ (CacheFaults /\ UNCHANGED redis)
                   /\ UNCHANGED <<awVars, setKey, hpc, hkey, hval>>

Running(d) == del[d] \in Keys
Finish(d)  == del' = [del EXCEPT ![d] = "done"]

DeleteRow(d) == /\ Running(d)
                /\ rows' = [rows EXCEPT ![del[d]] = Absent]
                /\ Finish(d)
                /\ UNCHANGED <<keyOf, fate, queue, closed, pc, hand, exited>>
                /\ UNCHANGED <<server, applied, redis, setKey, hpc, hkey, hval, intent>>

\* Its error is ignored; or it ended with the process.
DeleteLost(d) == /\ Running(d)
                 /\ DBFaults \/ exited
                 /\ Finish(d)
                 /\ UNCHANGED <<awVars, redis, setKey, hpc, hkey, hval, intent>>

-----------------------------------------------------------------------------
(* Redis, the queue, and the end of the process                            *)

Evict(k) == /\ Evictions /\ redis[k] # Absent
            /\ CachePut(k, Absent)
            /\ UNCHANGED <<awVars, setKey, hpc, hkey, hval, del, intent>>

Background == /\ \/ \E w \in Workers : AW!WorkerStep(w)
                 \/ AW!Database \/ AW!Shutdown \/ AW!Restart
              /\ UNCHANGED apiVars

\* The handlers end with the process; Redis and PostgreSQL do not.
End == /\ AW!Ending
       /\ hpc'  = [h \in Handlers |-> "free"]
       /\ hkey' = [h \in Handlers |-> NoKey]
       /\ hval' = [h \in Handlers |-> Absent]
       /\ UNCHANGED <<redis, setKey, del, intent>>

-----------------------------------------------------------------------------
Request(h) == \/ \E k \in Keys : \/ \E i \in WriteIds : Set(h, i, k)
                                 \/ GetMiss(h, k)
                                 \/ \E d \in DeleteIds : Delete(h, d, k)
              \/ SetEnqueue(h) \/ GetRow(h) \/ GetNone(h) \/ Repopulate(h)

Next == \/ \E h \in Handlers : Request(h)
        \/ \E d \in DeleteIds : DeleteRow(d) \/ DeleteLost(d)
        \/ \E k \in Keys : Evict(k)
        \/ Background \/ End

Spec == Init /\ [][Next]_vars

-----------------------------------------------------------------------------
(* Properties                                                              *)

Values == WriteIds \cup {Absent}

\* The state of the API beside that of its queue.
TypeOK == /\ AW!TypeOK
          /\ redis  \in [Keys -> Values]
          /\ setKey \in [WriteIds -> Keys \cup {NoKey}]
          /\ hpc    \in [Handlers -> {"free", "enqueue", "lookup", "repopulate"}]
          /\ hkey   \in [Handlers -> Keys \cup {NoKey}]
          /\ hval   \in [Handlers -> Values]
          /\ del    \in [DeleteIds -> Keys \cup {NoKey, "done"}]
          /\ intent \in [Keys -> Values]

\* Whatever Redis or PostgreSQL holds for a key was set on that key, through
\* the queue, a retry, a row read after a miss and its repopulation; and a Set
\* that was answered with an error before it was queued is not in PostgreSQL.
ValuesStayWithTheirKey ==
  \A k \in Keys : /\ redis[k] # Absent => setKey[redis[k]] = k
                  /\ rows[k]  # Absent => /\ setKey[rows[k]] = k
                                          /\ fate[rows[k]] \notin AW!Refusals \cup {"none"}

\* Nothing that is still to happen can bring k back: no handler is about to
\* queue or cache it, no write to it is owned by the queue, and PostgreSQL
\* holds no statement for it.
Settled(k) == /\ \A h \in Handlers : hkey[h] = k => hpc[h] = "lookup"
              /\ \A i \in WriteIds : keyOf[i] = k => fate[i] # "pending"
              /\ \A s \in server : keyOf[s.id] # k
Gone(k)    == redis[k] = Absent /\ rows[k] = Absent /\ Settled(k)

\* A key that is in neither store, with nothing about it in flight, stays so
\* until a client sets it: the handlers' steps, retries, late statements and
\* restarts listed in Settled are all there is that can resurrect a key.
GoneUntilSet ==
  [][\A k \in Keys : Gone(k) =>
       Gone(k)' \/ \E i \in WriteIds : setKey'[i] = k /\ setKey[i] # k]_vars

\* Is the value of Set i stored for k, or on its way to be?
Somewhere(k, i) == \/ redis[k] = i \/ rows[k] = i
                   \/ \E h \in Handlers : hkey[h] = k /\ hval[h] = i
                   \/ keyOf[i] = k /\ (fate[i] = "pending" \/ \E s \in server : s.id = i)

Flow == INSTANCE ValueFlow WITH
          Values <- WriteIds,
          used   <- {i \in WriteIds : setKey[i] # NoKey},
          alive  <- {e \in Keys \X WriteIds : Somewhere(e[1], e[2])}

\* The node keeps the promise of ValueFlow that a cluster of nodes makes: a
\* value stays with the key of its Set, and once it is nowhere, overwritten,
\* evicted, deleted or given up, no retry, late statement or reader that was
\* slow brings it back, whatever else the key has now.
ValueFlowSpec == Flow!Spec

\* The handler that writes behind never waits for the workers or PostgreSQL:
\* while the process runs, with the channel full or closed and whatever the
\* workers are doing, its step to the answer can be taken ("Queue full, log and
\* continue", async_writer.go:69).
SetsNeverWait ==
  \A h \in Handlers : ~exited /\ hpc[h] = "enqueue" => ENABLED SetEnqueue(h)

\* Nothing is in flight at all.
Quiescent == /\ ~exited
             /\ \A h \in Handlers : hpc[h] = "free"
             /\ queue = <<>> /\ server = {}
             /\ \A w \in Workers : hand[w] = AW!NoRequest
             /\ \A d \in DeleteIds : ~Running(d)

Accepted(k) == {i \in WriteIds : keyOf[i] = k /\ fate[i] \notin AW!Refusals}

\* When everything in flight has landed, the row of a key holds the newest
\* value set on it that the queue did not turn away.
RowsCatchUp ==
  Quiescent => \A k \in Keys, i \in WriteIds :
                 i \in Accepted(k) => i <= rows[k]

\* A key that was deleted, and not set again, is gone from both stores once
\* the goroutine of its Delete has run and nothing else is in flight
\* ("Deletes a cache entry from both Redis and PostgreSQL", docs/API.md:204).
DeletedIsGone ==
  Quiescent => \A k \in Keys :
                 intent[k] = Absent => redis[k] = Absent /\ rows[k] = Absent
=============================================================================
