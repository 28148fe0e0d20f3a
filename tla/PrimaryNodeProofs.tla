------------------------- MODULE PrimaryNodeProofs -------------------------
(***************************************************************************)
(* Theorems about PrimaryNode, for any keys, handlers, workers and bounds. *)
(*                                                                         *)
(* The write queue inside the node takes the steps of AsyncWriter, except  *)
(* that the calls of Write come from handlers, in any order, and that rows *)
(* are deleted behind its back: what is proved of its steps is taken from  *)
(* AsyncWriterProofs.                                                      *)
(***************************************************************************)
EXTENDS PrimaryNode, TLAPS, SequenceTheorems

Queue == INSTANCE AsyncWriterProofs

USE QueueAssumption, CacheAssumption

-----------------------------------------------------------------------------
(* The steps of the node, as the queue sees them                            *)

LEMMA SameTypes == /\ AW!TypeOK = Queue!TypeOK /\ AW!Init = Queue!Init
                   /\ WriteIds = Queue!WriteIds /\ Absent = Queue!NoWrite
                   /\ AW!Refusals = Queue!Refusals
  BY DEF WriteIds, Absent, AW!TypeOK, AW!Init, AW!WriteIds, AW!Request, AW!NoRequest,
         AW!NoWrite, AW!Fates, AW!Losses, AW!Refusals,
         Queue!TypeOK, Queue!Init, Queue!WriteIds, Queue!Request, Queue!NoRequest,
         Queue!NoWrite, Queue!Fates, Queue!Losses, Queue!Refusals

LEMMA SameVars == /\ AW!procVars = Queue!procVars /\ AW!dbVars = Queue!dbVars
                  /\ UNCHANGED awVars <=> UNCHANGED Queue!vars
  BY DEF awVars, AW!procVars, AW!dbVars, Queue!vars, Queue!procVars, Queue!dbVars

LEMMA SameWrite ==
  ASSUME NEW i \in WriteIds, NEW k \in Keys, AW!Write(i, k)
  PROVE  Queue!Write(i, k)
  BY SameVars DEF AW!Write, AW!Enqueue, AW!DropFull, AW!PanicSend, AW!Settle, AW!Full, AW!dbVars,
         Queue!Write, Queue!Enqueue, Queue!DropFull, Queue!PanicSend, Queue!Settle,
         Queue!Full, Queue!dbVars

LEMMA SameWorker ==
  ASSUME NEW w \in Workers, AW!WorkerStep(w)
  PROVE  Queue!WorkerStep(w)
  BY DEF AW!WorkerStep, AW!Dequeue, AW!SetOk, AW!SetErr, AW!Backoff, AW!GiveUp, AW!Requeue,
         AW!Stop, AW!Goto, AW!Settle, AW!Full, AW!NoRequest, AW!NoWrite, AW!dbVars,
         Queue!WorkerStep, Queue!Dequeue, Queue!SetOk, Queue!SetErr, Queue!Backoff,
         Queue!GiveUp, Queue!Requeue, Queue!Stop, Queue!Goto, Queue!Settle, Queue!Full,
         Queue!NoRequest, Queue!NoWrite, Queue!dbVars

LEMMA SameLife ==
  /\ AW!Database => Queue!Database
  /\ AW!Shutdown => Queue!Shutdown
  /\ AW!Restart  => Queue!Restart
  /\ AW!Ending   => Queue!Ending
  BY DEF AW!Database, AW!Execute, AW!Reject, AW!Shutdown, AW!Restart, AW!Ending,
         AW!RequeuePanic, AW!ShutdownAgain, AW!Kill, AW!Exit, AW!WriteIds, AW!NoRequest,
         AW!NoWrite, AW!procVars, AW!dbVars,
         Queue!Database, Queue!Execute, Queue!Reject, Queue!Shutdown, Queue!Restart,
         Queue!Ending, Queue!RequeuePanic, Queue!ShutdownAgain, Queue!Kill, Queue!Exit,
         Queue!WriteIds, Queue!NoRequest, Queue!NoWrite, Queue!procVars, Queue!dbVars

LEMMA BackgroundIsQueue == Background \/ End => Queue!Next
<1>1. Background => Queue!Next
  BY SameWorker, SameLife DEF Background, Queue!Next
<1>2. End => Queue!Next
  BY SameLife DEF End, Queue!Next
<1> QED BY <1>1, <1>2

-----------------------------------------------------------------------------
(* The invariant.  What the queue's types and owners need is AsyncWriterProofs'; *)
(* the rest ties every value that is stored or on its way to the key of its Set. *)

ApiTyped == /\ redis  \in [Keys -> Values]
            /\ setKey \in [WriteIds -> Keys \cup {NoKey}]
            /\ hpc    \in [Handlers -> {"free", "enqueue", "lookup", "repopulate"}]
            /\ hkey   \in [Handlers -> Keys \cup {NoKey}]
            /\ hval   \in [Handlers -> Values]
            /\ del    \in [DeleteIds -> Keys \cup {NoKey, "done"}]
            /\ intent \in [Keys -> Values]

\* A handler in the middle of a request has a key, and one that is about to
\* queue or to cache a value, and no other, holds one that was set on this key.
Carrying   == {"enqueue", "repopulate"}
Holds(h)   == hval[h] \in WriteIds /\ setKey[hval[h]] = hkey[h]
HandlersOK == \A h \in Handlers :
                /\ hpc[h] # "free" <=> hkey[h] # NoKey
                /\ IF hpc[h] \in Carrying THEN Holds(h) ELSE hval[h] = Absent

\* The queue is told the key of the Set, when the Set is queued.
KeysAgree == \A i \in WriteIds : /\ keyOf[i] # NoKey => setKey[i] = keyOf[i]
                                 /\ fate[i] = "none" => keyOf[i] = NoKey

RedisOK == \A k \in Keys : redis[k] # Absent => setKey[redis[k]] = k

Accept(i) == fate[i] \notin Queue!Refusals \cup {"none"}
RowsOK == /\ Queue!KnownKeys
          /\ \A s \in server \cup applied : Accept(s.id)
          /\ \A k \in Keys : rows[k] # Absent => keyOf[rows[k]] = k /\ Accept(rows[k])

QueueInv == Queue!TypeInv /\ Queue!OwnInv

Inv == QueueInv /\ ApiTyped /\ HandlersOK /\ KeysAgree /\ RedisOK /\ RowsOK

LEMMA ValueFacts == Absent \notin WriteIds /\ Absent \in Values /\ WriteIds \subseteq Values
  BY DEF Absent, WriteIds, Values

\* What the queue knows of a row and of its own variables.
LEMMA QueueTyped ==
  ASSUME QueueInv
  PROVE  /\ keyOf \in [WriteIds -> Keys \cup {NoKey}]
         /\ rows \in [Keys -> Values]
         /\ \A s \in server \cup applied : s.id \in WriteIds
         /\ DOMAIN fate = WriteIds
  BY SameTypes DEF QueueInv, Queue!TypeInv, Queue!TypeOK, Queue!Request, Values

LEMMA InvInit == Init => Inv
<1> SUFFICES ASSUME Init PROVE Inv
  OBVIOUS
<1>1. QueueInv
  BY SameTypes, Queue!TypeInit, Queue!OwnInit DEF Init, QueueInv
<1>2. ApiTyped
  BY ValueFacts DEF Init, ApiTyped
<1>3. /\ keyOf = [i \in WriteIds |-> NoKey] /\ fate = [i \in WriteIds |-> "none"]
      /\ server = {} /\ applied = {} /\ rows = [k \in Keys |-> Absent]
  BY SameTypes DEF Init, Queue!Init, Absent, Queue!NoWrite
<1>4. RowsOK
  BY <1>3, SameTypes DEF RowsOK, Queue!KnownKeys
<1> QED BY <1>1, <1>2, <1>3, <1>4, ValueFacts DEF Init, Inv, HandlersOK, KeysAgree, RedisOK, Carrying

-----------------------------------------------------------------------------
(* One lemma per part: what the steps of the node leave of it               *)

\* The steps in which the queue takes part, or its rows are changed.
LEMMA QueueSteps ==
  ASSUME [Next]_vars
  PROVE  \/ \E h \in Handlers : SetEnqueue(h)
         \/ \E d \in DeleteIds : DeleteRow(d)
         \/ Queue!Next /\ (Background \/ End)
         \/ UNCHANGED Queue!vars /\ UNCHANGED awVars
<1>1. CASE \E h \in Handlers : Request(h) /\ ~SetEnqueue(h)
  BY <1>1, SameVars DEF Request, Set, GetMiss, Delete, GetRow, GetNone, Repopulate
<1>2. CASE (\E d \in DeleteIds : DeleteLost(d)) \/ (\E k \in Keys : Evict(k))
  BY <1>2, SameVars DEF DeleteLost, Evict
<1>3. CASE Background \/ End
  BY <1>3, BackgroundIsQueue
<1>4. CASE UNCHANGED vars
  BY <1>4, SameVars DEF vars
<1> QED BY <1>1, <1>2, <1>3, <1>4 DEF Next

\* A handler calls Write for the Set it is serving.
LEMMA EnqueueWrites ==
  ASSUME Inv, NEW h \in Handlers, SetEnqueue(h)
  PROVE  /\ hval[h] \in WriteIds /\ hkey[h] \in Keys /\ setKey[hval[h]] = hkey[h]
         /\ Queue!Write(hval[h], hkey[h])
<1>1. hval[h] \in WriteIds /\ hkey[h] \in Keys /\ setKey[hval[h]] = hkey[h]
  BY DEF SetEnqueue, At, Inv, HandlersOK, Holds, ApiTyped, Carrying
<1> QED BY <1>1, SameWrite DEF SetEnqueue

LEMMA QueueKept ==
  ASSUME Inv, [Next]_vars
  PROVE  /\ QueueInv'
         /\ \A i \in WriteIds : Queue!FateStep(i)
<1> USE DEF Inv, QueueInv
<1>1. ASSUME NEW h \in Handlers, SetEnqueue(h)
      PROVE  QueueInv' /\ \A i \in WriteIds : Queue!FateStep(i)
  BY <1>1, EnqueueWrites, SameTypes, Queue!WriteType, Queue!WriteOwn, Queue!FateWrite
     DEF Queue!TypeInv
<1>2. ASSUME NEW d \in DeleteIds, DeleteRow(d)
      PROVE  QueueInv' /\ \A i \in WriteIds : Queue!FateStep(i)
  <2>1. /\ rows' \in [Keys -> Queue!WriteIds \cup {Queue!NoWrite}]
        /\ UNCHANGED <<keyOf, fate, Queue!procVars, server, applied>>
    BY <1>2, QueueTyped, SameTypes, ValueFacts DEF DeleteRow, Queue!procVars, Values
  <2>2. Queue!TypeInv'
    BY <2>1, Queue!TypeRows
  <2>3. Queue!OwnInv'
    BY <2>1, Queue!SameOwn DEF Queue!procVars, Queue!Holders
  <2> QED BY <2>1, <2>2, <2>3 DEF Queue!FateStep
<1>3. CASE [Queue!Next]_(Queue!vars)
  BY <1>3, SameTypes, Queue!TypeNext, Queue!OwnNext, Queue!FateSteps
<1> QED BY <1>1, <1>2, <1>3, QueueSteps

\* A Set is numbered when it arrives, and its key never changes.
LEMMA SetsKeepTheirKey ==
  ASSUME Inv, [Next]_vars
  PROVE  \A i \in WriteIds : setKey[i] # NoKey => setKey'[i] = setKey[i]
<1>1. ASSUME NEW h \in Handlers, NEW k \in Keys, NEW i \in WriteIds, Set(h, i, k)
      PROVE  \A j \in WriteIds : setKey[j] # NoKey => setKey'[j] = setKey[j]
  BY <1>1 DEF Set, Inv, ApiTyped, WriteIds
<1>2. CASE \A h \in Handlers, k \in Keys, i \in WriteIds : ~Set(h, i, k)
  <2>1. setKey' = setKey
    BY <1>2 DEF Next, Request, SetEnqueue, GetMiss, GetRow, GetNone, Repopulate, Delete,
         DeleteRow, DeleteLost, Evict, Background, End, apiVars, vars
  <2> QED BY <2>1
<1> QED BY <1>1, <1>2

\* What a step of a handler does to the others: nothing.
LEMMA GotoFacts ==
  ASSUME ApiTyped, NEW h \in Handlers, NEW l \in {"free", "enqueue", "lookup", "repopulate"},
         NEW k \in Keys \cup {NoKey}, NEW v \in Values, Goto(h, l, k, v)
  PROVE  /\ hpc'  \in [Handlers -> {"free", "enqueue", "lookup", "repopulate"}]
         /\ hkey' \in [Handlers -> Keys \cup {NoKey}]
         /\ hval' \in [Handlers -> Values]
         /\ hpc'[h] = l /\ hkey'[h] = k /\ hval'[h] = v
         /\ \A g \in Handlers : g # h => /\ hpc'[g] = hpc[g] /\ hkey'[g] = hkey[g]
                                         /\ hval'[g] = hval[g]
  BY DEF ApiTyped, Goto

\* A handler goes on with a value of its key, or without one.
LEMMA GotoOK ==
  ASSUME Inv, [Next]_vars, NEW h \in Handlers,
         NEW l \in {"free", "enqueue", "lookup", "repopulate"},
         NEW k \in Keys \cup {NoKey}, NEW v \in Values, Goto(h, l, k, v),
         l # "free" <=> k # NoKey,
         IF l \in Carrying THEN v \in WriteIds /\ setKey'[v] = k ELSE v = Absent
  PROVE  HandlersOK'
<1> SUFFICES ASSUME NEW g \in Handlers
             PROVE  /\ hpc'[g] # "free" <=> hkey'[g] # NoKey
                    /\ IF hpc'[g] \in Carrying THEN Holds(g)' ELSE hval'[g] = Absent
  BY DEF HandlersOK
<1>1. CASE g = h
  BY <1>1, GotoFacts DEF Inv, Holds
<1>2. CASE g # h
  <2>1. hpc'[g] = hpc[g] /\ hkey'[g] = hkey[g] /\ hval'[g] = hval[g]
    BY <1>2, GotoFacts DEF Inv
  <2>2. hpc[g] # "free" <=> hkey[g] # NoKey
    BY DEF Inv, HandlersOK
  <2>3. IF hpc[g] \in Carrying THEN Holds(g)' ELSE hval[g] = Absent
    BY <2>1, <2>2, SetsKeepTheirKey DEF Inv, HandlersOK, Holds, Carrying
  <2> QED BY <2>1, <2>2, <2>3
<1> QED BY <1>1, <1>2

\* The handlers are where they were.
LEMMA HandlersRest ==
  ASSUME Inv, [Next]_vars, UNCHANGED <<hpc, hkey, hval>>
  PROVE  HandlersOK'
<1> SUFFICES ASSUME NEW g \in Handlers
             PROVE  /\ hpc[g] # "free" <=> hkey[g] # NoKey
                    /\ IF hpc[g] \in Carrying THEN Holds(g)' ELSE hval[g] = Absent
  BY DEF HandlersOK
<1>1. hpc[g] # "free" <=> hkey[g] # NoKey
  BY DEF Inv, HandlersOK
<1> QED BY <1>1, SetsKeepTheirKey DEF Inv, HandlersOK, Holds, Carrying

\* Redis loses a value, or takes one that was set on the key.
LEMMA CachePutOK ==
  ASSUME Inv, [Next]_vars, NEW k \in Keys, NEW v \in Values,
         v # Absent => setKey'[v] = k, redis' = redis \/ CachePut(k, v)
  PROVE  RedisOK' /\ redis' \in [Keys -> Values]
<1> redis \in [Keys -> Values]
  BY DEF Inv, ApiTyped
<1>1. redis' \in [Keys -> Values]
  BY DEF CachePut
<1>2. ASSUME NEW x \in Keys, redis'[x] # Absent PROVE setKey'[redis'[x]] = x
  <2>1. CASE x = k /\ redis'[x] = v
    BY <1>2, <2>1
  <2>2. CASE redis'[x] = redis[x]
    <3>1. redis[x] \in WriteIds /\ setKey[redis[x]] = x
      BY <1>2, <2>2 DEF Inv, RedisOK, Values
    <3> QED BY <2>2, <3>1, SetsKeepTheirKey
  <2> QED BY <2>1, <2>2 DEF CachePut
<1> QED BY <1>1, <1>2 DEF RedisOK

ApiInv == ApiTyped /\ HandlersOK /\ RedisOK

LEMMA RedisRests ==
  ASSUME Inv, [Next]_vars, redis' = redis
  PROVE  RedisOK'
<1> SUFFICES ASSUME NEW k \in Keys, redis[k] # Absent PROVE setKey'[redis[k]] = k
  BY DEF RedisOK
<1>1. redis[k] \in WriteIds /\ setKey[redis[k]] = k
  BY DEF Inv, RedisOK, ApiTyped, Values
<1> QED BY <1>1, SetsKeepTheirKey

-----------------------------------------------------------------------------
(* The handlers keep the API's part                                         *)

LEMMA SetKeeps ==
  ASSUME Inv, [Next]_vars, NEW h \in Handlers, NEW i \in WriteIds, NEW k \in Keys,
         Set(h, i, k)
  PROVE  ApiInv'
<1>1. /\ setKey' \in [WriteIds -> Keys \cup {NoKey}] /\ setKey'[i] = k
      /\ i \in Values /\ Absent \in Values /\ del' = del
  BY ValueFacts DEF Set, Inv, ApiTyped
<1>2. CASE SetCached(h, i, k)
  <2>1. RedisOK' /\ redis' \in [Keys -> Values]
    BY <1>1, <1>2, CachePutOK DEF SetCached
  <2>2. HandlersOK'
    BY <1>1, <1>2, GotoOK DEF SetCached, Carrying
  <2>3. intent' \in [Keys -> Values]
    BY <1>1, <1>2 DEF SetCached, Inv, ApiTyped
  <2> QED BY <1>1, <1>2, <2>1, <2>2, <2>3, GotoFacts DEF SetCached, Inv, ApiInv, ApiTyped
<1>3. CASE SetFailed(h, i, k)
  <2>1. RedisOK' /\ redis' \in [Keys -> Values]
    BY <1>1, <1>3, CachePutOK DEF SetFailed
  <2>2. HandlersOK'
    BY <1>1, <1>3, GotoOK DEF SetFailed, Answer, Carrying
  <2> QED BY <1>1, <1>3, <2>1, <2>2, GotoFacts DEF SetFailed, Answer, Inv, ApiInv, ApiTyped
<1> QED BY <1>2, <1>3 DEF Set

LEMMA GetKeeps ==
  ASSUME Inv, [Next]_vars, NEW h \in Handlers,
         \/ \E k \in Keys : GetMiss(h, k)
         \/ GetRow(h) \/ GetNone(h) \/ Repopulate(h) \/ SetEnqueue(h)
  PROVE  ApiInv'
<1> USE ValueFacts
<1>0. /\ UNCHANGED <<setKey, del, intent>>
      /\ hkey[h] \in Keys \cup {NoKey} /\ hval[h] \in Values
  BY DEF GetMiss, GetRow, GetNone, Repopulate, SetEnqueue, Inv, ApiTyped
<1>1. CASE redis' = redis
  <2>1. RedisOK'
    BY <1>1, RedisRests
  <2>2. \E l \in {"free", "lookup", "repopulate"}, k \in Keys \cup {NoKey}, v \in Values :
          /\ Goto(h, l, k, v)
          /\ l # "free" <=> k # NoKey
          /\ IF l = "repopulate" THEN v \in WriteIds /\ setKey'[v] = k ELSE v = Absent
    <3>1. ASSUME NEW k \in Keys, GetMiss(h, k)
          PROVE  Goto(h, "lookup", k, Absent)
      BY <3>1 DEF GetMiss
    <3>2. CASE GetRow(h)
      <4> DEFINE k == hkey[h]
      <4>1. k \in Keys /\ rows[k] # Absent /\ Goto(h, "repopulate", k, rows[k])
        BY <3>2 DEF GetRow, At, Inv, HandlersOK, ApiTyped, Carrying
      <4>2. rows[k] \in WriteIds /\ keyOf[rows[k]] = k
        BY <4>1, QueueTyped DEF Inv, RowsOK, Values
      <4>3. setKey[rows[k]] = k
        BY <4>1, <4>2 DEF Inv, KeysAgree
      <4> HIDE DEF k
      <4> QED BY <1>0, <4>1, <4>2, <4>3
    <3>3. CASE GetNone(h) \/ Repopulate(h) \/ SetEnqueue(h)
      BY <3>3 DEF GetNone, Repopulate, SetEnqueue, Answer
    <3> QED BY <3>1, <3>2, <3>3
  <2>3. HandlersOK'
    BY <2>2, GotoOK DEF Carrying
  <2> QED BY <1>0, <1>1, <2>1, <2>2, <2>3, GotoFacts DEF Inv, ApiInv, ApiTyped
<1>2. CASE redis' # redis
  <2>1. Repopulate(h) /\ CachePut(hkey[h], hval[h]) /\ Goto(h, "free", NoKey, Absent)
    BY <1>2 DEF GetMiss, GetRow, GetNone, Repopulate, SetEnqueue, Answer
  <2>2. hkey[h] \in Keys /\ hval[h] \in WriteIds /\ setKey'[hval[h]] = hkey[h]
    BY <1>0, <2>1 DEF Repopulate, At, Inv, HandlersOK, Holds, ApiTyped, Carrying
  <2>3. RedisOK' /\ redis' \in [Keys -> Values]
    BY <1>0, <2>1, <2>2, CachePutOK
  <2>4. HandlersOK'
    BY <2>1, GotoOK DEF Carrying
  <2> QED BY <1>0, <2>1, <2>3, <2>4, GotoFacts DEF Inv, ApiInv, ApiTyped
<1> QED BY <1>1, <1>2

LEMMA DeleteKeeps ==
  ASSUME Inv, [Next]_vars, NEW h \in Handlers, NEW d \in DeleteIds, NEW k \in Keys,
         Delete(h, d, k)
  PROVE  ApiInv'
<1>1. RedisOK' /\ redis' \in [Keys -> Values]
  BY ValueFacts, CachePutOK DEF Delete
<1>2. HandlersOK'
  BY HandlersRest DEF Delete
<1> QED BY <1>1, <1>2, ValueFacts DEF Delete, Inv, ApiInv, ApiTyped

LEMMA RestKeeps ==
  ASSUME Inv, [Next]_vars,
         \/ \E d \in DeleteIds : DeleteRow(d) \/ DeleteLost(d)
         \/ \E k \in Keys : Evict(k)
         \/ Background \/ End \/ UNCHANGED vars
  PROVE  ApiInv'
<1>1. UNCHANGED <<setKey, intent>> /\ del' \in [DeleteIds -> Keys \cup {NoKey, "done"}]
  BY DEF DeleteRow, DeleteLost, Finish, Evict, Background, End, vars, apiVars, Inv, ApiTyped
<1>2. RedisOK' /\ redis' \in [Keys -> Values]
  <2>1. CASE redis' = redis
    BY <2>1, RedisRests DEF Inv, ApiTyped
  <2>2. CASE \E k \in Keys : Evict(k)
    BY <2>2, ValueFacts, CachePutOK DEF Evict
  <2> QED BY <2>1, <2>2 DEF DeleteRow, DeleteLost, Background, End, vars, apiVars
<1>3. /\ HandlersOK'
      /\ hpc'  \in [Handlers -> {"free", "enqueue", "lookup", "repopulate"}]
      /\ hkey' \in [Handlers -> Keys \cup {NoKey}]
      /\ hval' \in [Handlers -> Values]
  <2>1. CASE End
    BY <2>1, ValueFacts DEF End, HandlersOK, Carrying
  <2>2. CASE UNCHANGED <<hpc, hkey, hval>>
    BY <2>2, HandlersRest DEF Inv, ApiTyped
  <2> QED BY <2>1, <2>2 DEF DeleteRow, DeleteLost, Evict, Background, vars, apiVars
<1> QED BY <1>1, <1>2, <1>3 DEF Inv, ApiInv, ApiTyped

LEMMA ApiKept == ASSUME Inv, [Next]_vars PROVE ApiInv'
  BY SetKeeps, GetKeeps, DeleteKeeps, RestKeeps DEF Next, Request

-----------------------------------------------------------------------------
(* The queue and the rows keep theirs                                       *)

\* Only a handler that calls Write names a write.
LEMMA OnlyEnqueueNames ==
  ASSUME [Next]_vars
  PROVE  keyOf' = keyOf \/ \E h \in Handlers : SetEnqueue(h)
<1>1. Background \/ End => keyOf' = keyOf
  BY DEF Background, End, AW!WorkerStep, AW!Dequeue, AW!SetOk, AW!SetErr, AW!Requeue, AW!Stop,
         AW!Database, AW!Execute, AW!Reject, AW!Shutdown, AW!Restart, AW!Ending,
         AW!RequeuePanic, AW!ShutdownAgain, AW!Kill, AW!Exit
<1> QED BY <1>1, QueueSteps DEF DeleteRow, awVars

LEMMA KeysAgreeKept ==
  ASSUME Inv, [Next]_vars
  PROVE  KeysAgree'
<1>0. \A i \in WriteIds : fate'[i] = "none" => keyOf'[i] = NoKey
  BY QueueKept DEF Inv, KeysAgree, Queue!FateStep, Queue!Losses, Queue!Refusals
<1> SUFFICES ASSUME NEW i \in WriteIds, keyOf'[i] # NoKey PROVE setKey'[i] = keyOf'[i]
  BY <1>0 DEF KeysAgree
<1>1. CASE keyOf'[i] = keyOf[i]
  BY <1>1, QueueTyped, SetsKeepTheirKey DEF Inv, KeysAgree
<1>2. CASE keyOf'[i] # keyOf[i]
  <2>1. PICK h \in Handlers : SetEnqueue(h)
    BY <1>2, OnlyEnqueueNames
  <2>2. /\ hval[h] \in WriteIds /\ hkey[h] \in Keys /\ setKey[hval[h]] = hkey[h]
        /\ keyOf' = [keyOf EXCEPT ![hval[h]] = hkey[h]]
    BY <2>1, EnqueueWrites DEF Queue!Write
  <2>3. i = hval[h] /\ keyOf'[i] = hkey[h]
    BY <1>2, <2>2, QueueTyped DEF Inv
  <2> QED BY <2>2, <2>3, SetsKeepTheirKey
<1> QED BY <1>1, <1>2

\* What has been accepted stays so, under its key.
LEMMA AcceptedStays ==
  ASSUME Inv, [Next]_vars, NEW i \in WriteIds, Accept(i)
  PROVE  Accept(i)' /\ keyOf'[i] = keyOf[i] /\ keyOf[i] \in Keys
<1>1. Queue!FateStep(i)
  BY QueueKept
<1>2. keyOf[i] \in Keys
  BY SameTypes DEF Inv, RowsOK, Queue!KnownKeys, Accept
<1> QED BY <1>1, <1>2 DEF Queue!FateStep, Accept, Queue!Losses, Queue!Refusals

\* The steps that PostgreSQL sees: a worker sends the head of the channel, a
\* statement is executed, a row is deleted.
LEMMA ServerSteps ==
  ASSUME Inv, [Next]_vars
  PROVE  \/ \E w \in Workers : Queue!Dequeue(w)
         \/ \E s \in server : Queue!Execute(s)
         \/ \E d \in DeleteIds : DeleteRow(d)
         \/ server' \subseteq server /\ applied' = applied /\ rows' = rows
<1>1. ASSUME NEW h \in Handlers, SetEnqueue(h)
      PROVE  server' \subseteq server /\ applied' = applied /\ rows' = rows
  BY <1>1, EnqueueWrites DEF Queue!Write, Queue!dbVars
<1>2. CASE [Queue!Next]_(Queue!vars)
  BY <1>2, Queue!DatabaseSteps DEF Inv, QueueInv
<1> QED BY <1>1, <1>2, QueueSteps

LEMMA RowsKept ==
  ASSUME Inv, [Next]_vars
  PROVE  RowsOK'
<1>1. Queue!KnownKeys'
  BY QueueKept, SameTypes DEF Inv, RowsOK, Queue!KnownKeys, Queue!FateStep
<1>2. \A s \in server \cup applied : s.id \in WriteIds /\ Accept(s.id)
  BY QueueTyped DEF Inv, RowsOK
<1>3. \A k \in Keys : rows[k] # Absent =>
        rows[k] \in WriteIds /\ keyOf[rows[k]] = k /\ Accept(rows[k])
  BY QueueTyped DEF Inv, RowsOK, Values
<1>4. CASE \E w \in Workers : Queue!Dequeue(w)
  <2> PICK w \in Workers : Queue!Dequeue(w)
    BY <1>4
  <2>1. /\ server' = server \cup {Head(queue)} /\ applied' = applied /\ rows' = rows
        /\ queue # <<>> /\ fate' = fate /\ keyOf' = keyOf
    BY DEF Queue!Dequeue
  <2>2. Head(queue).id \in WriteIds /\ fate[Head(queue).id] = "pending"
    BY <2>1, SameTypes, Queue!QueuedIsPending DEF Inv, QueueInv
  <2>3. Accept(Head(queue).id)
    BY <2>2 DEF Accept, Queue!Refusals
  <2> QED BY <1>1, <1>2, <1>3, <2>1, <2>3 DEF RowsOK, Accept
<1>5. CASE \E s \in server : Queue!Execute(s)
  <2> PICK s \in server : Queue!Execute(s)
    BY <1>5
  <2>1. /\ server' \subseteq server /\ applied' = applied \cup {s}
        /\ rows' = [rows EXCEPT ![keyOf[s.id]] = s.id] /\ fate' = fate /\ keyOf' = keyOf
    BY DEF Queue!Execute
  <2>2. \A k \in Keys : rows'[k] = rows[k] \/ (rows'[k] = s.id /\ k = keyOf[s.id])
    BY <2>1, QueueTyped DEF Inv
  <2> QED BY <1>1, <1>2, <1>3, <2>1, <2>2 DEF RowsOK, Accept
<1>6. CASE \E d \in DeleteIds : DeleteRow(d)
  <2> PICK d \in DeleteIds : DeleteRow(d)
    BY <1>6
  <2>1. /\ server' = server /\ applied' = applied /\ fate' = fate /\ keyOf' = keyOf
        /\ \A k \in Keys : rows'[k] \in {rows[k], Absent}
    BY QueueTyped DEF DeleteRow, Inv
  <2> QED BY <1>1, <1>2, <1>3, <2>1 DEF RowsOK, Accept
<1>7. CASE server' \subseteq server /\ applied' = applied /\ rows' = rows
  BY <1>1, <1>2, <1>3, <1>7, AcceptedStays DEF RowsOK
<1> QED BY <1>4, <1>5, <1>6, <1>7, ServerSteps

LEMMA InvNext == Inv /\ [Next]_vars => Inv'
  BY QueueKept, ApiKept, KeysAgreeKept, RowsKept DEF Inv, ApiInv

LEMMA InvAlways == Spec => []Inv
  BY InvInit, InvNext, PTL DEF Spec

\* Every variable of the node, and of the queue inside it, keeps its type.
THEOREM TypeCorrect == Spec => []TypeOK
<1>1. Inv => TypeOK
  BY SameTypes DEF Inv, QueueInv, Queue!TypeInv, ApiTyped, TypeOK
<1> QED BY <1>1, InvAlways, PTL

\* Whatever is stored for a key was set on it, and PostgreSQL holds nothing that
\* the queue turned away or was never given: for any interleaving of handlers,
\* workers, deletions, failures and restarts.
THEOREM ValuesAreOwn == Spec => []ValuesStayWithTheirKey
<1>1. Inv => ValuesStayWithTheirKey
  <2> SUFFICES ASSUME Inv, NEW k \in Keys, rows[k] # Absent
               PROVE  setKey[rows[k]] = k /\ fate[rows[k]] \notin AW!Refusals \cup {"none"}
    BY DEF Inv, RedisOK, ValuesStayWithTheirKey
  <2>1. rows[k] \in WriteIds /\ keyOf[rows[k]] = k /\ Accept(rows[k])
    BY QueueTyped DEF Inv, RowsOK, Values
  <2> QED BY <2>1, SameTypes DEF Inv, KeysAgree, Accept
<1> QED BY <1>1, InvAlways, PTL

\* The handlers and deletions around the queue take nothing from what is proved
\* of it alone: an accepted write that is not settled is in one place.
THEOREM WritesAreConserved == Spec => [](AW!PendingIsOwned /\ AW!OwnedOnce)
<1>1. Inv => AW!PendingIsOwned /\ AW!OwnedOnce
  BY SameTypes DEF Inv, QueueInv, Queue!OwnInv, Queue!PendingIsOwned, Queue!OwnedOnce,
         Queue!Slots, Queue!Holders, AW!PendingIsOwned, AW!OwnedOnce, AW!Slots, AW!Holders,
         AW!WriteIds, Queue!WriteIds
<1> QED BY <1>1, InvAlways, PTL

\* What the handlers call and what deletions do leave the attempts in order.
LEMMA InvSent == Inv => Queue!SentInv
  BY SameTypes DEF Inv, QueueInv, RowsOK, Accept, Queue!SentInv, Queue!SentAccepted, Queue!Sent

LEMMA AttemptsKept ==
  ASSUME Inv, Queue!AttemptInv, [Next]_vars
  PROVE  Queue!AttemptInv'
<1>1. ASSUME NEW h \in Handlers, SetEnqueue(h)
      PROVE  Queue!AttemptInv'
  BY <1>1, InvSent, EnqueueWrites, SameTypes, Queue!AttemptWrite
<1>2. ASSUME NEW d \in DeleteIds, DeleteRow(d)
      PROVE  Queue!AttemptInv'
  BY <1>2 DEF DeleteRow, Queue!AttemptInv, Queue!QueuedLater, Queue!HeldLatest, Queue!Sent
<1>3. CASE [Queue!Next]_(Queue!vars)
  BY <1>3, InvSent, Queue!AttemptNext
<1> QED BY <1>1, <1>2, <1>3, QueueSteps

\* Nor do they make the queue repeat itself: PostgreSQL is never sent an
\* attempt it has executed, also when rows are deleted between the attempts.
THEOREM AttemptsAreNew == Spec => AW!AttemptSentOnce
<1>1. Inv /\ Queue!AttemptInv /\ [Next]_vars
        => [\A s \in server' \ server : s \notin applied']_(AW!vars)
  <2> SUFFICES ASSUME Inv, Queue!AttemptInv, [Next]_vars
               PROVE  \A s \in server' \ server : s \notin applied'
    OBVIOUS
  <2>1. ASSUME NEW w \in Workers, Queue!Dequeue(w)
        PROVE  \A s \in server' \ server : s \notin applied'
    BY <2>1, InvSent, Queue!SendsAreNew
  <2> QED BY <2>1, ServerSteps DEF Queue!Execute, DeleteRow
<1>2. Init => Queue!AttemptInv
  BY SameTypes, Queue!AttemptInit DEF Init
<1>3. Inv /\ Queue!AttemptInv /\ [Next]_vars => Queue!AttemptInv'
  BY AttemptsKept
<1> QED BY <1>1, <1>2, <1>3, InvAlways, PTL DEF Spec, AW!AttemptSentOnce

\* The abstract write-behind path, as AsyncWriter and as its proofs name it.
LEMMA SamePromise ==
  /\ AW!WB!Init <=> Queue!WB!Init
  /\ [Queue!WB!Next]_(Queue!WB!vars) => [AW!WB!Next]_(AW!WB!vars)
  BY DEF AW!WB!Init, AW!WB!Next, AW!WB!vars, AW!WB!Arrive, AW!WB!Land, AW!WB!Confirm, AW!WB!Lose,
         AW!WB!WriteIds, AW!WB!NoWrite, AW!WriteIds, AW!AbstractFate, AW!Losses, AW!Refusals,
         Queue!WB!Init, Queue!WB!Next, Queue!WB!vars, Queue!WB!Arrive, Queue!WB!Land,
         Queue!WB!Confirm, Queue!WB!Lose, Queue!WB!WriteIds, Queue!WB!NoWrite,
         Queue!WriteIds, Queue!AbstractFate, Queue!Losses, Queue!Refusals

\* Handlers queue their writes in any order and at any moment of the queue's
\* life: as long as nobody deletes, the node keeps the promise of WriteBehind.
THEOREM WritesBehind == ASSUME MaxDeletes = 0 PROVE Spec => AW!WriteBehindSpec
<1>1. Inv /\ [Next]_vars => [AW!WB!Next]_(AW!WB!vars)
  <2> SUFFICES ASSUME Inv, [Next]_vars PROVE [Queue!WB!Next]_(Queue!WB!vars)
    BY SamePromise
  <2>1. ASSUME NEW h \in Handlers, SetEnqueue(h)
        PROVE  Queue!WB!Next
    BY <2>1, InvSent, EnqueueWrites, SameTypes, Queue!RefinesWrite
  <2>2. CASE [Queue!Next]_(Queue!vars)
    BY <2>2, InvSent, Queue!RefinesNext
  <2>3. DeleteIds = {}
    BY DEF DeleteIds
  <2> QED BY <2>1, <2>2, <2>3, QueueSteps
<1>2. Init => AW!WB!Init
  BY SameTypes, SamePromise, Queue!RefinesInit DEF Init
<1> QED BY <1>1, <1>2, InvAlways, PTL DEF Spec, AW!WriteBehindSpec, AW!WB!Spec

-----------------------------------------------------------------------------
(* Values flow through the node as ValueFlow says.  One lemma per place: what *)
(* a step brings there was somewhere before, or is the Set it serves.        *)

\* The step is not the Set that brings i to k.
NotSet(k, i) == setKey'[i] = k => setKey[i] = k

LEMMA SetIsNew ==
  ASSUME Inv, NEW h \in Handlers, NEW j \in WriteIds, NEW x \in Keys, Set(h, j, x)
  PROVE  setKey[j] = NoKey /\ setKey' = [setKey EXCEPT ![j] = x]
  BY DEF Set, Inv, ApiTyped, WriteIds

LEMMA NotInRedis ==
  ASSUME Inv, [Next]_vars, NEW k \in Keys, NEW i \in WriteIds, ~Somewhere(k, i), NotSet(k, i)
  PROVE  redis'[k] # i
<1>0. redis \in [Keys -> Values] /\ redis[k] # i /\ Absent # i
  BY ValueFacts DEF Inv, ApiTyped, Somewhere
<1>1. ASSUME NEW h \in Handlers, NEW j \in WriteIds, NEW x \in Keys, Set(h, j, x)
      PROVE  redis'[k] # i
  <2>1. x # k \/ j # i
    BY <1>1, SetIsNew DEF NotSet, Inv, ApiTyped
  <2> QED BY <1>0, <1>1, <2>1 DEF Set, SetCached, SetFailed, CachePut
<1>2. ASSUME NEW h \in Handlers, Repopulate(h) PROVE redis'[k] # i
  <2>1. hkey[h] # k \/ hval[h] # i
    BY DEF Somewhere
  <2> QED BY <1>0, <1>2, <2>1 DEF Repopulate, CachePut
<1>3. ASSUME NEW h \in Handlers, NEW d \in DeleteIds, NEW x \in Keys, Delete(h, d, x)
      PROVE  redis'[k] # i
  BY <1>0, <1>3 DEF Delete, CachePut
<1>4. CASE \E x \in Keys : Evict(x)
  BY <1>0, <1>4 DEF Evict, CachePut
<1>5. CASE redis' = redis
  BY <1>0, <1>5
<1> QED BY <1>1, <1>2, <1>3, <1>4, <1>5 DEF Next, Request, GetMiss, GetRow, GetNone,
     SetEnqueue, DeleteRow, DeleteLost, Background, End, apiVars, vars

LEMMA NotInRows ==
  ASSUME Inv, [Next]_vars, NEW k \in Keys, NEW i \in WriteIds, ~Somewhere(k, i)
  PROVE  rows'[k] # i
<1>0. rows \in [Keys -> Values] /\ rows[k] # i /\ Absent # i
  BY QueueTyped, ValueFacts DEF Inv, Somewhere
<1>1. ASSUME NEW s \in server, Queue!Execute(s) PROVE rows'[k] # i
  BY <1>0, <1>1 DEF Queue!Execute, Somewhere
<1>2. ASSUME NEW d \in DeleteIds, DeleteRow(d) PROVE rows'[k] # i
  BY <1>0, <1>2 DEF DeleteRow
<1> QED BY <1>0, <1>1, <1>2, ServerSteps DEF Queue!Dequeue

LEMMA NotWithHandlers ==
  ASSUME Inv, [Next]_vars, NEW k \in Keys, NEW i \in WriteIds, ~Somewhere(k, i), NotSet(k, i),
         NEW g \in Handlers
  PROVE  hkey'[g] # k \/ hval'[g] # i
<1>0. hkey[g] # k \/ hval[g] # i
  BY DEF Somewhere
<1>1. CASE hkey'[g] = hkey[g] /\ hval'[g] = hval[g]
  BY <1>0, <1>1
<1>2. ASSUME NEW h \in Handlers, NEW l \in {"free", "enqueue", "lookup", "repopulate"},
             NEW x \in Keys \cup {NoKey}, NEW v \in Values, Goto(h, l, x, v), x # k \/ v # i
      PROVE  hkey'[g] # k \/ hval'[g] # i
  BY <1>0, <1>2, GotoFacts DEF Inv
<1>3. ASSUME NEW h \in Handlers, NEW j \in WriteIds, NEW x \in Keys, Set(h, j, x)
      PROVE  hkey'[g] # k \/ hval'[g] # i
  <2>1. x # k \/ j # i
    BY <1>3, SetIsNew DEF NotSet, Inv, ApiTyped
  <2> QED BY <1>2, <1>3, <2>1, ValueFacts DEF Set, SetCached, SetFailed, Answer
<1>4. ASSUME NEW h \in Handlers, NEW x \in Keys, GetMiss(h, x)
      PROVE  hkey'[g] # k \/ hval'[g] # i
  BY <1>2, <1>4, ValueFacts DEF GetMiss
<1>5. ASSUME NEW h \in Handlers, GetRow(h)
      PROVE  hkey'[g] # k \/ hval'[g] # i
  <2>1. hkey[h] \in Keys /\ rows[hkey[h]] \in Values
    BY <1>5, QueueTyped DEF GetRow, At, Inv, HandlersOK, ApiTyped
  <2>2. hkey[h] # k \/ rows[hkey[h]] # i
    BY DEF Somewhere
  <2> QED BY <1>2, <1>5, <2>1, <2>2 DEF GetRow
<1>6. ASSUME NEW h \in Handlers, SetEnqueue(h) \/ GetNone(h) \/ Repopulate(h)
      PROVE  hkey'[g] # k \/ hval'[g] # i
  BY <1>2, <1>6, ValueFacts DEF SetEnqueue, GetNone, Repopulate, Answer
<1>7. CASE End
  BY <1>7, ValueFacts DEF End
<1> QED BY <1>1, <1>3, <1>4, <1>5, <1>6, <1>7 DEF Next, Request, Delete, DeleteRow, DeleteLost,
     Evict, Background, apiVars, vars

\* Only what a handler holds becomes a pending write.
LEMMA NotPending ==
  ASSUME Inv, [Next]_vars, NEW k \in Keys, NEW i \in WriteIds, ~Somewhere(k, i),
         keyOf'[i] = k
  PROVE  fate'[i] # "pending"
<1>1. Queue!FateStep(i)
  BY QueueKept
<1>2. CASE keyOf'[i] = keyOf[i] /\ fate'[i] = fate[i]
  BY <1>2 DEF Somewhere
<1>3. CASE \E h \in Handlers : SetEnqueue(h)
  <2> PICK h \in Handlers : SetEnqueue(h)
    BY <1>3
  <2>1. /\ hval[h] \in WriteIds /\ (hkey[h] # k \/ hval[h] # i)
        /\ keyOf' = [keyOf EXCEPT ![hval[h]] = hkey[h]]
        /\ \E f \in Queue!Fates : fate' = [fate EXCEPT ![hval[h]] = f]
    BY EnqueueWrites DEF SetEnqueue, Somewhere, Queue!Write, Queue!Enqueue,
       Queue!DropFull, Queue!PanicSend, Queue!Settle, Queue!Fates, Queue!Refusals
  <2>2. i # hval[h] /\ keyOf'[i] = keyOf[i] /\ fate'[i] = fate[i]
    BY <2>1, QueueTyped DEF Inv
  <2> QED BY <1>2, <2>2
<1>4. CASE keyOf' = keyOf
  <2>1. fate[i] # "pending" /\ fate[i] # "none"
    BY <1>4 DEF Somewhere, Inv, KeysAgree
  <2> QED BY <1>1, <2>1 DEF Queue!FateStep
<1> QED BY <1>3, <1>4, OnlyEnqueueNames

\* Only what is pending is sent to PostgreSQL.
LEMMA NotSent ==
  ASSUME Inv, [Next]_vars, NEW k \in Keys, NEW i \in WriteIds, ~Somewhere(k, i),
         NEW s \in server', s.id = i
  PROVE  keyOf'[i] # k
<1>1. ASSUME s \in server PROVE keyOf'[i] # k
  BY <1>1, AcceptedStays DEF Inv, RowsOK, Somewhere
<1>2. ASSUME NEW w \in Workers, Queue!Dequeue(w), s \notin server
      PROVE  keyOf'[i] # k
  <2>1. s = Head(queue) /\ queue # <<>> /\ keyOf' = keyOf
    BY <1>2 DEF Queue!Dequeue
  <2>2. fate[i] = "pending"
    BY <2>1, SameTypes, Queue!QueuedIsPending DEF Inv, QueueInv
  <2> QED BY <2>1, <2>2 DEF Somewhere
<1> QED BY <1>1, <1>2, ServerSteps DEF Queue!Execute, DeleteRow

LEMMA NowhereStaysNowhere ==
  ASSUME Inv, [Next]_vars, NEW k \in Keys, NEW i \in WriteIds, ~Somewhere(k, i), NotSet(k, i)
  PROVE  ~Somewhere(k, i)'
<1>1. redis'[k] # i /\ rows'[k] # i
  BY NotInRedis, NotInRows
<1>2. \A h \in Handlers : hkey'[h] # k \/ hval'[h] # i
  BY NotWithHandlers
<1>3. keyOf'[i] = k => fate'[i] # "pending" /\ \A s \in server' : s.id # i
  BY NotPending, NotSent
<1> QED BY <1>1, <1>2, <1>3 DEF Somewhere

Used  == {i \in WriteIds : setKey[i] # NoKey}
Alive == {e \in Keys \X WriteIds : Somewhere(e[1], e[2])}

LEMMA FlowInit == Init => Flow!Init
<1> SUFFICES ASSUME Init PROVE Used = {} /\ Alive = {}
  BY DEF Used, Alive, Flow!Init
<1>1. Inv /\ keyOf = [i \in WriteIds |-> NoKey] /\ server = {}
  BY InvInit, SameTypes DEF Init, Queue!Init
<1>2. ASSUME NEW k \in Keys, NEW i \in WriteIds PROVE ~Somewhere(k, i)
  BY <1>1, SameTypes, ValueFacts DEF Init, Queue!Init, Queue!NoWrite, Somewhere
<1> QED BY <1>2 DEF Init, Used, Alive

LEMMA FlowNext == Inv /\ [Next]_vars => [Flow!Next]_<<Used, Alive>>
<1> SUFFICES ASSUME Inv, [Next]_vars
             PROVE  \/ Alive' \subseteq Alive /\ Used' = Used
                    \/ \E k \in Keys, i \in WriteIds :
                         /\ i \notin Used /\ Used' = Used \cup {i}
                         /\ Alive' \subseteq Alive \cup {<<k, i>>}
  BY DEF Used, Alive, Flow!Next, Flow!Vanish, Flow!Set
<1>1. ASSUME NEW h \in Handlers, NEW k \in Keys, NEW i \in WriteIds, Set(h, i, k)
      PROVE  /\ i \notin Used /\ Used' = Used \cup {i}
             /\ Alive' \subseteq Alive \cup {<<k, i>>}
  <2>1. setKey[i] = NoKey /\ setKey' = [setKey EXCEPT ![i] = k]
    BY <1>1, SetIsNew
  <2>2. i \notin Used /\ Used' = Used \cup {i}
    BY <2>1 DEF Used, Inv, ApiTyped
  <2>3. ASSUME NEW x \in Keys, NEW j \in WriteIds, Somewhere(x, j)', ~Somewhere(x, j)
        PROVE  x = k /\ j = i
    BY <2>1, <2>3, NowhereStaysNowhere DEF NotSet, Inv, ApiTyped
  <2> QED BY <2>2, <2>3 DEF Alive
<1>2. CASE \A h \in Handlers, k \in Keys, i \in WriteIds : ~Set(h, i, k)
  <2>1. setKey' = setKey
    BY <1>2 DEF Next, Request, SetEnqueue, GetMiss, GetRow, GetNone, Repopulate, Delete,
         DeleteRow, DeleteLost, Evict, Background, End, apiVars, vars
  <2>2. \A k \in Keys, i \in WriteIds : Somewhere(k, i)' => Somewhere(k, i)
    BY <2>1, NowhereStaysNowhere DEF NotSet
  <2> QED BY <2>1, <2>2 DEF Used, Alive
<1> QED BY <1>1, <1>2

\* The node keeps the promise of ValueFlow, through every interleaving of its
\* handlers with the queue, PostgreSQL, deletions, evictions and restarts.
THEOREM FlowRefined == Spec => ValueFlowSpec
<1>1. Flow!Init <=> Used = {} /\ Alive = {}
  BY DEF Flow!Init, Used, Alive
<1> QED BY FlowInit, FlowNext, InvAlways, PTL DEF Spec, ValueFlowSpec, Flow!Spec, Used, Alive

\* A key about which nothing is in flight is one none of whose values is
\* anywhere.
LEMMA GoneIsNowhere == Inv => \A k \in Keys : Gone(k) <=> \A i \in WriteIds : ~Somewhere(k, i)
<1> SUFFICES ASSUME Inv, NEW k \in Keys
             PROVE  Gone(k) <=> \A i \in WriteIds : ~Somewhere(k, i)
  OBVIOUS
<1>0. /\ redis[k] \in WriteIds \cup {Absent} /\ rows[k] \in WriteIds \cup {Absent}
      /\ Absent \notin WriteIds
      /\ \A s \in server : s.id \in WriteIds
  BY QueueTyped, ValueFacts DEF Inv, ApiTyped, Values
<1>1. \A h \in Handlers : hkey[h] = k =>
        /\ hpc[h] \in {"enqueue", "lookup", "repopulate"}
        /\ IF hpc[h] = "lookup" THEN hval[h] = Absent ELSE hval[h] \in WriteIds
  BY DEF Inv, ApiTyped, HandlersOK, Holds, Carrying
<1>2. Gone(k) => \A i \in WriteIds : ~Somewhere(k, i)
  BY <1>0, <1>1 DEF Gone, Settled, Somewhere
<1>3. (\A i \in WriteIds : ~Somewhere(k, i)) => Gone(k)
  BY <1>0, <1>1 DEF Gone, Settled, Somewhere
<1> QED BY <1>2, <1>3

\* A key that is in neither store, with nothing about it in flight, stays so
\* until a client sets it: no retry, late statement, repopulation, deletion of
\* a row, eviction or restart brings a value back.
THEOREM GoneStaysGone == Spec => GoneUntilSet
<1>0. (Inv => \A k \in Keys : Gone(k) <=> \A i \in WriteIds : ~Somewhere(k, i))'
  BY GoneIsNowhere, PTL
<1>1. Inv /\ [Next]_vars =>
        \A k \in Keys : Gone(k) =>
          Gone(k)' \/ \E i \in WriteIds : setKey'[i] = k /\ setKey[i] # k
  <2> SUFFICES ASSUME Inv, [Next]_vars, NEW k \in Keys, Gone(k),
                      \A i \in WriteIds : NotSet(k, i)
               PROVE  Gone(k)'
    BY DEF NotSet
  <2>1. \A i \in WriteIds : ~Somewhere(k, i)'
    BY GoneIsNowhere, NowhereStaysNowhere
  <2>2. Inv'
    BY InvNext
  <2> QED BY <1>0, <2>1, <2>2
<1> QED BY <1>1, InvAlways, PTL DEF Spec, GoneUntilSet
-----------------------------------------------------------------------------
(* Rows catch up, as long as nothing overtakes: one handler, one worker, no *)
(* failing database, no end of the process that is survived, no Delete.  Each *)
(* of these is needed; Redis may fail and evict as it likes.                 *)

Serial == /\ \A g, h \in Handlers : g = h
          /\ \A v, w \in Workers  : v = w
          /\ ~DBFaults /\ ~Restarts /\ MaxDeletes = 0

\* i is younger than every write the queue has been given.
Youngest(i) == \A j \in WriteIds : fate[j] # "none" => j < i
Newest == \A h \in Handlers : hpc[h] = "enqueue" => Youngest(hval[h])

\* A request in the channel is younger than all that is ahead of it: in the
\* channel, with the worker, in PostgreSQL.
Behind == \A n \in 1 .. Len(queue) :
            /\ \A m \in 1 .. Len(queue) : m < n => queue[m].id < queue[n].id
            /\ \A w \in Workers : hand[w].id < queue[n].id
            /\ \A s \in applied : s.id < queue[n].id
            /\ \A k \in Keys : rows[k] < queue[n].id

\* The worker waits for its statement, which is younger than all rows.
InHand == /\ \A w \in Workers : pc[w] # "backoff"
          /\ \A s \in server : /\ s \notin applied
                               /\ \E w \in Workers : pc[w] = "setting" /\ hand[w] = s
          /\ \A w \in Workers, k \in Keys : pc[w] = "setting" => rows[k] <= hand[w].id

\* What was accepted has landed, or is ahead of its landing.
OnItsWay(i) == \/ \E n \in 1 .. Len(queue) : queue[n].id = i
               \/ \E s \in server : s.id = i
Landed == \A i \in WriteIds : Accept(i) => i <= rows[keyOf[i]] \/ OnItsWay(i)

QueueOrder == Behind /\ InHand /\ Landed
SerialInv  == exited \/ (Newest /\ QueueOrder)

\* The writes the queue has anything to do with, as numbers.
LEMMA WriteNumbers ==
  ASSUME Inv
  PROVE  /\ WriteIds \subseteq Nat \ {0} /\ Absent = 0
         /\ queue \in Seq(Queue!Request) /\ Len(queue) \in Nat
         /\ \A n \in 1 .. Len(queue) : queue[n].id \in WriteIds /\ fate[queue[n].id] # "none"
         /\ \A w \in Workers : \/ hand[w].id = 0 /\ pc[w] \in {"idle", "stopped"}
                               \/ /\ hand[w].id \in WriteIds /\ fate[hand[w].id] # "none"
                                  /\ pc[w] \in {"setting", "backoff"}
         /\ \A s \in server \cup applied : s.id \in WriteIds /\ fate[s.id] # "none"
         /\ \A k \in Keys : \/ rows[k] = 0
                            \/ rows[k] \in WriteIds /\ fate[rows[k]] # "none"
<1>0. WriteIds \subseteq Nat \ {0} /\ Absent = 0
  BY DEF WriteIds, Absent
<1>1. queue \in Seq(Queue!Request) /\ Len(queue) \in Nat
  BY LenProperties DEF Inv, QueueInv, Queue!TypeInv, Queue!TypeOK
<1>2. ASSUME NEW n \in 1 .. Len(queue)
      PROVE  queue[n].id \in WriteIds /\ fate[queue[n].id] # "none"
  <2>1. queue[n] \in Queue!Request
    BY <1>1, ElementOfSeq
  <2>2. queue[n].id \in Queue!WriteIds
    BY <2>1 DEF Queue!Request
  <2>3. n \in Queue!Slots(queue[n].id)
    BY DEF Queue!Slots
  <2> QED BY <2>2, <2>3, SameTypes DEF Inv, QueueInv, Queue!OwnInv, Queue!PendingIsOwned
<1>3. ASSUME NEW w \in Workers
      PROVE  \/ hand[w].id = 0 /\ pc[w] \in {"idle", "stopped"}
             \/ /\ hand[w].id \in WriteIds /\ fate[hand[w].id] # "none"
                /\ pc[w] \in {"setting", "backoff"}
  <2>1. /\ hand[w] \in Queue!Request \cup {Queue!NoRequest}
        /\ pc[w] \in {"idle", "setting", "backoff", "stopped"}
        /\ hand[w] = Queue!NoRequest <=> pc[w] \in {"idle", "stopped"}
    BY DEF Inv, QueueInv, Queue!TypeInv, Queue!TypeOK, Queue!HandsMatch
  <2>2. Queue!NoRequest.id = 0
    BY DEF Queue!NoRequest, Queue!NoWrite
  <2>3. hand[w] \in Queue!Request => hand[w].id \in WriteIds /\ fate[hand[w].id] = "pending"
    BY SameTypes, Queue!HeldIsPending DEF Inv, QueueInv
  <2> QED BY <2>1, <2>2, <2>3
<1>4. \A s \in server \cup applied : s.id \in WriteIds /\ fate[s.id] # "none"
  BY QueueTyped DEF Inv, RowsOK, Accept
<1>5. \A k \in Keys : rows[k] = 0 \/ (rows[k] \in WriteIds /\ fate[rows[k]] # "none")
  BY <1>0, QueueTyped DEF Inv, RowsOK, Accept, Values
<1> QED BY <1>0, <1>1, <1>2, <1>3, <1>4, <1>5

LEMMA SerialWrite ==
  ASSUME Inv, Newest, QueueOrder, NEW h \in Handlers, SetEnqueue(h)
  PROVE  QueueOrder'
<1>0. PICK i \in WriteIds, r \in Queue!Request : i = hval[h] /\ r = [id |-> i, retries |-> 0]
  <2>1. hval[h] \in WriteIds /\ [id |-> hval[h], retries |-> 0] \in Queue!Request
    BY EnqueueWrites, SameTypes DEF Queue!Request
  <2> QED BY <2>1
<1>1. /\ i \in WriteIds /\ hkey[h] \in Keys /\ Queue!Write(i, hkey[h]) /\ Youngest(i)
      /\ keyOf' = [keyOf EXCEPT ![i] = hkey[h]]
      /\ UNCHANGED <<pc, hand, server, applied, rows>>
  BY <1>0, EnqueueWrites DEF Queue!Write, Queue!dbVars, SetEnqueue, At, Newest
<1>2. r \in Queue!Request /\ r.id = i
  BY <1>0
<1>3. /\ \A n \in 1 .. Len(queue) : queue[n].id < i
      /\ \A w \in Workers : hand[w].id < i
      /\ \A s \in applied : s.id < i
      /\ \A k \in Keys : rows[k] < i
  BY <1>1, WriteNumbers DEF Youngest
<1>4. InHand'
  BY <1>1 DEF InHand, QueueOrder
<1>5. \A j \in WriteIds \ {i} : fate'[j] = fate[j] /\ keyOf'[j] = keyOf[j]
  BY <1>1, QueueTyped DEF Inv, Queue!Write, Queue!Enqueue, Queue!DropFull, Queue!PanicSend,
     Queue!Settle
<1>6. CASE queue' = queue /\ ~Accept(i)'
  <2>1. Behind'
    BY <1>1, <1>6 DEF QueueOrder, Behind
  <2>2. \A j \in WriteIds : OnItsWay(j) => OnItsWay(j)'
    BY <1>1, <1>6 DEF OnItsWay
  <2>3. Landed'
    BY <1>1, <1>5, <1>6, <2>2 DEF QueueOrder, Landed, Accept
  <2> QED BY <1>4, <2>1, <2>3 DEF QueueOrder
<1>7. CASE queue' = Append(queue, r)
  <2>1. /\ Len(queue') = Len(queue) + 1 /\ Len(queue) \in Nat
        /\ \A n \in 1 .. Len(queue) : queue'[n] = queue[n] /\ n \in 1 .. Len(queue')
        /\ queue'[Len(queue) + 1].id = i /\ Len(queue) + 1 \in 1 .. Len(queue')
    BY <1>2, <1>7, WriteNumbers, Queue!QueueSend
  <2>2. \A n \in 1 .. Len(queue') : n \in 1 .. Len(queue) \/ n = Len(queue) + 1
    BY <2>1
  <2>3. Behind'
    <3> SUFFICES ASSUME NEW n \in 1 .. Len(queue')
                 PROVE  /\ \A m \in 1 .. Len(queue') : m < n => queue'[m].id < queue'[n].id
                        /\ \A w \in Workers : hand[w].id < queue'[n].id
                        /\ \A s \in applied : s.id < queue'[n].id
                        /\ \A k \in Keys : rows[k] < queue'[n].id
      BY <1>1 DEF Behind
    <3>1. CASE n \in 1 .. Len(queue)
      <4>1. \A m \in 1 .. Len(queue') : m < n => m \in 1 .. Len(queue)
        BY <2>1, <3>1
      <4> QED BY <2>1, <3>1, <4>1 DEF QueueOrder, Behind
    <3>2. CASE n = Len(queue) + 1
      <4>1. \A m \in 1 .. Len(queue') : m < n => m \in 1 .. Len(queue)
        BY <2>1, <3>2
      <4> QED BY <1>3, <2>1, <3>2, <4>1
    <3> QED BY <2>2, <3>1, <3>2
  <2>4. ASSUME NEW j \in WriteIds, OnItsWay(j) PROVE OnItsWay(j)'
    BY <1>1, <2>1, <2>4 DEF OnItsWay
  <2>5. OnItsWay(i)'
    BY <2>1 DEF OnItsWay
  <2>6. Landed'
    BY <1>1, <1>5, <2>4, <2>5 DEF QueueOrder, Landed, Accept
  <2> QED BY <1>4, <2>3, <2>6 DEF QueueOrder
<1>8. (queue' = queue /\ ~Accept(i)') \/ queue' = Append(queue, r)
  <2>1. fate'[i] \in Queue!Refusals \/ queue' = Append(queue, r)
    BY <1>0, <1>1, QueueTyped DEF Inv, Queue!Write, Queue!Enqueue, Queue!DropFull,
       Queue!PanicSend, Queue!Settle, Queue!Refusals
  <2>2. queue' = queue \/ queue' = Append(queue, r)
    BY <1>0, <1>1 DEF Queue!Write, Queue!Enqueue, Queue!DropFull, Queue!PanicSend
  <2> QED BY <2>1, <2>2 DEF Accept
<1> QED BY <1>6, <1>7, <1>8
LEMMA SerialWorker ==
  ASSUME Serial, Inv, QueueOrder, NEW w \in Workers, Queue!WorkerStep(w)
  PROVE  QueueOrder'
<1>0. /\ keyOf' = keyOf /\ pc[w] # "backoff" /\ \A v \in Workers : v = w
      /\ pc \in [Workers -> {"idle", "setting", "backoff", "stopped"}]
      /\ hand \in [Workers -> Queue!Request \cup {Queue!NoRequest}]
      /\ fate \in [WriteIds -> Queue!Fates]
      /\ Queue!NoRequest.id = 0
  BY SameTypes DEF Serial, QueueOrder, InHand, Queue!WorkerStep, Queue!Dequeue, Queue!SetOk,
     Queue!SetErr, Queue!Requeue, Queue!Stop, Inv, QueueInv, Queue!TypeInv, Queue!TypeOK,
     Queue!NoRequest, Queue!NoWrite
<1>1. CASE Queue!Dequeue(w)
  <2>1. /\ queue # <<>> /\ queue' = Tail(queue) /\ server' = server \cup {Head(queue)}
        /\ pc[w] = "idle" /\ pc'[w] = "setting" /\ hand'[w] = Head(queue)
        /\ UNCHANGED <<fate, applied, rows>>
    BY <1>0, <1>1 DEF Queue!Dequeue, Queue!Goto
  <2>2. /\ Head(queue) = queue[1] /\ Len(queue) \in Nat \ {0} /\ Len(queue') = Len(queue) - 1
        /\ \A n \in 1 .. Len(queue') : queue'[n] = queue[n + 1] /\ n + 1 \in 1 .. Len(queue)
        /\ 1 \in 1 .. Len(queue)
    BY <2>1, WriteNumbers, Queue!QueueReceive
  <2>3. server = {}
    BY <1>0, <2>1 DEF QueueOrder, InHand
  <2>4. \A n \in 1 .. Len(queue') : queue[1].id < queue'[n].id
    BY <2>2 DEF QueueOrder, Behind
  <2>5. Behind'
    <3>1. \A n \in 1 .. Len(queue'), m \in 1 .. Len(queue') :
            m < n => queue'[m].id < queue'[n].id
      BY <2>2 DEF QueueOrder, Behind
    <3> QED BY <1>0, <2>1, <2>2, <2>4, <3>1 DEF QueueOrder, Behind
  <2>6. InHand'
    <3>1. Head(queue) \notin applied
      BY <2>2, WriteNumbers DEF QueueOrder, Behind
    <3>2. \A k \in Keys : rows[k] <= queue[1].id
      BY <2>2, WriteNumbers DEF QueueOrder, Behind
    <3> QED BY <1>0, <2>1, <2>2, <2>3, <3>1, <3>2 DEF InHand
  <2>7. ASSUME NEW j \in WriteIds, OnItsWay(j) PROVE OnItsWay(j)'
    <3>1. CASE \E s \in server : s.id = j
      BY <2>3, <3>1
    <3>2. ASSUME NEW n \in 1 .. Len(queue), queue[n].id = j PROVE OnItsWay(j)'
      <4>1. CASE n = 1
        BY <2>1, <2>2, <3>2, <4>1 DEF OnItsWay
      <4>2. CASE n # 1
        <5>1. n - 1 \in 1 .. Len(queue') /\ (n - 1) + 1 = n
          BY <2>2, <4>2
        <5>2. queue'[n - 1].id = j
          BY <2>2, <3>2, <5>1
        <5> QED BY <5>1, <5>2 DEF OnItsWay
      <4> QED BY <4>1, <4>2
    <3> QED BY <2>7, <3>1, <3>2 DEF OnItsWay
  <2>8. Landed'
    BY <1>0, <2>1, <2>7 DEF QueueOrder, Landed, Accept
  <2> QED BY <2>5, <2>6, <2>8 DEF QueueOrder
<1>2. CASE Queue!SetOk(w) \/ Queue!Stop(w)
  <2>1. /\ UNCHANGED <<queue, server, applied, rows>>
        /\ hand'[w].id = 0 /\ pc'[w] \in {"idle", "stopped"}
        /\ hand[w] \in applied \/ pc[w] = "idle"
    BY <1>0, <1>2 DEF Queue!SetOk, Queue!Stop, Queue!Goto, Queue!dbVars
  <2>2. server = {}
    BY <1>0, <2>1 DEF QueueOrder, InHand
  <2>3. \A j \in WriteIds : Accept(j)' => Accept(j)
    <3>1. CASE Queue!SetOk(w)
      <4>1. /\ hand[w].id \in WriteIds /\ fate[hand[w].id] = "pending"
            /\ fate' = [fate EXCEPT ![hand[w].id] = "confirmed"]
        BY <1>0, <3>1, SameTypes, Queue!HeldIsPending
           DEF Queue!SetOk, Queue!Settle, Inv, QueueInv, Queue!TypeInv, Queue!HandsMatch
      <4> QED BY <1>0, <4>1 DEF Accept, Queue!Refusals
    <3>2. CASE Queue!Stop(w)
      BY <3>2 DEF Queue!Stop, Accept
    <3> QED BY <1>2, <3>1, <3>2
  <2>4. Behind'
    BY <1>0, <2>1, WriteNumbers DEF QueueOrder, Behind
  <2>5. InHand'
    BY <1>0, <2>1, <2>2 DEF InHand
  <2>6. Landed'
    BY <1>0, <2>1, <2>3 DEF QueueOrder, Landed, OnItsWay
  <2> QED BY <2>4, <2>5, <2>6 DEF QueueOrder
<1>3. ~Queue!SetErr(w) /\ ~Queue!Requeue(w)
  BY <1>0 DEF Serial, Queue!SetErr, Queue!Requeue
<1> QED BY <1>1, <1>2, <1>3 DEF Queue!WorkerStep

LEMMA SerialExecute ==
  ASSUME Serial, Inv, QueueOrder, NEW s \in server, Queue!Execute(s)
  PROVE  QueueOrder'
<1>1. /\ server' = server \ {s} /\ applied' = applied \cup {s}
      /\ rows' = [rows EXCEPT ![keyOf[s.id]] = s.id]
      /\ UNCHANGED <<keyOf, fate, queue, pc, hand>>
  BY DEF Queue!Execute, Queue!procVars
<1>2. /\ s.id \in WriteIds /\ s.id \in Nat /\ \A k \in Keys : rows[k] \in Nat
      /\ \A k \in Keys : rows'[k] = IF k = keyOf[s.id] THEN s.id ELSE rows[k]
  BY <1>1, WriteNumbers, QueueTyped DEF Inv
<1>3. PICK w \in Workers : pc[w] = "setting" /\ hand[w] = s /\ \A v \in Workers : v = w
  BY DEF Serial, QueueOrder, InHand
<1>4. \A k \in Keys : rows[k] <= s.id
  BY <1>3 DEF QueueOrder, InHand
<1>5. Behind'
  BY <1>1, <1>2, <1>3 DEF QueueOrder, Behind
<1>6. InHand'
  BY <1>1, <1>2, <1>3, <1>4 DEF QueueOrder, InHand
<1>7. Landed'
  <2> SUFFICES ASSUME NEW j \in WriteIds, Accept(j)
               PROVE  j <= rows'[keyOf[j]] \/ OnItsWay(j)'
    BY <1>1 DEF Landed, Accept
  <2>1. j \in Nat /\ keyOf[j] \in Keys
    BY WriteNumbers, SameTypes DEF Inv, RowsOK, Queue!KnownKeys, Accept
  <2>2. CASE j <= rows[keyOf[j]]
    BY <1>2, <1>4, <2>1, <2>2
  <2>3. CASE OnItsWay(j) /\ j # s.id
    BY <1>1, <2>3 DEF OnItsWay
  <2>4. CASE j = s.id
    BY <1>2, <2>1, <2>4
  <2> QED BY <2>2, <2>3, <2>4 DEF QueueOrder, Landed
<1> QED BY <1>5, <1>6, <1>7 DEF QueueOrder
\* Once the process has ended it stays ended, and only Shutdown, and steps that
\* do not concern it, leave the queue as it was.
LEMMA SerialSteps ==
  ASSUME Serial, Inv, [Next]_vars
  PROVE  \/ exited'
         \/ ~exited /\ \E h \in Handlers : SetEnqueue(h)
         \/ ~exited /\ \E w \in Workers : Queue!WorkerStep(w)
         \/ ~exited /\ \E s \in server : Queue!Execute(s)
         \/ /\ ~exited
            /\ UNCHANGED <<keyOf, fate, queue, pc, hand, server, applied, rows>>
<1>1. CASE \E h \in Handlers : SetEnqueue(h)
  BY <1>1 DEF SetEnqueue, At
<1>2. CASE \E d \in DeleteIds : DeleteRow(d)
  BY <1>2 DEF Serial, DeleteIds
<1>3. CASE UNCHANGED awVars
  BY <1>3 DEF awVars
<1>4. CASE Background
  <2>1. CASE \E w \in Workers : AW!WorkerStep(w)
    BY <1>4, <2>1, SameWorker DEF Queue!WorkerStep, Queue!Dequeue,
       Queue!SetOk, Queue!SetErr, Queue!Requeue, Queue!Stop
  <2>2. CASE AW!Database
    <3>1. PICK s \in server : Queue!Execute(s)
      BY <2>2, SameLife DEF Serial, Queue!Database, Queue!Reject
    <3> QED BY <3>1 DEF Queue!Execute, Queue!procVars
  <2>3. CASE AW!Shutdown
    BY <2>3 DEF AW!Shutdown, AW!dbVars
  <2>4. ~AW!Restart
    BY DEF Serial, AW!Restart
  <2> QED BY <1>4, <2>1, <2>2, <2>3, <2>4 DEF Background
<1>5. CASE End
  BY <1>5 DEF End, AW!Ending, AW!RequeuePanic, AW!ShutdownAgain, AW!Kill, AW!Exit
<1> QED BY <1>1, <1>2, <1>3, <1>4, <1>5, QueueSteps

\* A Set is numbered after all that Redis took, and so after all that was queued.
LEMMA NewestKept ==
  ASSUME Serial, Inv, Newest, [Next]_vars
  PROVE  Newest'
<1> SUFFICES ASSUME NEW g \in Handlers, hpc'[g] = "enqueue"
             PROVE  Youngest(hval[g])'
  BY DEF Newest
<1>0. \A h \in Handlers : h = g
  BY DEF Serial
<1>1. ASSUME NEW i \in WriteIds, NEW k \in Keys, Set(g, i, k)
      PROVE  Youngest(hval[g])'
  <2>1. SetCached(g, i, k) /\ hval'[g] = i /\ fate' = fate
    BY <1>1, GotoFacts, ValueFacts
       DEF Set, SetCached, SetFailed, Answer, awVars, Inv
  <2>2. \A j \in WriteIds : fate[j] # "none" => setKey[j] # NoKey
    BY SameTypes DEF Inv, KeysAgree, RowsOK, Queue!KnownKeys
  <2>3. \A j \in WriteIds : fate[j] # "none" => j < i
    BY <1>1, <2>2 DEF Set, WriteIds
  <2> QED BY <2>1, <2>3 DEF Youngest
<1>2. CASE \A i \in WriteIds, k \in Keys : ~Set(g, i, k)
  <2>1. ~SetEnqueue(g)
    BY GotoFacts, ValueFacts DEF SetEnqueue, Answer, Inv
  <2>2. hpc'[g] = hpc[g] /\ hval'[g] = hval[g]
    <3>1. CASE \E h \in Handlers : Request(h)
      <4>1. ~GetNone(g) /\ ~Repopulate(g)
        BY GotoFacts, ValueFacts DEF GetNone, Repopulate, Answer, Inv
      <4>2. ~GetRow(g)
        BY GotoFacts, QueueTyped DEF GetRow, At, Inv, HandlersOK, ApiTyped
      <4>3. \A k \in Keys : ~GetMiss(g, k)
        BY GotoFacts, ValueFacts DEF GetMiss, Inv
      <4> QED BY <1>0, <1>2, <2>1, <3>1, <4>1, <4>2, <4>3 DEF Request, Delete
    <3>2. CASE End
      BY <3>2 DEF End
    <3> QED BY <3>1, <3>2 DEF Next, DeleteRow, DeleteLost, Evict, Background, apiVars, vars
  <2>3. \A j \in WriteIds : fate'[j] # "none" => fate[j] # "none"
    <3>1. \A h \in Handlers : ~SetEnqueue(h)
      BY <1>0, <2>1
    <3>2. keyOf' = keyOf
      BY <3>1, OnlyEnqueueNames
    <3> QED BY <3>2, QueueKept, ValueFacts DEF Queue!FateStep, Inv, KeysAgree
  <2> QED BY <2>2, <2>3 DEF Newest, Youngest
<1> QED BY <1>1, <1>2

LEMMA SerialInit == Init => SerialInv
<1> SUFFICES ASSUME Init PROVE Newest /\ QueueOrder
  BY DEF SerialInv
<1>1. /\ queue = <<>> /\ server = {} /\ fate = [i \in WriteIds |-> "none"]
      /\ \A w \in Workers : pc[w] = "idle"
      /\ \A h \in Handlers : hpc[h] = "free"
  BY SameTypes DEF Init, Queue!Init
<1>2. Len(queue) = 0
  BY <1>1, EmptySeq
<1> QED BY <1>1, <1>2 DEF Newest, QueueOrder, Behind, InHand, Landed, Accept

LEMMA SerialNext ==
  ASSUME Serial, Inv, SerialInv, [Next]_vars
  PROVE  SerialInv'
<1> SUFFICES ASSUME ~exited, ~exited' PROVE Newest' /\ QueueOrder'
  BY SerialSteps DEF SerialInv
<1>1. Newest /\ QueueOrder
  BY DEF SerialInv
<1>2. CASE UNCHANGED <<keyOf, fate, queue, pc, hand, server, applied, rows>>
  <2>1. Behind' /\ InHand'
    BY <1>1, <1>2 DEF QueueOrder, Behind, InHand
  <2>2. \A i \in WriteIds : (OnItsWay(i) => OnItsWay(i)') /\ (Accept(i)' => Accept(i))
    BY <1>2 DEF OnItsWay, Accept
  <2>3. Landed'
    BY <1>1, <1>2, <2>2 DEF QueueOrder, Landed
  <2> QED BY <1>2, <2>1, <2>3, NewestKept, <1>1 DEF QueueOrder
<1> QED BY <1>1, <1>2, NewestKept, SerialSteps, SerialWrite, SerialWorker, SerialExecute

\* As long as nothing can overtake a write, the row of a key holds, once nothing
\* is in flight, the newest value that was set on it and not turned away:
\* whatever Redis loses or fails to take, and however often the queue is full.
THEOREM RowsCatchUpInOrder == ASSUME Serial PROVE Spec => []RowsCatchUp
<1>1. Inv /\ SerialInv => RowsCatchUp
  <2> SUFFICES ASSUME Inv, SerialInv, Quiescent, NEW k \in Keys, NEW i \in WriteIds,
                      i \in Accepted(k)
               PROVE  i <= rows[k]
    BY DEF RowsCatchUp
  <2>1. Len(queue) = 0 /\ server = {} /\ Landed
    BY EmptySeq DEF Quiescent, SerialInv, QueueOrder
  <2>2. keyOf[i] = k /\ Accept(i)
    BY SameTypes DEF Accepted, Accept, Inv, KeysAgree
  <2> QED BY <2>1, <2>2 DEF Landed, OnItsWay
<1>2. Inv /\ SerialInv /\ [Next]_vars => SerialInv'
  BY SerialNext
<1> QED BY <1>1, <1>2, InvAlways, SerialInit, PTL DEF Spec

=============================================================================
