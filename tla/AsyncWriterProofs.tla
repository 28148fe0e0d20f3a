------------------------- MODULE AsyncWriterProofs -------------------------
(***************************************************************************)
(* Theorems about AsyncWriter, for any keys, workers and bounds, and the   *)
(* proof that it implements WriteBehind.                                   *)
(***************************************************************************)
EXTENDS AsyncWriter, TLAPS, SequenceTheorems

USE KeysAssumption, BoundAssumption, EnvAssumption

\* The channel keeps its type and its bound through a send and a receive.
LEMMA QueueSend ==
  ASSUME NEW q \in Seq(Request), NEW r \in Request
  PROVE  /\ Append(q, r) \in Seq(Request)
         /\ Len(Append(q, r)) = Len(q) + 1
         /\ \A n \in 1 .. Len(q) : Append(q, r)[n] = q[n]
         /\ Append(q, r)[Len(q) + 1] = r
  BY AppendProperties

LEMMA QueueReceive ==
  ASSUME NEW q \in Seq(Request), q # <<>>
  PROVE  /\ Head(q) \in Request /\ Head(q) = q[1]
         /\ Tail(q) \in Seq(Request)
         /\ Len(q) \in Nat \ {0}
         /\ Len(Tail(q)) = Len(q) - 1
         /\ \A n \in 1 .. Len(Tail(q)) : Tail(q)[n] = q[n + 1]
  BY HeadTailProperties, EmptySeq, LenProperties

-----------------------------------------------------------------------------
(* Type correctness.  A worker between two requests holds none, otherwise it *)
(* holds one, and an ended process owns no request: without these TypeOK is  *)
(* not inductive.                                                            *)

HandsMatch  == \A w \in Workers : hand[w] = NoRequest <=> pc[w] \in {"idle", "stopped"}
ExitedEmpty == exited => queue = <<>> /\ \A w \in Workers : hand[w] = NoRequest

TypeInv == TypeOK /\ HandsMatch /\ ExitedEmpty

LEMMA NoRequestFact == NoRequest \notin Request /\ NoRequest.id \notin WriteIds
  BY DEF NoRequest, Request, WriteIds, NoWrite

LEMMA TypeInit == Init => TypeInv
<1> SUFFICES ASSUME Init PROVE TypeInv
  OBVIOUS
<1>1. <<>> \in Seq(Request) /\ Len(<<>>) = 0
  BY EmptySeq
<1>2. queue \in Seq(Request) /\ Len(queue) <= Capacity
  BY <1>1 DEF Init
<1>3. /\ keyOf \in [WriteIds -> Keys \cup {NoKey}]
      /\ fate  \in [WriteIds -> Fates]
      /\ rows  \in [Keys -> WriteIds \cup {NoWrite}]
  BY DEF Init, Fates
<1>4. /\ pc   \in [Workers -> {"idle", "setting", "backoff", "stopped"}]
      /\ hand \in [Workers -> Request \cup {NoRequest}]
  BY DEF Init
<1>5. TypeOK
  BY <1>2, <1>3, <1>4 DEF Init, TypeOK
<1> QED BY <1>5 DEF Init, TypeInv, HandsMatch, ExitedEmpty

\* What an action of a worker assigns with Goto and Settle.
LEMMA GotoInv ==
  ASSUME TypeInv, NEW w \in Workers,
         NEW l \in {"idle", "setting", "backoff", "stopped"},
         NEW r \in Request \cup {NoRequest},
         r = NoRequest <=> l \in {"idle", "stopped"}, Goto(w, l, r)
  PROVE  /\ pc' \in [Workers -> {"idle", "setting", "backoff", "stopped"}]
         /\ hand' \in [Workers -> Request \cup {NoRequest}]
         /\ HandsMatch'
  BY DEF TypeInv, TypeOK, HandsMatch, Goto

LEMMA SettleType ==
  ASSUME TypeOK, NEW i, NEW f \in Fates, Settle(i, f)
  PROVE  fate' \in [WriteIds -> Fates]
  BY DEF TypeOK, Settle

LEMMA WriteType ==
  ASSUME TypeInv, NEW i \in WriteIds, NEW k \in Keys, Write(i, k)
  PROVE  TypeInv'
<1> USE DEF TypeInv
<1>1. fate' \in [WriteIds -> Fates]
  BY SettleType DEF Write, Enqueue, DropFull, PanicSend, Fates, Refusals
<1>2. queue' \in Seq(Request) /\ Len(queue') <= Capacity
  <2>1. CASE Enqueue(i)
    <3>1. [id |-> i, retries |-> 0] \in Request
      BY DEF Request
    <3> QED BY <2>1, <3>1, QueueSend, LenProperties DEF Enqueue, Full, TypeOK
  <2>2. CASE DropFull(i) \/ PanicSend(i)
    BY <2>2 DEF DropFull, PanicSend, TypeOK
  <2> QED BY <2>1, <2>2 DEF Write
<1>3. HandsMatch' /\ ExitedEmpty'
  BY DEF Write, HandsMatch, ExitedEmpty
<1> QED BY <1>1, <1>2, <1>3 DEF Write, TypeOK, dbVars

LEMMA WorkerType ==
  ASSUME TypeInv, NEW w \in Workers, WorkerStep(w)
  PROVE  TypeInv'
<1> USE DEF TypeInv
<1> hand[w] \in Request \cup {NoRequest}
  BY DEF TypeOK
<1>0. ~exited /\ ~exited' /\ ExitedEmpty'
  BY DEF WorkerStep, Dequeue, SetOk, SetErr, Requeue, Stop, ExitedEmpty
<1>1. CASE Dequeue(w)
  <2>1. Head(queue) \in Request /\ Tail(queue) \in Seq(Request)
        /\ Len(Tail(queue)) <= Capacity
    BY <1>1, QueueReceive DEF Dequeue, TypeOK
  <2>2. Head(queue) # NoRequest
    BY <2>1, NoRequestFact
  <2> QED BY <1>0, <1>1, <2>1, <2>2, GotoInv DEF Dequeue, TypeOK
<1>2. CASE SetOk(w)
  BY <1>0, <1>2, GotoInv, SettleType DEF SetOk, TypeOK, dbVars, Fates
<1>3. CASE SetErr(w)
  <2>1. hand[w] \in Request
    BY <1>3 DEF SetErr, HandsMatch
  <2>2. CASE Backoff(w)
    <3> DEFINE r == [hand[w] EXCEPT !.retries = @ + 1]
    <3>1. r \in Request
      BY <2>1, <2>2 DEF Backoff, Request
    <3>2. r # NoRequest
      BY <3>1, NoRequestFact
    <3> HIDE DEF r
    <3>3. Goto(w, "backoff", r)
      BY <2>2 DEF Backoff, r
    <3> QED BY <1>0, <1>3, <2>2, <3>1, <3>2, <3>3, GotoInv DEF SetErr, Backoff, TypeOK, dbVars
  <2>3. CASE GiveUp(w)
    BY <1>0, <1>3, <2>3, GotoInv, SettleType DEF SetErr, GiveUp, TypeOK, dbVars, Fates, Losses
  <2> QED BY <1>3, <2>2, <2>3 DEF SetErr
<1>4. CASE Requeue(w)
  <2>1. hand[w] \in Request
    BY <1>4 DEF Requeue, HandsMatch
  <2>2. queue' \in Seq(Request) /\ Len(queue') <= Capacity
    <3>1. CASE Full
      BY <1>4, <3>1 DEF Requeue, TypeOK
    <3>2. CASE ~Full
      <4>1. queue' = Append(queue, hand[w])
        BY <1>4, <3>2 DEF Requeue
      <4>2. Len(queue) < Capacity
        BY <3>2, LenProperties DEF Full, TypeOK
      <4> QED BY <2>1, <4>1, <4>2, QueueSend, LenProperties DEF TypeOK
    <3> QED BY <3>1, <3>2
  <2>3. fate' \in [WriteIds -> Fates]
    BY <1>4, SettleType DEF Requeue, TypeOK, Fates, Losses
  <2> QED BY <1>0, <1>4, <2>2, <2>3, GotoInv DEF Requeue, TypeOK, dbVars
<1>5. CASE Stop(w)
  BY <1>0, <1>5, GotoInv DEF Stop, TypeOK, dbVars
<1> QED BY <1>1, <1>2, <1>3, <1>4, <1>5 DEF WorkerStep

LEMMA ExitType ==
  ASSUME TypeInv, NEW reason \in Losses, Exit(reason)
  PROVE  TypeInv'
<1>1. <<>> \in Seq(Request) /\ Len(<<>>) = 0
  BY EmptySeq
<1>2. reason \in Fates
  BY DEF Fates
<1>3. TypeOK'
  BY <1>1, <1>2 DEF Exit, TypeInv, TypeOK, dbVars
<1> QED BY <1>3 DEF Exit, TypeInv, HandsMatch, ExitedEmpty

LEMMA LifeType ==
  ASSUME TypeInv, Shutdown \/ Ending \/ Restart
  PROVE  TypeInv'
<1>1. CASE Shutdown
  BY <1>1 DEF Shutdown, TypeInv, TypeOK, HandsMatch, ExitedEmpty, dbVars
<1>2. CASE Ending
  BY <1>2, ExitType DEF Ending, RequeuePanic, ShutdownAgain, Kill, Losses
<1>3. CASE Restart
  BY <1>3 DEF Restart, TypeInv, TypeOK, HandsMatch, ExitedEmpty, dbVars
<1> QED BY <1>1, <1>2, <1>3

LEMMA DatabaseType ==
  ASSUME TypeInv, Database
  PROVE  TypeInv'
<1> PICK s \in server : Execute(s) \/ Reject(s)
  BY DEF Database
<1>1. CASE Execute(s)
  <2>1. s.id \in WriteIds
    BY DEF TypeInv, TypeOK, Request
  <2>2. rows' \in [Keys -> WriteIds \cup {NoWrite}]
    BY <1>1, <2>1 DEF Execute, TypeInv, TypeOK
  <2> QED BY <1>1, <2>2 DEF Execute, TypeInv, TypeOK, HandsMatch, ExitedEmpty, procVars
<1>2. CASE Reject(s)
  BY <1>2 DEF Reject, TypeInv, TypeOK, HandsMatch, ExitedEmpty, procVars
<1> QED BY <1>1, <1>2

\* Whoever else writes or deletes rows disturbs nothing that the process owns.
LEMMA TypeRows ==
  ASSUME TypeInv, rows' \in [Keys -> WriteIds \cup {NoWrite}],
         UNCHANGED <<keyOf, fate, procVars, server, applied>>
  PROVE  TypeInv'
  BY DEF procVars, TypeInv, TypeOK, HandsMatch, ExitedEmpty

LEMMA TypeNext == TypeInv /\ [Next]_vars => TypeInv'
<1> SUFFICES ASSUME TypeInv, [Next]_vars PROVE TypeInv'
  OBVIOUS
<1>1. CASE Next
  BY <1>1, WriteType, WorkerType, LifeType, DatabaseType DEF Next, Call
<1>2. CASE UNCHANGED vars
  BY <1>2 DEF vars, procVars, dbVars, TypeInv, TypeOK, HandsMatch, ExitedEmpty
<1> QED BY <1>1, <1>2

\* Every reachable state has its types, and the channel its bound, for any
\* capacity, number of workers and retries.
THEOREM TypeCorrect == Spec => []TypeOK
<1>1. TypeInv => TypeOK
  BY DEF TypeInv
<1> QED BY <1>1, TypeInit, TypeNext, PTL DEF Spec

-----------------------------------------------------------------------------
(* Conservation of writes                                                   *)

SlotsIn(q, i) == {n \in 1 .. Len(q) : q[n].id = i}

LEMMA SlotsAfterSend ==
  ASSUME NEW q \in Seq(Request), NEW r \in Request, NEW i
  PROVE  SlotsIn(Append(q, r), i)
           = SlotsIn(q, i) \cup (IF r.id = i THEN {Len(q) + 1} ELSE {})
<1> DEFINE a == Append(q, r)
<1>1. /\ Len(q) \in Nat
      /\ Len(a) = Len(q) + 1
      /\ \A n \in 1 .. Len(q) : a[n] = q[n]
      /\ a[Len(q) + 1] = r
  BY QueueSend, LenProperties
<1> HIDE DEF a
<1>2. 1 .. Len(a) = (1 .. Len(q)) \cup {Len(q) + 1} /\ Len(q) + 1 \notin 1 .. Len(q)
  BY <1>1
<1>3. SlotsIn(a, i) = SlotsIn(q, i) \cup (IF r.id = i THEN {Len(q) + 1} ELSE {})
  BY <1>1, <1>2 DEF SlotsIn
<1> QED BY <1>3 DEF a

LEMMA SlotsAfterReceive ==
  ASSUME NEW q \in Seq(Request), q # <<>>, NEW i
  PROVE  /\ 1 \in SlotsIn(q, i) <=> Head(q).id = i
         /\ \A n \in SlotsIn(Tail(q), i) : n + 1 \in SlotsIn(q, i) /\ n + 1 # 1
         /\ \A n \in SlotsIn(q, i) : n # 1 => n - 1 \in SlotsIn(Tail(q), i)
<1> DEFINE t == Tail(q)
<1>1. /\ Len(q) \in Nat \ {0} /\ Len(t) = Len(q) - 1
      /\ Head(q) = q[1]
      /\ \A n \in 1 .. Len(t) : t[n] = q[n + 1]
  BY QueueReceive
<1> HIDE DEF t
<1>2. 1 \in SlotsIn(q, i) <=> Head(q).id = i
  BY <1>1 DEF SlotsIn
<1>3. \A n \in SlotsIn(t, i) : n + 1 \in SlotsIn(q, i) /\ n + 1 # 1
  BY <1>1 DEF SlotsIn
<1>4. \A n \in SlotsIn(q, i) : n # 1 => n - 1 \in SlotsIn(t, i)
  <2> SUFFICES ASSUME NEW n \in SlotsIn(q, i), n # 1
               PROVE  n - 1 \in SlotsIn(t, i)
    OBVIOUS
  <2>1. n \in 1 .. Len(q) /\ q[n].id = i
    BY DEF SlotsIn
  <2>2. n - 1 \in 1 .. Len(t) /\ (n - 1) + 1 = n
    BY <1>1, <2>1
  <2>3. t[n - 1] = q[n]
    BY <1>1, <2>2
  <2> QED BY <2>1, <2>2, <2>3 DEF SlotsIn
<1> QED BY <1>2, <1>3, <1>4 DEF t

LEMMA SlotsFact == \A i : Slots(i) = SlotsIn(queue, i) /\ Slots(i)' = SlotsIn(queue', i)
  BY DEF Slots, SlotsIn

LEMMA HoldersAfterGoto ==
  ASSUME TypeInv, NEW w \in Workers, NEW l, NEW r, Goto(w, l, r), NEW i
  PROVE  Holders(i)' = (Holders(i) \ {w}) \cup (IF r.id = i THEN {w} ELSE {})
<1>1. hand' = [hand EXCEPT ![w] = r] /\ hand \in [Workers -> Request \cup {NoRequest}]
  BY DEF Goto, TypeInv, TypeOK
<1>2. \A v \in Workers : hand'[v] = IF v = w THEN r ELSE hand[v]
  BY <1>1
<1> QED BY <1>2 DEF Holders

OwnInv == PendingIsOwned /\ OwnedOnce

\* A worker puts down the write it holds, with a verdict.
LEMMA FinishOwn ==
  ASSUME TypeInv, OwnInv, NEW w \in Workers, NEW f \in Fates \ {"pending"},
         hand[w] \in Request,
         Goto(w, "idle", NoRequest), Settle(hand[w].id, f), queue' = queue
  PROVE  OwnInv'
<1> DEFINE i == hand[w].id
<1>1. i \in WriteIds /\ w \in Holders(i)
  BY DEF Request, Holders
<1>2. Holders(i) = {w} /\ Slots(i) = {}
  BY <1>1 DEF OwnInv, OwnedOnce
<1>3. \A j \in WriteIds : Holders(j)' = Holders(j) \ {w}
  BY HoldersAfterGoto, NoRequestFact
<1>4. \A j \in WriteIds : Slots(j)' = Slots(j)
  BY SlotsFact
<1>5. \A j \in WriteIds : j # i => w \notin Holders(j)
  BY DEF Holders
<1>6. \A j \in WriteIds : fate'[j] = IF j = i THEN f ELSE fate[j]
  BY DEF Settle, TypeInv, TypeOK
<1> HIDE DEF i
<1>7. PendingIsOwned'
  BY <1>1, <1>2, <1>3, <1>4, <1>5, <1>6 DEF OwnInv, PendingIsOwned
<1>8. OwnedOnce'
  BY <1>3, <1>4 DEF OwnInv, OwnedOnce
<1> QED BY <1>7, <1>8 DEF OwnInv

LEMMA WriteOwn ==
  ASSUME TypeInv, OwnInv, NEW i \in WriteIds, NEW k \in Keys, Write(i, k)
  PROVE  OwnInv'
<1>1. fate[i] = "none" /\ Slots(i) = {} /\ Holders(i) = {}
  BY DEF Write, OwnInv, PendingIsOwned
<1>2. \A j \in WriteIds : Holders(j)' = Holders(j)
  BY DEF Write, Holders
<1>3. CASE Enqueue(i)
  <2> DEFINE r == [id |-> i, retries |-> 0]
  <2>1. r \in Request /\ r.id = i /\ queue \in Seq(Request) /\ queue' = Append(queue, r)
    BY <1>3 DEF Enqueue, Request, TypeInv, TypeOK
  <2> HIDE DEF r
  <2>2. \A j \in WriteIds : Slots(j)' = Slots(j) \cup (IF i = j THEN {Len(queue) + 1} ELSE {})
    BY <2>1, SlotsAfterSend, SlotsFact
  <2>3. \A j \in WriteIds : fate'[j] = IF j = i THEN "pending" ELSE fate[j]
    BY <1>3 DEF Enqueue, Settle, TypeInv, TypeOK
  <2>4. PendingIsOwned'
    BY <1>1, <1>2, <2>2, <2>3 DEF OwnInv, PendingIsOwned
  <2>5. OwnedOnce'
    BY <1>1, <1>2, <2>2 DEF OwnInv, OwnedOnce
  <2> QED BY <2>4, <2>5 DEF OwnInv
<1>4. CASE DropFull(i) \/ PanicSend(i)
  <2>1. queue' = queue /\ \E f \in Refusals : Settle(i, f)
    BY <1>4 DEF DropFull, PanicSend, Refusals
  <2>2. \A j \in WriteIds : Slots(j)' = Slots(j)
    BY <2>1, SlotsFact
  <2>3. \A j \in WriteIds : fate'[j] = "pending" <=> fate[j] = "pending"
    BY <1>1, <2>1 DEF Settle, TypeInv, TypeOK, Refusals
  <2> QED BY <1>2, <2>2, <2>3 DEF OwnInv, PendingIsOwned, OwnedOnce
<1> QED BY <1>3, <1>4 DEF Write

LEMMA DequeueOwn ==
  ASSUME TypeInv, OwnInv, NEW w \in Workers, Dequeue(w)
  PROVE  OwnInv'
<1> DEFINE r == Head(queue)
           i == r.id
<1>1. queue \in Seq(Request) /\ queue # <<>> /\ queue' = Tail(queue) /\ fate' = fate
  BY DEF Dequeue, TypeInv, TypeOK
<1>2. i \in WriteIds /\ 1 \in Slots(i)
  BY <1>1, QueueReceive, SlotsAfterReceive, SlotsFact DEF Request
<1>3. Slots(i) = {1} /\ Holders(i) = {}
  BY <1>2 DEF OwnInv, OwnedOnce
<1>4. \A j \in WriteIds : Holders(j)' = IF j = i THEN {w} ELSE Holders(j)
  <2>1. \A j \in WriteIds : w \notin Holders(j)
    BY NoRequestFact DEF Dequeue, TypeInv, HandsMatch, Holders
  <2>2. Goto(w, "setting", r)
    BY DEF Dequeue
  <2>3. \A j : Holders(j)' = (Holders(j) \ {w}) \cup (IF i = j THEN {w} ELSE {})
    BY <2>2, HoldersAfterGoto
  <2> QED BY <1>3, <2>1, <2>3
<1>5. /\ \A j : 1 \in Slots(j) <=> i = j
      /\ \A j : \A n \in Slots(j)' : n + 1 \in Slots(j) /\ n + 1 # 1
      /\ \A j : \A n \in Slots(j) : n # 1 => n - 1 \in Slots(j)'
  BY <1>1, SlotsAfterReceive, SlotsFact
<1>6. \A j : Slots(j) \subseteq Int /\ Slots(j)' \subseteq Int
  BY DEF Slots
<1> HIDE DEF r, i
<1>7. \A j \in WriteIds : j = i => Slots(j)' = {}
  <2> SUFFICES ASSUME NEW j \in WriteIds, j = i, NEW n \in Slots(j)' PROVE FALSE
    OBVIOUS
  <2>1. n + 1 \in Slots(j) /\ n + 1 # 1
    BY <1>5
  <2> QED BY <1>3, <2>1
<1>8. \A j \in WriteIds : j # i => (Slots(j)' = {} <=> Slots(j) = {})
  BY <1>5, <1>6
<1>9. PendingIsOwned'
  <2> SUFFICES ASSUME NEW j \in WriteIds
               PROVE  fate'[j] = "pending" <=> Slots(j)' # {} \/ Holders(j)' # {}
    BY DEF PendingIsOwned
  <2>1. fate[j] = "pending" <=> Slots(j) # {} \/ Holders(j) # {}
    BY DEF OwnInv, PendingIsOwned
  <2>2. CASE j = i
    BY <1>1, <1>3, <1>4, <2>1, <2>2
  <2>3. CASE j # i
    BY <1>1, <1>4, <1>8, <2>1, <2>3
  <2> QED BY <2>2, <2>3
<1>10. OwnedOnce'
  <2> SUFFICES ASSUME NEW j \in WriteIds
               PROVE  /\ \A m, n \in Slots(j)' : m = n
                      /\ \A u, v \in Holders(j)' : u = v
                      /\ Slots(j)' = {} \/ Holders(j)' = {}
    BY DEF OwnedOnce
  <2>1. /\ \A m, n \in Slots(j) : m = n
        /\ \A u, v \in Holders(j) : u = v
        /\ Slots(j) = {} \/ Holders(j) = {}
    BY DEF OwnInv, OwnedOnce
  <2>2. \A m, n \in Slots(j)' : m = n
    <3> SUFFICES ASSUME NEW m \in Slots(j)', NEW n \in Slots(j)' PROVE m = n
      OBVIOUS
    <3>1. m + 1 \in Slots(j) /\ n + 1 \in Slots(j)
      BY <1>5
    <3>2. m + 1 = n + 1 /\ m \in Int /\ n \in Int
      BY <1>6, <2>1, <3>1
    <3> QED BY <3>2
  <2>3. CASE j = i
    BY <1>4, <1>7, <2>2, <2>3
  <2>4. CASE j # i
    BY <1>4, <1>8, <2>1, <2>2, <2>4
  <2> QED BY <2>3, <2>4
<1> QED BY <1>9, <1>10 DEF OwnInv

LEMMA RequeueOwn ==
  ASSUME TypeInv, OwnInv, NEW w \in Workers, Requeue(w)
  PROVE  OwnInv'
<1>1. hand[w] \in Request /\ Goto(w, "idle", NoRequest)
  BY DEF Requeue, TypeInv, TypeOK, HandsMatch
<1>2. CASE Full
  BY <1>1, <1>2, FinishOwn DEF Requeue, Fates, Losses
<1>3. CASE ~Full
  <2> DEFINE i == hand[w].id
  <2>1. queue \in Seq(Request) /\ queue' = Append(queue, hand[w]) /\ fate' = fate
    BY <1>3 DEF Requeue, TypeInv, TypeOK
  <2>2. i \in WriteIds /\ w \in Holders(i)
    BY <1>1 DEF Request, Holders
  <2>3. Holders(i) = {w} /\ Slots(i) = {}
    BY <2>2 DEF OwnInv, OwnedOnce
  <2>4. \A j \in WriteIds : Holders(j)' = IF j = i THEN {} ELSE Holders(j)
    <3>1. \A j \in WriteIds : Holders(j)' = Holders(j) \ {w}
      BY <1>1, HoldersAfterGoto, NoRequestFact
    <3>2. \A j \in WriteIds : j # i => w \notin Holders(j)
      BY DEF Holders
    <3> QED BY <2>3, <3>1, <3>2
  <2>5. \A j \in WriteIds : Slots(j)' = Slots(j) \cup (IF i = j THEN {Len(queue) + 1} ELSE {})
    BY <1>1, <2>1, SlotsAfterSend, SlotsFact
  <2> HIDE DEF i
  <2>6. PendingIsOwned'
    BY <2>1, <2>2, <2>3, <2>4, <2>5 DEF OwnInv, PendingIsOwned
  <2>7. OwnedOnce'
    BY <2>3, <2>4, <2>5 DEF OwnInv, OwnedOnce
  <2> QED BY <2>6, <2>7 DEF OwnInv
<1> QED BY <1>2, <1>3

\* A worker step that leaves the channel, the verdicts and what its hand is
\* about alone.
LEMMA SameOwn ==
  ASSUME OwnInv, queue' = queue, fate' = fate,
         \A j \in WriteIds : Holders(j)' = Holders(j)
  PROVE  OwnInv'
<1>1. \A j \in WriteIds : Slots(j)' = Slots(j)
  BY SlotsFact
<1> QED BY <1>1 DEF OwnInv, PendingIsOwned, OwnedOnce

LEMMA WorkerOwn ==
  ASSUME TypeInv, OwnInv, NEW w \in Workers, WorkerStep(w)
  PROVE  OwnInv'
<1>1. CASE Dequeue(w)
  BY <1>1, DequeueOwn
<1>2. CASE SetOk(w)
  <2>1. hand[w] \in Request
    BY <1>2 DEF SetOk, TypeInv, TypeOK
  <2> QED BY <1>2, <2>1, FinishOwn DEF SetOk, Fates
<1>3. CASE SetErr(w)
  <2>1. hand[w] \in Request
    BY <1>3 DEF SetErr, TypeInv, TypeOK, HandsMatch
  <2>2. CASE Backoff(w)
    <3> DEFINE r == [hand[w] EXCEPT !.retries = @ + 1]
    <3>1. r.id = hand[w].id /\ Goto(w, "backoff", r)
      BY <2>1, <2>2 DEF Backoff, Request
    <3> HIDE DEF r
    <3>2. \A j \in WriteIds : Holders(j)' = Holders(j)
      BY <3>1, HoldersAfterGoto DEF Holders
    <3> QED BY <1>3, <2>2, <3>2, SameOwn DEF SetErr, Backoff
  <2>3. CASE GiveUp(w)
    BY <1>3, <2>1, <2>3, FinishOwn DEF SetErr, GiveUp, Fates, Losses
  <2> QED BY <1>3, <2>2, <2>3 DEF SetErr
<1>4. CASE Requeue(w)
  BY <1>4, RequeueOwn
<1>5. CASE Stop(w)
  <2>1. hand[w] = NoRequest /\ Goto(w, "stopped", NoRequest)
    BY <1>5 DEF Stop, TypeInv, HandsMatch
  <2>2. \A j \in WriteIds : Holders(j)' = Holders(j)
    BY <2>1, HoldersAfterGoto, NoRequestFact DEF Holders
  <2> QED BY <1>5, <2>2, SameOwn DEF Stop
<1> QED BY <1>1, <1>2, <1>3, <1>4, <1>5 DEF WorkerStep

LEMMA ExitOwn ==
  ASSUME TypeInv, NEW reason \in Losses, Exit(reason)
  PROVE  OwnInv'
<1>1. \A j \in WriteIds : Holders(j)' = {}
  BY NoRequestFact DEF Exit, Holders
<1>2. \A j \in WriteIds : Slots(j)' = {}
  BY EmptySeq DEF Exit, Slots
<1>3. \A j \in WriteIds : fate'[j] # "pending"
  BY DEF Exit, Losses
<1> QED BY <1>1, <1>2, <1>3 DEF OwnInv, PendingIsOwned, OwnedOnce

LEMMA OwnNext == TypeInv /\ OwnInv /\ [Next]_vars => OwnInv'
<1> SUFFICES ASSUME TypeInv, OwnInv, [Next]_vars PROVE OwnInv'
  OBVIOUS
<1>1. CASE Call
  BY <1>1, WriteOwn DEF Call
<1>2. CASE \E w \in Workers : WorkerStep(w)
  BY <1>2, WorkerOwn
<1>3. CASE Ending
  BY <1>3, ExitOwn DEF Ending, RequeuePanic, ShutdownAgain, Kill, Losses
<1>4. CASE Database \/ Shutdown \/ Restart \/ UNCHANGED vars
  <2>1. queue' = queue /\ fate' = fate /\ hand' = hand
    BY <1>4 DEF Database, Execute, Reject, Shutdown, Restart, vars, procVars
  <2> QED BY <2>1, SameOwn DEF Holders
<1> QED BY <1>1, <1>2, <1>3, <1>4 DEF Next

LEMMA OwnInit == Init => OwnInv
<1> SUFFICES ASSUME Init PROVE OwnInv
  OBVIOUS
<1>1. \A j \in WriteIds : Slots(j) = {} /\ Holders(j) = {}
  BY EmptySeq, NoRequestFact DEF Init, Slots, Holders
<1> QED BY <1>1 DEF Init, OwnInv, PendingIsOwned, OwnedOnce

\* Through every path of Write, the workers, Shutdown and restarts an accepted
\* write that is not settled is in one place, and a settled one in none.
THEOREM WritesAreConserved == Spec => [](PendingIsOwned /\ OwnedOnce)
<1>1. OwnInv => PendingIsOwned /\ OwnedOnce
  BY DEF OwnInv
<1> QED BY <1>1, TypeInit, TypeNext, OwnInit, OwnNext, PTL DEF Spec

\* No retry, race of workers or restart puts a write in two places.
THEOREM OwnersAreUnique == Spec => []OwnedOnce
<1>1. PendingIsOwned /\ OwnedOnce => OwnedOnce
  OBVIOUS
<1> QED BY <1>1, WritesAreConserved, PTL

-----------------------------------------------------------------------------
(* Statements and rows                                                      *)

Sent == server \cup applied

\* How a step may change the verdict and the key of a write.
FateStep(i) ==
  \/ fate'[i] = fate[i] /\ keyOf'[i] = keyOf[i]
  \/ /\ fate[i] = "none" /\ fate'[i] \in {"pending"} \cup Refusals
     /\ keyOf'[i] \in Keys
  \/ /\ fate[i] = "pending" /\ fate'[i] \in Losses /\ keyOf'[i] = keyOf[i]
  \/ /\ fate[i] = "pending" /\ fate'[i] = "confirmed" /\ keyOf'[i] = keyOf[i]
     /\ \E s \in applied : s.id = i

\* The write a worker has in hand is pending: its verdict is still to come.
LEMMA HeldIsPending ==
  ASSUME TypeInv, OwnInv, NEW w \in Workers, hand[w] \in Request
  PROVE  hand[w].id \in WriteIds /\ fate[hand[w].id] = "pending"
  BY DEF OwnInv, PendingIsOwned, Holders, Request

LEMMA QueuedIsPending ==
  ASSUME TypeInv, OwnInv, queue # <<>>
  PROVE  /\ Head(queue) \in Request /\ Head(queue).id \in WriteIds
         /\ fate[Head(queue).id] = "pending"
<1>1. Head(queue) \in Request /\ Head(queue) = queue[1] /\ 1 \in 1 .. Len(queue)
  BY QueueReceive DEF TypeInv, TypeOK
<1>2. 1 \in Slots(Head(queue).id)
  BY <1>1 DEF Slots
<1> QED BY <1>1, <1>2 DEF OwnInv, PendingIsOwned, Request

LEMMA FateWrite ==
  ASSUME TypeOK, NEW j \in WriteIds, NEW k \in Keys, Write(j, k)
  PROVE  \A i \in WriteIds : FateStep(i)
<1>1. fate[j] = "none" /\ keyOf' = [keyOf EXCEPT ![j] = k]
  BY DEF Write
<1>2. \E f \in {"pending"} \cup Refusals : fate' = [fate EXCEPT ![j] = f]
  BY DEF Write, Enqueue, DropFull, PanicSend, Settle, Refusals
<1> QED BY <1>1, <1>2 DEF TypeOK, FateStep

LEMMA FateSteps ==
  ASSUME TypeInv, OwnInv, [Next]_vars
  PROVE  \A i \in WriteIds : FateStep(i)
<1> USE DEF FateStep
<1> fate \in [WriteIds -> Fates] /\ keyOf \in [WriteIds -> Keys \cup {NoKey}]
  BY DEF TypeInv, TypeOK
<1>1. CASE Call
  BY <1>1, FateWrite DEF Call, TypeInv
<1>2. ASSUME NEW w \in Workers, WorkerStep(w)
      PROVE  \A i \in WriteIds : FateStep(i)
  <2>0. keyOf' = keyOf
    BY <1>2 DEF WorkerStep, Dequeue, SetOk, SetErr, Requeue, Stop
  <2>1. CASE fate' = fate
    BY <2>0, <2>1
  <2>2. CASE SetOk(w)
    <3>1. hand[w] \in Request /\ hand[w] \in applied
      BY <2>2 DEF SetOk, TypeInv, TypeOK
    <3>2. fate' = [fate EXCEPT ![hand[w].id] = "confirmed"]
      BY <2>2 DEF SetOk, Settle
    <3> QED BY <2>0, <3>1, <3>2, HeldIsPending
  <2>3. CASE (SetErr(w) \/ Requeue(w)) /\ fate' # fate
    <3>1. hand[w] \in Request
      BY <2>3 DEF SetErr, Requeue, TypeInv, TypeOK, HandsMatch
    <3>2. \E f \in Losses : fate' = [fate EXCEPT ![hand[w].id] = f]
      BY <2>3 DEF SetErr, Backoff, GiveUp, Requeue, Settle, Losses
    <3> QED BY <2>0, <3>1, <3>2, HeldIsPending
  <2> QED BY <1>2, <2>1, <2>2, <2>3 DEF WorkerStep, Dequeue, Stop
<1>3. CASE Ending
  <2> PICK reason \in Losses : Exit(reason)
    BY <1>3 DEF Ending, RequeuePanic, ShutdownAgain, Kill, Losses
  <2> QED BY DEF Exit
<1>4. CASE Database \/ Shutdown \/ Restart \/ UNCHANGED vars
  BY <1>4 DEF Database, Execute, Reject, Shutdown, Restart, vars
<1> QED BY <1>1, <1>2, <1>3, <1>4 DEF Next

\* The steps that touch PostgreSQL: only Dequeue sends, only Execute writes.
LEMMA DatabaseSteps ==
  ASSUME TypeInv, [Next]_vars
  PROVE  \/ \E w \in Workers : Dequeue(w)
         \/ \E s \in server : Execute(s)
         \/ server' \subseteq server /\ applied' = applied /\ rows' = rows
<1>1. CASE Call
  BY <1>1 DEF Call, Write, dbVars
<1>2. CASE \E w \in Workers : WorkerStep(w)
  BY <1>2 DEF WorkerStep, SetOk, SetErr, Requeue, Stop, dbVars
<1>3. CASE Database
  BY <1>3 DEF Database, Reject
<1>4. CASE Shutdown \/ Restart \/ Ending \/ UNCHANGED vars
  BY <1>4 DEF Shutdown, Restart, Ending, RequeuePanic, ShutdownAgain, Kill, Exit, dbVars, vars
<1> QED BY <1>1, <1>2, <1>3, <1>4 DEF Next

KnownKeys        == \A i \in WriteIds : fate[i] # "none" => keyOf[i] \in Keys
SentAccepted     == \A s \in Sent : fate[s.id] \notin Refusals \cup {"none"}
RowsLanded       == \A k \in Keys : rows[k] # NoWrite =>
                      keyOf[rows[k]] = k /\ \E s \in applied : s.id = rows[k]
AppliedHasRow    == \A s \in applied : rows[keyOf[s.id]] # NoWrite
ConfirmedApplied == \A i \in WriteIds : fate[i] = "confirmed" =>
                      \E s \in applied : s.id = i

RowInv == KnownKeys /\ SentAccepted /\ RowsLanded /\ AppliedHasRow /\ ConfirmedApplied

LEMMA RowInit == Init => RowInv
  BY DEF Init, RowInv, KnownKeys, SentAccepted, Sent, RowsLanded, AppliedHasRow, ConfirmedApplied

LEMMA RowNext ==
  ASSUME TypeInv, OwnInv, RowInv, [Next]_vars
  PROVE  RowInv'
<1> DEFINE Live(f) == f \notin Refusals \cup {"none"}
<1>0. /\ \A s \in Sent : s \in Request /\ s.id \in WriteIds
      /\ rows \in [Keys -> WriteIds \cup {NoWrite}] /\ NoWrite \notin WriteIds
  BY DEF TypeInv, TypeOK, Sent, Request, NoWrite, WriteIds
<1>1. \A i \in WriteIds : FateStep(i)
  BY FateSteps
<1>2. \A i \in WriteIds : Live(fate[i]) => Live(fate'[i]) /\ keyOf'[i] = keyOf[i]
  BY <1>1 DEF FateStep, Losses, Refusals
<1>3. KnownKeys'
  BY <1>1 DEF FateStep, KnownKeys, RowInv
<1>4. \A s \in Sent : Live(fate[s.id])
  BY DEF RowInv, SentAccepted
<1>5. applied \subseteq applied'
  BY DatabaseSteps DEF Dequeue, Execute
<1>6. ConfirmedApplied'
  BY <1>1, <1>5 DEF FateStep, ConfirmedApplied, RowInv, Losses, Refusals
<1> HIDE DEF Live
<1>7. CASE \E w \in Workers : Dequeue(w)
  <2> PICK w \in Workers : Dequeue(w)
    BY <1>7
  <2>1. Sent' = Sent \cup {Head(queue)} /\ applied' = applied /\ rows' = rows
        /\ fate' = fate /\ keyOf' = keyOf
    BY DEF Dequeue, Sent
  <2>2. Live(fate[Head(queue).id])
    BY QueuedIsPending DEF Dequeue, Live, Refusals
  <2>3. SentAccepted'
    BY <1>4, <2>1, <2>2 DEF SentAccepted, Live
  <2> QED BY <1>3, <1>6, <2>1, <2>3 DEF RowInv, RowsLanded, AppliedHasRow
<1>8. CASE \E s \in server : Execute(s)
  <2> PICK s \in server : Execute(s)
    BY <1>8
  <2>1. s \in Sent /\ Sent' = Sent /\ applied' = applied \cup {s}
        /\ rows' = [rows EXCEPT ![keyOf[s.id]] = s.id] /\ fate' = fate /\ keyOf' = keyOf
    BY DEF Execute, Sent
  <2>2. keyOf[s.id] \in Keys /\ s.id # NoWrite
    BY <1>0, <1>4, <2>1 DEF Live, RowInv, KnownKeys
  <2>3. SentAccepted'
    BY <2>1 DEF SentAccepted, RowInv
  <2>4. RowsLanded'
    BY <1>0, <2>1, <2>2 DEF RowsLanded, RowInv
  <2>5. AppliedHasRow'
    BY <1>0, <2>1, <2>2 DEF AppliedHasRow, RowInv
  <2> QED BY <1>3, <1>6, <2>3, <2>4, <2>5 DEF RowInv
<1>9. CASE server' \subseteq server /\ applied' = applied /\ rows' = rows
  <2>1. SentAccepted'
    BY <1>0, <1>2, <1>4, <1>9 DEF SentAccepted, Sent, Live
  <2>2. \A s \in applied : keyOf'[s.id] = keyOf[s.id]
    BY <1>0, <1>2, <1>4 DEF Sent
  <2>3. RowsLanded' /\ AppliedHasRow'
    BY <1>9, <2>2 DEF RowsLanded, AppliedHasRow, RowInv
  <2> QED BY <1>3, <1>6, <2>1, <2>3 DEF RowInv
<1> QED BY <1>7, <1>8, <1>9, DatabaseSteps

SafetyInv == TypeInv /\ OwnInv /\ RowInv

LEMMA SafetyAlways == Spec => []SafetyInv
<1>1. Init => SafetyInv
  BY TypeInit, OwnInit, RowInit DEF SafetyInv
<1>2. SafetyInv /\ [Next]_vars => SafetyInv'
  BY TypeNext, OwnNext, RowNext DEF SafetyInv
<1> QED BY <1>1, <1>2, PTL DEF Spec

\* A row holds a write to its own key that the queue had accepted: a dropped
\* write never reaches PostgreSQL.
THEOREM RowsHoldAcceptedWrites == Spec => []RowsWereAccepted
<1>1. SafetyInv => RowsWereAccepted
  BY DEF SafetyInv, TypeInv, TypeOK, RowInv, RowsLanded, SentAccepted, Sent, RowsWereAccepted
<1> QED BY <1>1, SafetyAlways, PTL

\* Only a write that PostgreSQL has executed is ever confirmed, and then its
\* key has a row.
THEOREM ConfirmedWritesAreStored == Spec => []ConfirmedHasRow
<1>1. SafetyInv => ConfirmedHasRow
  BY DEF SafetyInv, RowInv, ConfirmedApplied, AppliedHasRow, ConfirmedHasRow
<1> QED BY <1>1, SafetyAlways, PTL

\* What has become of a write is decided once: a confirmation is not taken back,
\* and a write that was counted as lost or refused is never confirmed, even if a
\* statement of it lands later.
THEOREM VerdictsAreFinal ==
  Spec => [][\A i \in WriteIds : fate[i] \notin {"none", "pending"} =>
               fate'[i] = fate[i] /\ keyOf'[i] = keyOf[i]]_vars
<1>1. SafetyInv /\ [Next]_vars =>
        [\A i \in WriteIds : fate[i] \notin {"none", "pending"} =>
           fate'[i] = fate[i] /\ keyOf'[i] = keyOf[i]]_vars
  BY FateSteps DEF SafetyInv, FateStep
<1> QED BY <1>1, SafetyAlways, PTL DEF Spec

-----------------------------------------------------------------------------
(* Shutdown                                                                 *)

StoppedWorkers == {w \in Workers : pc[w] = "stopped"}
Drains == ~exited /\ StoppedWorkers # {} => closed /\ queue = <<>>

LEMMA DrainsNext == SafetyInv /\ Drains /\ [Next]_vars => Drains'
<1> SUFFICES ASSUME SafetyInv, Drains, [Next]_vars, ~exited', StoppedWorkers' # {}
             PROVE  closed' /\ queue' = <<>>
  BY DEF Drains
<1> USE DEF StoppedWorkers
<1>1. CASE Call
  BY <1>1 DEF Drains, Call, Write, Enqueue, DropFull, PanicSend
<1>2. ASSUME NEW w \in Workers, Stop(w) PROVE closed' /\ queue' = <<>>
  BY <1>2 DEF Stop
<1>3. ASSUME NEW w \in Workers, WorkerStep(w), ~Stop(w) PROVE closed' /\ queue' = <<>>
  <2>1. ~exited /\ closed' = closed
    BY <1>3 DEF WorkerStep, Dequeue, SetOk, SetErr, Requeue
  <2>2. \E l \in {"idle", "setting", "backoff"} : pc' = [pc EXCEPT ![w] = l]
    BY <1>3 DEF WorkerStep, Dequeue, SetOk, SetErr, Backoff, GiveUp, Requeue, Goto
  <2>3. StoppedWorkers # {}
    BY <2>2 DEF SafetyInv, TypeInv, TypeOK
  <2>4. closed /\ queue = <<>>
    BY <2>1, <2>3 DEF Drains
  <2> QED BY <1>3, <2>1, <2>4 DEF WorkerStep, Dequeue, SetOk, SetErr, Requeue
<1>4. CASE Ending
  BY <1>4 DEF Ending, RequeuePanic, ShutdownAgain, Kill, Exit
<1>5. CASE Shutdown \/ Restart
  BY <1>5 DEF Drains, Shutdown, Restart
<1>6. CASE Database \/ UNCHANGED vars
  BY <1>6 DEF Drains, Database, Execute, Reject, vars, procVars
<1> QED BY <1>1, <1>2, <1>3, <1>4, <1>5, <1>6 DEF Next

\* A shutdown that the process outlives loses nothing silently: once every
\* worker has left its loop, each accepted write is confirmed or was counted as
\* lost.  What a signal does lose it loses because the process ends before, by
\* the second close or a retry's send on the closed channel.
THEOREM StoppedIsSettled ==
  ASSUME Workers # {}
  PROVE  Spec => [](~exited /\ (\A w \in Workers : pc[w] = "stopped")
                      => \A i \in WriteIds : fate[i] # "pending")
<1>1. Init => Drains
  BY DEF Init, Drains, StoppedWorkers
<1>2. SafetyInv /\ Drains => (~exited /\ (\A w \in Workers : pc[w] = "stopped")
                                => \A i \in WriteIds : fate[i] # "pending")
  <2> SUFFICES ASSUME SafetyInv, Drains, ~exited, \A w \in Workers : pc[w] = "stopped",
                      NEW i \in WriteIds
               PROVE  fate[i] # "pending"
    OBVIOUS
  <2>1. queue = <<>> /\ \A w \in Workers : hand[w] = NoRequest
    BY DEF Drains, StoppedWorkers, SafetyInv, TypeInv, HandsMatch
  <2>2. Slots(i) = {} /\ Holders(i) = {}
    BY <2>1, EmptySeq, NoRequestFact DEF Slots, Holders
  <2> QED BY <2>2 DEF SafetyInv, OwnInv, PendingIsOwned
<1> QED BY <1>1, <1>2, DrainsNext, SafetyAlways, PTL DEF Spec

-----------------------------------------------------------------------------
(* Attempts.  A request that waits is a later attempt than all those of its *)
(* write that were sent; the one a worker is waiting for is the latest.     *)

QueuedLater == \A s \in Sent : \A n \in 1 .. Len(queue) :
                 queue[n].id = s.id => s.retries < queue[n].retries
HeldLatest  == \A s \in Sent : \A w \in Workers :
                 hand[w].id = s.id =>
                   IF pc[w] = "backoff" THEN s.retries < hand[w].retries
                                        ELSE s.retries <= hand[w].retries
AttemptInv  == QueuedLater /\ HeldLatest

\* What the lemmas below need to know besides.  Of the rows nothing, so that they
\* can be cited where rows are deleted.
SentInv == TypeInv /\ OwnInv /\ SentAccepted

LEMMA SentAlways == Spec => []SentInv
<1>1. SafetyInv => SentInv
  BY DEF SafetyInv, SentInv, RowInv
<1> QED BY <1>1, SafetyAlways, PTL

LEMMA AttemptInit == Init => AttemptInv
  BY DEF Init, AttemptInv, QueuedLater, HeldLatest, Sent

LEMMA SentFacts ==
  ASSUME SentInv
  PROVE  /\ \A s \in Sent : s \in Request /\ s.id \in WriteIds /\ s.retries \in Nat
         /\ \A s \in Sent : fate[s.id] # "none"
         /\ queue \in Seq(Request) /\ Len(queue) \in Nat
         /\ \A n \in 1 .. Len(queue) : queue[n].id \in WriteIds /\ queue[n].retries \in Nat
         /\ hand \in [Workers -> Request \cup {NoRequest}]
         /\ pc \in [Workers -> {"idle", "setting", "backoff", "stopped"}]
<1>1. queue \in Seq(Request) /\ Len(queue) \in Nat
  BY LenProperties DEF SentInv, TypeInv, TypeOK
<1>2. \A n \in 1 .. Len(queue) : queue[n] \in Request
  BY <1>1, ElementOfSeq
<1> QED BY <1>1, <1>2 DEF SentInv, TypeInv, TypeOK, SentAccepted, Sent, Request

\* Nothing is sent and no request moves: pc may change where no request is held.
LEMMA AttemptSame ==
  ASSUME SentInv, AttemptInv, Sent' \subseteq Sent, queue' = queue, hand' = hand,
         \A w \in Workers : hand[w] # NoRequest => pc'[w] = pc[w]
  PROVE  AttemptInv'
<1>1. QueuedLater'
  BY DEF AttemptInv, QueuedLater
<1>2. HeldLatest'
  <2> SUFFICES ASSUME NEW s \in Sent', NEW w \in Workers, hand[w].id = s.id
               PROVE  IF pc'[w] = "backoff" THEN s.retries < hand[w].retries
                                            ELSE s.retries <= hand[w].retries
    BY DEF HeldLatest
  <2>1. s.id \in WriteIds /\ hand[w] # NoRequest
    BY SentFacts, NoRequestFact
  <2> QED BY <2>1 DEF AttemptInv, HeldLatest
<1> QED BY <1>1, <1>2 DEF AttemptInv

\* A worker lets go of its request, which may go back to the queue.
LEMMA AttemptPutDown ==
  ASSUME SentInv, AttemptInv, NEW w \in Workers, NEW l \in {"idle", "stopped"},
         Goto(w, l, NoRequest), Sent' = Sent,
         \/ queue' = queue
         \/ pc[w] = "backoff" /\ queue' = Append(queue, hand[w]) /\ hand[w] \in Request
  PROVE  AttemptInv'
<1>1. QueuedLater'
  <2>1. CASE queue' = queue
    BY <2>1 DEF AttemptInv, QueuedLater
  <2>2. CASE pc[w] = "backoff" /\ queue' = Append(queue, hand[w]) /\ hand[w] \in Request
    <3>1. /\ Len(queue') = Len(queue) + 1 /\ queue'[Len(queue) + 1] = hand[w]
          /\ \A n \in 1 .. Len(queue) : queue'[n] = queue[n]
      BY <2>2, SentFacts, QueueSend
    <3>2. \A n \in 1 .. Len(queue') : n \in 1 .. Len(queue) \/ n = Len(queue) + 1
      BY <3>1, SentFacts
    <3> QED BY <2>2, <3>1, <3>2 DEF AttemptInv, QueuedLater, HeldLatest
  <2> QED BY <2>1, <2>2
<1>2. HeldLatest'
  BY SentFacts, NoRequestFact DEF Goto, AttemptInv, HeldLatest
<1> QED BY <1>1, <1>2 DEF AttemptInv

LEMMA AttemptWrite ==
  ASSUME SentInv, AttemptInv, NEW i \in WriteIds, NEW k \in Keys, Write(i, k)
  PROVE  AttemptInv'
<1>1. Sent' = Sent /\ hand' = hand /\ pc' = pc /\ fate[i] = "none"
  BY DEF Write, dbVars, Sent
<1>2. CASE Enqueue(i)
  <2> DEFINE r == [id |-> i, retries |-> 0]
  <2>1. r \in Request /\ r.id = i /\ queue' = Append(queue, r)
    BY <1>2 DEF Enqueue, Request
  <2> HIDE DEF r
  <2>2. /\ Len(queue') = Len(queue) + 1 /\ queue'[Len(queue) + 1] = r
        /\ \A n \in 1 .. Len(queue) : queue'[n] = queue[n]
    BY <2>1, SentFacts, QueueSend
  <2>3. \A n \in 1 .. Len(queue') : n \in 1 .. Len(queue) \/ n = Len(queue) + 1
    BY <2>2, SentFacts
  <2>4. \A s \in Sent : s.id # i
    BY <1>1, SentFacts
  <2>5. QueuedLater'
    BY <1>1, <2>1, <2>2, <2>3, <2>4 DEF AttemptInv, QueuedLater
  <2> QED BY <1>1, <2>5 DEF AttemptInv, HeldLatest
<1>3. CASE DropFull(i) \/ PanicSend(i)
  BY <1>1, <1>3, AttemptSame DEF DropFull, PanicSend
<1> QED BY <1>2, <1>3 DEF Write

LEMMA AttemptDequeue ==
  ASSUME SentInv, AttemptInv, NEW w \in Workers, Dequeue(w)
  PROVE  AttemptInv'
<1> DEFINE r == Head(queue)
<1>1. /\ r \in Request /\ r = queue[1]
      /\ Len(queue) \in Nat \ {0} /\ Len(queue') = Len(queue) - 1
      /\ \A n \in 1 .. Len(queue') : queue'[n] = queue[n + 1]
  BY SentFacts, QueueReceive DEF Dequeue
<1>2. Sent' = Sent \cup {r}
  BY DEF Dequeue, Sent
<1>3. r.id \in WriteIds /\ r.retries \in Nat
  BY <1>1 DEF Request
<1>4. pc' = [pc EXCEPT ![w] = "setting"] /\ hand' = [hand EXCEPT ![w] = r]
  BY DEF Dequeue, Goto
<1>5. \A n \in 1 .. Len(queue') : n + 1 \in 1 .. Len(queue) /\ n + 1 # 1
  BY <1>1
<1>6. \A n \in 1 .. Len(queue) : n # 1 => queue[n].id # r.id
  BY <1>1, <1>3 DEF SentInv, OwnInv, OwnedOnce, Slots
<1>7. \A v \in Workers : hand[v].id # r.id
  BY <1>1, <1>3 DEF SentInv, OwnInv, OwnedOnce, Slots, Holders
<1> HIDE DEF r
<1>8. QueuedLater'
  BY <1>1, <1>2, <1>5, <1>6 DEF AttemptInv, QueuedLater
<1>9. HeldLatest'
  <2> SUFFICES ASSUME NEW s \in Sent', NEW v \in Workers, hand'[v].id = s.id
               PROVE  IF pc'[v] = "backoff" THEN s.retries < hand'[v].retries
                                            ELSE s.retries <= hand'[v].retries
    BY DEF HeldLatest
  <2>1. CASE v = w
    <3>1. pc'[v] = "setting" /\ hand'[v] = r
      BY <1>4, <2>1, SentFacts
    <3>2. CASE s = r
      BY <1>3, <3>1, <3>2
    <3>3. CASE s \in Sent
      BY <1>1, <1>3, <3>1, <3>3, SentFacts DEF AttemptInv, QueuedLater
    <3> QED BY <1>2, <3>2, <3>3
  <2>2. CASE v # w
    <3>1. pc'[v] = pc[v] /\ hand'[v] = hand[v]
      BY <1>4, <2>2, SentFacts
    <3>2. s \in Sent
      BY <1>2, <1>7, <3>1
    <3> QED BY <3>1, <3>2 DEF AttemptInv, HeldLatest
  <2> QED BY <2>1, <2>2
<1> QED BY <1>8, <1>9 DEF AttemptInv

LEMMA AttemptBackoff ==
  ASSUME SentInv, AttemptInv, NEW w \in Workers, SetErr(w), Backoff(w)
  PROVE  AttemptInv'
<1> DEFINE r == [hand[w] EXCEPT !.retries = @ + 1]
<1>1. hand[w] \in Request /\ pc[w] = "setting"
  BY SentFacts DEF SetErr, SentInv, TypeInv, HandsMatch
<1>2. r.id = hand[w].id /\ r.retries = hand[w].retries + 1 /\ hand[w].retries \in Nat
  BY <1>1 DEF Request
<1>3. pc' = [pc EXCEPT ![w] = "backoff"] /\ hand' = [hand EXCEPT ![w] = r]
  BY DEF Backoff, Goto
<1>4. Sent' = Sent /\ queue' = queue
  BY DEF SetErr, dbVars, Sent
<1> HIDE DEF r
<1>5. QueuedLater'
  BY <1>4 DEF AttemptInv, QueuedLater
<1>6. HeldLatest'
  <2> SUFFICES ASSUME NEW s \in Sent, NEW v \in Workers, hand'[v].id = s.id
               PROVE  IF pc'[v] = "backoff" THEN s.retries < hand'[v].retries
                                            ELSE s.retries <= hand'[v].retries
    BY <1>4 DEF HeldLatest
  <2>1. CASE v = w
    <3>1. pc'[v] = "backoff" /\ hand'[v] = r
      BY <1>3, <2>1, SentFacts
    <3>2. s.retries <= hand[w].retries /\ s.retries \in Nat
      BY <1>1, <1>2, <2>1, <3>1, SentFacts DEF AttemptInv, HeldLatest
    <3> QED BY <1>2, <3>1, <3>2
  <2>2. CASE v # w
    <3>1. pc'[v] = pc[v] /\ hand'[v] = hand[v]
      BY <1>3, <2>2, SentFacts
    <3> QED BY <3>1 DEF AttemptInv, HeldLatest
  <2> QED BY <2>1, <2>2
<1> QED BY <1>5, <1>6 DEF AttemptInv

LEMMA AttemptWorker ==
  ASSUME SentInv, AttemptInv, NEW w \in Workers, WorkerStep(w)
  PROVE  AttemptInv'
<1>1. CASE Dequeue(w)
  BY <1>1, AttemptDequeue
<1>2. CASE SetErr(w) /\ Backoff(w)
  BY <1>2, AttemptBackoff
<1>3. CASE SetOk(w) \/ (SetErr(w) /\ GiveUp(w)) \/ Stop(w)
  <2>1. Sent' = Sent /\ queue' = queue
        /\ \E l \in {"idle", "stopped"} : Goto(w, l, NoRequest)
    BY <1>3 DEF SetOk, SetErr, GiveUp, Stop, dbVars, Sent
  <2> QED BY <2>1, AttemptPutDown
<1>4. CASE Requeue(w)
  <2>1. Sent' = Sent /\ Goto(w, "idle", NoRequest) /\ pc[w] = "backoff"
    BY <1>4 DEF Requeue, dbVars, Sent
  <2>2. hand[w] \in Request
    BY <2>1, SentFacts DEF SentInv, TypeInv, HandsMatch
  <2>3. queue' = queue \/ queue' = Append(queue, hand[w])
    BY <1>4 DEF Requeue
  <2> QED BY <2>1, <2>2, <2>3, AttemptPutDown
<1> QED BY <1>1, <1>2, <1>3, <1>4 DEF WorkerStep, SetErr

LEMMA AttemptNext ==
  ASSUME SentInv, AttemptInv, [Next]_vars
  PROVE  AttemptInv'
<1>1. CASE Call
  BY <1>1, AttemptWrite DEF Call
<1>2. CASE \E w \in Workers : WorkerStep(w)
  BY <1>2, AttemptWorker
<1>3. CASE Ending
  <2> PICK reason \in Losses : Exit(reason)
    BY <1>3 DEF Ending, RequeuePanic, ShutdownAgain, Kill, Losses
  <2>1. Sent' = Sent /\ queue' = <<>> /\ \A w \in Workers : hand'[w] = NoRequest
    BY DEF Exit, dbVars, Sent
  <2>2. QueuedLater'
    BY <2>1, EmptySeq DEF QueuedLater
  <2> QED BY <2>1, <2>2, SentFacts, NoRequestFact DEF AttemptInv, HeldLatest
<1>4. CASE Database \/ Shutdown \/ Restart \/ UNCHANGED vars
  <2>1. queue' = queue /\ hand' = hand /\ Sent' \subseteq Sent
    BY <1>4 DEF Database, Execute, Reject, Shutdown, Restart, vars, procVars, dbVars, Sent
  <2>2. \A w \in Workers : hand[w] # NoRequest => pc'[w] = pc[w]
    BY <1>4 DEF Database, Execute, Reject, Shutdown, Restart, vars, procVars,
                SentInv, TypeInv, ExitedEmpty
  <2> QED BY <2>1, <2>2, AttemptSame
<1> QED BY <1>1, <1>2, <1>3, <1>4 DEF Next

LEMMA SendsAreNew ==
  ASSUME SentInv, AttemptInv, NEW w \in Workers, Dequeue(w)
  PROVE  \A s \in server' \ server : s \notin applied'
<1> SUFFICES ASSUME NEW s \in server', s \notin server
             PROVE  s \notin applied'
  OBVIOUS
<1>1. s = Head(queue) /\ applied' = applied /\ s = queue[1] /\ 1 \in 1 .. Len(queue)
      /\ s \in Request
  BY SentFacts, QueueReceive DEF Dequeue
<1>2. s.retries \in Nat
  BY <1>1 DEF Request
<1> QED BY <1>1, <1>2 DEF AttemptInv, QueuedLater, Sent

\* What a worker sends is never an attempt PostgreSQL already has: no write is
\* executed more than MaxRetry + 1 times.
THEOREM AttemptsAreSentOnce == Spec => AttemptSentOnce
<1>1. SentInv /\ AttemptInv /\ [Next]_vars
        => [\A s \in server' \ server : s \notin applied']_vars
  BY DatabaseSteps, SendsAreNew DEF SentInv, Execute
<1>2. SentInv /\ AttemptInv /\ [Next]_vars => AttemptInv'
  BY AttemptNext
<1> QED BY <1>1, <1>2, SentAlways, AttemptInit, PTL DEF Spec, AttemptSentOnce

-----------------------------------------------------------------------------
(* Refinement                                                               *)

fateBar   == [i \in WriteIds |-> AbstractFate(i)]
landedBar == {s.id : s \in applied}

LEMMA RefinesInit == Init => WB!Init
  BY DEF Init, WB!Init, WB!WriteIds, WriteIds, WB!NoWrite, NoWrite, AbstractFate, Losses, Refusals

\* What the verdicts of AsyncWriter stand for.
LEMMA FateBarFacts ==
  /\ \A i \in WriteIds : fate[i] \in {"none", "pending", "confirmed"} => AbstractFate(i) = fate[i]
  /\ \A i \in WriteIds : fate[i] \in Losses => AbstractFate(i) = "lost"
  /\ \A i \in WriteIds : fate[i] \in Refusals => AbstractFate(i) = "refused"
  BY DEF AbstractFate, Losses, Refusals

LEMMA RefinesWrite ==
  ASSUME SentInv, NEW j \in WriteIds, NEW k \in Keys, Write(j, k)
  PROVE  WB!Next
<1>w. WB!WriteIds = WriteIds
  BY DEF WB!WriteIds, WriteIds
<1>t. fate \in [WriteIds -> Fates] /\ keyOf \in [WriteIds -> Keys \cup {NoKey}]
  BY DEF SentInv, TypeInv, TypeOK
<1>s. fateBar' = [i \in WriteIds |-> AbstractFate(i)']
  BY DEF fateBar
<1>1. /\ fate[j] = "none" /\ keyOf' = [keyOf EXCEPT ![j] = k]
      /\ rows' = rows /\ applied' = applied
  BY DEF Write, dbVars
<1>2. PICK f \in {"pending"} \cup Refusals : fate' = [fate EXCEPT ![j] = f]
  BY DEF Write, Enqueue, DropFull, PanicSend, Settle, Refusals
<1>3. \A i \in WriteIds : i # j => AbstractFate(i)' = AbstractFate(i)
  BY <1>t, <1>2 DEF AbstractFate
<1>4. AbstractFate(j)' \in {"pending", "refused"}
  BY <1>t, <1>2 DEF AbstractFate, Losses, Refusals
<1>5. AbstractFate(j) = "none"
  BY <1>1, FateBarFacts
<1>6. fateBar' = [fateBar EXCEPT ![j] = AbstractFate(j)']
  BY <1>3, <1>s DEF fateBar
<1>7. WB!Arrive(j, k)
  BY <1>1, <1>4, <1>5, <1>6 DEF WB!Arrive, fateBar
<1> QED BY <1>w, <1>7 DEF WB!Next

LEMMA RefinesNext ==
  ASSUME SentInv, [Next]_vars
  PROVE  [WB!Next]_(WB!vars)
<1>w. WB!WriteIds = WriteIds
  BY DEF WB!WriteIds, WriteIds
<1>t. fate \in [WriteIds -> Fates] /\ keyOf \in [WriteIds -> Keys \cup {NoKey}]
  BY DEF SentInv, TypeInv, TypeOK
<1>s. fateBar' = [i \in WriteIds |-> AbstractFate(i)']
  BY DEF fateBar
<1>1. CASE Call
  BY <1>1, RefinesWrite DEF Call
<1>2. ASSUME NEW w \in Workers, WorkerStep(w)
      PROVE  [WB!Next]_(WB!vars)
  <2>1. keyOf' = keyOf /\ rows' = rows /\ applied' = applied
    BY <1>2 DEF WorkerStep, Dequeue, SetOk, SetErr, Requeue, Stop, dbVars
  <2>2. CASE fate' = fate
    BY <2>1, <2>2 DEF WB!vars, AbstractFate
  <2>3. CASE SetOk(w)
    <3> DEFINE i == hand[w].id
    <3>1. hand[w] \in Request /\ hand[w] \in applied
      BY <2>3 DEF SetOk, SentInv, TypeInv, TypeOK
    <3>2. i \in WriteIds /\ fate[i] = "pending" /\ i \in landedBar
      BY <3>1, HeldIsPending DEF SentInv, landedBar
    <3>3. fate' = [fate EXCEPT ![i] = "confirmed"]
      BY <2>3 DEF SetOk, Settle
    <3> HIDE DEF i
    <3>4. \A j \in WriteIds : AbstractFate(j)' = IF j = i THEN "confirmed" ELSE AbstractFate(j)
      BY <1>t, <3>3 DEF AbstractFate, Losses, Refusals
    <3>5. fateBar' = [fateBar EXCEPT ![i] = "confirmed"] /\ fateBar[i] = "pending"
      BY <1>s, <3>2, <3>4, FateBarFacts DEF fateBar
    <3>6. WB!Confirm(i)
      BY <2>1, <3>2, <3>5 DEF WB!Confirm, fateBar, landedBar
    <3> QED BY <1>w, <3>2, <3>6 DEF WB!Next
  <2>4. CASE (SetErr(w) \/ Requeue(w)) /\ fate' # fate
    <3> DEFINE i == hand[w].id
    <3>1. hand[w] \in Request
      BY <2>4 DEF SetErr, Requeue, SentInv, TypeInv, TypeOK, HandsMatch
    <3>2. i \in WriteIds /\ fate[i] = "pending"
      BY <3>1, HeldIsPending DEF SentInv
    <3>3. PICK f \in Losses : fate' = [fate EXCEPT ![i] = f]
      BY <2>4 DEF SetErr, Backoff, GiveUp, Requeue, Settle, Losses
    <3> HIDE DEF i
    <3>4. \A j \in WriteIds : AbstractFate(j)' = IF j \in {i} THEN "lost" ELSE AbstractFate(j)
      BY <1>t, <3>3 DEF AbstractFate, Losses, Refusals
    <3>5. /\ fateBar' = [j \in WriteIds |-> IF j \in {i} THEN "lost" ELSE fateBar[j]]
          /\ fateBar[i] = "pending"
      BY <1>s, <3>2, <3>4, FateBarFacts DEF fateBar
    <3>6. WB!Lose({i})
      BY <1>w, <2>1, <3>5 DEF WB!Lose, fateBar, landedBar
    <3> QED BY <1>w, <3>2, <3>6 DEF WB!Next
  <2> QED BY <1>2, <2>2, <2>3, <2>4 DEF WorkerStep, Dequeue, Stop
<1>3. CASE Ending
  <2> PICK reason \in Losses : Exit(reason)
    BY <1>3 DEF Ending, RequeuePanic, ShutdownAgain, Kill, Losses
  <2> DEFINE S == {i \in WriteIds : fate[i] = "pending"}
  <2>1. /\ keyOf' = keyOf /\ rows' = rows /\ applied' = applied
        /\ fate' = [i \in WriteIds |-> IF i \in S THEN reason ELSE fate[i]]
    BY DEF Exit, dbVars
  <2>2. \A i \in S : AbstractFate(i) = "pending"
    BY FateBarFacts
  <2>3. \A j \in WriteIds : AbstractFate(j)' = IF j \in S THEN "lost" ELSE AbstractFate(j)
    BY <2>1 DEF AbstractFate, Losses, Refusals
  <2> HIDE DEF S
  <2>4. fateBar' = [j \in WriteIds |-> IF j \in S THEN "lost" ELSE fateBar[j]]
    BY <1>s, <2>3 DEF fateBar
  <2>5. S \in SUBSET WriteIds /\ \A i \in S : fateBar[i] = "pending"
    BY <2>2 DEF S, fateBar
  <2>6. WB!Lose(S)
    BY <1>w, <2>1, <2>4, <2>5 DEF WB!Lose, fateBar, landedBar
  <2> QED BY <1>w, <2>5, <2>6 DEF WB!Next
<1>4. CASE \E s \in server : Execute(s)
  <2> PICK s \in server : Execute(s)
    BY <1>4
  <2> DEFINE i == s.id
  <2>1. i \in WriteIds /\ fate[i] \in {"pending", "confirmed"} \cup Losses
    <3>1. s \in Sent
      BY DEF Sent
    <3> QED BY <1>t, <3>1, SentFacts DEF SentInv, SentAccepted, Fates
  <2>2. /\ keyOf' = keyOf /\ fate' = fate
        /\ applied' = applied \cup {s} /\ rows' = [rows EXCEPT ![keyOf[i]] = i]
    BY DEF Execute
  <2>3. landedBar' = landedBar \cup {i}
    BY <2>2 DEF landedBar
  <2>4. fateBar[i] \in {"pending", "confirmed", "lost"} /\ fateBar' = fateBar
    BY <1>s, <2>1, <2>2, FateBarFacts DEF fateBar, AbstractFate
  <2>5. WB!Land(i)
    BY <2>2, <2>3, <2>4 DEF WB!Land, fateBar, landedBar
  <2> QED BY <1>w, <2>1, <2>5 DEF WB!Next
<1>5. CASE (\E s \in server : Reject(s)) \/ Shutdown \/ Restart \/ UNCHANGED vars
  <2>1. keyOf' = keyOf /\ fate' = fate /\ applied' = applied /\ rows' = rows
    BY <1>5 DEF Reject, Shutdown, Restart, vars, dbVars
  <2> QED BY <2>1 DEF WB!vars, AbstractFate
<1> QED BY <1>1, <1>2, <1>3, <1>4, <1>5 DEF Next, Database

\* The queue keeps the promise of the write-behind path, for any capacity,
\* workers, retries and faults.
THEOREM ImplementsWriteBehind == Spec => WriteBehindSpec
<1> QED BY RefinesInit, RefinesNext, SentAlways, PTL DEF Spec, WriteBehindSpec, WB!Spec
=============================================================================
