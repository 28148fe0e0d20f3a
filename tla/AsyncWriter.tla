---------------------------- MODULE AsyncWriter ----------------------------
(***************************************************************************)
(* The write-behind queue of a primary: internal/api/async_writer.go.      *)
(*                                                                         *)
(* API handlers call Write, which never blocks: the request goes to the    *)
(* tail of a bounded channel or is dropped.  Workers take requests from    *)
(* the head, run SetWithInstance with a 5 s deadline and put a failed      *)
(* request back at the tail, up to maxRetry times.  Shutdown closes the    *)
(* channel: the workers drain what is buffered, and every later send on    *)
(* it panics.                                                              *)
(*                                                                         *)
(* PostgreSQL is an environment: it executes a statement it was sent at    *)
(* any moment, or never; the worker that sent it may have stopped waiting. *)
(*                                                                         *)
(* A write is named by the number of its Write call, which stands for its  *)
(* Timestamp; its Key, Value and InstanceID never change and are given by  *)
(* that number.                                                            *)
(***************************************************************************)
EXTENDS Naturals, Sequences

CONSTANTS Keys,       \* <instance, key> pairs: the primary key of cache_entries
          NoKey,      \* not a key
          Workers,    \* worker goroutines
          Capacity,   \* capacity of the channel
          MaxRetry,   \* requeues a request is allowed
          MaxWrites,  \* bound: Write calls in a behaviour
          DBFaults,   \* may SetWithInstance fail or time out?
          Restarts    \* may the process be killed, and is it started again?

ASSUME KeysAssumption  == NoKey \notin Keys
ASSUME BoundAssumption == Capacity \in Nat \ {0} /\ MaxRetry \in Nat /\ MaxWrites \in Nat
ASSUME EnvAssumption   == DBFaults \in BOOLEAN /\ Restarts \in BOOLEAN

WriteIds == 1 .. MaxWrites
NoWrite  == 0

\* A WriteRequest, and also the statement a worker sends for it: the retry
\* count tells apart the attempts at one write.
Request   == [id : WriteIds, retries : 0 .. MaxRetry]
NoRequest == [id |-> NoWrite, retries |-> 0]

VARIABLES keyOf,      \* key of every Write call made so far
          fate,       \* what became of each write, by the label it is counted under
          queue,      \* aw.queue
          closed,     \* has aw.queue been closed?
          pc,         \* where each worker is in its loop
          hand,       \* the request each worker is processing
          exited,     \* has the process ended?
          server,     \* statements PostgreSQL was sent and has not yet executed
          applied,    \* statements PostgreSQL has executed
          rows        \* the write in the row of each key

procVars == <<queue, closed, pc, hand, exited>>
dbVars   == <<server, applied, rows>>
vars     == <<keyOf, fate, procVars, dbVars>>

\* The reasons a write that was accepted never gets its confirmation.
Losses   == {"requeue_failed", "max_retries_exceeded", "exit", "killed"}
Refusals == {"queue_full", "panicked"}
Fates    == {"none", "pending", "confirmed"} \cup Losses \cup Refusals

Init == /\ keyOf   = [i \in WriteIds |-> NoKey]
        /\ fate    = [i \in WriteIds |-> "none"]
        /\ queue   = <<>>
        /\ closed  = FALSE
        /\ pc      = [w \in Workers |-> "idle"]
        /\ hand    = [w \in Workers |-> NoRequest]
        /\ exited  = FALSE
        /\ server  = {}
        /\ applied = {}
        /\ rows    = [k \in Keys |-> NoWrite]

Settle(i, f) == fate' = [fate EXCEPT ![i] = f]

\* Mutant of Full: one request too many is queued.
Full_OffByOne == Len(queue) > Capacity
Full         == Len(queue) >= Capacity

-----------------------------------------------------------------------------
(* Write                                                                   *)

Enqueue(i) == /\ ~closed /\ ~Full
              /\ queue' = Append(queue, [id |-> i, retries |-> 0])
              /\ Settle(i, "pending")

\* Mutant of DropFull: the select has no default branch.
DropFull_Blocks(i) == FALSE

\* Mutant of DropFull: it makes room by dropping the oldest request, and
\* counts the newest.
DropFull_Oldest(i) == /\ ~closed /\ Full
                      /\ queue' = Append(Tail(queue), [id |-> i, retries |-> 0])
                      /\ Settle(i, "queue_full")

\* The select's default branch; the handler goes on as if it had succeeded.
DropFull(i) == /\ ~closed /\ Full
               /\ Settle(i, "queue_full")
               /\ UNCHANGED queue

\* A send on a closed channel panics, default branch or not; the panic is
\* recovered by the API's middleware, outside this component.
PanicSend(i) == /\ closed
                /\ Settle(i, "panicked")
                /\ UNCHANGED queue

Write(i, k) == /\ ~exited
               /\ fate[i] = "none"
               /\ keyOf' = [keyOf EXCEPT ![i] = k]
               /\ Enqueue(i) \/ DropFull(i) \/ PanicSend(i)
               /\ UNCHANGED <<closed, pc, hand, exited, dbVars>>

-----------------------------------------------------------------------------
(* The loop of a worker                                                    *)

\* Mutant of Goto: a worker keeps the request it has finished with.
Goto_KeepsRequest(w, l, req) ==
  /\ pc'   = [pc EXCEPT ![w] = l]
  /\ hand' = [hand EXCEPT ![w] = IF l = "idle" THEN @ ELSE req]

Goto(w, l, req) == /\ pc'   = [pc EXCEPT ![w] = l]
                   /\ hand' = [hand EXCEPT ![w] = req]

\* Receive the head of the channel and send its statement to PostgreSQL.
Dequeue(w) == /\ ~exited /\ pc[w] = "idle" /\ queue # <<>>
              /\ queue' = Tail(queue)
              /\ Goto(w, "setting", Head(queue))
              /\ server' = server \cup {Head(queue)}
              /\ UNCHANGED <<keyOf, fate, closed, exited, applied, rows>>

\* SetWithInstance returns nil: only after the statement was executed.
SetOk(w) == /\ ~exited /\ pc[w] = "setting"
            /\ hand[w] \in applied
            /\ Goto(w, "idle", NoRequest)
            /\ Settle(hand[w].id, "confirmed")
            /\ UNCHANGED <<keyOf, queue, closed, exited, dbVars>>

\* SetWithInstance returns an error, the deadline's included: the statement
\* may have been executed, may be executed later, or never.
\* Mutant of Backoff: Retries is not counted.
Backoff_ForgetsRetry(w) == /\ hand[w].retries < MaxRetry
                           /\ Goto(w, "backoff", hand[w])
                           /\ UNCHANGED fate

\* Mutant of Backoff: every failed attempt is counted as a lost write.
Backoff_CountsAsLost(w) == /\ hand[w].retries < MaxRetry
                           /\ Goto(w, "backoff", [hand[w] EXCEPT !.retries = @ + 1])
                           /\ Settle(hand[w].id, "max_retries_exceeded")

Backoff(w) == /\ hand[w].retries < MaxRetry
              /\ Goto(w, "backoff", [hand[w] EXCEPT !.retries = @ + 1])
              /\ UNCHANGED fate

\* Mutant of GiveUp: the loss is not counted.
GiveUp_Silently(w) == /\ hand[w].retries >= MaxRetry
                      /\ Goto(w, "idle", NoRequest)
                      /\ UNCHANGED fate

\* Mutant of GiveUp: the last error is taken for success.
GiveUp_CountsAsDone(w) == /\ hand[w].retries >= MaxRetry
                          /\ Goto(w, "idle", NoRequest)
                          /\ Settle(hand[w].id, "confirmed")

GiveUp(w) == /\ hand[w].retries >= MaxRetry
             /\ Goto(w, "idle", NoRequest)
             /\ Settle(hand[w].id, "max_retries_exceeded")

SetErr(w) == /\ DBFaults /\ ~exited /\ pc[w] = "setting"
             /\ Backoff(w) \/ GiveUp(w)
             /\ UNCHANGED <<keyOf, queue, closed, exited, dbVars>>

\* Sleep is over: back to the tail of the channel, or dropped.
Requeue(w) == /\ ~exited /\ pc[w] = "backoff" /\ ~closed
              /\ IF Full
                   THEN Settle(hand[w].id, "requeue_failed") /\ UNCHANGED queue
                   ELSE queue' = Append(queue, hand[w]) /\ UNCHANGED fate
              /\ Goto(w, "idle", NoRequest)
              /\ UNCHANGED <<keyOf, closed, exited, dbVars>>

\* Mutant of Stop: Shutdown sets a flag, which a worker that waits for a
\* request does not look at.
Stop_NotWoken(w) == FALSE

\* range ends once the channel is closed and drained.
Stop(w) == /\ ~exited /\ pc[w] = "idle" /\ closed /\ queue = <<>>
           /\ Goto(w, "stopped", NoRequest)
           /\ UNCHANGED <<keyOf, fate, queue, closed, exited, dbVars>>

-----------------------------------------------------------------------------
(* The end of the process, and its restart                                 *)

\* The process ends: every write that it owns ends with it.
Exit(reason) == /\ exited' = TRUE
                /\ queue'  = <<>>
                /\ pc'     = [w \in Workers |-> "stopped"]
                /\ hand'   = [w \in Workers |-> NoRequest]
                /\ fate'   = [i \in WriteIds |->
                                IF fate[i] = "pending" THEN reason ELSE fate[i]]
                /\ UNCHANGED <<keyOf, closed, dbVars>>

\* A worker has no recover: its send on the closed channel ends the process.
RequeuePanic(w) == /\ ~exited /\ pc[w] = "backoff" /\ closed
                   /\ Exit("exit")

\* main calls Shutdown on a signal, and again as its deferred call.
Shutdown == /\ ~exited /\ ~closed
            /\ closed' = TRUE
            /\ UNCHANGED <<keyOf, fate, queue, pc, hand, exited, dbVars>>

\* close of a closed channel panics.
ShutdownAgain == ~exited /\ closed /\ Exit("exit")

Kill == Restarts /\ ~exited /\ Exit("killed")

\* A new process: an empty channel, workers at the top of their loops.
Restart == /\ Restarts /\ exited
           /\ exited' = FALSE
           /\ closed' = FALSE
           /\ pc'     = [w \in Workers |-> "idle"]
           /\ UNCHANGED <<keyOf, fate, queue, hand, dbVars>>

-----------------------------------------------------------------------------
(* PostgreSQL: it outlives the process                                     *)

Execute(s) == /\ s \in server
              /\ server'  = server \ {s}
              /\ applied' = applied \cup {s}
              /\ rows'    = [rows EXCEPT ![keyOf[s.id]] = s.id]
              /\ UNCHANGED <<keyOf, fate, procVars>>

\* The statement is rejected, or the connection broke before it was run.
Reject(s) == /\ DBFaults /\ s \in server
             /\ server' = server \ {s}
             /\ UNCHANGED <<keyOf, fate, procVars, applied, rows>>

-----------------------------------------------------------------------------
WorkerStep(w) == \/ Dequeue(w) \/ SetOk(w) \/ SetErr(w)
                 \/ Requeue(w) \/ Stop(w)

\* The steps that end the process, and everything running in it.
Ending == \/ \E w \in Workers : RequeuePanic(w)
          \/ ShutdownAgain \/ Kill

Database == \E s \in server : Execute(s) \/ Reject(s)

\* The calls of Write are numbered in the order they are made.
Call == \E i \in WriteIds, k \in Keys :
          /\ \A j \in WriteIds : j < i => fate[j] # "none"
          /\ Write(i, k)

Next == \/ Call \/ Database
        \/ \E w \in Workers : WorkerStep(w)
        \/ Shutdown \/ Ending \/ Restart

Spec == Init /\ [][Next]_vars

(***************************************************************************)
(* Fairness.  A worker goroutine that can run does run; its call returns   *)
(* because of the deadline and its sleep ends.  PostgreSQL answers a       *)
(* statement or drops it, in the end.  Nothing makes a call of Write, a    *)
(* signal or a kill happen.                                                *)
(***************************************************************************)
Fairness == /\ \A w \in Workers : WF_vars(WorkerStep(w) \/ RequeuePanic(w))
            /\ WF_vars(Database)

FairSpec == Spec /\ Fairness

-----------------------------------------------------------------------------
(* Properties                                                              *)

\* Every variable keeps the values its Go type and the bounds allow; the
\* channel never holds more than its capacity.
TypeOK == /\ keyOf   \in [WriteIds -> Keys \cup {NoKey}]
          /\ fate    \in [WriteIds -> Fates]
          /\ queue   \in Seq(Request)
          /\ Len(queue) <= Capacity
          /\ closed  \in BOOLEAN
          /\ pc      \in [Workers -> {"idle", "setting", "backoff", "stopped"}]
          /\ hand    \in [Workers -> Request \cup {NoRequest}]
          /\ exited  \in BOOLEAN
          /\ server  \subseteq Request
          /\ applied \subseteq Request
          /\ rows    \in [Keys -> WriteIds \cup {NoWrite}]

Slots(i)  == {n \in 1 .. Len(queue) : queue[n].id = i}
Holders(i) == {w \in Workers : hand[w].id = i}

\* Conservation.  A write that was accepted and is not settled is in the
\* channel or in the hands of a worker, and a settled or refused write is in
\* neither: no path through Write and worker forgets a request without
\* counting it, and none goes on working on one it has given up.
PendingIsOwned ==
  \A i \in WriteIds : fate[i] = "pending" <=> Slots(i) # {} \/ Holders(i) # {}

\* A write is in one place only: requeueing never leaves it with two workers,
\* twice in the channel, or in both.
OwnedOnce ==
  \A i \in WriteIds :
    /\ \A m, n \in Slots(i) : m = n
    /\ \A v, w \in Holders(i) : v = w
    /\ Slots(i) = {} \/ Holders(i) = {}

\* A row holds a write to its own key that the queue had accepted: a write
\* that was dropped or panicked on arrival never reaches PostgreSQL.
RowsWereAccepted ==
  \A k \in Keys : rows[k] # NoWrite =>
    keyOf[rows[k]] = k /\ fate[rows[k]] \notin Refusals \cup {"none"}

\* The worker confirms a write only when PostgreSQL has executed one of its
\* attempts, so its key has a row, whatever timed out or died in between.
ConfirmedHasRow ==
  \A i \in WriteIds : fate[i] = "confirmed" =>
    (\E s \in applied : s.id = i) /\ rows[keyOf[i]] # NoWrite

\* An attempt is sent to PostgreSQL once: what a worker sends is never an
\* attempt that PostgreSQL already has or had.  With the bound on Retries it
\* limits every write to maxRetry + 1 executions.
AttemptSentOnce ==
  [][\A s \in server' \ server : s \notin applied']_vars

\* Shutdown "gracefully stops the async writer" (async_writer.go:142): the
\* end of the process that follows it loses no write that was accepted.
ShutdownLosesNothing == \A i \in WriteIds : fate[i] # "exit"

\* Every accepted write is settled: retries end, and a write sent back to
\* the tail is not overtaken for ever.
EventuallySettled ==
  \A i \in WriteIds : (fate[i] = "pending") ~> (fate[i] # "pending")

\* Once the channel is closed all workers leave their loops, or end with the
\* process: none is left asleep or waiting for a request.
ShutdownStopsWorkers == closed ~> \A w \in Workers : pc[w] = "stopped"

\* The promise of the write-behind path, and how the queue keeps it.
AbstractFate(i) == CASE fate[i] \in Losses   -> "lost"
                     [] fate[i] \in Refusals -> "refused"
                     [] OTHER                -> fate[i]

WB == INSTANCE WriteBehind WITH
        fate   <- [i \in WriteIds |-> AbstractFate(i)],
        landed <- {s.id : s \in applied}

\* Every step of the queue is a step of WriteBehind, or invisible to it.
WriteBehindSpec == WB!Spec
=============================================================================
