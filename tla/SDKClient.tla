------------------------------ MODULE SDKClient ------------------------------
(***************************************************************************)
(* The SDK client: sdk/client.go over the two transports, sdk/native.go    *)
(* (circuit breaker around the retry loop of sdk/retry.go) and             *)
(* sdk/wasm.go (a retry loop of its own, no breaker).                      *)
(*                                                                         *)
(* A caller is a goroutine with one call at a time, or the goroutine of a  *)
(* GetMultiple that gets one key.  The breaker sees one Execute per call,  *)
(* however many attempts the retry loop makes inside it.                   *)
(*                                                                         *)
(* Exists, Delete and Ping go the way of Get (Exists and GetMultiple take a *)
(* 404 for an answer): only Set is answered in plain text.  With a breaker  *)
(* per endpoint, that is per method and path, the callers are those of one  *)
(* endpoint, Gets of one key; the others share nothing with them.           *)
(***************************************************************************)
EXTENDS Integers, FiniteSets

CONSTANTS Callers,
          FailureThreshold, SuccessThreshold, HalfOpenRequests,
          Ops,          \* operations the callers use
          Transports,   \* builds and configurations: see AllTransports
          MaxRetries,   \* Config.RetryConfig.MaxRetries
          LinearAttempts, ConstantAttempts,  \* Budget.MaxAttempts of a strategy
          Batches,      \* is GetMultiple used?
          MaxSent       \* bound: attempts of one call

AllOps == {"Set", "Get"}

\* native with one breaker or one per endpoint, native without and perhaps
\* with NoRetryStrategy ("once"), WebAssembly.
Guarded       == {"breaker", "perEndpoint"}
AllTransports == Guarded \cup {"plain", "once", "wasm"}

\* Config.Validate.
Retries == IF MaxRetries < 0 THEN 0 ELSE MaxRetries

ASSUME ThresholdsAssumption == /\ FailureThreshold \in Nat \ {0}
                               /\ SuccessThreshold \in Nat \ {0}
                               /\ HalfOpenRequests \in Nat \ {0}
ASSUME CallersAssumption == IsFiniteSet(Callers)
ASSUME RetriesAssumption ==
  {MaxRetries, LinearAttempts, ConstantAttempts} \subseteq Int /\ MaxSent \in Nat \ {0}
ASSUME OpsAssumption     == /\ Ops \subseteq AllOps /\ Transports \subseteq AllTransports
                            /\ Batches \in BOOLEAN

VARIABLES state, failures, successes, halfOpenRequests, elapsed, call,
          transport,
          made,      \* has the endpoint a breaker in perEndpointCircuitBreaker?
          closed,
          request,   \* what each caller is doing
          batch      \* the GetMultiple that is running

\* The breaker that the calls meet in, which cannot tell a sick service from a
\* call that fails for a reason of its own.
Breaker == INSTANCE CircuitBreaker
             WITH Resets <- FALSE, Panics <- FALSE, healthy <- FALSE

breakerVars == <<state, failures, successes, halfOpenRequests, elapsed, call>>
clientVars  == <<transport, made, closed>>
vars        == <<breakerVars, clientVars, request, batch>>

\* sent, served and doubt count the attempts of the call: those sent, those the
\* server carried out, and those whose answer does not tell.
Idle == [phase |-> "idle", op |-> "none", result |-> "none",
         sent |-> 0, served |-> 0, doubt |-> 0]

NoBatch == [members |-> {}, waiting |-> {}, found |-> {}, absent |-> {}, failed |-> FALSE]

Init == /\ Breaker!Init
        /\ transport \in Transports
        /\ made = FALSE /\ closed = FALSE
        /\ request = [c \in Callers |-> Idle]
        /\ batch = NoBatch

Goto(c, r)     == request' = [request EXCEPT ![c] = r]
At(c, phase)   == request[c].phase = phase
End(c, result) == Goto(c, [request[c] EXCEPT !.phase = "done", !.result = result])
Local          == UNCHANGED <<breakerVars, clientVars, batch>>

-----------------------------------------------------------------------------
(* client.go: a call begins                                                *)

Begun(op)       == [Idle EXCEPT !.op = op, !.phase = "begun"]
Unsent          == {"closed", "invalid"}
Ended(op, why)  == [Idle EXCEPT !.op = op, !.phase = "returned", !.result = why]

\* No request is made of an empty key, a nil destination or a value that JSON
\* cannot hold.
Invalid(op) == Ended(op, "invalid")

\* checkClosed, the arguments, then the transport; the goroutines of a
\* GetMultiple do the same.
Begin(c, op) ==
  /\ At(c, "idle")
  /\ c \in batch.members => c \in batch.waiting /\ op = "Get"
  /\ transport = "perEndpoint" => op = "Get"
  /\ IF closed THEN Goto(c, Ended(op, "closed"))
               ELSE Goto(c, Begun(op)) \/ Goto(c, Invalid(op))
  /\ Local

Close == /\ ~closed
         /\ closed' = TRUE
         /\ UNCHANGED <<breakerVars, transport, made, request, batch>>

-----------------------------------------------------------------------------
(* native.go: do                                                           *)

\* perEndpointCircuitBreaker.getOrCreate: nobody has made a breaker yet.
Missing(c) == /\ At(c, "begun")
              /\ transport = "perEndpoint" /\ ~made
              /\ Goto(c, [request[c] EXCEPT !.phase = "create"])
              /\ Local

\* Mutant of Create: no second look under the write lock.
Create_NoRecheck(c) == /\ At(c, "create")
                       /\ made' = TRUE
                       /\ state' = "Closed"
                       /\ failures' = 0 /\ successes' = 0 /\ halfOpenRequests' = 0
                       /\ elapsed' = TRUE
                       /\ call' = Breaker!Outdated(call)
                       /\ Goto(c, [request[c] EXCEPT !.phase = "begun"])
                       /\ UNCHANGED <<transport, closed, batch>>

\* Under the write lock: a breaker made meanwhile is used, else a new one, which
\* is what the variables of Breaker are to start with.
Create(c) == /\ At(c, "create")
             /\ made' = TRUE
             /\ Goto(c, [request[c] EXCEPT !.phase = "begun"])
             /\ UNCHANGED <<breakerVars, transport, closed, batch>>

Ready == transport = "perEndpoint" => made

Attempt(c) == [request[c] EXCEPT !.phase = "attempt", !.sent = @ + 1]

\* The breaker, where there is one, admits the call: its first attempt is sent.
Send(c) == /\ At(c, "begun") /\ Ready
           /\ IF transport \in Guarded THEN Breaker!Admit(c) ELSE UNCHANGED breakerVars
           /\ Goto(c, Attempt(c))
           /\ UNCHANGED <<clientVars, batch>>

\* ErrCircuitOpen: fn is not called and nothing is recorded.
Rejecting == \/ state = "Open" /\ ~elapsed
             \/ state = "HalfOpen" /\ halfOpenRequests >= HalfOpenRequests

\* Mutant of Reject: the call waits for the circuit to let it through.
Reject_Waits(c) == /\ At(c, "begun") /\ Ready
                   /\ transport \in Guarded /\ state = "HalfOpen" /\ Rejecting
                   /\ Goto(c, Ended(request[c].op, "open"))
                   /\ Local

Reject(c) == /\ At(c, "begun") /\ Ready
             /\ transport \in Guarded /\ Rejecting
             /\ Goto(c, Ended(request[c].op, "open"))
             /\ Local

-----------------------------------------------------------------------------
(* performHTTPRequest, fetch: one attempt                                  *)

\* "accepted" is any 2xx; "busy" a 5xx, 429 or 408; "lost" a network error, a
\* timeout of the HTTP client or a cut answer.
Answers == {"accepted", "notfound", "refused", "busy", "lost"}
Unclear == {"busy", "lost"}

\* Can the body of a 2xx be parsed as CacheResponse?  Handlers.Set answers 200
\* with SendStatus, whose body is the text "OK"; Get answers with the bytes of
\* the value as somebody stored them.
Parsed(op) == IF op = "Set" THEN {FALSE} ELSE BOOLEAN

\* wasm.go: fetch fails for any status but 2xx, and the loop retries all of it.
FetchFails(answer) == answer # "accepted"

\* The types that the error of such an attempt may have (ToError); an answer
\* that could not be read has none.
ErrorTypes == [accepted |-> {}, notfound |-> {"client"}, refused |-> {"client"},
               busy |-> {"server", "rate_limit", "timeout"}, lost |-> {"network"}]

IsRetryableType(type) == type \in {"network", "timeout", "server", "rate_limit"}

IsRetryable(answer) == \E type \in ErrorTypes[answer] : IsRetryableType(type)

\* Is the interval that a strategy names positive?  The default's is, as
\* Validate has seen to it; the others can be made with an Interval of 0.
Exponential == {TRUE}
Linear      == BOOLEAN
Constant    == BOOLEAN
NoRetry     == {FALSE}

\* Any strategy goes with any breaker: these pairs have every one of each.
Waits == [breaker |-> Exponential, perEndpoint |-> Linear, plain |-> Constant,
          once |-> NoRetry, wasm |-> Exponential]

\* Mutant of Retryable: any failed attempt is retried, but for NoRetryStrategy.
Retryable_Any(answer, parsed) ==
  transport # "once" /\ (answer # "accepted" \/ ~parsed)

\* ShouldRetry of the strategy.
Retryable(answer, parsed) ==
  CASE transport = "wasm" -> FetchFails(answer)
    [] transport = "once" -> FALSE
    [] OTHER              -> IsRetryable(answer)

\* What a call ends with whose last attempt was answered so.
Outcome(answer, parsed) ==
  IF answer = "accepted" THEN IF parsed THEN "ok" ELSE "garbled"
  ELSE IF answer = "notfound" THEN "notfound" ELSE "error"

\* A retryable error leaves the call between two attempts.
Answer(c, answer) ==
  /\ At(c, "attempt")
  /\ \E carried \in BOOLEAN, parsed \in Parsed(request[c].op) :
       /\ answer = "accepted" => carried
       /\ carried => answer \in Unclear \cup {"accepted"}
       /\ Goto(c, [request[c] EXCEPT
                     !.phase  = IF Retryable(answer, parsed) THEN "failed" ELSE "done",
                     !.result = Outcome(answer, parsed),
                     !.served = IF carried THEN @ + 1 ELSE @,
                     !.doubt  = IF answer \in Unclear THEN @ + 1 ELSE @])
  /\ Local

-----------------------------------------------------------------------------
(* retryExecutor.Execute, and the loop of wasm.go                          *)

\* MaxAttempts of the budget that the loop of each transport counts with: the
\* default strategy has MaxRetries + 1, which a strategy of the user replaces by
\* its own, and wasm.go counts to the same; NoRetryStrategy has one attempt.
Budget == [breaker |-> Retries + 1, perEndpoint |-> LinearAttempts,
           plain |-> ConstantAttempts, once |-> 1, wasm |-> Retries + 1]

ASSUME SentAssumption == \A t \in Transports : Budget[t] <= MaxSent

\* "Set to 0 for unlimited attempts" (retry.go:67).
Limited == Budget[transport] > 0

\* Mutant of Exhausted: one attempt too many.
Exhausted_OffByOne(c) == Limited /\ request[c].sent > Budget[transport]

\* IsExhausted(attempt+1): the attempts count the first one too.
Exhausted(c) == Limited /\ request[c].sent >= Budget[transport]

Retry(c) == /\ At(c, "failed") /\ ~Exhausted(c)
            /\ TRUE \in Waits[transport]
            /\ request[c].sent < MaxSent
            /\ Goto(c, [Attempt(c) EXCEPT !.result = "none"])
            /\ Local

\* Mutant of GiveUp: the loop is left for return nil.
GiveUp_NoError(c) == At(c, "failed") /\ Exhausted(c) /\ End(c, "ok") /\ Local

\* The last error is returned as it is: when the attempts are used up, when the
\* interval of a strategy is not positive, its MaxDuration is over or the error
\* not among its RetryableErrors.
GiveUp(c) == /\ At(c, "failed")
             /\ Exhausted(c) \/ FALSE \in Waits[transport]
             /\ End(c, request[c].result) /\ Local

\* The caller's context ended, before the wait for the next attempt or in it.
Cancel(c) == At(c, "failed") /\ End(c, "canceled") /\ Local

-----------------------------------------------------------------------------
(* The way back: breaker, observer, client                                 *)

\* recordResult: any error is a failure, a 404 or a cancelled call as well.
Record(c) ==
  /\ At(c, "done")
  /\ IF transport \in Guarded
       THEN IF request[c].result = "ok" THEN Breaker!Success(c) ELSE Breaker!Failure(c)
       ELSE UNCHANGED breakerVars
  /\ Goto(c, [request[c] EXCEPT !.phase = "returned"])
  /\ UNCHANGED <<clientVars, batch>>

IsNotFound(result) == result = "notfound"

\* Mutant of Collect: a Get that failed is taken for a missing key.
Collect_Swallows(c, result) ==
  [batch EXCEPT !.waiting = @ \ {c},
                !.found   = IF result = "ok" THEN @ \cup {c} ELSE @,
                !.absent  = IF result = "notfound" THEN @ \cup {c} ELSE @]

\* A goroutine of GetMultiple ends: its value, its missing key or its error.
Collect(c, result) ==
  [batch EXCEPT !.waiting = @ \ {c},
                !.found   = IF result = "ok" THEN @ \cup {c} ELSE @,
                !.absent  = IF IsNotFound(result) THEN @ \cup {c} ELSE @,
                !.failed  = @ \/ ~(result = "ok" \/ IsNotFound(result))]

\* client.Get after its transport: the value may be missing from the answer, or
\* not fit the caller's destination.
Deserialized(c) == IF request[c].result = "ok" THEN {"ok", "garbled"} ELSE {request[c].result}

\* observedCircuitBreaker reads the state after every Execute, which may move
\* it; then the client returns what it was given.
Return(c) ==
  /\ At(c, "returned")
  /\ IF transport = "breaker" /\ request[c].result \notin Unsent /\ Breaker!TimedOut
       THEN Breaker!State
       ELSE UNCHANGED breakerVars
  /\ \E result \in Deserialized(c) :
       batch' = IF c \in batch.waiting THEN Collect(c, result) ELSE batch
  /\ Goto(c, Idle)
  /\ UNCHANGED clientVars

\* GetMultiple: one goroutine per key, and nil results after any error.
GetMultiple(keys) ==
  /\ Batches /\ ~closed
  /\ batch = NoBatch /\ keys # {}
  /\ transport = "perEndpoint" => Cardinality(keys) = 1
  /\ \A c \in keys : At(c, "idle")
  /\ batch' = [NoBatch EXCEPT !.members = keys, !.waiting = keys]
  /\ UNCHANGED <<breakerVars, clientVars, request>>

\* TypedClient.GetMultiple: a value that was found does not fit the type.
Convert == /\ batch.waiting = {} /\ ~batch.failed
           /\ \E c \in batch.found : batch' = [batch EXCEPT !.found = @ \ {c}, !.failed = TRUE]
           /\ UNCHANGED <<breakerVars, clientVars, request>>

Finish == /\ batch # NoBatch /\ batch.waiting = {}
          /\ batch' = NoBatch
          /\ UNCHANGED <<breakerVars, clientVars, request>>

Elapse == Breaker!Elapse /\ UNCHANGED <<clientVars, request, batch>>

-----------------------------------------------------------------------------
Step(c) == \/ Missing(c) \/ Create(c) \/ Send(c) \/ Reject(c)
           \/ \E answer \in Answers : Answer(c, answer)
           \/ Retry(c) \/ GiveUp(c) \/ Record(c) \/ Return(c)

Next == \/ \E c \in Callers : Step(c) \/ Cancel(c) \/ \E op \in Ops : Begin(c, op)
        \/ \E keys \in SUBSET Callers : GetMultiple(keys)
        \/ Convert \/ Finish \/ Close \/ Elapse

Spec == Init /\ [][Next]_vars

(***************************************************************************)
(* Fairness.  A goroutine runs on; an attempt ends, by the Timeout of the  *)
(* HTTP client if nothing else ends it.  Nobody need call, cancel or close *)
(* and the server need never answer well.                                  *)
(***************************************************************************)
FairSpec == /\ Spec
            /\ \A c \in Callers : /\ WF_vars(Step(c))
                                  /\ WF_vars(c \in batch.waiting /\ Begin(c, "Get"))
            /\ WF_vars(Finish)

-----------------------------------------------------------------------------
(* Properties                                                              *)

Phases  == {"idle", "begun", "create", "attempt", "failed", "done", "returned"}
Results == {"none", "ok", "garbled", "notfound", "error", "canceled", "open"} \cup Unsent

Requests == [phase : Phases, op : AllOps \cup {"none"}, result : Results,
             sent : Nat, served : Nat, doubt : Nat]

\* The state of the client; a call whose strategy has a limited budget sends as
\* many attempts as that at most, whatever the answers.
TypeOK == /\ Breaker!TypeOK
          /\ transport \in AllTransports
          /\ made \in BOOLEAN /\ closed \in BOOLEAN
          /\ request \in [Callers -> Requests]
          /\ Limited => \A c \in Callers : request[c].sent <= Budget[transport]
          /\ batch \in [members : SUBSET Callers, waiting : SUBSET Callers,
                        found : SUBSET Callers, absent : SUBSET Callers, failed : BOOLEAN]

\* The transport uses the breaker as CircuitBreaker describes it: a call is
\* admitted once and gives one result, its retries and the reads of the state
\* by the observer in between; and an endpoint never changes its breaker, even
\* when several first calls create it at once.
BreakerSpec == Breaker!Spec

Over(c) == request[c].phase \in {"done", "returned"}

\* What the caller is told is what happened to this very call: success means
\* that the server carried it out; "not found" and a rejection mean that no
\* attempt is known to have changed anything.
ResultsAreEarned ==
  \A c \in Callers : Over(c) =>
    CASE request[c].result = "ok"       -> request[c].served >= 1
      [] request[c].result = "notfound" -> request[c].served <= request[c].doubt
      [] request[c].result \in Unsent \cup {"open"} -> request[c].sent = 0
      [] OTHER -> request[c].sent >= 1

\* A call is carried out more than once only after an attempt whose answer left
\* open whether it was: no attempt follows one that the server is known to
\* have accepted, even if its answer could not be read.
RepeatsNeedDoubt ==
  \A c \in Callers : request[c].served <= 1 + request[c].doubt

\* When all goroutines of a GetMultiple are done, it succeeds exactly if each
\* key was found or answered with a 404: no key whose Get failed, was rejected
\* by the breaker or came after Close is missing from a result without error.
BatchIsWhole ==
  batch.waiting = {} => (batch.failed <=> batch.members # batch.found \cup batch.absent)

\* Between two attempts, and free to go on for ever.
Unbounded(c) == ~Limited /\ At(c, "failed")

\* With a limited budget every call returns, and every GetMultiple, even if the
\* service never answers well and nobody cancels; without one, a call that does
\* not return goes on retrying, and nothing else keeps it.
CallsEnd ==
  /\ \A c \in Callers : ~At(c, "idle") ~> At(c, "idle") \/ Unbounded(c)
  /\ batch # NoBatch ~> batch = NoBatch \/ \E c \in Callers : Unbounded(c)

\* A Set that the server accepted succeeds ("Creates or updates a cache entry",
\* answered with JSON: docs/API.md:119-139).
AcceptedSetSucceeds ==
  \A c \in Callers : Over(c) /\ request[c].op = "Set" =>
    (request[c].served > request[c].doubt => request[c].result = "ok")
=============================================================================
