--------------------------- MODULE SDKClientProofs ---------------------------
(***************************************************************************)
(* Theorems about SDKClient, for any callers, thresholds, operations,      *)
(* transports and retry budgets, limited or not.                           *)
(***************************************************************************)
EXTENDS SDKClient, TLAPS

\* The budgets are constants.
LEMMA BudgetStays == Budget' = Budget
  BY DEF Budget, Retries

USE ThresholdsAssumption, CallersAssumption, OpsAssumption

-----------------------------------------------------------------------------
(* The invariant                                                           *)

\* The result of a call that is over agrees with what its attempts did.
Earned(r) ==
  /\ r.served <= 1 + r.doubt
  /\ r.result = "ok" => r.served >= 1
  /\ r.result = "notfound" => r.served <= r.doubt
  /\ IF r.result \in Unsent \cup {"open"} THEN r.sent = 0 ELSE r.sent >= 1

\* What the counts of a call are in each phase: an attempt follows only attempts
\* whose answer left open what they did.
Sound(r) ==
  /\ r.phase \in {"idle", "begun", "create"} =>
       r.sent = 0 /\ r.served = 0 /\ r.doubt = 0
  /\ r.phase = "attempt" =>
       /\ r.sent >= 1 /\ r.served <= r.doubt /\ r.doubt < r.sent
  /\ r.phase = "failed" =>
       /\ r.sent >= 1 /\ r.served <= r.doubt /\ r.doubt <= r.sent
       /\ r.result \in {"notfound", "error"}
  /\ r.phase \in {"done", "returned"} => Earned(r)
  /\ r.phase = "done" => r.result \notin Unsent \cup {"open"}


\* Which keys of a GetMultiple are done, and how they ended.
BatchOK == /\ batch.waiting \subseteq batch.members
           /\ batch.found \cup batch.absent \subseteq batch.members \ batch.waiting
           /\ batch.found \cap batch.absent = {}
           /\ batch.failed <=>
                batch.members \ batch.waiting # batch.found \cup batch.absent

\* No call has sent more than its budget.
Within(r) == Limited => r.sent <= Budget[transport]

RequestsOK == \A c \in Callers : /\ request[c] \in Requests
                                 /\ Sound(request[c]) /\ Within(request[c])

Inv == TypeOK /\ RequestsOK /\ BatchOK

-----------------------------------------------------------------------------
(* Lemmas                                                                  *)

LEMMA BudgetsInt ==
  /\ \A t \in AllTransports : Budget[t] \in Int
  /\ TypeOK => Budget[transport] \in Int
<1>1. Retries \in Nat /\ LinearAttempts \in Int /\ ConstantAttempts \in Int
  BY RetriesAssumption DEF Retries
<1>2. \A t \in AllTransports : Budget[t] \in Int
  BY <1>1 DEF Budget, AllTransports, Guarded
<1> QED BY <1>2 DEF TypeOK

\* The counters of the breaker stay below its thresholds.
LEMMA BreakerTyped ==
  ASSUME Breaker!TypeOK, NEW c \in Callers,
         \/ Breaker!Admit(c) \/ Breaker!Success(c) \/ Breaker!Failure(c)
         \/ Breaker!State \/ Breaker!Elapse \/ UNCHANGED breakerVars
  PROVE  Breaker!TypeOK'
<1>0. /\ call \in [Callers -> Breaker!Calls]
      /\ [call EXCEPT ![c] = "none"] \in [Callers -> Breaker!Calls]
      /\ [call EXCEPT ![c] = "normal"] \in [Callers -> Breaker!Calls]
      /\ [call EXCEPT ![c] = "test"] \in [Callers -> Breaker!Calls]
  BY DEF Breaker!TypeOK, Breaker!Calls
<1>00. ASSUME NEW calls \in [Callers -> Breaker!Calls]
       PROVE  /\ Breaker!Outdated(calls) \in [Callers -> Breaker!Calls]
              /\ [Breaker!Outdated(calls) EXCEPT ![c] = "test"]
                   \in [Callers -> Breaker!Calls]
  BY DEF Breaker!Outdated, Breaker!Calls
<1>1. CASE Breaker!Admit(c)
  <2>1. CASE Breaker!AdmitClosed(c)
    BY <1>0, <1>1, <2>1
       DEF Breaker!Admit, Breaker!AdmitClosed, Breaker!TypeOK, Breaker!counters
  <2>2. CASE Breaker!AdmitTest(c)
    BY <1>0, <1>1, <2>2 DEF Breaker!Admit, Breaker!AdmitTest, Breaker!TypeOK
  <2>3. CASE Breaker!AdmitFirstTest(c)
    <3>1. [Breaker!Outdated(call) EXCEPT ![c] = "test"] \in [Callers -> Breaker!Calls]
      BY <1>0, <1>00
    <3> QED BY <3>1, <1>1, <2>3
            DEF Breaker!Admit, Breaker!AdmitFirstTest, Breaker!TypeOK, Breaker!States
  <2> QED BY <1>1, <2>1, <2>2, <2>3 DEF Breaker!Admit
<1>2. CASE Breaker!Success(c)
  <2>1. Breaker!Outdated(Breaker!Returned(c)) \in [Callers -> Breaker!Calls]
    BY <1>0, <1>00 DEF Breaker!Returned
  <2>2. CASE Breaker!SuccessClosed(c) \/ Breaker!SuccessOpen(c)
    BY <1>0, <1>2, <2>2 DEF Breaker!Success, Breaker!SuccessClosed, Breaker!SuccessOpen,
         Breaker!Returned, Breaker!TypeOK, Breaker!counters
  <2>3. CASE Breaker!SuccessTest(c)
    <3>1. CASE Breaker!TransitionTo("Closed", Breaker!Returned(c))
      BY <1>2, <2>1, <3>1
         DEF Breaker!Success, Breaker!TransitionTo, Breaker!TypeOK, Breaker!States
    <3>2. CASE /\ successes' = successes + 1 /\ ~Breaker!EnoughSuccesses(successes + 1)
               /\ call' = Breaker!Returned(c)
               /\ UNCHANGED <<state, failures, halfOpenRequests>>
      BY <1>0, <1>2, <3>2
         DEF Breaker!Success, Breaker!EnoughSuccesses, Breaker!Returned, Breaker!TypeOK
    <3> QED BY <2>3, <3>1, <3>2 DEF Breaker!SuccessTest
  <2> QED BY <1>2, <2>2, <2>3 DEF Breaker!Success
<1>3. CASE Breaker!Failure(c)
  <2>0. elapsed' \in BOOLEAN
    BY <1>3 DEF Breaker!Failure
  <2>1. Breaker!Outdated(Breaker!Returned(c)) \in [Callers -> Breaker!Calls]
    BY <1>0, <1>00 DEF Breaker!Returned
  <2>2. CASE Breaker!FailureOpen(c)
    BY <1>0, <2>0, <2>2 DEF Breaker!FailureOpen, Breaker!Returned,
         Breaker!TypeOK, Breaker!counters
  <2>3. CASE Breaker!FailureClosed(c) \/ Breaker!FailureTest(c)
    <3>1. CASE Breaker!TransitionTo("Open", Breaker!Returned(c))
      BY <2>0, <2>1, <3>1
         DEF Breaker!TransitionTo, Breaker!TypeOK, Breaker!States
    <3>2. CASE /\ failures' = failures + 1 /\ ~Breaker!EnoughFailures(failures + 1)
               /\ call' = Breaker!Returned(c)
               /\ UNCHANGED <<state, successes, halfOpenRequests>>
      BY <1>0, <2>0, <3>2
         DEF Breaker!EnoughFailures, Breaker!Returned, Breaker!TypeOK
    <3> QED BY <2>3, <3>1, <3>2 DEF Breaker!FailureClosed, Breaker!FailureTest
  <2> QED BY <1>3, <2>2, <2>3 DEF Breaker!Failure
<1>4. CASE Breaker!State
  BY <1>4 DEF Breaker!State, Breaker!TimedOut, Breaker!TransitionTo, Breaker!TypeOK,
       Breaker!Outdated, Breaker!Calls, Breaker!States
<1>5. CASE Breaker!Elapse \/ UNCHANGED breakerVars
  BY <1>5 DEF Breaker!Elapse, Breaker!counters, breakerVars, Breaker!TypeOK
<1> QED BY <1>1, <1>2, <1>3, <1>4, <1>5

\* No call has sent more than its budget.
BudgetKept == Limited => \A c \in Callers : request[c].sent <= Budget[transport]

\* The same transport has the same budget.
LEMMA WithinStays ==
  ASSUME UNCHANGED transport, NEW r, Within(r)
  PROVE  Within(r)'
<1>1. Budget'[transport'] = Budget[transport]
  BY BudgetStays
<1> QED BY <1>1 DEF Within, Limited

LEMMA RequestsKeepBudget == RequestsOK => BudgetKept
  BY DEF RequestsOK, BudgetKept, Within

LEMMA SameRequests ==
  ASSUME Inv, UNCHANGED <<request, transport>>
  PROVE  RequestsOK' /\ BudgetKept'
<1>1. \A c \in Callers : Within(request[c])'
  <2> TAKE c \in Callers
  <2>1. Within(request[c])
    BY DEF Inv, RequestsOK
  <2>2. Budget'[transport'] = Budget[transport]
    BY BudgetStays
  <2> QED BY <2>1, <2>2 DEF Within, Limited
<1>2. RequestsOK'
  BY <1>1 DEF Inv, RequestsOK
<1>3. BudgetKept'
  BY <1>2, RequestsKeepBudget, PTL
<1> QED BY <1>2, <1>3

\* A caller goes on to a sound record.
LEMMA GotoKeeps ==
  ASSUME Inv, UNCHANGED transport,
         NEW c \in Callers, NEW r \in Requests, Sound(r), Within(r), Goto(c, r)
  PROVE  RequestsOK' /\ BudgetKept' /\ request' \in [Callers -> Requests]
<1>1. request \in [Callers -> Requests]
  BY DEF Inv, TypeOK
<1>2. request' = [request EXCEPT ![c] = r]
  BY DEF Goto
<1>3. Budget'[transport'] = Budget[transport]
  BY BudgetStays
<1>4. ASSUME NEW d \in Callers
      PROVE  (request[d] \in Requests /\ Sound(request[d]) /\ Within(request[d]))'
  <2>1. CASE d = c
    BY <1>1, <1>2, <1>3, <2>1 DEF Within, Limited
  <2>2. CASE d # c
    BY <1>1, <1>2, <1>3, <2>2 DEF Inv, RequestsOK, Within, Limited
  <2> QED BY <2>1, <2>2
<1>5. RequestsOK'
  BY <1>4 DEF RequestsOK
<1>6. BudgetKept'
  BY <1>5, RequestsKeepBudget, PTL
<1> QED BY <1>1, <1>2, <1>5, <1>6

\* A caller goes on, and nothing else changes.
LEMMA LocalKeeps ==
  ASSUME Inv, Local, NEW c \in Callers, NEW r \in Requests, Sound(r), Within(r), Goto(c, r)
  PROVE  Inv'
<1>1. UNCHANGED <<transport, made, closed, batch>>
  BY DEF Local, clientVars
<1>2. RequestsOK' /\ BudgetKept' /\ request' \in [Callers -> Requests]
  BY <1>1, GotoKeeps
<1>3. Breaker!TypeOK'
  BY BreakerTyped DEF Inv, TypeOK, Local
<1> QED BY <1>1, <1>2, <1>3 DEF Inv, TypeOK, BudgetKept, BatchOK

\* A caller goes on, and the breaker with it.
LEMMA MeetKeeps ==
  ASSUME Inv, UNCHANGED <<clientVars, batch>>, Breaker!TypeOK',
         NEW c \in Callers, NEW r \in Requests, Sound(r), Within(r), Goto(c, r)
  PROVE  Inv'
<1>1. UNCHANGED <<transport, made, closed, batch>>
  BY DEF clientVars
<1>2. RequestsOK' /\ BudgetKept' /\ request' \in [Callers -> Requests]
  BY <1>1, GotoKeeps
<1> QED BY <1>1, <1>2 DEF Inv, TypeOK, BudgetKept, BatchOK

LEMMA IdleSound == Idle \in Requests /\ Sound(Idle) /\ (TypeOK => Within(Idle))
<1>1. TypeOK => Within(Idle)
  <2> SUFFICES ASSUME TypeOK, Limited PROVE 0 <= Budget[transport]
    BY DEF Within, Idle
  <2> QED BY BudgetsInt DEF Limited
<1> QED BY <1>1 DEF Idle, Requests, Sound, Phases, Results

\* An attempt that starts after attempts that left open what they did.
LEMMA AttemptSound ==
  ASSUME NEW c \in Callers, request[c] \in Requests, TypeOK,
         Limited => request[c].sent < Budget[transport],
         request[c].served <= request[c].doubt, request[c].doubt <= request[c].sent
  PROVE  /\ Attempt(c) \in Requests /\ Sound(Attempt(c)) /\ Within(Attempt(c))
         /\ [Attempt(c) EXCEPT !.result = "none"] \in Requests
         /\ Sound([Attempt(c) EXCEPT !.result = "none"])
         /\ Within([Attempt(c) EXCEPT !.result = "none"])
<1>1. request[c].sent \in Nat /\ request[c].sent + 1 \in Nat /\ Budget[transport] \in Int
  BY BudgetsInt DEF Requests
<1>2. Attempt(c) \in Requests
  BY <1>1 DEF Attempt, Requests, Phases
<1>3. [Attempt(c) EXCEPT !.result = "none"] \in Requests
  BY <1>2 DEF Requests, Results
<1>4. /\ Attempt(c).phase = "attempt" /\ Attempt(c).sent = request[c].sent + 1
      /\ Attempt(c).served = request[c].served /\ Attempt(c).doubt = request[c].doubt
  BY DEF Attempt, Requests
<1>5. Sound(Attempt(c))
  BY <1>4 DEF Sound, Requests
<1>6. Sound([Attempt(c) EXCEPT !.result = "none"])
  BY <1>2, <1>4 DEF Sound, Requests
<1>7. Limited => request[c].sent + 1 <= Budget[transport]
  BY <1>1
<1>8. Within(Attempt(c))
  BY <1>4, <1>7 DEF Within
<1>9. Within([Attempt(c) EXCEPT !.result = "none"])
  <2>1. [Attempt(c) EXCEPT !.result = "none"].sent = request[c].sent + 1
    BY <1>2, <1>4 DEF Requests
  <2> QED BY <1>7, <2>1 DEF Within
<1> QED BY <1>2, <1>3, <1>5, <1>6, <1>8, <1>9

-----------------------------------------------------------------------------
(* The invariant holds initially and is kept by each action                *)

LEMMA InvInit == Init => Inv
<1> SUFFICES ASSUME Init PROVE Inv
  OBVIOUS
<1>1. Breaker!TypeOK
  BY DEF Init, Breaker!Init, Breaker!TypeOK, Breaker!States, Breaker!Calls
<1>2. \A c \in Callers : request[c] = Idle /\ transport \in AllTransports
  BY OpsAssumption DEF Init
<1>3. BudgetKept
  <2>1. \A t \in AllTransports : Budget[t] > 0 => 0 <= Budget[t]
    BY BudgetsInt
  <2> QED BY <1>2, <2>1 DEF BudgetKept, Limited, Idle
<1>4. TypeOK
  BY <1>1, <1>3, IdleSound DEF Init, TypeOK, BudgetKept, NoBatch
<1>5. RequestsOK
  BY <1>2, <1>4, IdleSound DEF RequestsOK
<1> QED BY <1>4, <1>5 DEF Init, Inv, BatchOK, NoBatch

\* A call that has sent nothing.
LEMMA UnsentSound ==
  ASSUME NEW op \in AllOps \cup {"none"}
  PROVE  /\ Begun(op) \in Requests /\ Sound(Begun(op)) /\ (TypeOK => Within(Begun(op)))
         /\ \A why \in Unsent \cup {"open"} :
              /\ Ended(op, why) \in Requests /\ Sound(Ended(op, why))
              /\ TypeOK => Within(Ended(op, why))
<1>0. TypeOK /\ Limited => 0 <= Budget[transport]
  BY BudgetsInt DEF Limited
<1>1. Begun(op) \in Requests
  BY DEF Begun, Idle, Requests, Phases, Results
<1>2. Sound(Begun(op))
  BY DEF Begun, Idle, Sound
<1>3. ASSUME NEW why \in Unsent \cup {"open"}
      PROVE  Ended(op, why) \in Requests
  BY DEF Ended, Idle, Unsent, Requests, Phases, Results
<1>4. ASSUME NEW why \in Unsent \cup {"open"}
      PROVE  Sound(Ended(op, why))
  BY DEF Ended, Idle, Unsent, Sound, Earned
<1>5. TypeOK => Within(Begun(op)) /\ \A why \in Unsent \cup {"open"} : Within(Ended(op, why))
  BY <1>0 DEF Begun, Ended, Idle, Within
<1> QED BY <1>1, <1>2, <1>3, <1>4, <1>5

LEMMA BeginKeeps ==
  ASSUME Inv, NEW c \in Callers, NEW op \in Ops, Begin(c, op)
  PROVE  Inv'
<1>1. /\ Begun(op) \in Requests /\ Sound(Begun(op)) /\ Within(Begun(op))
      /\ \A why \in Unsent : /\ Ended(op, why) \in Requests /\ Sound(Ended(op, why))
                            /\ Within(Ended(op, why))
  BY UnsentSound, OpsAssumption DEF Inv
<1> QED BY <1>1, LocalKeeps DEF Begin, Invalid, Unsent

LEMMA CreateKeeps ==
  ASSUME Inv, NEW c \in Callers, Missing(c) \/ Create(c)
  PROVE  Inv'
<1> DEFINE r(phase) == [request[c] EXCEPT !.phase = phase]
<1>0. request[c] \in Requests /\ Sound(request[c]) /\ Within(request[c])
  BY DEF Inv, RequestsOK
<1>1. At(c, "begun") \/ At(c, "create")
  BY DEF Missing, Create
<1>2. \A phase \in {"begun", "create"} : r(phase) \in Requests /\ Sound(r(phase))
  BY <1>0, <1>1 DEF At, Requests, Phases, Sound
<1>20. \A phase \in {"begun", "create"} : Within(r(phase))
  BY <1>0 DEF Requests, Within
<1>3. CASE Missing(c)
  BY <1>2, <1>20, <1>3, LocalKeeps DEF Missing
<1>4. CASE Create(c)
  <2>1. RequestsOK' /\ BudgetKept' /\ request' \in [Callers -> Requests]
    BY <1>2, <1>20, <1>4, GotoKeeps DEF Create
  <2>2. Breaker!TypeOK'
    BY <1>4, BreakerTyped DEF Inv, TypeOK, Create
  <2> QED BY <1>4, <2>1, <2>2 DEF Create, Inv, TypeOK, BudgetKept, BatchOK
<1> QED BY <1>3, <1>4

LEMMA SendKeeps ==
  ASSUME Inv, NEW c \in Callers, Send(c) \/ Reject(c)
  PROVE  Inv'
<1>0. /\ request[c] \in Requests /\ Sound(request[c]) /\ At(c, "begun")
      /\ Breaker!TypeOK
  BY DEF Inv, RequestsOK, TypeOK, Send, Reject
<1>1. CASE Send(c)
  <2>0. request[c].sent = 0 /\ request[c].served = 0 /\ request[c].doubt = 0
    BY <1>0 DEF At, Sound
  <2>1. Attempt(c) \in Requests /\ Sound(Attempt(c)) /\ Within(Attempt(c))
    <3>1. (Limited => 0 < Budget[transport]) /\ 0 <= 0
      BY BudgetsInt DEF Inv, Limited
    <3> QED BY <1>0, <2>0, <3>1, AttemptSound DEF Inv
  <2>2. Breaker!TypeOK'
    BY <1>0, <1>1, BreakerTyped DEF Send
  <2> QED BY <1>1, <2>1, <2>2, MeetKeeps DEF Send
<1>2. CASE Reject(c)
  <2>1. request[c].op \in AllOps \cup {"none"}
    BY <1>0 DEF Requests
  <2>2. LET r == Ended(request[c].op, "open") IN r \in Requests /\ Sound(r) /\ Within(r)
    BY <2>1, UnsentSound DEF Inv
  <2> QED BY <1>2, <2>2, LocalKeeps DEF Reject
<1> QED BY <1>1, <1>2

\* No attempt whose answer is clear is retried after it was carried out.
LEMMA OnlyDoubtIsRetried ==
  ASSUME NEW answer \in Answers, NEW parsed \in BOOLEAN, Retryable(answer, parsed),
         NEW carried \in BOOLEAN, carried => answer \in Unclear \cup {"accepted"}
  PROVE  /\ carried => answer \in Unclear
         /\ Outcome(answer, parsed) \in {"notfound", "error"}
<1>1. answer # "accepted"
  BY DEF Retryable, FetchFails, IsRetryable, ErrorTypes
<1> QED BY <1>1 DEF Outcome

LEMMA AnswerKeeps ==
  ASSUME Inv, NEW c \in Callers, NEW answer \in Answers, Answer(c, answer)
  PROVE  Inv'
<1> DEFINE R(carried, parsed) ==
             [request[c] EXCEPT
                !.phase  = IF Retryable(answer, parsed) THEN "failed" ELSE "done",
                !.result = Outcome(answer, parsed),
                !.served = IF carried THEN @ + 1 ELSE @,
                !.doubt  = IF answer \in Unclear THEN @ + 1 ELSE @]
<1>0. /\ request[c] \in Requests /\ Sound(request[c]) /\ Within(request[c])
      /\ At(c, "attempt") /\ Local
  BY DEF Inv, RequestsOK, Answer
<1>1. PICK carried \in BOOLEAN, parsed \in Parsed(request[c].op) :
        /\ answer = "accepted" => carried
        /\ carried => answer \in Unclear \cup {"accepted"}
        /\ Goto(c, R(carried, parsed))
  BY DEF Answer
<1>2. parsed \in BOOLEAN
  BY <1>1 DEF Parsed
<1> DEFINE r == R(carried, parsed)
<1>3. /\ request[c].sent \in Nat /\ request[c].sent >= 1
      /\ request[c].served \in Nat /\ request[c].doubt \in Nat
      /\ request[c].served <= request[c].doubt /\ request[c].doubt < request[c].sent
      /\ request[c].op \in AllOps \cup {"none"}
  BY <1>0 DEF Requests, Sound, At
<1>4. /\ r.phase = (IF Retryable(answer, parsed) THEN "failed" ELSE "done")
      /\ r.result = Outcome(answer, parsed)
      /\ r.sent = request[c].sent /\ r.op = request[c].op
      /\ r.served = (IF carried THEN request[c].served + 1 ELSE request[c].served)
      /\ r.doubt = (IF answer \in Unclear THEN request[c].doubt + 1 ELSE request[c].doubt)
  BY <1>0 DEF Requests
<1>5. r \in Requests
  <2>1. Outcome(answer, parsed) \in Results
    BY DEF Outcome, Results
  <2>2. /\ (IF carried THEN request[c].served + 1 ELSE request[c].served)
              \in Nat
        /\ (IF answer \in Unclear THEN request[c].doubt + 1 ELSE request[c].doubt)
              \in Nat
    BY <1>3
  <2> QED BY <1>0, <2>1, <2>2 DEF Requests, Phases
<1> HIDE DEF R, r
<1>6. Sound(r)
  <2>1. CASE Retryable(answer, parsed)
    <3>1. /\ carried => answer \in Unclear
          /\ Outcome(answer, parsed) \in {"notfound", "error"}
      BY <1>1, <1>2, <2>1, OnlyDoubtIsRetried
    <3> QED BY <1>3, <1>4, <2>1, <3>1 DEF Sound
  <2>2. CASE ~Retryable(answer, parsed)
    <3>1. Outcome(answer, parsed) \notin Unsent \cup {"open"}
      BY DEF Outcome, Unsent
    <3>2. /\ Outcome(answer, parsed) = "ok" => carried
          /\ Outcome(answer, parsed) = "notfound" => ~carried
      BY <1>1, <1>2 DEF Outcome, Unclear
    <3> QED BY <1>3, <1>4, <2>2, <3>1, <3>2 DEF Sound, Earned
  <2> QED BY <2>1, <2>2
<1>7. Within(r)
  BY <1>0, <1>4 DEF Within
<1> QED BY <1>0, <1>1, <1>5, <1>6, <1>7, LocalKeeps DEF r

LEMMA RetryKeeps ==
  ASSUME Inv, NEW c \in Callers, Retry(c)
  PROVE  Inv'
<1>0. request[c] \in Requests /\ Sound(request[c]) /\ At(c, "failed") /\ Local
  BY DEF Inv, RequestsOK, Retry
<1>1. /\ Limited => request[c].sent < Budget[transport]
      /\ request[c].served <= request[c].doubt /\ request[c].doubt <= request[c].sent
  BY <1>0, BudgetsInt DEF Inv, Retry, Exhausted, At, Sound, Requests
<1>2. LET r == [Attempt(c) EXCEPT !.result = "none"]
      IN  r \in Requests /\ Sound(r) /\ Within(r)
  BY <1>0, <1>1, AttemptSound DEF Inv
<1> QED BY <1>0, <1>2, LocalKeeps DEF Retry

LEMMA GiveUpKeeps ==
  ASSUME Inv, NEW c \in Callers, GiveUp(c) \/ Cancel(c)
  PROVE  Inv'
<1>0. /\ request[c] \in Requests /\ Sound(request[c]) /\ Within(request[c])
      /\ request[c].phase = "failed" /\ Local
  BY DEF Inv, RequestsOK, GiveUp, Cancel, At
<1>1. ASSUME NEW result \in {request[c].result, "canceled"}
      PROVE  LET r == [request[c] EXCEPT !.phase = "done", !.result = result]
             IN  r \in Requests /\ Sound(r) /\ Within(r)
  <2> DEFINE r == [request[c] EXCEPT !.phase = "done", !.result = result]
  <2>1. r \in Requests
    BY <1>0 DEF Requests, Phases, Results
  <2>2. /\ r.phase = "done" /\ r.result = result /\ r.sent = request[c].sent
        /\ r.served = request[c].served /\ r.doubt = request[c].doubt
    BY <1>0 DEF Requests
  <2>3. /\ request[c].sent >= 1 /\ request[c].served <= request[c].doubt
        /\ request[c].result \in {"notfound", "error"}
        /\ request[c].served \in Nat /\ request[c].doubt \in Nat
    BY <1>0 DEF Sound, Requests
  <2> HIDE DEF r
  <2>4. Sound(r)
    BY <2>2, <2>3 DEF Sound, Earned, Unsent
  <2>5. Within(r)
    BY <1>0, <2>2 DEF Within
  <2> QED BY <2>1, <2>4, <2>5 DEF r
<1> QED BY <1>0, <1>1, LocalKeeps DEF GiveUp, Cancel, End

LEMMA RecordKeeps ==
  ASSUME Inv, NEW c \in Callers, Record(c)
  PROVE  Inv'
<1>0. /\ request[c] \in Requests /\ Sound(request[c]) /\ Within(request[c])
      /\ request[c].phase = "done" /\ Breaker!TypeOK
  BY DEF Inv, RequestsOK, TypeOK, Record, At
<1> DEFINE r == [request[c] EXCEPT !.phase = "returned"]
<1>1. r \in Requests /\ Sound(r) /\ Within(r)
  <2>1. r \in Requests
    BY <1>0 DEF Requests, Phases
  <2>2. Sound(r)
    BY <1>0 DEF Requests, Sound, Earned
  <2>3. Within(r)
    BY <1>0 DEF Requests, Within
  <2> QED BY <2>1, <2>2, <2>3
<1>2. Breaker!TypeOK'
  BY <1>0, BreakerTyped DEF Record
<1> QED BY <1>1, <1>2, MeetKeeps DEF Record

\* A goroutine of a GetMultiple ends.
LEMMA CollectKeeps ==
  ASSUME Inv, NEW c \in batch.waiting, NEW result, batch' = Collect(c, result)
  PROVE  BatchOK'
<1> DEFINE ok == result = "ok"
           nf == result = "notfound"
<1>1. batch \in [members : SUBSET Callers, waiting : SUBSET Callers,
                 found : SUBSET Callers, absent : SUBSET Callers, failed : BOOLEAN]
  BY DEF Inv, TypeOK
<1>2. /\ batch'.members = batch.members /\ batch'.waiting = batch.waiting \ {c}
      /\ batch'.found = (IF ok THEN batch.found \cup {c} ELSE batch.found)
      /\ batch'.absent = (IF nf THEN batch.absent \cup {c} ELSE batch.absent)
      /\ batch'.failed <=> batch.failed \/ ~(ok \/ nf)
  BY <1>1 DEF Collect, IsNotFound
<1>3. ~(ok /\ nf)
  OBVIOUS
<1> HIDE DEF ok, nf
<1>4. c \in batch.members /\ c \notin batch.found \cup batch.absent
  BY DEF Inv, BatchOK
<1>5. batch'.members \ batch'.waiting = (batch.members \ batch.waiting) \cup {c}
  BY <1>2, <1>4 DEF Inv, BatchOK
<1>6. CASE ok
  BY <1>2, <1>3, <1>4, <1>5, <1>6 DEF Inv, BatchOK
<1>7. CASE nf
  BY <1>2, <1>3, <1>4, <1>5, <1>7 DEF Inv, BatchOK
<1>8. CASE ~ok /\ ~nf
  <2>1. batch'.members \ batch'.waiting # batch'.found \cup batch'.absent
    BY <1>2, <1>4, <1>5, <1>8
  <2> QED BY <1>2, <1>8, <2>1 DEF Inv, BatchOK
<1> QED BY <1>6, <1>7, <1>8

\* The batch changes, and nothing else.
LEMMA BatchKeeps ==
  ASSUME Inv, UNCHANGED <<breakerVars, clientVars, request>>, BatchOK',
         batch' \in [members : SUBSET Callers, waiting : SUBSET Callers,
                     found : SUBSET Callers, absent : SUBSET Callers, failed : BOOLEAN]
  PROVE  Inv'
<1>1. UNCHANGED <<transport, made, closed, request>>
  BY DEF clientVars
<1>2. Breaker!TypeOK'
  BY DEF Inv, TypeOK, Breaker!TypeOK, breakerVars
<1>3. RequestsOK' /\ BudgetKept'
  BY <1>1, SameRequests
<1> QED BY <1>1, <1>2, <1>3 DEF Inv, TypeOK, BudgetKept

LEMMA ReturnKeeps ==
  ASSUME Inv, NEW c \in Callers, Return(c)
  PROVE  Inv'
<1>1. RequestsOK' /\ BudgetKept' /\ request' \in [Callers -> Requests]
  <2>1. UNCHANGED transport /\ Goto(c, Idle)
    BY DEF Return, clientVars
  <2> QED BY <2>1, IdleSound, GotoKeeps DEF Inv
<1>2. Breaker!TypeOK'
  BY BreakerTyped DEF Inv, TypeOK, Return
<1>3. /\ batch' \in [members : SUBSET Callers, waiting : SUBSET Callers,
                     found : SUBSET Callers, absent : SUBSET Callers, failed : BOOLEAN]
      /\ BatchOK'
  <2>1. batch \in [members : SUBSET Callers, waiting : SUBSET Callers,
                   found : SUBSET Callers, absent : SUBSET Callers, failed : BOOLEAN]
    BY DEF Inv, TypeOK
  <2>2. PICK result \in Deserialized(c) :
          batch' = IF c \in batch.waiting THEN Collect(c, result) ELSE batch
    BY DEF Return
  <2>3. CASE c \in batch.waiting
    <3>1. batch' = Collect(c, result)
      BY <2>2, <2>3
    <3>2. BatchOK'
      BY <2>3, <3>1, CollectKeeps
    <3> QED BY <2>1, <3>1, <3>2 DEF Collect
  <2>4. CASE c \notin batch.waiting
    BY <2>1, <2>2, <2>4 DEF Inv, BatchOK
  <2> QED BY <2>3, <2>4
<1>4. UNCHANGED <<transport, made, closed>>
  BY DEF Return, clientVars
<1> QED BY <1>1, <1>2, <1>3, <1>4 DEF Inv, TypeOK, BudgetKept

LEMMA BatchStepKeeps ==
  ASSUME Inv,
         (\E keys \in SUBSET Callers : GetMultiple(keys)) \/ Convert \/ Finish
  PROVE  Inv'
<1>0. batch \in [members : SUBSET Callers, waiting : SUBSET Callers,
                 found : SUBSET Callers, absent : SUBSET Callers, failed : BOOLEAN]
  BY DEF Inv, TypeOK
<1>1. CASE \E keys \in SUBSET Callers : GetMultiple(keys)
  <2>1. PICK keys \in SUBSET Callers : GetMultiple(keys)
    BY <1>1
  <2>2. batch' = [NoBatch EXCEPT !.members = keys, !.waiting = keys]
    BY <2>1 DEF GetMultiple
  <2>3. BatchOK'
    BY <2>2 DEF NoBatch, BatchOK
  <2> QED BY <2>1, <2>2, <2>3, BatchKeeps DEF GetMultiple, NoBatch
<1>2. CASE Convert
  <2>1. PICK c \in batch.found :
          batch' = [batch EXCEPT !.found = @ \ {c}, !.failed = TRUE]
    BY <1>2 DEF Convert
  <2>2. BatchOK'
    BY <1>0, <2>1 DEF Inv, BatchOK
  <2>3. batch' \in [members : SUBSET Callers, waiting : SUBSET Callers,
                    found : SUBSET Callers, absent : SUBSET Callers, failed : BOOLEAN]
    BY <1>0, <2>1
  <2> QED BY <1>2, <2>2, <2>3, BatchKeeps DEF Convert
<1>3. CASE Finish
  BY <1>3, BatchKeeps DEF Finish, NoBatch, BatchOK
<1> QED BY <1>1, <1>2, <1>3

LEMMA InvNext == Inv /\ [Next]_vars => Inv'
<1> SUFFICES ASSUME Inv, [Next]_vars PROVE Inv'
  OBVIOUS
<1>1. CASE \E c \in Callers : Step(c)
  BY <1>1, CreateKeeps, SendKeeps, AnswerKeeps, RetryKeeps, GiveUpKeeps, RecordKeeps,
     ReturnKeeps DEF Step
<1>2. CASE \E c \in Callers : Cancel(c) \/ \E op \in Ops : Begin(c, op)
  BY <1>2, GiveUpKeeps, BeginKeeps
<1>3. CASE (\E keys \in SUBSET Callers : GetMultiple(keys)) \/ Convert \/ Finish
  BY <1>3, BatchStepKeeps
<1>4. CASE Close
  <2>1. Breaker!TypeOK'
    BY <1>4 DEF Close, Inv, TypeOK, Breaker!TypeOK, breakerVars
  <2>2. RequestsOK' /\ BudgetKept'
    BY <1>4, SameRequests DEF Close
  <2> QED BY <1>4, <2>1, <2>2 DEF Close, Inv, TypeOK, BudgetKept, BatchOK
<1>5. CASE Elapse
  <2>1. Breaker!TypeOK'
    BY <1>5 DEF Elapse, Breaker!Elapse, Breaker!counters, Inv, TypeOK, Breaker!TypeOK
  <2>2. RequestsOK' /\ BudgetKept'
    BY <1>5, SameRequests DEF Elapse, clientVars
  <2> QED BY <1>5, <2>1, <2>2 DEF Elapse, clientVars, Inv, TypeOK, BudgetKept, BatchOK
<1>6. CASE UNCHANGED vars
  <2>1. Breaker!TypeOK'
    BY <1>6 DEF vars, Inv, TypeOK, Breaker!TypeOK, breakerVars
  <2>2. RequestsOK' /\ BudgetKept'
    BY <1>6, SameRequests DEF vars, clientVars
  <2> QED BY <1>6, <2>1, <2>2 DEF vars, clientVars, Inv, TypeOK, BudgetKept, BatchOK
<1> QED BY <1>1, <1>2, <1>3, <1>4, <1>5, <1>6 DEF Next

-----------------------------------------------------------------------------
(* Theorems                                                                *)

LEMMA InvAlways == Spec => []Inv
  BY InvInit, InvNext, PTL DEF Spec

\* No call sends more attempts than a limited budget allows, on any transport, and
\* the breaker's counters stay below its thresholds.
THEOREM TypeCorrect == Spec => []TypeOK
<1>1. Inv => TypeOK
  BY DEF Inv
<1> QED BY <1>1, InvAlways, PTL

\* What a caller is told is what happened to its call.
THEOREM ResultsAreTrue == Spec => []ResultsAreEarned
<1>1. Inv => ResultsAreEarned
  <2> SUFFICES ASSUME Inv, NEW c \in Callers, Over(c), Earned(request[c])
               PROVE  CASE request[c].result = "ok"       -> request[c].served >= 1
                        [] request[c].result = "notfound" ->
                             request[c].served <= request[c].doubt
                        [] request[c].result \in Unsent \cup {"open"} ->
                             request[c].sent = 0
                        [] OTHER -> request[c].sent >= 1
    BY DEF Inv, RequestsOK, Sound, Over, ResultsAreEarned
  <2> QED BY DEF Earned, Unsent
<1> QED BY <1>1, InvAlways, PTL

\* A call is carried out twice only if an answer left open whether it had been
\* carried out before.
THEOREM RepeatsAreDoubted == Spec => []RepeatsNeedDoubt
<1>1. Inv => RepeatsNeedDoubt
  <2> SUFFICES ASSUME Inv, NEW c \in Callers
               PROVE  request[c].served <= 1 + request[c].doubt
    BY DEF RepeatsNeedDoubt
  <2> DEFINE r == request[c]
  <2>1. r \in Requests /\ Sound(r)
    BY DEF Inv, RequestsOK
  <2>2. r.phase \in Phases /\ r.served \in Nat /\ r.doubt \in Nat
    BY <2>1 DEF Requests
  <2> HIDE DEF r
  <2>3. r.served <= 1 + r.doubt
    BY <2>1, <2>2 DEF Sound, Earned, Phases
  <2> QED BY <2>3 DEF r
<1> QED BY <1>1, InvAlways, PTL

\* A GetMultiple succeeds exactly if every key was found or is missing.
THEOREM BatchesAreWhole == Spec => []BatchIsWhole
<1>1. Inv => BatchIsWhole
  BY DEF Inv, BatchOK, BatchIsWhole
<1> QED BY <1>1, InvAlways, PTL

\* The calls of the client, with their retries, meet the breaker as the callers
\* of CircuitBreaker do: its theorems hold inside the client.
THEOREM BreakerIsRefined == Spec => BreakerSpec
<1>1. Init => Breaker!Init
  BY DEF Init
<1>2. [Next]_vars => [Breaker!Next]_(Breaker!vars)
  <2> SUFFICES ASSUME [Next]_vars PROVE Breaker!Next \/ UNCHANGED Breaker!vars
    OBVIOUS
  <2>0. UNCHANGED breakerVars => UNCHANGED Breaker!vars
    BY DEF breakerVars, Breaker!vars, Breaker!counters
  <2>1. ASSUME NEW c \in Callers, Step(c)
        PROVE  Breaker!Next \/ UNCHANGED Breaker!vars
    <3>1. CASE Send(c)
      BY <2>0, <3>1 DEF Send, Breaker!Next
    <3>2. CASE Record(c)
      BY <2>0, <3>2 DEF Record, Breaker!Next
    <3>3. CASE Return(c)
      BY <2>0, <3>3 DEF Return, Breaker!Next
    <3>4. CASE \/ Missing(c) \/ Reject(c) \/ \E answer \in Answers : Answer(c, answer)
               \/ Retry(c) \/ GiveUp(c)
      BY <2>0, <3>4 DEF Missing, Reject, Answer, Retry, GiveUp, Local
    <3>5. CASE Create(c)
      BY <2>0, <3>5 DEF Create
    <3> QED BY <2>1, <3>1, <3>2, <3>3, <3>4, <3>5 DEF Step
  <2>2. ASSUME NEW c \in Callers, Cancel(c) \/ \E op \in Ops : Begin(c, op)
        PROVE  UNCHANGED Breaker!vars
    BY <2>0, <2>2 DEF Cancel, Begin, Local
  <2>3. CASE (\E keys \in SUBSET Callers : GetMultiple(keys)) \/ Convert \/ Finish \/ Close
    BY <2>0, <2>3 DEF GetMultiple, Convert, Finish, Close
  <2>4. CASE Elapse
    BY <2>4 DEF Elapse, Breaker!Next
  <2>5. CASE UNCHANGED vars
    BY <2>0, <2>5 DEF vars
  <2> QED BY <2>1, <2>2, <2>3, <2>4, <2>5 DEF Next
<1> QED BY <1>1, <1>2, PTL DEF Spec, BreakerSpec, Breaker!Spec

-----------------------------------------------------------------------------
(* What CircuitBreakerProofs proves of a breaker, for the breaker in here:  *)
(* with the client's retries inside the calls, its rejections, its transports *)
(* and GetMultiple, and with nobody to call Reset.                          *)

Circuit == INSTANCE CircuitBreakerProofs
             WITH Resets <- FALSE, Panics <- FALSE, healthy <- FALSE

LEMMA CircuitAssumptions ==
  Circuit!ConfigAssumption /\ Circuit!CallersAssumption /\ Circuit!UseAssumption
  BY DEF Circuit!ConfigAssumption, Circuit!CallersAssumption, Circuit!UseAssumption,
     Circuit!IsFiniteSet, IsFiniteSet

LEMMA SameBreaker == Spec => Circuit!Spec
<1>1. Breaker!Init => Circuit!Init
  BY DEF Breaker!Init, Circuit!Init
<1>2. UNCHANGED Breaker!vars => UNCHANGED Circuit!vars
  BY DEF Breaker!vars, Breaker!counters, Circuit!vars, Circuit!counters
<1>3. ASSUME NEW c \in Callers
      PROVE  /\ Breaker!Admit(c) => Circuit!Admit(c)
             /\ Breaker!Success(c) => Circuit!Success(c)
             /\ Breaker!Failure(c) => Circuit!Failure(c)
             /\ Breaker!Panic(c) => Circuit!Panic(c)
  <2> USE DEF Breaker!counters, Circuit!counters, Breaker!Returned, Circuit!Returned
  <2>1. Breaker!Admit(c) => Circuit!Admit(c)
    BY DEF Breaker!Admit, Breaker!AdmitClosed, Breaker!AdmitTest, Breaker!AdmitFirstTest,
       Breaker!TimedOut, Breaker!Outdated, Circuit!Admit, Circuit!AdmitClosed,
       Circuit!AdmitTest, Circuit!AdmitFirstTest, Circuit!TimedOut, Circuit!Outdated
  <2>2. \A new, calls : Breaker!TransitionTo(new, calls) => Circuit!TransitionTo(new, calls)
    BY DEF Breaker!TransitionTo, Breaker!Outdated, Circuit!TransitionTo, Circuit!Outdated
  <2>3. Breaker!Success(c) => Circuit!Success(c)
    BY <2>2 DEF Breaker!Success, Breaker!SuccessClosed, Breaker!SuccessTest,
       Breaker!SuccessOpen, Breaker!EnoughSuccesses, Circuit!Success, Circuit!SuccessClosed,
       Circuit!SuccessTest, Circuit!SuccessOpen, Circuit!EnoughSuccesses
  <2>4. Breaker!Failure(c) => Circuit!Failure(c)
    BY <2>2 DEF Breaker!Failure, Breaker!FailureClosed, Breaker!FailureTest,
       Breaker!FailureOpen, Breaker!EnoughFailures, Circuit!Failure, Circuit!FailureClosed,
       Circuit!FailureTest, Circuit!FailureOpen, Circuit!EnoughFailures
  <2>5. ~Breaker!Panic(c)
    BY DEF Breaker!Panic
  <2> QED BY <2>1, <2>3, <2>4, <2>5
<1>4. Breaker!State \/ Breaker!Elapse => Circuit!State \/ Circuit!Elapse
  BY DEF Breaker!State, Breaker!TimedOut, Breaker!TransitionTo, Breaker!Outdated,
     Breaker!Elapse, Breaker!counters, Circuit!State, Circuit!TimedOut,
     Circuit!TransitionTo, Circuit!Outdated, Circuit!Elapse, Circuit!counters
<1>5. ~Breaker!Reset /\ ~Breaker!Turn
  BY DEF Breaker!Reset, Breaker!Turn
<1>6. [Breaker!Next]_(Breaker!vars) => [Circuit!Next]_(Circuit!vars)
  BY <1>2, <1>3, <1>4, <1>5 DEF Breaker!Next, Circuit!Next
<1> QED BY <1>1, <1>6, BreakerIsRefined, PTL DEF BreakerSpec, Breaker!Spec, Circuit!Spec

\* Inside the client, too, no counter is carried over to another period, and no
\* more calls test the service than the configuration allows.
THEOREM BreakerCountsInClient ==
  Spec => [](Breaker!CountersBelongToState /\ Breaker!TestTrafficIsLimited)
<1>1. /\ Circuit!CountersBelongToState => Breaker!CountersBelongToState
      /\ Circuit!TestTrafficIsLimited => Breaker!TestTrafficIsLimited
  BY DEF Circuit!CountersBelongToState, Breaker!CountersBelongToState,
     Circuit!TestTrafficIsLimited, Breaker!TestTrafficIsLimited, Circuit!Tests, Breaker!Tests,
     Circuit!Cardinality, Breaker!Cardinality
<1>2. Circuit!Spec => []Circuit!CountersBelongToState
  BY CircuitAssumptions, Circuit!CountersAreFresh
<1>3. Circuit!Spec => []Circuit!TestTrafficIsLimited
  BY CircuitAssumptions, Circuit!TestTrafficLimit
<1> QED BY <1>1, <1>2, <1>3, SameBreaker, PTL

\* The client sends nothing while its circuit is open and not timed out, and a
\* result, however late, never takes the circuit off its cycle.
THEOREM BreakerMovesInClient == Spec => Breaker!OpenBlocks /\ Breaker!ResultsKeepTheCycle
<1>0. UNCHANGED Breaker!vars <=> UNCHANGED Circuit!vars
  BY DEF Breaker!vars, Breaker!counters, Circuit!vars, Circuit!counters
<1>1. Circuit!Spec => Circuit!OpenBlocks
  BY CircuitAssumptions, Circuit!OpenCircuitBlocks
<1>2. Circuit!Spec => Circuit!ResultsKeepTheCycle
  BY CircuitAssumptions, Circuit!ResultsFollowTheCycle
<1> QED BY <1>0, <1>1, <1>2, SameBreaker, PTL DEF Breaker!OpenBlocks,
     Breaker!ResultsKeepTheCycle, Circuit!OpenBlocks, Circuit!ResultsKeepTheCycle

\* A client that asks for no more successes than it allows test calls always has
\* slots left for its circuit to close, whatever its retries do.
THEOREM BreakerRecoversInClient ==
  ASSUME SuccessThreshold <= HalfOpenRequests
  PROVE  Spec => []Breaker!SlotsSuffice
<1>1. Circuit!SlotsSuffice => Breaker!SlotsSuffice
  BY DEF Circuit!SlotsSuffice, Breaker!SlotsSuffice, Circuit!Tests, Breaker!Tests,
     Circuit!Cardinality, Breaker!Cardinality
<1>2. Circuit!Spec => []Circuit!SlotsSuffice
  BY CircuitAssumptions, Circuit!SlotsAlwaysSuffice
<1> QED BY <1>1, <1>2, SameBreaker, PTL
=============================================================================
