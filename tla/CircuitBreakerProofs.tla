------------------------ MODULE CircuitBreakerProofs ------------------------
(***************************************************************************)
(* Theorems about CircuitBreaker, for any thresholds and any finite number *)
(* of callers.                                                             *)
(***************************************************************************)
EXTENDS CircuitBreaker, TLAPS, FiniteSetTheorems

USE ConfigAssumption, CallersAssumption, UseAssumption

\* Every test call of this half-open period has taken a slot, and slots are
\* given back only when the period ends.
SlotsCoverTests == /\ state = "HalfOpen" => Cardinality(Tests) <= halfOpenRequests
                   /\ state # "HalfOpen" => Tests = {}

BreakerInv == TypeOK /\ CountersBelongToState /\ SlotsCoverTests

LEMMA TestsFinite == IsFiniteSet(Tests) /\ Cardinality(Tests) \in Nat
  BY FS_Subset, FS_CardinalityType DEF Tests

LEMMA BreakerInit == Init => BreakerInv
<1> SUFFICES ASSUME Init PROVE BreakerInv
  OBVIOUS
<1>1. TypeOK
  BY DEF Init, TypeOK, States, Calls
<1>2. Tests = {}
  BY DEF Init, Tests
<1> QED BY <1>1, <1>2 DEF Init, BreakerInv, CountersBelongToState, SlotsCoverTests

\* A change of state leaves no counter above zero and no test call.
LEMMA TransitionInv ==
  ASSUME BreakerInv, NEW new \in States, NEW calls \in [Callers -> Calls],
         new = "HalfOpen" => failures = 0, TransitionTo(new, calls),
         elapsed' \in BOOLEAN, healthy' \in BOOLEAN
  PROVE  BreakerInv'
<1>1. call' \in [Callers -> Calls] /\ \A c \in Callers : call'[c] # "test"
  BY DEF TransitionTo, Outdated, Calls
<1>2. Tests' = {}
  BY <1>1 DEF Tests
<1>3. Cardinality(Tests') = 0
  BY <1>2, FS_EmptySet
<1>4. /\ failures' = 0 /\ successes' = 0 /\ halfOpenRequests' = 0
      /\ state' = new
  BY DEF TransitionTo
<1>5. TypeOK'
  BY <1>1, <1>4 DEF TypeOK
<1> QED BY <1>2, <1>3, <1>4, <1>5 DEF BreakerInv, CountersBelongToState, SlotsCoverTests

\* No test call is added.
LEMMA FewerTests ==
  ASSUME BreakerInv, state' = state, halfOpenRequests' = halfOpenRequests,
         Tests' \subseteq Tests
  PROVE  SlotsCoverTests'
<1>1. Cardinality(Tests') <= Cardinality(Tests) /\ Cardinality(Tests') \in Nat
  BY TestsFinite, FS_Subset, FS_CardinalityType
<1> QED BY <1>1, TestsFinite DEF BreakerInv, SlotsCoverTests, TypeOK

LEMMA AdmitInv ==
  ASSUME BreakerInv, NEW c \in Callers, Admit(c)
  PROVE  BreakerInv'
<1>0. call \in [Callers -> Calls] /\ elapsed' = elapsed /\ healthy' = healthy
  BY DEF BreakerInv, TypeOK, Admit
<1>1. CASE AdmitClosed(c)
  <2>1. call' = [call EXCEPT ![c] = "normal"] /\ UNCHANGED <<state, counters>>
    BY <1>1 DEF AdmitClosed
  <2>2. Tests' \subseteq Tests
    BY <1>0, <2>1 DEF Tests
  <2>3. SlotsCoverTests'
    BY <2>1, <2>2, FewerTests DEF counters
  <2> QED BY <1>0, <2>1, <2>3 DEF BreakerInv, TypeOK, CountersBelongToState, counters, Calls
<1>2. CASE AdmitTest(c)
  <2>1. /\ state = "HalfOpen" /\ halfOpenRequests < HalfOpenRequests
        /\ halfOpenRequests' = halfOpenRequests + 1
        /\ call' = [call EXCEPT ![c] = "test"]
        /\ UNCHANGED <<state, failures, successes>>
    BY <1>2 DEF AdmitTest
  <2>2. Tests' = Tests \cup {c}
    BY <1>0, <2>1 DEF Tests
  <2>3. c \notin Tests
    BY DEF Admit, Tests
  <2>4. Cardinality(Tests \cup {c}) = Cardinality(Tests) + 1
    BY <2>3, TestsFinite, FS_AddElement
  <2>5. SlotsCoverTests'
    <3>1. Cardinality(Tests') = Cardinality(Tests) + 1
      BY <2>2, <2>4
    <3> QED BY <2>1, <3>1, TestsFinite DEF BreakerInv, SlotsCoverTests, TypeOK
  <2>6. TypeOK'
    BY <1>0, <2>1 DEF BreakerInv, TypeOK, Calls
  <2> QED BY <2>1, <2>5, <2>6 DEF BreakerInv, CountersBelongToState
<1>3. CASE AdmitFirstTest(c)
  <2>1. /\ state = "Open" /\ state' = "HalfOpen" /\ successes' = 0
        /\ halfOpenRequests' = 1 /\ failures' = failures
        /\ call' = [Outdated(call) EXCEPT ![c] = "test"]
    BY <1>3 DEF AdmitFirstTest, TimedOut
  <2>2. Tests' = {c}
    BY <2>1 DEF Tests, Outdated
  <2>3. Cardinality(Tests') = 1
    BY <2>2, FS_Singleton
  <2>4. TypeOK'
    BY <1>0, <2>1 DEF BreakerInv, TypeOK, Calls, Outdated, States
  <2> QED BY <2>1, <2>3, <2>4 DEF BreakerInv, CountersBelongToState, SlotsCoverTests
<1> QED BY <1>1, <1>2, <1>3 DEF Admit

\* A result that is only recorded.
LEMMA RecordInv ==
  ASSUME BreakerInv, NEW c \in Callers, call' = Returned(c),
         UNCHANGED <<state, halfOpenRequests>>,
         elapsed' \in BOOLEAN, healthy' \in BOOLEAN,
         failures' \in Nat, failures' < FailureThreshold,
         successes' \in Nat, successes' < SuccessThreshold,
         CountersBelongToState'
  PROVE  BreakerInv'
<1>1. call' \in [Callers -> Calls] /\ Tests' \subseteq Tests
  BY DEF BreakerInv, TypeOK, Returned, Calls, Tests
<1>2. SlotsCoverTests'
  BY <1>1, FewerTests
<1> QED BY <1>1, <1>2 DEF BreakerInv, TypeOK

LEMMA ResultInv ==
  ASSUME BreakerInv, NEW c \in Callers, Success(c) \/ Failure(c) \/ Panic(c)
  PROVE  BreakerInv'
<1>0. /\ Returned(c) \in [Callers -> Calls]
      /\ elapsed' \in BOOLEAN /\ healthy' \in BOOLEAN
  <2>1. Returned(c) \in [Callers -> Calls]
    BY DEF BreakerInv, TypeOK, Returned, Calls
  <2>2. elapsed' \in BOOLEAN /\ healthy' \in BOOLEAN
    BY DEF BreakerInv, TypeOK, Success, Failure, Panic
  <2> QED BY <2>1, <2>2
<1>1. CASE SuccessClosed(c)
  BY <1>0, <1>1, RecordInv DEF SuccessClosed, BreakerInv, TypeOK, CountersBelongToState
<1>2. CASE SuccessTest(c)
  <2>1. CASE EnoughSuccesses(successes + 1)
    BY <1>0, <1>2, <2>1, TransitionInv DEF SuccessTest, States
  <2>2. CASE ~EnoughSuccesses(successes + 1)
    BY <1>0, <1>2, <2>2, RecordInv
       DEF SuccessTest, EnoughSuccesses, BreakerInv, TypeOK, CountersBelongToState
  <2> QED BY <2>1, <2>2
<1>3. CASE SuccessOpen(c) \/ FailureOpen(c) \/ Panic(c)
  BY <1>0, <1>3, RecordInv
     DEF SuccessOpen, FailureOpen, Panic, counters, BreakerInv, TypeOK, CountersBelongToState
<1>4. CASE FailureClosed(c)
  <2>1. CASE EnoughFailures(failures + 1)
    BY <1>0, <1>4, <2>1, TransitionInv DEF FailureClosed, States
  <2>2. CASE ~EnoughFailures(failures + 1)
    BY <1>0, <1>4, <2>2, RecordInv
       DEF FailureClosed, EnoughFailures, BreakerInv, TypeOK, CountersBelongToState
  <2> QED BY <2>1, <2>2
<1>5. CASE FailureTest(c)
  BY <1>0, <1>5, TransitionInv DEF FailureTest, States
<1> QED BY <1>1, <1>2, <1>3, <1>4, <1>5 DEF Success, Failure

LEMMA BreakerNext == BreakerInv /\ [Next]_vars => BreakerInv'
<1> SUFFICES ASSUME BreakerInv, [Next]_vars PROVE BreakerInv'
  OBVIOUS
<1>0. call \in [Callers -> Calls]
  BY DEF BreakerInv, TypeOK
<1>1. CASE \E c \in Callers : Admit(c)
  BY <1>1, AdmitInv
<1>2. CASE \E c \in Callers : Success(c) \/ Failure(c) \/ Panic(c)
  BY <1>2, ResultInv
<1>3. CASE State
  BY <1>0, <1>3, TransitionInv
     DEF State, TimedOut, States, BreakerInv, TypeOK, CountersBelongToState
<1>4. CASE Reset
  BY <1>0, <1>4, TransitionInv DEF Reset, TransitionTo, States, BreakerInv, TypeOK
<1>5. CASE Elapse \/ Turn \/ UNCHANGED vars
  <2>1. UNCHANGED <<state, failures, successes, halfOpenRequests, call>>
        /\ elapsed' \in BOOLEAN /\ healthy' \in BOOLEAN
    BY <1>5 DEF Elapse, Turn, vars, counters, BreakerInv, TypeOK
  <2>2. Tests' = Tests
    BY <2>1 DEF Tests
  <2> QED BY <2>1, <2>2 DEF BreakerInv, TypeOK, CountersBelongToState, SlotsCoverTests
<1> QED BY <1>1, <1>2, <1>3, <1>4, <1>5 DEF Next

LEMMA BreakerAlways == Spec => []BreakerInv
  BY BreakerInit, BreakerNext, PTL DEF Spec

\* The counters never reach the thresholds that end their periods.
THEOREM BreakerTypeCorrect == Spec => []TypeOK
<1>1. BreakerInv => TypeOK
  BY DEF BreakerInv
<1> QED BY <1>1, BreakerAlways, PTL

\* No counter carries over from one period to the next.
THEOREM CountersAreFresh == Spec => []CountersBelongToState
<1>1. BreakerInv => CountersBelongToState
  BY DEF BreakerInv
<1> QED BY <1>1, BreakerAlways, PTL

\* A recovering service gets at most HalfOpenRequests test calls at a time.
THEOREM TestTrafficLimit == Spec => []TestTrafficIsLimited
<1>1. BreakerInv => TestTrafficIsLimited
  <2> SUFFICES ASSUME BreakerInv PROVE TestTrafficIsLimited
    OBVIOUS
  <2>1. CASE state = "HalfOpen"
    BY <2>1, TestsFinite DEF BreakerInv, TypeOK, SlotsCoverTests, TestTrafficIsLimited
  <2>2. CASE state # "HalfOpen"
    BY <2>2, FS_EmptySet DEF BreakerInv, SlotsCoverTests, TestTrafficIsLimited
  <2> QED BY <2>1, <2>2
<1> QED BY <1>1, BreakerAlways, PTL

\* No call reaches the service while the circuit is open and Timeout has not
\* passed since the last failure.
THEOREM OpenCircuitBlocks == Spec => OpenBlocks
<1>1. BreakerInv /\ [Next]_vars =>
        [state = "Open" /\ ~elapsed =>
           \A c \in Callers : call'[c] # "none" => call[c] # "none"]_vars
  <2> SUFFICES ASSUME BreakerInv, Next, state = "Open", ~elapsed,
                      NEW c \in Callers, call'[c] # "none"
               PROVE  call[c] # "none"
    OBVIOUS
  <2>0. call \in [Callers -> Calls]
    BY DEF BreakerInv, TypeOK
  <2>1. \A d \in Callers : ~Admit(d)
    BY DEF Admit, AdmitClosed, AdmitTest, AdmitFirstTest, TimedOut
  <2>2. CASE \E d \in Callers : Success(d) \/ Failure(d) \/ Panic(d)
    BY <2>0, <2>2 DEF Success, SuccessClosed, SuccessTest, SuccessOpen,
         Failure, FailureClosed, FailureTest, FailureOpen, Panic, Returned
  <2>3. CASE State \/ Reset \/ Elapse \/ Turn
    BY <2>0, <2>3 DEF State, TimedOut, Reset, Outdated, Elapse, Turn
  <2> QED BY <2>1, <2>2, <2>3 DEF Next
<1> QED BY <1>1, BreakerAlways, PTL DEF Spec, OpenBlocks

\* A result, late or not, moves an open circuit nowhere and a closed one never
\* to half-open.
THEOREM ResultsFollowTheCycle == Spec => ResultsKeepTheCycle
<1>1. BreakerInv /\ [Next]_vars =>
        [(\E c \in Callers : call[c] # "none" /\ call'[c] = "none") =>
           /\ state = "Open"   => state' = "Open"
           /\ state = "Closed" => state' # "HalfOpen"]_vars
  <2> SUFFICES ASSUME BreakerInv, Next,
                      NEW c \in Callers, call[c] # "none", call'[c] = "none"
               PROVE  /\ state = "Open"   => state' = "Open"
                      /\ state = "Closed" => state' # "HalfOpen"
    OBVIOUS
  <2>0. call \in [Callers -> Calls]
    BY DEF BreakerInv, TypeOK
  <2>1. ASSUME NEW d \in Callers, Admit(d) PROVE FALSE
    BY <2>0, <2>1 DEF Admit, AdmitClosed, AdmitTest, AdmitFirstTest, Outdated
  <2>2. CASE \E d \in Callers : Success(d) \/ Failure(d) \/ Panic(d)
    BY <2>2 DEF Success, SuccessClosed, SuccessTest, SuccessOpen, TransitionTo,
         Failure, FailureClosed, FailureTest, FailureOpen, Panic, counters
  <2>3. ~State /\ ~Reset /\ ~Elapse /\ ~Turn
    BY <2>0 DEF State, Reset, TransitionTo, Outdated, Elapse, Turn
  <2> QED BY <2>1, <2>2, <2>3 DEF Next
<1> QED BY <1>1, BreakerAlways, PTL DEF Spec, ResultsKeepTheCycle

-----------------------------------------------------------------------------
(* The budget of a half-open period                                         *)

\* Unless calls panic, a slot is held by a running test or was paid back with a
\* success: a failure ends the period.  (A late success of another period is
\* counted too, which takes no slot.)
SlotsAccounted == state = "HalfOpen" => halfOpenRequests <= successes + Cardinality(Tests)

\* A caller that is not testing leaves the tests alone, one that is leaves one
\* fewer.
LEMMA TestsAfterReturn ==
  ASSUME BreakerInv, NEW c \in Callers, call' = Returned(c)
  PROVE  Cardinality(Tests') \in Nat /\ Cardinality(Tests) <= Cardinality(Tests') + 1
<1>0. call \in [Callers -> Calls] /\ call' = [call EXCEPT ![c] = "none"]
  BY DEF BreakerInv, TypeOK, Returned
<1>1. Tests' = Tests \ {c}
  BY <1>0 DEF Tests
<1>2. Cardinality(Tests \ {c}) = IF c \in Tests THEN Cardinality(Tests) - 1 ELSE Cardinality(Tests)
  BY TestsFinite, FS_RemoveElement
<1>3. Cardinality(Tests \ {c}) \in Nat
  BY TestsFinite, FS_Subset, FS_CardinalityType
<1>4. Cardinality(Tests') = Cardinality(Tests \ {c})
  BY <1>1
<1> QED BY <1>2, <1>3, <1>4, TestsFinite

LEMMA AccountedNext ==
  ASSUME ~Panics, BreakerInv, SlotsAccounted, [Next]_vars
  PROVE  SlotsAccounted'
<1> SUFFICES ASSUME state' = "HalfOpen"
             PROVE  halfOpenRequests' <= successes' + Cardinality(Tests')
  BY DEF SlotsAccounted
<1>0. /\ BreakerInv' /\ halfOpenRequests' \in Nat /\ successes \in Nat
      /\ halfOpenRequests \in Nat /\ call \in [Callers -> Calls]
      /\ Cardinality(Tests) \in Nat /\ Cardinality(Tests') \in Nat
  <2>1. BreakerInv'
    BY BreakerNext
  <2>2. Tests' \subseteq Callers
    BY DEF Tests
  <2> QED BY <2>1, <2>2, TestsFinite, FS_Subset, FS_CardinalityType DEF BreakerInv, TypeOK
<1>1. CASE halfOpenRequests' = 0
  BY <1>0, <1>1 DEF BreakerInv, TypeOK
<1>2. ASSUME NEW c \in Callers, Admit(c), halfOpenRequests' # 0
      PROVE  halfOpenRequests' <= successes' + Cardinality(Tests')
  <2>1. CASE AdmitTest(c)
    <3>1. /\ Tests' = Tests \cup {c} /\ c \notin Tests
          /\ halfOpenRequests' = halfOpenRequests + 1 /\ successes' = successes
          /\ state = "HalfOpen"
      BY <1>0, <1>2, <2>1 DEF Admit, AdmitTest, Tests
    <3>2. Cardinality(Tests') = Cardinality(Tests) + 1
      BY <3>1, TestsFinite, FS_AddElement
    <3> QED BY <1>0, <3>1, <3>2 DEF SlotsAccounted
  <2>2. CASE AdmitFirstTest(c)
    <3>1. Tests' = {c} /\ halfOpenRequests' = 1 /\ successes' = 0
      BY <2>2 DEF AdmitFirstTest, Tests, Outdated
    <3> QED BY <3>1, FS_Singleton
  <2>3. ~AdmitClosed(c)
    BY DEF AdmitClosed
  <2> QED BY <1>2, <2>1, <2>2, <2>3 DEF Admit
<1>3. ASSUME NEW c \in Callers, SuccessTest(c), halfOpenRequests' # 0
      PROVE  halfOpenRequests' <= successes' + Cardinality(Tests')
  <2>1. /\ state = "HalfOpen" /\ halfOpenRequests' = halfOpenRequests
        /\ successes' = successes + 1 /\ call' = Returned(c)
    BY <1>3 DEF SuccessTest, TransitionTo
  <2> QED BY <1>0, <2>1, TestsAfterReturn DEF SlotsAccounted
<1>4. ASSUME NEW c \in Callers, Success(c) \/ Failure(c)
      PROVE  halfOpenRequests' = 0 \/ SuccessTest(c)
  BY <1>4 DEF Success, Failure, SuccessClosed, SuccessOpen, FailureClosed, FailureTest,
     FailureOpen, TransitionTo, counters
<1>5. CASE State \/ Reset
  BY <1>1, <1>5 DEF State, Reset, TransitionTo
<1>6. CASE Elapse \/ Turn \/ UNCHANGED vars
  <2>1. UNCHANGED <<state, successes, halfOpenRequests, call>>
    BY <1>6 DEF Elapse, Turn, vars, counters
  <2> QED BY <2>1 DEF SlotsAccounted, Tests
<1>7. \A c \in Callers : ~Panic(c)
  BY DEF Panic
<1> QED BY <1>1, <1>2, <1>3, <1>4, <1>5, <1>6, <1>7 DEF Next

\* Without panics, a configuration that allows as many test calls as it asks
\* successes for never runs out of them: the one thing that keeps a circuit from
\* recovering with its service is ruled out.
THEOREM SlotsAlwaysSuffice ==
  ASSUME ~Panics, SuccessThreshold <= HalfOpenRequests
  PROVE  Spec => []SlotsSuffice
<1>1. Init => SlotsAccounted
  BY DEF Init, SlotsAccounted
<1>2. BreakerInv /\ SlotsAccounted /\ [Next]_vars => SlotsAccounted'
  BY AccountedNext
<1>3. BreakerInv /\ SlotsAccounted => SlotsSuffice
  BY TestsFinite DEF BreakerInv, TypeOK, SlotsAccounted, SlotsSuffice
<1> QED BY <1>1, <1>2, <1>3, BreakerAlways, PTL DEF Spec

\* Whatever the configuration: as long as the slots suffice, a half-open circuit
\* admits a test call or is waiting for the result of one.
THEOREM HalfOpenGoesOn ==
  Spec => [](state = "HalfOpen" /\ SlotsSuffice =>
               halfOpenRequests < HalfOpenRequests \/ Tests # {})
<1>1. BreakerInv => (state = "HalfOpen" /\ SlotsSuffice =>
                       halfOpenRequests < HalfOpenRequests \/ Tests # {})
  BY FS_EmptySet DEF BreakerInv, TypeOK, SlotsSuffice
<1> QED BY <1>1, BreakerAlways, PTL
=============================================================================
