--------------------------- MODULE CircuitBreaker ---------------------------
(***************************************************************************)
(* The SDK's circuit breaker: sdk/circuit_breaker.go.                      *)
(*                                                                         *)
(* Execute holds the mutex while it admits a call and again while it       *)
(* records the result, and runs the call between the two without it: the   *)
(* result of a call may be recorded in a state, or in a half-open period,  *)
(* later than the one that admitted it.                                    *)
(*                                                                         *)
(* Time is abstracted to whether Timeout has passed since lastFailureTime. *)
(***************************************************************************)
EXTENDS Naturals, FiniteSets

CONSTANTS Callers,            \* goroutines that use the breaker
          FailureThreshold, SuccessThreshold, HalfOpenRequests,
          Resets,             \* does the application call Reset?
          Panics              \* may the protected function panic?

\* What Config.Validate demands; it does not relate the three numbers.
ASSUME ConfigAssumption == /\ FailureThreshold \in Nat \ {0}
                           /\ SuccessThreshold \in Nat \ {0}
                           /\ HalfOpenRequests \in Nat \ {0}
ASSUME CallersAssumption == IsFiniteSet(Callers)
ASSUME UseAssumption     == Resets \in BOOLEAN /\ Panics \in BOOLEAN

VARIABLES state, failures, successes, halfOpenRequests,
          elapsed,    \* now - lastFailureTime >= Timeout
          call,       \* the call each caller is making, by when it was admitted
          healthy     \* does the service answer every call without an error?

counters == <<failures, successes, halfOpenRequests>>
vars     == <<state, counters, elapsed, call, healthy>>

States == {"Closed", "Open", "HalfOpen"}

\* "normal" and "test" calls were admitted in the current Closed or HalfOpen
\* period, "stale" ones in a period that has ended.
Calls == {"none", "normal", "test", "stale"}

Init == /\ state = "Closed"
        /\ failures = 0 /\ successes = 0 /\ halfOpenRequests = 0
        /\ elapsed = TRUE      \* lastFailureTime is the zero time
        /\ call = [c \in Callers |-> "none"]
        /\ healthy \in BOOLEAN

\* The calls still running when a period ends are stale from then on.
Outdated(calls) == [c \in Callers |-> IF calls[c] = "none" THEN "none" ELSE "stale"]

\* Mutants of the two conditions below: one result too many is waited for.
EnoughFailures_OffByOne(n)  == n > FailureThreshold
EnoughSuccesses_OffByOne(n) == n > SuccessThreshold

EnoughFailures(n)  == n >= FailureThreshold
EnoughSuccesses(n) == n >= SuccessThreshold

\* Mutant of TransitionTo: the failure count is not zeroed.
TransitionTo_KeepsFailures(new, calls) ==
  /\ state' = new
  /\ successes' = 0 /\ halfOpenRequests' = 0
  /\ call' = Outdated(calls)
  /\ UNCHANGED failures

\* transitionTo: every change of state zeroes all three counters, but a change
\* to HalfOpen leaves failures alone.  calls are those left running.
TransitionTo(new, calls) ==
  /\ state' = new
  /\ failures' = IF new = "HalfOpen" THEN failures ELSE 0
  /\ successes' = 0 /\ halfOpenRequests' = 0
  /\ call' = Outdated(calls)

\* Mutant of TimedOut: an open circuit is tested at once.
TimedOut_AtOnce == state = "Open"

TimedOut == state = "Open" /\ elapsed

-----------------------------------------------------------------------------
(* Execute: admission.  A rejected call changes nothing.                   *)

AdmitClosed(c) == /\ state = "Closed"
                  /\ call' = [call EXCEPT ![c] = "normal"]
                  /\ UNCHANGED <<state, counters>>

\* Mutant of AdmitTest: one test call too many.
AdmitTest_OffByOne(c) == /\ state = "HalfOpen"
                         /\ halfOpenRequests <= HalfOpenRequests
                         /\ halfOpenRequests' = halfOpenRequests + 1
                         /\ call' = [call EXCEPT ![c] = "test"]
                         /\ UNCHANGED <<state, failures, successes>>

AdmitTest(c) == /\ state = "HalfOpen"
                /\ halfOpenRequests < HalfOpenRequests
                /\ halfOpenRequests' = halfOpenRequests + 1
                /\ call' = [call EXCEPT ![c] = "test"]
                /\ UNCHANGED <<state, failures, successes>>

\* checkStateTransition goes half-open, and the call is its first test.
AdmitFirstTest(c) == /\ TimedOut
                     /\ state' = "HalfOpen"
                     /\ successes' = 0 /\ halfOpenRequests' = 1
                     /\ call' = [Outdated(call) EXCEPT ![c] = "test"]
                     /\ UNCHANGED failures

Admit(c) == /\ call[c] = "none"
            /\ AdmitClosed(c) \/ AdmitTest(c) \/ AdmitFirstTest(c)
            /\ UNCHANGED elapsed /\ healthy' = healthy

-----------------------------------------------------------------------------
(* Execute: recordResult                                                   *)

Returned(c) == [call EXCEPT ![c] = "none"]

\* onSuccess; nothing happens in the Open state.
SuccessClosed(c) == /\ state = "Closed"
                    /\ failures' = 0
                    /\ call' = Returned(c)
                    /\ UNCHANGED <<state, successes, halfOpenRequests>>

SuccessTest(c) == /\ state = "HalfOpen"
                  /\ IF EnoughSuccesses(successes + 1)
                       THEN TransitionTo("Closed", Returned(c))
                       ELSE /\ successes' = successes + 1
                            /\ call' = Returned(c)
                            /\ UNCHANGED <<state, failures, halfOpenRequests>>

\* Mutant of SuccessOpen: a late success closes the open circuit.
SuccessOpen_Closes(c) == state = "Open" /\ TransitionTo("Closed", Returned(c))

SuccessOpen(c) == /\ state = "Open"
                  /\ call' = Returned(c)
                  /\ UNCHANGED <<state, counters>>

Success(c) == /\ call[c] # "none"
              /\ SuccessClosed(c) \/ SuccessTest(c) \/ SuccessOpen(c)
              /\ UNCHANGED elapsed /\ healthy' = healthy

\* onFailure; in the Open state it only moves lastFailureTime.
FailureClosed(c) == /\ state = "Closed"
                    /\ IF EnoughFailures(failures + 1)
                         THEN TransitionTo("Open", Returned(c))
                         ELSE /\ failures' = failures + 1
                              /\ call' = Returned(c)
                              /\ UNCHANGED <<state, successes, halfOpenRequests>>

FailureTest(c) == state = "HalfOpen" /\ TransitionTo("Open", Returned(c))

FailureOpen(c) == /\ state = "Open"
                  /\ call' = Returned(c)
                  /\ UNCHANGED <<state, counters>>

Failure(c) == /\ call[c] # "none" /\ ~healthy
              /\ FailureClosed(c) \/ FailureTest(c) \/ FailureOpen(c)
              /\ elapsed' = FALSE
              /\ healthy' = healthy

\* recordResult is not deferred: a panic passes it by.
Panic(c) == /\ Panics /\ call[c] # "none"
            /\ call' = Returned(c)
            /\ UNCHANGED <<state, counters, elapsed>> /\ healthy' = healthy

-----------------------------------------------------------------------------
(* State, Reset, time and the service                                      *)

State == /\ TimedOut
         /\ TransitionTo("HalfOpen", call)
         /\ UNCHANGED elapsed /\ healthy' = healthy

Reset == /\ Resets
         /\ state' = "Closed"
         /\ failures' = 0 /\ successes' = 0 /\ halfOpenRequests' = 0
         /\ call' = Outdated(call)
         /\ UNCHANGED elapsed /\ healthy' = healthy

Elapse == /\ ~elapsed
          /\ elapsed' = TRUE
          /\ UNCHANGED <<state, counters, call>> /\ healthy' = healthy

\* The service breaks down or heals.
Turn == /\ healthy' = ~healthy
        /\ UNCHANGED <<state, counters, elapsed, call>>

-----------------------------------------------------------------------------
Next == \/ \E c \in Callers : Admit(c) \/ Success(c) \/ Failure(c) \/ Panic(c)
        \/ State \/ Reset \/ Elapse \/ Turn

Spec == Init /\ [][Next]_vars

(***************************************************************************)
(* Fairness.  Time passes; a call returns (the HTTP client has a timeout)  *)
(* and callers keep calling.  The service need never heal, and nobody need *)
(* ask for the state or reset the breaker.                                 *)
(***************************************************************************)
FairSpec == /\ Spec
            /\ WF_vars(Elapse)
            /\ \A c \in Callers : /\ WF_vars(Admit(c))
                                  /\ WF_vars(Success(c) \/ Failure(c))

-----------------------------------------------------------------------------
(* Properties                                                              *)

Tests == {c \in Callers : call[c] = "test"}

\* The counters stay below the thresholds that end their periods.
TypeOK == /\ state \in States
          /\ failures \in Nat /\ failures < FailureThreshold
          /\ successes \in Nat /\ successes < SuccessThreshold
          /\ halfOpenRequests \in 0 .. HalfOpenRequests
          /\ elapsed \in BOOLEAN
          /\ call \in [Callers -> Calls]
          /\ healthy \in BOOLEAN

\* Each counter belongs to one state and is zero in the others, so that none
\* carries what it counted in one period over to the next.
CountersBelongToState == /\ state # "Closed" => failures = 0
                         /\ state # "HalfOpen" => successes = 0 /\ halfOpenRequests = 0

\* In the half-open state no more than HalfOpenRequests calls are testing the
\* service at a time; the calls that were admitted before do not count.
TestTrafficIsLimited ==
  /\ Cardinality(Tests) <= HalfOpenRequests
  /\ state # "HalfOpen" => Tests = {}

\* While the circuit is open and Timeout has not passed since the last failure
\* no call reaches the service, however callers, State and late results mix.
OpenBlocks ==
  [][state = "Open" /\ ~elapsed =>
       \A c \in Callers : call'[c] # "none" => call[c] # "none"]_vars

\* A result never moves the circuit straight between Open and Closed, nor from
\* Closed to HalfOpen, even when it comes from a call of another period: only
\* Reset, which records nothing, closes an open circuit.
ResultsKeepTheCycle ==
  [][(\E c \in Callers : call[c] # "none" /\ call'[c] = "none") =>
       /\ state = "Open"   => state' = "Open"
       /\ state = "Closed" => state' # "HalfOpen"]_vars

\* The test calls of this half-open period that have succeeded, are running or
\* may still start are enough to close the circuit.  A panic uses a slot up, and
\* a configuration with HalfOpenRequests < SuccessThreshold, which
\* Config.Validate accepts, starts every half-open period without enough.
SlotsSuffice ==
  state = "HalfOpen" =>
    SuccessThreshold <= successes + Cardinality(Tests)
                        + (HalfOpenRequests - halfOpenRequests)

\* A service that is healthy from some time on gets all its traffic back, the
\* circuit closes and stays closed, unless the slots of a half-open period have
\* run out: that, and only that, leaves the circuit half-open for ever.
RecoversWithService == <>[](healthy /\ SlotsSuffice) => <>[](state = "Closed")
=============================================================================
