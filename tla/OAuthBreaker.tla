---------------------------- MODULE OAuthBreaker ----------------------------
(***************************************************************************)
(* DefaultCircuitBreaker of oauth/circuit_breaker.go.                      *)
(*                                                                         *)
(* Callers run Call concurrently.  The state word, the half-open counter   *)
(* and the consecutive counters are atomics; the bookkeeping after fn      *)
(* returns is a critical section of the mutex mu.  A critical section      *)
(* that touches at most one word visible outside mu is one action; Reset   *)
(* touches two (the state and the half-open counter) and so is two.        *)
(*                                                                         *)
(* Data abstractions.  The lifetime totals and timestamps that only        *)
(* GetStats reports are left out.  The consecutive counters are only       *)
(* compared with a threshold, so they saturate there.  A deadline is kept  *)
(* as the number of ticks still to pass before time.Now().After(deadline). *)
(***************************************************************************)
EXTENDS Integers, FiniteSets

CONSTANTS
  Callers,              \* the goroutines that run Call
  FailureThreshold,     \* config.FailureThreshold
  SuccessThreshold,     \* config.SuccessThreshold
  Timeout,              \* config.Timeout, in ticks
  MaxHalfOpenRequests   \* config.MaxHalfOpenRequests

\* NewDefaultCircuitBreaker replaces every setting that is not positive.
ASSUME ConfigAssumption ==
  /\ IsFiniteSet(Callers)
  /\ FailureThreshold \in Nat \ {0}
  /\ SuccessThreshold \in Nat \ {0}
  /\ Timeout \in Nat \ {0}
  /\ MaxHalfOpenRequests \in Nat \ {0}

VARIABLES
  state,                \* the circuit
  consecutiveSuccesses,
  consecutiveFailures,
  retryIn,              \* nextRetryTime, as ticks still to pass
  halfOpenRequests,     \* the half-open admission counter
  mu,                   \* "reset" while Reset is between its two stores
  pc,                   \* where each caller is inside Call
  seenRetry,            \* the nextRetryTime a caller copied in callOpen
  provider              \* whether the protected calls succeed at present

vars == <<state, consecutiveSuccesses, consecutiveFailures, retryIn,
          halfOpenRequests, mu, pc, seenRetry, provider>>

counters == <<consecutiveSuccesses, consecutiveFailures>>

States == {"closed", "open", "half_open"}

\* closedFn and trial are inside fn; undo and leave still owe a decrement.
PCs == {"idle", "closedFn", "readRetry", "cas", "zero",
        "enter", "undo", "trial", "leave"}

Min2(a, b) == IF a < b THEN a ELSE b
Less1(n) == IF n = 0 THEN 0 ELSE n - 1

Goto(c, l) == pc' = [pc EXCEPT ![c] = l]

\* Callers that have incremented halfOpenRequests and not decremented it yet.
Holders == {c \in Callers : pc[c] \in {"undo", "trial", "leave"}}

\* Callers running the protected function as a half-open trial.
Trials == {c \in Callers : pc[c] = "trial"}

-----------------------------------------------------------------------------
Init ==
  /\ state = "closed"
  /\ consecutiveSuccesses = 0
  /\ consecutiveFailures = 0
  /\ retryIn = 0
  /\ halfOpenRequests = 0
  /\ mu = "free"
  /\ pc = [c \in Callers |-> "idle"]
  /\ seenRetry = [c \in Callers |-> 0]
  /\ provider \in {"up", "down"}

\* Call: load the state once and dispatch on the value loaded.
Call(c) ==
  /\ pc[c] = "idle"
  /\ Goto(c, CASE state = "closed" -> "closedFn"
               [] state = "open" -> "readRetry"
               [] state = "half_open" -> "enter")
  /\ UNCHANGED <<state, counters, retryIn, halfOpenRequests, mu,
                 seenRetry, provider>>

\* Mutant of Trip: the deadline is set one tick too far.
TripLate ==
  /\ state' = "open"
  /\ retryIn' = Timeout + 1

\* setState(1) and the new nextRetryTime, inside the caller's critical section.
Trip ==
  /\ state' = "open"
  /\ retryIn' = Timeout

\* callClosed, fn failed: the failures are counted whatever the state is now.
RecordClosedFailure(c) ==
  /\ pc[c] = "closedFn"
  /\ provider = "down"
  /\ mu = "free"
  /\ consecutiveFailures' = Min2(consecutiveFailures + 1, FailureThreshold)
  /\ consecutiveSuccesses' = 0
  /\ IF consecutiveFailures' >= FailureThreshold
       THEN Trip
       ELSE UNCHANGED <<state, retryIn>>
  /\ Goto(c, "idle")
  /\ UNCHANGED <<halfOpenRequests, mu, seenRetry, provider>>

\* callClosed, fn succeeded.
RecordClosedSuccess(c) ==
  /\ pc[c] = "closedFn"
  /\ provider = "up"
  /\ mu = "free"
  /\ consecutiveSuccesses' = Min2(consecutiveSuccesses + 1, SuccessThreshold)
  /\ consecutiveFailures' = 0
  /\ Goto(c, "idle")
  /\ UNCHANGED <<state, retryIn, halfOpenRequests, mu, seenRetry, provider>>

\* callOpen copies nextRetryTime under the read lock.
ReadRetry(c) ==
  /\ pc[c] = "readRetry"
  /\ mu = "free"
  /\ seenRetry' = [seenRetry EXCEPT ![c] = retryIn]
  /\ Goto(c, "cas")
  /\ UNCHANGED <<state, counters, retryIn, halfOpenRequests, mu, provider>>

\* Mutant of CompareAndSwap: the comparison with the clock is the wrong way.
SwapBeforeDeadline(c) ==
  /\ pc[c] = "cas"
  /\ IF seenRetry[c] > 0 /\ state = "open"
       THEN state' = "half_open" /\ Goto(c, "zero")
       ELSE UNCHANGED state /\ Goto(c, "idle")
  /\ seenRetry' = [seenRetry EXCEPT ![c] = 0]
  /\ UNCHANGED <<counters, retryIn, halfOpenRequests, mu, provider>>

\* callOpen compares its copy with the clock and swaps open for half-open.
CompareAndSwap(c) ==
  /\ pc[c] = "cas"
  /\ IF seenRetry[c] = 0 /\ state = "open"
       THEN state' = "half_open" /\ Goto(c, "zero")
       ELSE UNCHANGED state /\ Goto(c, "idle")
  /\ seenRetry' = [seenRetry EXCEPT ![c] = 0]
  /\ UNCHANGED <<counters, retryIn, halfOpenRequests, mu, provider>>

\* The store that follows a successful swap, a step of its own.
ZeroSlots(c) ==
  /\ pc[c] = "zero"
  /\ halfOpenRequests' = 0
  /\ Goto(c, "enter")
  /\ UNCHANGED <<state, counters, retryIn, mu, seenRetry, provider>>

\* Mutant of Enter: decides on the value before the increment.
EnterOnOldValue(c) ==
  /\ pc[c] = "enter"
  /\ halfOpenRequests' = halfOpenRequests + 1
  /\ Goto(c, IF halfOpenRequests > MaxHalfOpenRequests THEN "undo" ELSE "trial")
  /\ UNCHANGED <<state, counters, retryIn, mu, seenRetry, provider>>

\* callHalfOpen increments the counter and decides on the value it got.
Enter(c) ==
  /\ pc[c] = "enter"
  /\ halfOpenRequests' = halfOpenRequests + 1
  /\ Goto(c, IF halfOpenRequests' > MaxHalfOpenRequests
               THEN "undo" ELSE "trial")
  /\ UNCHANGED <<state, counters, retryIn, mu, seenRetry, provider>>

\* The decrement before ErrTooManyRequests, or the deferred one.
Release(c) ==
  /\ pc[c] \in {"undo", "leave"}
  /\ halfOpenRequests' = halfOpenRequests - 1
  /\ Goto(c, "idle")
  /\ UNCHANGED <<state, counters, retryIn, mu, seenRetry, provider>>

\* callHalfOpen, fn failed: back to open, whatever the state is now.
RecordTrialFailure(c) ==
  /\ pc[c] = "trial"
  /\ provider = "down"
  /\ mu = "free"
  /\ consecutiveSuccesses' = 0
  /\ Trip
  /\ Goto(c, "leave")
  /\ UNCHANGED <<consecutiveFailures, halfOpenRequests, mu, seenRetry, provider>>

\* Mutant of RecordTrialSuccess: closes without forgetting the failures.
CloseKeepsFailures(c) ==
  /\ pc[c] = "trial"
  /\ provider = "up"
  /\ mu = "free"
  /\ consecutiveSuccesses' = Min2(consecutiveSuccesses + 1, SuccessThreshold)
  /\ IF consecutiveSuccesses' >= SuccessThreshold
       THEN state' = "closed" ELSE UNCHANGED state
  /\ Goto(c, "leave")
  /\ UNCHANGED <<consecutiveFailures, retryIn, halfOpenRequests, mu,
                 seenRetry, provider>>

\* callHalfOpen, fn succeeded: close once the threshold is met.
RecordTrialSuccess(c) ==
  /\ pc[c] = "trial"
  /\ provider = "up"
  /\ mu = "free"
  /\ consecutiveSuccesses' = Min2(consecutiveSuccesses + 1, SuccessThreshold)
  /\ IF consecutiveSuccesses' >= SuccessThreshold
       THEN state' = "closed" /\ consecutiveFailures' = 0
       ELSE UNCHANGED <<state, consecutiveFailures>>
  /\ Goto(c, "leave")
  /\ UNCHANGED <<retryIn, halfOpenRequests, mu, seenRetry, provider>>

\* Mutants of FnPanics: the decrement is not deferred, so that a panic skips it;
\* a recovery decrements as well as the deferred call.
PanicSkipsDecrement(c) ==
  /\ provider = "down"
  /\ pc[c] \in {"closedFn", "trial"}
  /\ Goto(c, "idle")
  /\ UNCHANGED <<state, counters, retryIn, halfOpenRequests, mu,
                 seenRetry, provider>>

PanicDecrementsTwice(c) ==
  /\ provider = "down"
  /\ \/ pc[c] = "closedFn" /\ Goto(c, "idle") /\ UNCHANGED halfOpenRequests
     \/ /\ pc[c] = "trial" /\ Goto(c, "leave")
        /\ halfOpenRequests' = halfOpenRequests - 1
  /\ UNCHANGED <<state, counters, retryIn, mu, seenRetry, provider>>

\* fn panics: callClosed records nothing, callHalfOpen runs its deferred
\* decrement.
FnPanics(c) ==
  /\ provider = "down"
  /\ \/ pc[c] = "closedFn" /\ Goto(c, "idle")
     \/ pc[c] = "trial" /\ Goto(c, "leave")
  /\ UNCHANGED <<state, counters, retryIn, halfOpenRequests, mu,
                 seenRetry, provider>>

\* Reset, under mu: the state word first, the half-open counter later.
ResetState ==
  /\ mu = "free"
  /\ mu' = "reset"
  /\ state' = "closed"
  /\ consecutiveSuccesses' = 0
  /\ consecutiveFailures' = 0
  /\ UNCHANGED <<retryIn, halfOpenRequests, pc, seenRetry, provider>>

ResetSlots ==
  /\ mu = "reset"
  /\ mu' = "free"
  /\ halfOpenRequests' = 0
  /\ retryIn' = 0
  /\ UNCHANGED <<state, counters, pc, seenRetry, provider>>

\* The clock.
Tick ==
  /\ retryIn' = Less1(retryIn)
  /\ seenRetry' = [c \in Callers |-> Less1(seenRetry[c])]
  /\ UNCHANGED <<state, counters, halfOpenRequests, mu, pc, provider>>

\* The protected service fails or comes back.
ProviderChanges ==
  /\ provider' \in {"up", "down"} \ {provider}
  /\ UNCHANGED <<state, counters, retryIn, halfOpenRequests, mu, pc, seenRetry>>

Step(c) ==
  \/ Call(c)
  \/ RecordClosedFailure(c) \/ RecordClosedSuccess(c)
  \/ ReadRetry(c) \/ CompareAndSwap(c) \/ ZeroSlots(c)
  \/ Enter(c) \/ Release(c)
  \/ RecordTrialFailure(c) \/ RecordTrialSuccess(c)
  \/ FnPanics(c)

Next ==
  \/ \E c \in Callers : Step(c)
  \/ ResetState \/ ResetSlots
  \/ Tick \/ ProviderChanges

Spec == Init /\ [][Next]_vars

\* Goroutines are scheduled, clients keep calling, a Reset that began ends and
\* the clock advances.  Nothing is assumed of Reset's start or of the provider.
Fairness ==
  /\ \A c \in Callers : WF_vars(Step(c))
  /\ WF_vars(ResetSlots)
  /\ WF_vars(Tick)

FairSpec == Spec /\ Fairness

-----------------------------------------------------------------------------
\* Every variable keeps its type.  halfOpenRequests is an integer and not a
\* natural number: a decrement deferred across a Reset takes it below zero.
TypeOK ==
  /\ state \in States
  /\ consecutiveSuccesses \in 0 .. SuccessThreshold
  /\ consecutiveFailures \in 0 .. FailureThreshold
  /\ retryIn \in 0 .. Timeout
  /\ halfOpenRequests \in Int
  /\ mu \in {"free", "reset"}
  /\ pc \in [Callers -> PCs]
  /\ seenRetry \in [Callers -> 0 .. Timeout]
  /\ provider \in {"up", "down"}

\* The half-open counter never counts a call that has left: it is at most the
\* number of callers between their increment and their decrement.  So no
\* interleaving of Reset, the late store in callOpen, rejections and panics
\* leaks a slot and locks the half-open circuit out for good.
SlotsNeverLeak == halfOpenRequests <= Cardinality(Holders)

\* The other direction: stores that forget the callers in flight make the
\* counter drift down, by no more than the number of callers, however often
\* they happen.
SlotDriftBounded ==
  halfOpenRequests >= Cardinality(Holders) - Cardinality(Callers)

\* A closed circuit always has failures left to absorb: the failures that
\* opened it, and late ones recorded since, are forgotten when it closes.
ClosedHasFailureBudget ==
  state = "closed" => consecutiveFailures < FailureThreshold

\* More trials than MaxHalfOpenRequests only run to the extent that the counter
\* has drifted: as long as no store has forgotten a caller in flight the limit
\* is exact, whatever the order of increments, rejections and decrements.
ExcessTrialsOnlyByDrift ==
  Cardinality(Trials)
    <= MaxHalfOpenRequests + (Cardinality(Holders) - halfOpenRequests)

\* Once the provider stays up, and the breaker is now and then without a call
\* in flight, the circuit closes and stays closed.  (Callers that never leave
\* a gap can reject each other for ever: each one's increment is seen by the
\* next before it is undone.)
Recovery ==
  (<>[](provider = "up") /\ []<>(\A c \in Callers : pc[c] = "idle"))
    => <>[](state = "closed")
=============================================================================
