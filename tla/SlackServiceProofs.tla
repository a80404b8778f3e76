------------------------- MODULE SlackServiceProofs -------------------------
(***************************************************************************)
(* Proofs about SlackService, for every set of senders and every setting.  *)
(***************************************************************************)
EXTENDS SlackService, FiniteSetTheorems, TLAPS

\* The wait group counts the sends that have joined it and not left.
WaitGroupExact == wg = Cardinality(Tracked)

\* A sender that waits before a retry has one left.
RetriesLeft == \A w \in Senders : pc[w] = "backoff" => attempt[w] < MaxRetries

\* The inductive invariant.  The types need the rest: wg is bounded since it
\* counts senders, attempt since a retry is left, and successCount since a
\* half-open circuit still needs successes.
SendInv ==
  /\ TypeOK
  /\ WaitGroupExact
  /\ RetriesLeft
  /\ HalfOpenStillAdmits
  /\ ClosedHasFailureBudget

\* The steps of one sender, and all the others.
SenderStep(w) ==
  CheckShutdown(w) \/ TakeToken(w) \/ ContextDone(w) \/ SendStep(w)

EnvironmentStep ==
  \/ ShutdownBegins \/ ShutdownReturns \/ ShutdownTimesOut
  \/ Refill \/ Tick \/ SlackChanges \/ UNCHANGED vars

LEMMA NextCases ==
  ASSUME [Next]_vars
  PROVE  (\E w \in Senders : SenderStep(w)) \/ EnvironmentStep
BY DEF Next, SenderStep, EnvironmentStep

\* The constants as numbers, and the bounded counters of the model.
LEMMA Ranges ==
  /\ MaxRetries \in Nat /\ RateBurst \in Nat
  /\ MaxFailures \in Nat /\ MaxFailures > 0
  /\ CircuitTimeout \in Nat /\ MaxRequests \in Nat /\ MaxRequests > 0
  /\ \A n \in 0 .. MaxFailures : Min2(n + 1, MaxFailures) \in 0 .. MaxFailures
  /\ \A n \in 0 .. CircuitTimeout : Less1(n) \in 0 .. CircuitTimeout
BY SlackAssumption DEF Min2, Less1

\* The tracked senders can be counted.
LEMMA TrackedFinite ==
  /\ IsFiniteSet(Tracked)
  /\ Cardinality(Tracked) \in Nat
  /\ Cardinality(Senders) \in Nat
  /\ Cardinality(Tracked) <= Cardinality(Senders)
<1>1. IsFiniteSet(Senders)
  BY SlackAssumption
<1>2. Tracked \in SUBSET Senders
  BY DEF Tracked
<1> QED
  BY <1>1, <1>2, FS_Subset, FS_CardinalityType

\* How a sender's move changes the number of tracked senders.
LEMMA MoveTracked ==
  ASSUME TypeOK, NEW w \in Senders, NEW l, Goto(w, l)
  PROVE  Cardinality(Tracked') = Cardinality(Tracked)
           + (IF l \notin {"idle", "checked"} THEN 1 ELSE 0)
           - (IF pc[w] \notin {"idle", "checked"} THEN 1 ELSE 0)
<1>1. IsFiniteSet(Tracked) /\ Cardinality(Tracked) \in Nat
  BY TrackedFinite
<1>2. w \in Tracked <=> pc[w] \notin {"idle", "checked"}
  BY DEF Tracked
<1>3. Tracked' = IF l \notin {"idle", "checked"}
                   THEN Tracked \cup {w} ELSE Tracked \ {w}
  BY DEF Tracked, Goto, TypeOK
<1>4. CASE l \notin {"idle", "checked"}
  <2>1. Cardinality(Tracked \cup {w}) = IF w \in Tracked
          THEN Cardinality(Tracked) ELSE Cardinality(Tracked) + 1
    BY <1>1, FS_AddElement
  <2> QED
    BY <1>1, <1>2, <1>3, <1>4, <2>1
<1>5. CASE l \in {"idle", "checked"}
  <2>1. Cardinality(Tracked \ {w}) = IF w \in Tracked
          THEN Cardinality(Tracked) - 1 ELSE Cardinality(Tracked)
    BY <1>1, FS_RemoveElement
  <2> QED
    BY <1>1, <1>2, <1>3, <1>5, <2>1
<1> QED
  BY <1>4, <1>5

\* Each step keeps the wait group exact.
LEMMA StepWaitGroup ==
  ASSUME SendInv, [Next]_vars
  PROVE  WaitGroupExact' /\ wg' \in 0 .. Cardinality(Senders)
<1>1. wg = Cardinality(Tracked) /\ wg \in Nat /\ TypeOK
  BY TrackedFinite DEF SendInv, WaitGroupExact
<1>2. ASSUME NEW w \in Senders, SenderStep(w) PROVE WaitGroupExact'
  <2>1. CASE CheckShutdown(w)
    BY <2>1, <1>1, MoveTracked DEF CheckShutdown, At, WaitGroupExact
  <2>2. CASE Track(w)
    BY <2>2, <1>1, MoveTracked DEF Track, At, WaitGroupExact
  <2>3. CASE Return(w)
    BY <2>3, <1>1, MoveTracked DEF Return, At, WaitGroupExact
  <2>4. ASSUME NEW l \in PCs \ {"idle", "checked"}, Goto(w, l), wg' = wg,
               pc[w] \notin {"idle", "checked"}
        PROVE  WaitGroupExact'
    BY <2>4, <1>1, MoveTracked DEF WaitGroupExact
  <2>5. CASE Validate(w) \/ TakeToken(w) \/ ContextDone(w) \/ Allow(w)
    BY <2>5, <2>4 DEF Validate, TakeToken, ContextDone, Allow, At, PCs
  <2>6. CASE Upgrade(w) \/ RequestSucceeds(w) \/ RequestFails(w) \/ Retry(w)
    BY <2>6, <2>4 DEF Upgrade, RequestSucceeds, RequestFails, Retry, At, PCs
  <2> QED
    BY <1>2, <2>1, <2>2, <2>3, <2>5, <2>6 DEF SenderStep, SendStep
<1>3. ASSUME EnvironmentStep PROVE WaitGroupExact'
  <2>1. pc' = pc /\ wg' = wg
    BY <1>3 DEF EnvironmentStep, ShutdownBegins, ShutdownReturns,
       ShutdownTimesOut, Refill, Tick, SlackChanges, vars
  <2> QED
    BY <2>1, <1>1 DEF WaitGroupExact, Tracked
<1>4. WaitGroupExact'
  BY <1>2, <1>3, NextCases
<1>5. /\ Cardinality(Tracked') \in Nat
      /\ Cardinality(Tracked') <= Cardinality(Senders)
  BY TrackedFinite, FS_Subset, FS_CardinalityType, SlackAssumption
  DEF Tracked
<1> QED
  BY <1>4, <1>5, TrackedFinite DEF WaitGroupExact

-----------------------------------------------------------------------------
\* Initially nobody sends and the circuit is closed.
LEMMA InitSendInv == Init => SendInv
<1> SUFFICES ASSUME Init PROVE SendInv
  OBVIOUS
<1>1. Tracked = {}
  BY DEF Init, Tracked
<1>2. wg = Cardinality(Tracked)
  BY <1>1, FS_EmptySet DEF Init
<1>3. TypeOK
  <2>1. /\ 0 \in 0 .. MaxRetries /\ RateBurst \in 0 .. RateBurst
        /\ 0 \in 0 .. MaxFailures /\ 0 \in 0 .. MaxRequests
        /\ 0 \in 0 .. CircuitTimeout /\ 0 \in 0 .. Cardinality(Senders)
    BY Ranges, TrackedFinite
  <2> QED
    BY <2>1 DEF Init, TypeOK, PCs
<1>4. RetriesLeft
  BY DEF Init, RetriesLeft
<1>5. HalfOpenStillAdmits /\ ClosedHasFailureBudget
  BY Ranges DEF Init, HalfOpenStillAdmits, ClosedHasFailureBudget
<1> QED
  BY <1>2, <1>3, <1>4, <1>5 DEF SendInv, WaitGroupExact

\* A step of a sender keeps its types, and leaves a retry to who waits for one.
LEMMA SenderTypes ==
  ASSUME SendInv, NEW w \in Senders, SenderStep(w),
         wg' \in 0 .. Cardinality(Senders)
  PROVE  TypeOK' /\ RetriesLeft'
<1> USE Ranges DEF SendInv, TypeOK, RetriesLeft, Goto, At, PCs, breaker, closing
<1>1. CASE CheckShutdown(w)
  BY <1>1 DEF CheckShutdown
<1>2. CASE Track(w)
  BY <1>2 DEF Track
<1>3. CASE Validate(w)
  BY <1>3 DEF Validate
<1>4. CASE TakeToken(w)
  BY <1>4 DEF TakeToken
<1>5. CASE ContextDone(w)
  BY <1>5 DEF ContextDone
<1>6. CASE Allow(w)
  BY <1>6 DEF Allow
<1>7. CASE Upgrade(w)
  BY <1>7 DEF Upgrade
<1>8. CASE RequestSucceeds(w)
  BY <1>8 DEF RequestSucceeds, HalfOpenStillAdmits
<1>9. CASE RequestFails(w)
  BY <1>9 DEF RequestFails
<1>10. CASE Retry(w)
  BY <1>10 DEF Retry
<1>11. CASE Return(w)
  BY <1>11 DEF Return
<1> QED
  BY <1>1, <1>2, <1>3, <1>4, <1>5, <1>6, <1>7, <1>8, <1>9, <1>10, <1>11
  DEF SenderStep, SendStep

\* A step of a sender keeps the two promises of the breaker.
LEMMA SenderBreaker ==
  ASSUME SendInv, NEW w \in Senders, SenderStep(w)
  PROVE  HalfOpenStillAdmits' /\ ClosedHasFailureBudget'
<1> USE Ranges DEF SendInv, TypeOK, HalfOpenStillAdmits, ClosedHasFailureBudget,
                   breaker
<1>1. CASE Upgrade(w)
  BY <1>1 DEF Upgrade
<1>2. CASE RequestSucceeds(w)
  BY <1>2 DEF RequestSucceeds
<1>3. CASE RequestFails(w)
  BY <1>3 DEF RequestFails, Min2
<1>4. CASE CheckShutdown(w) \/ Track(w) \/ Validate(w) \/ TakeToken(w)
             \/ ContextDone(w) \/ Allow(w) \/ Retry(w) \/ Return(w)
  BY <1>4 DEF CheckShutdown, Track, Validate, TakeToken, ContextDone, Allow,
     Retry, Return
<1> QED
  BY <1>1, <1>2, <1>3, <1>4 DEF SenderStep, SendStep

\* Shutdown, time and the webhook keep the rest of the invariant.
LEMMA EnvironmentSendInv ==
  ASSUME SendInv, EnvironmentStep, wg' \in 0 .. Cardinality(Senders)
  PROVE  TypeOK' /\ RetriesLeft' /\ HalfOpenStillAdmits' /\ ClosedHasFailureBudget'
<1> USE Ranges DEF SendInv, TypeOK, RetriesLeft, HalfOpenStillAdmits,
                   ClosedHasFailureBudget, breaker, closing
<1>1. CASE ShutdownBegins \/ ShutdownReturns \/ ShutdownTimesOut
  BY <1>1 DEF ShutdownBegins, ShutdownReturns, ShutdownTimesOut
<1>2. CASE Refill
  BY <1>2 DEF Refill
<1>3. CASE Tick
  BY <1>3 DEF Tick
<1>4. CASE SlackChanges
  BY <1>4 DEF SlackChanges
<1>5. CASE UNCHANGED vars
  BY <1>5 DEF vars
<1> QED
  BY <1>1, <1>2, <1>3, <1>4, <1>5 DEF EnvironmentStep

\* The inductive invariant holds.
LEMMA SendInvariant == Spec => []SendInv
<1>1. SendInv /\ [Next]_vars => SendInv'
  <2> SUFFICES ASSUME SendInv, [Next]_vars PROVE SendInv'
    OBVIOUS
  <2>1. WaitGroupExact' /\ wg' \in 0 .. Cardinality(Senders)
    BY StepWaitGroup
  <2>2. CASE \E w \in Senders : SenderStep(w)
    BY <2>1, <2>2, SenderTypes, SenderBreaker DEF SendInv
  <2>3. CASE EnvironmentStep
    BY <2>1, <2>3, EnvironmentSendInv DEF SendInv
  <2> QED
    BY <2>2, <2>3, NextCases
<1> QED
  BY <1>1, InitSendInv, PTL DEF Spec

\* Type correctness; in particular the wait group never goes negative, which
\* would panic, nor beyond the number of senders.
THEOREM SlackTypeCorrect == Spec => []TypeOK
BY SendInvariant, PTL DEF SendInv

\* Whatever results land in it, and however many senders there are, a half-open
\* circuit is never stuck: it still needs successes, so Allow admits requests.
\* This is so for a positive CircuitMaxRequests, which is its default but which
\* validateConfig does not check: with zero, a half-open circuit admits nobody.
THEOREM HalfOpenAlwaysAdmits == Spec => []HalfOpenStillAdmits
BY SendInvariant, PTL DEF SendInv

\* A closed circuit always has failures left to absorb, whatever the states in
\* which requests were admitted whose failures are recorded.
THEOREM ClosedAlwaysHasBudget == Spec => []ClosedHasFailureBudget
BY SendInvariant, PTL DEF SendInv
=============================================================================
