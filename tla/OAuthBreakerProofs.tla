------------------------- MODULE OAuthBreakerProofs -------------------------
(***************************************************************************)
(* Proofs about OAuthBreaker, for every set of callers and every setting.  *)
(***************************************************************************)
EXTENDS OAuthBreaker, FiniteSetTheorems, TLAPS

\* The steps of one caller, and all the others, as one disjunction.
LEMMA NextCases ==
  ASSUME [Next]_vars
  PROVE  \/ \E c \in Callers : Step(c)
         \/ ResetState \/ ResetSlots \/ Tick \/ ProviderChanges
         \/ UNCHANGED vars
BY DEF Next

\* The bounded counters of the model stay in their ranges.
LEMMA CounterRanges ==
  /\ \A n \in 0 .. FailureThreshold :
       Min2(n + 1, FailureThreshold) \in 0 .. FailureThreshold
  /\ \A n \in 0 .. SuccessThreshold :
       Min2(n + 1, SuccessThreshold) \in 0 .. SuccessThreshold
  /\ \A n \in 0 .. Timeout : Less1(n) \in 0 .. Timeout
  /\ 0 \in 0 .. FailureThreshold /\ 0 \in 0 .. SuccessThreshold
  /\ 0 \in 0 .. Timeout /\ Timeout \in 0 .. Timeout
BY ConfigAssumption DEF Min2, Less1

\* A step of one caller preserves the types.
LEMMA StepTypeOK ==
  ASSUME TypeOK, NEW c \in Callers, Step(c)
  PROVE  TypeOK'
<1> USE CounterRanges DEF TypeOK, Goto, counters, PCs, States
<1>1. CASE Call(c)
  BY <1>1 DEF Call
<1>2. CASE RecordClosedFailure(c)
  BY <1>2 DEF RecordClosedFailure, Trip
<1>3. CASE RecordClosedSuccess(c)
  BY <1>3 DEF RecordClosedSuccess
<1>4. CASE ReadRetry(c)
  BY <1>4 DEF ReadRetry
<1>5. CASE CompareAndSwap(c)
  BY <1>5 DEF CompareAndSwap
<1>6. CASE ZeroSlots(c)
  BY <1>6 DEF ZeroSlots
<1>7. CASE Enter(c)
  BY <1>7 DEF Enter
<1>8. CASE Release(c)
  BY <1>8 DEF Release
<1>9. CASE RecordTrialFailure(c)
  BY <1>9 DEF RecordTrialFailure, Trip
<1>10. CASE RecordTrialSuccess(c)
  BY <1>10 DEF RecordTrialSuccess
<1>11. CASE FnPanics(c)
  BY <1>11 DEF FnPanics
<1> QED
  BY <1>1, <1>2, <1>3, <1>4, <1>5, <1>6, <1>7, <1>8, <1>9, <1>10, <1>11
  DEF Step

\* Type correctness.
THEOREM TypeCorrect == Spec => []TypeOK
<1>1. Init => TypeOK
  BY CounterRanges DEF Init, TypeOK, States, PCs
<1>2. TypeOK /\ [Next]_vars => TypeOK'
  <2> SUFFICES ASSUME TypeOK, [Next]_vars PROVE TypeOK'
    OBVIOUS
  <2>1. ASSUME NEW c \in Callers, Step(c) PROVE TypeOK'
    BY <2>1, StepTypeOK
  <2>2. CASE ResetState
    BY <2>2, CounterRanges DEF ResetState, TypeOK, States
  <2>3. CASE ResetSlots
    BY <2>3, CounterRanges DEF ResetSlots, TypeOK, counters
  <2>4. CASE Tick
    BY <2>4, CounterRanges DEF Tick, TypeOK, counters
  <2>5. CASE ProviderChanges
    BY <2>5 DEF ProviderChanges, TypeOK, counters
  <2>6. CASE UNCHANGED vars
    BY <2>6 DEF vars, TypeOK
  <2> QED
    BY <2>1, <2>2, <2>3, <2>4, <2>5, <2>6, NextCases
<1> QED
  BY <1>1, <1>2, PTL DEF Spec

-----------------------------------------------------------------------------
\* The callers that owe a decrement, and those in a trial, can be counted.
LEMMA CountsAreNat ==
  /\ Cardinality(Callers) \in Nat
  /\ IsFiniteSet(Holders) /\ Cardinality(Holders) \in Nat
  /\ IsFiniteSet(Trials) /\ Cardinality(Trials) \in Nat
  /\ Cardinality(Holders) <= Cardinality(Callers)
  /\ Cardinality(Trials) <= Cardinality(Holders)
<1>1. IsFiniteSet(Callers)
  BY ConfigAssumption
<1>2. Holders \in SUBSET Callers /\ Trials \in SUBSET Holders
  BY DEF Holders, Trials
<1>3. IsFiniteSet(Holders) /\ Cardinality(Holders) <= Cardinality(Callers)
  BY <1>1, <1>2, FS_Subset
<1>4. IsFiniteSet(Trials) /\ Cardinality(Trials) <= Cardinality(Holders)
  BY <1>2, <1>3, FS_Subset
<1> QED
  BY <1>1, <1>3, <1>4, FS_CardinalityType

\* Adding to a finite set a member of one kind, and removing one of the other.
LEMMA PutCount ==
  ASSUME NEW S, NEW x, IsFiniteSet(S), NEW b \in BOOLEAN
  PROVE  Cardinality(IF b THEN S \cup {x} ELSE S \ {x})
           = Cardinality(S) + (IF b THEN 1 ELSE 0) - (IF x \in S THEN 1 ELSE 0)
<1>1. Cardinality(S) \in Nat
  BY FS_CardinalityType
<1>2. CASE b
  BY <1>1, <1>2, FS_AddElement
<1>3. CASE ~b
  BY <1>1, <1>3, FS_RemoveElement
<1> QED
  BY <1>2, <1>3

\* How a caller's move changes the two counts.
LEMMA MoveCounts ==
  ASSUME TypeOK, NEW c \in Callers, NEW l, Goto(c, l)
  PROVE  /\ Cardinality(Holders') = Cardinality(Holders)
              + (IF l \in {"undo", "trial", "leave"} THEN 1 ELSE 0)
              - (IF pc[c] \in {"undo", "trial", "leave"} THEN 1 ELSE 0)
         /\ Cardinality(Trials') = Cardinality(Trials)
              + (IF l = "trial" THEN 1 ELSE 0)
              - (IF pc[c] = "trial" THEN 1 ELSE 0)
<1>1. IsFiniteSet(Holders) /\ IsFiniteSet(Trials)
  BY CountsAreNat
<1>2. /\ c \in Holders <=> pc[c] \in {"undo", "trial", "leave"}
      /\ c \in Trials <=> pc[c] = "trial"
  BY DEF Holders, Trials
<1>3. Holders' = IF l \in {"undo", "trial", "leave"}
                   THEN Holders \cup {c} ELSE Holders \ {c}
  BY DEF Holders, Goto, TypeOK
<1>4. Trials' = IF l = "trial" THEN Trials \cup {c} ELSE Trials \ {c}
  BY DEF Trials, Goto, TypeOK
<1>5. Cardinality(Holders') = Cardinality(Holders)
              + (IF l \in {"undo", "trial", "leave"} THEN 1 ELSE 0)
              - (IF c \in Holders THEN 1 ELSE 0)
  BY <1>1, <1>3, PutCount
<1>6. Cardinality(Trials') = Cardinality(Trials)
              + (IF l = "trial" THEN 1 ELSE 0)
              - (IF c \in Trials THEN 1 ELSE 0)
  BY <1>1, <1>4, PutCount
<1> QED
  BY <1>2, <1>5, <1>6

\* The three facts about the half-open counter that runs check, together: each
\* is inductive.
SlotInv ==
  /\ SlotsNeverLeak
  /\ SlotDriftBounded
  /\ ExcessTrialsOnlyByDrift

\* A step that leaves the counter and both counts alone preserves SlotInv.
LEMMA SlotsUntouched ==
  ASSUME SlotInv,
         halfOpenRequests' = halfOpenRequests,
         Cardinality(Holders') = Cardinality(Holders),
         Cardinality(Trials') = Cardinality(Trials)
  PROVE  SlotInv'
BY DEF SlotInv, SlotsNeverLeak, SlotDriftBounded, ExcessTrialsOnlyByDrift

\* A step of one caller preserves SlotInv.
LEMMA StepSlotInv ==
  ASSUME TypeOK, SlotInv, NEW c \in Callers, Step(c)
  PROVE  SlotInv'
<1> DEFINE Counts(l) ==
      /\ Cardinality(Holders') = Cardinality(Holders)
           + (IF l \in {"undo", "trial", "leave"} THEN 1 ELSE 0)
           - (IF pc[c] \in {"undo", "trial", "leave"} THEN 1 ELSE 0)
      /\ Cardinality(Trials') = Cardinality(Trials)
           + (IF l = "trial" THEN 1 ELSE 0)
           - (IF pc[c] = "trial" THEN 1 ELSE 0)
<1>a. /\ Cardinality(Callers) \in Nat
      /\ Cardinality(Holders) \in Nat
      /\ Cardinality(Trials) \in Nat
      /\ Cardinality(Holders) <= Cardinality(Callers)
      /\ Cardinality(Trials) <= Cardinality(Holders)
      /\ halfOpenRequests \in Int
      /\ MaxHalfOpenRequests \in Nat
  BY CountsAreNat, ConfigAssumption DEF TypeOK
<1>b. /\ Cardinality(Holders') \in Nat
      /\ Cardinality(Trials') \in Nat
      /\ Cardinality(Holders') <= Cardinality(Callers)
      /\ Cardinality(Trials') <= Cardinality(Holders')
  <2>1. Holders' \in SUBSET Callers /\ Trials' \in SUBSET Holders'
    BY DEF Holders, Trials
  <2> QED
    BY <2>1, ConfigAssumption, FS_Subset, FS_CardinalityType
<1>c. ASSUME NEW l, Goto(c, l) PROVE Counts(l)
  BY <1>c, MoveCounts
<1> HIDE DEF Counts
<1>1. CASE Call(c) \/ RecordClosedFailure(c) \/ RecordClosedSuccess(c)
             \/ ReadRetry(c) \/ CompareAndSwap(c)
  <2>1. /\ halfOpenRequests' = halfOpenRequests
        /\ pc[c] \notin {"undo", "trial", "leave"}
        /\ \E l \in {"idle", "closedFn", "readRetry", "enter", "cas", "zero"} :
             Goto(c, l)
    BY <1>1 DEF Call, RecordClosedFailure, RecordClosedSuccess, ReadRetry,
                CompareAndSwap, TypeOK, States
  <2>2. PICK l \in {"idle", "closedFn", "readRetry", "enter", "cas", "zero"} :
          Counts(l)
    BY <2>1, <1>c
  <2>3. /\ Cardinality(Holders') = Cardinality(Holders)
        /\ Cardinality(Trials') = Cardinality(Trials)
    BY <2>1, <2>2, <1>a DEF Counts
  <2> QED
    BY <2>1, <2>3, SlotsUntouched
<1>2. CASE ZeroSlots(c)
  BY <1>2, <1>a, <1>b DEF ZeroSlots, SlotInv, SlotsNeverLeak,
     SlotDriftBounded, ExcessTrialsOnlyByDrift
<1>3. CASE Enter(c)
  <2>1. /\ pc[c] = "enter"
        /\ halfOpenRequests' = halfOpenRequests + 1
    BY <1>3 DEF Enter
  <2>2. CASE halfOpenRequests + 1 > MaxHalfOpenRequests
    <3>1. Counts("undo")
      BY <1>3, <2>1, <2>2, <1>c DEF Enter
    <3> QED
      BY <2>1, <3>1, <1>a DEF Counts, SlotInv, SlotsNeverLeak,
         SlotDriftBounded, ExcessTrialsOnlyByDrift
  <2>3. CASE ~(halfOpenRequests + 1 > MaxHalfOpenRequests)
    <3>1. Counts("trial")
      BY <1>3, <2>1, <2>3, <1>c DEF Enter
    <3>2. Cardinality(Holders') = Cardinality(Holders) + 1
      BY <2>1, <3>1, <1>a DEF Counts
    <3> QED
      BY <2>1, <2>3, <3>2, <1>a, <1>b DEF SlotInv, SlotsNeverLeak,
         SlotDriftBounded, ExcessTrialsOnlyByDrift
  <2> QED
    BY <2>2, <2>3
<1>4. CASE Release(c)
  <2>1. /\ pc[c] \in {"undo", "leave"}
        /\ halfOpenRequests' = halfOpenRequests - 1
        /\ Counts("idle")
    BY <1>4, <1>c DEF Release
  <2> QED
    BY <2>1, <1>a DEF Counts, SlotInv, SlotsNeverLeak, SlotDriftBounded,
       ExcessTrialsOnlyByDrift
<1>5. CASE RecordTrialFailure(c) \/ RecordTrialSuccess(c)
             \/ (FnPanics(c) /\ pc[c] = "trial")
  <2>1. /\ halfOpenRequests' = halfOpenRequests
        /\ pc[c] = "trial"
        /\ Counts("leave")
    BY <1>5, <1>c DEF RecordTrialFailure, RecordTrialSuccess, FnPanics
  <2> QED
    BY <2>1, <1>a DEF Counts, SlotInv, SlotsNeverLeak, SlotDriftBounded,
       ExcessTrialsOnlyByDrift
<1>6. CASE FnPanics(c) /\ pc[c] = "closedFn"
  <2>1. /\ halfOpenRequests' = halfOpenRequests
        /\ pc[c] = "closedFn"
        /\ Counts("idle")
    BY <1>6, <1>c DEF FnPanics
  <2> QED
    BY <2>1, <1>a, SlotsUntouched DEF Counts
<1> QED
  BY <1>1, <1>2, <1>3, <1>4, <1>5, <1>6 DEF Step, FnPanics

\* The half-open counter never leaks a slot, drifts down by at most the number
\* of callers, and limits the trials exactly up to that drift.
LEMMA SlotAccounting == Spec => []SlotInv
<1>1. Init => SlotInv
  <2> SUFFICES ASSUME Init PROVE SlotInv
    OBVIOUS
  <2>1. Holders = {} /\ Trials = {}
    BY DEF Init, Holders, Trials
  <2>2. Cardinality(Holders) = 0 /\ Cardinality(Trials) = 0
    BY <2>1, FS_EmptySet
  <2> QED
    BY <2>2, CountsAreNat, ConfigAssumption DEF Init, SlotInv, SlotsNeverLeak,
       SlotDriftBounded, ExcessTrialsOnlyByDrift
<1>2. TypeOK /\ SlotInv /\ [Next]_vars => SlotInv'
  <2> SUFFICES ASSUME TypeOK, SlotInv, [Next]_vars PROVE SlotInv'
    OBVIOUS
  <2>1. ASSUME NEW c \in Callers, Step(c) PROVE SlotInv'
    BY <2>1, StepSlotInv
  <2>2. CASE ResetSlots
    <3>1. Holders' = Holders /\ Trials' = Trials /\ halfOpenRequests' = 0
      BY <2>2 DEF ResetSlots, Holders, Trials
    <3> QED
      BY <3>1, CountsAreNat, ConfigAssumption DEF SlotInv, SlotsNeverLeak,
         SlotDriftBounded, ExcessTrialsOnlyByDrift
  <2>3. CASE ResetState \/ Tick \/ ProviderChanges \/ UNCHANGED vars
    <3>1. Holders' = Holders /\ Trials' = Trials
          /\ halfOpenRequests' = halfOpenRequests
      BY <2>3 DEF ResetState, Tick, ProviderChanges, vars, Holders, Trials
    <3> QED
      BY <3>1, SlotsUntouched
  <2> QED
    BY <2>1, <2>2, <2>3, NextCases
<1> QED
  BY <1>1, <1>2, TypeCorrect, PTL DEF Spec

\* No interleaving of Reset, the late store in callOpen, rejections and panics
\* leaks a half-open slot.
THEOREM SlotsNeverLeakAlways == Spec => []SlotsNeverLeak
BY SlotAccounting, PTL DEF SlotInv

\* The counter never drifts below the calls in flight by more than the number
\* of callers.
THEOREM SlotDriftAlwaysBounded == Spec => []SlotDriftBounded
BY SlotAccounting, PTL DEF SlotInv

\* Trials exceed MaxHalfOpenRequests only as far as the counter has drifted.
THEOREM ExcessTrialsAlwaysByDrift == Spec => []ExcessTrialsOnlyByDrift
BY SlotAccounting, PTL DEF SlotInv

\* A closed circuit always has failures left to absorb.
THEOREM ClosedAlwaysHasBudget == Spec => []ClosedHasFailureBudget
<1>1. Init => ClosedHasFailureBudget
  BY ConfigAssumption DEF Init, ClosedHasFailureBudget
<1>2. TypeOK /\ ClosedHasFailureBudget /\ [Next]_vars => ClosedHasFailureBudget'
  <2> SUFFICES ASSUME TypeOK, ClosedHasFailureBudget, [Next]_vars
               PROVE  ClosedHasFailureBudget'
    OBVIOUS
  <2> USE ConfigAssumption DEF ClosedHasFailureBudget, TypeOK, counters
  <2>1. ASSUME NEW c \in Callers, Step(c) PROVE ClosedHasFailureBudget'
    <3>1. CASE RecordClosedFailure(c)
      BY <3>1 DEF RecordClosedFailure, Trip, Min2
    <3>2. CASE RecordClosedSuccess(c)
      BY <3>2 DEF RecordClosedSuccess
    <3>3. CASE CompareAndSwap(c)
      BY <3>3 DEF CompareAndSwap
    <3>4. CASE RecordTrialFailure(c)
      BY <3>4 DEF RecordTrialFailure, Trip
    <3>5. CASE RecordTrialSuccess(c)
      BY <3>5 DEF RecordTrialSuccess
    <3>6. CASE Call(c) \/ ReadRetry(c) \/ ZeroSlots(c) \/ Enter(c)
                 \/ Release(c) \/ FnPanics(c)
      BY <3>6 DEF Call, ReadRetry, ZeroSlots, Enter, Release, FnPanics
    <3> QED
      BY <2>1, <3>1, <3>2, <3>3, <3>4, <3>5, <3>6 DEF Step
  <2>2. CASE ResetState
    BY <2>2 DEF ResetState
  <2>3. CASE ResetSlots \/ Tick \/ ProviderChanges \/ UNCHANGED vars
    BY <2>3 DEF ResetSlots, Tick, ProviderChanges, vars
  <2> QED
    BY <2>1, <2>2, <2>3, NextCases
<1> QED
  BY <1>1, <1>2, TypeCorrect, PTL DEF Spec
=============================================================================
