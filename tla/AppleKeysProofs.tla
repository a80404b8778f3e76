--------------------------- MODULE AppleKeysProofs ---------------------------
(***************************************************************************)
(* Proofs about AppleKeys, for every set of keys and of validations and    *)
(* every setting of the times.                                             *)
(***************************************************************************)
EXTENDS AppleKeys, TLAPS

Steps == {"idle", "fetch", "update", "lookup", "accepted", "refused"}
Works == [step : Steps, kid : Keys \cup {0}, right : BOOLEAN, age : Nat,
          got : SUBSET Keys, gotAge : 0 .. MaxAge]

\* The types of the variables.
Types ==
  /\ published \in SUBSET Keys
  /\ retired \in [Keys -> 0 .. MaxAge]
  /\ keys \in SUBSET Keys
  /\ updated \in 0 .. MaxAge
  /\ delay \in 0 .. MaxAge
  /\ work \in [Validations -> Works]
  /\ excused \in SUBSET Validations

\* A key was published when the answer that brought it was given: it has been
\* retired no longer than that answer has been on its way and in the cache.
Fresh ==
  /\ \A k \in published : retired[k] = 0
  /\ \A k \in keys : retired[k] <= updated + delay
  /\ \A v \in Validations : work[v].step = "update" =>
       \A k \in work[v].got : retired[k] <= work[v].gotAge

\* A validation that is at work and had no bad luck finds what it needs.
OnTrack ==
  \A v \in Validations \ excused :
    /\ work[v].step # "idle" => work[v].kid \in published
    /\ work[v].step = "update" => work[v].kid \in work[v].got
    /\ work[v].step = "lookup" => CacheGet(work[v].kid)
    /\ work[v].step = "refused" => ~ValidateClaims(work[v])

-----------------------------------------------------------------------------
\* Counting stops at MaxAge, and keeps the order of two counters.
LEMMA AgedRange ==
  /\ 0 \in 0 .. MaxAge
  /\ \A n \in 0 .. MaxAge : Aged(n) \in 0 .. MaxAge /\ n <= Aged(n)
  /\ \A m, n, d \in 0 .. MaxAge : m <= n + d => Aged(m) <= Aged(n) + d
BY KeysAssumption DEF Aged

LEMMA NoWorkWorks == NoWork \in Works /\ NoWork.step = "idle"
BY AgedRange DEF Works, NoWork, Steps

\* Changing the fields of some work leaves it work.
LEMMA WorksExcept ==
  ASSUME NEW w \in Works, NEW s \in Steps, NEW G \in SUBSET Keys, NEW g \in 0 .. MaxAge,
         NEW k \in Keys, NEW r \in BOOLEAN, NEW a \in Nat
  PROVE  /\ [w EXCEPT !.step = s] \in Works
         /\ [w EXCEPT !.step = s, !.got = G] \in Works
         /\ [w EXCEPT !.step = s, !.got = G, !.gotAge = g] \in Works
         /\ [w EXCEPT !.kid = k, !.right = r, !.age = a] \in Works
         /\ [w EXCEPT !.age = a, !.gotAge = g] \in Works
BY DEF Works

\* A verdict keeps all of the work but its step.
LEMMA VerdictWorks ==
  ASSUME NEW w \in Works, NEW found \in BOOLEAN
  PROVE  /\ Verdict(w, found) \in Works
         /\ Verdict(w, found).step \in {"accepted", "refused"}
         /\ Verdict(w, found).kid = w.kid
         /\ Verdict(w, found).step = "refused" /\ found
              => ~ValidateClaims(Verdict(w, found))
BY DEF Verdict, Works, Steps, ValidateClaims

\* What a tick makes of the work of one validation.
LEMMA TickWork ==
  ASSUME Types, Tick, NEW v \in Validations
  PROVE  /\ work'[v] \in Works
         /\ work'[v].step = work[v].step
         /\ work'[v].kid = work[v].kid
         /\ work'[v].got = work[v].got
         /\ work[v].step = "update" => work'[v].gotAge = Aged(work[v].gotAge)
<1> DEFINE a == IF work[v].age < Lifetime THEN work[v].age + 1 ELSE work[v].age
<1> DEFINE g == IF work[v].step = "update" THEN Aged(work[v].gotAge) ELSE 0
<1>1. work[v] \in Works
  BY DEF Types
<1>2. a \in Nat
  BY <1>1, KeysAssumption DEF Works, a
<1>2a. g \in 0 .. MaxAge
  <2>1. 0 \in 0 .. MaxAge
    BY KeysAssumption
  <2> QED
    BY <1>1, <2>1, AgedRange DEF Works, g
<1>3. work'[v] = IF work[v] = NoWork THEN NoWork
                 ELSE [work[v] EXCEPT !.age = a, !.gotAge = g]
  BY DEF Tick, Types
<1>4. [work[v] EXCEPT !.age = a, !.gotAge = g] \in Works
  <2> HIDE DEF a, g
  <2> QED
    BY <1>1, <1>2, <1>2a DEF Works
<1>5. work'[v] \in Works
  BY <1>3, <1>4, NoWorkWorks
<1>6. CASE work[v] = NoWork
  BY <1>3, <1>5, <1>6, NoWorkWorks
<1>7. CASE work[v] # NoWork
  <2> HIDE DEF a
  <2> QED
    BY <1>1, <1>3, <1>5, <1>7 DEF Works
<1> QED
  BY <1>6, <1>7

\* Type correctness of the initial states and of every step.
LEMMA TypesInit == Init => Types
BY AgedRange, NoWorkWorks, KeysAssumption DEF Init, Types

LEMMA TypesNext ==
  ASSUME Types, [Next]_vars
  PROVE  Types'
<1>1. ASSUME NEW v \in Validations, NEW kid \in Keys, NEW right \in BOOLEAN,
             NEW age \in 0 .. Lifetime, Begin(v, kid, right, age)
      PROVE  Types'
  <2> DEFINE w == [NoWork EXCEPT !.kid = kid, !.right = right, !.age = age]
  <2>1. age \in Nat
    BY KeysAssumption
  <2>2. w \in Works
    BY <2>1, NoWorkWorks, WorksExcept, AgedRange DEF Steps
  <2>3. [w EXCEPT !.step = "fetch"] \in Works /\ Verdict(w, TRUE) \in Works
    <3> HIDE DEF w
    <3> QED
      BY <2>2, WorksExcept, AgedRange, VerdictWorks DEF Steps
  <2> QED
    BY <1>1, <2>3 DEF Begin, Types
<1>2. ASSUME NEW v \in Validations, FetchAppleKeys(v)
      PROVE  Types'
  <2>1. Verdict(work[v], FALSE) \in Works
    BY VerdictWorks DEF Types
  <2>2. [work[v] EXCEPT !.step = "update", !.got = published] \in Works
    BY DEF Types, Works, Steps
  <2> QED
    BY <1>2, <2>1, <2>2 DEF FetchAppleKeys, Types
<1>3. ASSUME NEW v \in Validations, CacheUpdate(v)
      PROVE  Types'
  <2>1. work[v] \in Works
    BY DEF Types
  <2>2. \A g \in 0 .. MaxAge :
          [work[v] EXCEPT !.step = "lookup", !.got = {}, !.gotAge = g] \in Works
    BY <2>1 DEF Works, Steps
  <2>3. work[v].got \in SUBSET Keys /\ work[v].gotAge \in 0 .. MaxAge
    BY <2>1 DEF Works
  <2>4. [work[v] EXCEPT !.step = "lookup", !.got = {}, !.gotAge = 0] \in Works
    BY <2>2, AgedRange
  <2> QED
    BY <1>3, <2>3, <2>4, AgedRange DEF CacheUpdate, Types
<1>4. ASSUME NEW v \in Validations, Lookup(v)
      PROVE  Types'
  <2>1. Verdict(work[v], CacheGet(work[v].kid)) \in Works
    BY VerdictWorks DEF Types, CacheGet
  <2> QED
    BY <1>4, <2>1 DEF Lookup, Types
<1>5. ASSUME NEW v \in Validations, Return(v)
      PROVE  Types'
  BY <1>5, NoWorkWorks DEF Return, Types
<1>6. ASSUME NEW K \in SUBSET Keys, Rotate(K)
      PROVE  Types'
  BY <1>6, AgedRange DEF Rotate, Types
<1>7. CASE Tick
  <2>1. work' \in [Validations -> Works]
    BY <1>7, TickWork DEF Tick
  <2>2. ASSUME NEW k \in Keys
        PROVE  retired'[k] \in 0 .. MaxAge
    BY <1>7, AgedRange DEF Tick, Types
  <2>3. retired' \in [Keys -> 0 .. MaxAge]
    BY <1>7, <2>2 DEF Tick
  <2>4. updated' \in 0 .. MaxAge
    BY <1>7, AgedRange DEF Tick, Types
  <2> QED
    BY <1>7, <2>1, <2>3, <2>4 DEF Tick, Types
<1>8. CASE UNCHANGED vars
  BY <1>8 DEF vars, Types
<1> QED
  BY <1>1, <1>2, <1>3, <1>4, <1>5, <1>6, <1>7, <1>8 DEF Next

-----------------------------------------------------------------------------
\* No step makes the cache, or an answer on its way, older than it is taken for.
LEMMA FreshNext ==
  ASSUME Types, Fresh, [Next]_vars
  PROVE  Fresh'
<1>1. ASSUME NEW v \in Validations, NEW kid \in Keys, NEW right \in BOOLEAN,
             NEW age \in 0 .. Lifetime, Begin(v, kid, right, age)
      PROVE  Fresh'
  <2>1. work'[v].step # "update"
    BY <1>1 DEF Begin, Verdict, NoWork, Types
  <2>2. \A u \in Validations \ {v} : work'[u] = work[u]
    BY <1>1 DEF Begin, Types
  <2> QED
    BY <1>1, <2>1, <2>2 DEF Begin, Fresh
<1>2. ASSUME NEW v \in Validations, FetchAppleKeys(v)
      PROVE  Fresh'
  <2>1. \A u \in Validations \ {v} : work'[u] = work[u]
    BY <1>2 DEF FetchAppleKeys, Types
  <2>2. work[v] \in Works
    BY DEF Types
  <2>3. CASE work' = [work EXCEPT ![v].step = "update", ![v].got = published]
    <3>1. work'[v].got = published /\ work'[v].gotAge = work[v].gotAge
      BY <2>2, <2>3 DEF Types, Works
    <3>2. \A k \in published : retired[k] <= work[v].gotAge
      BY <2>2 DEF Fresh, Works
    <3> QED
      BY <1>2, <2>1, <3>1, <3>2 DEF FetchAppleKeys, Fresh
  <2>4. CASE work' = [work EXCEPT ![v] = Verdict(work[v], FALSE)]
    <3>1. work'[v].step # "update"
      BY <2>2, <2>4, VerdictWorks DEF Types
    <3> QED
      BY <1>2, <2>1, <3>1 DEF FetchAppleKeys, Fresh
  <2> QED
    BY <1>2, <2>3, <2>4 DEF FetchAppleKeys
<1>3. ASSUME NEW v \in Validations, CacheUpdate(v)
      PROVE  Fresh'
  <2>1. \A u \in Validations \ {v} : work'[u] = work[u]
    BY <1>3 DEF CacheUpdate, Types
  <2>2. work'[v].step = "lookup"
    BY <1>3 DEF CacheUpdate, Types, Works
  <2>3. \A k \in work[v].got : retired[k] <= work[v].gotAge
    BY <1>3 DEF CacheUpdate, Fresh
  <2>4. work[v].gotAge \in Nat
    BY DEF Types, Works
  <2>5. \A k \in keys' : retired'[k] <= updated' + delay'
    BY <1>3, <2>3, <2>4 DEF CacheUpdate
  <2> QED
    BY <1>3, <2>1, <2>2, <2>5 DEF CacheUpdate, Fresh
<1>4. ASSUME NEW v \in Validations, Lookup(v) \/ Return(v)
      PROVE  Fresh'
  <2>1. \A u \in Validations \ {v} : work'[u] = work[u]
    BY <1>4 DEF Lookup, Return, Types
  <2>2. work'[v].step # "update"
    BY <1>4, VerdictWorks, NoWorkWorks DEF Lookup, Return, Types, CacheGet
  <2> QED
    BY <1>4, <2>1, <2>2 DEF Lookup, Return, Fresh
<1>5. ASSUME NEW K \in SUBSET Keys, Rotate(K)
      PROVE  Fresh'
  <2>1. \A k \in Keys : retired'[k] = IF k \in K THEN 0 ELSE retired[k]
    BY <1>5 DEF Rotate
  <2>2. \A k \in keys : retired'[k] <= updated + delay
    BY <2>1 DEF Types, Fresh
  <2>3. ASSUME NEW v \in Validations, work[v].step = "update", NEW k \in work[v].got
        PROVE  retired'[k] <= work[v].gotAge
    <3>1. k \in Keys /\ work[v].gotAge \in Nat
      BY DEF Types, Works
    <3> QED
      BY <2>1, <2>3, <3>1 DEF Fresh
  <2> QED
    BY <1>5, <2>1, <2>2, <2>3 DEF Rotate, Fresh
<1>6. CASE Tick
  <2>1. \A k \in Keys : retired'[k] = IF k \in published THEN 0 ELSE Aged(retired[k])
    BY <1>6 DEF Tick
  <2>2. ASSUME NEW k \in keys
        PROVE  retired'[k] <= updated' + delay'
    <3>1. /\ retired[k] \in 0 .. MaxAge /\ updated \in 0 .. MaxAge /\ delay \in 0 .. MaxAge
          /\ retired[k] <= updated + delay /\ k \in Keys
      BY DEF Types, Fresh
    <3>2. Aged(retired[k]) <= Aged(updated) + delay /\ 0 <= Aged(updated) + delay
      BY <3>1, AgedRange
    <3> QED
      BY <1>6, <2>1, <3>1, <3>2 DEF Tick
  <2>3. ASSUME NEW v \in Validations, work'[v].step = "update", NEW k \in work'[v].got
        PROVE  retired'[k] <= work'[v].gotAge
    <3>1. work[v].step = "update" /\ k \in work[v].got
          /\ work'[v].gotAge = Aged(work[v].gotAge)
      BY <1>6, <2>3, TickWork
    <3>2. /\ k \in Keys /\ retired[k] \in 0 .. MaxAge
          /\ work[v].gotAge \in 0 .. MaxAge /\ retired[k] <= work[v].gotAge
      BY <3>1 DEF Types, Works, Fresh
    <3>3. Aged(retired[k]) <= Aged(work[v].gotAge) + 0 /\ Aged(work[v].gotAge) \in 0 .. MaxAge
      BY <3>2, AgedRange
    <3> QED
      BY <2>1, <3>1, <3>2, <3>3
  <2> QED
    BY <1>6, <2>1, <2>2, <2>3 DEF Tick, Fresh, Types
<1>7. CASE UNCHANGED vars
  BY <1>7 DEF vars, Fresh
<1> QED
  BY <1>1, <1>2, <1>3, <1>4, <1>5, <1>6, <1>7 DEF Next

\* No step leads a validation astray without bad luck.
LEMMA OnTrackNext ==
  ASSUME Types, OnTrack, [Next]_vars
  PROVE  OnTrack'
<1>1. ASSUME NEW v \in Validations, NEW kid \in Keys, NEW right \in BOOLEAN,
             NEW age \in 0 .. Lifetime, Begin(v, kid, right, age)
      PROVE  OnTrack'
  <2> DEFINE w == [NoWork EXCEPT !.kid = kid, !.right = right, !.age = age]
  <2>1. age \in Nat
    BY KeysAssumption
  <2>2. w \in Works /\ w.kid = kid
    <3>1. w \in Works
      BY <2>1, NoWorkWorks, WorksExcept, AgedRange DEF Steps
    <3>2. w.kid = kid
      BY DEF NoWork
    <3> QED
      BY <3>1, <3>2
  <2>3. /\ work'[v] \in {Verdict(w, TRUE), [w EXCEPT !.step = "fetch"]}
        /\ \A u \in Validations \ {v} : work'[u] = work[u]
        /\ excused' = IF kid \in published THEN excused \ {v} ELSE excused \cup {v}
    BY <1>1 DEF Begin, Types
  <2>4. /\ work'[v].step \in {"fetch", "accepted", "refused"}
        /\ work'[v].kid = kid
        /\ work'[v].step = "refused" => ~ValidateClaims(work'[v])
    <3> HIDE DEF w
    <3>1. [w EXCEPT !.step = "fetch"].step = "fetch" /\ [w EXCEPT !.step = "fetch"].kid = kid
      BY <2>2 DEF Works
    <3> QED
      BY <2>2, <2>3, <3>1, VerdictWorks
  <2>5. UNCHANGED <<published, keys, updated>>
    BY <1>1 DEF Begin
  <2> HIDE DEF w
  <2> QED
    BY <2>3, <2>4, <2>5 DEF OnTrack, CacheGet, ValidateClaims
<1>2. ASSUME NEW v \in Validations, FetchAppleKeys(v)
      PROVE  OnTrack'
  <2>1. /\ \A u \in Validations \ {v} : work'[u] = work[u]
        /\ UNCHANGED <<published, keys, updated>>
    BY <1>2 DEF FetchAppleKeys, Types
  <2>2. CASE /\ work' = [work EXCEPT ![v].step = "update", ![v].got = published]
             /\ UNCHANGED excused
    <3>1. /\ work'[v].step = "update" /\ work'[v].got = published
          /\ work'[v].kid = work[v].kid
      BY <2>2 DEF Types, Works
    <3> QED
      BY <1>2, <2>1, <2>2, <3>1 DEF FetchAppleKeys, OnTrack, CacheGet, ValidateClaims
  <2>3. CASE excused' = excused \cup {v}
    BY <2>1, <2>3 DEF OnTrack, CacheGet, ValidateClaims
  <2> QED
    BY <1>2, <2>2, <2>3 DEF FetchAppleKeys
<1>3. ASSUME NEW v \in Validations, CacheUpdate(v)
      PROVE  OnTrack'
  <2>1. /\ \A u \in Validations \ {v} : work'[u] = work[u]
        /\ work'[v].step = "lookup" /\ work'[v].kid = work[v].kid
    BY <1>3 DEF CacheUpdate, Types, Works
  <2>2. /\ keys' = work[v].got /\ updated' = 0 /\ published' = published
        /\ excused' = excused \cup {u \in Validations \ {v} : work[u].step = "lookup"}
        /\ work[v].step = "update"
    BY <1>3 DEF CacheUpdate
  <2> QED
    BY <2>1, <2>2, KeysAssumption DEF OnTrack, CacheGet, ValidateClaims
<1>4. ASSUME NEW v \in Validations, Lookup(v)
      PROVE  OnTrack'
  <2>1. work[v] \in Works /\ CacheGet(work[v].kid) \in BOOLEAN
    BY DEF Types, CacheGet
  <2>2. /\ \A u \in Validations \ {v} : work'[u] = work[u]
        /\ work'[v] = Verdict(work[v], CacheGet(work[v].kid))
        /\ UNCHANGED <<published, keys, updated, excused>>
        /\ work[v].step = "lookup"
    BY <1>4 DEF Lookup, Types
  <2>3. /\ work'[v].step \in {"accepted", "refused"} /\ work'[v].kid = work[v].kid
        /\ work'[v].step = "refused" /\ CacheGet(work[v].kid) => ~ValidateClaims(work'[v])
    BY <2>1, <2>2, VerdictWorks
  <2> QED
    BY <2>2, <2>3 DEF OnTrack, CacheGet, ValidateClaims
<1>5. ASSUME NEW v \in Validations, Return(v)
      PROVE  OnTrack'
  <2>1. /\ \A u \in Validations \ {v} : work'[u] = work[u]
        /\ work'[v].step = "idle"
        /\ UNCHANGED <<published, keys, updated>>
        /\ excused' = excused \ {v}
    BY <1>5, NoWorkWorks DEF Return, Types
  <2> QED
    BY <2>1 DEF OnTrack, CacheGet, ValidateClaims
<1>6. ASSUME NEW K \in SUBSET Keys, Rotate(K)
      PROVE  OnTrack'
  <2>1. \A v \in Validations : work[v].step # "idle" => work[v] # NoWork
    BY NoWorkWorks
  <2>2. /\ published' = K /\ UNCHANGED <<keys, updated, work>>
        /\ excused' = excused \cup
             {v \in Validations : work[v] # NoWork /\ work[v].kid \notin K}
    BY <1>6 DEF Rotate
  <2> QED
    BY <2>1, <2>2 DEF OnTrack, CacheGet, ValidateClaims
<1>7. CASE Tick
  <2>1. /\ UNCHANGED <<published, keys>> /\ updated' = Aged(updated)
        /\ excused' = excused \cup
             {v \in Validations : work[v].step = "lookup" /\ updated >= Ttl}
        /\ \A v \in Validations : work[v].step \notin {"accepted", "refused"}
    BY <1>7 DEF Tick
  <2>2. updated < Ttl => updated' <= Ttl
    BY <2>1, KeysAssumption DEF Aged, Types
  <2>3. updated \in Nat /\ Ttl \in Nat
    BY KeysAssumption DEF Types
  <2>4. ASSUME NEW v \in Validations \ excused', work'[v].step = "lookup"
        PROVE  CacheGet(work[v].kid)'
    <3>1. work[v].step = "lookup" /\ work'[v].kid = work[v].kid /\ v \notin excused
      BY <1>7, <2>1, <2>4, TickWork
    <3>2. work[v].kid \in keys /\ updated < Ttl
      BY <2>1, <2>3, <3>1 DEF OnTrack, CacheGet
    <3> QED
      BY <2>1, <2>2, <3>1, <3>2 DEF CacheGet
  <2>5. ASSUME NEW v \in Validations \ excused'
        PROVE  /\ work'[v].step # "idle" => work'[v].kid \in published'
               /\ work'[v].step = "update" => work'[v].kid \in work'[v].got
               /\ work'[v].step # "refused"
    <3>1. v \notin excused
      BY <2>1
    <3> QED
      BY <1>7, <2>1, <3>1, TickWork DEF OnTrack
  <2>6. \A v \in Validations : work'[v].kid = work[v].kid
    BY <1>7, TickWork
  <2>7. ASSUME NEW v \in Validations \ excused', work'[v].step = "lookup"
        PROVE  updated' <= Ttl /\ work'[v].kid \in keys'
    BY <2>4, <2>6, <2>7 DEF CacheGet
  <2> QED
    BY <2>5, <2>7 DEF OnTrack, CacheGet
<1>8. CASE UNCHANGED vars
  BY <1>8 DEF vars, OnTrack, CacheGet, ValidateClaims
<1> QED
  BY <1>1, <1>2, <1>3, <1>4, <1>5, <1>6, <1>7, <1>8 DEF Next

-----------------------------------------------------------------------------
\* The invariant the two properties follow from.
KeysInv == Types /\ Fresh /\ OnTrack

LEMMA KeysInductive == Spec => []KeysInv
<1>1. Init => KeysInv
  <2>1. ASSUME Init PROVE Fresh /\ OnTrack
    BY <2>1, NoWorkWorks, KeysAssumption DEF Init, Fresh, OnTrack
  <2> QED
    BY <2>1, TypesInit DEF KeysInv
<1>2. KeysInv /\ [Next]_vars => KeysInv'
  BY TypesNext, FreshNext, OnTrackNext DEF KeysInv
<1> QED
  BY <1>1, <1>2, PTL DEF Spec

\* However fetches overlap and answers overtake each other, a key that Apple took
\* back is found in the cache no longer than the ttl and the delay of the answer.
THEOREM RetiredKeysFadeAlways == Spec => []RetiredKeysFade
<1>1. KeysInv => RetiredKeysFade
  <2> SUFFICES ASSUME KeysInv, NEW kid \in Keys, CacheGet(kid)
               PROVE  retired[kid] <= Ttl + delay
    BY DEF RetiredKeysFade
  <2>1. /\ retired[kid] \in 0 .. MaxAge /\ updated \in 0 .. MaxAge
        /\ delay \in 0 .. MaxAge /\ retired[kid] <= updated + delay /\ updated <= Ttl
    BY DEF KeysInv, Types, Fresh, CacheGet
  <2> QED
    BY <2>1, KeysAssumption
<1> QED
  BY <1>1, KeysInductive, PTL

\* A genuine token is refused only after bad luck on the way.
THEOREM GenuineTokenAcceptedAlways == Spec => []GenuineTokenAccepted
<1>1. KeysInv => GenuineTokenAccepted
  BY DEF KeysInv, OnTrack, GenuineTokenAccepted, ValidateClaims
<1> QED
  BY <1>1, KeysInductive, PTL
=============================================================================
