---------------------------- MODULE ServiceProofs ----------------------------
(***************************************************************************)
(* Proofs about the services of the kit: the cache's in-memory driver      *)
(* (module MemoryCache) and the global instances that Init makes (module   *)
(* GlobalInstances).                                                       *)
(***************************************************************************)
EXTENDS MemoryCache, GlobalInstances, FiniteSetTheorems, TLAPS

-----------------------------------------------------------------------------
(***************************************************************************)
(* The in-memory cache: in every run, for every finite set of keys, every  *)
(* set of lengths and ttls and every setting of the two limits, the byte   *)
(* count errs only in the direction its setting allows and the number of   *)
(* keys stays within the limit.                                            *)
(*                                                                         *)
(* The sum of the lengths is kept as the number of bytes, so an operation  *)
(* on the map is a union or a difference of sets of bytes, and its effect  *)
(* on the sum is a fact about cardinalities.                               *)
(***************************************************************************)
\* The inductive invariant.  The bytes are finitely many because every item
\* was added by one Set: without that, their number would mean nothing.
BytesOK == IsFiniteSet(Bytes(DOMAIN items))

CountInv ==
  /\ TypeOK
  /\ BytesOK
  /\ NeverOverCounted
  /\ NeverUnderCounted
  /\ KeysWithinMax

\* The bytes of one item: as many as its length.
LEMMA BlockSize ==
  ASSUME NEW k, NEW n \in Nat
  PROVE  IsFiniteSet({k} \X (1 .. n)) /\ Cardinality({k} \X (1 .. n)) = n
<1>1. IsFiniteSet({k}) /\ Cardinality({k}) = 1
  BY FS_Singleton
<1>2. IsFiniteSet(1 .. n) /\ Cardinality(1 .. n) = n
  BY FS_Interval
<1>3. /\ IsFiniteSet({k} \X (1 .. n))
      /\ Cardinality({k} \X (1 .. n)) = Cardinality({k}) * Cardinality(1 .. n)
  BY <1>1, <1>2, FS_Product
<1>4. 1 * n = n
  OBVIOUS
<1> QED
  BY <1>1, <1>2, <1>3, <1>4

\* The bytes of a part of the map are finitely many, and what is left when the
\* part is taken out is smaller by exactly that part.
LEMMA TakenOut ==
  ASSUME BytesOK, NEW S \in SUBSET (DOMAIN items)
  PROVE  /\ IsFiniteSet(Bytes(S))
         /\ SizeOf(S) \in Nat
         /\ RealSize \in Nat
         /\ IsFiniteSet(Bytes(DOMAIN items \ S))
         /\ SizeOf(DOMAIN items \ S) = RealSize - SizeOf(S)
<1> DEFINE D == DOMAIN items
           R == D \ S
<1>1. Bytes(S) \subseteq Bytes(D) /\ Bytes(R) \subseteq Bytes(D)
  BY DEF Bytes
<1>2. IsFiniteSet(Bytes(D))
  BY DEF BytesOK
<1>3. IsFiniteSet(Bytes(S)) /\ IsFiniteSet(Bytes(R))
  BY <1>1, <1>2, FS_Subset
<1>4. Bytes(D) = Bytes(S) \cup Bytes(R)
  BY DEF Bytes
<1>5. Bytes(S) \cap Bytes(R) = {}
  BY DEF Bytes
<1>6. Cardinality(Bytes(S) \cap Bytes(R)) = 0
  BY <1>5, FS_EmptySet
<1>7. Cardinality(Bytes(D)) = Cardinality(Bytes(S)) + Cardinality(Bytes(R))
  <2>1. Cardinality(Bytes(S) \cup Bytes(R))
          = Cardinality(Bytes(S)) + Cardinality(Bytes(R))
              - Cardinality(Bytes(S) \cap Bytes(R))
    BY <1>3, FS_Union
  <2>2. /\ Cardinality(Bytes(S)) \in Nat
        /\ Cardinality(Bytes(R)) \in Nat
    BY <1>3, FS_CardinalityType
  <2>3. Cardinality(Bytes(D)) = Cardinality(Bytes(S) \cup Bytes(R))
    BY <1>4
  <2> HIDE DEF D, R
  <2> QED
    BY <2>1, <2>2, <2>3, <1>6
<1>8. /\ Cardinality(Bytes(S)) \in Nat
      /\ Cardinality(Bytes(R)) \in Nat
      /\ Cardinality(Bytes(D)) \in Nat
  BY <1>2, <1>3, FS_CardinalityType
<1> QED
  BY <1>3, <1>7, <1>8 DEF SizeOf, RealSize

\* One item occupies its length.
LEMMA OneItem ==
  ASSUME CacheAssumption, TypeOK, NEW k \in DOMAIN items
  PROVE  SizeOf({k}) = items[k].size /\ items[k].size \in Nat
<1>1. items[k].size \in Nat
  BY DEF CacheAssumption, TypeOK, Item
<1>2. Bytes({k}) = {k} \X (1 .. items[k].size)
  BY DEF Bytes
<1> QED
  BY <1>1, <1>2, BlockSize DEF SizeOf

\* Without(S) is a map of items again, its bytes those not under S.
LEMMA WithoutEffect ==
  ASSUME TypeOK, BytesOK, NEW S \in SUBSET (DOMAIN items), items' = Without(S)
  PROVE  /\ DOMAIN items' = DOMAIN items \ S
         /\ DOMAIN items' \subseteq Keys
         /\ \A j \in DOMAIN items' : items'[j] \in Item
         /\ BytesOK'
         /\ RealSize' = RealSize - SizeOf(S)
         /\ RealSize \in Nat /\ SizeOf(S) \in Nat
<1>1. DOMAIN items' = DOMAIN items \ S
  BY DEF Without
<1>2. \A j \in DOMAIN items' : items'[j] = items[j]
  BY DEF Without
<1>3. Bytes(DOMAIN items)' = Bytes(DOMAIN items \ S)
  <2>1. {{j} \X (1 .. items'[j].size) : j \in DOMAIN items'}
          = {{j} \X (1 .. items[j].size) : j \in DOMAIN items \ S}
    BY <1>1, <1>2
  <2> QED
    BY <2>1 DEF Bytes
<1>4. BytesOK' /\ RealSize' = RealSize - SizeOf(S)
  BY <1>3, TakenOut DEF BytesOK, RealSize, SizeOf
<1> QED
  BY <1>1, <1>2, <1>4, TakenOut DEF TypeOK

\* With(k, it) is a map of items again: what was under k gives way to the
\* length of the new item.
LEMMA WithEffect ==
  ASSUME CacheAssumption, TypeOK, BytesOK,
         NEW k \in Keys, NEW it \in Item, items' = With(k, it)
  PROVE  /\ DOMAIN items' = DOMAIN items \cup {k}
         /\ DOMAIN items' \subseteq Keys
         /\ \A j \in DOMAIN items' : items'[j] \in Item
         /\ BytesOK'
         /\ RealSize' = it.size + (IF k \in DOMAIN items
                                   THEN RealSize - items[k].size ELSE RealSize)
         /\ RealSize \in Nat
<1> DEFINE S == {k} \cap DOMAIN items
           R == DOMAIN items \ S
           B == {k} \X (1 .. it.size)
<1>1. DOMAIN items' = DOMAIN items \cup {k}
  BY DEF With
<1>2. \A j \in DOMAIN items' : items'[j] = IF j = k THEN it ELSE items[j]
  BY DEF With
<1>3. it.size \in Nat
  BY DEF CacheAssumption, Item
<1>4. Bytes(DOMAIN items)' = Bytes(R) \cup B
  <2>1. {{j} \X (1 .. items'[j].size) : j \in DOMAIN items'}
          = {{j} \X (1 .. items[j].size) : j \in R} \cup {B}
    <3>1. \A j \in R : j # k /\ items'[j] = items[j] /\ j \in DOMAIN items'
      BY <1>1, <1>2
    <3>2. items'[k] = it /\ k \in DOMAIN items'
      BY <1>1, <1>2
    <3>3. DOMAIN items' = R \cup {k}
      BY <1>1
    <3> HIDE DEF R
    <3> QED
      BY <3>1, <3>2, <3>3
  <2> QED
    BY <2>1 DEF Bytes
<1>5. /\ IsFiniteSet(Bytes(R))
      /\ Cardinality(Bytes(R)) = RealSize - SizeOf(S)
      /\ RealSize \in Nat
      /\ SizeOf(S) \in Nat
  BY TakenOut DEF SizeOf
<1>6. IsFiniteSet(B) /\ Cardinality(B) = it.size
  BY <1>3, BlockSize
<1>7. Cardinality(Bytes(R) \cap B) = 0
  <2>1. Bytes(R) \cap B = {}
    BY DEF Bytes
  <2> QED
    BY <2>1, FS_EmptySet
<1>8. /\ IsFiniteSet(Bytes(R) \cup B)
      /\ Cardinality(Bytes(R) \cup B) = (RealSize - SizeOf(S)) + it.size
  <2>1. /\ IsFiniteSet(Bytes(R) \cup B)
        /\ Cardinality(Bytes(R) \cup B)
             = Cardinality(Bytes(R)) + Cardinality(B) - Cardinality(Bytes(R) \cap B)
    BY <1>5, <1>6, FS_Union
  <2> QED
    BY <2>1, <1>3, <1>5, <1>6, <1>7
<1>9. SizeOf(S) = IF k \in DOMAIN items THEN items[k].size ELSE 0
  <2>1. CASE k \in DOMAIN items
    <3>1. S = {k}
      BY <2>1
    <3> QED
      BY <2>1, <3>1, OneItem
  <2>2. CASE k \notin DOMAIN items
    <3>1. Bytes(S) = {}
      BY <2>2 DEF Bytes
    <3> QED
      BY <2>2, <3>1, FS_EmptySet DEF SizeOf
  <2> QED
    BY <2>1, <2>2
<1>10. BytesOK' /\ RealSize' = (RealSize - SizeOf(S)) + it.size
  BY <1>4, <1>8 DEF BytesOK, RealSize, SizeOf
<1>11. k \in DOMAIN items => items[k].size \in Nat
  BY OneItem
<1> QED
  BY <1>1, <1>2, <1>3, <1>5, <1>9, <1>10, <1>11 DEF TypeOK

-----------------------------------------------------------------------------
\* The number of keys is a number, and a set of fewer keys is no larger.
LEMMA KeyCount ==
  ASSUME CacheAssumption, TypeOK
  PROVE  /\ IsFiniteSet(DOMAIN items)
         /\ Cardinality(DOMAIN items) \in Nat
         /\ \A S \in SUBSET (DOMAIN items) :
              Cardinality(S) \in Nat /\ Cardinality(S) <= Cardinality(DOMAIN items)
<1>1. IsFiniteSet(DOMAIN items)
  BY FS_Subset DEF CacheAssumption, TypeOK
<1> QED
  BY <1>1, FS_Subset, FS_CardinalityType

\* Taking items out without touching the count of the others: Delete, Clear
\* and RemoveExpired.
LEMMA TakingOutKeepsKeys ==
  ASSUME CacheAssumption, TypeOK, KeysWithinMax,
         NEW S \in SUBSET (DOMAIN items), DOMAIN items' = DOMAIN items \ S
  PROVE  KeysWithinMax'
<1>1. Cardinality(DOMAIN items') <= Cardinality(DOMAIN items)
  BY KeyCount
<1>2. Cardinality(DOMAIN items') \in Nat /\ Cardinality(DOMAIN items) \in Nat
  BY KeyCount
<1> QED
  BY <1>1, <1>2 DEF CacheAssumption, KeysWithinMax

\* An empty map holds no bytes.
LEMMA InitInv ==
  ASSUME CacheAssumption, CacheInit
  PROVE  CountInv
<1>1. DOMAIN items = {}
  BY DEF CacheInit
<1>2. Bytes(DOMAIN items) = {}
  BY <1>1 DEF Bytes
<1>3. IsFiniteSet({}) /\ Cardinality({}) = 0
  BY FS_EmptySet
<1>4. BytesOK /\ RealSize = 0
  BY <1>2, <1>3 DEF BytesOK, RealSize, SizeOf
<1>5. TypeOK
  <2>1. maxSize \in MaxSizes /\ currentSize = 0 /\ closed = FALSE
    BY DEF CacheInit
  <2>2. DOMAIN items \subseteq Keys /\ \A k \in DOMAIN items : items[k] \in Item
    BY <1>1
  <2>3. currentSize \in Int
    BY <2>1
  <2>4. closed \in BOOLEAN
    BY <2>1
  <2> QED
    BY <2>1, <2>2, <2>3, <2>4 DEF TypeOK
<1>6. KeysWithinMax
  BY <1>1, <1>3 DEF KeysWithinMax, CacheAssumption
<1> QED
  BY <1>4, <1>5, <1>6 DEF CacheInit, CountInv, NeverOverCounted, NeverUnderCounted

\* Set stores the item and counts it; it subtracts the item it replaces only
\* under a size limit, which is the direction the count may err in.
LEMMA SetInv ==
  ASSUME CacheAssumption, CountInv,
         NEW k \in Keys, NEW n \in Sizes, NEW ttl \in Ttls, Set(k, n, ttl)
  PROVE  CountInv'
<1>1. PICK it : it = [size |-> n, left |-> Lifetime(ttl)]
  OBVIOUS
<1>2. it \in Item /\ it.size = n /\ n \in Nat
  BY <1>1 DEF Item, Lifetime, CacheAssumption
<1>3. items' = With(k, it)
  BY <1>1 DEF Set
<1>4. /\ DOMAIN items' = DOMAIN items \cup {k}
      /\ DOMAIN items' \subseteq Keys
      /\ \A j \in DOMAIN items' : items'[j] \in Item
      /\ BytesOK'
      /\ RealSize' = it.size + (IF k \in DOMAIN items
                                THEN RealSize - items[k].size ELSE RealSize)
      /\ RealSize \in Nat
  BY <1>2, <1>3, WithEffect DEF CountInv
<1>5. k \in DOMAIN items => items[k].size \in Nat
  BY OneItem DEF CountInv
<1>6. /\ currentSize' = Recounted(k) + n
      /\ maxSize' = maxSize /\ closed' = closed
      /\ maxSize \in Nat /\ currentSize \in Int
  BY DEF Set, CountInv, TypeOK, CacheAssumption
<1>7. TypeOK'
  BY <1>2, <1>4, <1>5, <1>6 DEF CountInv, TypeOK, Recounted
<1>8. NeverOverCounted'
  <2>1. maxSize > 0 => currentSize <= RealSize
    BY DEF CountInv, NeverOverCounted
  <2>2. maxSize > 0 => currentSize' <= RealSize'
    BY <2>1, <1>2, <1>4, <1>5, <1>6 DEF Recounted
  <2> QED
    BY <2>2, <1>6 DEF NeverOverCounted
<1>9. NeverUnderCounted'
  <2>1. maxSize = 0 => currentSize >= RealSize
    BY DEF CountInv, NeverUnderCounted
  <2>2. maxSize = 0 => currentSize' >= RealSize'
    BY <2>1, <1>2, <1>4, <1>5, <1>6 DEF Recounted
  <2> QED
    BY <2>2, <1>6 DEF NeverUnderCounted
<1>10. KeysWithinMax'
  <2>1. Cardinality(DOMAIN items') = IF k \in DOMAIN items
                                     THEN Cardinality(DOMAIN items)
                                     ELSE Cardinality(DOMAIN items) + 1
    BY <1>4, KeyCount, FS_AddElement DEF CountInv
  <2>2. MaxKeys > 0 /\ Cardinality(DOMAIN items) >= MaxKeys => k \in DOMAIN items
    BY DEF Set, KeyRoom
  <2>3. Cardinality(DOMAIN items) \in Nat /\ MaxKeys \in Nat
    BY KeyCount DEF CountInv, CacheAssumption
  <2> QED
    BY <2>1, <2>2, <2>3 DEF CountInv, KeysWithinMax
<1> QED
  BY <1>4, <1>7, <1>8, <1>9, <1>10 DEF CountInv

\* The rejected Set has already subtracted the item it did not replace.
LEMMA SetTooLargeInv ==
  ASSUME CacheAssumption, CountInv,
         NEW k \in Keys, NEW n \in Sizes, SetTooLarge(k, n)
  PROVE  CountInv'
<1>1. /\ items' = items /\ maxSize' = maxSize /\ closed' = closed
      /\ currentSize' = Recounted(k)
      /\ maxSize > 0
      /\ maxSize \in Nat /\ currentSize \in Int
  BY DEF SetTooLarge, SizeRoom, CountInv, TypeOK, CacheAssumption
<1>2. k \in DOMAIN items => items[k].size \in Nat
  BY OneItem DEF CountInv
<1>3. RealSize' = RealSize /\ RealSize \in Nat
  <2>1. RealSize \in Nat
    BY TakenOut DEF CountInv
  <2>2. RealSize' = RealSize
    BY <1>1 DEF RealSize, SizeOf, Bytes
  <2> QED
    BY <2>1, <2>2
<1>4. currentSize' \in Int /\ currentSize' <= currentSize
  BY <1>1, <1>2 DEF Recounted
<1>5. TypeOK'
  BY <1>1, <1>4 DEF CountInv, TypeOK
<1>6. BytesOK' /\ KeysWithinMax'
  BY <1>1 DEF CountInv, BytesOK, Bytes, KeysWithinMax
<1>7. NeverOverCounted' /\ NeverUnderCounted'
  <2>1. currentSize <= RealSize
    BY <1>1 DEF CountInv, NeverOverCounted
  <2> QED
    BY <2>1, <1>1, <1>3, <1>4 DEF NeverOverCounted, NeverUnderCounted
<1> QED
  BY <1>5, <1>6, <1>7 DEF CountInv

\* Delete and RemoveExpired take out the items and subtract their lengths.
LEMMA TakeOutInv ==
  ASSUME CacheAssumption, CountInv,
         NEW S \in SUBSET (DOMAIN items), items' = Without(S),
         currentSize' = currentSize - SizeOf(S),
         UNCHANGED <<maxSize, closed>>
  PROVE  CountInv'
<1>1. /\ DOMAIN items' = DOMAIN items \ S
      /\ DOMAIN items' \subseteq Keys
      /\ \A j \in DOMAIN items' : items'[j] \in Item
      /\ BytesOK'
      /\ RealSize' = RealSize - SizeOf(S)
      /\ RealSize \in Nat /\ SizeOf(S) \in Nat
  BY WithoutEffect DEF CountInv
<1>2. currentSize \in Int
  BY DEF CountInv, TypeOK
<1>3. TypeOK'
  BY <1>1, <1>2 DEF CountInv, TypeOK
<1>4. NeverOverCounted' /\ NeverUnderCounted'
  BY <1>1, <1>2 DEF CountInv, NeverOverCounted, NeverUnderCounted
<1>5. KeysWithinMax'
  BY <1>1, TakingOutKeepsKeys DEF CountInv
<1> QED
  BY <1>1, <1>3, <1>4, <1>5 DEF CountInv

\* Clear empties the map and the count together.
LEMMA ClearInv ==
  ASSUME CacheAssumption, CountInv, Clear
  PROVE  CountInv'
<1>1. DOMAIN items' = {} /\ currentSize' = 0
  BY DEF Clear, Without, CountInv, TypeOK
<1>2. Bytes(DOMAIN items)' = {}
  BY <1>1 DEF Bytes
<1>3. IsFiniteSet({}) /\ Cardinality({}) = 0
  BY FS_EmptySet
<1>4. BytesOK' /\ RealSize' = 0
  BY <1>2, <1>3 DEF BytesOK, RealSize, SizeOf
<1>5. TypeOK'
  BY <1>1 DEF Clear, CountInv, TypeOK
<1>6. KeysWithinMax'
  BY <1>1, <1>3 DEF KeysWithinMax, CacheAssumption
<1>7. NeverOverCounted' /\ NeverUnderCounted'
  BY <1>1, <1>4 DEF NeverOverCounted, NeverUnderCounted
<1> QED
  BY <1>4, <1>5, <1>6, <1>7 DEF CountInv

\* Time passes over the items and leaves their lengths alone.
LEMMA TickInv ==
  ASSUME CacheAssumption, CountInv, Tick
  PROVE  CountInv'
<1>1. /\ DOMAIN items' = DOMAIN items
      /\ \A j \in DOMAIN items : /\ items'[j] \in Item
                                 /\ items'[j].size = items[j].size
  <2>1. \A j \in DOMAIN items :
          items'[j] = [items[j] EXCEPT !.left = IF @ > 0 THEN @ - 1 ELSE @]
    BY DEF Tick
  <2>2. \A j \in DOMAIN items : items[j] \in Item
    BY DEF CountInv, TypeOK
  <2>3. DOMAIN items' = DOMAIN items
    BY DEF Tick
  <2> QED
    BY <2>1, <2>2, <2>3 DEF Item, Forever
<1>2. Bytes(DOMAIN items)' = Bytes(DOMAIN items)
  <2>1. {{j} \X (1 .. items'[j].size) : j \in DOMAIN items'}
          = {{j} \X (1 .. items[j].size) : j \in DOMAIN items}
    BY <1>1
  <2> QED
    BY <2>1 DEF Bytes
<1>3. BytesOK' /\ RealSize' = RealSize
  BY <1>2 DEF CountInv, BytesOK, RealSize, SizeOf
<1>4. maxSize' = maxSize /\ currentSize' = currentSize /\ closed' = closed
  BY DEF Tick
<1>5. TypeOK'
  BY <1>1, <1>4 DEF CountInv, TypeOK
<1> QED
  BY <1>1, <1>3, <1>4, <1>5
     DEF CountInv, NeverOverCounted, NeverUnderCounted, KeysWithinMax

\* Close and steps that change nothing.
LEMMA ItemsAloneInv ==
  ASSUME CountInv, UNCHANGED <<maxSize, items, currentSize>>, closed' \in BOOLEAN
  PROVE  CountInv'
BY DEF CountInv, TypeOK, BytesOK, Bytes, NeverOverCounted, NeverUnderCounted,
       KeysWithinMax, RealSize, SizeOf

\* Every operation keeps the invariant.
LEMMA StepInv ==
  ASSUME CacheAssumption, CountInv, [CacheNext]_cacheVars
  PROVE  CountInv'
<1>1. CASE \E k \in Keys, n \in Sizes :
             SetTooLarge(k, n) \/ \E ttl \in Ttls : Set(k, n, ttl)
  BY <1>1, SetInv, SetTooLargeInv
<1>2. CASE \E k \in Keys : Delete(k)
  <2>1. PICK k \in Keys : Delete(k)
    BY <1>2
  <2>2. SizeOf({k}) = items[k].size /\ {k} \in SUBSET (DOMAIN items)
    BY <2>1, OneItem DEF Delete, CountInv
  <2> QED
    BY <2>1, <2>2, TakeOutInv DEF Delete
<1>3. CASE Clear
  BY <1>3, ClearInv
<1>4. CASE RemoveExpired
  <2>1. PICK gone \in SUBSET (DOMAIN items) :
          gone = {k \in DOMAIN items : Expired(k)}
    OBVIOUS
  <2>2. /\ items' = Without(gone)
        /\ currentSize' = currentSize - SizeOf(gone)
        /\ UNCHANGED <<maxSize, closed>>
    BY <1>4, <2>1 DEF RemoveExpired
  <2> QED
    BY <2>2, TakeOutInv
<1>5. CASE Close
  BY <1>5, ItemsAloneInv DEF Close
<1>6. CASE Tick
  BY <1>6, TickInv
<1>7. CASE UNCHANGED cacheVars
  BY <1>7, ItemsAloneInv DEF cacheVars, CountInv, TypeOK
<1> QED
  BY <1>1, <1>2, <1>3, <1>4, <1>5, <1>6, <1>7 DEF CacheNext

LEMMA CountInvAlways == CacheSpec => []CountInv
<1>1. CacheInit => CountInv
  BY InitInv, CacheAssumption
<1>2. CountInv /\ [CacheNext]_cacheVars => CountInv'
  BY StepInv, CacheAssumption
<1> QED
  BY <1>1, <1>2, PTL DEF CacheSpec

\* The type invariant of the cache: currentSize, the flag, the items and the clock
\* stay within their types.
THEOREM CacheTypeCorrect == CacheSpec => []TypeOK
<1>1. CountInv => TypeOK
  BY DEF CountInv
<1> QED
  BY <1>1, CountInvAlways, PTL

\* While a size limit is in force, what the five places of memory.go that adjust
\* currentSize have counted never exceeds what the items occupy.
THEOREM NeverOverCountedAlways == CacheSpec => []NeverOverCounted
<1>1. CountInv => NeverOverCounted
  BY DEF CountInv
<1> QED
  BY <1>1, CountInvAlways, PTL

\* While no size limit is in force, the count never falls short of what the items
\* occupy: Set adds and only Clear takes away without the limit.
THEOREM NeverUnderCountedAlways == CacheSpec => []NeverUnderCounted
<1>1. CountInv => NeverUnderCounted
  BY DEF CountInv
<1> QED
  BY <1>1, CountInvAlways, PTL

\* The cache never holds more keys than MaxKeys allows, whatever was overwritten,
\* evicted or collected before.
THEOREM KeysAlwaysWithinMax == CacheSpec => []KeysWithinMax
<1>1. CountInv => KeysWithinMax
  BY DEF CountInv
<1> QED
  BY <1>1, CountInvAlways, PTL

-----------------------------------------------------------------------------
(***************************************************************************)
(* The configuration loader: what the steps of reading a .env file, and of *)
(* filling a struct, amount to for every file, environment and struct.     *)
(*                                                                         *)
(* ReadUpTo and Texts are recursive functions.  What they compute for      *)
(* every length is proved from the finiteness of an interval of numbers:   *)
(* lemma Induction.                                                        *)
(***************************************************************************)

\* Every natural number is in a set that has 0 and, with each number, the next:
\* else the numbers below which the set has no gap would be finitely many, and
\* their number would be one of them.
LEMMA Induction ==
  ASSUME NEW S, 0 \in S, \A n \in Nat : n \in S => n + 1 \in S
  PROVE  Nat \subseteq S
<1> SUFFICES ASSUME NEW m \in Nat, m \notin S PROVE FALSE
  OBVIOUS
<1> DEFINE Below == {d \in Nat : 0 .. d \subseteq S}
<1>1. \A d \in Below : d < m /\ 0 .. d \subseteq Below
  OBVIOUS
<1>2. IsFiniteSet(Below)
  BY <1>1, FS_BoundedSetOfNaturals
<1>3. PICK c \in Nat : c = Cardinality(Below)
  BY <1>2, FS_CardinalityType
<1>4. c \notin Below
  <2>1. c \in Below => Cardinality(0 .. c) <= c
    BY <1>1, <1>2, <1>3, FS_Subset
  <2>2. Cardinality(0 .. c) = c + 1
    BY <1>3, FS_Interval
  <2>3. QED
    BY <1>3, <2>1, <2>2
<1>5. PICK e \in Int : e + 1 \notin Below /\ e + 2 = c /\ e + 1 >= 0
  <2>1. c # 0 /\ c - 1 \notin Below
    BY <1>3, <1>4
  <2>2. c - 2 \in Int /\ (c - 2) + 1 = c - 1 /\ (c - 2) + 2 = c
    BY <1>3
  <2>3. QED
    <3> DEFINE e == c - 2
    <3>1. e \in Int /\ e + 1 \notin Below /\ e + 2 = c /\ e + 1 >= 0
      BY <2>1, <2>2, <1>3
    <3> HIDE DEF e
    <3>2. QED
      BY <3>1
<1>6. Below \subseteq 0 .. e
  <2> SUFFICES ASSUME NEW d \in Below, d > e PROVE FALSE
    BY <1>5
  <2>1. e + 1 \in 0 .. d
    BY <1>5
  <2>2. QED
    BY <2>1, <1>1, <1>5
<1> HIDE DEF Below
<1>7. IsFiniteSet(0 .. e) /\ Cardinality(0 .. e) = e + 1
  <2>1. IsFiniteSet(0 .. e) /\ Cardinality(0 .. e) = IF 0 > e THEN 0 ELSE e - 0 + 1
    BY ONLY e \in Int, 0 \in Int, FS_Interval
  <2>2. QED
    BY <1>5, <2>1
<1>8. c <= Cardinality(0 .. e)
  BY <1>3, <1>6, <1>7, FS_Subset
<1>9. QED
  BY <1>3, <1>5, <1>7, <1>8

-----------------------------------------------------------------------------
\* A file as a scenario has it.
File(file) ==
  /\ Len(file) \in Nat /\ DOMAIN file = 1 .. Len(file)
  /\ \A i \in DOMAIN file : file[i].wellFormed \in BOOLEAN

\* ReadUpTo is what its equation says.
LEMMA ReadUpToSteps ==
  ASSUME NEW file, Len(file) \in Nat
  PROVE  /\ ReadUpTo(file)[0] = [err |-> FALSE, vars |-> <<>>]
         /\ \A n \in 1 .. Len(file) :
              ReadUpTo(file)[n] = ReadOne(ReadUpTo(file)[n - 1], file[n])
<1> DEFINE Steps(f, N) ==
             f = [n \in 0 .. N |-> IF n = 0 THEN [err |-> FALSE, vars |-> <<>>]
                                   ELSE ReadOne(f[n - 1], file[n])]
           S == {N \in Nat : \E f : Steps(f, N)}
<1>1. 0 \in S
  <2> DEFINE f == [n \in 0 .. 0 |-> [err |-> FALSE, vars |-> <<>>]]
  <2>1. Steps(f, 0)
    OBVIOUS
  <2> HIDE DEF f, Steps
  <2>2. QED
    BY <2>1
<1>2. ASSUME NEW N \in Nat, N \in S
      PROVE  N + 1 \in S
  <2>1. PICK f : Steps(f, N)
    BY <1>2
  <2> DEFINE g == [n \in 0 .. N + 1 |-> IF n = N + 1 THEN ReadOne(f[N], file[n]) ELSE f[n]]
  <2>2. ASSUME NEW n \in 0 .. N + 1
        PROVE  g[n] = IF n = 0 THEN [err |-> FALSE, vars |-> <<>>]
                      ELSE ReadOne(g[n - 1], file[n])
    <3>1. \A m \in 0 .. N : g[m] = f[m]
      OBVIOUS
    <3>2. CASE n = N + 1
      <4>1. g[n] = ReadOne(f[N], file[n]) /\ n # 0 /\ n - 1 = N /\ N \in 0 .. N
        BY <3>2
      <4> HIDE DEF g
      <4>2. QED
        BY <3>1, <4>1
    <3>3. CASE n # N + 1
      <4>1. n \in 0 .. N /\ (n # 0 => n - 1 \in 0 .. N)
        BY <3>3
      <4>2. f[n] = IF n = 0 THEN [err |-> FALSE, vars |-> <<>>]
                   ELSE ReadOne(f[n - 1], file[n])
        BY <2>1, <4>1
      <4> HIDE DEF g
      <4>3. QED
        BY <3>1, <4>1, <4>2
    <3>4. QED
      BY <3>2, <3>3
  <2>3. Steps(g, N + 1)
    BY <2>2
  <2> HIDE DEF g, Steps
  <2>4. QED
    BY <2>3
<1> HIDE DEF S
<1>3. Len(file) \in S
  BY <1>1, <1>2, Induction
<1>4. Steps(ReadUpTo(file), Len(file))
  BY <1>3 DEF S, ReadUpTo
<1>5. \A n \in 0 .. Len(file) :
        ReadUpTo(file)[n] = IF n = 0 THEN [err |-> FALSE, vars |-> <<>>]
                            ELSE ReadOne(ReadUpTo(file)[n - 1], file[n])
  BY <1>4
<1>6. 0 \in 0 .. Len(file) /\ \A n \in 1 .. Len(file) : n \in 0 .. Len(file) /\ n # 0
  OBVIOUS
<1>7. QED
  BY <1>5, <1>6

\* So is Texts.
LEMMA TextsSteps ==
  ASSUME NEW file, Len(file) \in Nat
  PROVE  \A i \in 1 .. Len(file) :
           LET before == LastOf(file, file[i].ref, i - 1)
           IN  /\ file[i].ref = NoRef => Texts(file)[i] = file[i].text
               /\ file[i].ref # NoRef /\ before = {} => Texts(file)[i] = ""
               /\ file[i].ref # NoRef /\ before # {} =>
                    \E j \in before : Texts(file)[i] = Texts(file)[j]
<1> DEFINE B(i) == LastOf(file, file[i].ref, i - 1)
           TextIn(f, i) == IF file[i].ref = NoRef THEN file[i].text
                         ELSE IF B(i) = {} THEN "" ELSE f[CHOOSE j \in B(i) : TRUE]
           Steps(f, N) == f = [i \in 1 .. N |-> TextIn(f, i)]
           S == {N \in Nat : \E f : Steps(f, N)}
<1>1. 0 \in S
  <2>1. Steps([i \in 1 .. 0 |-> ""], 0)
    OBVIOUS
  <2> HIDE DEF Steps
  <2>2. QED
    BY <2>1
<1>2. ASSUME NEW N \in Nat, N \in S
      PROVE  N + 1 \in S
  <2>1. PICK f : Steps(f, N)
    BY <1>2
  <2> DEFINE g == [i \in 1 .. N + 1 |-> IF i = N + 1 THEN TextIn(f, i) ELSE f[i]]
  <2>2. ASSUME NEW i \in 1 .. N + 1
        PROVE  g[i] = TextIn(g, i)
    <3>1. \A j \in 1 .. N : g[j] = f[j]
      <4> HIDE DEF TextIn
      <4>1. QED
        OBVIOUS
    <3>2. B(i) # {} => (CHOOSE j \in B(i) : TRUE) \in 1 .. N
      BY DEF LastOf
    <3>3. TextIn(g, i) = TextIn(f, i)
      <4> HIDE DEF g, B
      <4>1. QED
        BY <3>1, <3>2
    <3>4. g[i] = TextIn(f, i)
      <4>1. CASE i = N + 1
        BY <4>1
      <4>2. CASE i # N + 1
        <5>1. g[i] = f[i] /\ i \in 1 .. N
          BY <4>2
        <5>2. QED
          BY <5>1, <2>1
      <4>3. QED
        BY <4>1, <4>2
    <3>5. QED
      BY <3>3, <3>4
  <2>3. Steps(g, N + 1)
    <3> HIDE DEF TextIn
    <3>1. g = [i \in 1 .. N + 1 |-> g[i]]
      OBVIOUS
    <3> HIDE DEF g
    <3>2. QED
      BY <2>2, <3>1
  <2> HIDE DEF g, Steps
  <2>4. QED
    BY <2>3
<1> HIDE DEF S
<1>3. Len(file) \in S
  BY <1>1, <1>2, Induction
<1>4. Steps(Texts(file), Len(file))
  BY <1>3 DEF S, Texts
<1>5. ASSUME NEW i \in 1 .. Len(file)
      PROVE  /\ file[i].ref = NoRef => Texts(file)[i] = file[i].text
             /\ file[i].ref # NoRef /\ B(i) = {} => Texts(file)[i] = ""
             /\ file[i].ref # NoRef /\ B(i) # {} => \E j \in B(i) : Texts(file)[i] = Texts(file)[j]
  <2>1. Texts(file)[i] = TextIn(Texts(file), i)
    <3> HIDE DEF TextIn
    <3>1. QED
      BY <1>4
  <2>2. B(i) # {} => (CHOOSE j \in B(i) : TRUE) \in B(i)
    OBVIOUS
  <2> HIDE DEF B
  <2>3. QED
    BY <2>1, <2>2
<1>6. QED
  BY <1>5

LEMMA LastOfSteps ==
  ASSUME NEW file, NEW name, NEW n \in Nat
  PROVE  /\ LastOf(file, name, 0) = {}
         /\ \A i, j \in LastOf(file, name, n) : i = j
         /\ file[n + 1].name = name => LastOf(file, name, n + 1) = {n + 1}
         /\ file[n + 1].name # name => LastOf(file, name, n + 1) = LastOf(file, name, n)
<1>1. LastOf(file, name, 0) = {}
  BY DEF LastOf
<1>2. \A i, j \in LastOf(file, name, n) : i = j
  BY DEF LastOf
<1>3. ASSUME file[n + 1].name = name
      PROVE  LastOf(file, name, n + 1) = {n + 1}
  <2>1. n + 1 \in LastOf(file, name, n + 1)
    BY <1>3 DEF LastOf
  <2>2. \A i \in LastOf(file, name, n + 1) : i = n + 1
    BY <1>3 DEF LastOf
  <2>3. QED
    BY <2>1, <2>2
<1>4. ASSUME file[n + 1].name # name
      PROVE  LastOf(file, name, n + 1) = LastOf(file, name, n)
  BY <1>4 DEF LastOf
<1>5. QED
  BY <1>1, <1>2, <1>3, <1>4

\* What the loop over the first n statements makes of them is what they mean.
ReadsAsMeant(file, n) ==
  LET out == ReadUpTo(file)[n]
  IN  /\ out.err \in BOOLEAN
      /\ out.err <=> \E i \in 1 .. n : ~file[i].wellFormed
      /\ out.err => out.vars = <<>>
      /\ ~out.err => \A name :
           /\ name \in DOMAIN out.vars <=> LastOf(file, name, n) # {}
           /\ \A j \in LastOf(file, name, n) : out.vars[name] = Texts(file)[j]

LEMMA ReadOneMore ==
  ASSUME NEW file, File(file), NEW n \in Nat, n + 1 <= Len(file), ReadsAsMeant(file, n)
  PROVE  ReadsAsMeant(file, n + 1)
<1> DEFINE out == ReadUpTo(file)[n]
           new == ReadUpTo(file)[n + 1]
           stmt == file[n + 1]
<1>1. new = ReadOne(out, stmt) /\ stmt.wellFormed \in BOOLEAN
      /\ n + 1 \in 1 .. Len(file)
  <2>1. n + 1 \in 1 .. Len(file) /\ n + 1 - 1 = n
    OBVIOUS
  <2>2. Len(file) \in Nat /\ n + 1 \in DOMAIN file /\ stmt.wellFormed \in BOOLEAN
    BY <2>1 DEF File
  <2>3. \A m \in 1 .. Len(file) :
          ReadUpTo(file)[m] = ReadOne(ReadUpTo(file)[m - 1], file[m])
    BY <2>2, ReadUpToSteps
  <2>4. new = ReadOne(out, stmt)
    BY <2>1, <2>3
  <2> QED
    BY <2>1, <2>2, <2>4
<1>2. \A i \in 1 .. n + 1 : i \in 1 .. n \/ i = n + 1
  OBVIOUS
<1>3. \A i \in 1 .. n : i \in 1 .. n + 1
  OBVIOUS
<1>4. n + 1 \in 1 .. n + 1
  OBVIOUS
<1> HIDE DEF new
<1>5. CASE out.err
  <2>1. new = out
    BY <1>1, <1>5 DEF ReadOne
  <2>2. QED
    BY <2>1, <1>3, <1>5 DEF ReadsAsMeant, new
<1>6. CASE ~out.err /\ ~stmt.wellFormed
  <2>1. new = [err |-> TRUE, vars |-> <<>>]
    BY <1>1, <1>6 DEF ReadOne
  <2>2. QED
    BY <2>1, <1>4, <1>6 DEF ReadsAsMeant, new
<1>7. CASE ~out.err /\ stmt.wellFormed
  <2>1. PICK text : text = ExtractVarValue(stmt, out.vars)
    OBVIOUS
  <2>2. new = [err |-> FALSE, vars |-> Setenv(out.vars, stmt.name, text)]
    BY <1>1, <1>7, <2>1 DEF ReadOne
  <2>3. /\ DOMAIN new.vars = {stmt.name} \cup DOMAIN out.vars
        /\ new.vars[stmt.name] = text
        /\ \A name \in DOMAIN out.vars : name # stmt.name => new.vars[name] = out.vars[name]
    BY <2>2 DEF Setenv
  <2>4. text = Texts(file)[n + 1]
    <3> DEFINE before == LastOf(file, stmt.ref, n)
    <3>1. /\ stmt.ref = NoRef => Texts(file)[n + 1] = stmt.text
          /\ stmt.ref # NoRef /\ before = {} => Texts(file)[n + 1] = ""
          /\ stmt.ref # NoRef /\ before # {} =>
               \E j \in before : Texts(file)[n + 1] = Texts(file)[j]
      <4>1. PICK i \in 1 .. Len(file) : i = n + 1 /\ i - 1 = n
        BY <1>1
      <4>2. LET earlier == LastOf(file, file[i].ref, i - 1)
            IN  /\ file[i].ref = NoRef => Texts(file)[i] = file[i].text
                /\ file[i].ref # NoRef /\ earlier = {} => Texts(file)[i] = ""
                /\ file[i].ref # NoRef /\ earlier # {} =>
                     \E j \in earlier : Texts(file)[i] = Texts(file)[j]
        BY TextsSteps, Len(file) \in Nat DEF File
      <4>3. QED
        BY <4>1, <4>2
    <3>2. CASE stmt.ref = NoRef
      BY <3>1, <3>2, <2>1 DEF ExtractVarValue
    <3>3. CASE stmt.ref # NoRef /\ before = {}
      <4>1. stmt.ref \notin DOMAIN out.vars
        BY <3>3, <1>7 DEF ReadsAsMeant
      <4>2. QED
        BY <3>1, <3>3, <4>1, <2>1 DEF ExtractVarValue, Lookup
    <3>4. CASE stmt.ref # NoRef /\ before # {}
      <4>1. PICK j \in before : Texts(file)[n + 1] = Texts(file)[j]
        BY <3>1, <3>4
      <4>2. stmt.ref \in DOMAIN out.vars /\ out.vars[stmt.ref] = Texts(file)[j]
        BY <3>4, <1>7 DEF ReadsAsMeant
      <4>3. QED
        BY <3>4, <4>1, <4>2, <2>1 DEF ExtractVarValue, Lookup
    <3>5. QED
      BY <1>1, <3>2, <3>3, <3>4
  <2>5. ASSUME NEW name
        PROVE  /\ name \in DOMAIN new.vars <=> LastOf(file, name, n + 1) # {}
               /\ \A j \in LastOf(file, name, n + 1) : new.vars[name] = Texts(file)[j]
    <3>1. CASE name = stmt.name
      <4>1. LastOf(file, name, n + 1) = {n + 1}
        BY <3>1, LastOfSteps
      <4>2. QED
        BY <3>1, <4>1, <2>3, <2>4
    <3>2. CASE name # stmt.name
      <4>1. LastOf(file, name, n + 1) = LastOf(file, name, n)
        BY <3>2, LastOfSteps
      <4>2. /\ name \in DOMAIN out.vars <=> LastOf(file, name, n) # {}
            /\ \A j \in LastOf(file, name, n) : out.vars[name] = Texts(file)[j]
        BY <1>7 DEF ReadsAsMeant
      <4>3. QED
        BY <3>2, <4>1, <4>2, <2>3
    <3>3. QED
      BY <3>1, <3>2
  <2>6. new.err = FALSE /\ ~\E i \in 1 .. n + 1 : ~file[i].wellFormed
    BY <2>2, <1>2, <1>7 DEF ReadsAsMeant
  <2>7. QED
    BY <2>5, <2>6 DEF ReadsAsMeant, new
<1>8. QED
  BY <1>1, <1>5, <1>6, <1>7 DEF ReadsAsMeant

\* Reading a file gives its variables as documented, whatever is in the file and
\* however long it is: the last assignment of a name counts, a reference stands
\* for what its name was given above it, and a malformed statement loses them
\* all (dotenv parseBytes).
THEOREM ParsedAsGiven ==
  ASSUME NEW file, File(file), NEW own, NEW name, name \notin DOMAIN own
  PROVE  LET read == ParseBytes(file).vars
         IN  /\ Given(file, own, name).set <=> name \in DOMAIN read
             /\ Given(file, own, name).text = Lookup(read, name)
<1> DEFINE S == {n \in Nat : n <= Len(file) => ReadsAsMeant(file, n)}
           out == ReadUpTo(file)[Len(file)]
           last == LastOf(file, name, Len(file))
<1>1. 0 \in S
  <2>1. ReadUpTo(file)[0] = [err |-> FALSE, vars |-> <<>>]
    BY ReadUpToSteps DEF File
  <2>2. \A n : LastOf(file, n, 0) = {}
    BY LastOfSteps
  <2>3. ReadsAsMeant(file, 0)
    BY <2>1, <2>2 DEF ReadsAsMeant
  <2>4. QED
    BY <2>3
<1>2. ASSUME NEW n \in Nat, n \in S
      PROVE  n + 1 \in S
  BY <1>2, ReadOneMore DEF File
<1>3. Len(file) \in S
  <2> HIDE DEF S
  <2>1. QED
    BY <1>1, <1>2, Induction DEF File
<1>4. ReadsAsMeant(file, Len(file))
  BY <1>3 DEF File
<1>5. ParseBytes(file) = out
  BY DEF ParseBytes
<1>6. out.err \in BOOLEAN /\ (out.err <=> ~Readable(file))
  BY <1>4 DEF ReadsAsMeant, Readable, File
<1>7. CASE out.err
  <2>1. out.vars = <<>>
    BY <1>4, <1>7 DEF ReadsAsMeant
  <2>2. name \notin DOMAIN out.vars
    BY <2>1
  <2>3. ~Given(file, own, name).set /\ Given(file, own, name).text = ""
    BY <1>6, <1>7 DEF Given
  <2>4. QED
    BY <1>5, <2>2, <2>3 DEF Lookup
<1>8. CASE ~out.err /\ last = {}
  <2>1. name \notin DOMAIN out.vars
    BY <1>4, <1>8 DEF ReadsAsMeant
  <2>2. ~Given(file, own, name).set /\ Given(file, own, name).text = ""
    BY <1>8 DEF Given
  <2>3. QED
    BY <1>5, <2>1, <2>2 DEF Lookup
<1>9. CASE ~out.err /\ last # {}
  <2>1. (CHOOSE i \in last : TRUE) \in last
    BY <1>9
  <2>2. name \in DOMAIN out.vars
        /\ out.vars[name] = Texts(file)[CHOOSE i \in last : TRUE]
    BY <1>4, <1>9, <2>1 DEF ReadsAsMeant
  <2>3. Given(file, own, name) = [set |-> TRUE, text |-> Texts(file)[CHOOSE i \in last : TRUE]]
    BY <1>6, <1>9 DEF Given
  <2>4. QED
    BY <1>5, <2>2, <2>3 DEF Lookup
<1>10. QED
  BY <1>6, <1>7, <1>8, <1>9

-----------------------------------------------------------------------------
\* What can be said of the fields of a struct: a type that is parsed, a key of
\* its own.
Struct(fields) ==
  /\ \A i \in DOMAIN fields : fields[i].type \in {"string", "int", "bool", "duration"}
  /\ \A i, j \in DOMAIN fields : fields[i].key = fields[j].key => i = j

LEMMA FieldIs ==
  ASSUME NEW key, NEW type, NEW default
  PROVE  Field(key, type, default).key = key /\ Field(key, type, default).type = type
BY DEF Field

LEMMA TextIs ==
  ASSUME NEW key
  PROVE  /\ Text(key).key = key /\ Text(key).type = "string"
         /\ RequiredText(key).key = key /\ RequiredText(key).type = "string"
BY DEF Text, RequiredText, Field

LEMMA Structs == \A p \in Packages : Struct(Fields[p])
<1>1. Struct(CacheFields) /\ Struct(CaptchaFields) /\ Struct(SignerFields)
  BY FieldIs, TextIs DEF Struct, CacheFields, CaptchaFields, SignerFields
<1>2. Struct(SlackFields) /\ Struct(OAuthFields) /\ Struct(DatabaseFields)
  BY FieldIs, TextIs DEF Struct, SlackFields, OAuthFields, DatabaseFields
<1>3. QED
  BY <1>1, <1>2 DEF Packages, Fields

\* An environment that holds what a process's own variables and a file give.
Holds(environment, file, own) ==
  \A n : /\ Given(file, own, n).set <=> n \in DOMAIN environment
         /\ Given(file, own, n).text = Lookup(environment, n)

\* One field of a struct is filled as documented.
Filled(f, prefix, environment, file, own) ==
  LET done == SetField(f, <<prefix, f.key>>, environment)
      text == Documented(f, prefix, file, own)
  IN  /\ done.err <=> \/ /\ f.required /\ f.default = ""
                         /\ ~Given(file, own, <<prefix, f.key>>).set
                      \/ f.type # "string" /\ text \notin Literals[f.type]
      /\ ~done.err => done.val = text

LEMMA FieldAsDocumented ==
  ASSUME NEW environment, NEW file, NEW own, Holds(environment, file, own), NEW prefix,
         NEW f, f.type \in {"string", "int", "bool", "duration"}
  PROVE  Filled(f, prefix, environment, file, own)
<1> DEFINE name == <<prefix, f.key>>
           given == Given(file, own, name)
           got == GetOr(f, name, environment)
<1>1. /\ given.set <=> name \in DOMAIN environment
      /\ given.text = Lookup(environment, name)
  BY DEF Holds
<1>2. ~given.set => given.text = ""
  BY <1>1 DEF Lookup
<1>3. f.type # "string" => Zero(f.type) \in Literals[f.type]
  BY LiteralsAssumption
<1>4. CASE given.text # ""
  <2>1. got.val = given.text /\ given.set /\ got.exists
    BY <1>1, <1>2, <1>4 DEF GetOr
  <2>2. Documented(f, prefix, file, own) = given.text
    BY <1>4 DEF Documented
  <2> HIDE DEF got, given, name
  <2>3. QED
    BY <2>1, <2>2, <1>4 DEF SetField, Get, Accepts, Filled, got, given, name
<1>5. CASE given.text = "" /\ f.default # ""
  <2>1. got.val = f.default /\ got.exists
    BY <1>1, <1>5 DEF GetOr
  <2>2. Documented(f, prefix, file, own) = f.default
    BY <1>5 DEF Documented
  <2>3. QED
    BY <2>1, <2>2, <1>5 DEF SetField, Get, Accepts, Filled
<1>6. CASE given.text = "" /\ f.default = ""
  <2>1. got.val = "" /\ (got.exists <=> given.set)
    BY <1>1, <1>6 DEF GetOr
  <2>2. Documented(f, prefix, file, own) = Zero(f.type)
    BY <1>6 DEF Documented
  <2>3. QED
    BY <2>1, <2>2, <1>3, <1>6 DEF SetField, Get, Accepts, Filled
<1>7. QED
  BY <1>4, <1>5, <1>6

\* So is the struct.
LEMMA StructAsDocumented ==
  ASSUME NEW environment, NEW file, NEW own, Holds(environment, file, own), NEW prefix,
         NEW fields, Struct(fields)
  PROVE  LET out == DoParse(fields, prefix, environment)
         IN  /\ out.err \in BOOLEAN
             /\ out.err <=> ~Fillable(fields, prefix, file, own)
             /\ ~out.err => \A i \in DOMAIN fields :
                  out.cfg[fields[i].key] = Documented(fields[i], prefix, file, own)
<1> DEFINE Done(i) == SetField(fields[i], <<prefix, fields[i].key>>, environment)
           out == DoParse(fields, prefix, environment)
<1>1. ASSUME NEW i \in DOMAIN fields
      PROVE  Filled(fields[i], prefix, environment, file, own)
  <2>1. fields[i].type \in {"string", "int", "bool", "duration"}
    BY DEF Struct
  <2>2. QED
    BY <2>1, FieldAsDocumented
<1>2. out.err <=> \E i \in DOMAIN fields : Done(i).err
  BY DEF DoParse
<1>3. ASSUME NEW i \in DOMAIN fields
      PROVE  out.cfg[fields[i].key] = Done(i).val
  <2> DEFINE key == fields[i].key
             j == CHOOSE j \in DOMAIN fields : fields[j].key = key
  <2>1. j \in DOMAIN fields /\ fields[j].key = key
    OBVIOUS
  <2>2. j = i
    BY <2>1 DEF Struct
  <2>3. out.cfg[key] = Done(j).val
    BY DEF DoParse
  <2>4. QED
    BY <2>2, <2>3
<1>4. out.err \in BOOLEAN
  BY DEF DoParse
<1> HIDE DEF out
<1>5. out.err <=> ~Fillable(fields, prefix, file, own)
  BY <1>1, <1>2 DEF Fillable, Filled
<1>6. ASSUME ~out.err, NEW i \in DOMAIN fields
      PROVE  out.cfg[fields[i].key] = Documented(fields[i], prefix, file, own)
  BY <1>1, <1>2, <1>3, <1>6 DEF Filled
<1>7. QED
  BY <1>4, <1>5, <1>6 DEF out

-----------------------------------------------------------------------------
(***************************************************************************)
(* The global instances: whatever the goroutines do, Init tells its caller *)
(* the truth.                                                              *)
(***************************************************************************)
InitOps == {"Init", "builder", "InitWithGORM"}

\* The goroutine inside defaultOnce.Do, if there is one.
Runs(g) ==
  \/ pc[g] \in {"new", "new gorm"}
  \/ pc[g] \in {"load", "set"} /\ ~GivesConfig(call[g].op)

Function(f) == f = [g \in Goroutines |-> f[g]]

StateTypes ==
  /\ world \in Scenarios
  /\ once \in {"new", "running", "done"}
  /\ err \in BOOLEAN
  /\ "kind" \in DOMAIN inst /\ inst = [x \in DOMAIN inst |-> inst[x]]
  /\ inst.kind \in {"nil", "typed nil", "usable", "closed"}
  /\ gorm.done \in BOOLEAN /\ gorm.err \in BOOLEAN
  /\ Function(pc) /\ Function(call) /\ Function(loaded) /\ Function(result)
  /\ \A g \in Goroutines : loaded[g].err \in BOOLEAN

RunsAlone ==
  /\ \A g \in Goroutines : Runs(g) => once = "running"
  /\ \A g, h \in Goroutines : Runs(g) /\ Runs(h) => g = h

\* What is there at each stage of the once.
InstanceFits ==
  /\ once = "new" => inst = Nil
  /\ \A g \in Goroutines :
       Runs(g) => IF pc[g] = "new gorm" THEN inst.kind = "usable" ELSE inst = Nil
  /\ once = "done" => IF err THEN inst.kind # "usable" \/ gorm.err
                             ELSE inst.kind \in {"usable", "closed"}
  /\ gorm.err => gorm.done

Told(g) ==
  pc[g] = "idle" /\ call[g].op \in InitOps =>
    /\ result[g] = "ok" => once = "done" /\ ~err
    /\ result[g] = "error" /\ ~loaded[g].err => once = "done" /\ err

AtGORM(g) == pc[g] = "gorm" => call[g].op = "GORM"

OnceInv ==
  /\ StateTypes /\ RunsAlone /\ InstanceFits
  /\ \A g \in Goroutines : Told(g) /\ AtGORM(g)

LEMMA OnceInvInit == Init => OnceInv
<1> SUFFICES ASSUME Init PROVE OnceInv
  OBVIOUS
<1>1. StateTypes
  BY DEF Init, StateTypes, Function, Nil, NotLoaded
<1>2. \A g \in Goroutines : ~Runs(g) /\ Told(g) /\ AtGORM(g)
  BY DEF Init, Runs, Told, AtGORM, InitOps, NoCall, None
<1>3. RunsAlone /\ InstanceFits
  BY <1>2 DEF RunsAlone, InstanceFits, Init
<1> QED
  BY <1>1, <1>2, <1>3 DEF OnceInv

\* A step of one goroutine is its own business.
Local(g) ==
  /\ world' = world
  /\ Function(pc') /\ Function(call') /\ Function(loaded') /\ Function(result')
  /\ \A h \in Goroutines \ {g} :
       pc'[h] = pc[h] /\ call'[h] = call[h] /\ loaded'[h] = loaded[h] /\ result'[h] = result[h]
  /\ loaded'[g].err \in BOOLEAN

\* A step that leaves the instance and the once alone.
LEMMA AsideKeeps ==
  ASSUME OnceInv, NEW g \in Goroutines, Local(g),
         once' = once, inst' = inst, err' = err \/ (once = "running" /\ err' \in BOOLEAN),
         gorm'.done \in BOOLEAN /\ gorm'.err \in BOOLEAN,
         gorm.err => gorm'.err, gorm'.err => gorm'.done,
         Runs(g)' => Runs(g) /\ (pc'[g] = "new gorm" <=> pc[g] = "new gorm"),
         Told(g)', AtGORM(g)'
  PROVE  OnceInv'
<1>1. StateTypes'
  BY DEF OnceInv, StateTypes, Local, Function
<1>2. err \in BOOLEAN /\ err' \in BOOLEAN
  BY DEF OnceInv, StateTypes
<1>3. ASSUME NEW h \in Goroutines \ {g}
      PROVE  (Runs(h)' <=> Runs(h)) /\ Told(h)' /\ AtGORM(h)'
  <2>1. pc'[h] = pc[h] /\ call'[h] = call[h] /\ loaded'[h] = loaded[h] /\ result'[h] = result[h]
    BY DEF Local
  <2>2. Told(h) /\ AtGORM(h)
    BY DEF OnceInv
  <2>3. (Runs(h)' <=> Runs(h)) /\ AtGORM(h)'
    BY <2>1, <2>2 DEF Runs, AtGORM
  <2>4. Told(h)'
    BY <1>2, <2>1, <2>2 DEF Told
  <2> QED
    BY <2>3, <2>4
<1>4. RunsAlone'
  BY <1>3 DEF OnceInv, RunsAlone
<1>5. InstanceFits'
  <2>1. InstanceFits
    BY DEF OnceInv
  <2>2. ASSUME NEW h \in Goroutines, Runs(h)'
        PROVE  IF pc'[h] = "new gorm" THEN inst'.kind = "usable" ELSE inst' = Nil
    <3>1. Runs(h) /\ (pc'[h] = "new gorm" <=> pc[h] = "new gorm")
      BY <1>3, <2>2 DEF Local
    <3>2. QED
      BY <3>1, <2>1 DEF InstanceFits
  <2>3. once' = "done" => IF err' THEN inst'.kind # "usable" \/ gorm'.err
                                  ELSE inst'.kind \in {"usable", "closed"}
    BY <1>2, <2>1 DEF InstanceFits
  <2>4. (once' = "new" => inst' = Nil) /\ (gorm'.err => gorm'.done)
    BY <2>1 DEF InstanceFits
  <2> QED
    BY <2>2, <2>3, <2>4 DEF InstanceFits
<1> QED
  BY <1>1, <1>3, <1>4, <1>5 DEF OnceInv

\* The end of the function that the once runs.
LEMMA EndKeeps ==
  ASSUME OnceInv, NEW g \in Goroutines, Local(g), Runs(g), ~Runs(g)',
         once' = "done", err' \in BOOLEAN,
         "kind" \in DOMAIN inst', inst' = [x \in DOMAIN inst' |-> inst'[x]],
         inst'.kind \in {"nil", "typed nil", "usable"},
         gorm'.done \in BOOLEAN /\ gorm'.err \in BOOLEAN,
         IF err' THEN inst'.kind # "usable" \/ gorm'.err ELSE inst'.kind = "usable",
         gorm'.err => gorm'.done,
         Told(g)', AtGORM(g)'
  PROVE  OnceInv'
<1>1. StateTypes'
  BY DEF OnceInv, StateTypes, Local, Function
<1>2. once = "running" /\ \A h \in Goroutines \ {g} : ~Runs(h)
  BY DEF OnceInv, RunsAlone
<1>3. \A h \in Goroutines \ {g} : ~Runs(h)' /\ Told(h)' /\ AtGORM(h)'
  BY <1>2 DEF OnceInv, Local, Runs, Told, AtGORM
<1>4. \A h \in Goroutines : ~Runs(h)'
  BY <1>3
<1>5. RunsAlone'
  BY <1>4 DEF RunsAlone
<1>6. InstanceFits'
  BY <1>4 DEF InstanceFits
<1> QED
  BY <1>1, <1>3, <1>5, <1>6 DEF OnceInv

-----------------------------------------------------------------------------
\* What the parts of an action do to the variables of their goroutine.
LEMMA ReturnMoves ==
  ASSUME OnceInv, NEW g \in Goroutines, NEW out, Return(g, out)
  PROVE  /\ Function(pc') /\ Function(result')
         /\ pc'[g] = "idle" /\ result'[g] = out
         /\ \A h \in Goroutines \ {g} : pc'[h] = pc[h] /\ result'[h] = result[h]
<1>1. pc' = [pc EXCEPT ![g] = "idle"] /\ result' = [result EXCEPT ![g] = out]
  BY DEF Return
<1>2. Function(pc) /\ Function(result)
  BY DEF OnceInv, StateTypes
<1>3. Function(pc') /\ pc'[g] = "idle" /\ \A h \in Goroutines \ {g} : pc'[h] = pc[h]
  BY <1>1, <1>2 DEF Function
<1>4. Function(result') /\ result'[g] = out
      /\ \A h \in Goroutines \ {g} : result'[h] = result[h]
  BY <1>1, <1>2 DEF Function
<1> QED
  BY <1>3, <1>4

LEMMA GotoMoves ==
  ASSUME OnceInv, NEW g \in Goroutines, NEW where, Goto(g, where)
  PROVE  /\ Function(pc') /\ Function(result')
         /\ pc'[g] = where /\ result'[g] = result[g]
         /\ \A h \in Goroutines \ {g} : pc'[h] = pc[h] /\ result'[h] = result[h]
<1>1. pc' = [pc EXCEPT ![g] = where] /\ result' = result
  BY DEF Goto
<1>2. Function(pc) /\ Function(result)
  BY DEF OnceInv, StateTypes
<1>3. Function(pc') /\ pc'[g] = where /\ \A h \in Goroutines \ {g} : pc'[h] = pc[h]
  BY <1>1, <1>2 DEF Function
<1> QED
  BY <1>1, <1>2, <1>3

LEMMA BeginMoves ==
  ASSUME OnceInv, NEW g \in Goroutines, NEW op, NEW prefix, Begin(g, op, prefix)
  PROVE  /\ Function(call') /\ Function(loaded')
         /\ call'[g].op = op /\ loaded'[g].err = FALSE
         /\ \A h \in Goroutines \ {g} : call'[h] = call[h] /\ loaded'[h] = loaded[h]
         /\ world' = world /\ once' = once /\ inst' = inst /\ err' = err /\ gorm' = gorm
         /\ pc[g] = "idle"
<1>1. /\ call' = [call EXCEPT ![g] = [op |-> op, prefix |-> prefix]]
      /\ loaded' = [loaded EXCEPT ![g] = NotLoaded]
      /\ UNCHANGED <<world, environ, once, instances, unset>>
      /\ pc[g] = "idle"
  BY DEF Begin
<1> Function(call) /\ Function(loaded)
  BY DEF OnceInv, StateTypes
<1>2. /\ Function(call') /\ call'[g] = [op |-> op, prefix |-> prefix]
      /\ \A h \in Goroutines \ {g} : call'[h] = call[h]
  BY <1>1 DEF Function
<1>3. /\ Function(loaded') /\ loaded'[g] = NotLoaded
      /\ \A h \in Goroutines \ {g} : loaded'[h] = loaded[h]
  BY <1>1 DEF Function
<1>4. call'[g].op = op /\ loaded'[g].err = FALSE
  BY <1>2, <1>3 DEF NotLoaded
<1>5. inst' = inst /\ err' = err /\ gorm' = gorm
  BY <1>1 DEF instances
<1> QED
  BY <1>1, <1>2, <1>3, <1>4, <1>5

LEMMA AfterInitMoves ==
  ASSUME OnceInv, NEW g \in Goroutines, NEW failed \in BOOLEAN, NEW made,
         AfterInit(g, failed, made)
  PROVE  /\ Function(pc') /\ Function(result')
         /\ \A h \in Goroutines \ {g} : pc'[h] = pc[h] /\ result'[h] = result[h]
         /\ \/ pc'[g] = "idle" /\ call[g].op \notin InitOps
            \/ pc'[g] = "idle" /\ result'[g] = IF failed THEN "error" ELSE "ok"
            \/ pc'[g] = "gorm" /\ call[g].op = "GORM"
<1>1. CASE call[g].op = "Default"
  <2>1. PICK out : Return(g, out)
    BY <1>1 DEF AfterInit
  <2>2. QED
    BY <1>1, <2>1, ReturnMoves DEF InitOps
<1>2. CASE call[g].op = "GORM" /\ ~failed
  <2>1. Goto(g, "gorm")
    BY <1>2 DEF AfterInit
  <2>2. QED
    BY <1>2, <2>1, GotoMoves
<1>3. CASE call[g].op # "Default" /\ ~(call[g].op = "GORM" /\ ~failed)
  <2>1. Return(g, IF failed THEN "error" ELSE "ok")
    BY <1>3 DEF AfterInit
  <2>2. QED
    BY <2>1, ReturnMoves
<1> QED
  BY <1>1, <1>2, <1>3

-----------------------------------------------------------------------------
\* The beginnings of calls.
LEMMA CallsKeep ==
  ASSUME OnceInv, NEW g \in Goroutines,
         \/ CallInit(g) \/ CallDefault(g) \/ CallUse(g) \/ CallInitWithGORM(g) \/ CallGORM(g)
         \/ \E prefix \in world.prefixes : CallBuilderInit(g, prefix)
  PROVE  OnceInv'
<1> DEFINE Way(op, where) ==
             \/ where = "once"
             \/ where = "load" /\ GivesConfig(op)
             \/ where = "gorm" /\ op = "GORM"
<1>1. \E op, prefix :
        /\ Begin(g, op, prefix)
        /\ \/ \E where : Goto(g, where) /\ Way(op, where)
           \/ \E out : Return(g, out) /\ op \notin InitOps
  <2>1. CASE CallInit(g)
    BY <2>1 DEF CallInit
  <2>2. CASE CallDefault(g)
    <3>1. Begin(g, "Default", DefaultPrefix(world.pkg)) /\ "Default" \notin InitOps
      BY <2>2 DEF CallDefault, InitOps
    <3>2. (\E where : Goto(g, where) /\ Way("Default", where)) \/ \E out : Return(g, out)
      BY <2>2 DEF CallDefault
    <3> QED
      BY <3>1, <3>2
  <2>3. CASE CallUse(g)
    <3>1. Begin(g, "use", None) /\ "use" \notin InitOps
      BY <2>3 DEF CallUse, InitOps
    <3>2. \E out : Return(g, out)
      BY <2>3 DEF CallUse
    <3> QED
      BY <3>1, <3>2
  <2>4. CASE CallInitWithGORM(g)
    BY <2>4 DEF CallInitWithGORM, GivesConfig
  <2>5. CASE CallGORM(g)
    <3>1. Begin(g, "GORM", DefaultPrefix(world.pkg))
      BY <2>5 DEF CallGORM
    <3>2. Goto(g, "once") \/ Goto(g, "gorm")
      BY <2>5 DEF CallGORM
    <3> QED
      BY <3>1, <3>2
  <2>6. CASE \E p \in world.prefixes : CallBuilderInit(g, p)
    <3>1. PICK p : Begin(g, "builder", p) /\ Goto(g, "load")
      BY <2>6 DEF CallBuilderInit
    <3> QED
      BY <3>1 DEF GivesConfig
  <2> QED
    BY <2>1, <2>2, <2>3, <2>4, <2>5, <2>6
<1>2. PICK op, prefix :
        /\ Begin(g, op, prefix)
        /\ \/ \E where : Goto(g, where) /\ Way(op, where)
           \/ \E out : Return(g, out) /\ op \notin InitOps
  BY <1>1
<1>3. /\ Function(call') /\ Function(loaded')
      /\ call'[g].op = op /\ loaded'[g].err = FALSE
      /\ \A h \in Goroutines \ {g} : call'[h] = call[h] /\ loaded'[h] = loaded[h]
      /\ world' = world /\ once' = once /\ inst' = inst /\ err' = err /\ gorm' = gorm
      /\ pc[g] = "idle"
  BY <1>2, BeginMoves
<1>4. /\ Function(pc') /\ Function(result')
      /\ \A h \in Goroutines \ {g} : pc'[h] = pc[h] /\ result'[h] = result[h]
      /\ \/ pc'[g] = "once"
         \/ pc'[g] = "load" /\ GivesConfig(op)
         \/ pc'[g] = "gorm" /\ op = "GORM"
         \/ pc'[g] = "idle" /\ op \notin InitOps
  BY <1>2, ReturnMoves, GotoMoves
<1>5. Local(g)
  BY <1>3, <1>4 DEF Local
<1>6. ~Runs(g)' /\ Told(g)' /\ AtGORM(g)'
  BY <1>3, <1>4 DEF Runs, Told, AtGORM
<1>7. gorm.done \in BOOLEAN /\ gorm.err \in BOOLEAN /\ (gorm.err => gorm.done)
  BY DEF OnceInv, StateTypes, InstanceFits
<1> QED
  BY <1>3, <1>5, <1>6, <1>7, AsideKeeps

\* The steps of config.Load that leave the instances alone.
LEMMA LoadKeeps ==
  ASSUME OnceInv, NEW g \in Goroutines, LoadFile(g) \/ SetVariable(g)
  PROVE  OnceInv'
<1>1. /\ world' = world /\ once' = once /\ inst' = inst /\ err' = err /\ gorm' = gorm
      /\ call' = call /\ loaded' = loaded
  BY DEF LoadFile, SetVariable, instances
<1>2. /\ pc[g] \in {"load", "set"}
      /\ Function(pc') /\ Function(result')
      /\ pc'[g] = "set" /\ result'[g] = result[g]
      /\ \A h \in Goroutines \ {g} : pc'[h] = pc[h] /\ result'[h] = result[h]
  <2>1. CASE LoadFile(g)
    BY <2>1, GotoMoves DEF LoadFile
  <2>2. CASE SetVariable(g)
    BY <2>2 DEF SetVariable, OnceInv, StateTypes
  <2> QED
    BY <2>1, <2>2
<1>3. Local(g)
  BY <1>1, <1>2 DEF Local, OnceInv, StateTypes
<1>4. (Runs(g)' <=> Runs(g)) /\ Told(g)' /\ AtGORM(g)'
  BY <1>1, <1>2 DEF Runs, Told, AtGORM
<1>5. gorm.done \in BOOLEAN /\ gorm.err \in BOOLEAN /\ (gorm.err => gorm.done)
  BY DEF OnceInv, StateTypes, InstanceFits
<1> QED
  BY <1>1, <1>2, <1>3, <1>4, <1>5, AsideKeeps

\* The end of config.Load: outside the once it is followed by Init or by an error,
\* inside by New or by the error that Init will always return.
LEMMA ParseKeeps ==
  ASSUME OnceInv, NEW g \in Goroutines, ParseStruct(g), loaded'[g].err \in BOOLEAN
  PROVE  OnceInv'
<1>1. /\ world' = world /\ inst' = inst /\ gorm' = gorm /\ call' = call
      /\ pc[g] = "set"
      /\ Function(loaded') /\ \A h \in Goroutines \ {g} : loaded'[h] = loaded[h]
  BY DEF ParseStruct, OnceInv, StateTypes, Function
<1>2. CASE GivesConfig(call[g].op)
  <2>1. /\ once' = once /\ err' = err
        /\ IF loaded'[g].err THEN Return(g, "error") ELSE Goto(g, "once")
    BY <1>2 DEF ParseStruct
  <2>2. /\ Function(pc') /\ Function(result')
        /\ \A h \in Goroutines \ {g} : pc'[h] = pc[h] /\ result'[h] = result[h]
        /\ \/ pc'[g] = "idle" /\ result'[g] = "error" /\ loaded'[g].err
           \/ pc'[g] = "once"
    BY <2>1, ReturnMoves, GotoMoves
  <2>3. Local(g)
    BY <1>1, <2>2 DEF Local, OnceInv, StateTypes
  <2>4. ~Runs(g)' /\ Told(g)' /\ AtGORM(g)'
    BY <2>2 DEF Runs, Told, AtGORM
  <2>5. gorm.done \in BOOLEAN /\ gorm.err \in BOOLEAN /\ (gorm.err => gorm.done)
    BY DEF OnceInv, StateTypes, InstanceFits
  <2> QED
    BY <1>1, <2>1, <2>3, <2>4, <2>5, AsideKeeps
<1>3. CASE ~GivesConfig(call[g].op)
  <2>1. /\ err' = loaded'[g].err
        /\ once' = IF err' THEN "done" ELSE once
        /\ IF err' THEN AfterInit(g, TRUE, inst) ELSE Goto(g, "new")
    BY <1>3 DEF ParseStruct
  <2>2. Runs(g) /\ once = "running" /\ inst = Nil
    BY <1>1, <1>3 DEF Runs, OnceInv, RunsAlone, InstanceFits
  <2>3. gorm.done \in BOOLEAN /\ gorm.err \in BOOLEAN /\ (gorm.err => gorm.done)
    BY DEF OnceInv, StateTypes, InstanceFits
  <2>4. CASE err'
    <3>1. /\ Function(pc') /\ Function(result')
          /\ \A h \in Goroutines \ {g} : pc'[h] = pc[h] /\ result'[h] = result[h]
          /\ \/ pc'[g] = "idle" /\ call[g].op \notin InitOps
             \/ pc'[g] = "idle" /\ result'[g] = "error"
             \/ pc'[g] = "gorm" /\ call[g].op = "GORM"
      BY <2>1, <2>4, AfterInitMoves
    <3>2. Local(g)
      BY <1>1, <3>1 DEF Local, OnceInv, StateTypes
    <3>3. ~Runs(g)' /\ Told(g)' /\ AtGORM(g)'
      BY <1>1, <2>1, <2>4, <3>1 DEF Runs, Told, AtGORM
    <3>4. /\ once' = "done" /\ err' \in BOOLEAN
          /\ "kind" \in DOMAIN inst' /\ inst' = [x \in DOMAIN inst' |-> inst'[x]]
          /\ inst'.kind = "nil"
      BY <1>1, <2>1, <2>2, <2>4 DEF Nil
    <3> QED
      BY <1>1, <2>2, <2>3, <2>4, <3>2, <3>3, <3>4, EndKeeps
  <2>5. CASE ~err'
    <3>1. /\ Function(pc') /\ Function(result')
          /\ \A h \in Goroutines \ {g} : pc'[h] = pc[h] /\ result'[h] = result[h]
          /\ pc'[g] = "new"
      BY <2>1, <2>5, GotoMoves
    <3>2. Local(g)
      BY <1>1, <3>1 DEF Local, OnceInv, StateTypes
    <3>3. Told(g)' /\ AtGORM(g)' /\ pc[g] # "new gorm" /\ pc'[g] # "new gorm"
      BY <1>1, <3>1 DEF Told, AtGORM
    <3>4. once' = once /\ err' \in BOOLEAN
      BY <2>1, <2>5
    <3> QED
      BY <1>1, <2>2, <2>3, <3>2, <3>3, <3>4, AsideKeeps
  <2> QED
    BY <2>1, <2>4, <2>5
<1> QED
  BY <1>2, <1>3

-----------------------------------------------------------------------------
\* defaultOnce.Do
LEMMA OnceKeeps ==
  ASSUME OnceInv, NEW g \in Goroutines, Once(g)
  PROVE  OnceInv'
<1>1. /\ world' = world /\ inst' = inst /\ err' = err /\ gorm' = gorm /\ call' = call
      /\ loaded' = loaded /\ pc[g] = "once" /\ ~Runs(g)
  BY DEF Once, instances, Runs
<1>2. gorm.done \in BOOLEAN /\ gorm.err \in BOOLEAN /\ err \in BOOLEAN /\ (gorm.err => gorm.done)
  BY DEF OnceInv, StateTypes, InstanceFits
<1>3. CASE once = "done"
  <2>1. once' = once /\ AfterInit(g, err, inst)
    BY <1>3 DEF Once
  <2>2. /\ Function(pc') /\ Function(result')
        /\ \A h \in Goroutines \ {g} : pc'[h] = pc[h] /\ result'[h] = result[h]
        /\ \/ pc'[g] = "idle" /\ call[g].op \notin InitOps
           \/ pc'[g] = "idle" /\ result'[g] = IF err THEN "error" ELSE "ok"
           \/ pc'[g] = "gorm" /\ call[g].op = "GORM"
    BY <1>2, <2>1, AfterInitMoves
  <2>3. Local(g)
    BY <1>1, <2>2 DEF Local, OnceInv, StateTypes
  <2>4. ~Runs(g)' /\ Told(g)' /\ AtGORM(g)'
    BY <1>1, <1>2, <1>3, <2>1, <2>2 DEF Runs, Told, AtGORM
  <2> QED
    BY <1>1, <1>2, <2>1, <2>3, <2>4, AsideKeeps
<1>4. CASE once = "new"
  <2>1. once' = "running" /\ Goto(g, IF GivesConfig(call[g].op) THEN "new" ELSE "load")
    BY <1>4 DEF Once
  <2>2. /\ Function(pc') /\ Function(result')
        /\ \A h \in Goroutines \ {g} : pc'[h] = pc[h] /\ result'[h] = result[h]
        /\ pc'[g] \in {"new", "load"} /\ result'[g] = result[g]
    BY <2>1, GotoMoves
  <2>3. Local(g)
    BY <1>1, <2>2 DEF Local, OnceInv, StateTypes
  <2>4. StateTypes'
    BY <1>1, <2>1, <2>3 DEF Local, OnceInv, StateTypes
  <2>5. \A h \in Goroutines \ {g} : ~Runs(h)' /\ Told(h)' /\ AtGORM(h)'
    <3> SUFFICES ASSUME NEW h \in Goroutines \ {g} PROVE ~Runs(h)' /\ Told(h)' /\ AtGORM(h)'
      OBVIOUS
    <3>1. ~Runs(h) /\ Told(h) /\ AtGORM(h)
      BY <1>4 DEF OnceInv, RunsAlone
    <3>2. ~Runs(h)' /\ AtGORM(h)'
      BY <1>1, <2>2, <3>1 DEF Runs, AtGORM
    <3>3. Told(h)'
      BY <1>1, <1>4, <2>2, <3>1 DEF Told
    <3> QED
      BY <3>2, <3>3
  <2>6. Told(g)' /\ AtGORM(g)'
    BY <2>2 DEF Told, AtGORM
  <2>7. RunsAlone'
    BY <2>1, <2>5 DEF RunsAlone
  <2>8. InstanceFits'
    BY <1>1, <1>4, <2>1, <2>2, <2>5 DEF InstanceFits, OnceInv
  <2> QED
    BY <2>4, <2>5, <2>6, <2>7, <2>8 DEF OnceInv
<1> QED
  BY <1>3, <1>4 DEF Once

-----------------------------------------------------------------------------
\* What New of a package, of any outcome, answers.
IsAnswer(made) ==
  /\ made.err \in BOOLEAN
  /\ "kind" \in DOMAIN made.inst
  /\ made.inst = [x \in DOMAIN made.inst |-> made.inst[x]]
  /\ made.inst.kind \in {"nil", "typed nil", "usable"}
  /\ made.err <=> made.inst.kind # "usable"

LEMMA AnswersAre ==
  ASSUME NEW cfg
  PROVE  IsAnswer(Made(cfg)) /\ IsAnswer(Failed) /\ IsAnswer(FailedDriver)
<1>1. IsAnswer(Made(cfg))
  BY DEF IsAnswer, Made, Usable
<1>2. IsAnswer(Failed)
  BY DEF IsAnswer, Failed, Nil
<1>3. IsAnswer(FailedDriver)
  BY DEF IsAnswer, FailedDriver
<1> QED
  BY <1>1, <1>2, <1>3

\* New of a package answers an instance or an error.
LEMMA NewAnswers ==
  ASSUME NEW p \in Packages, NEW cfg, NEW up
  PROVE  IsAnswer(New(p, cfg, up))
<1>1. CASE p = "cache"
  <2>1. New(p, cfg, up) = NewCache(cfg, up)
    BY <1>1 DEF New
  <2>2. NewCache(cfg, up) \in {Made(cfg), Failed, FailedDriver}
    BY DEF NewCache, NewRedis
  <2> QED
    BY <2>1, <2>2, AnswersAre
<1>2. CASE p = "captcha"
  <2>1. New(p, cfg, up) = NewCaptcha(cfg)
    BY <1>2 DEF New
  <2> QED
    BY <2>1, AnswersAre DEF NewCaptcha
<1>3. CASE p = "urlsigner"
  <2>1. New(p, cfg, up) = NewSigner(cfg)
    BY <1>3 DEF New
  <2> QED
    BY <2>1, AnswersAre DEF NewSigner
<1>4. CASE p = "slack"
  <2>1. New(p, cfg, up) = NewSlack(cfg)
    BY <1>4 DEF New
  <2> QED
    BY <2>1, AnswersAre DEF NewSlack
<1>5. CASE p = "oauth"
  <2>1. New(p, cfg, up) = NewOAuth(cfg)
    BY <1>5 DEF New
  <2> QED
    BY <2>1, AnswersAre DEF NewOAuth
<1>6. CASE p = "database"
  <2>1. New(p, cfg, up) = NewSQL(cfg, up)
    BY <1>6 DEF New
  <2> QED
    BY <2>1, AnswersAre DEF NewSQL
<1> QED
  BY <1>1, <1>2, <1>3, <1>4, <1>5, <1>6 DEF Packages

LEMMA GORMAnswers ==
  ASSUME OnceInv
  PROVE  /\ GORMOnce.done \in BOOLEAN /\ GORMOnce.err \in BOOLEAN
         /\ GORMOnce.done
         /\ gorm.err => GORMOnce.err
<1>1. gorm.done \in BOOLEAN /\ gorm.err \in BOOLEAN /\ (gorm.err => gorm.done)
  BY DEF OnceInv, StateTypes, InstanceFits
<1>2. PICK made : made = NewGORM(stored) /\ made.err \in BOOLEAN
  <2>1. NewGORM(stored) \in {Made(stored), Failed}
    BY DEF NewGORM
  <2>2. IsAnswer(NewGORM(stored))
    BY <2>1, AnswersAre
  <2> QED
    BY <2>2 DEF IsAnswer
<1>3. CASE gorm.done
  BY <1>1, <1>3 DEF GORMOnce
<1>4. CASE ~gorm.done
  <2>1. GORMOnce = [done |-> TRUE, inst |-> made.inst, err |-> made.err]
    BY <1>2, <1>4 DEF GORMOnce
  <2> QED
    BY <1>1, <1>2, <1>4, <2>1
<1> QED
  BY <1>1, <1>3, <1>4

\* The end of the once: New, for the database followed by GORM.
LEMMA MakeKeeps ==
  ASSUME OnceInv, NEW g \in Goroutines, Make(g)
  PROVE  OnceInv'
<1>1. /\ world' = world /\ gorm' = gorm /\ call' = call /\ loaded' = loaded /\ pc[g] = "new"
      /\ world \in Scenarios /\ once = "running" /\ Runs(g)
  BY DEF Make, OnceInv, RunsAlone, Runs, StateTypes
<1>2. PICK made : /\ made = New(world.pkg, Config(g), world.up)
                  /\ made.err \in BOOLEAN
                  /\ "kind" \in DOMAIN made.inst
                  /\ made.inst = [x \in DOMAIN made.inst |-> made.inst[x]]
                  /\ made.inst.kind \in {"nil", "typed nil", "usable"}
                  /\ made.err <=> made.inst.kind # "usable"
  <2>1. world.pkg \in Packages
    BY <1>1, ScenarioAssumption
  <2>2. IsAnswer(New(world.pkg, Config(g), world.up))
    BY <2>1, NewAnswers
  <2> QED
    BY <2>2 DEF IsAnswer
<1>3. /\ inst' = made.inst /\ err' = made.err
      /\ \/ ~made.err /\ Goto(g, "new gorm") /\ once' = once
         \/ once' = "done" /\ AfterInit(g, made.err, made.inst)
  BY <1>2 DEF Make
<1>4. gorm.done \in BOOLEAN /\ gorm.err \in BOOLEAN /\ (gorm.err => gorm.done)
  BY DEF OnceInv, StateTypes, InstanceFits
<1>5. CASE once' = "done" /\ AfterInit(g, made.err, made.inst)
  <2>1. /\ Function(pc') /\ Function(result')
        /\ \A h \in Goroutines \ {g} : pc'[h] = pc[h] /\ result'[h] = result[h]
        /\ \/ pc'[g] = "idle" /\ call[g].op \notin InitOps
           \/ pc'[g] = "idle" /\ result'[g] = IF made.err THEN "error" ELSE "ok"
           \/ pc'[g] = "gorm" /\ call[g].op = "GORM"
    BY <1>2, <1>5, AfterInitMoves
  <2>2. Local(g)
    BY <1>1, <2>1 DEF Local, OnceInv, StateTypes
  <2>3. ~Runs(g)' /\ AtGORM(g)'
    BY <1>1, <2>1 DEF Runs, AtGORM
  <2>4. Told(g)'
    BY <1>1, <1>2, <1>3, <1>5, <2>1 DEF Told
  <2> QED
    BY <1>1, <1>2, <1>3, <1>4, <1>5, <2>2, <2>3, <2>4, EndKeeps
<1>6. CASE ~made.err /\ Goto(g, "new gorm") /\ once' = once
  <2>1. /\ Function(pc') /\ Function(result')
        /\ \A h \in Goroutines \ {g} : pc'[h] = pc[h] /\ result'[h] = result[h]
        /\ pc'[g] = "new gorm"
    BY <1>6, GotoMoves
  <2>2. Local(g)
    BY <1>1, <2>1 DEF Local, OnceInv, StateTypes
  <2>3. StateTypes'
    BY <1>1, <1>2, <1>3, <1>4, <1>6, <2>2 DEF Local, OnceInv, StateTypes
  <2>4. \A h \in Goroutines \ {g} : ~Runs(h)' /\ Told(h)' /\ AtGORM(h)'
    <3> SUFFICES ASSUME NEW h \in Goroutines \ {g} PROVE ~Runs(h)' /\ Told(h)' /\ AtGORM(h)'
      OBVIOUS
    <3>1. ~Runs(h) /\ Told(h) /\ AtGORM(h)
      BY <1>1 DEF OnceInv, RunsAlone
    <3>2. ~Runs(h)' /\ AtGORM(h)'
      BY <1>1, <2>1, <3>1 DEF Runs, AtGORM
    <3>3. Told(h)'
      BY <1>1, <1>6, <2>1, <3>1 DEF Told
    <3> QED
      BY <3>2, <3>3
  <2>5. Told(g)' /\ AtGORM(g)'
    BY <2>1 DEF Told, AtGORM
  <2>6. RunsAlone'
    BY <1>1, <1>6, <2>4 DEF RunsAlone
  <2>7. InstanceFits'
    BY <1>1, <1>2, <1>3, <1>4, <1>6, <2>1, <2>4 DEF InstanceFits
  <2> QED
    BY <2>3, <2>4, <2>5, <2>6, <2>7 DEF OnceInv
<1> QED
  BY <1>3, <1>5, <1>6

LEMMA MakeGORMKeeps ==
  ASSUME OnceInv, NEW g \in Goroutines, MakeGORM(g)
  PROVE  OnceInv'
<1>1. /\ world' = world /\ inst' = inst /\ call' = call /\ loaded' = loaded
      /\ pc[g] = "new gorm" /\ Runs(g)
      /\ gorm' = GORMOnce /\ err' = gorm'.err /\ once' = "done"
      /\ AfterInit(g, gorm'.err, inst)
  BY DEF MakeGORM, Runs
<1>2. inst.kind = "usable" /\ "kind" \in DOMAIN inst /\ inst = [x \in DOMAIN inst |-> inst[x]]
  BY <1>1 DEF OnceInv, InstanceFits, StateTypes
<1>3. gorm'.done \in BOOLEAN /\ gorm'.err \in BOOLEAN /\ gorm'.done
  BY <1>1, GORMAnswers
<1>4. /\ Function(pc') /\ Function(result')
      /\ \A h \in Goroutines \ {g} : pc'[h] = pc[h] /\ result'[h] = result[h]
      /\ \/ pc'[g] = "idle" /\ call[g].op \notin InitOps
         \/ pc'[g] = "idle" /\ result'[g] = IF gorm'.err THEN "error" ELSE "ok"
         \/ pc'[g] = "gorm" /\ call[g].op = "GORM"
  BY <1>1, <1>3, AfterInitMoves
<1>5. Local(g)
  BY <1>1, <1>4 DEF Local, OnceInv, StateTypes
<1>6. ~Runs(g)' /\ AtGORM(g)'
  BY <1>1, <1>4 DEF Runs, AtGORM
<1>7. Told(g)'
  BY <1>1, <1>3, <1>4 DEF Told
<1> QED
  BY <1>1, <1>2, <1>3, <1>5, <1>6, <1>7, EndKeeps

LEMMA AnswerGORMKeeps ==
  ASSUME OnceInv, NEW g \in Goroutines, AnswerGORM(g)
  PROVE  OnceInv'
<1>1. /\ world' = world /\ once' = once /\ inst' = inst /\ err' = err
      /\ call' = call /\ loaded' = loaded
      /\ pc[g] = "gorm" /\ call[g].op = "GORM"
      /\ gorm' = GORMOnce \/ gorm' = gorm
      /\ \E out : Return(g, out)
  BY DEF AnswerGORM, OnceInv, AtGORM
<1>2. /\ gorm'.done \in BOOLEAN /\ gorm'.err \in BOOLEAN
      /\ gorm.err => gorm'.err
      /\ gorm'.err => gorm'.done
  <2>1. gorm.done \in BOOLEAN /\ gorm.err \in BOOLEAN /\ (gorm.err => gorm.done)
    BY DEF OnceInv, StateTypes, InstanceFits
  <2> QED
    BY <1>1, <2>1, GORMAnswers
<1>3. /\ Function(pc') /\ Function(result') /\ pc'[g] = "idle"
      /\ \A h \in Goroutines \ {g} : pc'[h] = pc[h] /\ result'[h] = result[h]
  BY <1>1, ReturnMoves
<1>4. Local(g)
  BY <1>1, <1>3 DEF Local, OnceInv, StateTypes
<1>5. ~Runs(g)' /\ Told(g)' /\ AtGORM(g)'
  BY <1>1, <1>3 DEF Runs, Told, AtGORM, InitOps
<1> QED
  BY <1>1, <1>2, <1>4, <1>5, AsideKeeps

-----------------------------------------------------------------------------
\* The end of an instance: nobody is in the once.
LEMMA ShutdownKeeps ==
  ASSUME OnceInv, NEW g \in Goroutines, Shutdown(g)
  PROVE  OnceInv'
<1>1. /\ world' = world /\ once' = once /\ err' = err /\ gorm' = gorm
      /\ pc' = pc /\ call' = call /\ loaded' = loaded
      /\ inst' = (IF inst.kind = "usable" THEN [inst EXCEPT !.kind = "closed"] ELSE inst)
  BY DEF Shutdown
<1>2. \E out \in {"panic", None} : result' = [result EXCEPT ![g] = out]
  BY DEF Shutdown
<1>3. PICK out \in {"panic", None} : result' = [result EXCEPT ![g] = out]
  BY <1>2
<1>4. /\ Function(result') /\ result'[g] \notin {"ok", "error"}
      /\ \A h \in Goroutines \ {g} : result'[h] = result[h]
  BY <1>3 DEF OnceInv, StateTypes, Function, None
<1>5. \A h \in Goroutines : pc[h] = "idle" /\ ~Runs(h) /\ ~Runs(h)'
  BY <1>1 DEF Shutdown, Quiet, Runs
<1>6. /\ "kind" \in DOMAIN inst' /\ inst' = [x \in DOMAIN inst' |-> inst'[x]]
      /\ inst'.kind = IF inst.kind = "usable" THEN "closed" ELSE inst.kind
  <2>1. "kind" \in DOMAIN inst /\ inst = [x \in DOMAIN inst |-> inst[x]]
    BY DEF OnceInv, StateTypes
  <2> QED
    BY <1>1, <2>1
<1>7. StateTypes'
  BY <1>1, <1>4, <1>6 DEF OnceInv, StateTypes
<1>8. RunsAlone'
  BY <1>5 DEF RunsAlone
<1>9. InstanceFits'
  <2>1. Nil.kind # "usable"
    BY DEF Nil
  <2>2. once = "new" => inst' = Nil
    BY <1>1, <2>1 DEF OnceInv, InstanceFits
  <2> QED
    BY <1>1, <1>5, <1>6, <2>2 DEF OnceInv, InstanceFits
<1>10. ASSUME NEW h \in Goroutines
       PROVE  Told(h)' /\ AtGORM(h)'
  <2>1. Told(h) /\ AtGORM(h) /\ err \in BOOLEAN
    BY DEF OnceInv, StateTypes
  <2>2. result'[h] = result[h] \/ result'[h] \notin {"ok", "error"}
    BY <1>4
  <2> QED
    BY <1>1, <2>1, <2>2 DEF Told, AtGORM
<1> QED
  BY <1>7, <1>8, <1>9, <1>10 DEF OnceInv

LEMMA ResetKeeps ==
  ASSUME OnceInv, NEW g \in Goroutines, Reset(g)
  PROVE  OnceInv'
<1>1. /\ world' = world /\ gorm' = gorm /\ pc' = pc /\ call' = call /\ loaded' = loaded
      /\ \/ once' = once /\ inst' = inst /\ err' = err /\ result' = [result EXCEPT ![g] = "panic"]
         \/ /\ once' = "new" /\ inst' = Nil /\ err' = FALSE
            /\ result' = [h \in Goroutines |-> None]
  BY DEF Reset
<1>2. \A h \in Goroutines : pc[h] = "idle" /\ ~Runs(h) /\ ~Runs(h)'
  BY <1>1 DEF Reset, Quiet, Runs
<1>3. /\ Function(result')
      /\ \A h \in Goroutines :
           \/ result'[h] \notin {"ok", "error"}
           \/ result'[h] = result[h] /\ once' = once /\ err' = err
  BY <1>1 DEF OnceInv, StateTypes, Function, None
<1> DEFINE Kept == once' = once /\ inst' = inst /\ err' = err
           Gone == once' = "new" /\ inst' = Nil /\ err' = FALSE
<1>4. StateTypes'
  <2>1. CASE Kept
    BY <1>1, <1>3, <2>1 DEF OnceInv, StateTypes
  <2>2. CASE Gone
    <3>1. /\ "kind" \in DOMAIN inst' /\ inst' = [x \in DOMAIN inst' |-> inst'[x]]
          /\ inst'.kind = "nil"
      BY <2>2 DEF Nil
    <3> QED
      BY <1>1, <1>3, <2>2, <3>1 DEF OnceInv, StateTypes
  <2> QED
    BY <1>1, <2>1, <2>2
<1>5. RunsAlone'
  BY <1>2 DEF RunsAlone
<1>6. InstanceFits'
  <2>1. InstanceFits
    BY DEF OnceInv
  <2>2. CASE Kept
    BY <1>1, <1>2, <2>1, <2>2 DEF InstanceFits
  <2>3. CASE Gone
    BY <1>1, <1>2, <2>1, <2>3 DEF InstanceFits
  <2> QED
    BY <1>1, <2>2, <2>3
<1>7. ASSUME NEW h \in Goroutines
      PROVE  Told(h)' /\ AtGORM(h)'
  <2>1. Told(h) /\ AtGORM(h) /\ err \in BOOLEAN /\ err' \in BOOLEAN
    BY <1>4 DEF OnceInv, StateTypes
  <2> QED
    BY <1>1, <1>3, <2>1 DEF Told, AtGORM
<1> QED
  BY <1>4, <1>5, <1>6, <1>7 DEF OnceInv

LEMMA StutterKeeps ==
  ASSUME OnceInv, UNCHANGED vars
  PROVE  OnceInv'
<1>1. /\ world' = world /\ once' = once /\ inst' = inst /\ err' = err /\ gorm' = gorm
      /\ pc' = pc /\ call' = call /\ loaded' = loaded /\ result' = result
  BY DEF vars, instances
<1>2. StateTypes' /\ RunsAlone' /\ InstanceFits'
  BY <1>1 DEF OnceInv, StateTypes, RunsAlone, InstanceFits, Runs
<1>3. \A g \in Goroutines : Told(g)' /\ AtGORM(g)'
  BY <1>1 DEF OnceInv, Told, AtGORM, StateTypes
<1> QED
  BY <1>2, <1>3 DEF OnceInv

LEMMA ParseIsBoolean ==
  ASSUME OnceInv, NEW g \in Goroutines, ParseStruct(g)
  PROVE  loaded'[g].err \in BOOLEAN
<1>1. Function(loaded)
  BY DEF OnceInv, StateTypes
<1>2. PICK out : out = DoParse(Fields[world.pkg], call[g].prefix, environ)
  OBVIOUS
<1>3. loaded'[g] = out
  BY <1>1, <1>2 DEF ParseStruct, Function
<1>4. out.err \in BOOLEAN
  BY <1>2 DEF DoParse
<1> QED
  BY <1>3, <1>4

\* Every step keeps the invariant.
LEMMA OnceInvNext == OnceInv /\ [Next]_vars => OnceInv'
<1> SUFFICES ASSUME OnceInv, [Next]_vars PROVE OnceInv'
  OBVIOUS
<1>1. CASE UNCHANGED vars
  BY <1>1, StutterKeeps
<1>2. ASSUME NEW g \in Goroutines,
             \/ CallInit(g) \/ CallDefault(g) \/ CallUse(g) \/ CallInitWithGORM(g) \/ CallGORM(g)
             \/ \E prefix \in world.prefixes : CallBuilderInit(g, prefix)
      PROVE  OnceInv'
  BY <1>2, CallsKeep
<1>3. ASSUME NEW g \in Goroutines, LoadFile(g) \/ SetVariable(g)
      PROVE  OnceInv'
  BY <1>3, LoadKeeps
<1>4. ASSUME NEW g \in Goroutines, ParseStruct(g)
      PROVE  OnceInv'
  BY <1>4, ParseKeeps, ParseIsBoolean
<1>5. ASSUME NEW g \in Goroutines, Once(g)
      PROVE  OnceInv'
  BY <1>5, OnceKeeps
<1>6. ASSUME NEW g \in Goroutines, Make(g) \/ MakeGORM(g) \/ AnswerGORM(g)
      PROVE  OnceInv'
  BY <1>6, MakeKeeps, MakeGORMKeeps, AnswerGORMKeeps
<1>7. ASSUME NEW g \in Goroutines, Shutdown(g) \/ Reset(g)
      PROVE  OnceInv'
  BY <1>7, ShutdownKeeps, ResetKeeps
<1>8. CASE Terminated
  BY <1>8, StutterKeeps DEF Terminated
<1> QED
  BY <1>1, <1>2, <1>3, <1>4, <1>5, <1>6, <1>7, <1>8 DEF Next

\* InitTellsTheTruth is the invariant, seen from a caller that has its answer.
LEMMA Truth == OnceInv => InitTellsTheTruth
<1> SUFFICES ASSUME OnceInv, NEW g \in Goroutines, pc[g] = "idle", call[g].op \in InitOps
             PROVE  /\ result[g] = "ok" => once = "done" /\ inst.kind \in {"usable", "closed"}
                    /\ (result[g] = "error" /\ once = "done" /\ ~loaded[g].err) =>
                          (inst.kind # "usable" \/ gorm.err)
  BY DEF InitTellsTheTruth, InitOps
<1>1. Told(g) /\ InstanceFits /\ err \in BOOLEAN
  BY DEF OnceInv, StateTypes
<1> QED
  BY <1>1 DEF Told, InstanceFits

\* For any number of goroutines, any scenarios and any number of calls: a caller
\* that Init has told "no error" finds a finished instance, and one it told of an
\* error no working one, the database's GORM aside (sync.Once in every package).
THEOREM InitAlwaysTellsTheTruth == Spec => []InitTellsTheTruth
<1>1. OnceInv /\ [Next]_vars => OnceInv'
  BY OnceInvNext
<1> QED
  BY <1>1, OnceInvInit, Truth, PTL DEF Spec

-----------------------------------------------------------------------------
(***************************************************************************)
(* config.Load: however many load at the same time, the environment never  *)
(* holds anything but what the process's own variables and the file give,  *)
(* and a struct is filled when all of it is there.                         *)
(***************************************************************************)
Gives(n) == Given(world.file, world.own, n)

EnvironFits ==
  /\ DOMAIN world.own \subseteq DOMAIN environ
  /\ \A n \in DOMAIN environ : Gives(n).set /\ Gives(n).text = environ[n]

\* A goroutine in the loop of loadFile has in its hands what is still missing.
SetsTheRest(g) ==
  pc[g] = "set" =>
    /\ \A n \in DOMAIN unset[g] : Gives(n).set /\ Gives(n).text = unset[g][n]
    /\ \A n : Gives(n).set => n \in DOMAIN environ \cup DOMAIN unset[g]

LoadedFits(g) ==
  loaded[g] # NotLoaded =>
    LET fields == Fields[world.pkg]
    IN  /\ loaded[g].err <=> ~Fillable(fields, call[g].prefix, world.file, world.own)
        /\ ~loaded[g].err => \A i \in DOMAIN fields :
             loaded[g].cfg[fields[i].key] =
                Documented(fields[i], call[g].prefix, world.file, world.own)

ConfigInv ==
  /\ Function(unset) /\ EnvironFits
  /\ \A g \in Goroutines : SetsTheRest(g) /\ LoadedFits(g)

LEMMA ConfigInvInit == Init => ConfigInv
<1> SUFFICES ASSUME Init PROVE ConfigInv
  OBVIOUS
<1>1. Function(unset)
  BY DEF Init, Function
<1>2. EnvironFits
  BY DEF Init, EnvironFits, Gives, Given
<1>3. \A g \in Goroutines : SetsTheRest(g) /\ LoadedFits(g)
  BY DEF Init, SetsTheRest, LoadedFits
<1> QED
  BY <1>1, <1>2, <1>3 DEF ConfigInv

\* A step that begins no loop, sets no variable and loads nothing.
LEMMA OtherStepsKeep ==
  ASSUME ConfigInv, world' = world, environ' = environ, unset' = unset,
         \A h \in Goroutines :
            /\ pc'[h] = "set" => pc[h] = "set"
            /\ \/ loaded'[h] = NotLoaded
               \/ loaded'[h] = loaded[h] /\ call'[h] = call[h]
  PROVE  ConfigInv'
<1>1. Function(unset') /\ EnvironFits'
  BY DEF ConfigInv, Function, EnvironFits, Gives
<1>2. ASSUME NEW h \in Goroutines
      PROVE  SetsTheRest(h)' /\ LoadedFits(h)'
  <2>1. SetsTheRest(h) /\ LoadedFits(h)
    BY DEF ConfigInv
  <2>2. SetsTheRest(h)'
    BY <2>1 DEF SetsTheRest, Gives
  <2>3. CASE loaded'[h] = NotLoaded
    BY <2>2, <2>3 DEF LoadedFits, NotLoaded
  <2>4. CASE loaded'[h] = loaded[h] /\ call'[h] = call[h]
    BY <2>1, <2>2, <2>4 DEF LoadedFits, NotLoaded
  <2> QED
    BY <2>2, <2>3, <2>4
<1> QED
  BY <1>1, <1>2 DEF ConfigInv

LEMMA CallsKeepConfig ==
  ASSUME OnceInv, ConfigInv, NEW g \in Goroutines,
         \/ CallInit(g) \/ CallDefault(g) \/ CallUse(g) \/ CallInitWithGORM(g) \/ CallGORM(g)
         \/ \E prefix \in world.prefixes : CallBuilderInit(g, prefix)
  PROVE  ConfigInv'
<1>1. /\ \E op, prefix : Begin(g, op, prefix)
      /\ \/ \E where : Goto(g, where) /\ where # "set"
         \/ \E out : Return(g, out)
  <2>1. CASE CallInit(g)
    BY <2>1 DEF CallInit
  <2>2. CASE CallDefault(g)
    BY <2>2 DEF CallDefault
  <2>3. CASE CallUse(g)
    <3>1. \E out : Return(g, out)
      BY <2>3 DEF CallUse
    <3> QED
      BY <2>3, <3>1 DEF CallUse
  <2>4. CASE CallInitWithGORM(g)
    BY <2>4 DEF CallInitWithGORM
  <2>5. CASE CallGORM(g)
    BY <2>5 DEF CallGORM
  <2>6. CASE \E p \in world.prefixes : CallBuilderInit(g, p)
    BY <2>6 DEF CallBuilderInit
  <2> QED
    BY <2>1, <2>2, <2>3, <2>4, <2>5, <2>6
<1>2. PICK op, prefix : Begin(g, op, prefix)
  BY <1>1
<1>3. /\ loaded' = [loaded EXCEPT ![g] = NotLoaded]
      /\ world' = world /\ environ' = environ /\ unset' = unset
  BY <1>2 DEF Begin
<1>4. loaded'[g] = NotLoaded
  BY <1>3 DEF OnceInv, StateTypes, Function
<1>5. \A h \in Goroutines \ {g} : call'[h] = call[h] /\ loaded'[h] = loaded[h]
  BY <1>2, BeginMoves
<1>6. pc'[g] # "set" /\ \A h \in Goroutines \ {g} : pc'[h] = pc[h]
  BY <1>1, ReturnMoves, GotoMoves
<1> QED
  BY <1>3, <1>4, <1>5, <1>6, OtherStepsKeep

\* loadFile up to its loop: the names that the file gives and the environment lacks.
LEMMA LoadFileKeepsConfig ==
  ASSUME OnceInv, ConfigInv, NEW g \in Goroutines, LoadFile(g)
  PROVE  ConfigInv'
<1>1. /\ world' = world /\ environ' = environ /\ call' = call /\ loaded' = loaded
      /\ unset' = [unset EXCEPT ![g] = Unset(world.file, environ)]
      /\ \A h \in Goroutines \ {g} : pc'[h] = pc[h]
  BY GotoMoves DEF LoadFile
<1>2. /\ Function(unset') /\ unset'[g] = Unset(world.file, environ)
      /\ \A h \in Goroutines \ {g} : unset'[h] = unset[h]
  BY <1>1 DEF ConfigInv, Function
<1>3. EnvironFits'
  BY <1>1 DEF ConfigInv, EnvironFits, Gives
<1>4. PICK read : read = ParseBytes(world.file).vars
  OBVIOUS
<1>5. /\ DOMAIN unset'[g] = DOMAIN read \ DOMAIN environ
      /\ \A n \in DOMAIN unset'[g] : unset'[g][n] = read[n]
  BY <1>2, <1>4 DEF Unset, Restrict
<1>6. ASSUME NEW n, n \notin DOMAIN environ
      PROVE  /\ Gives(n).set <=> n \in DOMAIN read
             /\ Gives(n).text = Lookup(read, n)
  <2>1. world \in Scenarios
    BY DEF OnceInv, StateTypes
  <2>2. world.file \in Seq({world.file[i] : i \in DOMAIN world.file})
    BY <2>1, ScenarioAssumption
  <2>3. File(world.file)
    BY <2>1, <2>2, ScenarioAssumption DEF File
  <2>4. n \notin DOMAIN world.own
    BY <1>6 DEF ConfigInv, EnvironFits
  <2> QED
    BY <1>4, <2>3, <2>4, ParsedAsGiven DEF Gives
<1>7. SetsTheRest(g)'
  <2>1. ASSUME NEW n \in DOMAIN unset'[g]
        PROVE  Gives(n).set /\ Gives(n).text = unset'[g][n]
    BY <1>5, <1>6 DEF Lookup
  <2>2. ASSUME NEW n, Gives(n).set
        PROVE  n \in DOMAIN environ \cup DOMAIN unset'[g]
    BY <1>5, <1>6, <2>2
  <2> QED
    BY <1>1, <2>1, <2>2 DEF SetsTheRest, Gives
<1>8. ASSUME NEW h \in Goroutines \ {g}
      PROVE  SetsTheRest(h)'
  <2>1. SetsTheRest(h)
    BY DEF ConfigInv
  <2> QED
    BY <1>1, <1>2, <2>1 DEF SetsTheRest, Gives
<1>9. \A h \in Goroutines : LoadedFits(h)'
  BY <1>1 DEF ConfigInv, LoadedFits, NotLoaded
<1> QED
  BY <1>2, <1>3, <1>7, <1>8, <1>9 DEF ConfigInv

\* os.Setenv: whoever sets a variable sets what is given for it.
LEMMA SetVariableKeepsConfig ==
  ASSUME OnceInv, ConfigInv, NEW g \in Goroutines, SetVariable(g)
  PROVE  ConfigInv'
<1>1. PICK n \in DOMAIN unset[g] :
        /\ environ' = Setenv(environ, n, unset[g][n])
        /\ unset' = [unset EXCEPT ![g] = Restrict(@, DOMAIN @ \ {n})]
  BY DEF SetVariable
<1>2. /\ world' = world /\ pc' = pc /\ call' = call /\ loaded' = loaded /\ pc[g] = "set"
  BY DEF SetVariable
<1>3. /\ Function(unset')
      /\ unset'[g] = Restrict(unset[g], DOMAIN unset[g] \ {n})
      /\ \A h \in Goroutines \ {g} : unset'[h] = unset[h]
  BY <1>1 DEF ConfigInv, Function
<1>4. /\ DOMAIN unset'[g] = DOMAIN unset[g] \ {n}
      /\ \A m \in DOMAIN unset'[g] : unset'[g][m] = unset[g][m]
  BY <1>3 DEF Restrict
<1>5. /\ DOMAIN environ' = DOMAIN environ \cup {n}
      /\ environ'[n] = unset[g][n]
      /\ \A m \in DOMAIN environ \ {n} : environ'[m] = environ[m]
  BY <1>1 DEF Setenv
<1>6. SetsTheRest(g) /\ EnvironFits
  BY DEF ConfigInv
<1>7. EnvironFits'
  <2>1. ASSUME NEW m \in DOMAIN environ'
        PROVE  Gives(m).set /\ Gives(m).text = environ'[m]
    BY <1>2, <1>5, <1>6 DEF SetsTheRest, EnvironFits
  <2> QED
    BY <1>2, <1>5, <1>6, <2>1 DEF EnvironFits, Gives
<1>8. ASSUME NEW h \in Goroutines
      PROVE  SetsTheRest(h)'
  <2>1. SetsTheRest(h)
    BY DEF ConfigInv
  <2>2. /\ \A m \in DOMAIN unset'[h] : m \in DOMAIN unset[h] /\ unset'[h][m] = unset[h][m]
        /\ DOMAIN unset[h] \subseteq DOMAIN unset'[h] \cup {n}
    BY <1>3, <1>4
  <2> QED
    BY <1>2, <1>5, <2>1, <2>2 DEF SetsTheRest, Gives
<1>9. \A h \in Goroutines : LoadedFits(h)'
  BY <1>2 DEF ConfigInv, LoadedFits, NotLoaded
<1> QED
  BY <1>3, <1>7, <1>8, <1>9 DEF ConfigInv

\* The struct is filled when nothing is left to be set.
LEMMA ParseKeepsConfig ==
  ASSUME OnceInv, ConfigInv, NEW g \in Goroutines, ParseStruct(g)
  PROVE  ConfigInv'
<1>1. /\ world' = world /\ environ' = environ /\ call' = call /\ unset' = unset
      /\ pc[g] = "set" /\ DOMAIN unset[g] = {}
  BY DEF ParseStruct
<1>2. PICK out : out = DoParse(Fields[world.pkg], call[g].prefix, environ)
  OBVIOUS
<1>3. loaded'[g] = out /\ \A h \in Goroutines \ {g} : loaded'[h] = loaded[h]
  BY <1>2 DEF ParseStruct, OnceInv, StateTypes, Function
<1>4. Holds(environ, world.file, world.own)
  <2> SUFFICES ASSUME NEW n
               PROVE  /\ Gives(n).set <=> n \in DOMAIN environ
                      /\ Gives(n).text = Lookup(environ, n)
    BY DEF Holds, Gives
  <2>1. EnvironFits /\ SetsTheRest(g)
    BY DEF ConfigInv
  <2>2. CASE n \in DOMAIN environ
    BY <2>1, <2>2 DEF EnvironFits, Lookup
  <2>3. CASE n \notin DOMAIN environ
    <3>1. ~Gives(n).set
      BY <1>1, <2>1, <2>3 DEF SetsTheRest
    <3>2. Gives(n).text = ""
      BY <3>1 DEF Gives, Given
    <3> QED
      BY <2>3, <3>1, <3>2 DEF Lookup
  <2> QED
    BY <2>2, <2>3
<1>5. /\ out.err <=> ~Fillable(Fields[world.pkg], call[g].prefix, world.file, world.own)
      /\ ~out.err => \A i \in DOMAIN Fields[world.pkg] :
           out.cfg[Fields[world.pkg][i].key] =
              Documented(Fields[world.pkg][i], call[g].prefix, world.file, world.own)
  <2>1. world.pkg \in Packages
    BY ScenarioAssumption DEF OnceInv, StateTypes
  <2>2. Struct(Fields[world.pkg])
    BY <2>1, Structs
  <2> QED
    BY <1>2, <1>4, <2>2, StructAsDocumented
<1>6. LoadedFits(g)'
  BY <1>1, <1>3, <1>5 DEF LoadedFits
<1>7. ASSUME NEW h \in Goroutines \ {g}
      PROVE  LoadedFits(h)'
  <2>1. LoadedFits(h)
    BY DEF ConfigInv
  <2> QED
    BY <1>1, <1>3, <2>1 DEF LoadedFits, NotLoaded
<1>8. \A h \in Goroutines : pc'[h] = "set" => pc[h] = "set"
  <2>1. \A h \in Goroutines \ {g} : pc'[h] = pc[h]
    <3>1. CASE GivesConfig(call[g].op)
      BY <3>1, ReturnMoves, GotoMoves DEF ParseStruct
    <3>2. CASE ~GivesConfig(call[g].op)
      BY <3>2, AfterInitMoves, GotoMoves DEF ParseStruct
    <3> QED
      BY <3>1, <3>2
  <2> QED
    BY <1>1, <2>1
<1>9. \A h \in Goroutines : SetsTheRest(h)'
  BY <1>1, <1>8 DEF ConfigInv, SetsTheRest, Gives
<1>10. Function(unset') /\ EnvironFits'
  BY <1>1 DEF ConfigInv, Function, EnvironFits, Gives
<1> QED
  BY <1>6, <1>7, <1>9, <1>10 DEF ConfigInv

\* The once and what follows it load nothing.
LEMMA OnceKeepsConfig ==
  ASSUME OnceInv, ConfigInv, NEW g \in Goroutines,
         Once(g) \/ Make(g) \/ MakeGORM(g) \/ AnswerGORM(g)
  PROVE  ConfigInv'
<1>1. /\ world' = world /\ environ' = environ /\ unset' = unset
      /\ call' = call /\ loaded' = loaded
  BY DEF Once, Make, MakeGORM, AnswerGORM
<1>2. err \in BOOLEAN
  BY DEF OnceInv, StateTypes
<1>3. \A h \in Goroutines : pc'[h] = "set" => pc[h] = "set"
  <2>1. CASE Once(g)
    <3>1. AfterInit(g, err, inst) \/ Goto(g, "new") \/ Goto(g, "load")
      BY <2>1 DEF Once
    <3> QED
      BY <1>2, <3>1, AfterInitMoves, GotoMoves
  <2>2. CASE Make(g)
    <3>1. PICK made : made = New(world.pkg, Config(g), world.up) /\ made.err \in BOOLEAN
      <4>1. world.pkg \in Packages
        BY ScenarioAssumption DEF OnceInv, StateTypes
      <4>2. IsAnswer(New(world.pkg, Config(g), world.up))
        BY <4>1, NewAnswers
      <4> QED
        BY <4>2 DEF IsAnswer
    <3>2. AfterInit(g, made.err, made.inst) \/ Goto(g, "new gorm")
      BY <2>2, <3>1 DEF Make
    <3> QED
      BY <3>1, <3>2, AfterInitMoves, GotoMoves
  <2>3. CASE MakeGORM(g)
    <3>1. gorm'.err \in BOOLEAN /\ AfterInit(g, gorm'.err, inst)
      BY <2>3, GORMAnswers DEF MakeGORM
    <3> QED
      BY <3>1, AfterInitMoves
  <2>4. CASE AnswerGORM(g)
    <3>1. \E out : Return(g, out)
      BY <2>4 DEF AnswerGORM
    <3> QED
      BY <3>1, ReturnMoves
  <2> QED
    BY <2>1, <2>2, <2>3, <2>4
<1> QED
  BY <1>1, <1>3, OtherStepsKeep

\* Every step keeps the invariant of the configuration.
LEMMA ConfigInvNext == OnceInv /\ ConfigInv /\ [Next]_vars => ConfigInv'
<1> SUFFICES ASSUME OnceInv, ConfigInv, [Next]_vars PROVE ConfigInv'
  OBVIOUS
<1>1. CASE UNCHANGED vars
  BY <1>1, OtherStepsKeep DEF vars
<1>2. ASSUME NEW g \in Goroutines,
             \/ CallInit(g) \/ CallDefault(g) \/ CallUse(g) \/ CallInitWithGORM(g) \/ CallGORM(g)
             \/ \E prefix \in world.prefixes : CallBuilderInit(g, prefix)
      PROVE  ConfigInv'
  BY <1>2, CallsKeepConfig
<1>3. ASSUME NEW g \in Goroutines, LoadFile(g) \/ SetVariable(g) \/ ParseStruct(g)
      PROVE  ConfigInv'
  BY <1>3, LoadFileKeepsConfig, SetVariableKeepsConfig, ParseKeepsConfig
<1>4. ASSUME NEW g \in Goroutines, Once(g) \/ Make(g) \/ MakeGORM(g) \/ AnswerGORM(g)
      PROVE  ConfigInv'
  BY <1>4, OnceKeepsConfig
<1>5. ASSUME NEW g \in Goroutines, Shutdown(g) \/ Reset(g)
      PROVE  ConfigInv'
  <2>1. /\ world' = world /\ environ' = environ /\ unset' = unset
        /\ pc' = pc /\ call' = call /\ loaded' = loaded
    BY <1>5 DEF Shutdown, Reset
  <2> QED
    BY <2>1, OtherStepsKeep
<1>6. CASE Terminated
  BY <1>6, OtherStepsKeep DEF Terminated, vars
<1> QED
  BY <1>1, <1>2, <1>3, <1>4, <1>5, <1>6 DEF Next

\* For any number of goroutines, any .env file and any environment of the process:
\* whatever config.Load returns is what its documentation says of that file and
\* that environment (config.Load, dotenv.Load, env.ParseWithOptions).
THEOREM ConfigAlwaysAsDocumented == Spec => []ConfigAsDocumented
<1>1. ConfigInv => ConfigAsDocumented
  BY DEF ConfigInv, LoadedFits, ConfigAsDocumented
<1>2. OnceInv /\ [Next]_vars => OnceInv'
  BY OnceInvNext
<1>3. OnceInv /\ ConfigInv /\ [Next]_vars => ConfigInv'
  BY ConfigInvNext
<1> QED
  BY <1>1, <1>2, <1>3, OnceInvInit, ConfigInvInit, PTL DEF Spec
=============================================================================
