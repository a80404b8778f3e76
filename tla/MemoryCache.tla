----------------------------- MODULE MemoryCache -----------------------------
(***************************************************************************)
(* The in-memory driver of the cache package: cache/driver/memory/memory.go*)
(*                                                                         *)
(* Every operation holds mc.mu from start to end, so each is one action.   *)
(* What is hard here is not their interleaving but the bookkeeping beside  *)
(* the map: currentSize is adjusted in five places and trusted in one.     *)
(*                                                                         *)
(* Data abstractions.  A value is its length.  An expiration is kept as    *)
(* the ticks left to it.  The key prefix is the same for every key.  Get,  *)
(* Exists, Ping and Stats only read.                                       *)
(***************************************************************************)
EXTENDS Integers, FiniteSets

CONSTANTS
  Keys,
  Sizes,         \* the lengths of the values stored
  Ttls,          \* the ttl arguments of Set, in ticks; 0 asks for the default
  DefaultTTL,    \* cfg.DefaultTTL, in ticks; 0 is none
  MaxSizes,      \* the settings of cfg.MaxSize considered; 0 is no limit
  MaxKeys,       \* cfg.MaxKeys; 0 is no limit
  CountBound     \* bound: how far currentSize is followed from 0

ASSUME CacheAssumption ==
  /\ IsFiniteSet(Keys)
  /\ Sizes \subseteq Nat /\ Ttls \subseteq Nat /\ MaxSizes \subseteq Nat
  /\ DefaultTTL \in Nat /\ MaxKeys \in Nat /\ CountBound \in Nat

VARIABLES
  maxSize,       \* the setting in force
  items,         \* the map from keys to items
  currentSize,
  closed         \* stopCleanup has been closed

cacheVars == <<maxSize, items, currentSize, closed>>

Forever == -1
Lifetime(ttl) == LET t == IF ttl = 0 THEN DefaultTTL ELSE ttl
                 IN  IF t > 0 THEN t ELSE Forever

Expired(k) == items[k].left = 0
Without(S) == [k \in DOMAIN items \ S |-> items[k]]
With(k, it) == [j \in DOMAIN items \cup {k} |-> IF j = k THEN it ELSE items[j]]

\* The bytes of the values under the keys S, numbered, and how many they are.
Bytes(S) == UNION {{k} \X (1 .. items[k].size) : k \in S}
SizeOf(S) == Cardinality(Bytes(S))

\* What the items in the map really occupy.
RealSize == SizeOf(DOMAIN items)

\* currentSize as Set sees it once it has subtracted the item it replaces,
\* which it does only under a size limit.
Recounted(k) ==
  IF maxSize > 0 /\ k \in DOMAIN items THEN currentSize - items[k].size
                                       ELSE currentSize

\* Mutant of KeyRoom: off by one.
KeyRoomForOneMore(k) == MaxKeys > 0 /\ Cardinality(DOMAIN items) > MaxKeys
                          => k \in DOMAIN items

KeyRoom(k) == MaxKeys > 0 /\ Cardinality(DOMAIN items) >= MaxKeys
                => k \in DOMAIN items
SizeRoom(k, n) == maxSize > 0 => Recounted(k) + n <= maxSize

Bounded(n) == n \in (-CountBound) .. CountBound

-----------------------------------------------------------------------------
CacheInit ==
  /\ maxSize \in MaxSizes
  /\ items = [k \in {} |-> {}]
  /\ currentSize = 0
  /\ closed = FALSE

Set(k, n, ttl) ==
  /\ KeyRoom(k)
  /\ SizeRoom(k, n)
  /\ items' = With(k, [size |-> n, left |-> Lifetime(ttl)])
  /\ currentSize' = Recounted(k) + n
  /\ Bounded(currentSize')
  /\ UNCHANGED <<maxSize, closed>>

\* Set returns "max size limit reached" after the subtraction.
SetTooLarge(k, n) ==
  /\ KeyRoom(k)
  /\ ~SizeRoom(k, n)
  /\ currentSize' = Recounted(k)
  /\ Bounded(currentSize')
  /\ UNCHANGED <<maxSize, items, closed>>

\* Mutant of Delete: forgets the count.
DeleteUncounted(k) ==
  /\ k \in DOMAIN items
  /\ items' = Without({k})
  /\ UNCHANGED <<maxSize, currentSize, closed>>

Delete(k) ==
  /\ k \in DOMAIN items
  /\ items' = Without({k})
  /\ currentSize' = currentSize - items[k].size
  /\ Bounded(currentSize')
  /\ UNCHANGED <<maxSize, closed>>

\* Mutant of Clear: some of the items are under another prefix and stay.
ClearSome ==
  /\ \E S \in SUBSET Keys : items' = Without(S)
  /\ currentSize' = 0
  /\ UNCHANGED <<maxSize, closed>>

Clear ==
  /\ items' = Without(Keys)
  /\ currentSize' = 0
  /\ UNCHANGED <<maxSize, closed>>

\* Mutant of RemoveExpired: only cleans up when a new key would be refused.
RemoveExpiredWhenFull ==
  LET gone == {k \in DOMAIN items : Expired(k)}
  IN  /\ ~closed
      /\ gone # {}
      /\ Cardinality(DOMAIN items) >= MaxKeys
      /\ items' = Without(gone)
      /\ currentSize' = currentSize - SizeOf(gone)
      /\ Bounded(currentSize')
      /\ UNCHANGED <<maxSize, closed>>

\* A tick of the cleanup goroutine, which Close ends.
RemoveExpired ==
  LET gone == {k \in DOMAIN items : Expired(k)}
  IN  /\ ~closed
      /\ gone # {}
      /\ items' = Without(gone)
      /\ currentSize' = currentSize - SizeOf(gone)
      /\ Bounded(currentSize')
      /\ UNCHANGED <<maxSize, closed>>

\* (Closing a second time closes a closed channel, and panics.)
Close ==
  /\ ~closed
  /\ closed' = TRUE
  /\ UNCHANGED <<maxSize, items, currentSize>>

\* Mutant of Tick: an item without an expiration is treated as if it had one.
TickForever ==
  /\ items' = [k \in DOMAIN items |->
                 [items[k] EXCEPT !.left = IF @ # 0 THEN @ - 1 ELSE @]]
  /\ UNCHANGED <<maxSize, currentSize, closed>>

Tick ==
  /\ items' = [k \in DOMAIN items |->
                 [items[k] EXCEPT !.left = IF @ > 0 THEN @ - 1 ELSE @]]
  /\ UNCHANGED <<maxSize, currentSize, closed>>

CacheNext ==
  \/ \E k \in Keys, n \in Sizes :
       SetTooLarge(k, n) \/ \E ttl \in Ttls : Set(k, n, ttl)
  \/ \E k \in Keys : Delete(k)
  \/ Clear \/ RemoveExpired \/ Close \/ Tick

CacheSpec == CacheInit /\ [][CacheNext]_cacheVars

\* The cleanup goroutine's ticker fires until Close, and time passes.
FairCacheSpec == CacheSpec /\ WF_cacheVars(RemoveExpired) /\ WF_cacheVars(Tick)

-----------------------------------------------------------------------------
Item == [size : Sizes, left : Nat \cup {Forever}]

TypeOK ==
  /\ maxSize \in MaxSizes
  /\ DOMAIN items \subseteq Keys
  /\ \A k \in DOMAIN items : items[k] \in Item
  /\ currentSize \in Int
  /\ closed \in BOOLEAN

\* Under a size limit the count only ever errs downwards, whatever mix of
\* rejected overwrites, deletions and clean-ups came before: a Set that really
\* fits is never refused, and a full cache can always be emptied and refilled.
NeverOverCounted == maxSize > 0 => currentSize <= RealSize

\* Without one it only ever errs upwards: Stats never reports less than the
\* cache holds.
NeverUnderCounted == maxSize = 0 => currentSize >= RealSize

\* The number of keys, expired ones included, stays within cfg.MaxKeys.
KeysWithinMax == MaxKeys > 0 => Cardinality(DOMAIN items) <= MaxKeys

\* Until the cache is closed an expired item does not hold its place for ever,
\* so a cache that is full of expired items takes new keys again.
ExpiredItemsGo ==
  \A k \in Keys : (k \in DOMAIN items /\ Expired(k))
                    ~> (k \notin DOMAIN items \/ ~Expired(k) \/ closed)
=============================================================================
