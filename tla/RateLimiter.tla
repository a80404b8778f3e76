------------------------------ MODULE RateLimiter ------------------------------
(***************************************************************************)
(* The two limiters of oauth/rate_limiter.go behind the RateLimiter        *)
(* interface: TokenBucketLimiter and SlidingWindowLimiter.                 *)
(*                                                                         *)
(* AllowN finds the entry of a key under l.mu, gives l.mu up, and then     *)
(* locks the entry: the two halves are actions of their own, since Reset   *)
(* or the clean-up can take the entry out of the map in between.  So are   *)
(* the halves of GetStatus.                                                *)
(*                                                                         *)
(* Time.  A tick is what one token takes, Interval / Rate, so Interval is  *)
(* Rate ticks and a bucket gains one token a tick.  A bucket keeps how     *)
(* long ago it was refilled and a window how many of its requests are at   *)
(* most so many ticks old; beyond IdleCap and 2 * Interval older makes no  *)
(* difference.                                                             *)
(***************************************************************************)
EXTENDS Integers, FiniteSets

CONSTANTS
  Keys,         \* what is limited: users, addresses, the health check's key
  Procs,        \* goroutines
  Cells,        \* bound: entries alive at once, those out of the map included
  NoCell,
  Rate, BurstSize, MaxEntries,   \* RateLimiterConfig
  Kinds         \* which of "bucket" and "window" to look at

ASSUME LimiterAssumption ==
  /\ Rate \in Nat \ {0} /\ BurstSize \in Nat \ {0} /\ MaxEntries \in Nat \ {0}
  /\ NoCell \notin Cells /\ Keys # {}
  /\ Kinds \subseteq {"bucket", "window"} /\ Kinds # {}

Interval == Rate
Ages == 0 .. 2 * Interval - 1
IdleCap == (IF BurstSize < 2 * Interval THEN 2 * Interval ELSE BurstSize) + 1
Least(a, b) == IF a < b THEN a ELSE b
NoHits == [a \in Ages |-> 0]

VARIABLES
  kind,     \* which limiter this is
  entry,    \* l.buckets, l.windows: the cell of each key, or NoCell
  cells,    \* the buckets or windows themselves
  call,     \* what each goroutine is at in the limiter
  budget,   \* history: what an eternal bucket of the key would still grant
  ledger    \* history: requests of a key its windows admitted, counted as theirs

limiterVars == <<kind, entry, cells, call, budget, ledger>>

Tracked == {k \in Keys : entry[k] # NoCell}
Resting == [at |-> "rest", key |-> CHOOSE k \in Keys : TRUE, n |-> 0, cell |-> NoCell]

\* A cell nobody refers to, and the one that is allocated next.
Free(c) == /\ \A k \in Keys : entry[k] # c
           /\ \A p \in Procs : call[p].cell # c
NextFree == CHOOSE c \in Cells : Free(c)
Blank == [tokens |-> 0, idle |-> 0, hits |-> NoHits]

\* &bucket{tokens: BurstSize, lastRefill: now}
NewBucket == [tokens |-> BurstSize, idle |-> 0, hits |-> NoHits]

\* min(b.tokens + tokensToAdd, BurstSize); and its mutant without the min.
RefilledUncapped(b) == b.tokens + b.idle
Refilled(b) == Least(b.tokens + b.idle, BurstSize)

\* The cells after a step, those nobody refers to any more blank.
Collected(contents) == [c \in Cells |-> IF Free(c)' THEN Blank ELSE contents[c]]

\* The call of p is over.
Hangup(p) == call' = [call EXCEPT ![p] = Resting]

\* How many requests of the window are younger than Interval.
ValidCount(hits) == hits[Interval - 1]

\* n requests more, made now.
Plus(hits, n) == [a \in Ages |-> hits[a] + n]

\* validRequests: what is younger than Interval.
Kept(hits) == [a \in Ages |-> hits[Least(a, Interval - 1)]]

LimiterInit ==
  /\ kind \in Kinds
  /\ entry = [k \in Keys |-> NoCell]
  /\ cells = [c \in Cells |-> Blank]
  /\ call = [p \in Procs |-> Resting]
  /\ budget = [k \in Keys |-> BurstSize]
  /\ ledger = [k \in Keys |-> NoHits]

-----------------------------------------------------------------------------
AtCapacity(k) == k \notin Tracked /\ Cardinality(Tracked) >= MaxEntries

\* The entry of the key under l.mu: a new one if there is none and room is left.
Find(p, k, n, new) ==
  /\ call[p].at = "rest" /\ ~AtCapacity(k)
  /\ k \in Tracked \/ \E c \in Cells : Free(c)
  /\ LET c == IF k \in Tracked THEN entry[k] ELSE NextFree
     IN  /\ cells' = IF k \in Tracked THEN cells ELSE [cells EXCEPT ![c] = new]
         /\ entry' = [entry EXCEPT ![k] = c]
         /\ call' = [call EXCEPT ![p] = [at |-> "take", key |-> k, n |-> n, cell |-> c]]
  /\ UNCHANGED <<kind, budget, ledger>>

\* The first half of AllowN: a new bucket is full, a new window is empty.  (At
\* capacity, or for an n that is not positive, AllowN fails.)
FindBucket(p, k, n) == kind = "bucket" /\ Find(p, k, n, NewBucket)
FindWindow(p, k, n) == kind = "window" /\ Find(p, k, n, Blank)

\* Whether the second half of AllowN lets the call of p through.
Grants(p) ==
  LET c == cells[call[p].cell]
  IN  IF kind = "bucket" THEN Refilled(c) >= call[p].n
                         ELSE ValidCount(c.hits) + call[p].n <= Rate

\* The call's entry is no longer the one of its key.
IsStray(p) == entry[call[p].key] # call[p].cell

\* The second half, under b.mu: refill, then take n tokens or none.
TakeTokens(p) ==
  LET k == call[p].key
      n == IF Grants(p) THEN call[p].n ELSE 0
      b == call[p].cell
  IN  /\ kind = "bucket" /\ call[p].at = "take"
      /\ Hangup(p) /\ UNCHANGED <<kind, entry, ledger>>
      /\ cells' = Collected(
           [cells EXCEPT ![b].tokens = Refilled(cells[b]) - n, ![b].idle = 0])
      /\ budget' = IF IsStray(p) THEN budget ELSE [budget EXCEPT ![k] = @ - n]

\* The second half, under w.mu: forget what is older than Interval, then record
\* n requests or none.
RecordRequests(p) ==
  LET k == call[p].key
      n == IF Grants(p) THEN call[p].n ELSE 0
      w == call[p].cell
  IN  /\ kind = "window" /\ call[p].at = "take"
      /\ Hangup(p) /\ UNCHANGED <<kind, entry, budget>>
      /\ cells' = Collected([cells EXCEPT ![w].hits = Plus(Kept(@), n)])
      /\ ledger' = IF IsStray(p) THEN ledger ELSE [ledger EXCEPT ![k] = Plus(@, n)]

-----------------------------------------------------------------------------
\* Reset, under l.mu: the key starts afresh.  Calls that have found the entry keep
\* it.
Reset(k) ==
  /\ entry' = [entry EXCEPT ![k] = NoCell]
  /\ UNCHANGED <<kind, call>>
  /\ cells' = Collected(cells)
  /\ budget' = [budget EXCEPT ![k] = BurstSize]
  /\ ledger' = [ledger EXCEPT ![k] = NoHits]

\* Mutant of Stale: after a tick.
StaleTooSoon(c) == IF kind = "bucket" THEN c.idle > 0 ELSE c.hits[0] = 0

\* What the clean-up goes by: a bucket not refilled, or a window without a
\* request, for more than twice the interval.
Stale(c) ==
  IF kind = "bucket" THEN c.idle > 2 * Interval
                     ELSE \A a \in Ages : c.hits[a] = 0

\* One round of the clean-up goroutine, under l.mu and each entry's own lock.
Cleanup ==
  LET gone == {k \in Tracked : Stale(cells[entry[k]])}
  IN  /\ gone # {}
      /\ entry' = [k \in Keys |-> IF k \in gone THEN NoCell ELSE entry[k]]
      /\ UNCHANGED <<kind, call, budget, ledger>>
      /\ cells' = Collected(cells)

\* Requests one tick older.
Older(hits) == [a \in Ages |-> IF a = 0 THEN 0 ELSE hits[a - 1]]

\* Time passes.
Tick ==
  /\ cells' = [c \in Cells |->
       IF Free(c) THEN Blank
       ELSE IF kind = "bucket" THEN [cells[c] EXCEPT !.idle = Least(@ + 1, IdleCap)]
       ELSE [cells[c] EXCEPT !.hits = Older(@)]]
  /\ budget' = [k \in Keys |-> Least(budget[k] + 1, BurstSize)]
  /\ ledger' = [k \in Keys |-> Older(ledger[k])]
  /\ UNCHANGED <<kind, entry, call>>

LimiterTypeOK ==
  /\ kind \in Kinds
  /\ entry \in [Keys -> Cells \cup {NoCell}]
  /\ cells \in [Cells -> [tokens : 0 .. BurstSize, idle : 0 .. IdleCap, hits : [Ages -> Nat]]]
  /\ call \in [Procs -> [at : {"rest", "take"}, key : Keys, n : 0 .. Rate, cell : Cells \cup {NoCell}]]
  /\ budget \in [Keys -> Int]
  /\ ledger \in [Keys -> [Ages -> Nat]]

\* A bucket grants a key no more than one eternal bucket would, though the
\* clean-up forgets it and a request builds a full one anew.  (What a call takes
\* from a bucket dropped under its hands comes on top.  A burst above two
\* intervals' worth is not protected: an idle bucket is dropped before it is full.)
NeverOverdrawn == (BurstSize <= 2 * Interval) => \A k \in Keys : budget[k] >= 0

\* A window admits at most Rate requests of a key in any Interval, whatever the
\* clean-up drops in between.
NeverOverRate == \A k \in Keys : ValidCount(ledger[k]) <= Rate

\* Neither limiter grants a key more than its configuration says.
GrantsWithinLimits == NeverOverdrawn /\ NeverOverRate

\* The limiter alone, called in any way.
LimiterNext ==
  \/ \E p \in Procs :
       \/ \E k \in Keys, n \in 1 .. Rate : FindBucket(p, k, n) \/ FindWindow(p, k, n)
       \/ TakeTokens(p) \/ RecordRequests(p)
  \/ \E k \in Keys : Reset(k)
  \/ Cleanup
  \/ Tick

LimiterSpec == LimiterInit /\ [][LimiterNext]_limiterVars
=============================================================================
