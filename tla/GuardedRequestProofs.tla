-------------------------- MODULE GuardedRequestProofs -------------------------
(***************************************************************************)
(* First the limiter alone, for any number of keys, goroutines and entries *)
(* and any setting.  A bucket: the eternal bucket of `budget` holds at     *)
(* least what the bucket of the key does, and is full when the key has     *)
(* none.  A window: it knows every request of the last interval, and none  *)
(* is left when the key has no window.                                     *)
(*                                                                         *)
(* That is kept because an entry belongs to one key (`Owned`): a call that *)
(* holds an entry takes from the key it found it for, or from none.        *)
(*                                                                         *)
(* Then the composition of the chain, the health check and the             *)
(* application: it uses the limiter as RateLimiter says it may be used, so *)
(* what is proved there holds here; what the limiter refuses is refused by *)
(* the chain, what the log says is what was sent, and the health check is  *)
(* alone with its key.                                                     *)
(***************************************************************************)
EXTENDS GuardedRequest, SequenceTheorems, TLAPS


Buckets == [tokens : 0 .. BurstSize, idle : 0 .. IdleCap, hits : [Ages -> Nat]]
Counts == [Ages -> Nat]

\* A call in progress has found a cell; the others hold none.
Held == \A p \in Procs : IF call[p].at = "take" THEN call[p].cell \in Cells
                                                ELSE call[p].cell = NoCell

\* No two keys share a cell, and no call holds the cell of another key.
Owned ==
  /\ \A j, k \in Keys : entry[j] = entry[k] /\ entry[k] # NoCell => j = k
  /\ \A p \in Procs, k \in Keys :
       entry[k] = call[p].cell /\ entry[k] # NoCell => k = call[p].key

\* What the eternal bucket of a key is worth beside its bucket.
Covered(k) ==
  /\ budget[k] <= BurstSize
  /\ entry[k] = NoCell => budget[k] = BurstSize
  /\ entry[k] # NoCell => Refilled(cells[entry[k]]) <= budget[k]

\* Buckets are covered; a window limiter has no budget to spend.
Budgeted ==
  IF kind = "bucket" THEN \A k \in Keys : Covered(k)
                     ELSE \A k \in Keys : budget[k] = BurstSize

\* A window whose counts fit together, and within the rate.
Growing(h) == \A a, b \in Ages : a <= b => h[a] <= h[b]
WithinRate(h) == Growing(h) /\ ValidCount(h) <= Rate

\* The window of a key knows every request of the last interval.
Recorded(k) == \A a \in 0 .. Interval - 1 :
  IF entry[k] = NoCell THEN ledger[k][a] = 0
                       ELSE ledger[k][a] <= cells[entry[k]].hits[a]

\* No window runs over the rate; a bucket limiter has no windows.
Windowed ==
  IF kind = "window"
    THEN /\ \A c \in Cells : WithinRate(cells[c].hits)
         /\ \A k \in Keys : Recorded(k)
    ELSE \A k \in Keys : ledger[k] = NoHits

Shape == LimiterTypeOK /\ Held /\ Owned

LimiterInv == Shape /\ (BurstSize <= 2 * Interval => Budgeted) /\ Windowed

-----------------------------------------------------------------------------
\* The bounds a bucket is kept in.
LEMMA Bounds ==
  /\ Interval \in Nat \ {0} /\ IdleCap \in Nat
  /\ IdleCap > BurstSize /\ IdleCap > 2 * Interval
  /\ BurstSize \in Nat \ {0}
BY LimiterAssumption DEF Interval, IdleCap

LEMMA ZeroHits == NoHits \in Counts
BY DEF NoHits, Counts

\* A blank cell and a full bucket are cells.
LEMMA FreshCells == Blank \in Buckets /\ NewBucket \in Buckets
<1>1. 0 \in 0 .. BurstSize /\ 0 \in 0 .. IdleCap /\ BurstSize \in 0 .. BurstSize
  BY Bounds
<1>2. QED
  BY <1>1, ZeroHits DEF Blank, NewBucket, Buckets, Counts

\* A refilled bucket holds no more than it may.
LEMMA RefillBounds ==
  ASSUME NEW b \in Buckets
  PROVE  /\ Refilled(b) \in 0 .. BurstSize
         /\ b.tokens \in 0 .. BurstSize /\ b.idle \in 0 .. IdleCap
BY Bounds DEF Buckets, Refilled, Least

\* An older bucket gained a token at most, and no more than an eternal one.
LEMMA Aged ==
  ASSUME NEW b \in Buckets
  PROVE  /\ [b EXCEPT !.idle = Least(@ + 1, IdleCap)] \in Buckets
         /\ Refilled([b EXCEPT !.idle = Least(@ + 1, IdleCap)])
              <= Least(Refilled(b) + 1, BurstSize)
<1> DEFINE i == Least(b.idle + 1, IdleCap)
<1>1. /\ b.tokens \in 0 .. BurstSize /\ b.idle \in 0 .. IdleCap
      /\ i \in 0 .. IdleCap /\ i <= b.idle + 1
  BY Bounds DEF Buckets, Least
<1> HIDE DEF i
<1>2. /\ [b EXCEPT !.idle = i] \in Buckets
      /\ [b EXCEPT !.idle = i].tokens = b.tokens
      /\ [b EXCEPT !.idle = i].idle = i
  BY <1>1 DEF Buckets
<1>3. Refilled([b EXCEPT !.idle = i]) <= Least(Refilled(b) + 1, BurstSize)
  BY <1>1, <1>2, Bounds DEF Refilled, Least
<1>4. QED
  BY <1>2, <1>3 DEF i

\* Other hits leave the two numbers of a cell alone.
LEMMA PutHits ==
  ASSUME NEW b \in Buckets, NEW h \in Counts
  PROVE  [b EXCEPT !.hits = h] \in Buckets
BY DEF Buckets, Counts

LEMMA PlusCounts ==
  ASSUME NEW h \in Counts, NEW n \in Nat
  PROVE  Plus(h, n) \in Counts
BY DEF Counts, Plus

LEMMA KeptCounts ==
  ASSUME NEW h \in Counts
  PROVE  Kept(h) \in Counts
<1>1. \A a \in Ages : Least(a, Interval - 1) \in Ages
  BY Bounds DEF Ages, Least
<1>2. QED
  BY <1>1 DEF Counts, Kept

LEMMA OlderCounts ==
  ASSUME NEW h \in Counts
  PROVE  Older(h) \in Counts
<1>1. \A a \in Ages : a # 0 => a - 1 \in Ages
  BY Bounds DEF Ages
<1>2. QED
  BY <1>1 DEF Older, Counts

\* Blanking what nobody refers to keeps the cells, and the cell of every key.
LEMMA CollectedCells ==
  ASSUME NEW contents \in [Cells -> Buckets], cells' = Collected(contents)
  PROVE  /\ cells' \in [Cells -> Buckets]
         /\ \A k \in Keys : entry'[k] \in Cells => cells'[entry'[k]] = contents[entry'[k]]
<1>1. \A k \in Keys, c \in Cells : entry'[k] = c => ~Free(c)'
  BY DEF Free
<1>2. \A c \in Cells : cells'[c] = IF Free(c)' THEN Blank ELSE contents[c]
  BY DEF Collected
<1>3. cells' \in [Cells -> Buckets]
  <2>1. \A c \in Cells : (IF Free(c)' THEN Blank ELSE contents[c]) \in Buckets
    BY FreshCells
  <2>2. QED
    BY <2>1 DEF Collected
<1>4. QED
  BY <1>1, <1>2, <1>3

-----------------------------------------------------------------------------
LEMMA RestingCall == Resting \in [at : {"rest", "take"}, key : Keys, n : 0 .. Rate, cell : Cells \cup {NoCell}]
BY LimiterAssumption, (CHOOSE k \in Keys : TRUE) \in Keys DEF Resting

\* Finding an entry, be it for a bucket or a window.
LEMMA FindKeepsShape ==
  ASSUME Shape, NEW p \in Procs, NEW k \in Keys, NEW n \in 0 .. Rate, NEW new \in Buckets,
         Find(p, k, n, new)
  PROVE  /\ Shape'
         /\ entry'[k] # NoCell
         /\ \A j \in Keys \ {k} : entry'[j] = entry[j]
         /\ \A j \in Tracked : cells'[entry'[j]] = cells[entry[j]] /\ entry'[j] = entry[j]
         /\ k \notin Tracked => cells'[entry'[k]] = new
<1> DEFINE c == IF k \in Tracked THEN entry[k] ELSE NextFree
<1>1. /\ c \in Cells
      /\ k \notin Tracked => Free(c)
  <2>1. CASE k \in Tracked
    BY <2>1 DEF Tracked, Shape, LimiterTypeOK
  <2>2. CASE k \notin Tracked
    <3>1. \E f \in Cells : Free(f)
      BY <2>2 DEF Find
    <3>2. NextFree \in Cells /\ Free(NextFree)
      BY <3>1 DEF NextFree
    <3>3. QED
      BY <2>2, <3>2
  <2>3. QED
    BY <2>1, <2>2
<1>2. /\ entry' = [entry EXCEPT ![k] = c]
      /\ cells' = IF k \in Tracked THEN cells ELSE [cells EXCEPT ![c] = new]
      /\ call' = [call EXCEPT ![p] = [at |-> "take", key |-> k, n |-> n, cell |-> c]]
      /\ UNCHANGED <<kind, budget, ledger>>
  BY DEF Find
<1> HIDE DEF c
<1>3. /\ k \in Tracked => c = entry[k]
      /\ c # NoCell
  BY <1>1, LimiterAssumption DEF c
<1>4. cells \in [Cells -> Buckets] /\ entry \in [Keys -> Cells \cup {NoCell}]
  BY DEF Shape, LimiterTypeOK, Buckets
<1>5. LimiterTypeOK'
  <2>1. cells' \in [Cells -> Buckets]
    BY <1>2, <1>4
  <2>2. entry' \in [Keys -> Cells \cup {NoCell}]
    BY <1>1, <1>2, <1>4
  <2>3. call' \in [Procs -> [at : {"rest", "take"}, key : Keys, n : 0 .. Rate, cell : Cells \cup {NoCell}]]
    BY <1>1, <1>2 DEF Shape, LimiterTypeOK
  <2>4. QED
    BY <1>2, <2>1, <2>2, <2>3 DEF Shape, LimiterTypeOK, Buckets
<1>6. /\ entry'[k] = c /\ \A j \in Keys \ {k} : entry'[j] = entry[j]
      /\ call'[p].at = "take" /\ call'[p].cell = c /\ call'[p].key = k
      /\ \A q \in Procs \ {p} : call'[q] = call[q]
  BY <1>2, <1>4 DEF Shape, LimiterTypeOK
<1>7. Held'
  BY <1>1, <1>6 DEF Shape, Held
<1>8. Owned'
  <2>1. CASE k \in Tracked
    BY <1>3, <1>6, <2>1 DEF Shape, Owned
  <2>2. CASE k \notin Tracked
    BY <1>1, <1>6, <2>2 DEF Shape, Owned, Free
  <2>3. QED
    BY <2>1, <2>2
<1>9. \A j \in Tracked : cells'[entry'[j]] = cells[entry[j]] /\ entry'[j] = entry[j]
  <2> SUFFICES ASSUME NEW j \in Tracked
               PROVE  cells'[entry'[j]] = cells[entry[j]] /\ entry'[j] = entry[j]
    OBVIOUS
  <2>1. j \in Keys /\ entry[j] \in Cells
    BY <1>4 DEF Tracked
  <2>2. CASE k \in Tracked
    BY <1>2, <1>3, <1>6, <2>1, <2>2
  <2>3. CASE k \notin Tracked
    BY <1>1, <1>2, <1>4, <1>6, <2>1, <2>3 DEF Free
  <2>4. QED
    BY <2>2, <2>3
<1>10. k \notin Tracked => cells'[entry'[k]] = new
  BY <1>1, <1>2, <1>4, <1>6
<1>11. QED
  BY <1>3, <1>5, <1>6, <1>7, <1>8, <1>9, <1>10 DEF Shape

LEMMA FindBucketKeeps ==
  ASSUME Shape, NEW p \in Procs, NEW k \in Keys, NEW n \in 0 .. Rate, FindBucket(p, k, n)
  PROVE  Shape' /\ (Budgeted => Budgeted')
<1>1. Find(p, k, n, NewBucket) /\ kind = "bucket"
  BY DEF FindBucket
<1>2. kind' = kind /\ budget' = budget
  BY <1>1 DEF Find
<1>3. Shape'
  BY <1>1, FindKeepsShape, FreshCells
<1>4. ASSUME \A j \in Keys : Covered(j) PROVE \A j \in Keys : Covered(j)'
  <2> SUFFICES ASSUME NEW j \in Keys PROVE Covered(j)'
    OBVIOUS
  <2>1. CASE j \in Tracked
    <3>1. entry'[j] = entry[j] /\ cells'[entry'[j]] = cells[entry[j]]
      BY <1>1, <2>1, FindKeepsShape, FreshCells
    <3>2. Refilled(cells'[entry'[j]]) = Refilled(cells[entry[j]])
      BY <3>1
    <3>3. QED
      BY <1>2, <1>4, <3>1, <3>2 DEF Covered, Refilled
  <2>2. CASE j \notin Tracked /\ j = k
    <3>1. entry'[j] # NoCell /\ cells'[entry'[j]] = NewBucket
      BY <1>1, <2>2, FindKeepsShape, FreshCells
    <3>2. Refilled(NewBucket) = BurstSize /\ budget[j] = BurstSize
      BY <1>4, <2>2, Bounds DEF Covered, Tracked, Refilled, NewBucket, Least
    <3>3. QED
      BY <1>2, <3>1, <3>2, Bounds DEF Covered, Refilled
  <2>3. CASE j \notin Tracked /\ j # k
    <3>1. entry'[j] = entry[j]
      BY <1>1, <2>3, FindKeepsShape, FreshCells
    <3>2. QED
      BY <1>2, <1>4, <2>3, <3>1 DEF Covered, Tracked
  <2>4. QED
    BY <2>1, <2>2, <2>3
<1>5. QED
  BY <1>1, <1>2, <1>3, <1>4 DEF Budgeted

LEMMA FindWindowKeeps ==
  ASSUME Shape, NEW p \in Procs, NEW k \in Keys, NEW n \in 0 .. Rate, FindWindow(p, k, n)
  PROVE  Shape' /\ (Budgeted => Budgeted')
<1>1. Find(p, k, n, Blank) /\ kind = "window"
  BY DEF FindWindow
<1>2. kind' = kind /\ budget' = budget
  BY <1>1 DEF Find
<1>3. Shape'
  BY <1>1, FindKeepsShape, FreshCells
<1>4. QED
  BY <1>1, <1>2, <1>3 DEF Budgeted

\* A call that ends leaves the map and the other calls.
LEMMA HangupShape ==
  ASSUME Shape, NEW p \in Procs, Hangup(p), entry' = entry
  PROVE  Held' /\ Owned'
         /\ call' \in [Procs -> [at : {"rest", "take"}, key : Keys, n : 0 .. Rate, cell : Cells \cup {NoCell}]]
<1>1. call' \in [Procs -> [at : {"rest", "take"}, key : Keys, n : 0 .. Rate, cell : Cells \cup {NoCell}]]
  BY RestingCall DEF Hangup, Shape, LimiterTypeOK
<1>2. /\ call'[p].at = "rest" /\ call'[p].cell = NoCell
      /\ \A q \in Procs \ {p} : call'[q] = call[q]
  BY DEF Hangup, Shape, LimiterTypeOK, Resting
<1>3. Held'
  BY <1>2 DEF Shape, Held
<1>4. Owned'
  BY <1>2 DEF Shape, Owned
<1>5. QED
  BY <1>1, <1>3, <1>4

\* Taking tokens: the bucket of the call's key loses what the eternal one does.
LEMMA TakeTokensKeeps ==
  ASSUME Shape, NEW p \in Procs, TakeTokens(p)
  PROVE  Shape' /\ (Budgeted => Budgeted')
<1> DEFINE k == call[p].key
           b == call[p].cell
           n == IF Grants(p) THEN call[p].n ELSE 0
           t == Refilled(cells[b]) - n
           i == 0
           put == [cells[b] EXCEPT !.tokens = t, !.idle = i]
           contents == [cells EXCEPT ![b] = put]
<1>1. /\ kind = "bucket" /\ Hangup(p) /\ UNCHANGED <<kind, entry, ledger>>
      /\ budget' = IF IsStray(p) THEN budget ELSE [budget EXCEPT ![k] = @ - n]
      /\ k \in Keys /\ b \in Cells /\ call[p].n \in 0 .. Rate
  BY DEF TakeTokens, Shape, LimiterTypeOK, Held
<1>2. cells \in [Cells -> Buckets] /\ cells[b] \in Buckets
  BY <1>1 DEF Shape, LimiterTypeOK, Buckets
<1>3. /\ n \in Nat /\ t \in 0 .. BurstSize /\ t = Refilled(cells[b]) - n
      /\ Refilled(cells[b]) \in Nat
      /\ i \in 0 .. IdleCap /\ i = 0
  <2>1. Refilled(cells[b]) \in 0 .. BurstSize
    BY <1>2, RefillBounds
  <2>2. Grants(p) => Refilled(cells[b]) >= call[p].n
    BY <1>1 DEF Grants
  <2>3. QED
    BY <1>1, <2>1, <2>2, Bounds
<1>4. cells' = Collected(contents)
  BY <1>1, <1>2 DEF TakeTokens
<1> HIDE DEF n, t, i
<1>4a. put \in Buckets /\ put.tokens = t /\ put.idle = i
  <2>1. cells[b] \in Buckets /\ t \in 0 .. BurstSize /\ i \in 0 .. IdleCap
    BY <1>2, <1>3
  <2>2. QED
    BY <2>1 DEF put, Buckets
<1> HIDE DEF put
<1>5. contents \in [Cells -> Buckets]
  BY <1>1, <1>2, <1>4a
<1>6. /\ cells' \in [Cells -> Buckets]
      /\ \A j \in Keys : entry[j] \in Cells => cells'[entry[j]] = contents[entry[j]]
  BY <1>1, <1>4, <1>5, CollectedCells
<1>7. Shape'
  <2>1. budget' \in [Keys -> Int]
    BY <1>1, <1>3 DEF Shape, LimiterTypeOK
  <2>2. LimiterTypeOK'
    BY <1>1, <1>6, <2>1, HangupShape DEF Shape, LimiterTypeOK, Buckets
  <2>3. QED
    BY <1>1, <2>2, HangupShape DEF Shape
<1>8. ASSUME \A j \in Keys : Covered(j) PROVE \A j \in Keys : Covered(j)'
  <2> SUFFICES ASSUME NEW j \in Keys PROVE Covered(j)'
    OBVIOUS
  <2>1. /\ budget[j] \in Int
        /\ entry[j] # NoCell => entry[j] \in Cells
    BY DEF Shape, LimiterTypeOK
  <2>2. CASE entry[j] = b
    <3>1. j = k /\ ~IsStray(p) /\ entry[j] # NoCell
      BY <1>1, <2>2, LimiterAssumption DEF Shape, Owned, IsStray
    <3>2. budget'[j] = budget[j] - n
      BY <1>1, <3>1 DEF Shape, LimiterTypeOK
    <3>3. cells'[entry[j]] = put
      BY <1>1, <1>2, <1>6, <2>2
    <3>4. cells'[entry[j]].tokens = t /\ cells'[entry[j]].idle = 0
      BY <1>3, <1>4a, <3>3
    <3>5. Refilled(cells'[entry[j]]) = t
      BY <1>3, <3>4, Bounds DEF Refilled, Least
    <3>6. Refilled(cells[b]) <= budget[j] /\ budget[j] <= BurstSize
      BY <1>8, <2>2, <3>1 DEF Covered
    <3>7. t <= budget'[j] /\ budget'[j] <= BurstSize
      BY <1>3, <2>1, <3>2, <3>6, Bounds
    <3>8. QED
      BY <1>1, <3>1, <3>5, <3>7 DEF Covered, Refilled
  <2>3. CASE entry[j] # b
    <3>1. budget'[j] = budget[j]
      BY <1>1, <2>3 DEF Shape, LimiterTypeOK, IsStray
    <3>2. entry[j] # NoCell => cells'[entry[j]] = cells[entry[j]]
      BY <1>2, <1>6, <2>1, <2>3
    <3>3. entry[j] # NoCell => Refilled(cells'[entry[j]]) = Refilled(cells[entry[j]])
      BY <3>2
    <3>4. QED
      BY <1>1, <1>8, <3>1, <3>3 DEF Covered, Refilled
  <2>4. QED
    BY <2>2, <2>3
<1>9. QED
  BY <1>1, <1>7, <1>8 DEF Budgeted

\* Recording requests in a window spends no budget.
LEMMA RecordRequestsKeeps ==
  ASSUME Shape, NEW p \in Procs, RecordRequests(p)
  PROVE  Shape' /\ (Budgeted => Budgeted')
<1> DEFINE k == call[p].key
           w == call[p].cell
           n == IF Grants(p) THEN call[p].n ELSE 0
           recorded == Plus(Kept(cells[w].hits), n)
           contents == [cells EXCEPT ![w] = [cells[w] EXCEPT !.hits = recorded]]
<1>1. /\ kind = "window" /\ Hangup(p) /\ UNCHANGED <<kind, entry, budget>>
      /\ ledger' = IF IsStray(p) THEN ledger ELSE [ledger EXCEPT ![k] = Plus(@, n)]
      /\ k \in Keys /\ w \in Cells /\ n \in Nat
  BY DEF RecordRequests, Shape, LimiterTypeOK, Held
<1>2. cells \in [Cells -> Buckets] /\ cells[w] \in Buckets
  BY <1>1 DEF Shape, LimiterTypeOK, Buckets
<1>3. cells' = Collected(contents)
  BY <1>1, <1>2 DEF RecordRequests
<1> HIDE DEF n
<1>4. recorded \in Counts
  <2>1. cells[w].hits \in Counts
    BY <1>2 DEF Buckets, Counts
  <2>2. QED
    BY <1>1, <2>1, KeptCounts, PlusCounts
<1> HIDE DEF recorded
<1>5. contents \in [Cells -> Buckets]
  BY <1>1, <1>2, <1>4, PutHits
<1>6. cells' \in [Cells -> Buckets]
  BY <1>3, <1>5, CollectedCells
<1>7. ledger' \in [Keys -> [Ages -> Nat]]
  <2>1. ledger \in [Keys -> Counts]
    BY DEF Shape, LimiterTypeOK, Counts
  <2>2. Plus(ledger[k], n) \in Counts
    BY <1>1, <2>1, PlusCounts
  <2>3. ledger' = IF IsStray(p) THEN ledger ELSE [ledger EXCEPT ![k] = Plus(ledger[k], n)]
    BY <1>1, <2>1
  <2>4. QED
    BY <1>1, <2>1, <2>2, <2>3 DEF Counts
<1>8. Shape'
  <2>1. LimiterTypeOK'
    BY <1>1, <1>6, <1>7, HangupShape DEF Shape, LimiterTypeOK, Buckets
  <2>2. QED
    BY <1>1, <2>1, HangupShape DEF Shape
<1>9. QED
  BY <1>1, <1>8 DEF Budgeted

\* Taking entries out of the map.
LEMMA RemovalShape ==
  ASSUME Shape, UNCHANGED <<kind, call>>, cells' = Collected(cells),
         entry' \in [Keys -> Cells \cup {NoCell}],
         \A j \in Keys : entry'[j] \in {entry[j], NoCell},
         budget' \in [Keys -> Int], ledger' \in [Keys -> Counts]
  PROVE  /\ Shape'
         /\ \A j \in Keys : entry'[j] # NoCell => cells'[entry'[j]] = cells[entry[j]]
<1>1. cells \in [Cells -> Buckets]
  BY DEF Shape, LimiterTypeOK, Buckets
<1>2. /\ cells' \in [Cells -> Buckets]
      /\ \A j \in Keys : entry'[j] \in Cells => cells'[entry'[j]] = cells[entry'[j]]
  BY <1>1, CollectedCells
<1>3. LimiterTypeOK'
  BY <1>2 DEF Shape, LimiterTypeOK, Buckets, Counts
<1>4. Held' /\ Owned'
  BY DEF Shape, Held, Owned
<1>5. QED
  BY <1>2, <1>3, <1>4 DEF Shape

LEMMA ResetKeeps ==
  ASSUME Shape, NEW k \in Keys, Reset(k)
  PROVE  Shape' /\ (Budgeted => Budgeted')
<1>1. /\ entry' = [entry EXCEPT ![k] = NoCell] /\ UNCHANGED <<kind, call>>
      /\ cells' = Collected(cells)
      /\ budget' = [budget EXCEPT ![k] = BurstSize]
      /\ ledger' = [ledger EXCEPT ![k] = NoHits]
  BY DEF Reset
<1>2. /\ entry' \in [Keys -> Cells \cup {NoCell}]
      /\ \A j \in Keys : entry'[j] \in {entry[j], NoCell}
      /\ budget' \in [Keys -> Int] /\ ledger' \in [Keys -> Counts]
  BY <1>1, Bounds, ZeroHits DEF Shape, LimiterTypeOK, Counts
<1>3. Shape' /\ \A j \in Keys : entry'[j] # NoCell => cells'[entry'[j]] = cells[entry[j]]
  BY <1>1, <1>2, RemovalShape
<1>4. /\ entry'[k] = NoCell /\ budget'[k] = BurstSize
      /\ \A j \in Keys \ {k} : entry'[j] = entry[j] /\ budget'[j] = budget[j]
  BY <1>1 DEF Shape, LimiterTypeOK
<1>5. ASSUME \A j \in Keys : Covered(j) PROVE \A j \in Keys : Covered(j)'
  <2>1. Covered(k)'
    BY <1>4, Bounds DEF Covered
  <2>2. ASSUME NEW j \in Keys \ {k} PROVE Covered(j)'
    <3>1. entry'[j] # NoCell => Refilled(cells'[entry'[j]]) = Refilled(cells[entry[j]])
      BY <1>3
    <3>2. QED
      BY <1>4, <1>5, <3>1 DEF Covered, Refilled
  <2>3. QED
    BY <2>1, <2>2
<1>6. ASSUME kind # "bucket", Budgeted PROVE Budgeted'
  BY <1>1, <1>4, <1>6 DEF Budgeted
<1>7. QED
  BY <1>1, <1>3, <1>5, <1>6 DEF Budgeted

\* A bucket that has not been refilled for two intervals is full, if the burst is
\* no larger: the clean-up takes nothing away.
LEMMA CleanupKeeps ==
  ASSUME Shape, Cleanup
  PROVE  Shape' /\ (BurstSize <= 2 * Interval /\ Budgeted => Budgeted')
<1> DEFINE gone == {k \in Tracked : Stale(cells[entry[k]])}
<1>1. /\ entry' = [k \in Keys |-> IF k \in gone THEN NoCell ELSE entry[k]]
      /\ UNCHANGED <<kind, call, budget, ledger>>
      /\ cells' = Collected(cells)
  BY DEF Cleanup
<1>2. /\ entry' \in [Keys -> Cells \cup {NoCell}]
      /\ \A j \in Keys : entry'[j] = IF j \in gone THEN NoCell ELSE entry[j]
      /\ budget' \in [Keys -> Int] /\ ledger' \in [Keys -> Counts]
  BY <1>1 DEF Shape, LimiterTypeOK, Counts
<1> HIDE DEF gone
<1>3. Shape' /\ \A j \in Keys : entry'[j] # NoCell => cells'[entry'[j]] = cells[entry[j]]
  BY <1>1, <1>2, RemovalShape
<1>4. ASSUME BurstSize <= 2 * Interval, kind = "bucket", \A j \in Keys : Covered(j),
             NEW j \in Keys
      PROVE  Covered(j)'
  <2>1. CASE j \in gone
    <3>1. entry[j] # NoCell /\ cells[entry[j]].idle > 2 * Interval /\ cells[entry[j]] \in Buckets
      BY <1>4, <2>1 DEF gone, Tracked, Stale, Shape, LimiterTypeOK, Buckets
    <3>2. Refilled(cells[entry[j]]) = BurstSize
      BY <1>4, <3>1, RefillBounds, Bounds DEF Refilled, Least
    <3>3. budget[j] = BurstSize
      <4>1. budget[j] \in Int /\ BurstSize <= budget[j] /\ budget[j] <= BurstSize
        BY <1>4, <3>1, <3>2 DEF Covered, Shape, LimiterTypeOK
      <4>2. QED
        BY <4>1, Bounds
    <3>4. QED
      BY <1>1, <1>2, <2>1, <3>3, Bounds DEF Covered
  <2>2. CASE j \notin gone
    <3>1. entry'[j] = entry[j]
      BY <1>2, <2>2
    <3>2. entry'[j] # NoCell => Refilled(cells'[entry'[j]]) = Refilled(cells[entry[j]])
      BY <1>3
    <3>3. QED
      BY <1>1, <1>4, <3>1, <3>2 DEF Covered, Refilled
  <2>3. QED
    BY <2>1, <2>2
<1>5. QED
  BY <1>1, <1>3, <1>4 DEF Budgeted

\* A tick gives each bucket a token, and each eternal one.
LEMMA TickKeeps ==
  ASSUME Shape, Tick
  PROVE  Shape' /\ (Budgeted => Budgeted')
<1> DEFINE aged(b) == [b EXCEPT !.idle = Least(@ + 1, IdleCap)]
           older(b) == [b EXCEPT !.hits = Older(@)]
<1>1. /\ cells' = [c \in Cells |-> IF Free(c) THEN Blank
                                   ELSE IF kind = "bucket" THEN aged(cells[c]) ELSE older(cells[c])]
      /\ budget' = [k \in Keys |-> Least(budget[k] + 1, BurstSize)]
      /\ ledger' = [k \in Keys |-> Older(ledger[k])]
      /\ UNCHANGED <<kind, entry, call>>
  BY DEF Tick
<1>2. /\ cells \in [Cells -> Buckets] /\ ledger \in [Keys -> Counts]
      /\ budget \in [Keys -> Int]
  BY DEF Shape, LimiterTypeOK, Buckets, Counts
<1>3. \A b \in Buckets : aged(b) \in Buckets /\ Refilled(aged(b)) <= Least(Refilled(b) + 1, BurstSize)
  BY Aged
<1>4. \A b \in Buckets : older(b) \in Buckets
  <2> SUFFICES ASSUME NEW b \in Buckets PROVE older(b) \in Buckets
    OBVIOUS
  <2>1. b.hits \in Counts
    BY DEF Buckets, Counts
  <2>2. QED
    BY <2>1, OlderCounts, PutHits
<1> HIDE DEF aged, older
<1>5. cells' \in [Cells -> Buckets]
  BY <1>1, <1>2, <1>3, <1>4, FreshCells
<1>6. ledger' \in [Keys -> Counts] /\ budget' \in [Keys -> Int]
  BY <1>1, <1>2, OlderCounts, Bounds DEF Least
<1>7. Shape'
  BY <1>1, <1>5, <1>6 DEF Shape, LimiterTypeOK, Held, Owned, Buckets, Counts
<1>8. ASSUME kind = "bucket", \A j \in Keys : Covered(j), NEW j \in Keys
      PROVE  Covered(j)'
  <2>1. budget[j] \in Int /\ budget'[j] = Least(budget[j] + 1, BurstSize) /\ entry'[j] = entry[j]
    BY <1>1, <1>2
  <2>2. CASE entry[j] = NoCell
    BY <1>8, <2>1, <2>2, Bounds DEF Covered, Least
  <2>3. CASE entry[j] # NoCell
    <3>1. entry[j] \in Cells /\ ~Free(entry[j])
      BY <2>3 DEF Shape, LimiterTypeOK, Free
    <3>2. cells'[entry[j]] = aged(cells[entry[j]]) /\ cells[entry[j]] \in Buckets
      BY <1>1, <1>2, <1>8, <3>1
    <3>3. /\ Refilled(cells[entry[j]]) \in 0 .. BurstSize
          /\ Refilled(cells'[entry[j]]) \in 0 .. BurstSize
      BY <1>3, <3>2, RefillBounds
    <3>4. Refilled(cells'[entry[j]]) <= Least(Refilled(cells[entry[j]]) + 1, BurstSize)
      BY <1>3, <3>2
    <3>5. Refilled(cells[entry[j]]) <= budget[j]
      BY <1>8, <2>3 DEF Covered
    <3>6. Refilled(cells'[entry[j]]) <= budget'[j] /\ budget'[j] <= BurstSize
      BY <2>1, <3>3, <3>4, <3>5, Bounds DEF Least
    <3>7. QED
      BY <2>1, <2>3, <3>6 DEF Covered, Refilled
  <2>4. QED
    BY <2>2, <2>3
<1>9. ASSUME \A j \in Keys : budget[j] = BurstSize PROVE \A j \in Keys : budget'[j] = BurstSize
  BY <1>1, <1>2, <1>9, Bounds DEF Least
<1>10. QED
  BY <1>1, <1>7, <1>8, <1>9 DEF Budgeted

-----------------------------------------------------------------------------
\* The counts of a window: none, some more, those kept, those of a tick later.
LEMMA RecentAges ==
  /\ \A a \in 0 .. Interval - 1 : a \in Ages /\ Least(a, Interval - 1) = a
  /\ \A a \in 0 .. Interval - 1 : a # 0 => a - 1 \in 0 .. Interval - 1
  /\ Interval - 1 \in 0 .. Interval - 1
  /\ Rate \in Nat \ {0}
BY Bounds, LimiterAssumption DEF Ages, Least

LEMMA NoHitsWithinRate == WithinRate(NoHits) /\ Older(NoHits) = NoHits
<1>1. \A a \in Ages : NoHits[a] = 0 /\ (a # 0 => a - 1 \in Ages)
  BY Bounds DEF NoHits, Ages
<1>2. Older(NoHits) = NoHits
  BY <1>1 DEF Older, NoHits
<1>3. QED
  BY <1>1, <1>2, RecentAges DEF WithinRate, Growing, ValidCount

LEMMA GrantWithinRate ==
  ASSUME NEW h \in Counts, WithinRate(h), NEW n \in Nat, n = 0 \/ ValidCount(h) + n <= Rate
  PROVE  /\ WithinRate(Plus(Kept(h), n))
         /\ \A a \in 0 .. Interval - 1 : Plus(Kept(h), n)[a] = h[a] + n
<1>1. /\ \A a \in Ages : /\ Least(a, Interval - 1) \in Ages
                         /\ Plus(Kept(h), n)[a] = h[Least(a, Interval - 1)] + n
      /\ \A a \in Ages : h[a] \in Nat
  BY Bounds DEF Ages, Least, Plus, Kept, Counts
<1>2. \A a, b \in Ages : a <= b => Least(a, Interval - 1) <= Least(b, Interval - 1)
  BY Bounds DEF Ages, Least
<1>3. Growing(Plus(Kept(h), n))
  BY <1>1, <1>2 DEF Growing, WithinRate
<1>4. \A a \in 0 .. Interval - 1 : Plus(Kept(h), n)[a] = h[a] + n
  BY <1>1, RecentAges
<1>5. ValidCount(Plus(Kept(h), n)) <= Rate
  BY <1>1, <1>4, RecentAges DEF ValidCount, WithinRate
<1>6. QED
  BY <1>3, <1>4, <1>5 DEF WithinRate

LEMMA OlderWithinRate ==
  ASSUME NEW h \in Counts, WithinRate(h)
  PROVE  WithinRate(Older(h))
<1>1. /\ \A a \in Ages : Older(h)[a] = IF a = 0 THEN 0 ELSE h[a - 1]
      /\ \A a \in Ages : a # 0 => a - 1 \in Ages
      /\ \A a \in Ages : h[a] \in Nat
      /\ Ages \subseteq Nat
  BY Bounds DEF Ages, Older, Counts
<1>2. Growing(Older(h))
  <2> SUFFICES ASSUME NEW a \in Ages, NEW b \in Ages, a <= b PROVE Older(h)[a] <= Older(h)[b]
    BY DEF Growing
  <2>1. CASE a = 0
    BY <1>1, <2>1
  <2>2. CASE a # 0
    <3>1. b # 0 /\ a - 1 <= b - 1
      BY <1>1, <2>2
    <3>2. QED
      BY <1>1, <2>2, <3>1 DEF WithinRate, Growing
  <2>3. QED
    BY <2>1, <2>2
<1>3. ValidCount(Older(h)) <= Rate
  <2>1. /\ Interval - 1 \in Ages /\ h[Interval - 1] <= Rate /\ Rate \in Nat
        /\ Older(h)[Interval - 1] <= h[Interval - 1]
    <3>1. Interval - 1 \in Ages /\ h[Interval - 1] <= Rate /\ Rate \in Nat
      BY RecentAges DEF WithinRate, ValidCount
    <3>2. CASE Interval - 1 = 0
      BY <1>1, <3>1, <3>2
    <3>3. CASE Interval - 1 # 0
      <4>1. (Interval - 1) - 1 <= Interval - 1 /\ (Interval - 1) - 1 \in Ages
        BY <1>1, <3>1, <3>3, Bounds
      <4>2. QED
        BY <1>1, <3>1, <3>3, <4>1 DEF WithinRate, Growing
    <3>4. QED
      BY <3>1, <3>2, <3>3
  <2>2. Older(h)[Interval - 1] \in Nat /\ h[Interval - 1] \in Nat
    BY <1>1, <2>1
  <2>3. QED
    BY <1>1, <2>1, <2>2 DEF ValidCount
<1>4. QED
  BY <1>2, <1>3 DEF WithinRate

\* A window limiter after a step, seen from its windows and its keys.
LEMMA WindowedNext ==
  ASSUME kind' = kind, kind = "window",
         \A c \in Cells : WithinRate(cells'[c].hits),
         \A k \in Keys : Recorded(k)'
  PROVE  Windowed'
BY DEF Windowed, WithinRate, Growing, ValidCount

LEMMA FindKeepsWindows ==
  ASSUME Shape, Windowed, NEW p \in Procs, NEW k \in Keys, NEW n \in 0 .. Rate,
         FindBucket(p, k, n) \/ FindWindow(p, k, n)
  PROVE  Windowed'
<1>1. CASE FindBucket(p, k, n)
  BY <1>1 DEF FindBucket, Find, Windowed
<1>2. CASE FindWindow(p, k, n)
  <2>1. Find(p, k, n, Blank) /\ kind = "window" /\ kind' = kind /\ ledger' = ledger
    BY <1>2 DEF FindWindow, Find
  <2>2. \A c \in Cells : cells'[c] \in {cells[c], Blank}
    BY <2>1 DEF Find, Shape, LimiterTypeOK
  <2>3. /\ entry'[k] # NoCell
        /\ \A j \in Keys \ {k} : entry'[j] = entry[j]
        /\ \A j \in Tracked : cells'[entry'[j]] = cells[entry[j]] /\ entry'[j] = entry[j]
        /\ k \notin Tracked => cells'[entry'[k]] = Blank
    BY <2>1, FindKeepsShape, FreshCells
  <2>4. Blank.hits = NoHits /\ \A a \in 0 .. Interval - 1 : NoHits[a] = 0
    BY RecentAges DEF Blank, NoHits
  <2>5. \A c \in Cells : WithinRate(cells'[c].hits)
    BY <2>1, <2>2, <2>4, NoHitsWithinRate DEF Windowed
  <2>6. ASSUME NEW j \in Keys PROVE Recorded(j)'
    <3>1. Recorded(j)
      BY <2>1 DEF Windowed
    <3>2. CASE j = k /\ k \notin Tracked
      <4>1. \A a \in 0 .. Interval - 1 : ledger[j][a] = 0
        BY <3>1, <3>2 DEF Recorded, Tracked
      <4>2. QED
        BY <2>1, <2>3, <2>4, <3>2, <4>1 DEF Recorded
    <3>3. CASE j # k \/ k \in Tracked
      BY <2>1, <2>3, <3>1, <3>3 DEF Recorded, Tracked
    <3>4. QED
      BY <3>2, <3>3
  <2>7. QED
    BY <2>1, <2>5, <2>6, WindowedNext
<1>3. QED
  BY <1>1, <1>2

\* The window of a key records what its ledger does, unless a call still writes
\* to one that was dropped.
LEMMA RecordKeepsWindows ==
  ASSUME Shape, Windowed, NEW p \in Procs, RecordRequests(p)
  PROVE  Windowed'
<1>1. PICK k, w, n : k = call[p].key /\ w = call[p].cell
                     /\ n = IF Grants(p) THEN call[p].n ELSE 0
  OBVIOUS
<1>2. /\ kind = "window" /\ Hangup(p) /\ UNCHANGED <<kind, entry, budget>>
      /\ k \in Keys /\ w \in Cells /\ n \in Nat
      /\ Grants(p) <=> ValidCount(cells[w].hits) + call[p].n <= Rate
  BY <1>1 DEF RecordRequests, Shape, LimiterTypeOK, Held, Grants
<1>3. /\ cells' = Collected([cells EXCEPT ![w].hits = Plus(Kept(@), n)])
      /\ ledger' = IF IsStray(p) THEN ledger ELSE [ledger EXCEPT ![k] = Plus(@, n)]
  BY <1>1 DEF RecordRequests
<1>4. /\ cells \in [Cells -> Buckets] /\ ledger \in [Keys -> Counts]
      /\ cells[w].hits \in Counts
  BY <1>2 DEF Shape, LimiterTypeOK, Buckets, Counts
<1> DEFINE recorded == Plus(Kept(cells[w].hits), n)
<1>5. WithinRate(recorded) /\ \A a \in 0 .. Interval - 1 : recorded[a] = cells[w].hits[a] + n
  <2>1. WithinRate(cells[w].hits)
    BY <1>2 DEF Windowed
  <2>2. n = 0 \/ ValidCount(cells[w].hits) + n <= Rate
    BY <1>1, <1>2
  <2>3. QED
    BY <1>2, <1>4, <2>1, <2>2, GrantWithinRate
<1>6. recorded \in Counts
  BY <1>2, <1>4, KeptCounts, PlusCounts
<1> DEFINE contents == [cells EXCEPT ![w].hits = recorded]
<1>7. /\ contents \in [Cells -> Buckets]
      /\ contents[w].hits = recorded
      /\ \A c \in Cells \ {w} : contents[c] = cells[c]
      /\ cells' = Collected(contents)
  BY <1>2, <1>3, <1>4, <1>6, PutHits DEF Buckets
<1> HIDE DEF recorded, contents
<1>8. \A c \in Cells : cells'[c] \in {Blank, contents[c]}
  BY <1>7 DEF Collected
<1>9. \A j \in Keys : entry'[j] \in Cells => cells'[entry'[j]] = contents[entry'[j]]
  BY <1>7, CollectedCells
<1>10. \A c \in Cells : WithinRate(cells'[c].hits)
  <2>1. Blank.hits = NoHits
    BY DEF Blank
  <2>2. QED
    BY <1>2, <1>5, <1>7, <1>8, <2>1, NoHitsWithinRate DEF Windowed
<1>11. ASSUME NEW j \in Keys PROVE Recorded(j)'
  <2>1. Recorded(j) /\ entry[j] \in Cells \cup {NoCell} /\ ledger[j] \in Counts
    BY <1>2, <1>4 DEF Windowed, Shape, LimiterTypeOK
  <2>2. CASE entry[j] = w
    <3>1. j = k /\ ~IsStray(p) /\ entry[j] # NoCell
      BY <1>1, <1>2, <2>2, LimiterAssumption DEF Shape, Owned, IsStray
    <3>2. ledger'[j] = Plus(ledger[j], n)
      BY <1>2, <1>3, <1>4, <3>1
    <3>3. cells'[entry'[j]].hits = recorded
      BY <1>2, <1>7, <1>9, <2>2
    <3>4. ASSUME NEW a \in 0 .. Interval - 1 PROVE ledger'[j][a] <= recorded[a]
      <4>1. /\ a \in Ages /\ ledger[j][a] \in Nat /\ cells[w].hits[a] \in Nat
            /\ ledger[j][a] <= cells[w].hits[a]
        BY <1>4, <2>1, <2>2, <3>1, RecentAges DEF Counts, Recorded
      <4>2. ledger'[j][a] = ledger[j][a] + n
        BY <3>2, <4>1 DEF Plus
      <4>3. QED
        BY <1>2, <1>5, <4>1, <4>2
    <3>5. QED
      BY <1>2, <3>1, <3>3, <3>4 DEF Recorded
  <2>3. CASE entry[j] # w
    <3>1. ledger'[j] = ledger[j]
      BY <1>1, <1>2, <1>3, <1>4, <2>3 DEF IsStray
    <3>2. entry[j] # NoCell => cells'[entry'[j]] = cells[entry[j]]
      BY <1>2, <1>7, <1>9, <2>1, <2>3
    <3>3. QED
      BY <1>2, <2>1, <3>1, <3>2 DEF Recorded
  <2>4. QED
    BY <2>2, <2>3
<1>12. QED
  BY <1>2, <1>10, <1>11, WindowedNext

\* Taking entries out: the window that the clean-up drops had no request left.
LEMMA RemovalKeepsWindows ==
  ASSUME Shape, Windowed, Cleanup \/ \E k \in Keys : Reset(k)
  PROVE  Windowed'
<1>1. /\ UNCHANGED <<kind, call>> /\ cells' = Collected(cells)
      /\ entry \in [Keys -> Cells \cup {NoCell}] /\ ledger \in [Keys -> Counts]
      /\ cells \in [Cells -> Buckets]
  BY DEF Cleanup, Reset, Shape, LimiterTypeOK, Counts, Buckets
<1>2. \A j \in Keys : entry'[j] \in {entry[j], NoCell}
  BY <1>1 DEF Cleanup, Reset
<1>3. /\ \A j \in Keys : entry'[j] \in Cells => cells'[entry'[j]] = cells[entry'[j]]
      /\ \A c \in Cells : cells'[c] \in {Blank, cells[c]}
  BY <1>1, CollectedCells DEF Collected
<1>4. \A a \in 0 .. Interval - 1 : NoHits[a] = 0
  BY RecentAges DEF NoHits
<1>5. CASE kind # "window"
  <2>1. \A j \in Keys : ledger'[j] \in {ledger[j], NoHits}
    BY <1>1 DEF Cleanup, Reset
  <2>2. QED
    BY <1>1, <1>5, <2>1 DEF Windowed
<1>6. CASE kind = "window"
  <2>1. \A c \in Cells : WithinRate(cells'[c].hits)
    <3>1. Blank.hits = NoHits
      BY DEF Blank
    <3>2. QED
      BY <1>3, <1>6, <3>1, NoHitsWithinRate DEF Windowed
  <2>2. ASSUME NEW j \in Keys PROVE Recorded(j)'
    <3>1. Recorded(j)
      BY <1>6 DEF Windowed
    <3>2. CASE Cleanup
      <4>1. ledger' = ledger
        BY <3>2 DEF Cleanup
      <4>2. CASE entry'[j] = NoCell /\ entry[j] # NoCell
        <5>1. /\ entry[j] \in Cells /\ Stale(cells[entry[j]])
          BY <1>1, <3>2, <4>2 DEF Cleanup
        <5>2. \A a \in Ages : cells[entry[j]].hits[a] = 0
          BY <1>6, <5>1 DEF Stale
        <5>3. \A a \in 0 .. Interval - 1 : ledger[j][a] <= 0 /\ ledger[j][a] \in Nat
          BY <1>1, <3>1, <4>2, <5>2, RecentAges DEF Recorded, Counts
        <5>4. QED
          BY <4>1, <4>2, <5>3 DEF Recorded
      <4>3. CASE entry'[j] = entry[j]
        BY <1>1, <1>3, <3>1, <4>1, <4>3 DEF Recorded
      <4>4. QED
        BY <1>2, <4>2, <4>3
    <3>3. ASSUME NEW k \in Keys, Reset(k) PROVE Recorded(j)'
      <4>1. CASE j = k
        <5>1. entry'[j] = NoCell /\ ledger'[j] = NoHits
          BY <1>1, <3>3, <4>1 DEF Reset
        <5>2. QED
          BY <1>4, <5>1 DEF Recorded
      <4>2. CASE j # k
        <5>1. entry'[j] = entry[j] /\ ledger'[j] = ledger[j]
          BY <1>1, <3>3, <4>2 DEF Reset
        <5>2. QED
          BY <1>1, <1>3, <3>1, <5>1 DEF Recorded
      <4>3. QED
        BY <4>1, <4>2
    <3>4. QED
      BY <3>2, <3>3
  <2>3. QED
    BY <1>1, <1>6, <2>1, <2>2, WindowedNext
<1>7. QED
  BY <1>5, <1>6

\* A tick makes the requests of a window and those of its ledger older alike.
LEMMA TickKeepsWindows ==
  ASSUME Shape, Windowed, Tick
  PROVE  Windowed'
<1>1. /\ cells \in [Cells -> Buckets] /\ ledger \in [Keys -> Counts]
      /\ entry \in [Keys -> Cells \cup {NoCell}]
  BY DEF Shape, LimiterTypeOK, Buckets, Counts
<1>2. /\ \A k \in Keys : ledger'[k] = Older(ledger[k])
      /\ UNCHANGED <<kind, entry, call>>
  BY DEF Tick
<1>3. CASE kind # "window"
  BY <1>2, <1>3, NoHitsWithinRate DEF Windowed
<1>4. CASE kind = "window"
  <2>1. \A c \in Cells : cells[c].hits \in Counts
    BY <1>1 DEF Buckets, Counts
  <2>2. \A c \in Cells : ~Free(c) => cells'[c].hits = Older(cells[c].hits)
    BY <1>1, <1>4 DEF Tick, Buckets
  <2>3. \A c \in Cells : Free(c) => cells'[c].hits = NoHits
    BY DEF Tick, Blank
  <2>4. \A c \in Cells : WithinRate(cells'[c].hits)
    BY <1>4, <2>1, <2>2, <2>3, OlderWithinRate, NoHitsWithinRate DEF Windowed
  <2>5. ASSUME NEW j \in Keys PROVE Recorded(j)'
    <3>1. Recorded(j) /\ ledger[j] \in Counts
      BY <1>1, <1>4 DEF Windowed
    <3>2. \A a \in 0 .. Interval - 1 :
            ledger'[j][a] = IF a = 0 THEN 0 ELSE ledger[j][a - 1]
      BY <1>2, RecentAges DEF Older
    <3>3. CASE entry[j] = NoCell
      BY <1>2, <3>1, <3>2, <3>3, RecentAges DEF Recorded
    <3>4. CASE entry[j] # NoCell
      <4>1. entry[j] \in Cells /\ ~Free(entry[j])
        BY <1>1, <3>4 DEF Free
      <4>2. \A a \in 0 .. Interval - 1 :
              cells'[entry[j]].hits[a] = IF a = 0 THEN 0 ELSE cells[entry[j]].hits[a - 1]
        BY <2>2, <4>1, RecentAges DEF Older
      <4>3. QED
        BY <1>2, <3>1, <3>2, <3>4, <4>2, RecentAges DEF Recorded
    <3>5. QED
      BY <3>3, <3>4
  <2>6. QED
    BY <1>2, <1>4, <2>4, <2>5, WindowedNext
<1>5. QED
  BY <1>3, <1>4

-----------------------------------------------------------------------------
LEMMA LimiterInvInit == LimiterInit => LimiterInv
<1> SUFFICES ASSUME LimiterInit PROVE LimiterInv
  OBVIOUS
<1>1. /\ entry \in [Keys -> Cells \cup {NoCell}] /\ \A k \in Keys : entry[k] = NoCell
      /\ kind \in Kinds
  BY DEF LimiterInit
<1>2. cells \in [Cells -> Buckets]
  BY FreshCells DEF LimiterInit
<1>3. /\ call \in [Procs -> [at : {"rest", "take"}, key : Keys, n : 0 .. Rate, cell : Cells \cup {NoCell}]]
      /\ \A p \in Procs : call[p] = Resting
  BY RestingCall DEF LimiterInit
<1>4. /\ budget \in [Keys -> Int] /\ ledger \in [Keys -> Counts]
      /\ \A k \in Keys : budget[k] = BurstSize
  BY Bounds, ZeroHits DEF LimiterInit
<1>5. Shape
  BY <1>1, <1>2, <1>3, <1>4 DEF Shape, LimiterTypeOK, Held, Owned, Buckets, Counts, Resting
<1>6. Budgeted
  BY <1>1, <1>4, Bounds DEF Budgeted, Covered
<1>7. Windowed
  <2>1. \A k \in Keys : ledger[k] = NoHits
    BY DEF LimiterInit
  <2>2. \A c \in Cells : cells[c].hits = NoHits
    BY DEF LimiterInit, Blank
  <2>3. \A a \in 0 .. Interval - 1 : NoHits[a] = 0
    BY RecentAges DEF NoHits
  <2>4. QED
    BY <1>1, <2>1, <2>2, <2>3, NoHitsWithinRate DEF Windowed, Recorded
<1>8. QED
  BY <1>5, <1>6, <1>7 DEF LimiterInv

LEMMA LimiterInvNext == LimiterInv /\ [LimiterNext]_limiterVars => LimiterInv'
<1> SUFFICES ASSUME LimiterInv, [LimiterNext]_limiterVars PROVE LimiterInv'
  OBVIOUS
<1> USE DEF LimiterInv
<1>1. \A n \in 1 .. Rate : n \in 0 .. Rate
  BY LimiterAssumption
<1>2. ASSUME NEW p \in Procs, NEW k \in Keys, NEW n \in 1 .. Rate,
             FindBucket(p, k, n) \/ FindWindow(p, k, n)
      PROVE  LimiterInv'
  BY <1>1, <1>2, FindBucketKeeps, FindWindowKeeps, FindKeepsWindows
<1>3. ASSUME NEW p \in Procs, TakeTokens(p) \/ RecordRequests(p) PROVE LimiterInv'
  <2>1. TakeTokens(p) => Windowed'
    BY DEF TakeTokens, Windowed
  <2>2. QED
    BY <1>3, <2>1, TakeTokensKeeps, RecordRequestsKeeps, RecordKeepsWindows
<1>4. ASSUME NEW k \in Keys, Reset(k) PROVE LimiterInv'
  BY <1>4, ResetKeeps, RemovalKeepsWindows
<1>5. CASE Cleanup
  BY <1>5, CleanupKeeps, RemovalKeepsWindows
<1>6. CASE Tick
  BY <1>6, TickKeeps, TickKeepsWindows
<1>7. CASE UNCHANGED limiterVars
  <2>1. Shape'
    BY <1>7 DEF limiterVars, Shape, LimiterTypeOK, Held, Owned
  <2>2. Budgeted => Budgeted'
    BY <1>7 DEF limiterVars, Budgeted, Covered, Refilled
  <2>3. Windowed'
    BY <1>7 DEF limiterVars, Windowed, Recorded, WithinRate, Growing, ValidCount
  <2>4. QED
    BY <2>1, <2>2, <2>3
<1>8. QED
  BY <1>2, <1>3, <1>4, <1>5, <1>6, <1>7 DEF LimiterNext

\* Neither the eternal bucket nor the real one runs below zero.
LEMMA BudgetLasts == LimiterInv => NeverOverdrawn
<1> SUFFICES ASSUME LimiterInv, BurstSize <= 2 * Interval, NEW k \in Keys PROVE budget[k] >= 0
  BY DEF NeverOverdrawn
<1>1. budget[k] \in Int /\ (entry[k] # NoCell => cells[entry[k]] \in Buckets)
  BY DEF LimiterInv, Shape, LimiterTypeOK, Buckets
<1>2. CASE kind = "bucket" /\ entry[k] # NoCell
  <2>1. Refilled(cells[entry[k]]) \in 0 .. BurstSize /\ Refilled(cells[entry[k]]) <= budget[k]
    BY <1>1, <1>2, RefillBounds DEF LimiterInv, Budgeted, Covered
  <2>2. QED
    BY <1>1, <2>1, Bounds
<1>3. CASE ~(kind = "bucket" /\ entry[k] # NoCell)
  <2>1. budget[k] = BurstSize
    BY <1>3 DEF LimiterInv, Budgeted, Covered
  <2>2. QED
    BY <2>1, Bounds
<1>4. QED
  BY <1>2, <1>3

\* What a key was admitted in the last interval is in its window, which holds at
\* most Rate.
LEMMA LedgerWithinRate == LimiterInv => NeverOverRate
<1> SUFFICES ASSUME LimiterInv, NEW k \in Keys PROVE ledger[k][Interval - 1] <= Rate
  BY DEF NeverOverRate, ValidCount
<1>1. /\ Interval - 1 \in 0 .. Interval - 1 /\ Interval - 1 \in Ages /\ Rate \in Nat
      /\ ledger[k] \in Counts
  BY RecentAges DEF LimiterInv, Shape, LimiterTypeOK, Counts
<1>2. CASE kind = "window" /\ entry[k] # NoCell
  <2>1. /\ ledger[k][Interval - 1] <= cells[entry[k]].hits[Interval - 1]
        /\ cells[entry[k]].hits[Interval - 1] <= Rate
        /\ entry[k] \in Cells
    BY <1>1, <1>2 DEF LimiterInv, Windowed, Recorded, WithinRate, ValidCount, Shape, LimiterTypeOK
  <2>2. ledger[k][Interval - 1] \in Nat /\ cells[entry[k]].hits[Interval - 1] \in Nat
    BY <1>1, <2>1 DEF Counts, LimiterInv, Shape, LimiterTypeOK
  <2>3. QED
    BY <1>1, <2>1, <2>2
<1>3. CASE ~(kind = "window" /\ entry[k] # NoCell)
  <2>1. ledger[k][Interval - 1] = 0
    BY <1>1, <1>3 DEF LimiterInv, Windowed, Recorded, NoHits
  <2>2. QED
    BY <1>1, <2>1
<1>4. QED
  BY <1>2, <1>3

LEMMA LimiterInvImplies == LimiterInv => LimiterTypeOK /\ GrantsWithinLimits
BY BudgetLasts, LedgerWithinRate DEF LimiterInv, Shape, GrantsWithinLimits

\* A bucket limiter never grants a key more than one eternal bucket would, and a
\* window limiter no more than Rate in any interval, however often the clean-up
\* forgets the key and whatever calls overlap with it.
THEOREM GrantsAlwaysWithinLimits == LimiterSpec => [](LimiterTypeOK /\ GrantsWithinLimits)
BY LimiterInvInit, LimiterInvNext, LimiterInvImplies, PTL DEF LimiterSpec

-----------------------------------------------------------------------------
Stages == {"idle", "take", "status", "serve", "log", "done"}

\* A handler runs for a request that was allowed, and not before it is served.
Serving(r) ==
  /\ handler[r] # "none" => stage[r] \in {"serve", "log"} /\ allowed[r]
  /\ stage[r] \in {"take", "status"} => kind = "bucket"

ChainInv ==
  /\ stage \in [Requests -> Stages]
  /\ handler \in [Requests -> {"none", "running", "done"}]
  /\ allowed = [r \in Requests |-> allowed[r]]
  /\ \A r \in Requests : Serving(r)

-----------------------------------------------------------------------------
LEMMA Goroutines == probe \in Procs /\ Requests \subseteq Procs /\ 1 \in 1 .. Rate
BY RequestAssumption, LimiterAssumption

\* Every step of the composition is one of the limiter or leaves it alone.
LEMMA StepsOfLimiter == [Next]_vars => [LimiterNext]_limiterVars
<1> SUFFICES ASSUME [Next]_vars PROVE [LimiterNext]_limiterVars
  OBVIOUS
<1> USE Goroutines
<1>1. ASSUME NEW r \in Requests, NEW in \in Inputs, Arrive(r, in)
      PROVE  [LimiterNext]_limiterVars
  <2>1. RateLimitKey(in) \in Keys
    BY InputAssumption
  <2>2. UNCHANGED limiterVars \/ FindBucket(r, RateLimitKey(in), 1)
    BY <1>1 DEF Arrive, Allow
  <2>3. QED
    BY <2>1, <2>2 DEF LimiterNext
<1>2. ASSUME NEW r \in Requests, ChainStep(r)
      PROVE  [LimiterNext]_limiterVars
  <2>1. TakeTokens(r) \/ UNCHANGED limiterVars
    BY <1>2 DEF ChainStep, Taken, RateLimit, Timeout, RequestLogging, Recycle
  <2>2. QED
    BY <2>1 DEF LimiterNext
<1>3. ASSUME NEW r \in Requests, HandlerWrites(r) \/ HandlerEnds(r)
      PROVE  [LimiterNext]_limiterVars
  BY <1>3 DEF HandlerWrites, HandlerEnds
<1>4. ASSUME NEW r \in Requests, NEW k \in Keys, NEW n \in 1 .. Rate, DirectFind(r, k, n)
      PROVE  [LimiterNext]_limiterVars
  BY <1>4 DEF DirectFind, LimiterNext
<1>5. ASSUME NEW r \in Requests, DirectTake(r)
      PROVE  [LimiterNext]_limiterVars
  BY <1>5 DEF DirectTake, LimiterNext
<1>6. ASSUME ProbeFinds \/ ProbeTakes \/ ProbeResets
      PROVE  [LimiterNext]_limiterVars
  <2>1. probeKey \in Keys
    BY RequestAssumption
  <2>2. CASE ProbeFinds
    BY <2>1, <2>2 DEF ProbeFinds, LimiterNext
  <2>3. CASE ProbeTakes
    BY <2>3 DEF ProbeTakes, LimiterNext
  <2>4. CASE ProbeResets
    BY <2>1, <2>4 DEF ProbeResets, LimiterNext
  <2>5. QED
    BY <1>6, <2>2, <2>3, <2>4
<1>7. ASSUME NEW k \in Keys, AppReset(k) PROVE [LimiterNext]_limiterVars
  BY <1>7 DEF AppReset, LimiterNext
<1>8. CASE CleanupRound \/ TimePasses
  BY <1>8 DEF CleanupRound, TimePasses, LimiterNext
<1>9. CASE UNCHANGED vars
  BY <1>9 DEF vars
<1>10. QED
  BY <1>1, <1>2, <1>3, <1>4, <1>5, <1>6, <1>7, <1>8, <1>9 DEF Next

\* The middleware, the health check and an application together use the limiter
\* only as its interface allows.
THEOREM RequestsImplementLimiter == Spec => LimiterSpec
<1>1. Init => LimiterInit
  BY DEF Init
<1>2. QED
  BY <1>1, StepsOfLimiter, PTL DEF Spec, LimiterSpec

\* The composition keeps the limiter's invariant.
LEMMA LimiterInvariant == Spec => []LimiterInv
BY RequestsImplementLimiter, LimiterInvInit, LimiterInvNext, PTL DEF LimiterSpec

\* The limiter's state is well formed with the chain, the probe, the application and
\* the clean-up all at it.
THEOREM RequestsTypeCorrect == Spec => []LimiterTypeOK
BY RequestsImplementLimiter, GrantsAlwaysWithinLimits, PTL

\* Neither limiter grants a key more than its configuration says, with the chain,
\* the probe, the application and the clean-up all at it.
THEOREM RequestsWithinLimits == Spec => []GrantsWithinLimits
BY RequestsImplementLimiter, GrantsAlwaysWithinLimits, PTL

-----------------------------------------------------------------------------
\* A bucket limiter always has a status to give.
LEMMA BucketHasStatus ==
  ASSUME LimiterTypeOK, kind = "bucket", NEW k
  PROVE  GetStatus(k) # Nil
<1>1. CASE k \notin Tracked
  BY <1>1, LimiterAssumption DEF GetStatus, BucketStatus, Nil
<1>2. CASE k \in Tracked
  <2>1. cells[entry[k]] \in Buckets
    BY <1>2 DEF Tracked, LimiterTypeOK, Buckets
  <2>2. Refilled(cells[entry[k]]) # -1
    BY <2>1, RefillBounds, Bounds
  <2>3. QED
    BY <1>2, <2>2 DEF GetStatus, BucketStatus, Nil
<1>3. QED
  BY <1>1, <1>2

LEMMA ChainInvInit == Init => ChainInv
BY DEF Init, ChainInv, Serving, Stages

\* A step of one request's chain.
LEMMA ChainStepKeeps ==
  ASSUME LimiterTypeOK, ChainInv, NEW r \in Requests, ChainStep(r)
  PROVE  ChainInv'
<1> USE DEF ChainInv, Serving, Stages
<1>1. CASE Taken(r)
  <2>1. kind' = kind
    BY <1>1 DEF Taken, TakeTokens
  <2>2. QED
    BY <1>1, <2>1 DEF Taken, Go
<1>2. CASE RateLimit(r)
  <2>1. GetStatus(key[r]) # Nil
    BY <1>2, BucketHasStatus DEF RateLimit
  <2>2. QED
    BY <1>2, <2>1 DEF RateLimit, Go, limiterVars
<1>3. CASE Timeout(r)
  BY <1>3 DEF Timeout, Go, limiterVars
<1>4. CASE RequestLogging(r)
  BY <1>4 DEF RequestLogging, Go, limiterVars
<1>5. CASE Recycle(r)
  BY <1>5 DEF Recycle, Go, limiterVars
<1>6. QED
  BY <1>1, <1>2, <1>3, <1>4, <1>5 DEF ChainStep

\* The limiter does not change its kind.
LEMMA KindStays == [LimiterNext]_limiterVars => kind' = kind
BY DEF LimiterNext, limiterVars, FindBucket, FindWindow, Find, TakeTokens, RecordRequests,
       Reset, Cleanup, Tick

LEMMA ChainInvNext == LimiterTypeOK /\ ChainInv /\ [Next]_vars => ChainInv'
<1> SUFFICES ASSUME LimiterTypeOK, ChainInv, [Next]_vars PROVE ChainInv'
  OBVIOUS
<1>1. kind' = kind
  BY StepsOfLimiter, KindStays
<1>2. ASSUME NEW r \in Requests, NEW in \in Inputs, Arrive(r, in) PROVE ChainInv'
  <2>1. /\ stage[r] = "idle" /\ kind = "bucket" /\ UNCHANGED <<allowed, handler>>
        /\ Go(r, "done") \/ Go(r, "take")
    BY <1>2 DEF Arrive, Allow
  <2>2. QED
    BY <1>1, <2>1 DEF ChainInv, Serving, Stages, Go
<1>3. ASSUME NEW r \in Requests, HandlerEnds(r) PROVE ChainInv'
  BY <1>1, <1>3 DEF HandlerEnds, ChainInv, Serving
<1>4. ASSUME UNCHANGED <<stage, handler, allowed>> PROVE ChainInv'
  BY <1>1, <1>4 DEF ChainInv, Serving
<1>5. ASSUME NEW r \in Requests,
             \/ HandlerWrites(r) \/ DirectTake(r)
             \/ \E k \in Keys \ {probeKey}, n \in 1 .. Rate : DirectFind(r, k, n)
      PROVE  ChainInv'
  BY <1>4, <1>5 DEF HandlerWrites, DirectTake, DirectFind, requestVars
<1>6. CASE \/ ProbeFinds \/ ProbeTakes \/ ProbeResets \/ CleanupRound \/ TimePasses
           \/ \E k \in Keys \ {probeKey} : AppReset(k)
  BY <1>4, <1>6 DEF ProbeFinds, ProbeTakes, ProbeResets, CleanupRound, TimePasses, AppReset,
                    requestVars
<1>7. CASE UNCHANGED vars
  BY <1>4, <1>7 DEF vars, requestVars
<1>8. QED
  BY <1>2, <1>3, <1>5, <1>6, <1>7, ChainStepKeeps DEF Next

\* A request the limiter refused never reaches the handler, although the chain looks
\* at the refusal only once it has a status of the key.
THEOREM RefusedNeverServedAlways == Spec => []RefusedNeverServed
<1>1. ChainInv => RefusedNeverServed
  BY DEF ChainInv, Serving, RefusedNeverServed
<1>2. QED
  BY <1>1, ChainInvInit, ChainInvNext, RequestsTypeCorrect, PTL DEF Spec

-----------------------------------------------------------------------------
\* The answers a client can have been sent, in the order they were written.
Answers == {<<>>, <<200>>, <<408>>, <<200, 408>>, <<408, 200>>}

\* A request is answered while it is served or its log entry is due, and what is
\* logged is the last of what was sent by then.  (A stage, what was sent, the
\* handler and what is logged.)
Consistent(st, se, ha, lo) ==
  /\ st \in Stages /\ se \in Answers
  /\ ha \in {"none", "running", "done"} /\ lo \in {0, 200, 408}
  /\ st \in {"idle", "take", "status"} => ha = "none" /\ se = <<>>
  /\ st = "serve" => se \in {<<>>, <<200>>}
  /\ st = "done" => ha = "none"
  /\ lo # 0 => st = "done" /\ lo = IF se = <<>> THEN 200 ELSE se[Len(se)]

AnswerInv ==
  /\ stage \in [Requests -> Stages]
  /\ sent \in [Requests -> Answers]
  /\ handler \in [Requests -> {"none", "running", "done"}]
  /\ logged \in [Requests -> {0, 200, 408}]
  /\ \A r \in Requests : Consistent(stage[r], sent[r], handler[r], logged[r])

\* A step that changes what is seen of one request only.
Becomes(r, st, se, ha, lo) ==
  /\ stage' = [stage EXCEPT ![r] = st] /\ sent' = [sent EXCEPT ![r] = se]
  /\ handler' = [handler EXCEPT ![r] = ha] /\ logged' = [logged EXCEPT ![r] = lo]

LEMMA TwoAnswers ==
  ASSUME NEW a \in Nat, NEW b \in Nat
  PROVE  Append(<<a>>, b) = <<a, b>>
<1>1. <<a>> \in Seq(Nat) /\ <<a, b>> \in Seq(Nat) /\ Len(<<a>>) = 1 /\ Len(<<a, b>>) = 2
  OBVIOUS
<1>2. /\ Append(<<a>>, b) \in Seq(Nat) /\ Len(Append(<<a>>, b)) = 2
      /\ Append(<<a>>, b)[1] = a /\ Append(<<a>>, b)[2] = b
  BY <1>1, AppendProperties
<1>3. \A i \in 1 .. 2 : Append(<<a>>, b)[i] = <<a, b>>[i]
  BY <1>2
<1>4. QED
  BY <1>1, <1>2, <1>3, SeqEqual

\* What can be written after what.
LEMMA AnswersGrow ==
  ASSUME NEW s \in Answers
  PROVE  /\ 200 \notin Range(s) => Append(s, 200) \in Answers
         /\ s = <<>> => Append(s, 200) = <<200>>
         /\ s \in {<<>>, <<200>>} => Append(s, 408) \in Answers
         /\ (IF s = <<>> THEN 200 ELSE s[Len(s)]) \in {200, 408}
<1>1. CASE s = <<>>
  <2>1. Append(s, 200) = <<200>> /\ Append(s, 408) = <<408>>
    BY <1>1
  <2>2. QED
    BY <1>1, <2>1 DEF Answers
<1>2. CASE s = <<200>> \/ s = <<408, 200>> \/ s = <<200, 408>>
  <2>1. 200 \in Range(s) /\ s # <<>>
    <3>1. PICK i \in DOMAIN s : s[i] = 200
      BY <1>2
    <3>2. QED
      BY <1>2, <3>1 DEF Range
  <2>2. s = <<200>> => Append(s, 408) = <<200, 408>>
    BY TwoAnswers
  <2>3. s[Len(s)] \in {200, 408}
    BY <1>2
  <2>4. s \in {<<>>, <<200>>} => s = <<200>>
    BY <2>1
  <2>5. QED
    BY <2>1, <2>2, <2>3, <2>4 DEF Answers
<1>3. CASE s = <<408>>
  <2>1. Append(s, 200) = <<408, 200>>
    BY <1>3, TwoAnswers
  <2>2. s # <<>> /\ s # <<200>> /\ s[Len(s)] = 408
    <3>1. s[1] = 408 /\ Len(s) = 1
      BY <1>3
    <3>2. QED
      BY <3>1
  <2>3. QED
    BY <2>1, <2>2 DEF Answers
<1>4. QED
  BY <1>1, <1>2, <1>3 DEF Answers

\* The last answer is the first, unless there are two.
LEMMA LastAnswer ==
  ASSUME NEW s \in Answers, NEW c, c = IF s = <<>> THEN 200 ELSE s[Len(s)]
  PROVE  \/ s = <<>> /\ c = 200
         \/ s # <<>> /\ c = Head(s)
         \/ Len(s) = 2 /\ Range(s) = {200, 408} /\ c = s[2]
<1>1. CASE s \in {<<>>, <<200>>, <<408>>}
  BY <1>1
<1>2. CASE s = <<200, 408>> \/ s = <<408, 200>>
  <2>1. Len(s) = 2 /\ c = s[2] /\ DOMAIN s = {1, 2}
    BY <1>2
  <2>2. Range(s) = {s[1], s[2]}
    BY <2>1 DEF Range
  <2>3. QED
    BY <1>2, <2>1, <2>2
<1>3. QED
  BY <1>1, <1>2 DEF Answers

LEMMA OneRequest ==
  ASSUME AnswerInv, NEW r \in Requests, NEW st, NEW se, NEW ha, NEW lo,
         Becomes(r, st, se, ha, lo), Consistent(st, se, ha, lo)
  PROVE  AnswerInv'
<1>1. /\ st \in Stages /\ se \in Answers
      /\ ha \in {"none", "running", "done"} /\ lo \in {0, 200, 408}
  BY DEF Consistent
<1>2. /\ stage' \in [Requests -> Stages]
      /\ sent' \in [Requests -> Answers]
      /\ handler' \in [Requests -> {"none", "running", "done"}]
      /\ logged' \in [Requests -> {0, 200, 408}]
  BY <1>1 DEF AnswerInv, Becomes
<1>3. /\ stage'[r] = st /\ sent'[r] = se /\ handler'[r] = ha /\ logged'[r] = lo
      /\ \A q \in Requests \ {r} : /\ stage'[q] = stage[q] /\ sent'[q] = sent[q]
                                   /\ handler'[q] = handler[q] /\ logged'[q] = logged[q]
  BY DEF AnswerInv, Becomes
<1>4. \A q \in Requests : Consistent(stage'[q], sent'[q], handler'[q], logged'[q])
  BY <1>3 DEF AnswerInv
<1>5. QED
  BY <1>2, <1>4 DEF AnswerInv

LEMMA AnswerInvInit == Init => AnswerInv
BY DEF Init, AnswerInv, Consistent, Stages, Answers

LEMMA AnswerStep ==
  ASSUME AnswerInv, NEW r \in Requests,
         ChainStep(r) \/ HandlerWrites(r) \/ HandlerEnds(r) \/ \E in \in Inputs : Arrive(r, in)
  PROVE  AnswerInv'
<1> DEFINE st == stage[r]
           se == sent[r]
           ha == handler[r]
           lo == logged[r]
<1>1. Consistent(st, se, ha, lo) /\ se \in Answers
  BY DEF AnswerInv
<1>2. /\ stage = [stage EXCEPT ![r] = st] /\ sent = [sent EXCEPT ![r] = se]
      /\ handler = [handler EXCEPT ![r] = ha] /\ logged = [logged EXCEPT ![r] = lo]
  BY DEF AnswerInv
<1>3. ASSUME NEW in \in Inputs, Arrive(r, in) PROVE AnswerInv'
  <2>1. PICK s \in {"done", "take"} : stage' = [stage EXCEPT ![r] = s]
    BY <1>3 DEF Arrive, Allow, Go
  <2>2. st = "idle" /\ Becomes(r, s, se, ha, lo)
    BY <1>2, <1>3, <2>1 DEF Arrive, Becomes
  <2>3. Consistent(s, se, ha, lo)
    BY <1>1, <2>2 DEF Consistent, Stages
  <2>4. QED
    BY <2>2, <2>3, OneRequest
<1>4. CASE Taken(r)
  <2>1. st = "take" /\ Becomes(r, "status", se, ha, lo)
    BY <1>2, <1>4 DEF Taken, Go, Becomes
  <2>2. Consistent("status", se, ha, lo)
    BY <1>1, <2>1 DEF Consistent, Stages
  <2>3. QED
    BY <2>1, <2>2, OneRequest
<1>5. CASE RateLimit(r)
  <2>1. /\ st = "status"
        /\ Becomes(r, "done", se, ha, lo) \/ Becomes(r, "serve", se, "running", lo)
    BY <1>2, <1>5 DEF RateLimit, Go, Becomes
  <2>2. Consistent("done", se, ha, lo) /\ Consistent("serve", se, "running", lo)
    BY <1>1, <2>1 DEF Consistent, Stages
  <2>3. QED
    BY <2>1, <2>2, OneRequest
<1>6. CASE Timeout(r)
  <2>1. /\ st = "serve"
        /\ Becomes(r, "log", se, ha, lo) \/ Becomes(r, "log", Append(se, 408), ha, lo)
    BY <1>2, <1>6 DEF Timeout, Go, Write, Becomes
  <2>2. se \in {<<>>, <<200>>} /\ lo = 0
    BY <1>1, <2>1 DEF Consistent
  <2>3. Append(se, 408) \in Answers
    BY <1>1, <2>2, AnswersGrow
  <2>4. Consistent("log", se, ha, lo) /\ Consistent("log", Append(se, 408), ha, lo)
    BY <1>1, <2>2, <2>3 DEF Consistent, Stages
  <2>5. QED
    BY <2>1, <2>4, OneRequest
<1>7. CASE RequestLogging(r)
  <2>1. Becomes(r, "done", se, "none", StatusCode(r))
    BY <1>2, <1>7 DEF RequestLogging, Go, Becomes
  <2>2. /\ StatusCode(r) \in {0, 200, 408}
        /\ StatusCode(r) = IF se = <<>> THEN 200 ELSE se[Len(se)]
    BY <1>1, AnswersGrow DEF StatusCode
  <2>3. Consistent("done", se, "none", StatusCode(r))
    BY <1>1, <2>2 DEF Consistent, Stages
  <2>4. QED
    BY <2>1, <2>3, OneRequest
<1>8. CASE Recycle(r)
  <2>1. st = "done" /\ Becomes(r, "idle", <<>>, ha, 0)
    BY <1>2, <1>8 DEF Recycle, Go, Becomes
  <2>2. Consistent("idle", <<>>, ha, 0)
    BY <1>1, <2>1 DEF Consistent, Stages, Answers
  <2>3. QED
    BY <2>1, <2>2, OneRequest
<1>9. CASE HandlerWrites(r)
  <2>1. /\ ha = "running" /\ 200 \notin Range(se)
        /\ Becomes(r, st, Append(se, 200), ha, lo)
    BY <1>2, <1>9 DEF HandlerWrites, Write, Becomes
  <2>2. /\ st \in {"serve", "log"} /\ lo = 0
        /\ st = "serve" => se \in {<<>>, <<200>>}
    BY <1>1, <2>1 DEF Consistent, Stages
  <2>3. st = "serve" => se = <<>>
    BY <2>1, <2>2 DEF Range
  <2>4. Append(se, 200) \in Answers /\ (st = "serve" => Append(se, 200) = <<200>>)
    BY <1>1, <2>1, <2>3, AnswersGrow
  <2>5. Consistent(st, Append(se, 200), ha, lo)
    BY <1>1, <2>2, <2>4 DEF Consistent
  <2>6. QED
    BY <2>1, <2>5, OneRequest
<1>10. CASE HandlerEnds(r)
  <2>1. ha = "running" /\ Becomes(r, st, se, "done", lo)
    BY <1>2, <1>10 DEF HandlerEnds, Becomes
  <2>2. Consistent(st, se, "done", lo)
    BY <1>1, <2>1 DEF Consistent, Stages
  <2>3. QED
    BY <2>1, <2>2, OneRequest
<1>11. QED
  BY <1>3, <1>4, <1>5, <1>6, <1>7, <1>8, <1>9, <1>10 DEF ChainStep

LEMMA AnswerInvNext == AnswerInv /\ [Next]_vars => AnswerInv'
<1> SUFFICES ASSUME AnswerInv, [Next]_vars PROVE AnswerInv'
  OBVIOUS
<1>1. ASSUME UNCHANGED requestVars PROVE AnswerInv'
  BY <1>1 DEF requestVars, AnswerInv
<1>2. ASSUME NEW r \in Requests,
             DirectTake(r) \/ \E k \in Keys \ {probeKey}, n \in 1 .. Rate : DirectFind(r, k, n)
      PROVE  AnswerInv'
  BY <1>1, <1>2 DEF DirectTake, DirectFind
<1>3. CASE \/ ProbeFinds \/ ProbeTakes \/ ProbeResets \/ CleanupRound \/ TimePasses
           \/ \E k \in Keys \ {probeKey} : AppReset(k)
  BY <1>1, <1>3 DEF ProbeFinds, ProbeTakes, ProbeResets, CleanupRound, TimePasses, AppReset
<1>4. CASE UNCHANGED vars
  BY <1>1, <1>4 DEF vars
<1>5. QED
  BY <1>2, <1>3, <1>4, AnswerStep DEF Next

\* The log entry of a request names the first status its client was sent, unless the
\* handler and the deadline both wrote one.
THEOREM LogAlwaysTells == Spec => []LogTellsAllButTheRace
<1>1. AnswerInv => LogTellsAllButTheRace
  <2> SUFFICES ASSUME AnswerInv, NEW r \in Requests, logged[r] # 0
               PROVE  \/ sent[r] = <<>> /\ logged[r] = 200
                      \/ sent[r] # <<>> /\ logged[r] = Head(sent[r])
                      \/ Len(sent[r]) = 2 /\ Range(sent[r]) = {200, 408} /\ logged[r] = sent[r][2]
    BY DEF LogTellsAllButTheRace
  <2>1. sent[r] \in Answers /\ logged[r] = IF sent[r] = <<>> THEN 200 ELSE sent[r][Len(sent[r])]
    BY DEF AnswerInv, Consistent
  <2>2. QED
    BY <2>1, LastAnswer
<1>2. QED
  BY <1>1, AnswerInvInit, AnswerInvNext, PTL DEF Spec

-----------------------------------------------------------------------------
\* Calls that hold the same entry found it for the same key.
OneKey ==
  \A p, q \in Procs : call[p].cell = call[q].cell /\ call[p].cell # NoCell
                        => call[p].key = call[q].key

\* Nobody but the health check uses its key.
NoIntruder == \A p \in Procs \ {probe} : call[p].at = "take" => call[p].key # probeKey

\* Nothing has been taken from what the health check holds.
Fresh ==
  IF kind = "bucket" THEN cells[call[probe].cell].tokens = BurstSize
                     ELSE cells[call[probe].cell].hits = NoHits

\* A health check that is under way is alone with an entry nobody has used; when
\* none is, its key has no entry.
ProbeInv ==
  /\ check \in [at : {"idle", "take", "reset"}, result : {"none", "healthy", "unhealthy"}]
  /\ OneKey /\ NoIntruder
  /\ check.at = "idle" => entry[probeKey] = NoCell
  /\ call[probe].at = IF check.at = "take" THEN "take" ELSE "rest"
  /\ check.at = "take" => call[probe].key = probeKey /\ call[probe].n = 1 /\ Fresh

\* What a step of the others leaves to the health check.
Undisturbed ==
  /\ OneKey' /\ NoIntruder'
  /\ call'[probe] = call[probe]
  /\ entry[probeKey] = NoCell => entry'[probeKey] = NoCell
  /\ call[probe].at = "take" /\ Fresh => Fresh'

LEMMA UndisturbedKeeps ==
  ASSUME ProbeInv, Undisturbed, check' = check
  PROVE  ProbeInv'
BY DEF ProbeInv, Undisturbed

\* Finding an entry: no other call has it for another key.
LEMMA FindOneKey ==
  ASSUME Shape, OneKey, NEW p \in Procs, NEW k \in Keys, NEW n, NEW new, Find(p, k, n, new)
  PROVE  /\ OneKey'
         /\ call'[p].key = k /\ call'[p].n = n /\ call'[p].at = "take"
         /\ call'[p].cell = entry'[k]
         /\ \A q \in Procs \ {p} : call'[q] = call[q]
         /\ \A j \in Keys \ {k} : entry'[j] = entry[j]
         /\ \A q \in Procs : call[q].cell \in Cells => cells'[call[q].cell] = cells[call[q].cell]
         /\ k \notin Tracked => entry'[k] \in Cells /\ cells'[entry'[k]] = new
<1> DEFINE c == IF k \in Tracked THEN entry[k] ELSE NextFree
<1>1. k \notin Tracked => c \in Cells /\ Free(c)
  <2>1. k \notin Tracked => \E f \in Cells : Free(f)
    BY DEF Find
  <2>2. QED
    BY <2>1 DEF NextFree
<1>2. k \in Tracked => c = entry[k] /\ entry[k] # NoCell
  BY DEF Tracked
<1>3. /\ entry' = [entry EXCEPT ![k] = c]
      /\ cells' = IF k \in Tracked THEN cells ELSE [cells EXCEPT ![c] = new]
      /\ call' = [call EXCEPT ![p] = [at |-> "take", key |-> k, n |-> n, cell |-> c]]
  BY DEF Find
<1> HIDE DEF c
<1>4. /\ call'[p] = [at |-> "take", key |-> k, n |-> n, cell |-> c]
      /\ \A q \in Procs \ {p} : call'[q] = call[q]
      /\ entry'[k] = c /\ \A j \in Keys \ {k} : entry'[j] = entry[j]
  BY <1>3 DEF Shape, LimiterTypeOK
<1>5. \A q \in Procs \ {p} : call[q].cell = c /\ c # NoCell => call[q].key = k
  <2>1. CASE k \in Tracked
    BY <1>2, <2>1 DEF Shape, Owned
  <2>2. CASE k \notin Tracked
    BY <1>1, <2>2 DEF Free
  <2>3. QED
    BY <2>1, <2>2
<1>6. OneKey'
  BY <1>4, <1>5 DEF OneKey
<1>7. ASSUME NEW q \in Procs, call[q].cell \in Cells
      PROVE  cells'[call[q].cell] = cells[call[q].cell]
  BY <1>1, <1>3, <1>7 DEF Free, Shape, LimiterTypeOK
<1>8. k \notin Tracked => entry'[k] \in Cells /\ cells'[entry'[k]] = new
  BY <1>1, <1>3, <1>4 DEF Shape, LimiterTypeOK
<1>9. QED
  BY <1>4, <1>6, <1>7, <1>8

LEMMA FindUndisturbed ==
  ASSUME Shape, ProbeInv, NEW p \in Procs \ {probe}, NEW k \in Keys \ {probeKey}, NEW n,
         FindBucket(p, k, n) \/ FindWindow(p, k, n)
  PROVE  Undisturbed
<1>1. /\ kind' = kind
      /\ \/ Find(p, k, n, NewBucket)
         \/ Find(p, k, n, Blank)
  BY DEF FindBucket, FindWindow, Find
<1>2. /\ OneKey'
      /\ call'[p].key = k
      /\ \A q \in Procs \ {p} : call'[q] = call[q]
      /\ \A j \in Keys \ {k} : entry'[j] = entry[j]
      /\ \A q \in Procs : call[q].cell \in Cells => cells'[call[q].cell] = cells[call[q].cell]
  BY <1>1, FindOneKey DEF ProbeInv
<1>3. probe \in Procs /\ probeKey \in Keys
  BY Goroutines, RequestAssumption
<1>4. NoIntruder'
  BY <1>2 DEF ProbeInv, NoIntruder
<1>5. call[probe].at = "take" => call[probe].cell \in Cells
  BY <1>3 DEF Shape, Held
<1>6. QED
  BY <1>1, <1>2, <1>3, <1>4, <1>5 DEF Undisturbed, Fresh

\* A call of another key writes to another entry.
LEMMA TakeUndisturbed ==
  ASSUME Shape, ProbeInv, NEW p \in Procs \ {probe}, TakeTokens(p) \/ RecordRequests(p)
  PROVE  Undisturbed
<1>1. /\ kind' = kind /\ entry' = entry /\ Hangup(p) /\ call[p].at = "take"
      /\ probe \in Procs
  BY Goroutines DEF TakeTokens, RecordRequests
<1>2. /\ call'[p].at = "rest" /\ call'[p].cell = NoCell
      /\ \A q \in Procs \ {p} : call'[q] = call[q]
  BY <1>1 DEF Hangup, Shape, LimiterTypeOK, Resting
<1>3. OneKey' /\ NoIntruder'
  BY <1>2 DEF ProbeInv, OneKey, NoIntruder
<1>4. ASSUME call[probe].at = "take", Fresh PROVE Fresh'
  <2>1. /\ call[probe].cell \in Cells /\ call[probe].key = probeKey
        /\ call[p].cell \in Cells /\ call[p].cell # NoCell /\ call[p].key # probeKey
    BY <1>1, <1>4, LimiterAssumption DEF Shape, Held, ProbeInv, NoIntruder
  <2>2. call[probe].cell # call[p].cell
    BY <1>1, <2>1 DEF ProbeInv, OneKey
  <2>3. \A c \in Cells : c = call'[probe].cell => ~Free(c)'
    BY <1>1 DEF Free
  <2>4. cells'[call[probe].cell] = cells[call[probe].cell]
    BY <1>1, <1>2, <2>1, <2>2, <2>3 DEF TakeTokens, RecordRequests, Collected, Shape, LimiterTypeOK
  <2>5. QED
    BY <1>1, <1>2, <1>4, <2>4 DEF Fresh
<1>5. QED
  BY <1>1, <1>2, <1>3, <1>4 DEF Undisturbed

\* The clean-up, a Reset of another key and time leave the entry fresh, even when
\* they take it out of the map.
LEMMA OthersUndisturbed ==
  ASSUME Shape, ProbeInv,
         Cleanup \/ Tick \/ UNCHANGED limiterVars \/ \E k \in Keys \ {probeKey} : Reset(k)
  PROVE  Undisturbed
<1>1. /\ kind' = kind /\ call' = call /\ probe \in Procs /\ probeKey \in Keys
  BY Goroutines, RequestAssumption DEF Cleanup, Tick, Reset, limiterVars
<1>2. OneKey' /\ NoIntruder'
  BY <1>1 DEF ProbeInv, OneKey, NoIntruder
<1>3. entry[probeKey] = NoCell => entry'[probeKey] = NoCell
  BY <1>1 DEF Cleanup, Tick, Reset, limiterVars, Shape, LimiterTypeOK
<1>4. ASSUME call[probe].at = "take", Fresh PROVE Fresh'
  <2>1. call[probe].cell \in Cells /\ ~Free(call[probe].cell)
    BY <1>1, <1>4 DEF Shape, Held, Free
  <2>2. \A c \in Cells : c = call'[probe].cell => ~Free(c)'
    BY <1>1 DEF Free
  <2>3. CASE Cleanup \/ UNCHANGED limiterVars \/ \E k \in Keys \ {probeKey} : Reset(k)
    <3>1. cells'[call[probe].cell] = cells[call[probe].cell]
      BY <1>1, <2>1, <2>2, <2>3 DEF Cleanup, Reset, Collected, limiterVars
    <3>2. QED
      BY <1>1, <1>4, <3>1 DEF Fresh
  <2>4. CASE Tick
    <3>1. cells[call[probe].cell] \in Buckets
      BY <2>1 DEF Shape, LimiterTypeOK, Buckets
    <3>2. CASE kind = "bucket"
      <4>1. cells'[call[probe].cell].tokens = cells[call[probe].cell].tokens
        BY <2>1, <2>4, <3>1, <3>2 DEF Tick, Buckets
      <4>2. QED
        BY <1>1, <1>4, <3>2, <4>1 DEF Fresh
    <3>3. CASE kind # "bucket"
      <4>1. cells'[call[probe].cell].hits = Older(cells[call[probe].cell].hits)
        BY <2>1, <2>4, <3>1, <3>3 DEF Tick, Buckets
      <4>2. QED
        BY <1>1, <1>4, <3>3, <4>1, NoHitsWithinRate DEF Fresh
    <3>4. QED
      BY <3>2, <3>3
  <2>5. QED
    BY <2>3, <2>4
<1>5. QED
  BY <1>1, <1>2, <1>3, <1>4 DEF Undisturbed

-----------------------------------------------------------------------------
LEMMA ProbeInvInit == Init => ProbeInv
<1> SUFFICES ASSUME Init PROVE ProbeInv
  OBVIOUS
<1>1. \A p \in Procs : call[p].at = "rest" /\ call[p].cell = NoCell
  BY DEF Init, LimiterInit, Resting
<1>2. entry[probeKey] = NoCell /\ probe \in Procs
  BY Goroutines, RequestAssumption DEF Init, LimiterInit
<1>3. check = [at |-> "idle", result |-> "none"]
  BY DEF Init
<1>4. QED
  BY <1>1, <1>2, <1>3 DEF ProbeInv, OneKey, NoIntruder

\* What the health check takes from a fresh entry is granted.
LEMMA FreshGrants ==
  ASSUME Shape, ProbeInv, check.at = "take"
  PROVE  Grants(probe)
<1>1. /\ call[probe].cell \in Cells /\ call[probe].n = 1 /\ Fresh
      /\ cells[call[probe].cell] \in Buckets
  BY Goroutines DEF ProbeInv, Shape, Held, LimiterTypeOK, Buckets
<1>2. CASE kind = "bucket"
  <2>1. Refilled(cells[call[probe].cell]) >= 1
    BY <1>1, <1>2, RefillBounds, Bounds DEF Fresh, Refilled, Least
  <2>2. QED
    BY <1>1, <1>2, <2>1 DEF Grants
<1>3. CASE kind # "bucket"
  <2>1. ValidCount(cells[call[probe].cell].hits) = 0
    BY <1>1, <1>3, RecentAges DEF Fresh, ValidCount, NoHits
  <2>2. QED
    BY <1>1, <1>3, <2>1, RecentAges DEF Grants
<1>4. QED
  BY <1>2, <1>3

\* The steps of the health check itself.
LEMMA ProbeStepKeeps ==
  ASSUME Shape, ProbeInv, ProbeFinds \/ ProbeTakes \/ ProbeResets
  PROVE  ProbeInv'
<1>1. probe \in Procs /\ probeKey \in Keys
  BY Goroutines, RequestAssumption
<1>2. CASE ProbeFinds
  <2>1. check.at = "idle" /\ entry[probeKey] = NoCell /\ probeKey \notin Tracked
    BY <1>2 DEF ProbeFinds, ProbeInv, Tracked
  <2>2. CASE AtCapacity(probeKey)
    <3>1. check' = [check EXCEPT !.result = "unhealthy"] /\ UNCHANGED limiterVars
      BY <1>2, <2>2 DEF ProbeFinds
    <3>2. Undisturbed
      BY <3>1, OthersUndisturbed
    <3>3. /\ check' \in [at : {"idle", "take", "reset"}, result : {"none", "healthy", "unhealthy"}]
          /\ check'.at = check.at
      BY <3>1 DEF ProbeInv
    <3>4. QED
      BY <2>1, <3>2, <3>3 DEF ProbeInv, Undisturbed
  <2>3. CASE ~AtCapacity(probeKey)
    <3>1. /\ kind' = kind /\ check' = [at |-> "take", result |-> "none"]
          /\ \/ kind = "bucket" /\ Find(probe, probeKey, 1, NewBucket)
             \/ kind = "window" /\ Find(probe, probeKey, 1, Blank)
      BY <1>2, <2>3 DEF ProbeFinds, FindBucket, FindWindow, Find
    <3>2. /\ OneKey'
          /\ call'[probe].key = probeKey /\ call'[probe].n = 1 /\ call'[probe].at = "take"
          /\ call'[probe].cell = entry'[probeKey]
          /\ \A q \in Procs \ {probe} : call'[q] = call[q]
          /\ cells'[entry'[probeKey]] = IF kind = "bucket" THEN NewBucket ELSE Blank
      BY <1>1, <2>1, <3>1, FindOneKey DEF ProbeInv
    <3>3. Fresh'
      BY <3>1, <3>2 DEF Fresh, NewBucket, Blank
    <3>4. NoIntruder'
      BY <3>2 DEF ProbeInv, NoIntruder
    <3>5. QED
      BY <3>1, <3>2, <3>3, <3>4 DEF ProbeInv
  <2>4. QED
    BY <2>2, <2>3
<1>3. CASE ProbeTakes
  <2>1. /\ Hangup(probe) /\ entry' = entry
        /\ check' = [at |-> "reset", result |-> "healthy"]
    BY <1>3, FreshGrants DEF ProbeTakes, TakeTokens, RecordRequests
  <2>2. /\ call'[probe].at = "rest" /\ call'[probe].cell = NoCell
        /\ \A q \in Procs \ {probe} : call'[q] = call[q]
    BY <1>1, <2>1 DEF Hangup, Shape, LimiterTypeOK, Resting
  <2>3. OneKey' /\ NoIntruder'
    BY <2>2 DEF ProbeInv, OneKey, NoIntruder
  <2>4. QED
    BY <2>1, <2>2, <2>3 DEF ProbeInv
<1>4. CASE ProbeResets
  <2>1. /\ check.at = "reset" /\ check' = [check EXCEPT !.at = "idle"]
        /\ entry'[probeKey] = NoCell /\ call' = call
    BY <1>1, <1>4 DEF ProbeResets, Reset, Shape, LimiterTypeOK
  <2>2. /\ check' \in [at : {"idle", "take", "reset"}, result : {"none", "healthy", "unhealthy"}]
        /\ check'.at = "idle"
    BY <2>1 DEF ProbeInv
  <2>3. OneKey' /\ NoIntruder'
    BY <2>1 DEF ProbeInv, OneKey, NoIntruder
  <2>4. QED
    BY <2>1, <2>2, <2>3 DEF ProbeInv
<1>5. QED
  BY <1>2, <1>3, <1>4

LEMMA ProbeInvNext == Shape /\ ProbeInv /\ [Next]_vars => ProbeInv'
<1> SUFFICES ASSUME Shape, ProbeInv, [Next]_vars PROVE ProbeInv'
  OBVIOUS
<1>1. Requests \subseteq Procs \ {probe}
  BY RequestAssumption
<1>2. ASSUME NEW r \in Requests, NEW in \in Inputs, Arrive(r, in) PROVE ProbeInv'
  <2>1. check' = check /\ RateLimitKey(in) \in Keys \ {probeKey}
    BY <1>2, InputAssumption DEF Arrive
  <2>2. UNCHANGED limiterVars \/ FindBucket(r, RateLimitKey(in), 1)
    BY <1>2 DEF Arrive, Allow
  <2>3. QED
    BY <1>1, <2>1, <2>2, FindUndisturbed, OthersUndisturbed, UndisturbedKeeps
<1>3. ASSUME NEW r \in Requests, ChainStep(r) \/ HandlerWrites(r) \/ HandlerEnds(r)
      PROVE  ProbeInv'
  <2>1. /\ check' = check
        /\ TakeTokens(r) \/ UNCHANGED limiterVars
    BY <1>3 DEF ChainStep, Taken, RateLimit, Timeout, RequestLogging, Recycle, HandlerWrites,
                HandlerEnds
  <2>2. QED
    BY <1>1, <2>1, TakeUndisturbed, OthersUndisturbed, UndisturbedKeeps
<1>4. ASSUME NEW r \in Requests, NEW k \in Keys \ {probeKey}, NEW n \in 1 .. Rate,
             DirectFind(r, k, n)
      PROVE  ProbeInv'
  BY <1>1, <1>4, FindUndisturbed, UndisturbedKeeps DEF DirectFind
<1>5. ASSUME NEW r \in Requests, DirectTake(r) PROVE ProbeInv'
  BY <1>1, <1>5, TakeUndisturbed, UndisturbedKeeps DEF DirectTake
<1>6. CASE \/ CleanupRound \/ TimePasses \/ UNCHANGED vars
           \/ \E k \in Keys \ {probeKey} : AppReset(k)
  BY <1>6, OthersUndisturbed, UndisturbedKeeps DEF CleanupRound, TimePasses, vars, AppReset
<1>7. CASE ProbeFinds \/ ProbeTakes \/ ProbeResets
  BY <1>7, ProbeStepKeeps
<1>8. QED
  BY <1>2, <1>3, <1>4, <1>5, <1>6, <1>7 DEF Next

\* Whatever requests, resets and clean-ups overlap with it, a health check gives its
\* entry back and never takes the limiter for one that is limiting.
THEOREM ProbeAlwaysLeavesNoTrace == Spec => []ProbeLeavesNoTrace
<1>1. ProbeInv => ProbeLeavesNoTrace
  BY DEF ProbeInv, ProbeLeavesNoTrace, Tracked
<1>2. LimiterInv => Shape
  BY DEF LimiterInv
<1>3. QED
  BY <1>1, <1>2, ProbeInvInit, ProbeInvNext, LimiterInvariant, PTL DEF Spec
=============================================================================
