---------------------------- MODULE SlackService ----------------------------
(***************************************************************************)
(* The send path of slack/service.go with the circuit breaker and the      *)
(* token bucket it goes through, and Shutdown.                             *)
(*                                                                         *)
(* Senders are the goroutines that call SendWithContext or                 *)
(* SendRichMessage, whose control is the same.  One send checks the        *)
(* shutdown flag, joins the wait group, takes a token, and makes up to     *)
(* MaxRetries + 1 requests, each admitted and then recorded by the         *)
(* breaker; each of these is a locked section of its own.                  *)
(*                                                                         *)
(* Data abstractions.  Messages, logging and the metrics (which only       *)
(* report) are left out.  The bucket's elapsed * rate arrives as whole     *)
(* tokens.  The failure count is only compared with maxFailures and        *)
(* saturates there; lastFailTime is kept as the ticks left until           *)
(* time.Since(lastFailTime) > timeout.  The back-off delay is any time.    *)
(***************************************************************************)
EXTENDS Integers, FiniteSets

CONSTANTS
  Senders,
  MaxRetries,       \* cfg.MaxRetries
  RateBurst,        \* cfg.RateBurst
  MaxFailures,      \* cfg.CircuitThreshold
  CircuitTimeout,   \* cfg.CircuitTimeout, in ticks
  MaxRequests       \* cfg.CircuitMaxRequests

\* validateConfig checks the first two; the others hold of the defaults.
ASSUME SlackAssumption ==
  /\ MaxRetries \in Nat
  /\ MaxFailures \in Nat \ {0}
  /\ IsFiniteSet(Senders)
  /\ RateBurst \in Nat \ {0}
  /\ CircuitTimeout \in Nat \ {0}
  /\ MaxRequests \in Nat \ {0}

VARIABLES
  pc, attempt,      \* where each sender is, and which attempt it makes
  tokens,           \* TokenBucketLimiter.tokens
  circuit, failures, successCount,   \* CircuitBreaker
  openFor,          \* lastFailTime + timeout, as ticks still to pass
  isShuttingDown,
  wg,               \* the counter of the wait group
  stopper,          \* the goroutine that runs Shutdown
  slack             \* external: whether requests succeed; "down" also stands
                    \* for the timeout or the cancelled context of a request

vars == <<pc, attempt, tokens, circuit, failures, successCount, openFor,
          isShuttingDown, wg, stopper, slack>>

breaker == <<circuit, failures, successCount, openFor>>
closing == <<isShuttingDown, stopper>>

PCs == {"idle", "checked", "validate", "limit", "allow", "upgrade",
        "request", "backoff", "done"}

Goto(w, l) == pc' = [pc EXCEPT ![w] = l]
At(w, l) == pc[w] = l

\* Senders between wg.Add(1) and the deferred wg.Done().
Tracked == {w \in Senders : pc[w] \notin {"idle", "checked"}}

Min2(a, b) == IF a < b THEN a ELSE b
Less1(n) == IF n = 0 THEN 0 ELSE n - 1

-----------------------------------------------------------------------------
Init ==
  /\ pc = [w \in Senders |-> "idle"]
  /\ attempt = [w \in Senders |-> 0]
  /\ tokens = RateBurst
  /\ circuit = "closed"
  /\ failures = 0
  /\ successCount = 0
  /\ openFor = 0
  /\ isShuttingDown = FALSE
  /\ wg = 0
  /\ stopper = "idle"
  /\ slack \in {"up", "down"}

\* Mutant of CheckShutdown: does not look at the flag.
SkipCheck(w) ==
  /\ At(w, "idle")
  /\ Goto(w, "checked")
  /\ UNCHANGED <<attempt, tokens, breaker, closing, wg, slack>>

\* The shutdown check, under the read lock, which is released again.
CheckShutdown(w) ==
  /\ At(w, "idle")
  /\ ~isShuttingDown
  /\ Goto(w, "checked")
  /\ UNCHANGED <<attempt, tokens, breaker, closing, wg, slack>>

Track(w) ==
  /\ At(w, "checked")
  /\ wg' = wg + 1
  /\ Goto(w, "validate")
  /\ UNCHANGED <<attempt, tokens, breaker, closing, slack>>

\* Mutant of Validate: the error path calls wg.Done() as well as the defer.
ValidateDone(w) ==
  /\ At(w, "validate")
  /\ \/ Goto(w, "limit") /\ UNCHANGED wg
     \/ Goto(w, "done") /\ wg' = wg - 1
  /\ UNCHANGED <<attempt, tokens, breaker, closing, slack>>

\* validateInput accepts the message, or the send returns its error.
Validate(w) ==
  /\ At(w, "validate")
  /\ Goto(w, "limit") \/ Goto(w, "done")
  /\ UNCHANGED <<attempt, tokens, breaker, closing, wg, slack>>

\* rateLimiter.Wait gets a token in one of its rounds, ...
TakeToken(w) ==
  /\ At(w, "limit")
  /\ tokens >= 1
  /\ tokens' = tokens - 1
  /\ attempt' = [attempt EXCEPT ![w] = 0]
  /\ Goto(w, "allow")
  /\ UNCHANGED <<breaker, closing, wg, slack>>

\* ... or the caller's context ends the wait, there or before a retry.
ContextDone(w) ==
  /\ pc[w] \in {"limit", "backoff"}
  /\ Goto(w, "done")
  /\ UNCHANGED <<attempt, tokens, breaker, closing, wg, slack>>

\* Mutant of Allow: the comparison with the timeout is the wrong way.
AllowEarly(w) ==
  /\ At(w, "allow")
  /\ Goto(w, IF circuit = "open"
               THEN IF openFor > 0 THEN "upgrade" ELSE "done"
             ELSE IF circuit = "half_open" /\ successCount >= MaxRequests
               THEN "done"
             ELSE "request")
  /\ UNCHANGED <<attempt, tokens, breaker, closing, wg, slack>>

\* Allow, under the read lock.  When the timeout has passed it lets go of the
\* lock before it takes the write lock.  ErrCircuitOpen is not retried.
Allow(w) ==
  /\ At(w, "allow")
  /\ Goto(w, IF circuit = "open"
               THEN IF openFor = 0 THEN "upgrade" ELSE "done"
             ELSE IF circuit = "half_open" /\ successCount >= MaxRequests
               THEN "done"
             ELSE "request")
  /\ UNCHANGED <<attempt, tokens, breaker, closing, wg, slack>>

Upgrade(w) ==
  /\ At(w, "upgrade")
  /\ IF circuit = "open"
       THEN circuit' = "half_open" /\ successCount' = 0
       ELSE UNCHANGED <<circuit, successCount>>
  /\ Goto(w, "request")
  /\ UNCHANGED <<attempt, tokens, failures, openFor, closing, wg, slack>>

\* Mutants of RequestSucceeds: closes one success too late; closes without
\* forgetting the failures.
SucceedsLate(w) ==
  /\ At(w, "request")
  /\ slack = "up"
  /\ successCount' = IF circuit = "half_open" THEN successCount + 1
                     ELSE successCount
  /\ IF circuit = "half_open" /\ successCount' > MaxRequests
       THEN circuit' = "closed" /\ failures' = 0
       ELSE /\ failures' = IF circuit = "closed" THEN 0 ELSE failures
            /\ UNCHANGED circuit
  /\ Goto(w, "done")
  /\ UNCHANGED <<attempt, tokens, openFor, closing, wg, slack>>

SucceedsKeepsFailures(w) ==
  /\ At(w, "request")
  /\ slack = "up"
  /\ successCount' = IF circuit = "half_open" THEN successCount + 1
                     ELSE successCount
  /\ circuit' = IF circuit = "half_open" /\ successCount' >= MaxRequests
                  THEN "closed" ELSE circuit
  /\ failures' = IF circuit = "closed" THEN 0 ELSE failures
  /\ Goto(w, "done")
  /\ UNCHANGED <<attempt, tokens, openFor, closing, wg, slack>>

\* doRequest succeeded and RecordSuccess runs.
RequestSucceeds(w) ==
  /\ At(w, "request")
  /\ slack = "up"
  /\ successCount' = IF circuit = "half_open" THEN successCount + 1
                     ELSE successCount
  /\ IF circuit = "half_open" /\ successCount' >= MaxRequests
       THEN circuit' = "closed" /\ failures' = 0
       ELSE /\ failures' = IF circuit = "closed" THEN 0 ELSE failures
            /\ UNCHANGED circuit
  /\ Goto(w, "done")
  /\ UNCHANGED <<attempt, tokens, openFor, closing, wg, slack>>

\* doRequest failed and RecordFailure runs, in whatever state the circuit is
\* by now; a retryable error leads to another attempt if one is left.
RequestFails(w) ==
  /\ At(w, "request")
  /\ slack = "down"
  /\ failures' = Min2(failures + 1, MaxFailures)
  /\ openFor' = CircuitTimeout
  /\ circuit' = IF circuit = "closed" /\ failures' < MaxFailures
                  THEN "closed" ELSE "open"
  /\ \/ attempt[w] < MaxRetries /\ Goto(w, "backoff")
     \/ Goto(w, "done")
  /\ UNCHANGED <<attempt, tokens, successCount, closing, wg, slack>>

Retry(w) ==
  /\ At(w, "backoff")
  /\ attempt' = [attempt EXCEPT ![w] = @ + 1]
  /\ Goto(w, "allow")
  /\ UNCHANGED <<tokens, breaker, closing, wg, slack>>

\* The deferred wg.Done().
Return(w) ==
  /\ At(w, "done")
  /\ wg' = wg - 1
  /\ attempt' = [attempt EXCEPT ![w] = 0]
  /\ Goto(w, "idle")
  /\ UNCHANGED <<tokens, breaker, closing, slack>>

-----------------------------------------------------------------------------
\* Shutdown raises the flag under the lock, then waits for the wait group.
ShutdownBegins ==
  /\ stopper = "idle"
  /\ isShuttingDown' = TRUE
  /\ stopper' = "waiting"
  /\ UNCHANGED <<pc, attempt, tokens, breaker, wg, slack>>

ShutdownReturns ==
  /\ stopper = "waiting"
  /\ wg = 0
  /\ stopper' = "complete"
  /\ UNCHANGED <<pc, attempt, tokens, breaker, isShuttingDown, wg, slack>>

ShutdownTimesOut ==
  /\ stopper = "waiting"
  /\ stopper' = "timed_out"
  /\ UNCHANGED <<pc, attempt, tokens, breaker, isShuttingDown, wg, slack>>

\* Time earns the bucket tokens and brings the breaker's timeout nearer.
Refill ==
  /\ tokens < RateBurst
  /\ tokens' = tokens + 1
  /\ UNCHANGED <<pc, attempt, breaker, closing, wg, slack>>

Tick ==
  /\ openFor' = Less1(openFor)
  /\ UNCHANGED <<pc, attempt, tokens, circuit, failures, successCount,
                 closing, wg, slack>>

SlackChanges ==
  /\ slack' \in {"up", "down"} \ {slack}
  /\ UNCHANGED <<pc, attempt, tokens, breaker, closing, wg>>

\* The steps of a send that its goroutine takes when it is scheduled.
SendStep(w) ==
  \/ Track(w) \/ Validate(w) \/ Allow(w) \/ Upgrade(w)
  \/ RequestSucceeds(w) \/ RequestFails(w) \/ Retry(w) \/ Return(w)

Next ==
  \/ \E w \in Senders :
       CheckShutdown(w) \/ TakeToken(w) \/ ContextDone(w) \/ SendStep(w)
  \/ ShutdownBegins \/ ShutdownReturns \/ ShutdownTimesOut
  \/ Refill \/ Tick \/ SlackChanges

Spec == Init /\ [][Next]_vars

\* Goroutines are scheduled, time passes, the HTTP client's timeout ends every
\* request, the application keeps sending valid messages, and a Wait that finds
\* a token again and again does not always give up first.
Fairness ==
  /\ \A w \in Senders :
       /\ WF_vars(CheckShutdown(w))
       /\ WF_vars(SendStep(w))
       /\ SF_vars(Validate(w) /\ Goto(w, "limit"))
       /\ SF_vars(TakeToken(w))
  /\ WF_vars(ShutdownReturns)
  /\ WF_vars(Refill) /\ WF_vars(Tick)

FairSpec == Spec /\ Fairness

-----------------------------------------------------------------------------
TypeOK ==
  /\ pc \in [Senders -> PCs]
  /\ attempt \in [Senders -> 0 .. MaxRetries]
  /\ tokens \in 0 .. RateBurst
  /\ circuit \in {"closed", "open", "half_open"}
  /\ failures \in 0 .. MaxFailures
  /\ successCount \in 0 .. MaxRequests
  /\ openFor \in 0 .. CircuitTimeout
  /\ isShuttingDown \in BOOLEAN
  /\ wg \in 0 .. Cardinality(Senders)
  /\ stopper \in {"idle", "waiting", "complete", "timed_out"}
  /\ slack \in {"up", "down"}

\* A half-open circuit always still needs successes, so Allow's refusal in
\* that state never applies and the circuit cannot be stuck half-open.  Results
\* of requests admitted in earlier states count, and must not break this.
HalfOpenStillAdmits == circuit = "half_open" => successCount < MaxRequests

\* A closed circuit always has failures left to absorb, although failures of
\* requests admitted earlier are counted in whatever state they land.
ClosedHasFailureBudget == circuit = "closed" => failures < MaxFailures

\* After Shutdown has begun every send ends, whatever the webhook, the breaker,
\* the rate limiter and the retries do, and nothing is sent any more.
ShutdownDrains == isShuttingDown ~> [](wg = 0 /\ \A w \in Senders : pc[w] = "idle")

\* Once the webhook answers again the circuit closes and stays closed, as long
\* as the service keeps sending and callers stop giving up.
Recovery ==
  (<>[](slack = "up") /\ []~isShuttingDown /\ <>[][\A w \in Senders : ~ContextDone(w)]_vars)
    => <>[](circuit = "closed")
=============================================================================
