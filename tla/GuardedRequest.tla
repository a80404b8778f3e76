---------------------------- MODULE GuardedRequest -----------------------------
(***************************************************************************)
(* HTTP requests through the DefaultChain of oauth/middleware.go, and the  *)
(* health check of oauth/health.go, over one RateLimiter.                  *)
(*                                                                         *)
(* The chain is RequireHTTPS, SecurityHeaders, CORS, RateLimit,            *)
(* RequestLogging, Timeout, all enabled as they are by default.  What it   *)
(* does before the limiter depends on the request alone and is one action. *)
(* Timeout runs the handler in a goroutine of its own, which may outlive   *)
(* the request or never end.  NewMiddleware builds a bucket limiter; a     *)
(* window limiter is called by the application itself.                     *)
(*                                                                         *)
(* A request is what the chain looks at: tls, proto (X-Forwarded-Proto),   *)
(* method, origin, user (X-User-ID), xff and xri (X-Forwarded-For, its     *)
(* first address, and X-Real-IP) and remote; "" is a header not sent.      *)
(***************************************************************************)
EXTENDS RateLimiter, Sequences, Functions

CONSTANTS
  Requests,          \* requests in flight, a goroutine each
  probe,             \* the goroutine of the health check
  probeKey,          \* its test key: "health_check_" and the time
  Inputs,            \* bound: the requests that arrive
  TrustedProxies, AllowedOrigins,
  WildcardMatches    \* <<"*.domain", origin>> where the suffix matches

ASSUME RequestAssumption ==
  /\ Procs = Requests \cup {probe} /\ probe \notin Requests
  /\ probeKey \in Keys

VARIABLES
  stage,     \* where the chain is with each request
  key,       \* the limiter's key of the request
  allowed,   \* what Allow answered
  handler,   \* the goroutine that Timeout started
  sent,      \* the status codes written for the request, in order
  logged,    \* the status code RequestLogging logged, or 0
  check      \* checkRateLimiter: its stage and its last result

requestVars == <<stage, key, allowed, handler, sent, logged>>
vars == <<limiterVars, requestVars, check>>

-----------------------------------------------------------------------------
\* getClientIP: the first address of X-Forwarded-For, X-Real-IP, the peer.
ClientIP(in) == IF in.xff # "" THEN in.xff ELSE IF in.xri # "" THEN in.xri ELSE in.remote

\* isFromTrustedProxy
IsFromTrustedProxy(in) == ClientIP(in) \in TrustedProxies

\* getRateLimitKey
RateLimitKey(in) == IF in.user # "" THEN in.user ELSE ClientIP(in)

\* What requests are limited by is among the keys; none comes under the key that
\* the health check makes up from the time.
ASSUME InputAssumption == \A in \in Inputs : RateLimitKey(in) \in Keys \ {probeKey}

\* isOriginAllowed
IsOriginAllowed(origin) ==
  \E a \in AllowedOrigins : a \in {"*", origin} \/ <<a, origin>> \in WildcardMatches

\* RequireHTTPS: 400 for a plain request that no proxy vouches for.
RequireHTTPS(in) == in.tls \/ IsFromTrustedProxy(in) \/ in.proto = "https"

\* CORS: a preflight request of an allowed origin is answered here.
IsPreflight(in) == IsOriginAllowed(in.origin) /\ in.method = "OPTIONS"

\* DefaultChain up to RateLimit: the status that ends the request, or 0.
EarlyAnswer(in) == IF ~RequireHTTPS(in) THEN 400 ELSE IF IsPreflight(in) THEN 204 ELSE 0

\* GetStatus.  A key without an entry has all of Rate left.  (RetryAfter and
\* Reset are times for the client to read.)
Nil == [remaining |-> -1]
BucketStatus(k) ==
  IF k \notin Tracked THEN [remaining |-> Rate] ELSE [remaining |-> Refilled(cells[entry[k]])]
WindowStatus(k) ==
  LET left == Rate - ValidCount(cells[entry[k]].hits)
  IN  IF k \notin Tracked THEN [remaining |-> Rate] ELSE [remaining |-> IF left < 0 THEN 0 ELSE left]

\* Mutant of GetStatus: nothing to say about a key that has no entry.
NoStatusOfUnknown(k) == IF k \notin Tracked THEN Nil ELSE BucketStatus(k)

GetStatus(k) == IF kind = "bucket" THEN BucketStatus(k) ELSE WindowStatus(k)

-----------------------------------------------------------------------------
NoKey == CHOOSE k \in Keys : k # probeKey

Init ==
  /\ LimiterInit
  /\ stage = [r \in Requests |-> "idle"]
  /\ key = [r \in Requests |-> NoKey]
  /\ allowed = [r \in Requests |-> FALSE]
  /\ handler = [r \in Requests |-> "none"]
  /\ sent = [r \in Requests |-> <<>>]
  /\ logged = [r \in Requests |-> 0]
  /\ check = [at |-> "idle", result |-> "none"]

Go(r, s) == stage' = [stage EXCEPT ![r] = s]
Write(r, code) == sent' = [sent EXCEPT ![r] = Append(@, code)]

\* RateLimit calls Allow: the entry of the key; at capacity the answer is 500.
Allow(r, k) ==
  IF AtCapacity(k)
    THEN Go(r, "done") /\ UNCHANGED <<limiterVars, key>>
    ELSE Go(r, "take") /\ FindBucket(r, k, 1) /\ key' = [key EXCEPT ![r] = k]

\* A request arrives and is answered at once, or calls the limiter.
Arrive(r, in) ==
  /\ kind = "bucket" /\ stage[r] = "idle"
  /\ IF EarlyAnswer(in) # 0
       THEN Go(r, "done") /\ UNCHANGED <<limiterVars, key>>
       ELSE Allow(r, RateLimitKey(in))
  /\ UNCHANGED <<allowed, handler, sent, logged, check>>

\* Allow takes a token, or finds none.
Taken(r) ==
  /\ stage[r] = "take"
  /\ TakeTokens(r)
  /\ allowed' = [allowed EXCEPT ![r] = Grants(r)]
  /\ Go(r, "status")
  /\ UNCHANGED <<key, handler, sent, logged, check>>

\* RateLimit reads the status for its headers, and refuses, with 429, only with it
\* in hand.  What is admitted goes on to RequestLogging and Timeout.
RateLimit(r) ==
  LET status == GetStatus(key[r])
  IN  /\ stage[r] = "status"
      /\ IF status # Nil /\ ~allowed[r]
           THEN Go(r, "done") /\ UNCHANGED handler
           ELSE Go(r, "serve") /\ handler' = [handler EXCEPT ![r] = "running"]
      /\ UNCHANGED <<limiterVars, key, allowed, sent, logged, check>>

\* The handler goroutine writes its status, which the wrapped writer notes.  (The
\* status of an answer given before RequestLogging is not kept.)
HandlerWrites(r) ==
  /\ handler[r] = "running"
  /\ 200 \notin Range(sent[r])
  /\ Write(r, 200)
  /\ UNCHANGED <<limiterVars, stage, key, allowed, handler, logged, check>>

HandlerEnds(r) ==
  /\ handler[r] = "running"
  /\ handler' = [handler EXCEPT ![r] = "done"]
  /\ UNCHANGED <<limiterVars, stage, key, allowed, sent, logged, check>>

\* Mutant of Timeout: waits for the handler alone.
WaitForHandler(r) ==
  /\ stage[r] = "serve" /\ handler[r] = "done"
  /\ Go(r, "log")
  /\ UNCHANGED <<limiterVars, key, allowed, handler, sent, logged, check>>

\* Timeout's select: the handler is done, or the deadline has passed and 408 is
\* written whatever the handler does.
Timeout(r) ==
  /\ stage[r] = "serve"
  /\ Go(r, "log")
  /\ \/ handler[r] = "done" /\ UNCHANGED sent
     \/ Write(r, 408)
  /\ UNCHANGED <<limiterVars, key, allowed, handler, logged, check>>

\* Mutant of StatusCode: the wrapper never notes what is written.
StatusNeverNoted(r) == 200

\* The last status the wrapper noted; 200 if none was written.
StatusCode(r) == IF sent[r] = <<>> THEN 200 ELSE sent[r][Len(sent[r])]

\* RequestLogging after the chain below has returned.  A handler that is still
\* running has no response left to write to, and is not followed further.
RequestLogging(r) ==
  /\ stage[r] = "log"
  /\ logged' = [logged EXCEPT ![r] = StatusCode(r)]
  /\ handler' = [handler EXCEPT ![r] = "none"]
  /\ Go(r, "done")
  /\ UNCHANGED <<limiterVars, key, allowed, sent, check>>

\* The goroutine takes the next request.
Recycle(r) ==
  /\ stage[r] = "done"
  /\ Go(r, "idle")
  /\ allowed' = [allowed EXCEPT ![r] = FALSE]
  /\ sent' = [sent EXCEPT ![r] = <<>>]
  /\ logged' = [logged EXCEPT ![r] = 0]
  /\ key' = [key EXCEPT ![r] = NoKey]
  /\ UNCHANGED <<limiterVars, handler, check>>

-----------------------------------------------------------------------------
\* checkRateLimiter: Allow, GetStatus, Reset.  At capacity it ends with Allow.
ProbeFinds ==
  /\ check.at = "idle"
  /\ IF AtCapacity(probeKey)
       THEN check' = [check EXCEPT !.result = "unhealthy"] /\ UNCHANGED limiterVars
       ELSE /\ FindBucket(probe, probeKey, 1) \/ FindWindow(probe, probeKey, 1)
            /\ check' = [at |-> "take", result |-> "none"]
  /\ UNCHANGED requestVars

ProbeTakes ==
  /\ check.at = "take"
  /\ TakeTokens(probe) \/ RecordRequests(probe)
  /\ check' = [at |-> "reset", result |-> IF Grants(probe) THEN "healthy" ELSE "degraded"]
  /\ UNCHANGED requestVars

\* Mutant of ProbeResets: no Reset before the result is returned.
ProbeReturns ==
  /\ check.at = "reset"
  /\ check' = [check EXCEPT !.at = "idle"]
  /\ UNCHANGED <<limiterVars, requestVars>>

ProbeResets ==
  /\ check.at = "reset"
  /\ Reset(probeKey)
  /\ check' = [check EXCEPT !.at = "idle"]
  /\ UNCHANGED requestVars

-----------------------------------------------------------------------------
\* The application calls a window limiter itself, and resets keys.
DirectFind(r, k, n) == FindWindow(r, k, n) /\ UNCHANGED <<requestVars, check>>
DirectTake(r) == RecordRequests(r) /\ UNCHANGED <<requestVars, check>>
AppReset(k) == k \in Tracked /\ Reset(k) /\ UNCHANGED <<requestVars, check>>
CleanupRound == Cleanup /\ UNCHANGED <<requestVars, check>>
TimePasses == Tick /\ UNCHANGED <<requestVars, check>>

ChainStep(r) ==
  \/ Taken(r) \/ RateLimit(r)
  \/ Timeout(r) \/ RequestLogging(r) \/ Recycle(r)

Next ==
  \/ \E r \in Requests :
       \/ \E in \in Inputs : Arrive(r, in)
       \/ ChainStep(r)
       \/ HandlerWrites(r) \/ HandlerEnds(r)
       \/ \E k \in Keys \ {probeKey}, n \in 1 .. Rate : DirectFind(r, k, n)
       \/ DirectTake(r)
  \/ ProbeFinds \/ ProbeTakes \/ ProbeResets
  \/ \E k \in Keys \ {probeKey} : AppReset(k)
  \/ CleanupRound
  \/ TimePasses

\* Goroutines are scheduled; nothing is assumed of the handler.
Fairness == \A r \in Requests :
  WF_vars(Taken(r) \/ RateLimit(r) \/ Timeout(r) \/ RequestLogging(r))

Spec == Init /\ [][Next]_vars /\ Fairness

-----------------------------------------------------------------------------
\* A request whose key had no token left is never handed to the handler, although
\* RateLimit looks at the refusal only after it has read the status of the key,
\* which a Reset or the clean-up may have removed in between.
RefusedNeverServed == \A r \in Requests : handler[r] # "none" => allowed[r]

\* The log names the status the client got, the first one written, unless the
\* deadline passed while the handler was writing: then it names the later of the two.
LogTellsAllButTheRace ==
  \A r \in Requests :
    logged[r] # 0 =>
      \/ sent[r] = <<>> /\ logged[r] = 200
      \/ sent[r] # <<>> /\ logged[r] = Head(sent[r])
      \/ Len(sent[r]) = 2 /\ Range(sent[r]) = {200, 408} /\ logged[r] = sent[r][2]

\* A health check gives its place in the limiter back, and finds the limiter
\* healthy or full: "limiting requests" is never the result, since its key is new.
ProbeLeavesNoTrace ==
  /\ check.at = "idle" => probeKey \notin Tracked
  /\ check.result # "degraded"

\* Every request is answered, even if its handler never ends.
RequestsEnd == \A r \in Requests : (stage[r] # "idle") ~> (stage[r] = "done")
=============================================================================
