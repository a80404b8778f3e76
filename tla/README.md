# Beaver Kit in TLA+

Beaver Kit (Go) is a set of packages an application links in: `oauth`, `slack`,
`cache`, `database`, `captcha`, `urlsigner`, `krypto` and `config`. There is no
server of its own; what makes it hard is that every exported operation can be
called from many goroutines at once, that several packages run background
goroutines, and that the packages talk to services which fail, answer late or
are asked twice. This directory models the parts where that matters, checks
them with TLC on small instances, and proves the most important statements for
all instances with TLAPS.

Paths below are relative to `src/`.

## 1. Inventory

| part | state it keeps | operations that change it | hard because |
|---|---|---|---|
| circuit breaker (`oauth/circuit_breaker.go`) | state word, half-open counter, consecutive counters (atomics); deadlines (under `mu`) | `Call`, `Reset` | lock-free admission, bookkeeping that lands in a later state, panics |
| token manager (`oauth/token_manager.go`) | token store, metadata map, statistics | `CacheToken`, `GetCachedToken`, `DeleteToken`, `RefreshIfNeeded`, `RevokeToken`, `RefreshExpiredTokens`, `CleanupExpiredTokens`, `Stop` | network calls between two locked sections, rotating refresh tokens, two background goroutines |
| multi-provider service (`oauth/multi_provider_service.go`) | provider map, session store, token cache | `RegisterProvider`, `UnregisterProvider`, `GetAuthURL`, `Exchange`, `RefreshToken`, `RevokeToken` | callbacks are duplicated, late, misdirected |
| single-provider service and memory stores (`oauth/service.go`) | sessions, tokens | the same flow; `Store`, `RetrieveAndDelete`, clean-up goroutine | the same |
| encrypted and cache-integrated stores (`oauth/encrypted_store.go`) | two underlying stores | `Store`, `Retrieve`, `RetrieveAndDelete`, `Delete` | two steps where the plain store has one; a fill racing with a delete; ignored errors |
| rate limiters (`oauth/rate_limiter.go`) | map of buckets or windows, each with its own lock | `AllowN`, `Reset`, clean-up | an entry in use may leave the map |
| middleware and health checks (`oauth/middleware.go`, `health.go`) | a limiter; custom checks | a chain of handlers; probes that write to what they probe | a handler that outlives its timeout |
| monitoring (`oauth/monitoring.go`) | counters | record | writes under a read lock |
| providers, PKCE (`oauth/*_provider.go`, `pkce.go`) | none | HTTP calls | the server fails, loses answers, rotates refresh tokens |
| Apple validation (`oauth/apple_jwt.go`) | cache of Apple's keys | `ValidateIDToken` | keys rotate while validations overlap |
| slack service (`slack/service.go`) with breaker and limiter (`slack/circuit_breaker.go`, `rate_limiter.go`) | shutdown flag, wait group, breaker, bucket | `SendWithContext`, `SendRichMessage`, `SendBatch`, `Shutdown` | retries, shutdown during sends, results of old requests |
| memory cache (`cache/driver/memory/memory.go`) | item map, byte count | `Set`, `Delete`, `Clear`, `Close`, clean-up goroutine | the count is adjusted in five places |
| global instances (`cache`, `captcha`, `urlsigner`, `slack`, `oauth`, `database`: `service.go`) | one instance, its error and a `sync.Once` per package | `Init`, `Default`, `Reset`, `Shutdown`, `InitWithGORM` | callers that overlap; initialisation that half succeeds |
| configuration (`config/config.go`, `config/dotenv`, `config/env`) | the process environment | `Load` | several loads at once, one variable at a time |
| urlsigner, krypto, captcha validation | none | pure functions, one request | |

How they interact. The login flow uses a session store and a provider. A token
manager uses a token store and, for refresh and revocation, the multi-provider
service; its background goroutines call the same methods as the application.
A breaker wraps one provider. The Slack service calls its limiter, its breaker
and the webhook, in that order, on the goroutine of the caller. The cache
service forwards to one driver. The middleware and the health check share one
limiter; the wrappers of `encrypted_store.go` put two stores where the login flow
and the token manager expect one; every package fills its configuration through
`config.Load`, which writes the process environment all of them read. Nothing is persisted by the packages, so there
is no crash recovery to model.

What makes each part correct, and where this could go wrong at which line, is
the list `hazards` of `PROJECT.json`; the properties of section 3 are aimed
at it.

## 2. Modules

| module | models | state of the code it has |
|---|---|---|
| `OAuthBreaker` | `DefaultCircuitBreaker` | `state`, `consecutiveSuccesses`, `consecutiveFailures`, `halfOpenRequests`, `nextRetryTime` (`retryIn`), `mu`, a program counter per caller |
| `OAuthBreakerProofs` | theorems about it | |
| `TokenManager` | `AdvancedTokenManager`, a store that may fail, and the providers | the store, `tokenMetadata`, the calls in progress, the refresher's list; the provider's view of every token and what becomes of its refresh tokens (`policy`) |
| `SessionFlow` | `MultiProviderService` and `MemorySessionStore` | `sessions`, `SessionData.Provider`, the age of a session, `providers`, a program counter per handler |
| `StateTicket` | the promise of the state parameter: issued once, redeemed once, one token at most | abstract |
| `SessionFlowProofs` | theorems about it, and that it implements `StateTicket` | |
| `SlackService` | the send path, breaker, bucket and `Shutdown` | `isShuttingDown`, `wg`, the breaker's fields, `tokens`, a program counter per sender |
| `SlackServiceProofs` | theorems about it | |
| `MemoryCache` | the memory driver | `items`, `currentSize`, `maxSize`, whether `Close` was called |
| `RateLimiter` | `TokenBucketLimiter` and `SlidingWindowLimiter` | the map (`entry`), the buckets or windows (`cells`), the one a goroutine holds (`call`) |
| `GuardedRequest` | composes it with the middleware chain and the health check | where each request is, its handler goroutine, what was written and logged |
| `GuardedRequestProofs` | theorems about it and about the limiter it composes | |
| `Providers` | what the five providers make of a PKCE pair, of an answer and of a profile: operators | |
| `UserProfile` | `GetUserInfo` of a provider, with GitHub's two requests, while the user edits the profile | whether the second request is under way (`asked`), the result; the profile |
| `LoginService` | one provider behind `Service` or `MultiProviderService`, against an authorization server | `sessions` with their PKCE pairs, the calls in progress, the application's tokens; codes and tokens of the server |
| `LoginServiceProofs` | theorems about `LoginService` and `UserProfile` | |
| `AppleKeys` | `AppleJWTValidator` with its key cache, while Apple rotates | `keys`, the age of `lastUpdate`, the validations in progress |
| `AppleKeysProofs` | theorems about it | |
| `StoreWrappers` | `CacheIntegratedTokenStore` over an encrypted store and a cache; `EncryptedSessionStore` over the memory store | the two stores, the session, the calls in progress |
| `TokenProofs` | theorems about `TokenManager` and `StoreWrappers` | |
| `ConfigLoader` | `config.Load`, and what its documentation promises, as operators | |
| `GlobalInstances` | the global instance of six packages, each made from a configuration `ConfigLoader` loads | environment, `defaultOnce`, the instance and its error, GORM's, a program counter per goroutine |
| `ServiceProofs` | theorems about `MemoryCache`, `ConfigLoader` and `GlobalInstances` | |

`TokenManagerMC`, `GuardedRequestMC`, `LoginServiceMC`, `AppleKeysMC` and
`GlobalInstancesMC` only
give these modules their instances. `SessionFlow` says who may redeem a state;
`LoginService` takes a redeemed login through the provider and back, and leaves
the duplicate callbacks to `SessionFlow`. `TokenManager` has its own small
provider, since what it is about is many tokens of several keys.

**Atomicity.** An action is what one goroutine does without another being able
to see the middle: a critical section, or one atomic operation. Where the code
unlocks around a network call, or stores two words that are read without the
lock, there is an action for each part. `callOpen`'s comparison with the clock
and its compare-and-swap are one action: the copy of `nextRetryTime` was made
earlier (`ReadRetry`) and the comparison can only turn true as time passes, so
an earlier comparison that came out true still is true at the swap.
In `callHalfOpen` the deferred `Unlock` runs before the deferred decrement, so
the decrement (`Release`) is a step of its own; `Reset` stores the state and the
counter in two steps. `RefreshExpiredTokens` reads a token twice; the second
read is the one that decides, so the first is merged with it, and `SkipListed`
has the outcomes in which no refresh follows. Slack's `Allow` gives its read
lock up before it takes the write lock (`Upgrade`) and, like the code, does not
look at the timeout again. A limiter finds the entry under its own lock and uses it
under the entry's: two actions (`Find`, then `TakeTokens` or `RecordRequests`). A
wrapper of `encrypted_store.go` has no lock, so each call of a wrapped store is an
action. The token manager holds its lock across the calls of its store, so there a
failing call is an alternative inside the action; `RefreshIfNeeded` unlocks for the
provider, and `AnswerLost`, which leaves the call waiting, is what the provider may
have done before the call fails. `appleKeysCache` is locked for each `get` and `update`, not across the
fetch. `loadFile` looks at the environment once and sets its variables one by
one; `sync.Once` makes later callers wait (`Once`) and its function's parts are
actions of their own.

**Data.** Times are ticks still to pass. Counters that are only compared with a
threshold saturate there. A token is its generation, a value in the cache is its
length, a state parameter is a model value generated once. A PKCE verifier is the
login it was made for and its hash a mark on it; a ciphertext is the token with a
mark; a signature verifies when its key is found. A configuration value is a
string that is only compared, `Literals` saying which strings a typed field
parses, and a variable is a pair of prefix and key; a `.env` file is a sequence
of statements, each with a text or with a reference (`ref`) to another name, and
its reader is the fold of one step over them (`ReadUpTo`). A time of a limiter is
counted in ticks of one token, and what a window recorded is, for each age, the
number of requests up to that age (`hits`). The bytes a cache holds are counted
as a set of numbered bytes (`Bytes`). Statistics, logging and wording are left out.

**Environment.** `Tick`, `Age` and `Refill` are time; `ProviderChanges` and
`SlackChanges` let the remote side fail and return; `Login`, `Issue` and
`StoreEvicts` are the application, the provider and the store of the token
manager. Its provider keeps refresh tokens in force, or replaces them and the kit
takes the new one (the custom provider), or replaces them and the kit puts back
the one it sent (Google, Twitter, Apple); which of these is fixed for a behaviour
(`policy`). Its answers get lost after the replacement (`AnswerLost`), are empty
under status 200 (`HollowAnswer`) or are errors, and no call to it need return.
Each call of the store may fail: a `Store` or a `Delete` before or after its
effect, a `Retrieve` although the token is there. In `SessionFlow` any handler may
present any state on the route of any provider at any time, which covers duplicated,
delayed and misdirected callbacks. In `LoginService` the server is external: it binds a code to the challenge of its
authorization URL, honours it once, may put an error under status 200, and its
answers get lost or mangled or are an object with neither token nor error. In
`UserProfile` the provider shows any profile; GitHub shows verified addresses
only, which is what the comment at `github_provider.go:199` relies on. In
`GlobalInstances` the scenario (package, the process's variables, the `.env` file,
what answers on the network) is chosen by `Init` and stays.

**Mutants.** Beside some definitions stands a variant named in a comment as
their mutant, e.g. `RetrieveOnly` beside `RetrieveAndDelete`. It is what a
plausible slip in the code would make of the definition, is used by no
specification, and documents for each property a change that the property
detects (list `mutants` of `PROJECT.json`).

## 3. Runs

| run | instance | what it shows |
|---|---|---|
| `oauth_breaker` | 3 callers, thresholds 2 and 2, timeout 1, limit 1 | `SlotsNeverLeak`, `SlotDriftBounded`, `ExcessTrialsOnlyByDrift`, `ClosedHasFailureBudget`, and `Recovery` |
| `token_manager` | 1 user, limit 2, 3 tokens per key, each policy of the provider; scene "race": 1 provider, 1 client and the refresher; scene "limit": 3 providers (2 without refresh), the refresher | `StoredIsTracked`, `LimitRespected`, `CachedIsUsable`, `DueIsReplaced` |
| `session_flow` | 2 states, 2 handlers, 2 providers, timeouts of 1 tick | `NoReplay`, `NoProviderMixUp`, `ImplementsTicket`, `AbandonedLoginsGo` |
| `slack_service` | 2 senders, 1 retry, burst 1, 2 failures open, 2 successes close | `HalfOpenStillAdmits`, `ClosedHasFailureBudget`, `ShutdownDrains`, `Recovery` |
| `memory_cache` | 3 keys, 2 places, lengths 0 to 2, with a limit of 3 bytes and without | `NeverOverCounted`, `NeverUnderCounted`, `KeysWithinMax`, `ExpiredItemsGo` |
| `guarded_request` | 2 requests and the probe, 2 keys, room for 1, 2 tokens per interval, both limiters | `GrantsWithinLimits`, `RefusedNeverServed`, `LogTellsAllButTheRace`, `ProbeLeavesNoTrace`, `RequestsEnd` |
| `service_startup` | 2 goroutines, 2 calls each, 61 scenarios over 6 packages | `ConfigAsDocumented`, `InitTellsTheTruth` |
| `login_service` | scene "login": 1 login, 3 handlers, 5 providers, 3 PKCE settings, 3 access tokens; scene "profile": 5 providers, lists of up to 2 addresses, any edit at any time | `GenuineLoginNotRefused`, `RefreshTokenStaysGood`, `VerifiedIsVerified` |
| `apple_keys` | 2 validations, 2 keys, ttl 1, lifetime 2 | `GenuineTokenAccepted`, `RetiredKeysFade` |
| `store_wrappers` | 3 callers, 2 tokens, one token key, one session | `WrongOnlyByOverlap` |

The first five also check their module's `TypeOK` and `guarded_request` checks
`LimiterTypeOK`; none switches the deadlock check off. A scene is chosen by `Init` and
stays: the two of `token_manager` need different things, overlapping refreshes of one
key and more keys than the limit allows; the two of `login_service` share no state.

**Why the bounds are enough.** Three callers let one run the late store of
`callOpen` while two others are between increment and decrement, and the
thresholds of two make a partial count differ from a full one. With three
providers and a limit of two a user can be below, at and beyond the limit, and one
of them that can be refreshed brings late refreshes into it; a client and the
refresher with three generations of one key let a refresh of a refreshed token race
with a new login and a revocation. Two handlers and two states give every overlap of two
callbacks, including those of the same state and of different providers. Two
senders with a retry let a result of a request admitted while closed land in
each other state. Three keys for two places fill the cache while a third waits.
Two requests and the probe are at the limiter together while a fourth step resets
or sweeps, and a second key against room for one meets the capacity; a request
comes over TLS, without it, or as a preflight. A third handler lets a refresh start between the
server's answer to one and the store of another. One login is enough there since
logins share nothing but the handlers. Two validations let an older answer
replace a newer one between an update and its lookup. With three callers a store
and a delete frame a fill. Two goroutines, one inside the `Once` and one outside,
are what an initialisation can race with, and the second call of each reads what
the first left; the scenarios take each field that decides something present,
absent, empty and malformed, a file missing, malformed, repeating a key and
referring back and forth, and the network up and down.
Named bounds: `MaxTokens` in `LoginService` (access tokens the server issues),
`MaxAge` in `AppleKeys` (how far ticks are counted), `MaxEmails` in `UserProfile`
(addresses of a user: two are a primary one and a fallback), `Cells` in `RateLimiter`
(entries alive at once), `MaxCalls` in `GlobalInstances`, `MaxGen` in `TokenManager`
(tokens issued for a key; `LoginBound` leaves the last of a rotating key to a refresh,
and `DueIsReplaced` excepts a key for which the model issues no more, `BoundReached`)
and `CountBound` in `MemoryCache` (how far `currentSize` is followed from 0; a failed overwrite can
be repeated without end and the count has no bound of its own).

**Fairness**, and why the code justifies it. Goroutines are scheduled, time
passes and tickers fire: weak fairness of the steps of calls in progress, of
`Tick`, of the clean-ups and of the background refresher. A call that waits for
a lock gets it, since no lock of the modelled parts is held for ever. The
application goes on calling the breaker (`Call`) and sending (`CheckShutdown`);
`Recovery` is about such an application. Strong fairness is used where a remote
side may fail any number of times but not always: a provider that is asked again and
again honours the refresh token some time, a store that is asked again and again
takes the token, a key that is listed again and again is read; `Wait` finds a token
before its context ends, messages are valid now and then. That a call to a provider
ends is not assumed: the refresher's context is `context.Background()`
(`token_manager.go:508`) and the client has no timeout, so `DueIsReplaced` has the
premise that the refresher is, again and again, not waiting for a provider. The
token manager's background tasks run only with `AutoRefresh`, which its run
assumes. Nothing is assumed of `Reset`, logins,
deletions, evictions, revocations, registration, or of a remote side's changes.
`Recovery` of the OAuth breaker has an explicit premise: now and then no call is
in flight. Without it two callers can reject each other for ever, each seeing
the other's increment. `RequestsEnd` assumes that the middleware's goroutine is
scheduled and that the deadline of its context comes; nothing is assumed of the
handler. `FairSpec` of `LoginService` schedules the handlers and time, and
assumes nothing of the server: whether it answers is what `CallsEnd` asks.

### Where the code departs from what it says

Each of these runs checks one statement of a comment and TLC finds a behaviour
of the code that breaks it.

| run | statement | what happens |
|---|---|---|
| `http_timeout` | `oauth/config.go:45`, "HTTPTimeout is the timeout for HTTP requests" | `New` builds a client with the timeout and hands it to providers that use `http.DefaultClient` instead: a provider that never answers holds `Exchange` and `RefreshToken` for ever |
| `encrypted_redeem` | `oauth/encrypted_store.go:188`, "RetrieveAndDelete atomically retrieves and deletes" | it is a `Retrieve` and a `Delete`: two callbacks with the same state both get the session |

The models also have behaviours that no statement of the repository rules out and
that a maintainer may want to know:

- breaker: the half-open counter is zeroed after the state is visible
  (`circuit_breaker.go:158`), so one trial more than `MaxHalfOpenRequests` may run;
- token manager: a user at the limit cannot overwrite an entry, so a refreshed
  token is thrown away (`token_manager.go:138`) and its due token stays; the clean-up
  asks a wrapper without expiry and removes nothing the refresher reads (396);
- token manager: the clean-up ignores an error of `Delete` and forgets the token that
  is still stored (408), and takes any error of `Retrieve` for a token that is gone,
  so that a store that fails once costs a good one (389); one provider that never
  answers stops the refresher for every user (508);
- token manager: where refresh tokens are replaced, Google, Twitter and Apple leave
  the cache with one that is dead (`google_provider.go:235`), and so does a lost
  answer with any provider; an empty answer to a refresh puts the token that was
  sent back into the cache, even over a newer one;
- Slack: a send may join the wait group after `Shutdown` waited for it
  (`slack/service.go:560`);
- memory cache: a refused overwrite leaves its old value uncounted
  (`memory.go:111`), so more than `MaxSize` may be held;
- cache: after a failed `Init` with Redis the global instance is a nil pointer in
  a non-nil interface (`cache/drivers.go:49`), and `IsHealthy`, `Reset` and
  `Shutdown` panic; so does `Reset` after `Shutdown` of a memory cache;
- database: `InitWithGORM` after `Init` does nothing and returns the earlier
  result (`database/service.go:511`); when GORM fails `Init` fails and `DB()`
  works; the dialect follows `DB_DRIVER` though the URL chose another driver (412);
- providers: Google, Twitter and Apple discard a rotated refresh token; Twitter
  announces S256 under the plain method, so such logins are always refused; the
  custom provider takes an error under status 200 for a token; an object with neither
  `error` nor `access_token` makes `Exchange` and `RefreshToken` succeed with an empty
  token, for every provider (`google_provider.go:155`); Google, Apple and the
  custom provider copy a flag "verified" even when there is no address;
- encrypted sessions: their wrapper has no times, so the clean-up of the wrapped
  store takes them all (`encrypted_store.go:141`);
- Apple's keys: one key that cannot be parsed spoils the whole answer.

## 4. Proofs

Every invariant that a passing run checks is also a theorem, for all instances. All
theorems hold for every value of the constants that the named assumptions allow:

- `ConfigAssumption`: what `NewDefaultCircuitBreaker` makes of any setting;
- `SessionAssumption`: there is a state, the two "no" values are none of the
  others, times are natural numbers; `LoginAssumption` the same of logins;
- `KeysAssumption`: times of Apple's keys are counted beyond the ttl and the lifetime;
- `ProfileAssumption`: a list of addresses has some length;
- `TokenManagerAssumption`: users and providers are finite, the refresher is no
  client and the limit is positive (`NewAdvancedTokenManager` makes ten of zero,
  and under a negative limit nothing is ever cached);
- `SlackAssumption`: what `validateConfig` checks and, of the settings it does not
  check (burst, breaker timeout, half-open successes), that they are positive as
  their defaults are;
- `LimiterAssumption`: rate, burst and capacity are positive, as
  `NewTokenBucketLimiter` makes them, and there is a key;
- `InputAssumption`: what requests are limited by is among the keys, and is not the
  name the health check gives its probe (`health_check_...`; a request is limited by
  the address it comes from);
- `CacheAssumption`: the keys that are used are finitely many, lengths, ttls and
  limits are natural numbers;
- `LiteralsAssumption`: the zero value of a type is a text its parser accepts;
- `ScenarioAssumption`: a scenario is about one of the six packages and its file is
  a sequence of statements, each of them well formed or not.

*The breaker* (`OAuthBreakerProofs`). `TypeCorrect` first, by one case per
action. `SlotInv` is the conjunction of the three statements about the half-open
counter, which account for it from above (`SlotsNeverLeak`), from below
(`SlotDriftBounded`) and against the number of trials
(`ExcessTrialsOnlyByDrift`). It is inductive once the types are known, since the
two counts in it, `Holders` and `Trials`, are sets of callers defined by where
the callers are and not by history: a store of 0 leaves them alone and meets
all three bounds because there are never more trials than holders, nor more
holders than callers. The lemmas `PutCount`, `MoveCounts` and `SlotsUntouched`
say how the two cardinalities change when one caller moves, so that what is left
of each action is arithmetic. `ClosedAlwaysHasBudget` is inductive by itself: of
the steps that can close the circuit each forgets the failures, and a failure
recorded in a closed circuit that reaches the threshold opens it.

*The login flow* (`SessionFlowProofs`). `NoReplay` needs to know where states
come from: two handlers never store the same state (`StorersApart`), a state that
was not stored yet has neither a taker nor a token (`UnstoredUntouched`), a handler
past the validation holds a session bound to its provider (`HeldIsGood`) and a
token agrees with the binding (`TokenIsBound`). Their conjunction `FlowInv` is
inductive. `NeverReplayed` and `NeverMixedUp` are parts of it, and
`FlowImplementsTicket` maps each action to `Issue`, `Redeem`, `Void`, `Grant`
or a stutter: `Grant` needs from `FlowInv` that the state has a taker and no
token yet, `Redeem` that it is still live.

*The login flow with its provider* (`LoginServiceProofs`). For each login, its
session, a call that exchanges its code and calls that refresh its token exclude
each other, and its outcome tells which there may be (`Protocol`); a call carries
the PKCE pair that was made for the login (`Exchange`), so that the server finds
the verifier of its challenge. For the refresh token the two kinds of server need
two invariants: one that keeps it is followed by whoever answers last (`Kept`);
behind one that replaces it the application is only while the answer with the new
one is on its way, of which there is one at most, since every other refresh was
sent with the old one (`Rotated`). Of a login that is not in `lost` no call carries
an empty answer (`Emptied`), so no such answer can put an old token back.
`VerifiedAlwaysVerified`, about `UserProfile`, rests on what a search of the list
finds (`FirstIndex`, `PrimaryEmailVerified`) and on `seen` being at least what is
verified at the moment of the second request.

*The token manager* (`TokenProofs`). The types are not inductive alone:
revocation records the login that the token in a worker's hands descends from,
which is one only if the token was issued. `TokenInv` adds `IssuedTokens`: no
token in the store or with a worker is newer than the last one issued, and each
issued token has a login. `StepOnEntries` then says in one place what any step
may do to the store and the metadata (`Untracked`: stored without metadata, and not
set adrift by an error of the store), and `StoredAlwaysTracked` and
`LimitAlwaysRespected` follow from it, the second with `FS_AddElement`: caching
adds at most one entry to one user's, and only below the limit. `CachedIsUsable`
is not inductive: that a refreshed token is good when it reaches the cache has to
be known from the moment it is handed out. `InHand` says so, and that nobody else
has it, neither the store nor another worker, so that no other refresh can trade
it in meanwhile; it says so of the tokens of a rotating provider whose login has lost
none. A provider that keeps refresh tokens honours all it issued until they are
revoked (`KeptInForce`), which covers the rest.

*The Slack service* (`SlackServiceProofs`). In `SendInv` the types lean on the
rest: the wait group is bounded because it equals the number of tracked senders
(`WaitGroupExact`), the attempts because a sender that backs off has a retry
left (`RetriesLeft`), the successes because a half-open circuit still needs some.
`MoveTracked` counts the tracked senders as one moves; the breaker's two
promises are preserved by the three steps that touch it.

*Apple's keys* (`AppleKeysProofs`). `Types` alone does not say why a withdrawn key
goes. `Fresh` does: a key in the cache was withdrawn no longer ago than the cache
was last written, plus the delay of the answer it was written from, and an answer
not yet written holds no key withdrawn before it was given. `OnTrack` says of a
validation that no excuse covers that its key is published, is in the answer it
got and is in the cache when it looks it up. `AgedRange` lets two counters that
stop at `MaxAge` be compared.

*The store wrappers* (`TokenProofs`). What each call in progress rests
on: the primary store still holds what a store wrote (`ReliesOn`), the cache is
empty while a delete is between its halves, a fill carries the primary's token,
and the two agree while nobody stores (`Tokenwise`); a session once handed out is
being deleted or gone (`Sessionwise`). All this holds while callers are `Apart`,
which is what "no conflicting calls overlapped" means for the present state;
`WriterAlone` turns it into what the steps need.

*The limiters* (`GuardedRequestProofs`). The eternal bucket of a key holds at least
what its real bucket does and is full when there is none (`Covered`). The clean-up
keeps that because a bucket it drops was idle for two intervals and a burst no
larger is full by then; a call that kept a dropped bucket takes nothing from
another key's because a cell is `Owned` by one key. A window has recorded, for
every age, at least the grants of its key since then that the ledger counts
(`Recorded`), and a window that is dropped holds none young enough to matter; the
counts being cumulative, a grant adds to them age by age and no sum is taken.

*The chain* (`GuardedRequestProofs`). `RequestsImplementLimiter` shows that the
composition uses the limiter as `RateLimiter` says, so `RequestsWithinLimits`
follows without a second proof. `RefusedNeverServed` then needs that a bucket
limiter always has a status (`BucketHasStatus`, from the limiter's types) and that
only an allowed request has a handler (`Serving`). For `LogTellsAllButTheRace`,
`AnswerInv` lists what may have been sent at each stage, the handler still running
or not: the handler and the timeout write once each, in either order.
`ProbeLeavesNoTrace` rests on the probe being alone with its key (`NoIntruder`) and
on its entry being unused (`Fresh`) until it takes from it.

*The memory cache* (`ServiceProofs`). The byte count is compared with a sum over
the items. The sum is the number of the bytes in them, so that what an operation
does to it is a union or a difference of sets (`BlockSize`, `TakenOut`,
`WithEffect`) and its size follows from the library's facts about cardinalities.
Overwriting is the step to look at: what is subtracted for the old value and what
the map loses may differ, but only in the direction the setting allows.

*The configuration* (`ServiceProofs`). `ParsedAsGiven` is about an algorithm: the
loop over a file of any length gives each name what its documentation says. The
prover cannot instantiate the induction theorems of its library, so lemma
`Induction` derives what is needed from finite cardinalities: if a set has 0 and
with each number the next and lacks one, then the numbers up to which it has all
are finitely many, and counting them gives one more of them. `ReadUpTo` and
`Texts` are shown to satisfy their recursive equations in the same way.
`StructAsDocumented` goes through the fields of a struct. For the loads that overlap,
`ConfigInv` says that the environment never holds anything that the process and
the file do not give it, and that a goroutine in the loop of `loadFile` has in its
hands what is still missing: when its list is empty nothing is.

*The global instances* (`ServiceProofs`). One goroutine at most is inside the once
(`RunsAlone`); what the instance is at each stage, and what a finished once says
about it, is `InstanceFits`, and what each caller was told agrees with that
(`Told`), until `Reset` makes it history.

*Only model-checked*: the liveness properties (`Recovery`, `DueIsReplaced`,
`AbandonedLoginsGo`, `ShutdownDrains`, `ExpiredItemsGo`, `RequestsEnd`), because
fairness is out of the prover's reach, and the two runs of section 3 in which the
code departs from a comment.

## 5. Not modelled, and why

`Stop`, statistics and `GetAllUserTokens` of the token manager; `RevokeToken` and
`ValidateState`, which pass one call through or only read; Slack's `Health`,
setters and batches (loops of sends); the read-only health probes and monitoring,
whose counters nothing reads; the URL signer and the cryptographic helpers (pure
functions over strings and libraries); captcha validation (one request without
state); `Connect` and `NewWithGORM` of the database, which keep no shared state;
quoting and expansion of `.env` text, struct nesting and tag options the kit does
not use; message text, encodings, HTTP and cryptography. `PROJECT.json` lists
every part with its status.

## 6. Plan

1. **An abstract breaker**: closed, open, trial, with the promise that it opens
   only after failures and closes only after successes; both breakers against it.
2. `StoreWrappers` against `StateTicket` and against an abstract token store, with
   the overlap as the only deviation.
3. Token manager: `Stop`, `LoginService` in the place of the abstract provider. Slack: `Health`, batches and the second `Shutdown`.
4. Pure algorithms: the URL signer's expiry, the Slack back-off, the response
   time percentiles, each against a reference definition.
5. Proofs: that both breakers implement the abstract one of item 1, and the
   safety of whatever items 2 to 4 add.
