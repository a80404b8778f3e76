---------------------------- MODULE TokenManager ----------------------------
(***************************************************************************)
(* AdvancedTokenManager of oauth/token_manager.go with a TokenStore and    *)
(* the OAuth providers it talks to.                                        *)
(*                                                                         *)
(* Every operation that holds tm.mu from start to end is one action.       *)
(* RefreshIfNeeded and RevokeToken lock and unlock around a network call,  *)
(* so each is a read, a provider call and a write that other operations    *)
(* interleave with.                                                        *)
(*                                                                         *)
(* Data abstractions.  A token is the number of the refresh token in it:   *)
(* each login and each rotation of a key issues the next one, up to        *)
(* MaxGen.  Access and refresh counts, timestamps and GetTokenStats only   *)
(* report; encryption round-trips.  TokenStore is an interface: each of    *)
(* its calls may fail, a Store or Delete that failed may have had its      *)
(* effect all the same, and an entry may vanish by itself.                 *)
(***************************************************************************)
EXTENDS Integers, FiniteSets

CONSTANTS
  Users, Providers,
  NonRefreshing,      \* providers whose SupportsRefresh is false (GitHub)
  Clients,            \* goroutines that call RefreshIfNeeded and RevokeToken
  refresher,          \* the background goroutine of startBackgroundTasks
  MaxTokensPerUser,   \* config.MaxTokensPerUser
  MaxGen              \* bound: tokens issued for one key

ASSUME TokenManagerAssumption ==
  /\ IsFiniteSet(Users) /\ IsFiniteSet(Providers)
  /\ NonRefreshing \subseteq Providers
  /\ refresher \notin Clients
  /\ MaxTokensPerUser \in Nat \ {0}
  /\ MaxGen \in Nat \ {0}

Keys == Users \X Providers
UserOf(k) == k[1]
Refreshable(k) == k[2] \notin NonRefreshing
Workers == Clients \cup {refresher}
Gens == 1 .. MaxGen
NoToken == 0

VARIABLES
  store,      \* the token in the TokenStore under each key, or NoToken
  meta,       \* tokenMetadata: "none", "used" or "unused" for 30 days
  policy,     \* external: what becomes of a refresh token that is used
  job,        \* what each worker is doing: stage, key and token in hand
  todo,       \* the keys left of RefreshExpiredTokens' list
  issued,     \* external: how many tokens the provider issued for a key
  grant,      \* external: the login each token descends from
  accepted,   \* external: the tokens whose refresh token is still accepted
  revoked,    \* external: the logins whose grant was revoked
  aged,       \* the cached token of a key is due: within refreshThreshold of
              \* ExpiresAt if it can be refreshed, expired if it cannot
  lost,       \* history: the logins whose newest refresh token was lost on
              \* its way from the provider to the store
  adrift      \* history: keys left in the store without metadata by a Store
              \* or a clean-up's Delete that failed

vars == <<store, meta, policy, job, todo, issued, grant, accepted, revoked,
          aged, lost, adrift>>

provider == <<issued, grant, accepted, revoked>>

\* A provider keeps a refresh token in force; or rotates it, and the kit takes
\* the new one from the answer (the custom provider); or rotates it and the kit
\* puts back the one it sent (Google, Twitter and Apple).
Policies == {"keeps", "rotates", "forgotten"}
Rotating(k) == Refreshable(k) /\ policy[k[2]] # "keeps"

Idle == [at |-> "idle", key |-> CHOOSE k \in Keys : TRUE, tok |-> NoToken]
Stages == {"refresh", "cache", "revoke", "drop"}

Tracked == {k \in Keys : meta[k] # "none"}
UserTokens(u) == {k \in Tracked : UserOf(k) = u}

\* Mutant of AtLimit: off by one.
OverLimit(k) == Cardinality(UserTokens(UserOf(k))) > MaxTokensPerUser

\* CacheToken counts the user's entries, the one to be overwritten included.
AtLimit(k) == Cardinality(UserTokens(UserOf(k))) >= MaxTokensPerUser

\* needsRefresh, of a token decrypted from the store.
NeedsRefresh(k) == Refreshable(k) /\ store[k] # NoToken /\ k \in aged

\* IsExpired() && RefreshToken == "" as CleanupExpiredTokens asks it: of the
\* wrapper that CacheToken stored, whose ExpiresAt is the zero time.
WrapperExpiresAt(g) == "zero"
WrapperIsExpired(g) == WrapperExpiresAt(g) # "zero"

-----------------------------------------------------------------------------
Init ==
  /\ store = [k \in Keys |-> NoToken]
  /\ meta = [k \in Keys |-> "none"]
  /\ policy \in [Providers \ NonRefreshing -> Policies]
  /\ job = [w \in Workers |-> Idle]
  /\ todo = {}
  /\ issued = [k \in Keys |-> 0]
  /\ grant = [k \in Keys |-> [g \in Gens |-> 0]]
  /\ accepted = [k \in Keys |-> {}]
  /\ revoked = [k \in Keys |-> {}]
  /\ aged = {}
  /\ lost = [k \in Keys |-> {}]
  /\ adrift = {}

\* The provider issues the next token for k, descending from login b (or from
\* a new one when b is 0), and stops accepting the tokens in gone.
Issue(k, b, gone) ==
  LET g == issued[k] + 1
  IN  /\ g \in Gens
      /\ issued' = [issued EXCEPT ![k] = g]
      /\ grant' = [grant EXCEPT ![k][g] = IF b = 0 THEN g ELSE b]
      /\ accepted' = [accepted EXCEPT ![k] = (@ \ gone) \cup {g}]
      /\ UNCHANGED revoked

\* What TokenStore.Store and TokenStore.Delete do to an entry.
Put(k, g) == store' = [store EXCEPT ![k] = g] /\ aged' = aged \ {k}
Drop(k) == Put(k, NoToken) /\ adrift' = adrift \ {k}

StoreUnchanged == UNCHANGED <<store, aged, adrift>>

\* CacheToken, under tm.mu: refused at the limit, or stored and then tracked,
\* or the store returned an error and the metadata stays as it was.
CacheToken(k, g) ==
  \/ AtLimit(k) /\ StoreUnchanged /\ UNCHANGED meta
  \/ /\ ~AtLimit(k)
     /\ \/ /\ Put(k, g)
           /\ meta' = [meta EXCEPT ![k] = "used"]
           /\ adrift' = adrift \ {k}
        \/ /\ Put(k, g)
           /\ adrift' = IF k \in Tracked THEN adrift ELSE adrift \cup {k}
           /\ UNCHANGED meta
        \/ StoreUnchanged /\ UNCHANGED meta

\* The logins of a key, a bound: a rotating provider keeps the last token for
\* a refresh, and a key that cannot be refreshed gets one login.
LoginBound(k) ==
  IF ~Refreshable(k) THEN 1 ELSE IF Rotating(k) THEN MaxGen - 1 ELSE MaxGen

\* A user logs in with a provider and the application caches the token.
Login(k) ==
  /\ issued[k] < LoginBound(k)
  /\ Issue(k, 0, {})
  /\ CacheToken(k, issued[k] + 1)
  /\ UNCHANGED <<policy, job, todo, lost>>

\* GetCachedToken touches the metadata of the entry it finds.  (When Retrieve
\* fails, every caller returns or goes on and nothing changes.)
Touch(k) == meta' = [meta EXCEPT ![k] = IF @ = "none" THEN @ ELSE "used"]

GetCachedToken(k) ==
  /\ store[k] # NoToken
  /\ Touch(k)
  /\ UNCHANGED <<store, policy, job, todo, provider, aged, lost, adrift>>

\* Mutant of Remove: forgets the metadata although the store kept the token.
RemoveAnyway(k) ==
  /\ Drop(k) \/ StoreUnchanged
  /\ meta' = [meta EXCEPT ![k] = "none"]

\* DeleteToken, under tm.mu: an error of the store leaves the metadata alone.
Remove(k) ==
  \/ Drop(k) /\ meta' = [meta EXCEPT ![k] = "none"]
  \/ (Drop(k) \/ StoreUnchanged) /\ UNCHANGED meta

DeleteToken(k) ==
  /\ Remove(k)
  /\ UNCHANGED <<policy, job, todo, provider, lost>>

-----------------------------------------------------------------------------
\* RefreshIfNeeded reads a token that needs refreshing.  (When it does not, the
\* call is a GetCachedToken.)
RefreshRead(w, k) ==
  /\ job[w].at = "idle"
  /\ NeedsRefresh(k)
  /\ Touch(k)
  /\ job' = [job EXCEPT ![w] = [at |-> "refresh", key |-> k, tok |-> store[k]]]
  /\ UNCHANGED <<store, policy, provider, aged, lost, adrift>>

\* The provider honours the refresh token and its answer gets through.
ProviderRefresh(w) ==
  LET k == job[w].key
      g == job[w].tok
      b == grant[k][g]
  IN  /\ job[w].at = "refresh"
      /\ g \in accepted[k]
      /\ \/ /\ ~Rotating(k)
            /\ job' = [job EXCEPT ![w].at = "cache"]
            /\ UNCHANGED <<provider, lost>>
         \/ /\ Rotating(k) /\ policy[k[2]] = "rotates"
            /\ Issue(k, b, {g})
            /\ job' = [job EXCEPT ![w].at = "cache", ![w].tok = issued[k] + 1]
            /\ UNCHANGED lost
         \/ /\ Rotating(k) /\ policy[k[2]] = "forgotten"
            /\ Issue(k, b, {g})
            /\ job' = [job EXCEPT ![w].at = "cache"]
            /\ lost' = [lost EXCEPT ![k] = @ \cup {b}]
      /\ UNCHANGED <<store, meta, policy, todo, aged, adrift>>

\* The provider rotates the refresh token and its answer does not get through:
\* the call still waits, for ever or for an error.
AnswerLost(w) ==
  LET k == job[w].key
      g == job[w].tok
      b == grant[k][g]
  IN  /\ job[w].at = "refresh"
      /\ Rotating(k)
      /\ g \in accepted[k]
      /\ Issue(k, b, {g})
      /\ lost' = [lost EXCEPT ![k] = @ \cup {b}]
      /\ UNCHANGED <<store, meta, policy, job, todo, aged, adrift>>

\* A 200 answer without an error and without tokens: every provider returns the
\* refresh token that was sent, honoured or not.
HollowAnswer(w) ==
  LET k == job[w].key
      b == grant[k][job[w].tok]
  IN  /\ job[w].at = "refresh"
      /\ job' = [job EXCEPT ![w].at = "cache"]
      /\ lost' = [lost EXCEPT ![k] = IF Rotating(k) THEN @ \cup {b} ELSE @]
      /\ UNCHANGED <<store, meta, policy, todo, provider, aged, adrift>>

\* The provider refuses, or cannot be reached, or answers with something that
\* does not decode: RefreshIfNeeded returns an error.
ProviderRefreshFails(w) ==
  /\ job[w].at = "refresh"
  /\ job' = [job EXCEPT ![w] = Idle]
  /\ UNCHANGED <<store, meta, policy, todo, provider, aged, lost, adrift>>

\* The refresh token a worker brings back did not reach the store.
Unsaved(k, g) ==
  lost' = IF store'[k] = g THEN lost
                           ELSE [lost EXCEPT ![k] = @ \cup {grant[k][g]}]

\* Mutant of RefreshCache: keeps an entry that is there instead of the new one.
RefreshKeepsOld(w) ==
  LET k == job[w].key
  IN  /\ job[w].at = "cache"
      /\ \/ store[k] # NoToken /\ StoreUnchanged /\ UNCHANGED <<meta, lost>>
         \/ /\ store[k] = NoToken
            /\ CacheToken(k, job[w].tok)
            /\ Unsaved(k, job[w].tok)
      /\ job' = [job EXCEPT ![w] = Idle]
      /\ UNCHANGED <<policy, todo, provider>>

\* RefreshIfNeeded caches what it got, whatever happened to the key since.
RefreshCache(w) ==
  LET k == job[w].key
  IN  /\ job[w].at = "cache"
      /\ CacheToken(k, job[w].tok)
      /\ Unsaved(k, job[w].tok)
      /\ job' = [job EXCEPT ![w] = Idle]
      /\ UNCHANGED <<policy, todo, provider>>

\* Mutant of RevokeRead: goes on when there is no token.
RevokeUnread(w, k) ==
  /\ job[w].at = "idle"
  /\ Touch(k)
  /\ job' = [job EXCEPT ![w] = [at |-> "revoke", key |-> k, tok |-> store[k]]]
  /\ UNCHANGED <<store, policy, todo, provider, aged, lost, adrift>>

\* RevokeToken reads the token, ...
RevokeRead(w, k) ==
  /\ job[w].at = "idle"
  /\ store[k] # NoToken
  /\ Touch(k)
  /\ job' = [job EXCEPT ![w] = [at |-> "revoke", key |-> k, tok |-> store[k]]]
  /\ UNCHANGED <<store, policy, todo, provider, aged, lost, adrift>>

\* ... asks the provider to revoke it and ignores an error, ...
ProviderRevoke(w) ==
  LET k == job[w].key
      b == grant[k][job[w].tok]
  IN  /\ job[w].at = "revoke"
      /\ \/ /\ revoked' = [revoked EXCEPT ![k] = @ \cup {b}]
            /\ accepted' = [accepted EXCEPT ![k] = {g \in @ : grant[k][g] # b}]
         \/ UNCHANGED <<revoked, accepted>>
      /\ job' = [job EXCEPT ![w].at = "drop"]
      /\ UNCHANGED <<store, meta, policy, todo, issued, grant, aged, lost, adrift>>

\* ... and deletes whatever is cached by then.
RevokeDrop(w) ==
  /\ job[w].at = "drop"
  /\ Remove(job[w].key)
  /\ job' = [job EXCEPT ![w] = Idle]
  /\ UNCHANGED <<policy, todo, provider, lost>>

-----------------------------------------------------------------------------
\* Mutant of ListTokens: lists only the entries that nobody uses.
ListUnused ==
  /\ job[refresher].at = "idle"
  /\ todo = {}
  /\ todo' = {k \in Keys : meta[k] = "unused"}
  /\ UNCHANGED <<store, meta, policy, job, provider, aged, lost, adrift>>

\* RefreshExpiredTokens lists the tracked keys under the read lock, ...
ListTokens ==
  /\ job[refresher].at = "idle"
  /\ todo = {}
  /\ todo' = Tracked
  /\ UNCHANGED <<store, meta, policy, job, provider, aged, lost, adrift>>

\* ... and runs RefreshIfNeeded for those that still need it.
RefreshListed(k) ==
  /\ k \in todo
  /\ todo' = todo \ {k}
  /\ RefreshRead(refresher, k)

\* A key whose token cannot be read, or that needs no refresh, is passed over.
SkipListed(k) ==
  /\ job[refresher].at = "idle"
  /\ k \in todo
  /\ todo' = todo \ {k}
  /\ \/ UNCHANGED meta
     \/ store[k] # NoToken /\ ~NeedsRefresh(k) /\ Touch(k)
  /\ UNCHANGED <<store, policy, job, provider, aged, lost, adrift>>

\* CleanupExpiredTokens, under tm.mu from start to end.  A token that cannot be
\* read counts as stale, and an error of Delete is ignored: the metadata goes.
Stale(k) ==
  \/ store[k] = NoToken
  \/ WrapperIsExpired(store[k])
  \/ meta[k] = "unused"

CleanupExpiredTokens ==
  \E unread \in SUBSET Tracked :
    LET gone == {k \in Tracked : Stale(k)} \cup unread
    IN  \E kept \in SUBSET gone :
          /\ store' = [k \in Keys |-> IF k \in gone \ kept THEN NoToken ELSE store[k]]
          /\ meta' = [k \in Keys |-> IF k \in gone THEN "none" ELSE meta[k]]
          /\ aged' = aged \ (gone \ kept)
          /\ adrift' = adrift \cup {k \in kept : store[k] # NoToken}
          /\ UNCHANGED <<policy, job, todo, provider, lost>>

\* External: the store drops an entry by itself.
StoreEvicts(k) ==
  /\ store[k] # NoToken
  /\ Drop(k)
  /\ UNCHANGED <<meta, policy, job, todo, provider, lost>>

\* Time: a cached token becomes due, an entry is left unused.  (A token with
\* no expiry never becomes due.)
Age(k) ==
  \/ /\ Refreshable(k) /\ store[k] # NoToken
     /\ k \notin aged
     /\ aged' = aged \cup {k}
     /\ UNCHANGED <<store, meta, policy, job, todo, provider, lost, adrift>>
  \/ /\ meta[k] = "used"
     /\ meta' = [meta EXCEPT ![k] = "unused"]
     /\ UNCHANGED <<store, policy, job, todo, provider, aged, lost, adrift>>

ClientStep(w) ==
  \/ \E k \in Keys : (RefreshRead(w, k) /\ UNCHANGED todo) \/ RevokeRead(w, k)
  \/ ProviderRevoke(w) \/ RevokeDrop(w)

RefreshStep(w) ==
  \/ ProviderRefresh(w) \/ AnswerLost(w) \/ HollowAnswer(w)
  \/ ProviderRefreshFails(w) \/ RefreshCache(w)

BackgroundStep == ListTokens \/ \E k \in Keys : RefreshListed(k) \/ SkipListed(k)

Next ==
  \/ \E k \in Keys :
       \/ Login(k) \/ GetCachedToken(k) \/ DeleteToken(k)
       \/ StoreEvicts(k) \/ Age(k)
  \/ \E w \in Clients : ClientStep(w)
  \/ \E w \in Workers : RefreshStep(w)
  \/ BackgroundStep
  \/ CleanupExpiredTokens

Spec == Init /\ [][Next]_vars

\* The background goroutines run and an answer that got through is cached.  A
\* key that is listed again and again is read some time, a provider asked again
\* and again honours the refresh token some time, and a store asked again and
\* again takes the answer.  Nothing says that a call to a provider ends.
Fairness ==
  /\ WF_vars(BackgroundStep)
  /\ \A w \in Workers : WF_vars(RefreshCache(w))
  /\ \A k \in {j \in Keys : Refreshable(j)} :
       /\ SF_vars(RefreshListed(k))
       /\ SF_vars(ProviderRefresh(refresher) /\ job[refresher].key = k)
       /\ SF_vars(RefreshCache(refresher) /\ job[refresher].key = k /\ k \notin aged')

FairSpec == Spec /\ Fairness

-----------------------------------------------------------------------------
TypeOK ==
  /\ store \in [Keys -> Gens \cup {NoToken}]
  /\ meta \in [Keys -> {"none", "used", "unused"}]
  /\ policy \in [Providers \ NonRefreshing -> Policies]
  /\ job \in [Workers -> {Idle} \cup [at : Stages, key : Keys, tok : Gens]]
  /\ todo \in SUBSET Keys
  /\ issued \in [Keys -> 0 .. MaxGen]
  /\ grant \in [Keys -> [Gens -> 0 .. MaxGen]]
  /\ accepted \in [Keys -> SUBSET Gens]
  /\ revoked \in [Keys -> SUBSET Gens]
  /\ aged \in SUBSET Keys
  /\ lost \in [Keys -> SUBSET Gens]
  /\ adrift \in SUBSET Keys

\* No mix of logins, refreshes that land late, evictions, failing deletes and
\* clean-ups lets a token sit in the store without metadata, but for a Store
\* that failed after its effect and a clean-up whose Delete failed: the token
\* would escape the per-user limit and no clean-up would ever look at it.
StoredIsTracked ==
  \A k \in Keys : store[k] # NoToken => k \in Tracked \cup adrift

\* The per-user limit holds, counted over all of a user's providers.
LimitRespected ==
  \A u \in Users : Cardinality(UserTokens(u)) <= MaxTokensPerUser

\* A cached token can be refreshed, unless its grant was revoked, a worker is
\* about to replace it or the newest refresh token of its login was lost: a
\* provider that rotates refresh tokens takes back the old one when it issues
\* the new, so overlapping refreshes must never leave the cache with, or send
\* it back to, the old one.
CachedIsUsable ==
  \A k \in Keys : store[k] # NoToken =>
    \/ store[k] \in accepted[k]
    \/ grant[k][store[k]] \in revoked[k] \cup lost[k]
    \/ \E w \in Workers : /\ job[w].at = "cache" /\ job[w].key = k
                          /\ grant[k][job[w].tok] = grant[k][store[k]]

\* The model issues no further token for a key that rotates.
BoundReached(k) == Rotating(k) /\ issued[k] = MaxGen

\* As long as none of the background task's calls to a provider hangs, a cached
\* token that needs a refresh and can have one does not stay in the cache: it
\* is replaced or it goes, unless it was revoked or its refresh token was lost,
\* the user has reached the limit, or the manager no longer tracks it.
DueIsReplaced ==
  []<>(job[refresher].at # "refresh") =>
    \A k \in {j \in Keys : Refreshable(j)} :
      NeedsRefresh(k) ~> \/ ~NeedsRefresh(k)
                         \/ grant[k][store[k]] \in revoked[k] \cup lost[k]
                         \/ AtLimit(k)
                         \/ k \in adrift
                         \/ BoundReached(k)
=============================================================================
