----------------------------- MODULE TokenProofs -----------------------------
(***************************************************************************)
(* Proofs about where OAuth tokens are kept: the token manager (module     *)
(* TokenManager), for every set of users, providers and clients and every  *)
(* limit, and the stores that wrap other stores (module StoreWrappers),    *)
(* for any callers and tokens.                                             *)
(***************************************************************************)
EXTENDS TokenManager, StoreWrappers, FiniteSetTheorems, TLAPS

-----------------------------------------------------------------------------
\* The token manager.

\* Every token in the store or in a worker's hands was issued, and an issued
\* token descends from a login.
IssuedTokens ==
  /\ \A k \in Keys : store[k] <= issued[k]
  /\ \A w \in Workers : job[w].at # "idle" => job[w].tok <= issued[job[w].key]
  /\ \A k \in Keys : \A g \in 1 .. issued[k] : grant[k][g] \in Gens

\* The inductive invariant: revocation records the login a token descends
\* from, so the types depend on where tokens come from.
TokenInv == TypeOK /\ IssuedTokens

\* The actions of Next, with the refresher and the clients told apart no more.
LEMMA NextActions ==
  ASSUME [Next]_vars
  PROVE  \/ \E k \in Keys : Login(k) \/ GetCachedToken(k) \/ DeleteToken(k)
                              \/ StoreEvicts(k) \/ Age(k) \/ SkipListed(k)
         \/ \E w \in Workers, k \in Keys :
              \/ RefreshRead(w, k) /\ todo' \subseteq todo
              \/ RevokeRead(w, k)
         \/ \E w \in Workers :
              \/ ProviderRefresh(w) \/ AnswerLost(w) \/ HollowAnswer(w)
              \/ ProviderRefreshFails(w) \/ RefreshCache(w)
              \/ ProviderRevoke(w) \/ RevokeDrop(w)
         \/ ListTokens \/ CleanupExpiredTokens \/ UNCHANGED vars
<1>1. refresher \in Workers /\ Clients \subseteq Workers
  BY DEF Workers
<1>2. ASSUME NEW k \in Keys, RefreshListed(k)
      PROVE  RefreshRead(refresher, k) /\ todo' \subseteq todo
  BY <1>2 DEF RefreshListed
<1>3. ASSUME NEW w \in Clients, ClientStep(w)
      PROVE  \/ \E k \in Keys : \/ RefreshRead(w, k) /\ todo' \subseteq todo
                                \/ RevokeRead(w, k)
             \/ ProviderRevoke(w) \/ RevokeDrop(w)
  BY <1>3 DEF ClientStep
<1> QED
  BY <1>1, <1>2, <1>3 DEF Next, BackgroundStep, RefreshStep

LEMMA IdleIsIdle == Idle.at = "idle"
BY DEF Idle

\* A worker that is not idle has a key and a token in hand.
LEMMA BusyJob ==
  ASSUME TypeOK, NEW w \in Workers, job[w].at # "idle"
  PROVE  job[w] \in [at : Stages, key : Keys, tok : Gens]
BY IdleIsIdle DEF TypeOK

\* A key whose token is in the store and neither tracked nor adrift.
Untracked(k) == store[k] # NoToken /\ meta[k] = "none" /\ k \notin adrift

\* What caching a token does to the store and its bookkeeping.
LEMMA CacheTokenType ==
  ASSUME TypeOK, NEW k \in Keys, NEW g \in Gens, CacheToken(k, g)
  PROVE  /\ store' \in [Keys -> Gens \cup {NoToken}]
         /\ meta' \in [Keys -> {"none", "used", "unused"}]
         /\ aged' \in SUBSET Keys
         /\ adrift' \in SUBSET Keys
         /\ \A j \in Keys : store'[j] = store[j] \/ (j = k /\ store'[j] = g)
         /\ \A j \in Keys : Untracked(j)' => Untracked(j)
         /\ \A j \in Keys : meta'[j] = meta[j] \/ (j = k /\ ~AtLimit(k))
<1>1. CASE StoreUnchanged /\ UNCHANGED meta
  BY <1>1 DEF StoreUnchanged, TypeOK, Untracked
<1>2. CASE /\ ~AtLimit(k) /\ Put(k, g)
           /\ meta' = [meta EXCEPT ![k] = "used"] /\ adrift' = adrift \ {k}
  BY <1>2 DEF Put, TypeOK, Untracked
<1>3. CASE /\ Put(k, g) /\ UNCHANGED meta
           /\ adrift' = IF k \in Tracked THEN adrift ELSE adrift \cup {k}
  BY <1>3 DEF Put, TypeOK, Untracked, Tracked
<1> QED
  BY <1>1, <1>2, <1>3 DEF CacheToken

\* What DeleteToken does to them.
LEMMA RemoveType ==
  ASSUME TypeOK, NEW k \in Keys, Remove(k)
  PROVE  /\ store' = store \/ store' = [store EXCEPT ![k] = NoToken]
         /\ meta' \in [Keys -> {"none", "used", "unused"}]
         /\ aged' \in SUBSET Keys
         /\ adrift' \in SUBSET Keys
         /\ \A j \in Keys : Untracked(j)' => Untracked(j)
         /\ \A j \in Keys : meta[j] = "none" => meta'[j] = "none"
<1>1. CASE Drop(k) /\ meta' = [meta EXCEPT ![k] = "none"]
  BY <1>1 DEF Drop, Put, TypeOK, Untracked, NoToken
<1>2. CASE Drop(k) /\ UNCHANGED meta
  BY <1>2 DEF Drop, Put, TypeOK, Untracked, NoToken
<1>3. CASE StoreUnchanged /\ UNCHANGED meta
  BY <1>3 DEF StoreUnchanged, TypeOK, Untracked
<1> QED
  BY <1>1, <1>2, <1>3 DEF Remove

\* What it means to issue a token: the next generation, of a known login.
LEMMA IssueType ==
  ASSUME TokenInv, NEW k \in Keys, NEW b \in 0 .. MaxGen, NEW gone,
         Issue(k, b, gone)
  PROVE  /\ issued[k] + 1 \in Gens
         /\ issued' \in [Keys -> 0 .. MaxGen]
         /\ issued'[k] = issued[k] + 1
         /\ \A j \in Keys : issued[j] <= issued'[j]
         /\ grant' \in [Keys -> [Gens -> 0 .. MaxGen]]
         /\ \A j \in Keys : \A g \in 1 .. issued'[j] : grant'[j][g] \in Gens
         /\ accepted' \in [Keys -> SUBSET Gens]
         /\ UNCHANGED revoked
<1> USE TokenManagerAssumption DEF TokenInv, TypeOK, IssuedTokens, Issue, Gens
<1> DEFINE g == issued[k] + 1
<1>1. g \in Gens /\ issued[k] \in 0 .. MaxGen
  OBVIOUS
<1>2. issued' = [issued EXCEPT ![k] = g]
  OBVIOUS
<1>3. issued' \in [Keys -> 0 .. MaxGen] /\ issued'[k] = g
  BY <1>1, <1>2
<1>4. \A j \in Keys : issued[j] <= issued'[j]
  BY <1>1, <1>2
<1>5. (IF b = 0 THEN g ELSE b) \in Gens
  BY <1>1
<1>6. grant' = [grant EXCEPT ![k][g] = IF b = 0 THEN g ELSE b]
  OBVIOUS
<1>7. grant' \in [Keys -> [Gens -> 0 .. MaxGen]]
  BY <1>1, <1>5, <1>6
<1>8. ASSUME NEW j \in Keys, NEW h \in 1 .. issued'[j]
      PROVE  grant'[j][h] \in Gens
  <2>1. CASE j = k /\ h = g
    BY <2>1, <1>1, <1>5, <1>6
  <2>2. CASE ~(j = k /\ h = g)
    <3>1. h \in 1 .. issued[j] /\ h \in Gens
      BY <2>2, <1>1, <1>2, <1>3
    <3>2. grant'[j][h] = grant[j][h]
      BY <2>2, <3>1, <1>1, <1>6
    <3> QED
      BY <3>1, <3>2
  <2> QED
    BY <2>1, <2>2
<1>9. accepted' \in [Keys -> SUBSET Gens]
  BY <1>1
<1> QED
  BY <1>1, <1>3, <1>4, <1>7, <1>8, <1>9

-----------------------------------------------------------------------------
\* Initially no token exists.
LEMMA InitTokenInv == Init => TokenInv
BY TokenManagerAssumption, IdleIsIdle
DEF Init, TokenInv, TypeOK, IssuedTokens, Gens, NoToken

\* A step that at most drops the entry of a key.
LEMMA DropTokenInv ==
  ASSUME TokenInv, NEW k \in Keys,
         UNCHANGED <<policy, job, issued, grant, accepted, revoked, lost>>,
         store' = store \/ store' = [store EXCEPT ![k] = NoToken],
         meta' \in [Keys -> {"none", "used", "unused"}],
         todo' \in SUBSET Keys,
         aged' \in SUBSET Keys,
         adrift' \in SUBSET Keys
  PROVE  TokenInv'
<1>1. TypeOK'
  BY DEF TokenInv, TypeOK
<1>2. \A j \in Keys : store'[j] <= issued'[j]
  BY TokenManagerAssumption DEF TokenInv, TypeOK, IssuedTokens, NoToken
<1> QED
  BY <1>1, <1>2 DEF TokenInv, IssuedTokens

\* A step of the application, the store or the refresher on one key.
LEMMA KeyStepTokenInv ==
  ASSUME TokenInv, NEW k \in Keys,
         \/ Login(k) \/ GetCachedToken(k) \/ DeleteToken(k)
         \/ StoreEvicts(k) \/ Age(k) \/ SkipListed(k)
  PROVE  TokenInv'
<1>1. CASE Login(k)
  <2>1. Issue(k, 0, {}) /\ CacheToken(k, issued[k] + 1)
    BY <1>1 DEF Login
  <2>2. 0 \in 0 .. MaxGen
    BY TokenManagerAssumption
  <2>3. /\ issued[k] + 1 \in Gens
        /\ issued' \in [Keys -> 0 .. MaxGen]
        /\ issued'[k] = issued[k] + 1
        /\ \A j \in Keys : issued[j] <= issued'[j]
        /\ grant' \in [Keys -> [Gens -> 0 .. MaxGen]]
        /\ \A j \in Keys : \A g \in 1 .. issued'[j] : grant'[j][g] \in Gens
        /\ accepted' \in [Keys -> SUBSET Gens]
        /\ UNCHANGED revoked
    BY <2>1, <2>2, IssueType
  <2>4. /\ store' \in [Keys -> Gens \cup {NoToken}]
        /\ meta' \in [Keys -> {"none", "used", "unused"}]
        /\ aged' \in SUBSET Keys
        /\ adrift' \in SUBSET Keys
        /\ \A j \in Keys :
             store'[j] = store[j] \/ (j = k /\ store'[j] = issued[k] + 1)
    BY <2>1, <2>3, CacheTokenType DEF TokenInv
  <2>5. UNCHANGED <<policy, job, todo, lost>>
    BY <1>1 DEF Login
  <2>6. TypeOK'
    BY <2>3, <2>4, <2>5 DEF TokenInv, TypeOK
  <2>7. \A j \in Keys : store'[j] <= issued'[j]
    <3>1. \A j \in Keys : /\ store[j] \in Int /\ store[j] <= issued[j]
                          /\ issued[j] \in Int /\ issued'[j] \in Int
      BY <2>3, TokenManagerAssumption
      DEF TokenInv, TypeOK, IssuedTokens, Gens, NoToken
    <3> QED
      BY <2>3, <2>4, <3>1
  <2>8. ASSUME NEW w \in Workers, job'[w].at # "idle"
        PROVE  job'[w].tok <= issued'[job'[w].key]
    <3>1. /\ job[w].key \in Keys /\ job[w].tok \in Int
          /\ job[w].tok <= issued[job[w].key]
      BY <2>5, <2>8, BusyJob, TokenManagerAssumption
      DEF TokenInv, IssuedTokens, Gens
    <3>2. \A j \in Keys : issued[j] \in Int /\ issued'[j] \in Int
      BY <2>3, TokenManagerAssumption DEF TokenInv, TypeOK
    <3> QED
      BY <2>3, <2>5, <3>1, <3>2
  <2> QED
    BY <2>3, <2>6, <2>7, <2>8 DEF TokenInv, IssuedTokens
<1>2. CASE \/ GetCachedToken(k) \/ DeleteToken(k) \/ StoreEvicts(k)
           \/ Age(k) \/ SkipListed(k)
  <2>1. /\ UNCHANGED <<policy, job, issued, grant, accepted, revoked, lost>>
        /\ todo' \in SUBSET Keys
    BY <1>2 DEF GetCachedToken, DeleteToken, StoreEvicts, Age, SkipListed,
       TokenInv, TypeOK, provider
  <2>2. CASE DeleteToken(k)
    <3>1. Remove(k)
      BY <2>2 DEF DeleteToken
    <3>2. /\ store' = store \/ store' = [store EXCEPT ![k] = NoToken]
          /\ meta' \in [Keys -> {"none", "used", "unused"}]
          /\ aged' \in SUBSET Keys
          /\ adrift' \in SUBSET Keys
      BY <3>1, RemoveType DEF TokenInv
    <3> QED
      BY <2>1, <3>2, DropTokenInv
  <2>3. CASE GetCachedToken(k) \/ StoreEvicts(k) \/ Age(k) \/ SkipListed(k)
    <3>1. store' = store \/ store' = [store EXCEPT ![k] = NoToken]
      BY <2>3 DEF GetCachedToken, StoreEvicts, Age, SkipListed, Drop, Put
    <3>2. meta' \in [Keys -> {"none", "used", "unused"}]
      BY <2>3 DEF GetCachedToken, StoreEvicts, Age, SkipListed, Touch,
         TokenInv, TypeOK
    <3>3. aged' \in SUBSET Keys /\ adrift' \in SUBSET Keys
      BY <2>3 DEF GetCachedToken, StoreEvicts, Age, SkipListed, Drop, Put,
         TokenInv, TypeOK
    <3> QED
      BY <2>1, <3>1, <3>2, <3>3, DropTokenInv
  <2> QED
    BY <1>2, <2>2, <2>3
<1> QED
  BY <1>1, <1>2

\* A worker moves: what the moves of RefreshIfNeeded and RevokeToken that touch
\* neither the store nor the provider have in common.
LEMMA MoveTokenInv ==
  ASSUME TokenInv, NEW w \in Workers, NEW j,
         j.at = "idle" \/ j.tok <= issued[j.key],
         j = Idle \/ j \in [at : Stages, key : Keys, tok : Gens],
         job' = [job EXCEPT ![w] = j],
         UNCHANGED <<policy, issued, grant>>,
         store' \in [Keys -> Gens \cup {NoToken}],
         \A k \in Keys : store'[k] <= issued[k],
         meta' \in [Keys -> {"none", "used", "unused"}],
         todo' \in SUBSET Keys,
         accepted' \in [Keys -> SUBSET Gens],
         revoked' \in [Keys -> SUBSET Gens],
         aged' \in SUBSET Keys,
         lost' \in [Keys -> SUBSET Gens],
         adrift' \in SUBSET Keys
  PROVE  TokenInv'
<1>1. job' \in [Workers -> {Idle} \cup [at : Stages, key : Keys, tok : Gens]]
  BY DEF TokenInv, TypeOK
<1>2. TypeOK'
  BY <1>1 DEF TokenInv, TypeOK
<1>3. ASSUME NEW v \in Workers, job'[v].at # "idle"
      PROVE  job'[v].tok <= issued'[job'[v].key]
  <2>1. job'[v] = IF v = w THEN j ELSE job[v]
    BY DEF TokenInv, TypeOK
  <2> QED
    BY <1>3, <2>1 DEF TokenInv, IssuedTokens
<1> QED
  BY <1>2, <1>3 DEF TokenInv, IssuedTokens

\* RefreshIfNeeded and RevokeToken read a token and hold it.
LEMMA ReadTokenInv ==
  ASSUME TokenInv, NEW w \in Workers, NEW k \in Keys,
         \/ RefreshRead(w, k) /\ todo' \subseteq todo
         \/ RevokeRead(w, k)
  PROVE  TokenInv'
<1>1. PICK s \in Stages :
        job' = [job EXCEPT ![w] = [at |-> s, key |-> k, tok |-> store[k]]]
  BY DEF RefreshRead, RevokeRead, Stages
<1>2. store[k] \in Gens
  BY DEF RefreshRead, RevokeRead, NeedsRefresh, TokenInv, TypeOK
<1> DEFINE j == [at |-> s, key |-> k, tok |-> store[k]]
<1>3. j \in [at : Stages, key : Keys, tok : Gens] /\ j.tok <= issued[j.key]
  BY <1>2 DEF TokenInv, IssuedTokens
<1>4. /\ UNCHANGED <<store, policy, issued, grant, accepted, revoked, aged,
                      lost, adrift>>
      /\ todo' \in SUBSET Keys
      /\ meta' \in [Keys -> {"none", "used", "unused"}]
  BY DEF RefreshRead, RevokeRead, Touch, provider, TokenInv, TypeOK
<1>5. \A i \in Keys : store'[i] <= issued[i]
  BY <1>4 DEF TokenInv, IssuedTokens
<1>6. /\ store' \in [Keys -> Gens \cup {NoToken}]
      /\ accepted' \in [Keys -> SUBSET Gens] /\ revoked' \in [Keys -> SUBSET Gens]
      /\ aged' \in SUBSET Keys /\ lost' \in [Keys -> SUBSET Gens]
      /\ adrift' \in SUBSET Keys
  BY <1>4 DEF TokenInv, TypeOK
<1> HIDE DEF j
<1> QED
  BY <1>1, <1>3, <1>4, <1>5, <1>6, MoveTokenInv DEF j

\* The provider trades the token in a worker's hands for the next one, whatever
\* of its answer gets through.
LEMMA TradeTokenInv ==
  ASSUME TokenInv, NEW w \in Workers, NEW k \in Keys, NEW g \in Gens, NEW j,
         Issue(k, grant[k][g], {g}),
         j \in [at : Stages, key : Keys, tok : Gens],
         j.key = k, j.tok <= issued[k] + 1,
         job' = [job EXCEPT ![w] = j],
         lost' \in [Keys -> SUBSET Gens],
         UNCHANGED <<store, meta, policy, todo, aged, adrift>>
  PROVE  TokenInv'
<1>1. grant[k][g] \in 0 .. MaxGen
  BY DEF TokenInv, TypeOK
<1>2. /\ issued[k] + 1 \in Gens
      /\ issued' \in [Keys -> 0 .. MaxGen]
      /\ issued'[k] = issued[k] + 1
      /\ \A i \in Keys : issued[i] <= issued'[i]
      /\ grant' \in [Keys -> [Gens -> 0 .. MaxGen]]
      /\ \A i \in Keys : \A h \in 1 .. issued'[i] : grant'[i][h] \in Gens
      /\ accepted' \in [Keys -> SUBSET Gens]
      /\ UNCHANGED revoked
  BY <1>1, IssueType
<1>3. \A i \in Keys : issued[i] \in Int /\ issued'[i] \in Int
  BY <1>2, TokenManagerAssumption DEF TokenInv, TypeOK
<1>4. \A v \in Workers : job'[v] = IF v = w THEN j ELSE job[v]
  BY DEF TokenInv, TypeOK
<1>5. job' \in [Workers -> {Idle} \cup [at : Stages, key : Keys, tok : Gens]]
  BY DEF TokenInv, TypeOK
<1>6. TypeOK'
  BY <1>2, <1>5 DEF TokenInv, TypeOK
<1>7. \A i \in Keys : store'[i] <= issued'[i]
  <2>1. \A i \in Keys : store[i] \in Int /\ store[i] <= issued[i]
    BY TokenManagerAssumption DEF TokenInv, TypeOK, IssuedTokens, Gens, NoToken
  <2> QED
    BY <1>2, <1>3, <2>1
<1>8. ASSUME NEW v \in Workers, job'[v].at # "idle"
      PROVE  job'[v].tok <= issued'[job'[v].key]
  <2>1. CASE v = w
    BY <2>1, <1>2, <1>4
  <2>2. CASE v # w
    <3>1. /\ job[v].key \in Keys /\ job[v].tok \in Int
          /\ job[v].tok <= issued[job[v].key]
      BY <2>2, <1>4, <1>8, BusyJob, TokenManagerAssumption
      DEF TokenInv, IssuedTokens, Gens
    <3> QED
      BY <2>2, <3>1, <1>2, <1>3, <1>4
  <2> QED
    BY <2>1, <2>2
<1> QED
  BY <1>2, <1>6, <1>7, <1>8 DEF TokenInv, IssuedTokens

\* The login of the token in a worker's hands.
LEMMA HeldGrant ==
  ASSUME TokenInv, NEW w \in Workers, job[w].at # "idle"
  PROVE  /\ job[w] \in [at : Stages, key : Keys, tok : Gens]
         /\ job[w].tok \in 1 .. issued[job[w].key]
         /\ grant[job[w].key][job[w].tok] \in Gens
<1>1. job[w] \in [at : Stages, key : Keys, tok : Gens]
  BY BusyJob DEF TokenInv
<1>2. job[w].tok <= issued[job[w].key] /\ issued[job[w].key] \in 0 .. MaxGen
  BY <1>1 DEF TokenInv, TypeOK, IssuedTokens
<1>3. job[w].tok \in 1 .. issued[job[w].key]
  BY <1>1, <1>2, TokenManagerAssumption DEF Gens
<1> QED
  BY <1>1, <1>3 DEF TokenInv, IssuedTokens

\* The provider answers, or its answer is lost after it rotated the token.
LEMMA ProviderRefreshTokenInv ==
  ASSUME TokenInv, NEW w \in Workers, ProviderRefresh(w) \/ AnswerLost(w)
  PROVE  TokenInv'
<1>0. PICK k, g, b : k = job[w].key /\ g = job[w].tok /\ b = grant[k][g]
  OBVIOUS
<1>1. /\ job[w] \in [at : Stages, key : Keys, tok : Gens] /\ job[w].at = "refresh"
      /\ k \in Keys /\ g \in Gens /\ g <= issued[k] /\ b \in Gens
      /\ issued[k] \in Int
  <2>1. job[w].at = "refresh"
    BY DEF ProviderRefresh, AnswerLost
  <2> QED
    BY <1>0, <2>1, HeldGrant DEF TokenInv, TypeOK, IssuedTokens
<1>2. /\ UNCHANGED <<store, meta, policy, todo, aged, adrift>>
      /\ {"refresh", "cache"} \subseteq Stages
  BY DEF ProviderRefresh, AnswerLost, Stages
<1> DEFINE moved == [job[w] EXCEPT !.at = "cache"]
           fresh == [job[w] EXCEPT !.at = "cache", !.tok = issued[k] + 1]
           more == [lost EXCEPT ![k] = @ \cup {b}]
<1>3. /\ moved \in [at : Stages, key : Keys, tok : Gens]
      /\ more \in [Keys -> SUBSET Gens] /\ lost \in [Keys -> SUBSET Gens]
  BY <1>1, <1>2 DEF TokenInv, TypeOK
<1>4. /\ [job EXCEPT ![w].at = "cache"] = [job EXCEPT ![w] = moved]
      /\ [job EXCEPT ![w].at = "cache", ![w].tok = issued[k] + 1]
           = [job EXCEPT ![w] = fresh]
      /\ [job EXCEPT ![w] = job[w]] = job
  BY <1>0, <1>1 DEF TokenInv, TypeOK
<1>5. \/ /\ job' = [job EXCEPT ![w] = moved] /\ UNCHANGED <<provider, lost>>
      \/ /\ Issue(k, b, {g}) /\ job' = [job EXCEPT ![w] = fresh] /\ lost' = lost
      \/ /\ Issue(k, b, {g}) /\ job' = [job EXCEPT ![w] = moved] /\ lost' = more
      \/ /\ Issue(k, b, {g}) /\ job' = [job EXCEPT ![w] = job[w]] /\ lost' = more
  BY <1>0, <1>4 DEF ProviderRefresh, AnswerLost
<1>6. CASE job' = [job EXCEPT ![w] = moved] /\ UNCHANGED <<provider, lost>>
  <2>1. moved.tok <= issued[moved.key]
    BY <1>0, <1>1
  <2>2. /\ UNCHANGED <<policy, issued, grant>>
        /\ store' \in [Keys -> Gens \cup {NoToken}]
        /\ \A i \in Keys : store'[i] <= issued[i]
        /\ meta' \in [Keys -> {"none", "used", "unused"}]
        /\ todo' \in SUBSET Keys
        /\ accepted' \in [Keys -> SUBSET Gens]
        /\ revoked' \in [Keys -> SUBSET Gens]
        /\ aged' \in SUBSET Keys /\ adrift' \in SUBSET Keys
        /\ lost' \in [Keys -> SUBSET Gens]
    BY <1>2, <1>6 DEF provider, TokenInv, TypeOK, IssuedTokens
  <2> HIDE DEF moved
  <2> QED
    BY <1>3, <1>6, <2>1, <2>2, MoveTokenInv
<1>7. CASE ~(job' = [job EXCEPT ![w] = moved] /\ UNCHANGED <<provider, lost>>)
  <2>1. Issue(k, grant[k][g], {g})
    BY <1>0, <1>5, <1>7
  <2>2. PICK j \in {fresh, moved, job[w]} :
          /\ job' = [job EXCEPT ![w] = j] /\ lost' \in {lost, more}
    BY <1>5, <1>7
  <2>3. issued[k] + 1 \in Gens
    BY <2>1 DEF Issue
  <2>4. /\ j \in [at : Stages, key : Keys, tok : Gens]
        /\ j.key = k /\ j.tok <= issued[k] + 1
    <3>1. CASE j = fresh
      <4>1. "cache" \in Stages
        BY <1>2
      <4>2. j \in [at : Stages, key : Keys, tok : Gens]
        BY <1>1, <2>3, <3>1, <4>1
      <4>3. j.key = k /\ j.tok = issued[k] + 1
        BY <1>0, <1>1, <3>1
      <4> QED
        BY <1>1, <4>2, <4>3
    <3>2. CASE j = moved
      BY <1>0, <1>1, <1>2, <3>2, TokenManagerAssumption DEF Gens
    <3>3. CASE j = job[w]
      BY <1>0, <1>1, <3>3, TokenManagerAssumption DEF Gens
    <3> HIDE DEF moved, fresh
    <3> QED
      BY <2>2, <3>1, <3>2, <3>3
  <2>5. lost' \in [Keys -> SUBSET Gens]
    BY <1>3, <2>2
  <2> HIDE DEF moved, fresh, more
  <2> QED
    BY <1>1, <1>2, <2>1, <2>2, <2>4, <2>5, TradeTokenInv
<1> QED
  BY <1>6, <1>7

\* A worker's job ends, or goes on from the provider to the cache.
LEMMA WorkerStepTokenInv ==
  ASSUME TokenInv, NEW w \in Workers,
         \/ HollowAnswer(w) \/ ProviderRefreshFails(w) \/ RefreshCache(w)
         \/ ProviderRevoke(w) \/ RevokeDrop(w)
  PROVE  TokenInv'
<1> DEFINE k == job[w].key
           g == job[w].tok
<1>1. k \in Keys /\ g \in Gens /\ g <= issued[k] /\ grant[k][g] \in Gens
      /\ job[w] \in [at : Stages, key : Keys, tok : Gens]
  <2>1. job[w].at # "idle"
    BY DEF HollowAnswer, ProviderRefreshFails, RefreshCache, ProviderRevoke,
       RevokeDrop
  <2> QED
    BY <2>1, HeldGrant DEF TokenInv, IssuedTokens
<1>2. UNCHANGED <<policy, todo, issued, grant>> /\ todo' \in SUBSET Keys
  BY DEF HollowAnswer, ProviderRefreshFails, RefreshCache, ProviderRevoke,
     RevokeDrop, provider, TokenInv, TypeOK
<1>3. /\ store' \in [Keys -> Gens \cup {NoToken}]
      /\ \A i \in Keys : store'[i] <= issued[i]
      /\ meta' \in [Keys -> {"none", "used", "unused"}]
      /\ aged' \in SUBSET Keys
      /\ adrift' \in SUBSET Keys
  <2>1. CASE RefreshCache(w)
    <3>1. CacheToken(k, g)
      BY <2>1 DEF RefreshCache
    <3> HIDE DEF k, g
    <3> QED
      BY <1>1, <3>1, CacheTokenType DEF TokenInv, IssuedTokens
  <2>2. CASE RevokeDrop(w)
    <3>1. Remove(k)
      BY <2>2 DEF RevokeDrop
    <3> HIDE DEF k, g
    <3>2. /\ store' = store \/ store' = [store EXCEPT ![k] = NoToken]
          /\ meta' \in [Keys -> {"none", "used", "unused"}]
          /\ aged' \in SUBSET Keys
          /\ adrift' \in SUBSET Keys
      BY <1>1, <3>1, RemoveType DEF TokenInv
    <3>3. \A i \in Keys : 0 <= issued[i]
      BY TokenManagerAssumption DEF TokenInv, TypeOK
    <3>4. store' \in [Keys -> Gens \cup {NoToken}]
      BY <3>2 DEF TokenInv, TypeOK
    <3>5. \A i \in Keys : store'[i] <= issued[i]
      BY <1>1, <3>2, <3>3 DEF TokenInv, TypeOK, IssuedTokens, NoToken
    <3> QED
      BY <3>2, <3>4, <3>5
  <2>3. CASE HollowAnswer(w) \/ ProviderRefreshFails(w) \/ ProviderRevoke(w)
    <3>1. UNCHANGED <<store, meta, aged, adrift>>
      BY <2>3 DEF HollowAnswer, ProviderRefreshFails, ProviderRevoke
    <3> QED
      BY <3>1 DEF TokenInv, TypeOK, IssuedTokens
  <2> QED
    BY <2>1, <2>2, <2>3
<1>5. accepted' \in [Keys -> SUBSET Gens] /\ revoked' \in [Keys -> SUBSET Gens]
  <2>1. CASE ProviderRevoke(w)
    <3>2. \/ /\ revoked' = [revoked EXCEPT ![k] = @ \cup {grant[k][g]}]
             /\ accepted' = [accepted EXCEPT ![k] =
                               {h \in @ : grant[k][h] # grant[k][g]}]
          \/ UNCHANGED <<revoked, accepted>>
      BY <2>1 DEF ProviderRevoke
    <3> HIDE DEF k, g
    <3>3. CASE revoked' = [revoked EXCEPT ![k] = @ \cup {grant[k][g]}]
      BY <1>1, <3>2, <3>3 DEF TokenInv, TypeOK
    <3>4. CASE UNCHANGED <<revoked, accepted>>
      BY <3>4 DEF TokenInv, TypeOK
    <3> QED
      BY <3>2, <3>3, <3>4
  <2>2. CASE ~ProviderRevoke(w)
    BY <2>2 DEF HollowAnswer, ProviderRefreshFails, RefreshCache, RevokeDrop,
       provider, TokenInv, TypeOK
  <2> QED
    BY <2>1, <2>2
<1>6. lost' \in [Keys -> SUBSET Gens]
  <2>1. lost' = lost \/ lost' = [lost EXCEPT ![k] = @ \cup {grant[k][g]}]
    <3>1. CASE HollowAnswer(w)
      <4>1. lost' = [lost EXCEPT ![k] = IF Rotating(k) THEN @ \cup {grant[k][g]} ELSE @]
        BY <3>1 DEF HollowAnswer
      <4>2. [lost EXCEPT ![k] = @] = lost
        BY DEF TokenInv, TypeOK
      <4> QED
        BY <4>1, <4>2
    <3>2. CASE ~HollowAnswer(w)
      BY <3>2 DEF ProviderRefreshFails, RefreshCache, Unsaved, ProviderRevoke,
         RevokeDrop
    <3> QED
      BY <3>1, <3>2
  <2> HIDE DEF k, g
  <2> QED
    BY <1>1, <2>1 DEF TokenInv, TypeOK
<1>7. CASE ProviderRevoke(w) \/ HollowAnswer(w)
  <2>1. PICK s \in {"drop", "cache"} : job' = [job EXCEPT ![w].at = s]
    BY <1>7 DEF ProviderRevoke, HollowAnswer
  <2> DEFINE j == [job[w] EXCEPT !.at = s]
  <2>2. job' = [job EXCEPT ![w] = j]
    BY <2>1 DEF TokenInv, TypeOK
  <2>3. j \in [at : Stages, key : Keys, tok : Gens] /\ j.tok <= issued[j.key]
    BY <1>1 DEF Stages
  <2> HIDE DEF j, k, g
  <2> QED
    BY <1>2, <1>3, <1>5, <1>6, <2>2, <2>3, MoveTokenInv
<1>8. CASE ~(ProviderRevoke(w) \/ HollowAnswer(w))
  <2>1. job' = [job EXCEPT ![w] = Idle]
    BY <1>8 DEF ProviderRefreshFails, RefreshCache, RevokeDrop
  <2> HIDE DEF k, g
  <2> QED
    BY <1>2, <1>3, <1>5, <1>6, <2>1, IdleIsIdle, MoveTokenInv
<1> QED
  BY <1>7, <1>8

\* The refresher makes its list, the clean-up runs, or nothing happens.
LEMMA BackgroundTokenInv ==
  ASSUME TokenInv, ListTokens \/ CleanupExpiredTokens \/ UNCHANGED vars
  PROVE  TokenInv'
<1>1. /\ UNCHANGED <<policy, job, issued, grant, accepted, revoked, lost>>
      /\ todo' \in SUBSET Keys /\ aged' \in SUBSET Keys
      /\ adrift' \in SUBSET Keys
  BY DEF ListTokens, CleanupExpiredTokens, vars, provider, Tracked, TokenInv, TypeOK
<1>2. /\ store' \in [Keys -> Gens \cup {NoToken}]
      /\ meta' \in [Keys -> {"none", "used", "unused"}]
      /\ \A k \in Keys : store'[k] = store[k] \/ store'[k] = NoToken
  BY DEF ListTokens, CleanupExpiredTokens, vars, TokenInv, TypeOK
<1>3. TypeOK'
  BY <1>1, <1>2 DEF TokenInv, TypeOK
<1>4. \A k \in Keys : store'[k] <= issued'[k]
  BY <1>1, <1>2, TokenManagerAssumption
  DEF TokenInv, TypeOK, IssuedTokens, NoToken
<1> QED
  BY <1>1, <1>3, <1>4 DEF TokenInv, IssuedTokens

\* The inductive invariant holds.
LEMMA TokenInvariant == Spec => []TokenInv
<1>1. TokenInv /\ [Next]_vars => TokenInv'
  <2> SUFFICES ASSUME TokenInv, [Next]_vars PROVE TokenInv'
    OBVIOUS
  <2> QED
    BY NextActions, KeyStepTokenInv, ReadTokenInv, ProviderRefreshTokenInv,
       WorkerStepTokenInv, BackgroundTokenInv
<1> QED
  BY <1>1, InitTokenInv, PTL DEF Spec

\* Type correctness.
THEOREM TokenTypeCorrect == Spec => []TypeOK
BY TokenInvariant, PTL DEF TokenInv

\* A step either caches a token that was issued, or leaves no token untracked
\* that was not and tracks no further key.
LEMMA StepOnEntries ==
  ASSUME TokenInv, [Next]_vars
  PROVE  \/ \E k \in Keys, g \in Gens : CacheToken(k, g)
         \/ \A k \in Keys : /\ Untracked(k)' => Untracked(k)
                            /\ meta[k] = "none" => meta'[k] = "none"
<1> USE DEF TokenInv, TypeOK
<1>1. ASSUME NEW k \in Keys, Login(k)
      PROVE  \E g \in Gens : CacheToken(k, g)
  BY <1>1 DEF Login, Issue
<1>2. ASSUME NEW w \in Workers, RefreshCache(w)
      PROVE  \E k \in Keys, g \in Gens : CacheToken(k, g)
  <2>1. job[w] \in [at : Stages, key : Keys, tok : Gens]
    BY <1>2, BusyJob DEF RefreshCache
  <2> QED
    BY <1>2, <2>1 DEF RefreshCache
<1> DEFINE Kept ==
      \A k \in Keys : /\ Untracked(k)' => Untracked(k)
                      /\ meta[k] = "none" => meta'[k] = "none"
<1>3. ASSUME NEW k \in Keys, GetCachedToken(k) \/ StoreEvicts(k) \/ Age(k)
                               \/ SkipListed(k)
      PROVE  Kept
  BY <1>3 DEF GetCachedToken, StoreEvicts, Age, SkipListed, Touch, Drop, Put,
     Untracked, NoToken
<1>4. ASSUME NEW k \in Keys, Remove(k)
      PROVE  Kept
  BY <1>4, RemoveType
<1>5. ASSUME NEW w \in Workers, NEW k \in Keys, RefreshRead(w, k) \/ RevokeRead(w, k)
      PROVE  Kept
  BY <1>5 DEF RefreshRead, RevokeRead, Touch, Untracked
<1>6. ASSUME NEW w \in Workers,
             \/ ProviderRefresh(w) \/ AnswerLost(w) \/ HollowAnswer(w)
             \/ ProviderRefreshFails(w) \/ ProviderRevoke(w)
      PROVE  Kept
  <2>1. UNCHANGED <<store, meta, adrift>>
    BY <1>6 DEF ProviderRefresh, AnswerLost, HollowAnswer, ProviderRefreshFails,
       ProviderRevoke
  <2> QED
    BY <2>1 DEF Untracked
<1>7. ASSUME NEW w \in Workers, RevokeDrop(w)
      PROVE  Kept
  <2>1. job[w] \in [at : Stages, key : Keys, tok : Gens]
    BY <1>7, BusyJob DEF RevokeDrop
  <2> QED
    BY <1>7, <2>1, <1>4 DEF RevokeDrop
<1>8. ASSUME ListTokens \/ UNCHANGED vars
      PROVE  Kept
  BY <1>8 DEF ListTokens, vars, Untracked
<1>9. ASSUME CleanupExpiredTokens
      PROVE  Kept
  <2>1. PICK gone \in SUBSET Keys, kept \in SUBSET Keys :
          /\ kept \subseteq gone
          /\ store' = [k \in Keys |-> IF k \in gone \ kept THEN NoToken ELSE store[k]]
          /\ meta' = [k \in Keys |-> IF k \in gone THEN "none" ELSE meta[k]]
          /\ adrift' = adrift \cup {k \in kept : store[k] # NoToken}
    BY <1>9 DEF CleanupExpiredTokens, Tracked
  <2> QED
    BY <2>1 DEF Untracked
<1>10. ASSUME NEW k \in Keys, DeleteToken(k)
       PROVE  Kept
  BY <1>10, <1>4 DEF DeleteToken
<1> HIDE DEF Kept, TokenInv, TypeOK
<1>11. (\E k \in Keys, g \in Gens : CacheToken(k, g)) \/ Kept
  BY <1>1, <1>2, <1>3, <1>5, <1>6, <1>7, <1>8, <1>9, <1>10, NextActions
<1> QED
  BY <1>11 DEF Kept

\* No interleaving of refreshes, revocations, evictions and clean-ups leaves a
\* token in the store that the limit and the clean-up do not know of, but for
\* the two errors of the store that set it adrift.
THEOREM StoredAlwaysTracked == Spec => []StoredIsTracked
<1>1. StoredIsTracked <=> \A k \in Keys : ~Untracked(k)
  BY DEF StoredIsTracked, Tracked, Untracked
<1>2. StoredIsTracked' <=> \A k \in Keys : ~Untracked(k)'
  BY DEF StoredIsTracked, Tracked, Untracked
<1>3. Init => StoredIsTracked
  BY DEF Init, StoredIsTracked
<1>4. TokenInv /\ StoredIsTracked /\ [Next]_vars => StoredIsTracked'
  <2> SUFFICES ASSUME TokenInv, StoredIsTracked, [Next]_vars
               PROVE  \A k \in Keys : ~Untracked(k)'
    BY <1>2
  <2>1. \A k \in Keys : Untracked(k)' => Untracked(k)
    <3>1. CASE \E k \in Keys, g \in Gens : CacheToken(k, g)
      BY <3>1, CacheTokenType DEF TokenInv
    <3> QED
      BY <3>1, StepOnEntries
  <2> QED
    BY <1>1, <2>1
<1> QED
  BY <1>3, <1>4, TokenInvariant, PTL DEF Spec

\* The entries of one user can be counted.
LEMMA UserTokensFinite ==
  \A u : IsFiniteSet(UserTokens(u)) /\ Cardinality(UserTokens(u)) \in Nat
<1>1. IsFiniteSet(Keys)
  BY TokenManagerAssumption, FS_Product DEF Keys
<1>2. \A u : UserTokens(u) \in SUBSET Keys
  BY DEF UserTokens, Tracked
<1> QED
  BY <1>1, <1>2, FS_Subset, FS_CardinalityType

\* However logins and refreshes of all of a user's providers overlap, the
\* number of tracked tokens stays within maxTokensPerUser.
THEOREM LimitAlwaysRespected == Spec => []LimitRespected
<1>1. Init => LimitRespected
  <2> SUFFICES ASSUME Init, NEW u \in Users
               PROVE  Cardinality(UserTokens(u)) <= MaxTokensPerUser
    BY DEF LimitRespected
  <2>1. UserTokens(u) = {}
    BY DEF Init, UserTokens, Tracked
  <2> QED
    BY <2>1, FS_EmptySet, TokenManagerAssumption
<1>2. TokenInv /\ LimitRespected /\ [Next]_vars => LimitRespected'
  <2> SUFFICES ASSUME TokenInv, LimitRespected, [Next]_vars, NEW u \in Users
               PROVE  Cardinality(UserTokens(u)') <= MaxTokensPerUser
    BY DEF LimitRespected
  <2>1. Cardinality(UserTokens(u)) <= MaxTokensPerUser
    BY DEF LimitRespected
  <2>2. CASE UserTokens(u)' \subseteq UserTokens(u)
    <3>1. Cardinality(UserTokens(u)') <= Cardinality(UserTokens(u))
          /\ Cardinality(UserTokens(u)') \in Nat
      BY <2>2, UserTokensFinite, FS_Subset, FS_CardinalityType
    <3> QED
      BY <2>1, <3>1, UserTokensFinite, TokenManagerAssumption
  <2>3. CASE \E k \in Keys, g \in Gens : CacheToken(k, g)
    <3>1. PICK k \in Keys, g \in Gens : CacheToken(k, g)
      BY <2>3
    <3>2. CASE AtLimit(k) \/ UserOf(k) # u
      <4>1. \A j \in Keys : meta'[j] = meta[j] \/ (j = k /\ ~AtLimit(k))
        BY <3>1, CacheTokenType DEF TokenInv
      <4>2. UserTokens(u)' \subseteq UserTokens(u)
        BY <3>2, <4>1 DEF UserTokens, Tracked
      <4> QED
        BY <4>2, <2>2
    <3>3. CASE ~AtLimit(k) /\ UserOf(k) = u
      <4>1. UserTokens(u)' \subseteq UserTokens(u) \cup {k}
        <5>1. \A j \in Keys : meta'[j] = meta[j] \/ j = k
          BY <3>1, CacheTokenType DEF TokenInv
        <5> QED
          BY <5>1 DEF UserTokens, Tracked
      <4>2. ~(Cardinality(UserTokens(u)) >= MaxTokensPerUser)
        BY <3>3 DEF AtLimit
      <4>3. Cardinality(UserTokens(u)') <= Cardinality(UserTokens(u)) + 1
        <5>1. /\ IsFiniteSet(UserTokens(u))
              /\ Cardinality(UserTokens(u)) \in Nat
          BY UserTokensFinite
        <5>2. Cardinality(UserTokens(u) \cup {k})
                = IF k \in UserTokens(u) THEN Cardinality(UserTokens(u))
                                         ELSE Cardinality(UserTokens(u)) + 1
          BY <5>1, FS_AddElement
        <5>3. /\ IsFiniteSet(UserTokens(u) \cup {k})
              /\ Cardinality(UserTokens(u) \cup {k}) \in Nat
          BY <5>1, FS_AddElement, FS_CardinalityType
        <5>4. /\ Cardinality(UserTokens(u)') <= Cardinality(UserTokens(u) \cup {k})
              /\ Cardinality(UserTokens(u)') \in Nat
          BY <4>1, <5>3, FS_Subset, FS_CardinalityType
        <5> QED
          BY <5>1, <5>2, <5>3, <5>4
      <4>4. Cardinality(UserTokens(u)') \in Nat
        <5>1. IsFiniteSet(UserTokens(u) \cup {k})
          BY UserTokensFinite, FS_AddElement
        <5> QED
          BY <4>1, <5>1, FS_Subset, FS_CardinalityType
      <4> QED
        <5>1. Cardinality(UserTokens(u)) \in Nat /\ MaxTokensPerUser \in Nat
          BY UserTokensFinite, TokenManagerAssumption
        <5> QED
          BY <4>2, <4>3, <4>4, <5>1
    <3> QED
      BY <3>2, <3>3
  <2>4. CASE \A k \in Keys : meta[k] = "none" => meta'[k] = "none"
    <3>1. UserTokens(u)' \subseteq UserTokens(u)
      BY <2>4 DEF UserTokens, Tracked
    <3> QED
      BY <3>1, <2>2
  <2> QED
    BY <2>3, <2>4, StepOnEntries
<1> QED
  BY <1>1, <1>2, TokenInvariant, PTL DEF Spec

-----------------------------------------------------------------------------
\* A token of key k that the provider still trades, or whose grant is revoked.
Good(k, g) == g \in accepted[k] \/ grant[k][g] \in revoked[k]

\* A worker that is about to replace a token of the login of g.
Replacing(w, k, g) ==
  /\ job[w].at = "cache" /\ job[w].key = k
  /\ grant[k][job[w].tok] = grant[k][g]

\* The worker w has a rotated token in hand whose login has lost none.
Carries(w) ==
  /\ job[w].at = "cache"
  /\ Rotating(job[w].key)
  /\ grant[job[w].key][job[w].tok] \notin lost[job[w].key]

\* Such a token is good, and nobody else has it: it is not in the store yet and
\* no other worker holds it, so no other refresh can have traded it in the
\* meantime.
InHand ==
  \A w \in Workers : Carries(w) =>
    LET k == job[w].key
        g == job[w].tok
    IN  /\ Good(k, g)
        /\ store[k] # g
        /\ \A v \in Workers \ {w} :
             job[v].at # "idle" /\ job[v].key = k => job[v].tok # g

\* A provider that does not rotate honours what it issued until it is revoked.
KeptInForce ==
  \A k \in Keys : ~Rotating(k) => \A g \in 1 .. issued[k] : Good(k, g)

\* CachedIsUsable is not inductive: that the refreshed token is still good when
\* it is cached needs InHand, or KeptInForce where tokens do not rotate.
UsableInv == CachedIsUsable /\ InHand /\ KeptInForce

\* What CachedIsUsable says of a token g in the store under k.
Covered(k, g) ==
  \/ Good(k, g) \/ grant[k][g] \in lost[k]
  \/ \E w \in Workers : Replacing(w, k, g)

LEMMA StoredIsCovered ==
  CachedIsUsable <=>
    \A k \in Keys : \A g : store[k] = g /\ g # NoToken => Covered(k, g)
BY DEF CachedIsUsable, Covered, Good, Replacing

LEMMA StoredIsCoveredNext ==
  ASSUME \A k \in Keys : \A g : store'[k] = g /\ g # NoToken => Covered(k, g)'
  PROVE  CachedIsUsable'
BY DEF CachedIsUsable, Covered, Good, Replacing

\* The token in the store.
LEMMA StoredToken ==
  ASSUME TokenInv, NEW k \in Keys, store[k] # NoToken
  PROVE  store[k] \in 1 .. issued[k] /\ store[k] \in Gens
<1>1. store[k] \in Gens /\ store[k] <= issued[k] /\ issued[k] \in 0 .. MaxGen
  BY DEF TokenInv, TypeOK, IssuedTokens
<1> QED
  BY <1>1, TokenManagerAssumption DEF Gens

\* Issuing a token leaves every older one of the key what it was, but for those
\* the provider stops accepting; the new one is nowhere yet.
LEMMA IssueEffect ==
  ASSUME TokenInv, NEW k \in Keys, NEW b \in 0 .. MaxGen, NEW gone,
         Issue(k, b, gone)
  PROVE  /\ accepted'[k] = (accepted[k] \ gone) \cup {issued[k] + 1}
         /\ \A j \in Keys \ {k} : accepted'[j] = accepted[j]
         /\ \A j \in Keys : \A h \in 1 .. issued[j] : grant'[j][h] = grant[j][h]
         /\ b # 0 => grant'[k][issued[k] + 1] = b
         /\ revoked' = revoked
         /\ issued[k] + 1 \in Gens
         /\ issued[k] + 1 \notin 1 .. issued[k]
         /\ \A j \in Keys \ {k} : issued'[j] = issued[j]
         /\ \A h \in 1 .. issued'[k] : h \in 1 .. issued[k] \/ h = issued[k] + 1
<1> DEFINE g == issued[k] + 1
<1>1. g \in Gens /\ issued[k] \in 0 .. MaxGen
  BY DEF Issue, TokenInv, TypeOK
<1>2. g \notin 1 .. issued[k]
  BY <1>1, TokenManagerAssumption
<1>3. /\ grant' = [grant EXCEPT ![k][g] = IF b = 0 THEN g ELSE b]
      /\ accepted' = [accepted EXCEPT ![k] = (@ \ gone) \cup {g}]
      /\ issued' = [issued EXCEPT ![k] = g]
      /\ revoked' = revoked
  BY DEF Issue
<1>4. /\ grant \in [Keys -> [Gens -> 0 .. MaxGen]]
      /\ accepted \in [Keys -> SUBSET Gens]
      /\ issued \in [Keys -> 0 .. MaxGen]
  BY DEF TokenInv, TypeOK
<1>5. \A j \in Keys : issued[j] \in 0 .. MaxGen
  BY DEF TokenInv, TypeOK
<1>6. \A j \in Keys : \A h \in 1 .. issued[j] : h \in Gens
  BY <1>5, TokenManagerAssumption DEF Gens
<1>7. \A h \in 1 .. issued'[k] : h \in 1 .. issued[k] \/ h = g
  BY <1>1, <1>3, <1>4, TokenManagerAssumption
<1> HIDE DEF g
<1>8. \A j \in Keys : \A h \in Gens : (j # k \/ h # g) => grant'[j][h] = grant[j][h]
  BY <1>1, <1>3, <1>4
<1>9. \A j \in Keys : \A h \in 1 .. issued[j] : grant'[j][h] = grant[j][h]
  BY <1>2, <1>6, <1>8
<1>10. b # 0 => grant'[k][g] = b
  BY <1>1, <1>3, <1>4
<1> QED
  BY <1>1, <1>2, <1>3, <1>4, <1>7, <1>9, <1>10 DEF g

LEMMA InitUsable == Init => UsableInv
<1> SUFFICES ASSUME Init PROVE UsableInv
  OBVIOUS
<1>1. CachedIsUsable /\ InHand
  BY IdleIsIdle DEF Init, CachedIsUsable, InHand, Carries
<1>2. \A k \in Keys : 1 .. issued[k] = {}
  BY DEF Init
<1> QED
  BY <1>1, <1>2 DEF UsableInv, KeptInForce

\* A step of the store, the application or the clean-up that at most drops
\* entries.
LEMMA QuietUsable ==
  ASSUME TokenInv, UsableInv,
         UNCHANGED <<policy, job, issued, grant, accepted, revoked, lost>>,
         \A k \in Keys : store'[k] = store[k] \/ store'[k] = NoToken
  PROVE  UsableInv'
<1>1. CachedIsUsable'
  BY DEF UsableInv, CachedIsUsable
<1>2. ASSUME NEW w \in Workers, Carries(w)'
      PROVE  Carries(w) /\ store'[job[w].key] # job[w].tok
  <2>1. Carries(w) /\ job[w].at # "idle"
    BY <1>2 DEF Carries, Rotating
  <2>2. job[w].key \in Keys /\ job[w].tok # NoToken
    BY <2>1, HeldGrant DEF Gens, NoToken
  <2> QED
    BY <2>1, <2>2 DEF UsableInv, InHand
<1>3. InHand'
  BY <1>2 DEF UsableInv, InHand, Good
<1>4. KeptInForce'
  BY DEF UsableInv, KeptInForce, Good, Rotating
<1> QED
  BY <1>1, <1>3, <1>4 DEF UsableInv

\* A login caches a token that is good, or nothing.
LEMMA LoginUsable ==
  ASSUME TokenInv, UsableInv, NEW k \in Keys, Login(k)
  PROVE  UsableInv'
<1> DEFINE g == issued[k] + 1
<1>1. Issue(k, 0, {}) /\ CacheToken(k, g) /\ UNCHANGED <<policy, job, lost>>
  BY DEF Login
<1>2. 0 \in 0 .. MaxGen
  BY TokenManagerAssumption
<1>3. /\ accepted'[k] = accepted[k] \cup {g}
      /\ \A j \in Keys \ {k} : accepted'[j] = accepted[j]
      /\ \A j \in Keys : \A h \in 1 .. issued[j] : grant'[j][h] = grant[j][h]
      /\ revoked' = revoked
      /\ g \in Gens
      /\ g \notin 1 .. issued[k]
      /\ \A j \in Keys \ {k} : issued'[j] = issued[j]
      /\ \A h \in 1 .. issued'[k] : h \in 1 .. issued[k] \/ h = g
  BY <1>1, <1>2, IssueEffect
<1>4. \A j \in Keys : store'[j] = store[j] \/ (j = k /\ store'[j] = g)
  BY <1>1, <1>3, CacheTokenType DEF TokenInv
<1> HIDE DEF g
<1>5. ASSUME NEW j \in Keys, NEW h \in 1 .. issued[j], Good(j, h)
      PROVE  Good(j, h)'
  BY <1>3, <1>5 DEF Good
<1>6. ASSUME NEW j \in Keys, NEW s, store'[j] = s, s # NoToken
      PROVE  Covered(j, s)'
  <2>1. CASE j = k /\ s = g
    BY <2>1, <1>3 DEF Covered, Good
  <2>2. CASE ~(j = k /\ s = g)
    <3>1. store[j] = s
      BY <2>2, <1>4, <1>6
    <3>2. s \in 1 .. issued[j] /\ grant'[j][s] = grant[j][s]
      BY <1>3, <1>6, <3>1, StoredToken
    <3>3. ASSUME NEW w \in Workers, Replacing(w, j, s)
          PROVE  Replacing(w, j, s)'
      <4>1. job[w].key = j /\ job[w].tok \in 1 .. issued[j]
        BY <3>3, HeldGrant DEF Replacing
      <4> QED
        BY <1>1, <1>3, <3>2, <3>3, <4>1 DEF Replacing
    <3>4. Covered(j, s)
      BY <1>6, <3>1, StoredIsCovered DEF UsableInv
    <3> QED
      BY <1>1, <1>5, <3>2, <3>3, <3>4 DEF Covered
  <2> QED
    BY <2>1, <2>2
<1>7. ASSUME NEW w \in Workers, Carries(w)',
             NEW i, NEW h, i = job[w].key, h = job[w].tok
      PROVE  Good(i, h)' /\ store'[i] # h /\ Carries(w)
  <2>1. /\ job[w].at # "idle" /\ Rotating(i)
        /\ grant'[i][h] \notin lost[i]
    BY <1>1, <1>7 DEF Carries, Rotating
  <2>2. i \in Keys /\ h \in 1 .. issued[i]
    BY <1>7, <2>1, HeldGrant
  <2>3. Carries(w)
    BY <1>1, <1>3, <1>7, <2>1, <2>2 DEF Carries
  <2>4. Good(i, h) /\ store[i] # h
    BY <1>7, <2>3 DEF UsableInv, InHand
  <2> QED
    BY <1>3, <1>4, <1>5, <2>2, <2>3, <2>4
<1>8. InHand'
  BY <1>1, <1>7 DEF UsableInv, InHand, Good
<1>9. ASSUME NEW j \in Keys, ~Rotating(j)', NEW h \in 1 .. issued'[j]
      PROVE  Good(j, h)'
  <2>1. h \in 1 .. issued[j] => Good(j, h)
    BY <1>1, <1>9 DEF UsableInv, KeptInForce, Rotating
  <2>2. CASE h \in 1 .. issued[j]
    BY <2>1, <2>2, <1>5
  <2>3. CASE h \notin 1 .. issued[j]
    <3>1. j = k /\ h = g
      BY <1>3, <1>9, <2>3
    <3> QED
      BY <1>3, <3>1 DEF Good
  <2> QED
    BY <2>2, <2>3
<1>10. KeptInForce'
  BY <1>9 DEF KeptInForce
<1> QED
  BY <1>6, <1>8, <1>10, StoredIsCoveredNext DEF UsableInv

\* A worker takes the token of a key in hand: it is not one that another worker
\* brings back.
LEMMA ReadUsable ==
  ASSUME TokenInv, UsableInv, NEW w \in Workers, NEW k \in Keys,
         RefreshRead(w, k) \/ RevokeRead(w, k)
  PROVE  UsableInv'
<1>1. PICK s \in {"refresh", "revoke"} :
        job' = [job EXCEPT ![w] = [at |-> s, key |-> k, tok |-> store[k]]]
  BY DEF RefreshRead, RevokeRead
<1>2. /\ UNCHANGED <<store, policy, issued, grant, accepted, revoked, lost>>
      /\ job[w].at = "idle"
  BY DEF RefreshRead, RevokeRead, provider
<1>3. job'[w] = [at |-> s, key |-> k, tok |-> store[k]]
      /\ \A v \in Workers \ {w} : job'[v] = job[v]
  BY <1>1 DEF TokenInv, TypeOK
<1>4. ASSUME NEW j \in Keys, NEW g, store'[j] = g, g # NoToken
      PROVE  Covered(j, g)'
  <2>1. Covered(j, g)
    BY <1>2, <1>4, StoredIsCovered DEF UsableInv
  <2>2. \A v \in Workers : Replacing(v, j, g) => Replacing(v, j, g)'
    BY <1>2, <1>3 DEF Replacing
  <2> QED
    BY <1>2, <2>1, <2>2 DEF Covered, Good
<1>5. ASSUME NEW v \in Workers, Carries(v)'
      PROVE  v # w /\ job'[v] = job[v] /\ Carries(v)
  BY <1>2, <1>3, <1>5 DEF Carries, Rotating
<1>6. InHand'
  BY <1>2, <1>3, <1>5 DEF UsableInv, InHand, Good
<1>7. KeptInForce'
  BY <1>2 DEF UsableInv, KeptInForce, Good, Rotating
<1> QED
  BY <1>4, <1>6, <1>7, StoredIsCoveredNext DEF UsableInv

\* The provider rotates a token: the one it takes back is being replaced or its
\* login has lost the new one, and it is none that a worker brings back.
LEMMA TradeUsable ==
  ASSUME TokenInv, UsableInv, NEW w \in Workers, job[w].at = "refresh",
         NEW k \in Keys, NEW g \in Gens, k = job[w].key, g = job[w].tok,
         NEW n \in Gens, n = issued[k] + 1,
         Rotating(k), Issue(k, grant[k][g], {g}),
         UNCHANGED <<store, policy>>,
         \A v \in Workers \ {w} : job'[v] = job[v],
         \/ /\ job'[w] = [at |-> "cache", key |-> k, tok |-> n]
            /\ lost' = lost
         \/ /\ job'[w].at # "idle" /\ job'[w].key = k /\ job'[w].tok = g
            /\ lost' = [lost EXCEPT ![k] = @ \cup {grant[k][g]}]
  PROVE  UsableInv'
<1>1. g \in 1 .. issued[k] /\ grant[k][g] \in Gens
  BY HeldGrant
<1>2. grant[k][g] \in 0 .. MaxGen /\ grant[k][g] # 0
  BY <1>1, TokenManagerAssumption DEF Gens
<1>3. /\ accepted'[k] = (accepted[k] \ {g}) \cup {n}
      /\ \A j \in Keys \ {k} : accepted'[j] = accepted[j]
      /\ \A j \in Keys : \A h \in 1 .. issued[j] : grant'[j][h] = grant[j][h]
      /\ grant'[k][n] = grant[k][g]
      /\ revoked' = revoked
      /\ n \notin 1 .. issued[k]
      /\ \A j \in Keys \ {k} : issued'[j] = issued[j]
  BY <1>2, IssueEffect
<1>4. /\ \A j \in Keys : lost[j] \subseteq lost'[j]
      /\ lost' # lost => grant[k][g] \in lost'[k]
  <2>1. lost \in [Keys -> SUBSET Gens]
    BY DEF TokenInv, TypeOK
  <2>2. lost' = lost \/ lost' = [lost EXCEPT ![k] = @ \cup {grant[k][g]}]
    OBVIOUS
  <2> QED
    BY <2>1, <2>2
<1>5. ASSUME NEW j \in Keys, NEW h \in 1 .. issued[j], Good(j, h), ~(j = k /\ h = g)
      PROVE  Good(j, h)'
  BY <1>3, <1>5 DEF Good
<1>6. lost' = lost => job'[w].key = k /\
        (job'[w] = [at |-> "cache", key |-> k, tok |-> n] \/ grant[k][g] \in lost[k])
  BY <1>1 DEF TokenInv, TypeOK
<1>7. ASSUME NEW j \in Keys, NEW s, store'[j] = s, s # NoToken
      PROVE  Covered(j, s)'
  <2>1. s \in 1 .. issued[j] /\ Covered(j, s) /\ grant'[j][s] = grant[j][s]
    BY <1>3, <1>7, StoredToken, StoredIsCovered DEF UsableInv
  <2>2. CASE j = k /\ s = g
    <3>1. CASE job'[w] = [at |-> "cache", key |-> k, tok |-> n]
      <4>1. Replacing(w, j, s)'
        BY <2>1, <2>2, <3>1, <1>3 DEF Replacing
      <4> QED
        BY <4>1 DEF Covered
    <3>2. CASE job'[w] # [at |-> "cache", key |-> k, tok |-> n]
      <4>1. grant[k][g] \in lost'[k]
        BY <3>2, <1>4, <1>6
      <4> QED
        BY <2>1, <2>2, <4>1 DEF Covered
    <3> QED
      BY <3>1, <3>2
  <2>3. CASE ~(j = k /\ s = g)
    <3>1. ASSUME NEW v \in Workers, Replacing(v, j, s)
          PROVE  Replacing(v, j, s)'
      <4>1. v # w /\ job[v].key = j /\ job[v].tok \in 1 .. issued[j]
        BY <3>1, HeldGrant DEF Replacing
      <4>2. job'[v] = job[v] /\ grant'[j][job[v].tok] = grant[j][job[v].tok]
        BY <1>3, <4>1
      <4> QED
        BY <2>1, <3>1, <4>2 DEF Replacing
    <3> QED
      BY <1>4, <1>5, <2>1, <2>3, <3>1 DEF Covered
  <2> QED
    BY <2>2, <2>3
<1>8. Good(k, n)'
  BY <1>3 DEF Good
<1>9. store'[k] # n
  <2>1. CASE store[k] # NoToken
    BY <2>1, <1>3, StoredToken
  <2>2. CASE store[k] = NoToken
    BY <2>2 DEF Gens, NoToken
  <2> QED
    BY <2>1, <2>2
<1>10. ASSUME NEW v \in Workers \ {w}, job'[v].at # "idle", job'[v].key = k
       PROVE  job'[v].tok # n
  BY <1>3, <1>10, HeldGrant
<1>11. ASSUME Carries(w)'
       PROVE  job'[w] = [at |-> "cache", key |-> k, tok |-> n]
  <2>1. CASE job'[w] # [at |-> "cache", key |-> k, tok |-> n]
    <3>1. grant'[k][g] \in lost'[k] /\ job'[w].key = k /\ job'[w].tok = g
      BY <2>1, <1>1, <1>3, <1>4, <1>6
    <3> QED
      BY <3>1, <1>11 DEF Carries
  <2> QED
    BY <2>1
<1>12. ASSUME NEW v \in Workers, v # w, Carries(v)',
              NEW i, NEW h, i = job'[v].key, h = job'[v].tok
       PROVE  /\ Good(i, h)'
              /\ store'[i] # h
              /\ \A u \in Workers \ {v} :
                   job'[u].at # "idle" /\ job'[u].key = i => job'[u].tok # h
  <2>1. job'[v] = job[v] /\ job[v].at = "cache"
    BY <1>12 DEF Carries
  <2>2. i \in Keys /\ h \in 1 .. issued[i]
    BY <1>12, <2>1, HeldGrant
  <2>3. Carries(v)
    BY <1>3, <1>4, <1>12, <2>1, <2>2 DEF Carries, Rotating
  <2>4. /\ Good(i, h)
        /\ store[i] # h
        /\ \A u \in Workers \ {v} :
             job[u].at # "idle" /\ job[u].key = i => job[u].tok # h
    BY <1>12, <2>1, <2>3 DEF UsableInv, InHand
  <2>5. ~(i = k /\ h = g)
    BY <1>12, <2>4
  <2>6. i = k => h # n
    BY <1>3, <2>2
  <2>7. \A u \in Workers \ {v} :
          job'[u].at # "idle" /\ job'[u].key = i => job'[u].tok # h
    BY <2>4, <2>5, <2>6
  <2> QED
    BY <1>5, <2>2, <2>4, <2>5, <2>7
<1>13. InHand'
  <2> SUFFICES ASSUME NEW v \in Workers, Carries(v)',
                      NEW i, NEW h, i = job'[v].key, h = job'[v].tok
               PROVE  /\ Good(i, h)'
                      /\ store'[i] # h
                      /\ \A u \in Workers \ {v} :
                           job'[u].at # "idle" /\ job'[u].key = i => job'[u].tok # h
    BY DEF InHand, Good
  <2>1. CASE v = w
    BY <2>1, <1>8, <1>9, <1>10, <1>11
  <2> QED
    BY <2>1, <1>12
<1>14. ASSUME NEW j \in Keys, ~Rotating(j)'
       PROVE  \A h \in 1 .. issued'[j] : Good(j, h)'
  <2>1. ~Rotating(j) /\ j # k
    BY <1>14 DEF Rotating
  <2> QED
    BY <1>3, <1>5, <2>1 DEF UsableInv, KeptInForce
<1>15. KeptInForce'
  BY <1>14 DEF KeptInForce
<1> QED
  BY <1>7, <1>13, <1>15, StoredIsCoveredNext DEF UsableInv

\* The call of a worker ends or goes on with the token it has: one that needs
\* no new one, or of a login that lost it.
LEMMA HoldUsable ==
  ASSUME TokenInv, UsableInv, NEW w \in Workers,
         job[w].at \in {"refresh", "drop", "revoke"},
         UNCHANGED <<policy, issued, grant>>,
         \A v \in Workers \ {w} : job'[v] = job[v],
         \/ job'[w].at = "idle"
         \/ job'[w].key = job[w].key /\ job'[w].tok = job[w].tok,
         job'[w].at = "cache" =>
           \/ ~Rotating(job[w].key)
           \/ grant[job[w].key][job[w].tok] \in lost'[job[w].key],
         \A j \in Keys : lost[j] \subseteq lost'[j],
         \A j \in Keys : store'[j] = store[j] \/ store'[j] = NoToken,
         \A j \in Keys : \A h \in Gens : Good(j, h) => Good(j, h)'
  PROVE  UsableInv'
<1>1. ASSUME NEW j \in Keys, NEW s, store'[j] = s, s # NoToken
      PROVE  Covered(j, s)'
  <2>1. store[j] = s /\ s \in Gens /\ Covered(j, s)
    BY <1>1, StoredToken, StoredIsCovered DEF UsableInv
  <2>2. \A v \in Workers : Replacing(v, j, s) => Replacing(v, j, s)'
    BY DEF Replacing
  <2> QED
    BY <2>1, <2>2 DEF Covered
<1>2. ASSUME NEW v \in Workers, Carries(v)',
             NEW i, NEW h, i = job'[v].key, h = job'[v].tok
      PROVE  /\ Good(i, h)'
             /\ store'[i] # h
             /\ \A u \in Workers \ {v} :
                  job'[u].at # "idle" /\ job'[u].key = i => job'[u].tok # h
  <2>1. v # w
    BY <1>2 DEF Carries, Rotating
  <2>2. job'[v] = job[v] /\ job[v].at = "cache"
    BY <1>2, <2>1 DEF Carries
  <2>3. i \in Keys /\ h \in Gens
    BY <1>2, <2>2, HeldGrant
  <2>4. Carries(v)
    BY <1>2, <2>2, <2>3 DEF Carries, Rotating
  <2>5. /\ Good(i, h)
        /\ store[i] # h
        /\ \A u \in Workers \ {v} :
             job[u].at # "idle" /\ job[u].key = i => job[u].tok # h
    BY <1>2, <2>2, <2>4 DEF UsableInv, InHand
  <2>6. h # NoToken
    BY <2>3 DEF Gens, NoToken
  <2>7. \A u \in Workers \ {v} :
          job'[u].at # "idle" /\ job'[u].key = i => job'[u].tok # h
    BY <2>5
  <2> QED
    BY <2>3, <2>5, <2>6, <2>7
<1>3. InHand'
  BY <1>2 DEF InHand, Good
<1>4. ASSUME NEW j \in Keys, ~Rotating(j)', NEW h \in 1 .. issued'[j]
      PROVE  Good(j, h)'
  <2>1. issued[j] \in 0 .. MaxGen /\ ~Rotating(j) /\ h \in 1 .. issued[j]
    BY <1>4 DEF TokenInv, TypeOK, Rotating
  <2>2. h \in Gens
    BY <2>1, TokenManagerAssumption DEF Gens
  <2> QED
    BY <2>1, <2>2 DEF UsableInv, KeptInForce
<1>5. KeptInForce'
  BY <1>4 DEF KeptInForce
<1> QED
  BY <1>1, <1>3, <1>5, StoredIsCoveredNext DEF UsableInv

\* The provider answers, or rotates the token and its answer is lost.
LEMMA ProviderRefreshUsable ==
  ASSUME TokenInv, UsableInv, NEW w \in Workers, ProviderRefresh(w) \/ AnswerLost(w)
  PROVE  UsableInv'
<1>0. PICK k, g, b : k = job[w].key /\ g = job[w].tok /\ b = grant[k][g]
  OBVIOUS
<1>1. /\ job[w] \in [at : Stages, key : Keys, tok : Gens] /\ job[w].at = "refresh"
      /\ k \in Keys /\ g \in Gens
  <2>1. job[w].at = "refresh"
    BY DEF ProviderRefresh, AnswerLost
  <2> QED
    BY <1>0, <2>1, HeldGrant
<1>2. UNCHANGED <<store, policy>>
  BY DEF ProviderRefresh, AnswerLost
<1> DEFINE more == [lost EXCEPT ![k] = @ \cup {b}]
<1>3. \/ /\ ~Rotating(k) /\ job' = [job EXCEPT ![w].at = "cache"]
         /\ UNCHANGED <<provider, lost>>
      \/ /\ Rotating(k) /\ Issue(k, b, {g}) /\ lost' = lost
         /\ job' = [job EXCEPT ![w].at = "cache", ![w].tok = issued[k] + 1]
      \/ /\ Rotating(k) /\ Issue(k, b, {g}) /\ lost' = more
         /\ job' \in {job, [job EXCEPT ![w].at = "cache"]}
  BY <1>0 DEF ProviderRefresh, AnswerLost
<1>4. \A v \in Workers \ {w} : job'[v] = job[v]
  BY <1>3 DEF TokenInv, TypeOK
<1>5. CASE /\ ~Rotating(k) /\ job' = [job EXCEPT ![w].at = "cache"]
           /\ UNCHANGED <<provider, lost>>
  <2>1. job'[w].key = k /\ job'[w].tok = g
    BY <1>0, <1>1, <1>5 DEF TokenInv, TypeOK
  <2>2. UNCHANGED <<issued, grant, accepted, revoked>>
    BY <1>5 DEF provider
  <2>3. \A j, h : Good(j, h) => Good(j, h)'
    BY <2>2 DEF Good
  <2> QED
    BY <1>0, <1>1, <1>2, <1>4, <1>5, <2>1, <2>2, <2>3, HoldUsable
<1>6. CASE /\ Rotating(k) /\ Issue(k, b, {g}) /\ lost' = lost
           /\ job' = [job EXCEPT ![w].at = "cache", ![w].tok = issued[k] + 1]
  <2>1. job'[w] = [at |-> "cache", key |-> k, tok |-> issued[k] + 1]
    BY <1>0, <1>1, <1>6 DEF TokenInv, TypeOK
  <2>2. issued[k] + 1 \in Gens
    BY <1>6 DEF Issue
  <2> QED
    BY <1>0, <1>1, <1>2, <1>4, <1>6, <2>1, <2>2, TradeUsable
<1>7. CASE /\ Rotating(k) /\ Issue(k, b, {g}) /\ lost' = more
           /\ job' \in {job, [job EXCEPT ![w].at = "cache"]}
  <2>1. job'[w].at # "idle" /\ job'[w].key = k /\ job'[w].tok = g
    BY <1>0, <1>1, <1>7 DEF TokenInv, TypeOK
  <2>2. issued[k] + 1 \in Gens
    BY <1>7 DEF Issue
  <2> QED
    BY <1>0, <1>1, <1>2, <1>4, <1>7, <2>1, <2>2, TradeUsable
<1> QED
  BY <1>3, <1>5, <1>6, <1>7

\* A refresh that brings nothing back or fails, and the steps of RevokeToken:
\* what the provider no longer accepts belongs to a revoked grant.
LEMMA WorkerUsable ==
  ASSUME TokenInv, UsableInv, NEW w \in Workers,
         \/ HollowAnswer(w) \/ ProviderRefreshFails(w)
         \/ ProviderRevoke(w) \/ RevokeDrop(w)
  PROVE  UsableInv'
<1>1. job[w].at \in {"refresh", "revoke", "drop"}
      /\ job[w] \in [at : Stages, key : Keys, tok : Gens]
  BY HeldGrant DEF HollowAnswer, ProviderRefreshFails, ProviderRevoke, RevokeDrop
<1>2. UNCHANGED <<policy, issued, grant>>
  BY DEF HollowAnswer, ProviderRefreshFails, ProviderRevoke, RevokeDrop, provider
<1>3. /\ \A v \in Workers \ {w} : job'[v] = job[v]
      /\ \/ job'[w].at = "idle"
         \/ job'[w].key = job[w].key /\ job'[w].tok = job[w].tok
  BY <1>1, IdleIsIdle
  DEF HollowAnswer, ProviderRefreshFails, ProviderRevoke, RevokeDrop, TokenInv, TypeOK
<1>4. /\ \A j \in Keys : lost[j] \subseteq lost'[j]
      /\ job'[w].at = "cache" =>
           \/ ~Rotating(job[w].key)
           \/ grant[job[w].key][job[w].tok] \in lost'[job[w].key]
  <2>1. CASE HollowAnswer(w)
    BY <2>1, <1>1 DEF HollowAnswer, TokenInv, TypeOK
  <2>2. CASE ~HollowAnswer(w)
    BY <2>2, <1>1, IdleIsIdle
    DEF ProviderRefreshFails, ProviderRevoke, RevokeDrop, TokenInv, TypeOK
  <2> QED
    BY <2>1, <2>2
<1>5. \A j \in Keys : store'[j] = store[j] \/ store'[j] = NoToken
  <2>1. CASE RevokeDrop(w)
    <3>1. job[w].key \in Keys /\ Remove(job[w].key)
      BY <2>1, <1>1 DEF RevokeDrop
    <3>2. \/ store' = store
          \/ store' = [store EXCEPT ![job[w].key] = NoToken]
      BY <3>1, RemoveType DEF TokenInv
    <3> QED
      BY <3>2 DEF TokenInv, TypeOK
  <2>2. CASE ~RevokeDrop(w)
    BY <2>2 DEF HollowAnswer, ProviderRefreshFails, ProviderRevoke
  <2> QED
    BY <2>1, <2>2
<1>6. ASSUME NEW j \in Keys, NEW h \in Gens, Good(j, h)
      PROVE  Good(j, h)'
  <2>1. CASE UNCHANGED <<accepted, revoked>>
    BY <2>1, <1>2, <1>6 DEF Good
  <2>2. CASE ~UNCHANGED <<accepted, revoked>>
    <3>1. \E k \in Keys : \E b :
            /\ revoked' = [revoked EXCEPT ![k] = @ \cup {b}]
            /\ accepted' = [accepted EXCEPT ![k] = {g \in @ : grant[k][g] # b}]
      <4>1. ProviderRevoke(w)
        BY <2>2 DEF HollowAnswer, ProviderRefreshFails, RevokeDrop, provider
      <4> DEFINE j0 == job[w].key
                 b0 == grant[j0][job[w].tok]
      <4>2. /\ revoked' = [revoked EXCEPT ![j0] = @ \cup {b0}]
            /\ accepted' = [accepted EXCEPT ![j0] = {g \in @ : grant[j0][g] # b0}]
        BY <2>2, <4>1 DEF ProviderRevoke
      <4>3. j0 \in Keys
        BY <1>1
      <4> HIDE DEF j0, b0
      <4> QED
        BY <4>2, <4>3
    <3> QED
      BY <3>1, <1>2, <1>6 DEF Good, TokenInv, TypeOK
  <2> QED
    BY <2>1, <2>2
<1> QED
  BY <1>1, <1>2, <1>3, <1>4, <1>5, <1>6, HoldUsable

\* A worker caches what it brought back, or loses it to the limit or an error.
LEMMA RefreshCacheUsable ==
  ASSUME TokenInv, UsableInv, NEW w \in Workers, RefreshCache(w)
  PROVE  UsableInv'
<1>1. PICK k, g : k = job[w].key /\ g = job[w].tok
  OBVIOUS
<1>2. /\ k \in Keys /\ g \in Gens /\ g \in 1 .. issued[k] /\ job[w].at = "cache"
      /\ grant[k][g] \in Gens
  BY <1>1, HeldGrant DEF RefreshCache
<1>3. /\ CacheToken(k, g)
      /\ Unsaved(k, g)
      /\ job' = [job EXCEPT ![w] = Idle]
      /\ UNCHANGED <<policy, issued, grant, accepted, revoked>>
  BY <1>1 DEF RefreshCache, provider
<1>4. \A j \in Keys : store'[j] = store[j] \/ (j = k /\ store'[j] = g)
  BY <1>2, <1>3, CacheTokenType DEF TokenInv
<1>5. /\ \A j \in Keys : lost[j] \subseteq lost'[j]
      /\ store'[k] # g => grant[k][g] \in lost'[k]
  BY <1>2, <1>3 DEF Unsaved, TokenInv, TypeOK
<1>6. /\ job'[w].at = "idle"
      /\ \A v \in Workers \ {w} : job'[v] = job[v]
  BY <1>3, IdleIsIdle DEF TokenInv, TypeOK
<1>7. \A j, h : Good(j, h) => Good(j, h)'
  BY <1>3 DEF Good
<1>8. Good(k, g) \/ grant[k][g] \in lost[k]
  <2>1. CASE Rotating(k) /\ grant[k][g] \notin lost[k]
    BY <2>1, <1>1, <1>2 DEF UsableInv, InHand, Carries
  <2>2. CASE ~Rotating(k)
    BY <2>2, <1>2 DEF UsableInv, KeptInForce
  <2> QED
    BY <2>1, <2>2
<1>9. ASSUME NEW j \in Keys, NEW s, store'[j] = s, s # NoToken
      PROVE  Covered(j, s)'
  <2>1. CASE j = k /\ s = g
    BY <2>1, <1>3, <1>5, <1>7, <1>8 DEF Covered
  <2>2. CASE ~(j = k /\ s = g)
    <3>1. store[j] = s /\ Covered(j, s)
      BY <2>2, <1>4, <1>9, StoredIsCovered DEF UsableInv
    <3>2. CASE Replacing(w, j, s)
      <4>1. j = k /\ grant[k][g] = grant[j][s]
        BY <3>2, <1>1 DEF Replacing
      <4>2. grant'[j][s] \in lost'[j]
        BY <4>1, <1>3, <1>5, <1>9, <2>2
      <4> QED
        BY <4>2 DEF Covered
    <3>3. CASE ~Replacing(w, j, s)
      <4>1. \A v \in Workers : Replacing(v, j, s) => Replacing(v, j, s)'
        BY <3>3, <1>3, <1>6 DEF Replacing
      <4> QED
        BY <1>3, <1>5, <1>7, <3>1, <4>1 DEF Covered
    <3> QED
      BY <3>2, <3>3
  <2> QED
    BY <2>1, <2>2
<1>10. ASSUME NEW v \in Workers, Carries(v)',
              NEW i, NEW h, i = job'[v].key, h = job'[v].tok
       PROVE  /\ Good(i, h)'
              /\ store'[i] # h
              /\ \A u \in Workers \ {v} :
                   job'[u].at # "idle" /\ job'[u].key = i => job'[u].tok # h
  <2>1. v # w /\ job'[v] = job[v] /\ job[v].at = "cache"
    BY <1>6, <1>10 DEF Carries
  <2>2. i \in Keys /\ h \in Gens
    BY <1>10, <2>1, HeldGrant
  <2>3. Carries(v)
    BY <1>3, <1>5, <1>10, <2>1, <2>2 DEF Carries, Rotating
  <2>4. /\ Good(i, h)
        /\ store[i] # h
        /\ \A u \in Workers \ {v} :
             job[u].at # "idle" /\ job[u].key = i => job[u].tok # h
    BY <1>10, <2>1, <2>3 DEF UsableInv, InHand
  <2>5. i = k => h # g
    BY <1>1, <1>2, <2>1, <2>4
  <2>6. \A u \in Workers \ {v} :
          job'[u].at # "idle" /\ job'[u].key = i => job'[u].tok # h
    BY <1>6, <2>4
  <2> QED
    BY <1>4, <1>7, <2>2, <2>4, <2>5, <2>6
<1>11. InHand'
  BY <1>10 DEF InHand, Good
<1>12. KeptInForce'
  BY <1>3, <1>7 DEF UsableInv, KeptInForce, Rotating
<1> QED
  BY <1>9, <1>11, <1>12, StoredIsCoveredNext DEF UsableInv

LEMMA StepUsable ==
  ASSUME TokenInv, UsableInv, [Next]_vars
  PROVE  UsableInv'
<1>1. ASSUME NEW k \in Keys, \/ GetCachedToken(k) \/ DeleteToken(k)
                             \/ StoreEvicts(k) \/ Age(k) \/ SkipListed(k)
      PROVE  UsableInv'
  <2>1. UNCHANGED <<policy, job, issued, grant, accepted, revoked, lost>>
    BY <1>1 DEF GetCachedToken, DeleteToken, StoreEvicts, Age, SkipListed, provider
  <2>2. store' = store \/ store' = [store EXCEPT ![k] = NoToken]
    <3>1. CASE DeleteToken(k)
      BY <3>1, RemoveType DEF DeleteToken, TokenInv
    <3>2. CASE ~DeleteToken(k)
      BY <1>1, <3>2 DEF GetCachedToken, StoreEvicts, Age, SkipListed, Drop, Put
    <3> QED
      BY <3>1, <3>2
  <2>3. \A j \in Keys : store'[j] = store[j] \/ store'[j] = NoToken
    BY <2>2 DEF TokenInv, TypeOK
  <2> QED
    BY <2>1, <2>3, QuietUsable
<1>2. ASSUME ListTokens \/ CleanupExpiredTokens \/ UNCHANGED vars
      PROVE  UsableInv'
  <2>1. UNCHANGED <<policy, job, issued, grant, accepted, revoked, lost>>
    BY <1>2 DEF ListTokens, CleanupExpiredTokens, vars, provider
  <2>2. \A j \in Keys : store'[j] = store[j] \/ store'[j] = NoToken
    BY <1>2 DEF ListTokens, CleanupExpiredTokens, vars
  <2> QED
    BY <2>1, <2>2, QuietUsable
<1> QED
  BY <1>1, <1>2, NextActions, LoginUsable, ReadUsable, ProviderRefreshUsable,
     WorkerUsable, RefreshCacheUsable

\* However logins, refreshes, revocations, evictions, clean-ups and errors of
\* the store overlap, the cache is left with a refresh token that has been
\* traded away only for a login whose newest one was lost or forgotten on its
\* way to the store.
THEOREM CachedAlwaysUsable == Spec => []CachedIsUsable
<1>1. TokenInv /\ UsableInv /\ [Next]_vars => UsableInv'
  BY StepUsable
<1> QED
  BY <1>1, InitUsable, TokenInvariant, PTL DEF Spec, UsableInv

-----------------------------------------------------------------------------
(***************************************************************************)
(* The wrapping stores.  WrongOnlyByOverlap for any callers and tokens:    *)
(* without a lock of its own a wrapper is right as long as no conflicting  *)
(* calls overlap and no error it ignores occurs.                           *)
(*                                                                         *)
(* The invariant says what each call in progress relies on.  While only    *)
(* one writes, the call of each other caller can be read off its `op`.     *)
(***************************************************************************)

TokenOps == {"store", "retrieve", "delete"}

\* What a call in progress can be.
Calls ==
  {NoCall} \cup [op : {"store"}, step : {"cache"}, token : Tokens]
         \cup [op : {"retrieve"}, step : {"primary", "fill"}, token : Tokens \cup {0}]
         \cup [op : {"delete"}, step : {"primary"}, token : {0}]
         \cup [op : {"redeem"}, step : {"delete"}, token : {0}]

Stored == {None} \cup {Bare(t) : t \in Tokens} \cup {Encrypt(t) : t \in Tokens}

Types ==
  /\ primary \in Stored
  /\ session \in BOOLEAN
  /\ call \in [Callers -> Calls]
  /\ redeemed \in 0 .. 2
  /\ raced \in BOOLEAN /\ faulted \in BOOLEAN

\* Two callers that are busy do not conflict.
Apart ==
  \A a, b \in Callers :
    a # b /\ call[a] # NoCall /\ call[b] # NoCall => ~Conflict(call[a].op, call[b].op)

\* The cache may be read: it is empty or agrees with the primary store.
Agree == cache # None => primary # None /\ cache = Decrypt(primary)

\* The call of c rests on this about the two token stores.
ReliesOn(c) ==
  /\ call[c].op = "store" => primary = Encrypt(call[c].token)
  /\ call[c].op = "delete" => cache = None
  /\ call[c].op = "retrieve" /\ call[c].step = "fill" =>
       primary # None /\ call[c].token = primary.token

\* When nobody stores a token, the stores agree.
Tokenwise ==
  /\ (\A c \in Callers : call[c].op # "store") => Agree
  /\ \A c \in Callers : ReliesOn(c)

\* A session that was handed out is being deleted, or is gone.
Sessionwise ==
  /\ redeemed <= 1
  /\ session /\ redeemed = 1 => \E c \in Callers : call[c].op = "redeem"

WrapInv == Types /\ (~raced => Apart) /\ (~raced /\ ~faulted => Tokenwise /\ Sessionwise)

-----------------------------------------------------------------------------
\* Which operations conflict.
LEMMA ConflictTable ==
  ASSUME NEW a \in TokenOps \cup {"redeem"}, NEW b \in TokenOps \cup {"redeem"}
  PROVE  Conflict(a, b) <=> \/ a \in TokenOps /\ b \in TokenOps
                                /\ ~(a = "retrieve" /\ b = "retrieve")
                            \/ a = "redeem" /\ b = "redeem"
BY DEF Conflict, TokenOps

\* The fields of a call by its operation.
LEMMA CallFields ==
  ASSUME NEW d \in Calls
  PROVE  /\ d = NoCall <=> d.op = "idle"
         /\ d # NoCall => d.op \in TokenOps \cup {"redeem"}
         /\ d.op = "store" => d.token \in Tokens
BY DEF Calls, NoCall, TokenOps

\* A caller that comes to rest disturbs no other.
LEMMA ReturnKeepsApart ==
  ASSUME Types, NEW c \in Callers, Return(c), Apart
  PROVE  Apart'
BY DEF Types, Return, Apart

\* One that begins while no call conflicts with it leaves the callers apart.
LEMMA BeginKeepsApart ==
  ASSUME Types, NEW c \in Callers, NEW op \in TokenOps \cup {"redeem"}, NEW step, NEW t,
         Begin(c, op, step, t), ~raced', Apart
  PROVE  /\ Apart'
         /\ \A d \in Callers \ {c} : call[d] # NoCall => ~Conflict(call[d].op, op)
<1>1. \A d \in Callers \ {c} : call[d] # NoCall => ~Conflict(call[d].op, op)
  BY DEF Begin, Busy
<1>2. call'[c].op = op /\ \A d \in Callers \ {c} : call'[d] = call[d]
  BY DEF Begin, Types
<1>3. \A d \in Callers \ {c} : call[d] # NoCall => ~Conflict(op, call[d].op)
  BY <1>1 DEF Conflict
<1>4. QED
  BY <1>1, <1>2, <1>3 DEF Apart

-----------------------------------------------------------------------------
\* The types are kept by every step.
LEMMA TypesKept == Types /\ [WrapNext]_wrapVars => Types'
<1> SUFFICES ASSUME Types, [WrapNext]_wrapVars PROVE Types'
  OBVIOUS
<1> USE DEF Types
<1>1. ASSUME NEW c \in Callers, NEW t \in Tokens, StorePrimary(c, t) PROVE Types'
  BY <1>1 DEF StorePrimary, Begin, Calls, Stored
<1>2. ASSUME NEW c \in Callers, StoreCache(c) PROVE Types'
  BY <1>2 DEF StoreCache, Return, Calls
<1>3. ASSUME NEW c \in Callers, RetrieveCache(c) PROVE Types'
  BY <1>3 DEF RetrieveCache, Begin, Calls
<1>4. ASSUME NEW c \in Callers, RetrievePrimary(c) PROVE Types'
  <2>1. CASE Return(c)
    BY <1>4, <2>1 DEF RetrievePrimary, Return, Calls
  <2>2. CASE primary # None /\ ~Return(c)
    <3>1. primary.token \in Tokens
      BY <2>2 DEF Stored, None, Bare, Encrypt
    <3>2. call'[c] = [call[c] EXCEPT !.step = "fill", !.token = primary.token]
      BY <1>4, <2>2 DEF RetrievePrimary, Decrypt, Bare
    <3>3. call'[c] \in Calls
      BY <1>4, <3>1, <3>2 DEF RetrievePrimary, Calls, NoCall
    <3>4. call' \in [Callers -> Calls]
      BY <1>4, <2>2, <3>3 DEF RetrievePrimary
    <3>5. QED
      BY <1>4, <3>4 DEF RetrievePrimary
  <2>3. QED
    BY <1>4, <2>1, <2>2 DEF RetrievePrimary
<1>5. ASSUME NEW c \in Callers, FillCache(c) PROVE Types'
  BY <1>5 DEF FillCache, Return, Calls
<1>6. ASSUME NEW c \in Callers, DeleteCache(c) PROVE Types'
  BY <1>6 DEF DeleteCache, Begin, Calls
<1>7. ASSUME NEW c \in Callers, DeletePrimary(c) PROVE Types'
  BY <1>7 DEF DeletePrimary, Return, Calls, Stored
<1>8. ASSUME NEW c \in Callers, StoreSession(c) PROVE Types'
  BY <1>8 DEF StoreSession
<1>9. ASSUME NEW c \in Callers, RetrieveSession(c) PROVE Types'
  BY <1>9 DEF RetrieveSession, Begin, Calls
<1>10. ASSUME NEW c \in Callers, DeleteSession(c) PROVE Types'
  BY <1>10 DEF DeleteSession, Return, Calls
<1>11. ASSUME Cleanup PROVE Types'
  BY <1>11 DEF Cleanup
<1>12. CASE UNCHANGED wrapVars
  BY <1>12 DEF wrapVars
<1>0. ASSUME NEW c \in Callers, NEW t \in Tokens, StoreDoubtful(c, t) PROVE Types'
  <2>1. raced' \in BOOLEAN
    BY <1>0 DEF StoreDoubtful
  <2>2. QED
    BY <1>0, <2>1 DEF StoreDoubtful, Stored
<1>13. QED
  BY <1>0, <1>1, <1>2, <1>3, <1>4, <1>5, <1>6, <1>7, <1>8, <1>9, <1>10, <1>11, <1>12
  DEF WrapNext, TokenStep, SessionStep

\* A writer is alone: no other call is on the token.
LEMMA WriterAlone ==
  ASSUME Types, Apart, NEW c \in Callers, call[c].op \in {"store", "delete"},
         NEW d \in Callers \ {c}
  PROVE  call[d].op \notin TokenOps
<1>1. call[c] \in Calls /\ call[d] \in Calls
  BY DEF Types
<1>2. call[c] # NoCall
  BY DEF NoCall
<1>3. ASSUME call[d].op \in TokenOps PROVE FALSE
  <2>1. call[d] # NoCall
    BY <1>3 DEF NoCall, TokenOps
  <2>2. ~Conflict(call[c].op, call[d].op)
    BY <1>2, <2>1 DEF Apart
  <2>3. QED
    BY <1>3, <2>2, ConflictTable DEF TokenOps
<1>4. QED
  BY <1>3

\* What a step may count on when nothing has gone wrong after it.
Calm == Types /\ Apart /\ Tokenwise /\ Sessionwise

\* The steps of Store.
LEMMA StoreSteps ==
  ASSUME Calm, NEW c \in Callers, ~raced', ~faulted', Types',
         (\E t \in Tokens : StorePrimary(c, t)) \/ StoreCache(c)
  PROVE  Apart' /\ Tokenwise' /\ Sessionwise'
<1> USE DEF Calm
<1>1. ASSUME NEW t \in Tokens, StorePrimary(c, t)
      PROVE  Apart' /\ Tokenwise' /\ Sessionwise'
  <2>1. /\ Apart'
        /\ \A d \in Callers \ {c} : call[d] # NoCall => ~Conflict(call[d].op, "store")
    BY <1>1, BeginKeepsApart DEF StorePrimary, TokenOps
  <2>2. /\ call[c] = NoCall /\ call'[c] = [op |-> "store", step |-> "cache", token |-> t]
        /\ \A d \in Callers \ {c} : call'[d] = call[d]
    BY <1>1 DEF StorePrimary, Begin, Types
  <2>3. \A d \in Callers \ {c} : call[d].op \notin TokenOps
    BY <2>1, CallFields, ConflictTable DEF Types, NoCall, TokenOps
  <2>4. Tokenwise'
    BY <1>1, <2>2, <2>3 DEF Tokenwise, ReliesOn, StorePrimary, TokenOps
  <2>5. Sessionwise'
    BY <1>1, <2>2 DEF Sessionwise, StorePrimary, NoCall
  <2>6. QED
    BY <2>1, <2>4, <2>5
<1>2. ASSUME StoreCache(c) PROVE Apart' /\ Tokenwise' /\ Sessionwise'
  <2>1. Apart'
    BY <1>2, ReturnKeepsApart DEF StoreCache
  <2>2. /\ call'[c] = NoCall
        /\ \A d \in Callers \ {c} : call'[d] = call[d] /\ call[d].op \notin TokenOps
    BY <1>2, WriterAlone DEF StoreCache, Return, Types
  <2>3. Agree'
    BY <1>2 DEF StoreCache, Tokenwise, ReliesOn, Agree, Encrypt, Decrypt, Bare, None
  <2>4. Tokenwise'
    BY <2>2, <2>3 DEF Tokenwise, ReliesOn, TokenOps, NoCall
  <2>5. Sessionwise'
    BY <1>2, <2>2 DEF Sessionwise, StoreCache
  <2>6. QED
    BY <2>1, <2>4, <2>5
<1>3. QED
  BY <1>1, <1>2

\* The steps of Retrieve.
LEMMA RetrieveSteps ==
  ASSUME Calm, NEW c \in Callers, ~raced', ~faulted', Types',
         RetrieveCache(c) \/ RetrievePrimary(c) \/ FillCache(c)
  PROVE  Apart' /\ Tokenwise' /\ Sessionwise'
<1> USE DEF Calm
<1>1. CASE RetrieveCache(c)
  <2>1. /\ Apart'
        /\ \A d \in Callers \ {c} : call[d] # NoCall => ~Conflict(call[d].op, "retrieve")
    BY <1>1, BeginKeepsApart DEF RetrieveCache, TokenOps
  <2>2. /\ call[c] = NoCall /\ call'[c] = [op |-> "retrieve", step |-> "primary", token |-> 0]
        /\ \A d \in Callers \ {c} : call'[d] = call[d]
    BY <1>1 DEF RetrieveCache, Begin, Types
  <2>3. Tokenwise'
    BY <1>1, <2>2 DEF Tokenwise, ReliesOn, Agree, RetrieveCache, NoCall
  <2>4. Sessionwise'
    BY <1>1, <2>2 DEF Sessionwise, RetrieveCache, NoCall
  <2>5. QED
    BY <2>1, <2>3, <2>4
<1>2. CASE RetrievePrimary(c)
  <2>1. CASE Return(c)
    <3>1. Apart'
      BY <1>2, <2>1, ReturnKeepsApart DEF RetrievePrimary
    <3>2. call'[c] = NoCall /\ \A d \in Callers \ {c} : call'[d] = call[d]
      BY <1>2, <2>1 DEF RetrievePrimary, Return, Types
    <3>3. Tokenwise'
      BY <1>2, <3>2 DEF Tokenwise, ReliesOn, Agree, RetrievePrimary, NoCall
    <3>4. Sessionwise'
      BY <1>2, <3>2 DEF Sessionwise, RetrievePrimary
    <3>5. QED
      BY <3>1, <3>3, <3>4
  <2>2. CASE primary # None /\ ~Return(c)
    <3>1. /\ call[c] # NoCall /\ call'[c].op = "retrieve"
          /\ call'[c].token = primary.token
          /\ \A d \in Callers \ {c} : call'[d] = call[d]
      BY <1>2, <2>2 DEF RetrievePrimary, Types, Calls, NoCall, Decrypt, Bare
    <3>2. Apart'
      BY <1>2, <3>1 DEF Apart, RetrievePrimary, NoCall
    <3>3. Tokenwise'
      BY <1>2, <2>2, <3>1 DEF Tokenwise, ReliesOn, Agree, RetrievePrimary
    <3>4. Sessionwise'
      BY <1>2, <3>1 DEF Sessionwise, RetrievePrimary
    <3>5. QED
      BY <3>2, <3>3, <3>4
  <2>3. QED
    BY <1>2, <2>1, <2>2 DEF RetrievePrimary
<1>3. CASE FillCache(c)
  <2>1. Apart'
    BY <1>3, ReturnKeepsApart DEF FillCache
  <2>2. call'[c] = NoCall /\ \A d \in Callers \ {c} : call'[d] = call[d]
    BY <1>3 DEF FillCache, Return, Types
  <2>3. \A d \in Callers : call[d].op \notin {"store", "delete"}
    BY <1>3, WriterAlone DEF FillCache, TokenOps
  <2>4. Agree'
    BY <1>3, <2>3 DEF FillCache, Tokenwise, ReliesOn, Agree, Decrypt
  <2>5. Tokenwise'
    BY <1>3, <2>2, <2>3, <2>4 DEF Tokenwise, ReliesOn, FillCache, NoCall
  <2>6. Sessionwise'
    BY <1>3, <2>2 DEF Sessionwise, FillCache
  <2>7. QED
    BY <2>1, <2>5, <2>6
<1>4. QED
  BY <1>1, <1>2, <1>3

\* The steps of Delete.
LEMMA DeleteSteps ==
  ASSUME Calm, NEW c \in Callers, ~raced', ~faulted', Types',
         DeleteCache(c) \/ DeletePrimary(c)
  PROVE  Apart' /\ Tokenwise' /\ Sessionwise'
<1> USE DEF Calm
<1>1. CASE DeleteCache(c)
  <2>1. /\ Apart'
        /\ \A d \in Callers \ {c} : call[d] # NoCall => ~Conflict(call[d].op, "delete")
    BY <1>1, BeginKeepsApart DEF DeleteCache, TokenOps
  <2>2. /\ call[c] = NoCall /\ call'[c] = [op |-> "delete", step |-> "primary", token |-> 0]
        /\ \A d \in Callers \ {c} : call'[d] = call[d]
    BY <1>1 DEF DeleteCache, Begin, Types
  <2>3. \A d \in Callers \ {c} : call[d].op \notin TokenOps
    BY <2>1, CallFields, ConflictTable DEF Types, NoCall, TokenOps
  <2>4. cache' = None
    BY <1>1 DEF DeleteCache
  <2>5. Tokenwise'
    BY <2>2, <2>3, <2>4 DEF Tokenwise, ReliesOn, Agree, TokenOps
  <2>6. Sessionwise'
    BY <1>1, <2>2 DEF Sessionwise, DeleteCache, NoCall
  <2>7. QED
    BY <2>1, <2>5, <2>6
<1>2. CASE DeletePrimary(c)
  <2>1. Apart'
    BY <1>2, ReturnKeepsApart DEF DeletePrimary
  <2>2. /\ call'[c] = NoCall
        /\ \A d \in Callers \ {c} : call'[d] = call[d] /\ call[d].op \notin TokenOps
    BY <1>2, WriterAlone DEF DeletePrimary, Return, Types
  <2>3. cache' = None
    BY <1>2 DEF DeletePrimary, Tokenwise, ReliesOn
  <2>4. Tokenwise'
    BY <2>2, <2>3 DEF Tokenwise, ReliesOn, Agree, TokenOps, NoCall
  <2>5. Sessionwise'
    BY <1>2, <2>2 DEF Sessionwise, DeletePrimary
  <2>6. QED
    BY <2>1, <2>4, <2>5
<1>3. QED
  BY <1>1, <1>2

\* The steps of the session store, and its clean-up.
LEMMA SessionSteps ==
  ASSUME Calm, NEW c \in Callers, ~raced', ~faulted', Types', SessionStep(c)
  PROVE  Apart' /\ Tokenwise' /\ Sessionwise'
<1> USE DEF Calm
<1>1. CASE StoreSession(c)
  BY <1>1 DEF StoreSession, Apart, Tokenwise, ReliesOn, Agree, Sessionwise
<1>2. CASE RetrieveSession(c)
  <2>1. /\ Apart'
        /\ \A d \in Callers \ {c} : call[d] # NoCall => ~Conflict(call[d].op, "redeem")
    BY <1>2, BeginKeepsApart DEF RetrieveSession
  <2>2. /\ call[c] = NoCall /\ call'[c] = [op |-> "redeem", step |-> "delete", token |-> 0]
        /\ \A d \in Callers \ {c} : call'[d] = call[d]
    BY <1>2 DEF RetrieveSession, Begin, Types
  <2>3. \A d \in Callers : call[d].op # "redeem"
    BY <2>1, <2>2, ConflictTable DEF NoCall, TokenOps
  <2>4. redeemed = 0
    BY <1>2, <2>3 DEF RetrieveSession, Sessionwise, Types
  <2>5. Sessionwise'
    BY <1>2, <2>2, <2>4 DEF RetrieveSession, Sessionwise
  <2>6. Tokenwise'
    BY <1>2, <2>2 DEF RetrieveSession, Tokenwise, ReliesOn, Agree, NoCall
  <2>7. QED
    BY <2>1, <2>5, <2>6
<1>3. CASE DeleteSession(c)
  <2>1. Apart'
    BY <1>3, ReturnKeepsApart DEF DeleteSession
  <2>2. call'[c] = NoCall /\ \A d \in Callers \ {c} : call'[d] = call[d]
    BY <1>3 DEF DeleteSession, Return, Types
  <2>3. Tokenwise'
    BY <1>3, <2>2 DEF DeleteSession, Tokenwise, ReliesOn, Agree, NoCall
  <2>4. Sessionwise'
    BY <1>3 DEF DeleteSession, Sessionwise
  <2>5. QED
    BY <2>1, <2>3, <2>4
<1>4. QED
  BY <1>1, <1>2, <1>3 DEF SessionStep

-----------------------------------------------------------------------------
LEMMA WrapInvInit == WrapInit => WrapInv
<1> SUFFICES ASSUME WrapInit PROVE WrapInv
  OBVIOUS
<1>1. \A c \in Callers : call[c] = NoCall
  BY DEF WrapInit
<1>2. Types
  <2>1. primary \in Stored
    BY DEF WrapInit, Stored
  <2>2. call \in [Callers -> Calls]
    BY DEF WrapInit, Calls
  <2>3. session \in BOOLEAN /\ raced \in BOOLEAN /\ faulted \in BOOLEAN
    BY Zenon DEF WrapInit
  <2>4. redeemed \in 0 .. 2
    BY DEF WrapInit
  <2>5. QED
    BY <2>1, <2>2, <2>3, <2>4 DEF Types
<1>3. Apart
  BY <1>1 DEF Apart
<1>4. Tokenwise /\ Sessionwise
  BY <1>1 DEF WrapInit, Tokenwise, ReliesOn, Agree, Sessionwise, NoCall
<1>5. QED
  BY <1>2, <1>3, <1>4 DEF WrapInv

\* Neither flag is ever taken back.
LEMMA FlagsStay == Types /\ [WrapNext]_wrapVars => (~raced' => ~raced) /\ (~faulted' => ~faulted)
BY DEF Types, WrapNext, TokenStep, SessionStep, wrapVars, StorePrimary, StoreDoubtful, StoreCache,
       RetrieveCache, RetrievePrimary, FillCache, DeleteCache, DeletePrimary, StoreSession,
       RetrieveSession, DeleteSession, Cleanup, Begin

\* Without an overlap the callers stay apart, whatever errors occur.
LEMMA ApartKept == Types /\ Apart /\ [WrapNext]_wrapVars /\ ~raced' => Apart'
<1> SUFFICES ASSUME Types, Apart, [WrapNext]_wrapVars, ~raced' PROVE Apart'
  OBVIOUS
<1>1. ASSUME NEW c \in Callers, NEW op \in TokenOps \cup {"redeem"}, NEW step, NEW t,
             Begin(c, op, step, t)
      PROVE  Apart'
  BY <1>1, BeginKeepsApart
<1>2. ASSUME NEW c \in Callers, Return(c) PROVE Apart'
  BY <1>2, ReturnKeepsApart
<1>3. ASSUME NEW c \in Callers, RetrievePrimary(c), ~Return(c) PROVE Apart'
  <2>1. /\ call[c] # NoCall /\ call'[c].op = call[c].op
        /\ \A d \in Callers \ {c} : call'[d] = call[d]
    BY <1>3 DEF RetrievePrimary, Types, Calls, NoCall
  <2>2. QED
    BY <2>1 DEF Apart
<1>4. ASSUME UNCHANGED call PROVE Apart'
  BY <1>4 DEF Apart
<1>5. ASSUME NEW c \in Callers, TokenStep(c) PROVE Apart'
  <2>1. CASE \E t \in Tokens : StorePrimary(c, t) \/ StoreDoubtful(c, t)
    BY <2>1, <1>1, <1>4 DEF StorePrimary, StoreDoubtful, TokenOps
  <2>2. CASE StoreCache(c) \/ FillCache(c) \/ DeletePrimary(c)
    BY <2>2, <1>2 DEF StoreCache, FillCache, DeletePrimary
  <2>3. CASE RetrieveCache(c)
    BY <2>3, <1>1 DEF RetrieveCache, TokenOps
  <2>4. CASE DeleteCache(c)
    BY <2>4, <1>1 DEF DeleteCache, TokenOps
  <2>5. CASE RetrievePrimary(c)
    BY <2>5, <1>2, <1>3 DEF RetrievePrimary
  <2>6. QED
    BY <1>5, <2>1, <2>2, <2>3, <2>4, <2>5 DEF TokenStep
<1>6. ASSUME NEW c \in Callers, SessionStep(c) PROVE Apart'
  <2>1. CASE StoreSession(c)
    BY <2>1, <1>4 DEF StoreSession
  <2>2. CASE RetrieveSession(c)
    BY <2>2, <1>1 DEF RetrieveSession
  <2>3. CASE DeleteSession(c)
    BY <2>3, <1>2 DEF DeleteSession
  <2>4. QED
    BY <1>6, <2>1, <2>2, <2>3 DEF SessionStep
<1>7. CASE Cleanup \/ UNCHANGED wrapVars
  BY <1>7, <1>4 DEF Cleanup, wrapVars
<1>8. QED
  BY <1>5, <1>6, <1>7 DEF WrapNext

LEMMA WrapInvNext == WrapInv /\ [WrapNext]_wrapVars => WrapInv'
<1> SUFFICES ASSUME WrapInv, [WrapNext]_wrapVars PROVE WrapInv'
  OBVIOUS
<1>1. Types /\ Types'
  BY TypesKept DEF WrapInv
<1>2. ~raced' => Apart'
  BY <1>1, FlagsStay, ApartKept DEF WrapInv
<1>3. ASSUME ~raced', ~faulted' PROVE Tokenwise' /\ Sessionwise'
  <2>1. Calm
    BY <1>1, <1>3, FlagsStay DEF WrapInv, Calm
  <2>2. ASSUME NEW c \in Callers, TokenStep(c) PROVE Tokenwise' /\ Sessionwise'
    BY <1>1, <1>3, <2>1, <2>2, StoreSteps, RetrieveSteps, DeleteSteps
    DEF TokenStep, StoreDoubtful
  <2>3. ASSUME NEW c \in Callers, SessionStep(c) PROVE Tokenwise' /\ Sessionwise'
    BY <1>1, <1>3, <2>1, <2>3, SessionSteps
  <2>4. CASE Cleanup \/ UNCHANGED wrapVars
    BY <2>1, <2>4 DEF Calm, Cleanup, wrapVars, Tokenwise, ReliesOn, Agree, Sessionwise
  <2>5. QED
    BY <2>2, <2>3, <2>4 DEF WrapNext
<1>4. QED
  BY <1>1, <1>2, <1>3 DEF WrapInv

\* The invariant gives the property: at rest nobody is storing.
LEMMA WrapInvImplies == WrapInv => WrongOnlyByOverlap
<1> SUFFICES ASSUME WrapInv, ~raced, ~faulted PROVE Coherent /\ RedeemedOnce
  BY DEF WrongOnlyByOverlap
<1>1. RedeemedOnce
  BY DEF WrapInv, Sessionwise, RedeemedOnce
<1>2. ASSUME Busy = {} PROVE \A c \in Callers : call[c].op # "store"
  BY <1>2 DEF Busy, NoCall
<1>3. Coherent
  BY <1>2 DEF WrapInv, Tokenwise, Agree, Coherent
<1>4. QED
  BY <1>1, <1>3

\* Whatever its callers do, the cache-integrated store disagrees with itself at
\* rest, and the encrypted session store hands a session out twice, only after
\* conflicting calls overlapped or an error was ignored.
THEOREM WrongOnlyByOverlapAlways == WrapSpec => []WrongOnlyByOverlap
BY WrapInvInit, WrapInvNext, WrapInvImplies, PTL DEF WrapSpec
=============================================================================
