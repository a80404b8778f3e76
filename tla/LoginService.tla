---------------------------- MODULE LoginService ----------------------------
(***************************************************************************)
(* One provider behind Service (oauth/service.go) or MultiProviderService: *)
(* the session with its PKCE pair, the exchange of the code and the        *)
(* refresh of the token, against an authorization server that is external. *)
(*                                                                         *)
(* The server issues one code for each login, bound to the challenge of    *)
(* the authorization URL, honours it once, and may refuse, fail, lose its  *)
(* answer, answer emptily or stay silent.  The application keeps the last  *)
(* token it got for each login and may refresh it from several handlers at *)
(* once.                                                                   *)
(*                                                                         *)
(* SessionFlow models what keeps a state from being redeemed twice; here a *)
(* redeemed login goes all the way to the provider and back.  Service is   *)
(* the case with a secret and without "custom", which NewCustomProvider    *)
(* refuses; MultiProviderService admits every case.                        *)
(***************************************************************************)
EXTENDS Providers, FiniteSets

CONSTANTS
  Logins, Handlers,
  StateTimeout,      \* config.StateTimeout, in ticks
  StoreTtl,          \* the ttl of MemorySessionStore, in ticks
  MaxTokens          \* bound: access tokens the server issues for a login

ASSUME LoginAssumption ==
  /\ NoLogin \notin Logins
  /\ StateTimeout \in Nat /\ StoreTtl \in Nat /\ MaxTokens \in Nat

VARIABLES
  config,    \* the provider and what the server does, fixed at start
  sessions,  \* MemorySessionStore.sessions: the PKCE pair of each key
  age,       \* ticks since the session was stored, counted up to TooOld
  call,      \* what each handler is doing
  token,     \* the token the application holds for each login
  cached,    \* the logins whose code has an entry in MemoryTokenStore
  url,       \* server: the PKCE parameters of each authorization URL
  code,      \* server: "none", "issued" or "used"
  access,    \* server: access tokens issued for each login
  refresh,   \* server: the refresh token it honours, 0 for none
  outcome,   \* history: how the exchange of each login ended
  lost       \* history: the logins with a token answer that did not get
             \* through, or with an empty answer

server == <<url, code, access, refresh>>
history == <<outcome, lost>>
vars == <<config, sessions, age, call, token, cached, server, history>>

TooOld == 1 + IF StateTimeout > StoreTtl THEN StateTimeout ELSE StoreTtl

Configs ==
  [kind : Kinds,
   method : {"none", "S256", "plain"},   \* PKCEEnabled and PKCEMethod
   secret : BOOLEAN,                     \* ClientSecret, or Apple's private key
   rotates : BOOLEAN,                    \* the server replaces refresh tokens
   errorStatus : {200, 400}]             \* the status of its refusals

NoReply == [status |-> 0, body |-> "garbled", access |-> 0, refresh |-> 0]
Idle == [op |-> "idle", step |-> "none", login |-> NoLogin, pkce |-> NoPKCE,
         sent |-> 0, reply |-> NoReply]

Init ==
  /\ config \in Configs
  /\ sessions = [l \in {} |-> NoPKCE]
  /\ age = [l \in Logins |-> 0]
  /\ call = [h \in Handlers |-> Idle]
  /\ token = [l \in Logins |-> Failure]
  /\ cached = {}
  /\ url = [l \in Logins |-> PKCEParams(NoPKCE)]
  /\ code = [l \in Logins |-> "none"]
  /\ access = [l \in Logins |-> 0]
  /\ refresh = [l \in Logins |-> 0]
  /\ outcome = [l \in Logins |-> "open"]
  /\ lost = {}

Return(h) == call' = [call EXCEPT ![h] = Idle]

-----------------------------------------------------------------------------
\* GetAuthURL: generate, store the session, build the URL.
GetAuthURL(l) ==
  /\ outcome[l] = "open"
  /\ outcome' = [outcome EXCEPT ![l] = "started"]
  /\ LET pkce == IF config.method = "none" THEN NoPKCE
                 ELSE GeneratePKCEChallenge(config.method, l)
     IN  /\ sessions' = [k \in DOMAIN sessions \cup {l} |->
                           IF k = l THEN pkce ELSE sessions[k]]
         /\ url' = [url EXCEPT ![l] = AuthURL(config.kind, pkce)]
  /\ UNCHANGED <<config, age, call, token, cached, code, access, refresh, lost>>

\* The user consents at the server.  Twitter wants a challenge.
Authorize(l) ==
  /\ outcome[l] = "started"
  /\ code[l] = "none"
  /\ config.kind = "twitter" => url[l].challenge # NoPKCE.challenge
  /\ code' = [code EXCEPT ![l] = "issued"]
  /\ UNCHANGED <<config, sessions, age, call, token, cached, url, access, refresh,
                 history>>

\* Mutant of Redeem: the PKCE pair of the session is not picked up.
RedeemWithoutVerifier(h, l) ==
  /\ call[h] = Idle
  /\ code[l] # "none"
  /\ l \in DOMAIN sessions
  /\ sessions' = [k \in DOMAIN sessions \ {l} |-> sessions[k]]
  /\ call' = [call EXCEPT ![h] = [Idle EXCEPT !.op = "exchange", !.step = "validate",
                                    !.login = l]]
  /\ UNCHANGED <<config, age, token, cached, server, history>>

\* Exchange for a callback: RetrieveAndDelete finds the session.  When it does
\* not, the Retrieve that Service falls back on finds none either, a session
\* being stored once and before its state is known outside, and Exchange fails.
Redeem(h, l) ==
  /\ call[h] = Idle
  /\ code[l] # "none"
  /\ l \in DOMAIN sessions
  /\ sessions' = [k \in DOMAIN sessions \ {l} |-> sessions[k]]
  /\ call' = [call EXCEPT ![h] = [Idle EXCEPT !.op = "exchange", !.step = "validate",
                                    !.login = l, !.pkce = sessions[l]]]
  /\ UNCHANGED <<config, age, token, cached, server, history>>

\* An expired session, or Apple without its key, ends the call; else the code
\* is sent with the verifier.
Validate(h) ==
  /\ call[h].step = "validate"
  /\ LET l == call[h].login
         end == IF age[l] > StateTimeout THEN "expired"
                ELSE IF GenerateClientSecret(config.kind, config.secret) THEN "none"
                ELSE "noKey"
     IN  IF end = "none"
           THEN /\ call' = [call EXCEPT ![h].step = "waiting"]
                /\ UNCHANGED outcome
           ELSE /\ outcome' = [outcome EXCEPT ![l] = end]
                /\ Return(h)
  /\ UNCHANGED <<config, sessions, age, token, cached, server, lost>>

\* RefreshToken.  A provider that does not support it is not asked.
RefreshToken(h, l) ==
  /\ call[h] = Idle
  /\ token[l].ok
  /\ SupportsRefresh(config.kind)
  /\ call' = [call EXCEPT ![h] = [Idle EXCEPT !.op = "refresh", !.step = "waiting",
                                    !.login = l, !.sent = token[l].refresh]]
  /\ UNCHANGED <<config, sessions, age, token, cached, server, history>>

-----------------------------------------------------------------------------
\* The server.  A public client may do without a secret when it uses PKCE.
ClientAccepted(pkce) ==
  \/ config.secret
  \/ config.kind \in {"twitter", "custom"} /\ pkce.method # "none"

CodeAccepted(l, pkce) ==
  /\ code[l] = "issued"
  /\ ClientAccepted(pkce)
  /\ \/ url[l].challenge = NoPKCE.challenge
     \/ ValidatePKCEChallenge(pkce.verifier, url[l].challenge, url[l].method)

Answer(h, reply) ==
  call' = [call EXCEPT ![h] = [@ EXCEPT !.step = "answered", !.reply = reply]]
Refusal == [NoReply EXCEPT !.status = config.errorStatus, !.body = "error"]
Tokens(a, r) == [status |-> 200, body |-> "token", access |-> a, refresh |-> r]

\* What the application sees of an answer that got lost or mangled, or that is
\* an object without a token and without an error.
Empty == [NoReply EXCEPT !.status = 200, !.body = "empty"]
Troubles ==
  {NoReply, [NoReply EXCEPT !.status = 500], [NoReply EXCEPT !.status = 200], Empty}

Issue(h, l, given) ==
  /\ access[l] < MaxTokens
  /\ access' = [access EXCEPT ![l] = @ + 1]
  /\ \/ \E r \in given : Answer(h, Tokens(access[l] + 1, r)) /\ UNCHANGED lost
     \/ /\ \E reply \in Troubles : Answer(h, reply)
        /\ lost' = lost \cup {l}
  /\ UNCHANGED <<config, sessions, age, token, cached, url, outcome>>

ServerRedeems(h) ==
  LET l == call[h].login IN
  /\ call[h].op = "exchange" /\ call[h].step = "waiting"
  /\ CodeAccepted(l, call[h].pkce)
  /\ code' = [code EXCEPT ![l] = "used"]
  /\ refresh' = [refresh EXCEPT ![l] = IF config.kind = "github" THEN 0 ELSE 1]
  /\ Issue(h, l, {refresh'[l]})

ServerRefreshes(h) ==
  LET l == call[h].login IN
  /\ call[h].op = "refresh" /\ call[h].step = "waiting"
  /\ call[h].sent # 0 /\ call[h].sent = refresh[l]
  /\ IF config.rotates
       THEN /\ refresh' = [refresh EXCEPT ![l] = @ + 1]
            /\ Issue(h, l, {refresh[l] + 1})
       ELSE Issue(h, l, {0, refresh[l]}) /\ UNCHANGED refresh
  /\ UNCHANGED code

ServerRefuses(h) ==
  LET l == call[h].login IN
  /\ call[h].step = "waiting"
  /\ \/ /\ call[h].op = "exchange" /\ ~CodeAccepted(l, call[h].pkce)
        /\ Answer(h, Refusal) /\ UNCHANGED lost
     \/ /\ call[h].op = "refresh" /\ (call[h].sent = 0 \/ call[h].sent # refresh[l])
        /\ Answer(h, Refusal) /\ UNCHANGED lost
     \/ \E reply \in Troubles \ {Empty} : Answer(h, reply) /\ UNCHANGED lost
     \/ Answer(h, Empty) /\ lost' = lost \cup {l}
  /\ UNCHANGED <<config, sessions, age, token, cached, server, outcome>>

\* The context of the handler's own request ends while it waits.
Cancel(h) ==
  /\ call[h].step = "waiting"
  /\ Return(h)
  /\ outcome' = IF call[h].op = "exchange"
                  THEN [outcome EXCEPT ![call[h].login] = "failed"] ELSE outcome
  /\ UNCHANGED <<config, sessions, age, token, cached, server, lost>>

-----------------------------------------------------------------------------
\* How an exchange ends, for the history: "refused" when the server said so,
\* whatever the application made of it.
End(result, reply) ==
  IF reply.body = "error" THEN "refused" ELSE IF result.ok THEN "granted" ELSE "failed"

\* The rest of Exchange: decode, cache, return the token.
FinishExchange(h) ==
  /\ call[h].op = "exchange" /\ call[h].step = "answered"
  /\ LET l == call[h].login
         result == Exchanged(config.kind, call[h].reply)
     IN  /\ token' = IF result.ok THEN [token EXCEPT ![l] = result] ELSE token
         /\ cached' = IF result.ok THEN cached \cup {l} ELSE cached
         /\ outcome' = [outcome EXCEPT ![l] = End(result, call[h].reply)]
  /\ Return(h)
  /\ UNCHANGED <<config, sessions, age, server, lost>>

\* The rest of RefreshToken.
FinishRefresh(h) ==
  /\ call[h].op = "refresh" /\ call[h].step = "answered"
  /\ LET result == Refreshed(config.kind, call[h].sent, call[h].reply)
     IN  token' = IF result.ok THEN [token EXCEPT ![call[h].login] = result] ELSE token
  /\ Return(h)
  /\ UNCHANGED <<config, sessions, age, cached, server, history>>

Cleanup ==
  /\ sessions' = [l \in {k \in DOMAIN sessions : age[k] <= StateTimeout /\ age[k] <= StoreTtl}
                    |-> sessions[l]]
  /\ UNCHANGED <<config, age, call, token, cached, server, history>>

Tick ==
  /\ age' = [l \in Logins |->
               IF outcome[l] = "started" /\ age[l] < TooOld THEN age[l] + 1 ELSE age[l]]
  /\ UNCHANGED <<config, sessions, call, token, cached, server, history>>

ServerStep(h) == ServerRedeems(h) \/ ServerRefreshes(h) \/ ServerRefuses(h)
Finish(h) == FinishExchange(h) \/ FinishRefresh(h)

Next ==
  \/ \E l \in Logins :
       \/ GetAuthURL(l) \/ Authorize(l)
       \/ \E h \in Handlers : Redeem(h, l) \/ RefreshToken(h, l)
  \/ \E h \in Handlers : Validate(h) \/ ServerStep(h) \/ Finish(h) \/ Cancel(h)
  \/ Cleanup \/ Tick

Spec == Init /\ [][Next]_vars

\* The handlers run and time passes; the server need not answer.
FairSpec ==
  /\ Spec
  /\ WF_vars(Tick) /\ WF_vars(Cleanup)
  /\ \A h \in Handlers : WF_vars(Validate(h)) /\ WF_vars(Finish(h))

-----------------------------------------------------------------------------
\* Settings no server accepts: the plain method at Twitter, whose URL always
\* says S256, and a confidential client without its secret.
Unacceptable ==
  \/ config.kind = "twitter" /\ config.method = "plain"
  \/ ~config.secret /\ (config.kind \in {"google", "github"} \/ config.method = "none")

\* The server has no reason to refuse a login that is called back in time: the
\* verifier sent is the one of the challenge it was given and the code has not
\* been used, whatever the provider, the method and the interleaving of
\* callbacks.
GenuineLoginNotRefused == \A l \in Logins : outcome[l] = "refused" => Unacceptable

\* Nobody is refreshing the token of login l.
Quiet(l) == \A h \in Handlers : call[h].login # l

\* The refresh token in hand is the one the server honours, after any number
\* of refreshes from several handlers at once, unless an answer was lost or came
\* empty.  A server that replaces refresh tokens is followed only by the custom
\* provider, and that one is misled by a refusal under status 200.
RefreshTokenStaysGood ==
  \A l \in Logins :
    (/\ token[l].ok /\ Quiet(l) /\ l \notin lost
     /\ config.rotates => config.kind = "custom"
     /\ ~(config.kind = "custom" /\ config.errorStatus = 200))
      => token[l].refresh = refresh[l]

\* oauth/config.go: "HTTPTimeout is the timeout for HTTP requests".  Under
\* FairSpec a call of Service that waits for its provider ends.
CallsEnd ==
  \A h \in Handlers :
    config.kind # "custom" /\ config.secret /\ call[h].step = "waiting" ~> call[h] = Idle
=============================================================================
