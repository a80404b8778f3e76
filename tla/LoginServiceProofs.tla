-------------------------- MODULE LoginServiceProofs --------------------------
(***************************************************************************)
(* Proofs about the login flow with its provider (module LoginService),    *)
(* for any logins, handlers and time limits: a login that is called back   *)
(* in time is not refused, and the refresh token in hand is the one the    *)
(* server honours.  And about the user's profile (module UserProfile): an  *)
(* address the kit reports as verified was verified.                       *)
(*                                                                         *)
(* The invariant follows one login through the session, the exchange and   *)
(* the refreshes.  A session, a call that exchanges its code and a call    *)
(* that refreshes its token exclude each other, and the outcome of the     *)
(* login tells which of them there may be.                                 *)
(***************************************************************************)
EXTENDS LoginService, UserProfile, SequenceTheorems, WellFoundedInduction, TLAPS

\* The PKCE pair GetAuthURL makes for a login.
Pair(l) == IF config.method = "none" THEN NoPKCE
           ELSE GeneratePKCEChallenge(config.method, l)

Outcomes == {"open", "started", "granted", "refused", "failed", "expired", "noKey"}

Replies == [status : {0, 200, 400, 500}, body : {"garbled", "empty", "error", "token"},
            access : Nat, refresh : Nat]

Results == [ok : BOOLEAN, access : Nat, refresh : Nat]

Calls == [op : {"idle", "exchange", "refresh"},
          step : {"none", "validate", "waiting", "answered"},
          login : Logins \cup {NoLogin},
          pkce : {NoPKCE} \cup {Pair(l) : l \in Logins},
          sent : Nat, reply : Replies]

Types ==
  /\ config \in Configs
  /\ DOMAIN sessions \subseteq Logins
  /\ call \in [Handlers -> Calls]
  /\ token \in [Logins -> Results]
  /\ code \in [Logins -> {"none", "issued", "used"}]
  /\ access \in [Logins -> Nat]
  /\ refresh \in [Logins -> Nat]
  /\ outcome \in [Logins -> Outcomes]
  /\ DOMAIN url = Logins

Exchanging(h, l) == call[h].op = "exchange" /\ call[h].login = l
Refreshing(h, l) == call[h].op = "refresh" /\ call[h].login = l

\* An answer with a new token that RefreshToken has not handed on yet.
Pending(h, l) == Refreshing(h, l) /\ call[h].reply.body = "token"

\* An empty answer that was not handed on yet.
Emptied(h, l) == call[h].login = l /\ call[h].reply.body = "empty"

\* What a call is about, and what its answer is worth once there is one.
Answers(c) ==
  /\ c.step # "none" => c.op # "idle"
  /\ c.op = "idle" <=> c.login = NoLogin
  /\ c.op = "refresh" => SupportsRefresh(config.kind)
  /\ c.step = "validate" => c.op = "exchange"
  /\ c.step # "answered" => c.reply = NoReply
  /\ c.reply.body = "token" => c.reply.status = 200 /\ c.reply.access # 0
  /\ c.reply.body = "error" => c.reply.status = config.errorStatus

\* A login that has its session, or is being exchanged.
Stored(l) ==
  /\ sessions[l] = Pair(l)
  /\ outcome[l] = "started"
  /\ code[l] # "used"
  /\ \A h \in Handlers : ~Exchanging(h, l)

Exchange(h, l) ==
  /\ outcome[l] = "started"
  /\ call[h].pkce = Pair(l)
  /\ call[h].step \in {"validate", "waiting"} => code[l] = "issued"
  /\ call[h].step # "validate" => GenerateClientSecret(config.kind, config.secret)
  /\ call[h].reply.body = "error" => Unacceptable
  /\ \A g \in Handlers : Exchanging(g, l) => g = h

Protocol(l) ==
  /\ outcome[l] = "open" => code[l] = "none"
  /\ outcome[l] # "open" => url[l] = AuthURL(config.kind, Pair(l))
  /\ token[l].ok => outcome[l] \in {"granted", "refused"}
  /\ l \in DOMAIN sessions => Stored(l)
  /\ \A h \in Handlers : Exchanging(h, l) => Exchange(h, l)
  /\ \A h \in Handlers : Refreshing(h, l) => token[l].ok

\* What the caller of Exchange is promised.
Promise(l) == outcome[l] = "refused" => Unacceptable

\* The settings under which the application can follow the server's refresh
\* token, whatever the server does with it.
Followed ==
  /\ config.rotates => config.kind = "custom"
  /\ ~(config.kind = "custom" /\ config.errorStatus = 200)

\* The server keeps the refresh token.
Kept(l) ==
  /\ token[l].ok => token[l].refresh = refresh[l]
  /\ \A h \in Handlers : Refreshing(h, l) => call[h].sent = refresh[l]
  /\ \A h \in Handlers : Pending(h, l) => call[h].reply.refresh \in {0, refresh[l]}

\* The server replaces it: the application is behind only while the answer
\* with the new one is on its way, and no refresh succeeds meanwhile.
Rotated(l) ==
  /\ token[l].ok => token[l].refresh <= refresh[l]
  /\ token[l].ok /\ token[l].refresh # refresh[l] => \E h \in Handlers : Pending(h, l)
  /\ \A h \in Handlers : Refreshing(h, l) => call[h].sent <= token[l].refresh
  /\ \A h \in Handlers : Pending(h, l) =>
       /\ call[h].reply.refresh = refresh[l]
       /\ token[l].refresh < refresh[l]
       /\ \A g \in Handlers : Pending(g, l) => g = h

Follow(l) ==
  Followed /\ l \notin lost =>
    /\ config.kind = "github" => refresh[l] = 0
    /\ \A h \in Handlers : ~Emptied(h, l)
    /\ \A h \in Handlers : Exchanging(h, l) /\ call[h].reply.body = "token" =>
         call[h].reply.refresh = refresh[l]
    /\ ~config.rotates => Kept(l)
    /\ config.rotates => Rotated(l)

LoginInv ==
  /\ Types
  /\ \A h \in Handlers : Answers(call[h])
  /\ \A l \in Logins : Protocol(l) /\ Promise(l) /\ Follow(l)
-----------------------------------------------------------------------------
\* What a call looks like after the steps that change it.
Asked(op, step, l, pkce, sent, reply) ==
  [op |-> op, step |-> step, login |-> l, pkce |-> pkce, sent |-> sent, reply |-> reply]

\* Only the call of h changes, to c.
Becomes(h, c) ==
  /\ call' \in [Handlers -> Calls]
  /\ call'[h] = c
  /\ \A g \in Handlers : g # h => call'[g] = call[g]

LEMMA CallFields ==
  ASSUME Types, NEW h \in Handlers
  PROVE  /\ call[h] \in Calls
         /\ call[h] = Asked(call[h].op, call[h].step, call[h].login, call[h].pkce,
                            call[h].sent, call[h].reply)
         /\ call[h].reply \in Replies
         /\ call[h].sent \in Nat
BY DEF Types, Calls, Asked

LEMMA IdleFields ==
  /\ NoReply \in Replies /\ NoReply.body = "garbled"
  /\ Idle \in Calls
  /\ Idle = Asked("idle", "none", NoLogin, NoPKCE, 0, NoReply)
<1>1. NoReply \in Replies /\ NoReply.body = "garbled"
  BY DEF NoReply, Replies
<1>2. Idle = Asked("idle", "none", NoLogin, NoPKCE, 0, NoReply)
  BY DEF Idle, Asked
<1>3. Idle \in Calls
  BY <1>1 DEF Calls, Idle
<1> QED
  BY <1>1, <1>2, <1>3

LEMMA SameCalls ==
  ASSUME config' = config
  PROVE  Calls' = Calls
BY DEF Calls, Pair

LEMMA ReturnEffect ==
  ASSUME Types, config' = config, NEW h \in Handlers, Return(h)
  PROVE  Becomes(h, Idle)
<1>1. call' \in [Handlers -> Calls]
  BY IdleFields DEF Return, Types
<1> QED
  BY <1>1, SameCalls DEF Return, Becomes, Types

LEMMA AnswerEffect ==
  ASSUME Types, config' = config, NEW h \in Handlers, NEW reply \in Replies,
         Answer(h, reply)
  PROVE  Becomes(h, Asked(call[h].op, "answered", call[h].login, call[h].pkce,
                          call[h].sent, reply))
<1>1. PICK c : c = Asked(call[h].op, "answered", call[h].login, call[h].pkce,
                         call[h].sent, reply)
  OBVIOUS
<1>2. c \in Calls
  BY <1>1 DEF Asked, Types, Calls
<1>3. call' = [call EXCEPT ![h] = c]
  <2>1. call[h] = Asked(call[h].op, call[h].step, call[h].login, call[h].pkce,
                        call[h].sent, call[h].reply)
    BY CallFields
  <2>2. PICK d : d = call[h]
    OBVIOUS
  <2>3. [d EXCEPT !.step = "answered", !.reply = reply]
          = Asked(d.op, "answered", d.login, d.pkce, d.sent, reply)
    <3>1. d = Asked(d.op, d.step, d.login, d.pkce, d.sent, d.reply)
      BY <2>1, <2>2
    <3>2. [d EXCEPT !.step = "answered"]
            = Asked(d.op, "answered", d.login, d.pkce, d.sent, d.reply)
      BY <3>1 DEF Asked
    <3>3. [Asked(d.op, "answered", d.login, d.pkce, d.sent, d.reply) EXCEPT !.reply = reply]
            = Asked(d.op, "answered", d.login, d.pkce, d.sent, reply)
      BY DEF Asked
    <3> QED
      BY <3>2, <3>3
  <2>4. [call[h] EXCEPT !.step = "answered", !.reply = reply] = c
    BY <1>1, <2>2, <2>3
  <2> QED
    BY <2>4 DEF Answer
<1> QED
  BY <1>1, <1>2, <1>3, SameCalls DEF Becomes, Types

\* The answers of the server.
LEMMA AnswerKinds ==
  ASSUME config \in Configs
  PROVE  /\ Refusal \in Replies
         /\ Refusal.body = "error" /\ Refusal.status = config.errorStatus
         /\ \A reply \in Troubles : reply \in Replies /\ reply.body \in {"garbled", "empty"}
         /\ \A reply \in Troubles \ {Empty} : reply.body = "garbled"
         /\ Empty \in Replies /\ Empty.body = "empty"
         /\ \A a, r \in Nat : /\ Tokens(a, r) \in Replies
                              /\ Tokens(a, r).body = "token"
                              /\ Tokens(a, r).status = 200
                              /\ Tokens(a, r).access = a
                              /\ Tokens(a, r).refresh = r
<1>1. /\ Refusal \in Replies
      /\ Refusal.body = "error" /\ Refusal.status = config.errorStatus
  BY DEF Refusal, NoReply, Replies, Configs
<1>2. Empty \in Replies /\ Empty.body = "empty"
  BY DEF Empty, NoReply, Replies
<1>3. \A reply \in Troubles \ {Empty} : reply \in Replies /\ reply.body = "garbled"
  BY DEF Troubles, NoReply, Replies
<1>4. \A a, r \in Nat : /\ Tokens(a, r) \in Replies
                        /\ Tokens(a, r).body = "token"
                        /\ Tokens(a, r).status = 200
                        /\ Tokens(a, r).access = a
                        /\ Tokens(a, r).refresh = r
  BY DEF Tokens, Replies
<1> QED
  BY <1>1, <1>2, <1>3, <1>4

\* What the five providers make of an answer to the exchange of a code ...
LEMMA ExchangedFacts ==
  ASSUME NEW k \in Kinds, NEW reply \in Replies,
         reply.body = "token" => reply.status = 200
  PROVE  /\ Exchanged(k, reply) \in Results
         /\ reply.body = "token" => Exchanged(k, reply).ok
         /\ Exchanged(k, reply).ok =>
              /\ reply.body \in {"token", "empty"} \/
                   (k = "custom" /\ reply.body = "error" /\ reply.status = 200)
              /\ Exchanged(k, reply).access = reply.access
              /\ Exchanged(k, reply).refresh
                   = IF k = "github" THEN 0 ELSE reply.refresh
<1>1. reply.access \in Nat /\ reply.refresh \in Nat
  BY DEF Replies
<1>2. reply.body \in {"garbled", "empty", "error", "token"}
  BY DEF Replies
<1>3. Exchanged(k, reply)
        = IF \/ k = "custom" /\ reply.status = 200 /\ reply.body # "garbled"
             \/ k # "custom" /\ Answered(reply)
          THEN Token(reply.access, IF k = "github" THEN 0 ELSE reply.refresh)
          ELSE Failure
  BY DEF Kinds, Exchanged, GoogleExchange, GitHubExchange, AppleExchange,
         TwitterExchange, CustomExchange
<1> QED
  BY <1>1, <1>2, <1>3 DEF Answered, Token, Failure, Results

\* ... and to a refresh.
LEMMA RefreshedFacts ==
  ASSUME NEW k \in Kinds, SupportsRefresh(k), NEW sent \in Nat,
         NEW reply \in Replies, reply.body = "token" => reply.status = 200
  PROVE  /\ Refreshed(k, sent, reply) \in Results
         /\ reply.body = "token" => Refreshed(k, sent, reply).ok
         /\ Refreshed(k, sent, reply).ok =>
              /\ reply.body \in {"token", "empty"} \/
                   (k = "custom" /\ reply.body = "error" /\ reply.status = 200)
              /\ Refreshed(k, sent, reply).access = reply.access
              /\ Refreshed(k, sent, reply).refresh
                   = IF k = "custom" /\ reply.refresh # 0 THEN reply.refresh ELSE sent
<1>1. reply.access \in Nat /\ reply.refresh \in Nat
  BY DEF Replies
<1>2. reply.body \in {"garbled", "empty", "error", "token"}
  BY DEF Replies
<1>3. Refreshed(k, sent, reply)
        = IF \/ k = "custom" /\ reply.status = 200 /\ reply.body # "garbled"
             \/ k # "custom" /\ Answered(reply)
          THEN Token(reply.access,
                     IF k = "custom" /\ reply.refresh # 0 THEN reply.refresh ELSE sent)
          ELSE Failure
  BY DEF Kinds, SupportsRefresh, Refreshed, GoogleRefreshToken, AppleRefreshToken,
         TwitterRefreshToken, CustomRefreshToken
<1> QED
  BY <1>1, <1>2, <1>3 DEF Answered, Token, Failure, Results

\* The verifier of a pair fits the challenge of its URL: the server has no
\* reason to refuse, but for settings it accepts from nobody.
LEMMA ChallengeFits ==
  ASSUME config \in Configs, NEW l \in Logins,
         url[l] = AuthURL(config.kind, Pair(l)), code[l] = "issued",
         GenerateClientSecret(config.kind, config.secret),
         ~CodeAccepted(l, Pair(l))
  PROVE  Unacceptable
<1>1. /\ config.kind \in Kinds /\ config.method \in {"none", "S256", "plain"}
      /\ config.secret \in BOOLEAN
  BY DEF Configs
<1>2. /\ url[l].challenge = Pair(l).challenge
      /\ url[l].method = IF config.kind = "twitter" THEN "S256" ELSE Pair(l).method
  BY <1>1 DEF AuthURL, Kinds, GoogleAuthURL, GitHubAuthURL, AppleAuthURL,
              TwitterAuthURL, CustomAuthURL, PKCEParams
<1>3. Pair(l).method = config.method
  BY DEF Pair, NoPKCE, GeneratePKCEChallenge
<1>4. CASE ~ClientAccepted(Pair(l))
  BY <1>1, <1>3, <1>4 DEF ClientAccepted, Unacceptable, Kinds, GenerateClientSecret
<1>5. CASE config.method = "none"
  <2>1. url[l].challenge = NoPKCE.challenge
    BY <1>2, <1>5 DEF Pair
  <2> QED
    BY <1>4, <2>1 DEF CodeAccepted
<1>6. CASE config.method = "S256"
  <2>1. ValidatePKCEChallenge(Pair(l).verifier, url[l].challenge, url[l].method)
    BY <1>2, <1>3, <1>6 DEF Pair, GeneratePKCEChallenge, ValidatePKCEChallenge
  <2> QED
    BY <1>4, <2>1 DEF CodeAccepted
<1>7. CASE config.method = "plain" /\ config.kind # "twitter"
  <2>1. ValidatePKCEChallenge(Pair(l).verifier, url[l].challenge, url[l].method)
    BY <1>2, <1>3, <1>7 DEF Pair, GeneratePKCEChallenge, ValidatePKCEChallenge
  <2> QED
    BY <1>4, <2>1 DEF CodeAccepted
<1>8. CASE config.method = "plain" /\ config.kind = "twitter"
  BY <1>8 DEF Unacceptable
<1> QED
  BY <1>1, <1>5, <1>6, <1>7, <1>8

-----------------------------------------------------------------------------
\* What a step leaves of login m: the calls that change are about others.
Untouched(m) ==
  /\ outcome'[m] = outcome[m] /\ code'[m] = code[m] /\ url'[m] = url[m]
  /\ token'[m] = token[m] /\ refresh'[m] = refresh[m]
  /\ m \in DOMAIN sessions' => m \in DOMAIN sessions /\ sessions'[m] = sessions[m]
  /\ m \in lost => m \in lost'
  /\ \A g \in Handlers : \/ call'[g] = call[g]
                         \/ call[g].login # m /\ call'[g].login # m

LEMMA Elsewhere ==
  ASSUME config' = config, NEW m \in Logins, Untouched(m),
         Protocol(m), Promise(m), Follow(m)
  PROVE  Protocol(m)' /\ Promise(m)' /\ Follow(m)'
<1>1. Unacceptable' = Unacceptable /\ Pair(m)' = Pair(m) /\ Followed' = Followed
  BY DEF Unacceptable, Pair, Followed
<1>2. \A g \in Handlers :
        /\ Exchanging(g, m)' => Exchanging(g, m) /\ call'[g] = call[g]
        /\ Exchanging(g, m) => Exchanging(g, m)' /\ call'[g] = call[g]
        /\ Refreshing(g, m)' => Refreshing(g, m) /\ call'[g] = call[g]
        /\ Refreshing(g, m) => Refreshing(g, m)' /\ call'[g] = call[g]
        /\ Pending(g, m)' => Pending(g, m) /\ call'[g] = call[g]
        /\ Pending(g, m) => Pending(g, m)' /\ call'[g] = call[g]
        /\ Emptied(g, m)' => Emptied(g, m)
  BY DEF Untouched, Exchanging, Refreshing, Pending, Emptied
<1>3. Protocol(m)'
  <2>1. m \in DOMAIN sessions' => Stored(m)'
    BY <1>1, <1>2 DEF Untouched, Protocol, Stored
  <2>2. \A h \in Handlers : Exchanging(h, m)' => Exchange(h, m)'
    BY <1>1, <1>2 DEF Untouched, Protocol, Exchange
  <2>3. \A h \in Handlers : Refreshing(h, m)' => token'[m].ok
    BY <1>2 DEF Untouched, Protocol
  <2> QED
    BY <1>1, <2>1, <2>2, <2>3 DEF Untouched, Protocol
<1>4. Promise(m)'
  BY <1>1 DEF Untouched, Promise
<1>5. Follow(m)'
  <2>1. Kept(m) => Kept(m)'
    BY <1>2 DEF Untouched, Kept
  <2>2. Rotated(m) => Rotated(m)'
    BY <1>2 DEF Untouched, Rotated
  <2> QED
    BY <1>1, <1>2, <2>1, <2>2 DEF Untouched, Follow
<1> QED
  BY <1>3, <1>4, <1>5
-----------------------------------------------------------------------------
\* A step is about login l when it leaves the others as they are.
OnlyAbout(l) ==
  \A m \in Logins : m # l =>
    /\ outcome'[m] = outcome[m] /\ code'[m] = code[m] /\ url'[m] = url[m]
    /\ token'[m] = token[m] /\ refresh'[m] = refresh[m]
    /\ m \in DOMAIN sessions' => m \in DOMAIN sessions /\ sessions'[m] = sessions[m]
    /\ m \in lost => m \in lost'

Facts(l) == Protocol(l) /\ Promise(l) /\ Follow(l)

\* A step by handler h about login l keeps the invariant if it keeps what the
\* invariant says of the call and of the login.
LEMMA AboutOne ==
  ASSUME LoginAssumption, LoginInv, config' = config, Types',
         NEW h \in Handlers, NEW c, Becomes(h, c), Answers(c),
         NEW l \in Logins, OnlyAbout(l),
         call[h].login \in {l, NoLogin}, c.login \in {l, NoLogin},
         Facts(l)'
  PROVE  LoginInv'
<1>1. \A g \in Handlers : Answers(call[g])'
  BY DEF LoginInv, Becomes, Answers
<1>2. ASSUME NEW m \in Logins, m # l PROVE Facts(m)'
  <2>1. m # NoLogin
    BY DEF LoginAssumption
  <2>2. Untouched(m)
    BY <1>2, <2>1 DEF OnlyAbout, Untouched, Becomes
  <2> QED
    BY <2>2, Elsewhere DEF LoginInv, Facts
<1>3. \A m \in Logins : Facts(m)'
  BY <1>2
<1> QED
  BY <1>1, <1>3 DEF LoginInv, Facts

\* The same for a step that changes no call.
LEMMA AboutNoCall ==
  ASSUME LoginInv, config' = config, call' = call, Types', NEW l, OnlyAbout(l),
         l \in Logins => Facts(l)'
  PROVE  LoginInv'
<1>1. \A g \in Handlers : Answers(call[g])'
  BY DEF LoginInv, Answers
<1>2. ASSUME NEW m \in Logins, m # l PROVE Facts(m)'
  <2>1. Untouched(m)
    BY <1>2 DEF OnlyAbout, Untouched
  <2> QED
    BY <2>1, Elsewhere DEF LoginInv, Facts
<1>3. \A m \in Logins : Facts(m)'
  BY <1>2
<1> QED
  BY <1>1, <1>3 DEF LoginInv, Facts

LEMMA InitLoginInv ==
  ASSUME Init
  PROVE  LoginInv
<1>1. Failure \in Results /\ ~Failure.ok
  BY DEF Failure, Results
<1>2. Types
  <2>1. /\ config \in Configs
        /\ DOMAIN sessions \subseteq Logins
        /\ DOMAIN url = Logins
    BY DEF Init
  <2>2. call \in [Handlers -> Calls]
    BY IdleFields DEF Init
  <2>3. token \in [Logins -> Results]
    BY <1>1 DEF Init
  <2>4. /\ code \in [Logins -> {"none", "issued", "used"}]
        /\ access \in [Logins -> Nat]
        /\ refresh \in [Logins -> Nat]
        /\ outcome \in [Logins -> Outcomes]
    BY DEF Init, Outcomes
  <2> QED
    BY <2>1, <2>2, <2>3, <2>4 DEF Types
<1>3. \A h \in Handlers : call[h] = Asked("idle", "none", NoLogin, NoPKCE, 0, NoReply)
  BY IdleFields DEF Init
<1>4. \A h \in Handlers : Answers(call[h])
  BY <1>3, IdleFields DEF Answers, Asked
<1>5. \A h \in Handlers, l \in Logins :
        ~Exchanging(h, l) /\ ~Refreshing(h, l) /\ ~Pending(h, l) /\ ~Emptied(h, l)
  BY <1>3, IdleFields DEF Asked, Exchanging, Refreshing, Pending, Emptied
<1>6. ASSUME NEW l \in Logins PROVE Facts(l)
  <2>1. /\ outcome[l] = "open" /\ code[l] = "none" /\ l \notin DOMAIN sessions
        /\ ~token[l].ok /\ refresh[l] = 0
    BY <1>1 DEF Init
  <2> QED
    BY <2>1, <1>5 DEF Facts, Protocol, Promise, Follow, Kept, Rotated
<1> QED
  BY <1>2, <1>4, <1>6 DEF LoginInv, Facts

\* The session is stored with the pair whose challenge the URL carries.
LEMMA GetAuthURLKeeps ==
  ASSUME LoginInv, NEW l \in Logins, GetAuthURL(l)
  PROVE  LoginInv'
<1>1. /\ outcome[l] = "open" /\ outcome' = [outcome EXCEPT ![l] = "started"]
      /\ DOMAIN sessions' = DOMAIN sessions \cup {l}
      /\ sessions'[l] = Pair(l)
      /\ \A m \in DOMAIN sessions : m # l => sessions'[m] = sessions[m]
      /\ url' = [url EXCEPT ![l] = AuthURL(config.kind, Pair(l))]
      /\ config' = config /\ call' = call /\ token' = token /\ code' = code
      /\ access' = access /\ refresh' = refresh /\ lost' = lost
  BY DEF GetAuthURL, Pair
<1>2. Types'
  BY <1>1, SameCalls DEF LoginInv, Types, Outcomes
<1>3. OnlyAbout(l)
  BY <1>1 DEF OnlyAbout, LoginInv, Types
<1>4. \A h \in Handlers : ~Exchanging(h, l) /\ ~Exchanging(h, l)'
  <2>1. \A h \in Handlers : Exchanging(h, l) => outcome[l] = "started"
    BY DEF LoginInv, Protocol, Exchange
  <2> QED
    BY <2>1, <1>1 DEF Exchanging
<1>5. ~token[l].ok /\ code[l] = "none"
  BY <1>1 DEF LoginInv, Protocol
<1>6. Pair(l)' = Pair(l) /\ outcome'[l] = "started"
      /\ url'[l] = AuthURL(config.kind, Pair(l))
  BY <1>1 DEF Pair, LoginInv, Types
<1>7. Protocol(l)'
  <2>1. Stored(l)'
    BY <1>1, <1>4, <1>5, <1>6 DEF Stored
  <2>2. \A h \in Handlers : Refreshing(h, l)' => token'[l].ok
    BY <1>1 DEF Refreshing, LoginInv, Protocol
  <2> QED
    BY <1>1, <1>4, <1>5, <1>6, <2>1, <2>2 DEF Protocol
<1>8. Promise(l)'
  BY <1>1, <1>5, <1>6 DEF Promise
<1>9. Follow(l)'
  BY <1>1 DEF LoginInv, Follow, Followed, Kept, Rotated, Exchanging, Refreshing, Pending,
              Emptied
<1> QED
  BY <1>1, <1>2, <1>3, <1>7, <1>8, <1>9, AboutNoCall DEF Facts

LEMMA AuthorizeKeeps ==
  ASSUME LoginInv, NEW l \in Logins, Authorize(l)
  PROVE  LoginInv'
<1>1. /\ outcome[l] = "started" /\ code[l] = "none"
      /\ code' = [code EXCEPT ![l] = "issued"]
      /\ config' = config /\ call' = call /\ token' = token /\ sessions' = sessions
      /\ access' = access /\ refresh' = refresh /\ lost' = lost
      /\ outcome' = outcome /\ url' = url
  BY DEF Authorize, history
<1>2. Types'
  BY <1>1, SameCalls DEF LoginInv, Types
<1>3. OnlyAbout(l) /\ code'[l] = "issued"
  BY <1>1 DEF OnlyAbout, LoginInv, Types
<1>4. Protocol(l)'
  BY <1>1, <1>3 DEF LoginInv, Protocol, Stored, Exchange, Exchanging, Refreshing,
                    Pair, Unacceptable
<1>5. Promise(l)' /\ Follow(l)'
  BY <1>1 DEF LoginInv, Promise, Unacceptable, Follow, Followed, Kept, Rotated,
              Exchanging, Refreshing, Pending, Emptied
<1> QED
  BY <1>1, <1>2, <1>3, <1>4, <1>5, AboutNoCall DEF Facts

\* Steps that change no login: the clean-up takes sessions away, time passes.
LEMMA NoLoginKeeps ==
  ASSUME LoginAssumption, LoginInv,
         UNCHANGED <<config, call, token, code, access, refresh, outcome, url, lost>>,
         DOMAIN sessions' \subseteq DOMAIN sessions,
         \A l \in DOMAIN sessions' : sessions'[l] = sessions[l]
  PROVE  LoginInv'
<1>1. Types'
  BY SameCalls DEF LoginInv, Types
<1>2. OnlyAbout(NoLogin)
  BY DEF OnlyAbout
<1> QED
  BY <1>1, <1>2, AboutNoCall DEF LoginAssumption

-----------------------------------------------------------------------------
\* What the calls do for a login when only the call of h changes, to c.
LEMMA CallsOf ==
  ASSUME NEW h \in Handlers, NEW c, Becomes(h, c), NEW l
  PROVE  \A g \in Handlers :
           /\ g # h => /\ Exchanging(g, l)' <=> Exchanging(g, l)
                       /\ Refreshing(g, l)' <=> Refreshing(g, l)
                       /\ Pending(g, l)' <=> Pending(g, l)
                       /\ call'[g] = call[g]
           /\ g = h => /\ Exchanging(g, l)' <=> (c.op = "exchange" /\ c.login = l)
                       /\ Refreshing(g, l)' <=> (c.op = "refresh" /\ c.login = l)
                       /\ Pending(g, l)' <=>
                            (c.op = "refresh" /\ c.login = l /\ c.reply.body = "token")
                       /\ call'[g] = c
BY DEF Becomes, Exchanging, Refreshing, Pending

\* Exchange and RefreshToken begin in an idle handler.
\* No empty answer comes up when the new call has none.
LEMMA NoneEmptied ==
  ASSUME NEW h \in Handlers, NEW c, Becomes(h, c), c.reply.body # "empty", NEW l
  PROVE  \A g \in Handlers : Emptied(g, l)' => Emptied(g, l)
BY DEF Becomes, Emptied

LEMMA IdleCall ==
  ASSUME NEW h \in Handlers, call[h] = Idle, LoginInv
  PROVE  /\ call[h].login = NoLogin
         /\ \A l : ~Exchanging(h, l) /\ ~Refreshing(h, l) /\ ~Pending(h, l)
BY IdleFields DEF Asked, Exchanging, Refreshing, Pending

\* The session moves into the call.
LEMMA RedeemKeeps ==
  ASSUME LoginAssumption, LoginInv, NEW h \in Handlers, NEW l \in Logins, Redeem(h, l)
  PROVE  LoginInv'
<1>1. PICK c : c = Asked("exchange", "validate", l, Pair(l), 0, NoReply)
  OBVIOUS
<1>2. /\ l \in DOMAIN sessions /\ code[l] # "none" /\ call[h] = Idle
      /\ DOMAIN sessions' = DOMAIN sessions \ {l}
      /\ \A m \in DOMAIN sessions' : sessions'[m] = sessions[m]
      /\ config' = config /\ token' = token /\ code' = code /\ access' = access
      /\ refresh' = refresh /\ outcome' = outcome /\ lost' = lost /\ url' = url
  BY DEF Redeem, server, history
<1>3. Stored(l)
  BY <1>2 DEF LoginInv, Protocol
<1>4. c \in Calls
  BY <1>1, IdleFields DEF Calls, Asked
<1>5. Becomes(h, c)
  <2>1. PICK p : p = Pair(l)
    OBVIOUS
  <2>2. [Idle EXCEPT !.op = "exchange", !.step = "validate", !.login = l, !.pkce = p] = c
    <3>1. [Idle EXCEPT !.op = "exchange"]
            = Asked("exchange", "none", NoLogin, NoPKCE, 0, NoReply)
      BY DEF Idle, Asked
    <3>2. [Asked("exchange", "none", NoLogin, NoPKCE, 0, NoReply) EXCEPT !.step = "validate"]
            = Asked("exchange", "validate", NoLogin, NoPKCE, 0, NoReply)
      BY DEF Asked
    <3>3. [Asked("exchange", "validate", NoLogin, NoPKCE, 0, NoReply) EXCEPT !.login = l]
            = Asked("exchange", "validate", l, NoPKCE, 0, NoReply)
      BY DEF Asked
    <3>4. [Asked("exchange", "validate", l, NoPKCE, 0, NoReply) EXCEPT !.pkce = p]
            = Asked("exchange", "validate", l, p, 0, NoReply)
      BY DEF Asked
    <3> QED
      BY <1>1, <2>1, <3>1, <3>2, <3>3, <3>4
  <2>3. call' = [call EXCEPT ![h] = c]
    BY <1>3, <2>1, <2>2 DEF Redeem, Stored
  <2> QED
    BY <2>3, <1>2, <1>4, SameCalls DEF Becomes, LoginInv, Types
<1>6. c.op = "exchange" /\ c.step = "validate" /\ c.login = l /\ c.pkce = Pair(l)
      /\ c.reply = NoReply
  BY <1>1 DEF Asked
<1>7. Answers(c)
  BY <1>6, IdleFields DEF Answers, LoginAssumption
<1>8. Types'
  BY <1>2, <1>5, SameCalls DEF LoginInv, Types, Becomes
<1>9. OnlyAbout(l)
  BY <1>2 DEF OnlyAbout
<1>10. /\ \A g \in Handlers : ~Exchanging(g, l)
       /\ \A g \in Handlers : Exchanging(g, l)' => g = h
       /\ Exchanging(h, l)' /\ call'[h] = c
       /\ \A g \in Handlers : Refreshing(g, l)' => Refreshing(g, l) /\ call'[g] = call[g]
       /\ \A g \in Handlers : Pending(g, l)' => Pending(g, l) /\ call'[g] = call[g]
       /\ \A g \in Handlers : Pending(g, l) => Pending(g, l)'
  BY <1>3, <1>5, <1>6, CallsOf, IdleCall, <1>2 DEF Stored
<1>11. Pair(l)' = Pair(l) /\ Unacceptable' = Unacceptable /\ Followed' = Followed
  BY <1>2 DEF Pair, Unacceptable, Followed
<1>12. Protocol(l)'
  <2>1. code[l] = "issued"
    BY <1>2, <1>3 DEF Stored, LoginInv, Types
  <2>2. Exchange(h, l)'
    BY <1>2, <1>3, <1>6, <1>10, <1>11, <2>1, IdleFields DEF Exchange, Stored
  <2> QED
    BY <1>2, <1>10, <1>11, <2>2 DEF Protocol, LoginInv
<1>13. Promise(l)'
  BY <1>2, <1>11 DEF Promise, LoginInv
<1>14. Follow(l)'
  <2>1. ~(\E g \in Handlers : Exchanging(g, l)' /\ call'[g].reply.body = "token")
    BY <1>6, <1>10, IdleFields
  <2>2. Kept(l) => Kept(l)'
    BY <1>2, <1>10 DEF Kept
  <2>3. Rotated(l) => Rotated(l)'
    BY <1>2, <1>10 DEF Rotated
  <2>4. \A g \in Handlers : Emptied(g, l)' => Emptied(g, l)
    BY <1>5, <1>6, IdleFields, NoneEmptied
  <2> QED
    BY <1>2, <1>11, <2>1, <2>2, <2>3, <2>4 DEF LoginInv, Follow
<1> QED
  BY <1>2, <1>5, <1>6, <1>7, <1>8, <1>9, <1>12, <1>13, <1>14, IdleCall, AboutOne
     DEF Facts

\* The refresh token in hand is sent.
LEMMA RefreshTokenKeeps ==
  ASSUME LoginAssumption, LoginInv, NEW h \in Handlers, NEW l \in Logins,
         RefreshToken(h, l)
  PROVE  LoginInv'
<1>1. PICK c : c = Asked("refresh", "waiting", l, NoPKCE, token[l].refresh, NoReply)
  OBVIOUS
<1>2. /\ call[h] = Idle /\ token[l].ok /\ SupportsRefresh(config.kind)
      /\ config' = config /\ token' = token /\ code' = code /\ access' = access
      /\ refresh' = refresh /\ outcome' = outcome /\ lost' = lost /\ url' = url
      /\ sessions' = sessions
  BY DEF RefreshToken, server, history
<1>3. c \in Calls
  <2>1. token[l].refresh \in Nat
    BY DEF LoginInv, Types, Results
  <2> QED
    BY <1>1, <2>1, IdleFields DEF Calls, Asked
<1>4. Becomes(h, c)
  <2>1. PICK r : r = token[l].refresh
    OBVIOUS
  <2>2. [Idle EXCEPT !.op = "refresh", !.step = "waiting", !.login = l, !.sent = r] = c
    <3>1. [Idle EXCEPT !.op = "refresh"]
            = Asked("refresh", "none", NoLogin, NoPKCE, 0, NoReply)
      BY DEF Idle, Asked
    <3>2. [Asked("refresh", "none", NoLogin, NoPKCE, 0, NoReply) EXCEPT !.step = "waiting"]
            = Asked("refresh", "waiting", NoLogin, NoPKCE, 0, NoReply)
      BY DEF Asked
    <3>3. [Asked("refresh", "waiting", NoLogin, NoPKCE, 0, NoReply) EXCEPT !.login = l]
            = Asked("refresh", "waiting", l, NoPKCE, 0, NoReply)
      BY DEF Asked
    <3>4. [Asked("refresh", "waiting", l, NoPKCE, 0, NoReply) EXCEPT !.sent = r]
            = Asked("refresh", "waiting", l, NoPKCE, r, NoReply)
      BY DEF Asked
    <3> QED
      BY <1>1, <2>1, <3>1, <3>2, <3>3, <3>4
  <2>3. call' = [call EXCEPT ![h] = c]
    BY <2>1, <2>2 DEF RefreshToken
  <2> QED
    BY <2>3, <1>2, <1>3, SameCalls DEF Becomes, LoginInv, Types
<1>5. c.op = "refresh" /\ c.step = "waiting" /\ c.login = l
      /\ c.sent = token[l].refresh /\ c.reply = NoReply
  BY <1>1 DEF Asked
<1>6. Answers(c)
  BY <1>2, <1>5, IdleFields DEF Answers, LoginAssumption
<1>7. Types'
  BY <1>2, <1>4, SameCalls DEF LoginInv, Types, Becomes
<1>8. OnlyAbout(l)
  BY <1>2 DEF OnlyAbout
<1>9. \A g \in Handlers :
        /\ Exchanging(g, l)' => Exchanging(g, l) /\ call'[g] = call[g]
        /\ Exchanging(g, l) => Exchanging(g, l)'
        /\ Refreshing(g, l)' => g = h \/ (Refreshing(g, l) /\ call'[g] = call[g])
        /\ Pending(g, l)' => Pending(g, l) /\ call'[g] = call[g]
        /\ Pending(g, l) => Pending(g, l)'
  BY <1>2, <1>4, <1>5, CallsOf, IdleCall, IdleFields
<1>10. call'[h] = c
  BY <1>4 DEF Becomes
<1>11. Pair(l)' = Pair(l) /\ Unacceptable' = Unacceptable /\ Followed' = Followed
  BY <1>2 DEF Pair, Unacceptable, Followed
<1>12. Protocol(l)'
  <2>1. \A g \in Handlers : Exchanging(g, l)' => Exchange(g, l)'
    BY <1>2, <1>9, <1>11 DEF LoginInv, Protocol, Exchange
  <2>2. Stored(l) => Stored(l)'
    BY <1>2, <1>9, <1>11 DEF Stored
  <2> QED
    BY <1>2, <1>11, <2>1, <2>2 DEF Protocol, LoginInv
<1>13. Promise(l)'
  BY <1>2, <1>11 DEF Promise, LoginInv
<1>14. Follow(l)'
  <2>1. Kept(l) => Kept(l)'
    BY <1>2, <1>5, <1>9, <1>10 DEF Kept
  <2>2. Rotated(l) => Rotated(l)'
    <3>1. token[l].refresh <= token[l].refresh
      BY DEF LoginInv, Types, Results
    <3> QED
      BY <3>1, <1>2, <1>5, <1>9, <1>10 DEF Rotated
  <2>3. \A g \in Handlers : Emptied(g, l)' => Emptied(g, l)
    BY <1>4, <1>5, IdleFields, NoneEmptied
  <2> QED
    BY <1>2, <1>9, <1>11, <2>1, <2>2, <2>3 DEF LoginInv, Follow
<1> QED
  BY <1>2, <1>4, <1>5, <1>6, <1>7, <1>8, <1>12, <1>13, <1>14, IdleCall, AboutOne
     DEF Facts

-----------------------------------------------------------------------------
\* A call in progress is about a login, and exchanges its code or refreshes
\* its token.
LEMMA BusyCall ==
  ASSUME LoginAssumption, LoginInv, NEW h \in Handlers, call[h].step # "none"
  PROVE  \E l \in Logins :
           /\ call[h].login = l
           /\ Facts(l)
           /\ \/ Exchanging(h, l) /\ Exchange(h, l) /\ call[h].op = "exchange"
                   /\ l \notin DOMAIN sessions /\ ~token[l].ok
              \/ Refreshing(h, l) /\ token[l].ok /\ call[h].op = "refresh"
                   /\ SupportsRefresh(config.kind)
<1>1. call[h] \in Calls /\ Answers(call[h])
  BY CallFields DEF LoginInv
<1>2. PICK l \in Logins : call[h].login = l
  BY <1>1 DEF Calls, Answers
<1>3. call[h].op \in {"exchange", "refresh"}
  BY <1>1 DEF Calls, Answers
<1>4. Facts(l)
  BY DEF LoginInv, Facts
<1>5. Exchanging(h, l) => Exchange(h, l) /\ l \notin DOMAIN sessions /\ ~token[l].ok
  BY <1>4 DEF Facts, Protocol, Stored, Exchange
<1>6. Refreshing(h, l) => token[l].ok /\ SupportsRefresh(config.kind)
  BY <1>1, <1>4 DEF Facts, Protocol, Refreshing, Answers
<1> QED
  BY <1>2, <1>3, <1>4, <1>5, <1>6 DEF Exchanging, Refreshing

\* Follow is about the tokens and the answers that carry them.
LEMMA FollowStays ==
  ASSUME config' = config, NEW l, Follow(l),
         token'[l] = token[l], refresh'[l] = refresh[l], l \in lost => l \in lost',
         \A g \in Handlers :
           /\ Exchanging(g, l)' /\ call'[g].reply.body = "token" =>
                Exchanging(g, l) /\ call'[g].reply = call[g].reply
           /\ Refreshing(g, l)' => Refreshing(g, l) /\ call'[g].sent = call[g].sent
           /\ Pending(g, l)' => Pending(g, l) /\ call'[g].reply = call[g].reply
           /\ Pending(g, l) => Pending(g, l)'
           /\ Emptied(g, l)' => Emptied(g, l)
  PROVE  Follow(l)'
<1>1. Followed' = Followed
  BY DEF Followed
<1>2. Kept(l) => Kept(l)'
  BY DEF Kept
<1>3. Rotated(l) => Rotated(l)'
  BY DEF Rotated
<1> QED
  BY <1>1, <1>2, <1>3 DEF Follow

LEMMA SameSettings ==
  ASSUME config' = config, NEW l
  PROVE  Pair(l)' = Pair(l) /\ Unacceptable' = Unacceptable /\ Followed' = Followed
BY DEF Pair, Unacceptable, Followed

\* A call that ends without a token: the session that has expired, the key
\* that is missing, the request that is cancelled.
LEMMA GivingUpKeeps ==
  ASSUME LoginAssumption, LoginInv, NEW h \in Handlers, NEW l \in Logins,
         call[h].login = l, call[h].step \in {"validate", "waiting"}, Return(h),
         NEW end \in {"expired", "noKey", "failed"},
         outcome' = IF call[h].op = "exchange" THEN [outcome EXCEPT ![l] = end]
                                               ELSE outcome,
         UNCHANGED <<config, sessions, age, token, cached, server, lost>>
  PROVE  LoginInv'
<1>1. PICK c : c = Idle
  OBVIOUS
<1>2. /\ config' = config /\ sessions' = sessions /\ token' = token /\ url' = url
      /\ code' = code /\ access' = access /\ refresh' = refresh /\ lost' = lost
  BY DEF server
<1>3. Becomes(h, c)
  BY <1>1, <1>2, ReturnEffect DEF LoginInv
<1>4. c.op = "idle" /\ c.login = NoLogin /\ c.step = "none" /\ c.reply = NoReply
  BY <1>1, IdleFields DEF Asked
<1>5. Answers(c)
  BY <1>4, IdleFields DEF Answers
<1>6. Types'
  BY <1>2, <1>3, SameCalls DEF LoginInv, Types, Becomes, Outcomes
<1>7. OnlyAbout(l)
  BY <1>2 DEF OnlyAbout, LoginInv, Types
<1>8. call[h].reply = NoReply
  BY DEF LoginInv, Answers
<1>9. \A g \in Handlers :
        /\ Exchanging(g, l)' => g # h /\ Exchanging(g, l) /\ call'[g] = call[g]
        /\ Refreshing(g, l)' => Refreshing(g, l) /\ call'[g] = call[g]
        /\ Pending(g, l)' => Pending(g, l) /\ call'[g] = call[g]
        /\ Pending(g, l) => Pending(g, l)'
  BY <1>3, <1>4, <1>8, CallsOf, IdleFields DEF LoginAssumption, Pending
<1>10. Protocol(l)'
  <2>1. PICK k \in Logins :
          /\ call[h].login = k
          /\ Facts(k)
          /\ \/ Exchanging(h, k) /\ Exchange(h, k) /\ call[h].op = "exchange"
                  /\ k \notin DOMAIN sessions /\ ~token[k].ok
             \/ Refreshing(h, k) /\ token[k].ok /\ call[h].op = "refresh"
                  /\ SupportsRefresh(config.kind)
    BY BusyCall
  <2>2. k = l
    BY <2>1
  <2>3. CASE call[h].op = "exchange"
    <3>1. /\ Exchanging(h, l) /\ Exchange(h, l)
          /\ l \notin DOMAIN sessions /\ ~token[l].ok
      BY <2>1, <2>2, <2>3 DEF Refreshing
    <3>2. outcome'[l] = end
      BY <2>3 DEF LoginInv, Types
    <3>3. \A g \in Handlers : ~Exchanging(g, l)'
      BY <1>9, <3>1 DEF Exchange
    <3> QED
      BY <1>2, <1>9, <2>1, <2>2, <3>1, <3>2, <3>3, SameSettings
         DEF Facts, Protocol, Exchange
  <2>4. CASE call[h].op # "exchange"
    <3>1. outcome' = outcome
      BY <2>4
    <3>2. \A g \in Handlers : Exchanging(g, l)' => Exchange(g, l)'
      BY <1>2, <1>9, <2>1, <2>2, <2>4, <3>1, SameSettings DEF Facts, Protocol, Exchange
    <3>3. Stored(l) => Stored(l)'
      BY <1>2, <1>9, <3>1, SameSettings DEF Stored
    <3> QED
      BY <1>2, <1>9, <2>1, <2>2, <3>1, <3>2, <3>3, SameSettings DEF Facts, Protocol
  <2> QED
    BY <2>3, <2>4
<1>11. Promise(l)'
  <2>1. outcome'[l] = "refused" => outcome[l] = "refused"
    BY DEF LoginInv, Types
  <2> QED
    BY <2>1, <1>2, SameSettings DEF LoginInv, Promise
<1>12. Follow(l)'
  <2>1. \A g \in Handlers : Emptied(g, l)' => Emptied(g, l)
    BY <1>3, <1>4, IdleFields, NoneEmptied
  <2> QED
    BY <1>2, <1>9, <2>1, FollowStays DEF LoginInv
<1> QED
  BY <1>2, <1>3, <1>4, <1>5, <1>6, <1>7, <1>10, <1>11, <1>12, AboutOne DEF Facts

LEMMA CancelKeeps ==
  ASSUME LoginAssumption, LoginInv, NEW h \in Handlers, Cancel(h)
  PROVE  LoginInv'
<1>1. PICK l \in Logins : call[h].login = l
  BY BusyCall DEF Cancel
<1> QED
  BY <1>1, GivingUpKeeps DEF Cancel

\* The call is in time and may be signed: it goes to the server.
LEMMA ValidateKeeps ==
  ASSUME LoginAssumption, LoginInv, NEW h \in Handlers, Validate(h)
  PROVE  LoginInv'
<1>1. PICK l \in Logins :
        /\ call[h].login = l
        /\ Facts(l)
        /\ \/ Exchanging(h, l) /\ Exchange(h, l) /\ call[h].op = "exchange"
                /\ l \notin DOMAIN sessions /\ ~token[l].ok
           \/ Refreshing(h, l) /\ token[l].ok /\ call[h].op = "refresh"
                /\ SupportsRefresh(config.kind)
  BY BusyCall DEF Validate
<1>2. /\ call[h].op = "exchange" /\ call[h].step = "validate"
      /\ call[h].reply = NoReply
  BY DEF Validate, LoginInv, Answers
<1>3. PICK end : end = IF age[l] > StateTimeout THEN "expired"
                       ELSE IF GenerateClientSecret(config.kind, config.secret) THEN "none"
                       ELSE "noKey"
  OBVIOUS
<1>4. CASE end # "none"
  <2>1. /\ Return(h) /\ outcome' = [outcome EXCEPT ![l] = end]
        /\ UNCHANGED <<config, sessions, age, token, cached, server, lost>>
    BY <1>1, <1>3, <1>4 DEF Validate
  <2>2. end \in {"expired", "noKey", "failed"}
    BY <1>3, <1>4
  <2> QED
    BY <1>1, <1>2, <2>1, <2>2, GivingUpKeeps
<1>5. CASE end = "none"
  <2>1. /\ call' = [call EXCEPT ![h].step = "waiting"]
        /\ config' = config /\ sessions' = sessions /\ token' = token /\ url' = url
        /\ code' = code /\ access' = access /\ refresh' = refresh /\ lost' = lost
        /\ outcome' = outcome
    BY <1>1, <1>3, <1>5 DEF Validate, server
  <2>2. GenerateClientSecret(config.kind, config.secret)
    BY <1>3, <1>5
  <2>3. PICK c : c = [call[h] EXCEPT !.step = "waiting"]
    OBVIOUS
  <2>4. /\ c \in Calls
        /\ c.op = "exchange" /\ c.step = "waiting" /\ c.login = l
        /\ c.pkce = call[h].pkce /\ c.reply = NoReply
    BY <1>1, <1>2, <2>3, CallFields DEF LoginInv, Calls
  <2>5. Becomes(h, c)
    BY <2>1, <2>3, <2>4, SameCalls DEF LoginInv, Types, Becomes
  <2>6. Answers(c)
    BY <2>4, IdleFields DEF Answers, LoginAssumption
  <2>7. Types'
    BY <2>1, <2>5, SameCalls DEF LoginInv, Types, Becomes
  <2>8. OnlyAbout(l)
    BY <2>1 DEF OnlyAbout
  <2>9. \A g \in Handlers :
          /\ Exchanging(g, l)' => Exchanging(g, l)
          /\ Exchanging(g, l) => Exchanging(g, l)'
          /\ Refreshing(g, l)' => Refreshing(g, l) /\ call'[g] = call[g]
          /\ Pending(g, l)' => Pending(g, l) /\ call'[g] = call[g]
          /\ Pending(g, l) => Pending(g, l)'
    BY <1>1, <1>2, <2>4, <2>5, CallsOf, IdleFields DEF Exchanging, Refreshing, Pending
  <2>10. call'[h] = c /\ Exchanging(h, l) /\ Exchange(h, l)
    BY <1>1, <1>2, <2>5 DEF Becomes, Refreshing
  <2>11. \A g \in Handlers : Exchanging(g, l) => g = h
    BY <2>10 DEF Exchange
  <2>12. Protocol(l)'
    <3>1. Exchange(h, l)'
      BY <1>2, <2>1, <2>2, <2>4, <2>9, <2>10, <2>11, SameSettings, IdleFields DEF Exchange
    <3> QED
      BY <1>1, <1>2, <2>1, <2>9, <2>11, <3>1, SameSettings DEF Facts, Protocol, Refreshing
  <2>13. Promise(l)'
    BY <1>1, <2>1, SameSettings DEF Facts, Promise
  <2>14. Follow(l)'
    <3>1. \A g \in Handlers : ~(Exchanging(g, l)' /\ call'[g].reply.body = "token")
      BY <2>4, <2>9, <2>10, <2>11, IdleFields
    <3>2. \A g \in Handlers : Emptied(g, l)' => Emptied(g, l)
      BY <2>4, <2>5, IdleFields, NoneEmptied
    <3> QED
      BY <1>1, <2>1, <2>9, <3>1, <3>2, FollowStays DEF Facts
  <2> QED
    BY <1>1, <2>1, <2>4, <2>5, <2>6, <2>7, <2>8, <2>12, <2>13, <2>14, AboutOne DEF Facts
<1> QED
  BY <1>4, <1>5

-----------------------------------------------------------------------------
\* The server, or the network, answers a call that waits.
LEMMA AnswerView ==
  ASSUME LoginAssumption, LoginInv, config' = config, NEW h \in Handlers,
         call[h].step = "waiting", NEW reply \in Replies, Answer(h, reply),
         reply.body = "token" => reply.status = 200 /\ reply.access # 0,
         reply.body = "error" => reply.status = config.errorStatus
  PROVE  \E c : /\ Becomes(h, c) /\ Answers(c)
                /\ c.op = call[h].op /\ c.login = call[h].login /\ c.step = "answered"
                /\ c.pkce = call[h].pkce /\ c.sent = call[h].sent /\ c.reply = reply
<1>1. PICK c : c = Asked(call[h].op, "answered", call[h].login, call[h].pkce,
                         call[h].sent, reply)
  OBVIOUS
<1>2. Becomes(h, c)
  BY <1>1, AnswerEffect DEF LoginInv
<1>3. /\ c.op = call[h].op /\ c.login = call[h].login /\ c.step = "answered"
      /\ c.pkce = call[h].pkce /\ c.sent = call[h].sent /\ c.reply = reply
  BY <1>1 DEF Asked
<1>4. Answers(c)
  BY <1>3 DEF LoginInv, Answers
<1> QED
  BY <1>2, <1>3, <1>4

\* What the server's answer keeps of the protocol: the code may be used up.
LEMMA AnswerKeepsProtocol ==
  ASSUME LoginAssumption, LoginInv, config' = config, NEW h \in Handlers,
         NEW l \in Logins, call[h].login = l, call[h].step = "waiting",
         NEW c, Becomes(h, c),
         c.op = call[h].op, c.login = l, c.step = "answered", c.pkce = call[h].pkce,
         c.reply.body = "error" /\ c.op = "exchange" => Unacceptable,
         call[h].op # "exchange" => code' = code,
         UNCHANGED <<sessions, token, url, outcome>>
  PROVE  Protocol(l)' /\ Promise(l)'
<1>1. PICK k \in Logins :
        /\ call[h].login = k
        /\ Facts(k)
        /\ \/ Exchanging(h, k) /\ Exchange(h, k) /\ call[h].op = "exchange"
                /\ k \notin DOMAIN sessions /\ ~token[k].ok
           \/ Refreshing(h, k) /\ token[k].ok /\ call[h].op = "refresh"
                /\ SupportsRefresh(config.kind)
  BY BusyCall
<1>2. k = l
  BY <1>1
<1>3. \A g \in Handlers :
        /\ Exchanging(g, l)' => Exchanging(g, l) /\ (g # h => call'[g] = call[g])
        /\ Exchanging(g, l) => Exchanging(g, l)'
        /\ Refreshing(g, l)' => Refreshing(g, l)
  BY CallsOf DEF Exchanging, Refreshing
<1>4. call'[h] = c
  BY DEF Becomes
<1>5. Promise(l)'
  BY <1>1, <1>2, SameSettings DEF Facts, Promise
<1>6. CASE call[h].op = "exchange"
  <2>1. Exchanging(h, l) /\ Exchange(h, l) /\ l \notin DOMAIN sessions /\ ~token[l].ok
    BY <1>1, <1>2, <1>6 DEF Refreshing
  <2>2. \A g \in Handlers : Exchanging(g, l) => g = h
    BY <2>1 DEF Exchange
  <2>3. Exchange(h, l)'
    BY <1>3, <1>4, <1>6, <2>1, <2>2, SameSettings DEF Exchange
  <2>4. outcome[l] = "started"
    BY <2>1 DEF Exchange
  <2> QED
    BY <1>1, <1>2, <1>3, <1>5, <2>1, <2>2, <2>3, <2>4, SameSettings DEF Facts, Protocol
<1>7. CASE call[h].op # "exchange"
  <2>1. \A g \in Handlers : Exchanging(g, l) => g # h
    BY <1>7 DEF Exchanging
  <2>2. \A g \in Handlers : Exchanging(g, l)' => Exchange(g, l)'
    BY <1>1, <1>2, <1>3, <1>7, <2>1, SameSettings DEF Facts, Protocol, Exchange
  <2>3. Stored(l) => Stored(l)'
    BY <1>3, <1>7, SameSettings DEF Stored
  <2> QED
    BY <1>1, <1>2, <1>3, <1>5, <1>7, <2>2, <2>3, SameSettings DEF Facts, Protocol
<1> QED
  BY <1>6, <1>7

\* A refusal, or an answer that says nothing.  An exchange is refused for
\* settings that no server accepts, and for nothing else.
LEMMA ServerRefusesKeeps ==
  ASSUME LoginAssumption, LoginInv, NEW h \in Handlers, ServerRefuses(h)
  PROVE  LoginInv'
<1>1. PICK l \in Logins :
        /\ call[h].login = l
        /\ Facts(l)
        /\ \/ Exchanging(h, l) /\ Exchange(h, l) /\ call[h].op = "exchange"
                /\ l \notin DOMAIN sessions /\ ~token[l].ok
           \/ Refreshing(h, l) /\ token[l].ok /\ call[h].op = "refresh"
                /\ SupportsRefresh(config.kind)
  BY BusyCall DEF ServerRefuses
<1>2. /\ config' = config /\ sessions' = sessions /\ token' = token /\ url' = url
      /\ code' = code /\ access' = access /\ refresh' = refresh
      /\ outcome' = outcome /\ call[h].step = "waiting"
  BY DEF ServerRefuses, server
<1>3. config \in Configs
  BY DEF LoginInv, Types
<1>4. PICK reply \in Replies :
        /\ Answer(h, reply)
        /\ reply.body # "token"
        /\ reply.body = "error" => reply.status = config.errorStatus
        /\ reply.body = "error" /\ call[h].op = "exchange" => ~CodeAccepted(l, call[h].pkce)
        /\ lost' = lost \/ lost' = lost \cup {l}
        /\ reply.body = "empty" => l \in lost'
  BY <1>1, <1>3, AnswerKinds DEF ServerRefuses
<1>5. PICK c : /\ Becomes(h, c) /\ Answers(c)
               /\ c.op = call[h].op /\ c.login = l /\ c.step = "answered"
               /\ c.pkce = call[h].pkce /\ c.sent = call[h].sent /\ c.reply = reply
  BY <1>1, <1>2, <1>4, AnswerView
<1>6. c.reply.body = "error" /\ c.op = "exchange" => Unacceptable
  <2> SUFFICES ASSUME c.reply.body = "error", c.op = "exchange" PROVE Unacceptable
    OBVIOUS
  <2>1. Exchange(h, l) /\ ~CodeAccepted(l, call[h].pkce)
    BY <1>1, <1>4, <1>5 DEF Refreshing
  <2>2. /\ call[h].pkce = Pair(l) /\ code[l] = "issued"
        /\ GenerateClientSecret(config.kind, config.secret) /\ outcome[l] = "started"
    BY <1>2, <2>1 DEF Exchange
  <2>3. url[l] = AuthURL(config.kind, Pair(l))
    BY <1>1, <2>2 DEF Facts, Protocol
  <2> QED
    BY <1>3, <2>1, <2>2, <2>3, ChallengeFits
<1>7. Types' /\ OnlyAbout(l)
  BY <1>2, <1>4, <1>5, SameCalls DEF LoginInv, Types, Becomes, OnlyAbout
<1>8. Protocol(l)' /\ Promise(l)'
  BY <1>1, <1>2, <1>5, <1>6, AnswerKeepsProtocol
<1>9. Follow(l)'
  <2> SUFFICES ASSUME l \notin lost' PROVE Follow(l)'
    BY DEF Follow
  <2>0. \A g \in Handlers : Emptied(g, l)' => Emptied(g, l)
    BY <1>4, <1>5, NoneEmptied
  <2>1. call[h].reply = NoReply
    BY <1>2 DEF LoginInv, Answers
  <2>2. \A g \in Handlers :
          /\ Exchanging(g, l)' => Exchanging(g, l) /\ (g # h => call'[g] = call[g])
          /\ Refreshing(g, l)' => Refreshing(g, l) /\ (g # h => call'[g] = call[g])
          /\ Pending(g, l)' => g # h /\ Pending(g, l) /\ call'[g] = call[g]
          /\ Pending(g, l) => Pending(g, l)'
    BY <1>1, <1>4, <1>5, <2>1, CallsOf, IdleFields DEF Exchanging, Refreshing, Pending
  <2>3. call'[h] = c
    BY <1>5 DEF Becomes
  <2> QED
    BY <1>1, <1>2, <1>4, <1>5, <2>0, <2>2, <2>3, FollowStays DEF Facts
<1> QED
  BY <1>1, <1>2, <1>5, <1>7, <1>8, <1>9, AboutOne DEF Facts

\* The server issues the first tokens of a login.
LEMMA ServerRedeemsKeeps ==
  ASSUME LoginAssumption, LoginInv, NEW h \in Handlers, ServerRedeems(h)
  PROVE  LoginInv'
<1>1. PICK l \in Logins :
        /\ call[h].login = l
        /\ Facts(l)
        /\ Exchanging(h, l) /\ Exchange(h, l) /\ call[h].op = "exchange"
        /\ l \notin DOMAIN sessions /\ ~token[l].ok
  BY BusyCall DEF ServerRedeems
<1>2. /\ config' = config /\ sessions' = sessions /\ token' = token /\ url' = url
      /\ outcome' = outcome /\ call[h].step = "waiting"
      /\ code' = [code EXCEPT ![l] = "used"]
      /\ access' = [access EXCEPT ![l] = @ + 1]
      /\ refresh' = [refresh EXCEPT ![l] = IF config.kind = "github" THEN 0 ELSE 1]
  BY <1>1 DEF ServerRedeems, Issue
<1>3. /\ config \in Configs /\ access[l] + 1 \in Nat /\ access[l] + 1 # 0
      /\ refresh'[l] = (IF config.kind = "github" THEN 0 ELSE 1)
      /\ refresh'[l] \in Nat
  BY <1>2 DEF LoginInv, Types
<1>4. PICK reply \in Replies :
        /\ Answer(h, reply)
        /\ reply.body # "error"
        /\ reply.body = "token" => /\ reply.status = 200 /\ reply.access # 0
                                   /\ reply.refresh = refresh'[l]
        /\ lost' = lost \/ lost' = lost \cup {l}
        /\ reply.body # "token" => l \in lost'
  <2>1. CASE Answer(h, Tokens(access[l] + 1, refresh'[l])) /\ UNCHANGED lost
    <3>1. PICK reply : reply = Tokens(access[l] + 1, refresh'[l])
      OBVIOUS
    <3> QED
      BY <1>3, <2>1, <3>1, AnswerKinds
  <2>2. CASE (\E reply \in Troubles : Answer(h, reply)) /\ lost' = lost \cup {l}
    BY <1>3, <2>2, AnswerKinds
  <2> QED
    BY <1>1, <2>1, <2>2 DEF ServerRedeems, Issue
<1>5. PICK c : /\ Becomes(h, c) /\ Answers(c)
               /\ c.op = call[h].op /\ c.login = l /\ c.step = "answered"
               /\ c.pkce = call[h].pkce /\ c.sent = call[h].sent /\ c.reply = reply
  BY <1>1, <1>2, <1>4, AnswerView
<1>6. Types' /\ OnlyAbout(l)
  BY <1>2, <1>4, <1>5, SameCalls DEF LoginInv, Types, Becomes, OnlyAbout
<1>7. Protocol(l)' /\ Promise(l)'
  BY <1>1, <1>2, <1>4, <1>5, AnswerKeepsProtocol
<1>8. Follow(l)'
  <2> SUFFICES ASSUME l \notin lost' PROVE Follow(l)'
    BY DEF Follow
  <2>1. \A g \in Handlers : Exchanging(g, l)' => g = h
    BY <1>1, <1>5, CallsOf DEF Exchange
  <2>2. call'[h].reply.refresh = refresh'[l]
    BY <1>4, <1>5 DEF Becomes
  <2>3. \A g \in Handlers : ~Refreshing(g, l)
    BY <1>1 DEF Facts, Protocol
  <2>4. \A g \in Handlers : ~Refreshing(g, l)' /\ ~Pending(g, l)'
    BY <1>1, <1>5, <2>3, CallsOf DEF Pending
  <2>5. Kept(l)' /\ Rotated(l)'
    BY <1>1, <1>2, <2>4 DEF Kept, Rotated
  <2>6. \A g \in Handlers : Emptied(g, l)' => Emptied(g, l)
    BY <1>4, <1>5, NoneEmptied
  <2>7. Followed' => \A g \in Handlers : ~Emptied(g, l)'
    BY <1>1, <1>2, <1>4, <2>6, SameSettings DEF Facts, Follow
  <2> QED
    BY <1>2, <1>3, <2>1, <2>2, <2>5, <2>7 DEF Follow
<1> QED
  BY <1>1, <1>2, <1>5, <1>6, <1>7, <1>8, AboutOne DEF Facts

\* A refresh is granted to the one call that sends the token in force.
LEMMA ServerRefreshesKeeps ==
  ASSUME LoginAssumption, LoginInv, NEW h \in Handlers, ServerRefreshes(h)
  PROVE  LoginInv'
<1>1. PICK l \in Logins :
        /\ call[h].login = l
        /\ Facts(l)
        /\ Refreshing(h, l) /\ token[l].ok /\ call[h].op = "refresh"
        /\ SupportsRefresh(config.kind)
  BY BusyCall DEF ServerRefreshes
<1>2. /\ config' = config /\ sessions' = sessions /\ token' = token /\ url' = url
      /\ outcome' = outcome /\ code' = code /\ call[h].step = "waiting"
      /\ call[h].sent = refresh[l]
      /\ access' = [access EXCEPT ![l] = @ + 1]
      /\ refresh' = IF config.rotates THEN [refresh EXCEPT ![l] = @ + 1] ELSE refresh
  BY <1>1 DEF ServerRefreshes, Issue
<1>3. /\ config \in Configs /\ access[l] + 1 \in Nat /\ access[l] + 1 # 0
      /\ refresh[l] \in Nat /\ refresh[l] + 1 \in Nat /\ 0 \in Nat
      /\ refresh'[l] = IF config.rotates THEN refresh[l] + 1 ELSE refresh[l]
  BY <1>2 DEF LoginInv, Types
<1>4. PICK reply \in Replies :
        /\ Answer(h, reply)
        /\ reply.body # "error"
        /\ reply.body = "token" =>
             /\ reply.status = 200 /\ reply.access # 0
             /\ reply.refresh \in (IF config.rotates THEN {refresh[l] + 1} ELSE {0, refresh[l]})
        /\ lost' = lost \/ lost' = lost \cup {l}
        /\ reply.body # "token" => l \in lost'
  <2>1. PICK given : /\ given = IF config.rotates THEN {refresh[l] + 1} ELSE {0, refresh[l]}
                     /\ Issue(h, l, given)
    BY <1>1 DEF ServerRefreshes
  <2>2. CASE \E r \in given : Answer(h, Tokens(access[l] + 1, r)) /\ UNCHANGED lost
    <3>1. PICK r \in given : Answer(h, Tokens(access[l] + 1, r)) /\ UNCHANGED lost
      BY <2>2
    <3>2. r \in Nat
      BY <1>3, <2>1
    <3>3. PICK reply : reply = Tokens(access[l] + 1, r)
      OBVIOUS
    <3>4. /\ reply \in Replies /\ reply.body = "token" /\ reply.status = 200
          /\ reply.access = access[l] + 1 /\ reply.refresh = r
      BY <1>3, <3>2, <3>3, AnswerKinds
    <3> QED
      BY <1>3, <2>1, <3>1, <3>3, <3>4
  <2>3. CASE (\E reply \in Troubles : Answer(h, reply)) /\ lost' = lost \cup {l}
    BY <1>3, <2>3, AnswerKinds
  <2> QED
    BY <2>1, <2>2, <2>3 DEF Issue
<1>5. PICK c : /\ Becomes(h, c) /\ Answers(c)
               /\ c.op = call[h].op /\ c.login = l /\ c.step = "answered"
               /\ c.pkce = call[h].pkce /\ c.sent = call[h].sent /\ c.reply = reply
  BY <1>1, <1>2, <1>4, AnswerView
<1>6. Types' /\ OnlyAbout(l)
  <2>1. access' \in [Logins -> Nat] /\ refresh' \in [Logins -> Nat]
    BY <1>2, <1>3 DEF LoginInv, Types
  <2> QED
    BY <1>2, <1>4, <1>5, <2>1, SameCalls DEF LoginInv, Types, Becomes, OnlyAbout
<1>7. Protocol(l)' /\ Promise(l)'
  BY <1>1, <1>2, <1>4, <1>5, AnswerKeepsProtocol
<1>8. Follow(l)'
  <2> SUFFICES ASSUME l \notin lost', Followed' PROVE Follow(l)'
    BY DEF Follow
  <2>1. \A g \in Handlers : ~Exchanging(g, l)
    BY <1>1 DEF Facts, Protocol, Exchange
  <2>2. /\ l \notin lost /\ Followed
        /\ config.kind = "github" => refresh[l] = 0
        /\ ~config.rotates => Kept(l)
        /\ config.rotates => Rotated(l)
    BY <1>1, <1>2, <1>4, SameSettings DEF Facts, Follow
  <2>3. \A g \in Handlers :
          /\ ~Exchanging(g, l)'
          /\ Refreshing(g, l)' => Refreshing(g, l) /\ call'[g].sent = call[g].sent
          /\ g # h => /\ Pending(g, l)' => Pending(g, l)
                      /\ call'[g] = call[g]
    BY <1>1, <1>5, <2>1, CallsOf
  <2>4. call'[h] = c
    BY <1>5 DEF Becomes
  <2>7. \A g \in Handlers : ~Emptied(g, l)'
    <3>1. \A g \in Handlers : Emptied(g, l)' => Emptied(g, l)
      BY <1>4, <1>5, NoneEmptied
    <3> QED
      BY <1>1, <2>2, <3>1 DEF Facts, Follow
  <2>5. CASE ~config.rotates
    <3>1. Kept(l) /\ refresh'[l] = refresh[l] /\ c.reply.refresh \in {0, refresh[l]}
      BY <1>3, <1>4, <1>5, <2>2, <2>5
    <3>2. Kept(l)'
      BY <1>2, <2>3, <2>4, <3>1 DEF Kept
    <3> QED
      BY <1>2, <2>2, <2>3, <2>5, <2>7, <3>1, <3>2 DEF Follow
  <2>6. CASE config.rotates
    <3>1. /\ Rotated(l) /\ refresh'[l] = refresh[l] + 1
          /\ c.reply.refresh = refresh[l] + 1 /\ c.reply.body = "token"
      BY <1>3, <1>4, <1>5, <2>2, <2>6
    <3>2. token[l].refresh = refresh[l]
      <4>1. token[l].refresh \in Nat
        BY <1>1 DEF LoginInv, Types, Results
      <4> QED
        BY <1>1, <1>2, <1>3, <3>1, <4>1 DEF Rotated
    <3>3. \A g \in Handlers : ~Pending(g, l)
      BY <1>3, <3>1, <3>2 DEF Rotated
    <3>4. Pending(h, l)' /\ \A g \in Handlers : Pending(g, l)' => g = h
      BY <1>1, <1>5, <2>3, <2>4, <3>1, <3>3 DEF Pending, Refreshing
    <3>5. \A g \in Handlers : Refreshing(g, l)' => call'[g].sent <= token[l].refresh
      BY <2>3, <3>1 DEF Rotated
    <3>6. Rotated(l)'
      BY <1>2, <1>3, <2>4, <3>1, <3>2, <3>4, <3>5 DEF Rotated
    <3>7. config.kind # "github"
      BY <1>1 DEF SupportsRefresh
    <3> QED
      BY <1>2, <2>3, <2>6, <2>7, <3>6, <3>7 DEF Follow
  <2> QED
    BY <2>5, <2>6
<1> QED
  BY <1>1, <1>2, <1>5, <1>6, <1>7, <1>8, AboutOne DEF Facts

-----------------------------------------------------------------------------
\* The handler decodes the answer, keeps the token and is idle again.
LEMMA FinishExchangeKeeps ==
  ASSUME LoginAssumption, LoginInv, NEW h \in Handlers, FinishExchange(h)
  PROVE  LoginInv'
<1>1. PICK l \in Logins :
        /\ call[h].login = l
        /\ Facts(l)
        /\ Exchanging(h, l) /\ Exchange(h, l) /\ call[h].op = "exchange"
        /\ l \notin DOMAIN sessions /\ ~token[l].ok
  BY BusyCall DEF FinishExchange
<1>2. PICK reply \in Replies : reply = call[h].reply
  BY CallFields DEF LoginInv
<1>3. /\ reply.body = "token" => reply.status = 200 /\ reply.access # 0
      /\ reply.body = "error" => reply.status = config.errorStatus
      /\ reply.body = "error" => Unacceptable
  BY <1>1, <1>2 DEF LoginInv, Answers, Exchange
<1>4. PICK result : result = Exchanged(config.kind, reply)
  OBVIOUS
<1>5. /\ config \in Configs /\ config.kind \in Kinds
      /\ result \in Results
      /\ reply.body = "token" => result.ok
      /\ result.ok =>
           /\ reply.body \in {"token", "empty"} \/
                (config.kind = "custom" /\ reply.body = "error" /\ reply.status = 200)
           /\ result.access = reply.access
           /\ result.refresh = IF config.kind = "github" THEN 0 ELSE reply.refresh
  <2>1. config \in Configs /\ config.kind \in Kinds
    BY DEF LoginInv, Types, Configs
  <2> QED
    BY <1>3, <1>4, <2>1, ExchangedFacts
<1>6. PICK end : end = End(result, reply)
  OBVIOUS
<1>7. /\ token' = IF result.ok THEN [token EXCEPT ![l] = result] ELSE token
      /\ outcome' = [outcome EXCEPT ![l] = end]
      /\ config' = config /\ sessions' = sessions /\ url' = url /\ lost' = lost
      /\ code' = code /\ access' = access /\ refresh' = refresh
      /\ Return(h)
  BY <1>1, <1>2, <1>4, <1>6 DEF FinishExchange, server
<1>8. /\ end \in {"granted", "refused", "failed"}
      /\ result.ok => end \in {"granted", "refused"}
      /\ end = "refused" => reply.body = "error"
  BY <1>6 DEF End
<1>9. PICK c : c = Idle
  OBVIOUS
<1>10. Becomes(h, c)
  BY <1>7, <1>9, ReturnEffect DEF LoginInv
<1>11. /\ c.op = "idle" /\ c.login = NoLogin /\ c.step = "none" /\ c.reply = NoReply
       /\ Answers(c)
  BY <1>9, IdleFields DEF Asked, Answers
<1>12. Types'
  <2>1. token' \in [Logins -> Results] /\ outcome' \in [Logins -> Outcomes]
    BY <1>5, <1>7, <1>8 DEF LoginInv, Types, Outcomes
  <2> QED
    BY <1>7, <1>10, <2>1, SameCalls DEF LoginInv, Types, Becomes
<1>13. OnlyAbout(l)
  BY <1>7 DEF OnlyAbout, LoginInv, Types
<1>19. \A g \in Handlers : Emptied(g, l)' => Emptied(g, l)
  BY <1>10, <1>11, IdleFields, NoneEmptied
<1>14. \A g \in Handlers : ~Exchanging(g, l)' /\ ~Refreshing(g, l)' /\ ~Pending(g, l)'
  <2>1. \A g \in Handlers : /\ Exchanging(g, l) => g = h
                            /\ ~Refreshing(g, l)
    BY <1>1 DEF Facts, Protocol, Exchange
  <2> QED
    BY <1>10, <1>11, <2>1, CallsOf DEF Pending
<1>15. /\ outcome'[l] = end
       /\ token'[l] = IF result.ok THEN result ELSE token[l]
  BY <1>7 DEF LoginInv, Types
<1>16. Protocol(l)'
  <2>1. outcome[l] = "started" /\ url[l] = AuthURL(config.kind, Pair(l))
    BY <1>1 DEF Exchange, Facts, Protocol
  <2> QED
    BY <1>1, <1>7, <1>8, <1>14, <1>15, <2>1, SameSettings DEF Protocol
<1>17. Promise(l)'
  BY <1>1, <1>3, <1>5, <1>7, <1>8, <1>15, SameSettings DEF Promise
<1>18. Follow(l)'
  <2> SUFFICES ASSUME Followed', l \notin lost' PROVE Follow(l)'
    BY DEF Follow
  <2>1. /\ Followed
        /\ config.kind = "github" => refresh[l] = 0
        /\ \A g \in Handlers : ~Emptied(g, l)
        /\ reply.body = "token" => reply.refresh = refresh[l]
    BY <1>1, <1>2, <1>7, SameSettings DEF Facts, Follow
  <2>6. reply.body # "empty"
    BY <1>1, <1>2, <2>1 DEF Emptied
  <2>2. result.ok => result.refresh = refresh[l]
    BY <1>3, <1>5, <2>1, <2>6 DEF Followed
  <2>3. token'[l].ok => token'[l].refresh = refresh'[l]
    BY <1>1, <1>7, <1>15, <2>2
  <2>4. refresh'[l] \in Nat
    BY <1>7 DEF LoginInv, Types
  <2>5. Kept(l)' /\ Rotated(l)'
    BY <1>14, <2>3, <2>4 DEF Kept, Rotated
  <2> QED
    BY <1>7, <1>14, <1>19, <2>1, <2>5 DEF Follow
<1> QED
  BY <1>1, <1>7, <1>10, <1>11, <1>12, <1>13, <1>16, <1>17, <1>18, AboutOne DEF Facts

LEMMA FinishRefreshKeeps ==
  ASSUME LoginAssumption, LoginInv, NEW h \in Handlers, FinishRefresh(h)
  PROVE  LoginInv'
<1>1. PICK l \in Logins :
        /\ call[h].login = l
        /\ Facts(l)
        /\ Refreshing(h, l) /\ token[l].ok /\ call[h].op = "refresh"
        /\ SupportsRefresh(config.kind)
  BY BusyCall DEF FinishRefresh
<1>2. PICK reply \in Replies : reply = call[h].reply
  BY CallFields DEF LoginInv
<1>3. PICK sent \in Nat : sent = call[h].sent
  BY CallFields DEF LoginInv
<1>4. /\ reply.body = "token" => reply.status = 200 /\ reply.access # 0
      /\ reply.body = "error" => reply.status = config.errorStatus
  BY <1>2 DEF LoginInv, Answers
<1>5. PICK result : result = Refreshed(config.kind, sent, reply)
  OBVIOUS
<1>6. /\ result \in Results
      /\ reply.body = "token" => result.ok
      /\ result.ok =>
           /\ reply.body \in {"token", "empty"} \/
                (config.kind = "custom" /\ reply.body = "error" /\ reply.status = 200)
           /\ result.access = reply.access
           /\ result.refresh
                = IF config.kind = "custom" /\ reply.refresh # 0 THEN reply.refresh ELSE sent
  <2>1. config.kind \in Kinds
    BY DEF LoginInv, Types, Configs
  <2> QED
    BY <1>1, <1>4, <1>5, <2>1, RefreshedFacts
<1>7. /\ token' = IF result.ok THEN [token EXCEPT ![l] = result] ELSE token
      /\ config' = config /\ sessions' = sessions /\ url' = url /\ lost' = lost
      /\ code' = code /\ access' = access /\ refresh' = refresh /\ outcome' = outcome
      /\ Return(h)
  BY <1>1, <1>2, <1>3, <1>5 DEF FinishRefresh, server, history
<1>8. PICK c : c = Idle
  OBVIOUS
<1>9. Becomes(h, c)
  BY <1>7, <1>8, ReturnEffect DEF LoginInv
<1>10. /\ c.op = "idle" /\ c.login = NoLogin /\ c.step = "none" /\ c.reply = NoReply
       /\ Answers(c)
  BY <1>8, IdleFields DEF Asked, Answers
<1>11. Types'
  <2>1. token' \in [Logins -> Results]
    BY <1>6, <1>7 DEF LoginInv, Types
  <2> QED
    BY <1>7, <1>9, <2>1, SameCalls DEF LoginInv, Types, Becomes
<1>12. OnlyAbout(l)
  BY <1>7 DEF OnlyAbout, LoginInv, Types
<1>13. \A g \in Handlers :
         /\ Exchanging(g, l)' => Exchanging(g, l) /\ call'[g] = call[g]
         /\ Exchanging(g, l) => Exchanging(g, l)'
         /\ Refreshing(g, l)' => Refreshing(g, l) /\ call'[g] = call[g]
         /\ Pending(g, l)' => g # h /\ Pending(g, l) /\ call'[g] = call[g]
         /\ Pending(g, l) /\ g # h => Pending(g, l)'
  BY <1>1, <1>9, <1>10, CallsOf DEF Exchanging
<1>18. \A g \in Handlers : Emptied(g, l)' => Emptied(g, l)
  BY <1>9, <1>10, IdleFields, NoneEmptied
<1>14. token'[l] = (IF result.ok THEN result ELSE token[l]) /\ token'[l].ok
  BY <1>1, <1>7 DEF LoginInv, Types
<1>15. Protocol(l)'
  <2>1. outcome[l] \in {"granted", "refused"}
    BY <1>1 DEF Facts, Protocol
  <2>2. \A g \in Handlers : ~Exchanging(g, l)
    BY <1>1, <2>1 DEF Facts, Protocol, Exchange
  <2>3. l \notin DOMAIN sessions
    BY <1>1, <2>1 DEF Facts, Protocol, Stored
  <2> QED
    BY <1>1, <1>7, <1>13, <1>14, <2>1, <2>2, <2>3, SameSettings DEF Facts, Protocol
<1>16. Promise(l)'
  BY <1>1, <1>4, <1>6, <1>7, <1>14, SameSettings DEF Facts, Promise
<1>17. Follow(l)'
  <2> SUFFICES ASSUME Followed', l \notin lost' PROVE Follow(l)'
    BY DEF Follow
  <2>1. /\ Followed
        /\ config.kind = "github" => refresh[l] = 0
        /\ \A g \in Handlers : ~Emptied(g, l)
        /\ \A g \in Handlers : Exchanging(g, l) /\ call[g].reply.body = "token" =>
             call[g].reply.refresh = refresh[l]
        /\ ~config.rotates => Kept(l)
        /\ config.rotates => Rotated(l)
    BY <1>1, <1>7, SameSettings DEF Facts, Follow
  <2>6. reply.body # "empty"
    BY <1>1, <1>2, <2>1 DEF Emptied
  <2>2. result.ok => reply.body = "token"
    BY <1>4, <1>6, <2>1, <2>6 DEF Followed
  <2>3. Pending(h, l) <=> reply.body = "token"
    BY <1>1, <1>2 DEF Pending
  <2>4. CASE ~config.rotates
    <3>1. Kept(l)
      BY <2>1, <2>4
    <3>2. token'[l].refresh = refresh[l]
      BY <1>1, <1>2, <1>3, <1>6, <1>14, <2>2, <2>3, <3>1 DEF Kept
    <3>3. Kept(l)'
      BY <1>7, <1>13, <3>1, <3>2 DEF Kept
    <3> QED
      BY <1>7, <1>13, <1>18, <2>1, <2>4, <3>3 DEF Follow
  <2>5. CASE config.rotates
    <3>1. Rotated(l) /\ config.kind = "custom"
      BY <2>1, <2>5 DEF Followed
    <3>2. /\ token[l].refresh \in Nat /\ refresh[l] \in Nat /\ reply.refresh \in Nat
          /\ \A g \in Handlers : call[g].sent \in Nat
      BY CallFields, <1>2 DEF LoginInv, Types, Results, Replies
    <3>3. CASE result.ok
      <4>1. /\ Pending(h, l) /\ reply.refresh = refresh[l]
            /\ token[l].refresh < refresh[l]
            /\ \A g \in Handlers : Pending(g, l) => g = h
        BY <1>2, <2>2, <2>3, <3>1, <3>3 DEF Rotated
      <4>2. token'[l].refresh = refresh[l]
        BY <1>6, <1>14, <3>1, <3>2, <3>3, <4>1
      <4>3. \A g \in Handlers : Refreshing(g, l)' => call'[g].sent <= token'[l].refresh
        BY <1>13, <3>1, <3>2, <4>1, <4>2 DEF Rotated
      <4>4. \A g \in Handlers : ~Pending(g, l)'
        BY <1>13, <4>1
      <4>5. Rotated(l)'
        BY <1>7, <3>2, <4>2, <4>3, <4>4 DEF Rotated
      <4> QED
        BY <1>7, <1>13, <1>18, <2>1, <2>5, <4>5 DEF Follow
    <3>4. CASE ~result.ok
      <4>1. ~Pending(h, l) /\ token' = token
        BY <1>6, <1>7, <2>3, <3>4
      <4>2. Rotated(l)'
        BY <1>7, <1>13, <3>1, <4>1 DEF Rotated
      <4> QED
        BY <1>7, <1>13, <1>18, <2>1, <2>5, <4>2 DEF Follow
    <3> QED
      BY <3>3, <3>4
  <2> QED
    BY <2>4, <2>5
<1> QED
  BY <1>1, <1>7, <1>9, <1>10, <1>11, <1>12, <1>15, <1>16, <1>17, AboutOne DEF Facts

-----------------------------------------------------------------------------
LEMMA StepLoginInv ==
  ASSUME LoginAssumption, LoginInv, [Next]_vars
  PROVE  LoginInv'
<1>1. ASSUME NEW l \in Logins, GetAuthURL(l) \/ Authorize(l)
      PROVE  LoginInv'
  BY <1>1, GetAuthURLKeeps, AuthorizeKeeps
<1>3. ASSUME NEW l \in Logins, NEW h \in Handlers, Redeem(h, l) \/ RefreshToken(h, l)
      PROVE  LoginInv'
  BY <1>3, RedeemKeeps, RefreshTokenKeeps
<1>4. ASSUME NEW h \in Handlers, Validate(h) \/ Cancel(h)
      PROVE  LoginInv'
  BY <1>4, ValidateKeeps, CancelKeeps
<1>5. ASSUME NEW h \in Handlers, ServerStep(h)
      PROVE  LoginInv'
  BY <1>5, ServerRedeemsKeeps, ServerRefreshesKeeps, ServerRefusesKeeps DEF ServerStep
<1>6. ASSUME NEW h \in Handlers, Finish(h)
      PROVE  LoginInv'
  BY <1>6, FinishExchangeKeeps, FinishRefreshKeeps DEF Finish
<1>7. CASE Cleanup
  BY <1>7, NoLoginKeeps DEF Cleanup, server, history
<1>8. CASE Tick
  BY <1>8, NoLoginKeeps DEF Tick, server, history
<1>9. CASE UNCHANGED vars
  BY <1>9, NoLoginKeeps DEF vars, server, history
<1> QED
  BY <1>1, <1>3, <1>4, <1>5, <1>6, <1>7, <1>8, <1>9 DEF Next

LEMMA InvPromises ==
  ASSUME LoginInv
  PROVE  GenuineLoginNotRefused /\ RefreshTokenStaysGood
<1>1. GenuineLoginNotRefused
  BY DEF LoginInv, Protocol, Promise, GenuineLoginNotRefused
<1>2. RefreshTokenStaysGood
  <2> SUFFICES ASSUME NEW l \in Logins, token[l].ok, Quiet(l), l \notin lost,
                      config.rotates => config.kind = "custom",
                      ~(config.kind = "custom" /\ config.errorStatus = 200)
               PROVE  token[l].refresh = refresh[l]
    BY DEF RefreshTokenStaysGood
  <2>1. (~config.rotates => Kept(l)) /\ (config.rotates => Rotated(l))
    BY DEF LoginInv, Follow, Followed
  <2>2. \A h \in Handlers : ~Pending(h, l)
    BY DEF Quiet, Pending, Refreshing
  <2> QED
    BY <2>1, <2>2 DEF Kept, Rotated
<1> QED
  BY <1>1, <1>2

\* In every run, for every provider, setting and interleaving of callbacks, the
\* server has no reason to refuse a login that is called back in time.
THEOREM GenuineLoginNeverRefused == Spec => []GenuineLoginNotRefused
<1>1. Init => LoginInv
  BY InitLoginInv
<1>2. LoginInv /\ [Next]_vars => LoginInv'
  BY StepLoginInv, LoginAssumption
<1>3. LoginInv => GenuineLoginNotRefused
  BY InvPromises
<1> QED
  BY <1>1, <1>2, <1>3, PTL DEF Spec

\* In every run the refresh token RefreshToken leaves in the application's
\* hands is the one the server honours, however many handlers refresh at once,
\* as long as no answer is lost.
THEOREM RefreshTokenAlwaysGood == Spec => []RefreshTokenStaysGood
<1>1. Init => LoginInv
  BY InitLoginInv
<1>2. LoginInv /\ [Next]_vars => LoginInv'
  BY StepLoginInv, LoginAssumption
<1>3. LoginInv => RefreshTokenStaysGood
  BY InvPromises
<1> QED
  BY <1>1, <1>2, <1>3, PTL DEF Spec

-----------------------------------------------------------------------------
\* The lowest index of a set of indices is one of them.
LEMMA FirstIndex ==
  ASSUME NEW I \in SUBSET Nat, I # {}
  PROVE  Min(I) \in I
<1>1. PICK x \in I : \A y \in I : ~(<<y, x>> \in OpToRel(<, Nat))
  BY NatLessThanWellFounded, WFMin
<1>2. \A y \in I : x =< y
  <2> SUFFICES ASSUME NEW y \in I, y < x PROVE FALSE
    OBVIOUS
  <2> QED
    BY <1>1 DEF OpToRel
<1> QED
  BY <1>2 DEF Min

\* The address GitHub's second request picks is in the list and verified there.
LEMMA PrimaryEmailVerified ==
  ASSUME NEW n \in Nat, NEW emails \in [1 .. n -> Email], PrimaryEmail(emails) # 0
  PROVE  /\ PrimaryEmail(emails) \in DOMAIN emails
         /\ emails[PrimaryEmail(emails)].verified
<1> DEFINE A == {i \in 1 .. Len(emails) : emails[i].primary /\ emails[i].verified}
           B == {i \in 1 .. Len(emails) : emails[i].verified}
<1>1. Len(emails) = n
  <2>1. emails \in Seq(Email)
    BY SeqDef
  <2> QED
    BY <2>1, LenProperties
<1>2. A \in SUBSET (1 .. n) /\ B \in SUBSET (1 .. n)
  BY <1>1
<1>3. A # {} => Min(A) \in A
  <2>1. A \in SUBSET Nat
    BY <1>2
  <2> HIDE DEF A
  <2> QED
    BY <2>1, FirstIndex
<1>4. B # {} => Min(B) \in B
  <2>1. B \in SUBSET Nat
    BY <1>2
  <2> HIDE DEF B
  <2> QED
    BY <2>1, FirstIndex
<1>5. PrimaryEmail(emails) = IF A # {} THEN Min(A)
                             ELSE IF B # {} THEN Min(B) ELSE 0
  <2>1. SelectInSeq(emails, LAMBDA e : e.primary /\ e.verified)
          = IF A # {} THEN Min(A) ELSE 0
    BY DEF SelectInSeq
  <2>2. SelectInSeq(emails, LAMBDA e : e.verified) = IF B # {} THEN Min(B) ELSE 0
    BY DEF SelectInSeq
  <2>3. A # {} => Min(A) # 0
    BY <1>2, <1>3
  <2> HIDE DEF A, B
  <2> QED
    BY <2>1, <2>2, <2>3 DEF PrimaryEmail
<1> QED
  BY <1>1, <1>3, <1>4, <1>5

LEMMA ReportsFields ==
  ASSUME NEW email, NEW verified \in BOOLEAN
  PROVE  /\ Reports(email, verified).email = email
         /\ Reports(email, verified).verified = verified
BY DEF Reports

\* What GitHub and Twitter are reported to say of an address.
LEMMA ToldVerified ==
  ASSUME NEW k \in {"github", "twitter"}, NEW n \in Nat,
         NEW emails \in [1 .. n -> Email], NEW p, p.emails = emails,
         p.shown # 0 => p.shown \in 1 .. n /\ emails[p.shown].verified,
         UserInfo(k, p).verified
  PROVE  UserInfo(k, p).email \in VerifiedIn(p)
<1>1. CASE k = "github"
  <2>1. PICK email : email = IF p.shown # 0 THEN p.shown ELSE PrimaryEmail(emails)
    OBVIOUS
  <2>2. UserInfo(k, p) = Reports(email, email # 0)
    BY <1>1, <2>1 DEF UserInfo, GitHubUserInfo
  <2>3. email # 0 /\ UserInfo(k, p).email = email
    BY <2>2, ReportsFields
  <2>4. email \in DOMAIN emails /\ emails[email].verified
    BY <2>1, <2>3, PrimaryEmailVerified
  <2> QED
    BY <2>3, <2>4 DEF VerifiedIn
<1>2. CASE k = "twitter"
  BY <1>2 DEF UserInfo, TwitterUserInfo, Reports
<1> QED
  BY <1>1, <1>2

\* While the list is asked for, whatever was verified in between has been seen.
ProfileInv ==
  /\ kind \in Kinds
  /\ profile \in Profiles(kind)
  /\ asked \in BOOLEAN
  /\ asked => kind = "github" /\ VerifiedIn(profile) \subseteq seen
  /\ VerifiedIsVerified

\* GetUserInfo of GitHub and Twitter names addresses verified in the profile.
LEMMA InfoVerified ==
  ASSUME ProfileInv, ProfileAssumption, kind \in {"github", "twitter"}
  PROVE  /\ UserInfo(kind, profile).verified =>
              UserInfo(kind, profile).email \in VerifiedIn(profile)
         /\ UserInfo(kind, [profile EXCEPT !.shown = 0]).verified =>
              UserInfo(kind, [profile EXCEPT !.shown = 0]).email \in VerifiedIn(profile)
<1>1. PICK n \in 0 .. MaxEmails : profile.emails \in [1 .. n -> Email]
  BY DEF ProfileInv, Profiles
<1>2. n \in Nat
  BY DEF ProfileAssumption
<1>3. kind = "github" /\ profile.shown # 0 =>
        profile.shown \in 1 .. n /\ profile.emails[profile.shown].verified
  BY <1>1 DEF ProfileInv, Profiles
<1>4. PICK p : p = [profile EXCEPT !.shown = 0]
  OBVIOUS
<1>5. p.emails = profile.emails /\ p.shown = 0 /\ VerifiedIn(p) = VerifiedIn(profile)
  BY <1>4 DEF ProfileInv, Profiles, VerifiedIn
<1>6. UserInfo(kind, p).verified => UserInfo(kind, p).email \in VerifiedIn(p)
  BY <1>1, <1>2, <1>5, ToldVerified
<1>7. kind = "github" =>
        (UserInfo(kind, profile).verified =>
           UserInfo(kind, profile).email \in VerifiedIn(profile))
  BY <1>1, <1>2, <1>3, ToldVerified
<1>8. kind = "twitter" => ~UserInfo(kind, profile).verified
  BY DEF UserInfo, TwitterUserInfo, Reports
<1> QED
  BY <1>4, <1>5, <1>6, <1>7, <1>8

LEMMA ProfileInvNext ==
  ASSUME ProfileInv, ProfileAssumption, [ProfileNext]_profileVars
  PROVE  ProfileInv'
<1>1. CASE Edit
  BY <1>1 DEF Edit, ProfileInv, VerifiedIsVerified
<1>2. CASE GetUserInfo
  <2>1. CASE kind = "github" /\ profile.shown = 0
    BY <1>2, <2>1 DEF GetUserInfo, ProfileInv, VerifiedIsVerified
  <2>2. CASE ~(kind = "github" /\ profile.shown = 0)
    <3>1. /\ asked' = asked /\ ~asked /\ kind' = kind /\ profile' = profile
          /\ info' = UserInfo(kind, profile) /\ seen' = VerifiedIn(profile)
      BY <1>2, <2>2 DEF GetUserInfo
    <3>2. VerifiedIsVerified'
      BY <3>1, InfoVerified DEF VerifiedIsVerified
    <3> QED
      BY <3>1, <3>2 DEF ProfileInv
  <2> QED
    BY <2>1, <2>2
<1>3. CASE GetPrimaryEmail
  <2>1. /\ asked' = FALSE /\ kind' = kind /\ profile' = profile /\ seen' = seen
        /\ kind = "github" /\ VerifiedIn(profile) \subseteq seen
    BY <1>3 DEF GetPrimaryEmail, ProfileInv
  <2>2. PICK told : told = UserInfo(kind, [profile EXCEPT !.shown = 0])
    OBVIOUS
  <2>3. kind \in {"github", "twitter"} /\ (told.verified => told.email \in VerifiedIn(profile))
    BY <2>1, <2>2, InfoVerified
  <2>4. ~Reports(0, FALSE).verified
    BY ReportsFields
  <2>5. info' = told \/ info' = Reports(0, FALSE)
    BY <1>3, <2>2 DEF GetPrimaryEmail
  <2>6. info'.verified => info'.email \in seen'
    BY <2>1, <2>3, <2>4, <2>5
  <2> QED
    BY <2>1, <2>6 DEF ProfileInv, VerifiedIsVerified
<1>4. CASE UNCHANGED profileVars
  BY <1>4 DEF profileVars, ProfileInv, VerifiedIsVerified
<1> QED
  BY <1>1, <1>2, <1>3, <1>4 DEF ProfileNext

\* In every run and for lists of any length, an address of GitHub that
\* GetUserInfo reports as verified is one that was verified during the call,
\* whatever the user did to the profile between the two requests.
THEOREM VerifiedAlwaysVerified == ProfileSpec => []VerifiedIsVerified
<1>1. ProfileInit => ProfileInv
  <2>1. ~Reports(0, FALSE).verified
    BY ReportsFields
  <2> QED
    BY <2>1 DEF ProfileInit, ProfileInv, VerifiedIsVerified
<1>2. ProfileInv /\ [ProfileNext]_profileVars => ProfileInv'
  BY ProfileInvNext, ProfileAssumption
<1>3. ProfileInv => VerifiedIsVerified
  BY DEF ProfileInv
<1> QED
  BY <1>1, <1>2, <1>3, PTL DEF ProfileSpec
=============================================================================
