----------------------------- MODULE SessionFlow -----------------------------
(***************************************************************************)
(* The login flow of MultiProviderService (oauth/multi_provider_service.go)*)
(* over the MemorySessionStore it creates (oauth/service.go).              *)
(*                                                                         *)
(* Handlers are the goroutines of HTTP requests: one starts a login with   *)
(* GetAuthURL, another serves the callback with Exchange, and nothing      *)
(* keeps a callback from being delivered twice, to two handlers at once,   *)
(* late, or to the route of another provider.  Each store operation and    *)
(* each GetProvider is one locked section and one action; providers can be *)
(* registered and unregistered between any two of them.                    *)
(*                                                                         *)
(* Data abstractions.  A state parameter is a model value that is          *)
(* generated once; the PKCE pair travels inside the session and is not     *)
(* modelled; a token is the provider that issued it.                       *)
(***************************************************************************)
EXTENDS Integers, FiniteSets

CONSTANTS
  StateIds,         \* the state parameters the generator can return
  Handlers, Providers,
  NoHandler, NoProvider,
  SessionTimeout,   \* config.SessionTimeout, in ticks
  StoreTtl          \* the ttl given to NewMemorySessionStore, in ticks

ASSUME SessionAssumption ==
  /\ StateIds # {}
  /\ NoHandler \notin Handlers
  /\ NoProvider \notin Providers
  /\ SessionTimeout \in Nat
  /\ StoreTtl \in Nat

VARIABLES
  sessions,    \* the keys of MemorySessionStore.sessions
  boundTo,     \* SessionData.Provider of each session ever stored
  age,         \* ticks since CreatedAt, counted up to TooOld
  registered,  \* MultiProviderService.providers
  pc,          \* where each handler is
  arg,         \* the state and provider a handler works on
  tokens,      \* the provider whose Exchange yielded a token for a state
  taker        \* history: the handler whose RetrieveAndDelete found a state

vars == <<sessions, boundTo, age, registered, pc, arg, tokens, taker>>

TooOld == 1 + IF SessionTimeout > StoreTtl THEN SessionTimeout ELSE StoreTtl
IsExpired(s) == age[s] > SessionTimeout

PCs == {"idle", "store", "validate", "provider", "exchange"}
NoArg == [s |-> CHOOSE s \in StateIds : TRUE, p |-> NoProvider]

\* Handlers between a successful RetrieveAndDelete and their return.
Holding(h) == pc[h] \in {"validate", "provider", "exchange"}

Init ==
  /\ sessions = {}
  /\ boundTo = [s \in StateIds |-> NoProvider]
  /\ age = [s \in StateIds |-> 0]
  /\ registered = Providers
  /\ pc = [h \in Handlers |-> "idle"]
  /\ arg = [h \in Handlers |-> NoArg]
  /\ tokens = [s \in StateIds |-> NoProvider]
  /\ taker = [s \in StateIds |-> NoHandler]

Return(h) ==
  /\ pc' = [pc EXCEPT ![h] = "idle"]
  /\ arg' = [arg EXCEPT ![h] = NoArg]

\* States the generator has handed out already.
Generated == {s \in StateIds : boundTo[s] # NoProvider}
               \cup {arg[h].s : h \in {g \in Handlers : pc[g] = "store"}}

\* GetAuthURL finds the provider and generates a state, ...
GetAuthURL(h, p) ==
  /\ pc[h] = "idle"
  /\ p \in registered
  /\ \E s \in StateIds \ Generated : arg' = [arg EXCEPT ![h] = [s |-> s, p |-> p]]
  /\ pc' = [pc EXCEPT ![h] = "store"]
  /\ UNCHANGED <<sessions, boundTo, age, registered, tokens, taker>>

\* Mutant of StoreSession: the session does not record its provider.
StoreAnonymous(h) ==
  /\ pc[h] = "store"
  /\ sessions' = sessions \cup {arg[h].s}
  /\ Return(h)
  /\ UNCHANGED <<boundTo, age, registered, tokens, taker>>

\* ... and stores the session before it returns the URL.
StoreSession(h) ==
  /\ pc[h] = "store"
  /\ sessions' = sessions \cup {arg[h].s}
  /\ boundTo' = [boundTo EXCEPT ![arg[h].s] = arg[h].p]
  /\ Return(h)
  /\ UNCHANGED <<age, registered, tokens, taker>>

\* Mutant of RetrieveAndDelete: retrieves and does not delete.
RetrieveOnly(h, s, p) ==
  /\ pc[h] = "idle"
  /\ s \in sessions
  /\ taker' = [taker EXCEPT ![s] = h]
  /\ arg' = [arg EXCEPT ![h] = [s |-> s, p |-> p]]
  /\ pc' = [pc EXCEPT ![h] = "validate"]
  /\ UNCHANGED <<sessions, boundTo, age, registered, tokens>>

\* Exchange: RetrieveAndDelete finds the session.  (When it does not, Exchange
\* returns ErrInvalidState and nothing changes.)
RetrieveAndDelete(h, s, p) ==
  /\ pc[h] = "idle"
  /\ s \in sessions
  /\ sessions' = sessions \ {s}
  /\ taker' = [taker EXCEPT ![s] = h]
  /\ arg' = [arg EXCEPT ![h] = [s |-> s, p |-> p]]
  /\ pc' = [pc EXCEPT ![h] = "validate"]
  /\ UNCHANGED <<boundTo, age, registered, tokens>>

\* Mutant of Validate: does not compare the providers.
ValidateExpiryOnly(h) ==
  /\ pc[h] = "validate"
  /\ IF IsExpired(arg[h].s)
       THEN Return(h)
       ELSE pc' = [pc EXCEPT ![h] = "provider"] /\ UNCHANGED arg
  /\ UNCHANGED <<sessions, boundTo, age, registered, tokens, taker>>

\* The session must not have expired and must be for the provider asked for.
Validate(h) ==
  /\ pc[h] = "validate"
  /\ IF IsExpired(arg[h].s) \/ boundTo[arg[h].s] # arg[h].p
       THEN Return(h)
       ELSE pc' = [pc EXCEPT ![h] = "provider"] /\ UNCHANGED arg
  /\ UNCHANGED <<sessions, boundTo, age, registered, tokens, taker>>

\* GetProvider, which may have been unregistered since the login began.
GetProvider(h) ==
  /\ pc[h] = "provider"
  /\ IF arg[h].p \in registered
       THEN pc' = [pc EXCEPT ![h] = "exchange"] /\ UNCHANGED arg
       ELSE Return(h)
  /\ UNCHANGED <<sessions, boundTo, age, registered, tokens, taker>>

\* Mutant of ProviderExchange: an error puts the session back for a retry.
ExchangeRestores(h) ==
  /\ pc[h] = "exchange"
  /\ \/ tokens' = [tokens EXCEPT ![arg[h].s] = arg[h].p] /\ UNCHANGED sessions
     \/ sessions' = sessions \cup {arg[h].s} /\ UNCHANGED tokens
  /\ Return(h)
  /\ UNCHANGED <<boundTo, age, registered, taker>>

\* provider.Exchange answers with a token or an error.
ProviderExchange(h) ==
  /\ pc[h] = "exchange"
  /\ \/ tokens' = [tokens EXCEPT ![arg[h].s] = arg[h].p]
     \/ UNCHANGED tokens
  /\ Return(h)
  /\ UNCHANGED <<sessions, boundTo, age, registered, taker>>

RegisterProvider(p) ==
  /\ p \notin registered
  /\ registered' = registered \cup {p}
  /\ UNCHANGED <<sessions, boundTo, age, pc, arg, tokens, taker>>

UnregisterProvider(p) ==
  /\ p \in registered
  /\ registered' = registered \ {p}
  /\ UNCHANGED <<sessions, boundTo, age, pc, arg, tokens, taker>>

\* Mutant of Swept: the comparisons are the wrong way.
SweptYoung == {s \in sessions : age[s] < SessionTimeout /\ age[s] < StoreTtl}

\* One tick of the cleanup goroutine.
Swept == {s \in sessions : IsExpired(s) \/ age[s] > StoreTtl}

Cleanup ==
  /\ sessions' = sessions \ Swept
  /\ UNCHANGED <<boundTo, age, registered, pc, arg, tokens, taker>>

Tick ==
  /\ age' = [s \in StateIds |->
               IF boundTo[s] # NoProvider /\ age[s] < TooOld
                 THEN age[s] + 1 ELSE age[s]]
  /\ UNCHANGED <<sessions, boundTo, registered, pc, arg, tokens, taker>>

ExchangeStep(h) == Validate(h) \/ GetProvider(h) \/ ProviderExchange(h)

Next ==
  \/ \E h \in Handlers, p \in Providers :
       \/ GetAuthURL(h, p)
       \/ \E s \in StateIds : RetrieveAndDelete(h, s, p)
  \/ \E h \in Handlers : StoreSession(h) \/ ExchangeStep(h)
  \/ \E p \in Providers : RegisterProvider(p) \/ UnregisterProvider(p)
  \/ Cleanup \/ Tick

Spec == Init /\ [][Next]_vars

\* The cleanup goroutine runs every minute and time passes.
FairSpec == Spec /\ WF_vars(Cleanup) /\ WF_vars(Tick)

-----------------------------------------------------------------------------
TypeOK ==
  /\ sessions \in SUBSET {s \in StateIds : boundTo[s] # NoProvider}
  /\ boundTo \in [StateIds -> Providers \cup {NoProvider}]
  /\ age \in [StateIds -> 0 .. TooOld]
  /\ registered \in SUBSET Providers
  /\ pc \in [Handlers -> PCs]
  /\ arg \in [Handlers -> [s : StateIds, p : Providers \cup {NoProvider}]]
  /\ tokens \in [StateIds -> Providers \cup {NoProvider}]
  /\ taker \in [StateIds -> Handlers \cup {NoHandler}]

\* However callbacks are duplicated, delayed or overlap, a state that is still
\* in the store was never redeemed, and one that was redeemed is in the hands
\* of no handler but the one that took it.
NoReplay ==
  /\ \A s \in sessions : taker[s] = NoHandler /\ tokens[s] = NoProvider
  /\ \A h \in Handlers : Holding(h) => taker[arg[h].s] = h

\* A token comes from the provider the login was started with, although the
\* callback may arrive on another provider's route and providers may be
\* unregistered and registered again while it is served.
NoProviderMixUp ==
  \A s \in StateIds : tokens[s] # NoProvider => tokens[s] = boundTo[s]

\* The flow keeps the promise of StateTicket.
Ticket == INSTANCE StateTicket WITH
  ticket <- [s \in StateIds |->
               IF s \in sessions THEN "live"
               ELSE IF boundTo[s] # NoProvider THEN "spent" ELSE "unissued"],
  granted <- {s \in StateIds : tokens[s] # NoProvider}

ImplementsTicket == Ticket!TicketSpec

\* A login that nobody finishes does not stay in memory.
AbandonedLoginsGo == \A s \in StateIds : s \in sessions ~> s \notin sessions
=============================================================================
