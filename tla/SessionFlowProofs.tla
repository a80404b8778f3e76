-------------------------- MODULE SessionFlowProofs --------------------------
(***************************************************************************)
(* Proofs about SessionFlow for any number of states, handlers and         *)
(* providers and any timeouts: its invariants, and that it implements      *)
(* StateTicket.                                                            *)
(***************************************************************************)
EXTENDS SessionFlow, TLAPS

\* A handler about to store has a state to itself, which was never stored.
StorersApart ==
  /\ \A h \in Handlers : pc[h] = "store" =>
       arg[h].p \in Providers /\ boundTo[arg[h].s] = NoProvider
  /\ \A g, h \in Handlers :
       pc[g] = "store" /\ pc[h] = "store" /\ arg[g].s = arg[h].s => g = h

\* Nothing has happened to a state that was never stored.
UnstoredUntouched ==
  \A s \in StateIds :
    boundTo[s] = NoProvider => taker[s] = NoHandler /\ tokens[s] = NoProvider

\* What a handler holds has yielded no token, and what it has validated is
\* bound to the provider it works for.
HeldIsGood ==
  /\ \A h \in Handlers : Holding(h) =>
       arg[h].p \in Providers /\ tokens[arg[h].s] = NoProvider
  /\ \A h \in Handlers : pc[h] \in {"provider", "exchange"} =>
       boundTo[arg[h].s] = arg[h].p

\* A token is of the provider its state is bound to, and somebody redeemed it.
TokenIsBound ==
  \A s \in StateIds :
    tokens[s] # NoProvider => tokens[s] = boundTo[s] /\ taker[s] # NoHandler

\* The inductive invariant.
FlowInv ==
  /\ TypeOK
  /\ StorersApart
  /\ UnstoredUntouched
  /\ NoReplay
  /\ HeldIsGood
  /\ TokenIsBound

-----------------------------------------------------------------------------
LEMMA NextSteps ==
  ASSUME Next
  PROVE  \/ \E h \in Handlers, p \in Providers : GetAuthURL(h, p)
         \/ \E h \in Handlers, p \in Providers, s \in StateIds :
              RetrieveAndDelete(h, s, p)
         \/ \E h \in Handlers : StoreSession(h)
         \/ \E h \in Handlers : Validate(h)
         \/ \E h \in Handlers : GetProvider(h)
         \/ \E h \in Handlers : ProviderExchange(h)
         \/ \E p \in Providers : RegisterProvider(p)
         \/ \E p \in Providers : UnregisterProvider(p)
         \/ Cleanup
         \/ Tick
BY DEF Next, ExchangeStep

LEMMA NoArgType == NoArg \in [s : StateIds, p : Providers \cup {NoProvider}]
BY SessionAssumption DEF NoArg

LEMMA TooOldType == TooOld \in Nat
BY SessionAssumption DEF TooOld

LEMMA InitFlowInv == Init => FlowInv
<1> SUFFICES ASSUME Init PROVE FlowInv OBVIOUS
<1>1. TypeOK
  BY NoArgType, TooOldType DEF Init, TypeOK, PCs
<1>2. StorersApart /\ UnstoredUntouched /\ NoReplay /\ HeldIsGood /\ TokenIsBound
  BY DEF Init, StorersApart, UnstoredUntouched, NoReplay, HeldIsGood,
         TokenIsBound, Holding
<1> QED BY <1>1, <1>2 DEF FlowInv

LEMMA StepTypeOK == FlowInv /\ [Next]_vars => TypeOK'
<1> SUFFICES ASSUME FlowInv, [Next]_vars PROVE TypeOK' OBVIOUS
<1> USE DEF FlowInv, TypeOK
<1>1. ASSUME NEW h \in Handlers, NEW p \in Providers, GetAuthURL(h, p)
      PROVE  TypeOK'
  BY <1>1 DEF GetAuthURL, PCs
<1>2. ASSUME NEW h \in Handlers, StoreSession(h)
      PROVE  TypeOK'
  <2>1. arg[h].s \in StateIds /\ arg[h].p \in Providers
    BY <1>2 DEF StoreSession, StorersApart
  <2>2. sessions' \in SUBSET {s \in StateIds : boundTo'[s] # NoProvider}
    BY <1>2, <2>1, SessionAssumption DEF StoreSession
  <2> QED BY <1>2, <2>1, <2>2, NoArgType DEF StoreSession, Return, PCs
<1>3. ASSUME NEW h \in Handlers, NEW s \in StateIds, NEW p \in Providers,
             RetrieveAndDelete(h, s, p)
      PROVE  TypeOK'
  BY <1>3 DEF RetrieveAndDelete, PCs
<1>4. ASSUME NEW h \in Handlers, Validate(h)
      PROVE  TypeOK'
  BY <1>4, NoArgType DEF Validate, Return, PCs
<1>5. ASSUME NEW h \in Handlers, GetProvider(h)
      PROVE  TypeOK'
  BY <1>5, NoArgType DEF GetProvider, Return, PCs
<1>6. ASSUME NEW h \in Handlers, ProviderExchange(h)
      PROVE  TypeOK'
  BY <1>6, NoArgType DEF ProviderExchange, Return, PCs
<1>7. ASSUME NEW p \in Providers, RegisterProvider(p) \/ UnregisterProvider(p)
      PROVE  TypeOK'
  BY <1>7 DEF RegisterProvider, UnregisterProvider
<1>8. CASE Cleanup
  BY <1>8 DEF Cleanup
<1>9. CASE Tick
  BY <1>9, TooOldType DEF Tick
<1>10. CASE UNCHANGED vars
  BY <1>10 DEF vars
<1> QED
  BY <1>1, <1>2, <1>3, <1>4, <1>5, <1>6, <1>7, <1>8, <1>9, <1>10, NextSteps

LEMMA StepFlowInv == FlowInv /\ [Next]_vars => FlowInv'
<1> SUFFICES ASSUME FlowInv, [Next]_vars PROVE FlowInv' OBVIOUS
<1>0. TypeOK' BY StepTypeOK
<1> DEFINE Rest == /\ StorersApart /\ UnstoredUntouched /\ NoReplay
                   /\ HeldIsGood /\ TokenIsBound
<1> USE DEF FlowInv, TypeOK
<1>1. ASSUME NEW h \in Handlers, NEW p \in Providers, GetAuthURL(h, p)
      PROVE  Rest'
  <2>1. PICK s \in StateIds \ Generated : arg' = [arg EXCEPT ![h] = [s |-> s, p |-> p]]
    BY <1>1 DEF GetAuthURL
  <2>2. pc' = [pc EXCEPT ![h] = "store"] /\ pc[h] = "idle"
        /\ UNCHANGED <<sessions, boundTo, age, registered, tokens, taker>>
    BY <1>1 DEF GetAuthURL
  <2>3. boundTo[s] = NoProvider
        /\ \A g \in Handlers : pc[g] = "store" => arg[g].s # s
    BY <2>1 DEF Generated
  <2>4. StorersApart'
    BY <2>1, <2>2, <2>3 DEF StorersApart
  <2>5. UnstoredUntouched' /\ TokenIsBound'
    BY <2>2 DEF UnstoredUntouched, TokenIsBound
  <2>6. NoReplay' /\ HeldIsGood'
    BY <2>1, <2>2 DEF NoReplay, HeldIsGood, Holding
  <2> QED BY <2>4, <2>5, <2>6
<1>2. ASSUME NEW h \in Handlers, StoreSession(h)
      PROVE  Rest'
  <2>1. /\ arg[h].s \in StateIds /\ arg[h].p \in Providers
        /\ boundTo[arg[h].s] = NoProvider
        /\ taker[arg[h].s] = NoHandler /\ tokens[arg[h].s] = NoProvider
    BY <1>2 DEF StoreSession, StorersApart, UnstoredUntouched
  <2>2. \A g \in Handlers : Holding(g) => arg[g].s # arg[h].s
    BY <2>1, SessionAssumption DEF NoReplay
  <2>3. StorersApart'
    BY <1>2, <2>1 DEF StoreSession, Return, StorersApart
  <2>4. UnstoredUntouched' /\ TokenIsBound'
    BY <1>2, <2>1 DEF StoreSession, UnstoredUntouched, TokenIsBound
  <2>5. NoReplay'
    BY <1>2, <2>1 DEF StoreSession, Return, NoReplay, Holding
  <2>6. HeldIsGood'
    BY <1>2, <2>1, <2>2 DEF StoreSession, Return, HeldIsGood, Holding
  <2> QED BY <2>3, <2>4, <2>5, <2>6
<1>3. ASSUME NEW h \in Handlers, NEW s \in StateIds, NEW p \in Providers,
             RetrieveAndDelete(h, s, p)
      PROVE  Rest'
  <2>1. /\ s \in sessions /\ boundTo[s] # NoProvider
        /\ taker[s] = NoHandler /\ tokens[s] = NoProvider
    BY <1>3 DEF RetrieveAndDelete, NoReplay
  <2>2. \A g \in Handlers : Holding(g) => arg[g].s # s
    BY <2>1, SessionAssumption DEF NoReplay
  <2>3. StorersApart'
    BY <1>3 DEF RetrieveAndDelete, StorersApart
  <2>4. UnstoredUntouched' /\ TokenIsBound'
    BY <1>3, <2>1 DEF RetrieveAndDelete, UnstoredUntouched, TokenIsBound
  <2>5. NoReplay'
    BY <1>3, <2>1, <2>2 DEF RetrieveAndDelete, NoReplay, Holding
  <2>6. HeldIsGood'
    BY <1>3, <2>1, <2>2 DEF RetrieveAndDelete, HeldIsGood, Holding
  <2> QED BY <2>3, <2>4, <2>5, <2>6
<1>4. ASSUME NEW h \in Handlers, Validate(h)
      PROVE  Rest'
  <2> USE <1>4 DEF Validate, Return
  <2>1. StorersApart' BY DEF StorersApart
  <2>2. UnstoredUntouched' /\ TokenIsBound' BY DEF UnstoredUntouched, TokenIsBound
  <2>3. NoReplay' BY DEF NoReplay, Holding
  <2>4. HeldIsGood' BY DEF HeldIsGood, Holding
  <2> QED BY <2>1, <2>2, <2>3, <2>4
<1>5. ASSUME NEW h \in Handlers, GetProvider(h)
      PROVE  Rest'
  <2> USE <1>5 DEF GetProvider, Return
  <2>1. StorersApart' BY DEF StorersApart
  <2>2. UnstoredUntouched' /\ TokenIsBound' BY DEF UnstoredUntouched, TokenIsBound
  <2>3. NoReplay' BY DEF NoReplay, Holding
  <2>4. HeldIsGood' BY DEF HeldIsGood, Holding
  <2> QED BY <2>1, <2>2, <2>3, <2>4
<1>6. ASSUME NEW h \in Handlers, ProviderExchange(h)
      PROVE  Rest'
  <2>1. /\ arg[h].s \in StateIds /\ arg[h].p \in Providers
        /\ boundTo[arg[h].s] = arg[h].p /\ taker[arg[h].s] = h
    BY <1>6 DEF ProviderExchange, HeldIsGood, NoReplay, Holding
  <2>2. arg[h].s \notin sessions /\ arg[h].p # NoProvider /\ h # NoHandler
    BY <2>1, SessionAssumption DEF NoReplay
  <2>3. \A g \in Handlers \ {h} : Holding(g) => arg[g].s # arg[h].s
    BY <2>1 DEF NoReplay
  <2>4. StorersApart'
    BY <1>6 DEF ProviderExchange, Return, StorersApart
  <2>5. UnstoredUntouched' /\ TokenIsBound'
    BY <1>6, <2>1, <2>2 DEF ProviderExchange, UnstoredUntouched, TokenIsBound
  <2>6. NoReplay'
    BY <1>6, <2>2 DEF ProviderExchange, Return, NoReplay, Holding
  <2>7. HeldIsGood'
    BY <1>6, <2>3 DEF ProviderExchange, Return, HeldIsGood, Holding
  <2> QED BY <2>4, <2>5, <2>6, <2>7
<1>7. ASSUME \/ \E p \in Providers : RegisterProvider(p) \/ UnregisterProvider(p)
             \/ Cleanup \/ Tick \/ UNCHANGED vars
      PROVE  Rest'
  <2>1. /\ UNCHANGED <<boundTo, pc, arg, tokens, taker>>
        /\ sessions' \subseteq sessions
    BY <1>7 DEF RegisterProvider, UnregisterProvider, Cleanup, Tick, vars
  <2> QED
    BY <2>1 DEF StorersApart, UnstoredUntouched, NoReplay, HeldIsGood,
                TokenIsBound, Holding
<1> HIDE DEF Rest
<1>8. Rest'
  BY <1>1, <1>2, <1>3, <1>4, <1>5, <1>6, <1>7, NextSteps
<1> QED BY <1>0, <1>8 DEF Rest

LEMMA FlowInvariant == Spec => []FlowInv
BY InitFlowInv, StepFlowInv, PTL DEF Spec

-----------------------------------------------------------------------------
\* Every variable of the flow keeps its type, and a stored session always
\* names its provider.
THEOREM FlowTypeCorrect == Spec => []TypeOK
BY FlowInvariant, PTL DEF FlowInv

\* MemorySessionStore's RetrieveAndDelete under one lock makes a state good for
\* one callback, for any number of handlers.
THEOREM NeverReplayed == Spec => []NoReplay
BY FlowInvariant, PTL DEF FlowInv

\* Exchange never takes a token from a provider the login was not started with.
THEOREM NeverMixedUp == Spec => []NoProviderMixUp
<1>1. FlowInv => NoProviderMixUp
  BY DEF FlowInv, TokenIsBound, NoProviderMixUp
<1> QED BY <1>1, FlowInvariant, PTL

-----------------------------------------------------------------------------
\* Exchange and MemorySessionStore together keep the promise of StateTicket:
\* issued once, redeemed at most once, at most one token, never good again.
THEOREM FlowImplementsTicket == Spec => ImplementsTicket
<1>1. Init => Ticket!TicketInit
  BY DEF Init, Ticket!TicketInit
<1>2. FlowInv /\ [Next]_vars => [Ticket!TicketNext]_(Ticket!ticketVars)
  <2> SUFFICES ASSUME FlowInv, [Next]_vars
               PROVE  Ticket!TicketNext \/ UNCHANGED Ticket!ticketVars
    OBVIOUS
  <2> USE DEF FlowInv, TypeOK
  <2>1. ASSUME UNCHANGED <<sessions, boundTo, tokens, taker>>
        PROVE  UNCHANGED Ticket!ticketVars
    BY <2>1 DEF Ticket!ticketVars
  <2>2. ASSUME NEW h \in Handlers, StoreSession(h)
        PROVE  Ticket!TicketNext
    <3>1. /\ arg[h].s \in StateIds \ sessions /\ boundTo[arg[h].s] = NoProvider
          /\ arg[h].p # NoProvider
      BY <2>2, SessionAssumption DEF StoreSession, StorersApart
    <3>2. Ticket!Issue(arg[h].s)
      BY <2>2, <3>1 DEF StoreSession, Ticket!Issue
    <3> QED BY <3>1, <3>2 DEF Ticket!TicketNext, Ticket!Issue
  <2>3. ASSUME NEW h \in Handlers, NEW s \in StateIds, NEW p \in Providers,
               RetrieveAndDelete(h, s, p)
        PROVE  Ticket!TicketNext
    <3>1. s \in sessions /\ boundTo[s] # NoProvider
      BY <2>3 DEF RetrieveAndDelete
    <3>2. Ticket!Redeem(s, h)
      BY <2>3, <3>1 DEF RetrieveAndDelete, Ticket!Redeem
    <3> QED BY <3>2 DEF Ticket!TicketNext
  <2>4. ASSUME NEW h \in Handlers, ProviderExchange(h)
        PROVE  Ticket!TicketNext \/ UNCHANGED Ticket!ticketVars
    <3>1. /\ arg[h].s \in StateIds /\ arg[h].p # NoProvider
          /\ tokens[arg[h].s] = NoProvider /\ taker[arg[h].s] # NoHandler
      BY <2>4, SessionAssumption
      DEF ProviderExchange, HeldIsGood, NoReplay, Holding
    <3>2. CASE tokens' = [tokens EXCEPT ![arg[h].s] = arg[h].p]
      <4>1. Ticket!Grant(arg[h].s)
        BY <2>4, <3>1, <3>2 DEF ProviderExchange, Ticket!Grant
      <4> QED BY <3>1, <4>1 DEF Ticket!TicketNext, Ticket!Grant
    <3>3. CASE UNCHANGED tokens
      BY <2>4, <3>3, <2>1 DEF ProviderExchange
    <3> QED BY <2>4, <3>2, <3>3 DEF ProviderExchange
  <2>5. ASSUME Cleanup
        PROVE  Ticket!TicketNext
    <3>1. Ticket!Void(Swept) /\ Swept \in SUBSET StateIds
      BY <2>5 DEF Cleanup, Swept, Ticket!Void
    <3> QED BY <3>1 DEF Ticket!TicketNext, Ticket!Void
  <2>6. ASSUME \/ \E h \in Handlers, p \in Providers : GetAuthURL(h, p)
               \/ \E h \in Handlers : Validate(h) \/ GetProvider(h)
               \/ \E p \in Providers : RegisterProvider(p) \/ UnregisterProvider(p)
               \/ Tick \/ UNCHANGED vars
        PROVE  UNCHANGED Ticket!ticketVars
    BY <2>1, <2>6 DEF GetAuthURL, Validate, GetProvider, RegisterProvider,
                      UnregisterProvider, Tick, vars
  <2> QED
    BY <2>2, <2>3, <2>4, <2>5, <2>6, NextSteps
<1> QED BY <1>1, <1>2, FlowInvariant, PTL DEF Spec, ImplementsTicket, Ticket!TicketSpec
=============================================================================
