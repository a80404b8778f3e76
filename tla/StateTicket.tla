----------------------------- MODULE StateTicket -----------------------------
(***************************************************************************)
(* What the oauth package promises of the state parameter of a login, with *)
(* no stores, locks, clocks or providers: a state is issued once, is       *)
(* redeemed by at most one callback, yields at most one token, and is      *)
(* never good again once it was redeemed or voided.                        *)
(***************************************************************************)
CONSTANTS StateIds, Handlers, NoHandler

VARIABLES
  ticket,   \* "unissued", "live" or "spent"
  taker,    \* the handler that redeemed a state
  granted   \* the states that yielded a token

ticketVars == <<ticket, taker, granted>>

TicketInit ==
  /\ ticket = [s \in StateIds |-> "unissued"]
  /\ taker = [s \in StateIds |-> NoHandler]
  /\ granted = {}

Issue(s) ==
  /\ ticket[s] = "unissued"
  /\ ticket' = [ticket EXCEPT ![s] = "live"]
  /\ UNCHANGED <<taker, granted>>

Redeem(s, h) ==
  /\ ticket[s] = "live"
  /\ ticket' = [ticket EXCEPT ![s] = "spent"]
  /\ taker' = [taker EXCEPT ![s] = h]
  /\ UNCHANGED granted

\* States that nobody came back with.
Void(S) ==
  /\ \A s \in S : ticket[s] = "live"
  /\ ticket' = [s \in StateIds |-> IF s \in S THEN "spent" ELSE ticket[s]]
  /\ UNCHANGED <<taker, granted>>

Grant(s) ==
  /\ taker[s] # NoHandler
  /\ s \notin granted
  /\ granted' = granted \cup {s}
  /\ UNCHANGED <<ticket, taker>>

TicketNext ==
  \/ \E s \in StateIds : Issue(s) \/ Grant(s) \/ \E h \in Handlers : Redeem(s, h)
  \/ \E S \in SUBSET StateIds : Void(S)

TicketSpec == TicketInit /\ [][TicketNext]_ticketVars
=============================================================================
