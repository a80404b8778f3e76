--------------------------- MODULE TokenManagerMC ---------------------------
(***************************************************************************)
(* An instance of TokenManager for TLC.  Init chooses a scene, which stays *)
(* (a bound): in "race" the user has the providers that can be refreshed   *)
(* and the clients take part; in "limit" the user has all the providers    *)
(* and only the background task refreshes.                                 *)
(***************************************************************************)
EXTENDS TokenManager

VARIABLE scene

InScene ==
  /\ scene = "race" => \A k \in Keys : ~Refreshable(k) => issued[k] = 0
  /\ scene = "limit" => \A w \in Clients : job[w] = Idle

MCInit == Init /\ scene \in {"race", "limit"}
MCNext == Next /\ UNCHANGED scene /\ InScene'
MCSpec == MCInit /\ [][MCNext]_<<vars, scene>> /\ Fairness
=============================================================================
