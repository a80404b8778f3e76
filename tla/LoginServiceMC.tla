--------------------------- MODULE LoginServiceMC ---------------------------
(***************************************************************************)
(* An instance of LoginService and of UserProfile for TLC.  A login and a  *)
(* call of GetUserInfo share no state, so one run takes them one at a      *)
(* time: Init chooses which of the two moves.                              *)
(***************************************************************************)
EXTENDS LoginService, UserProfile, TLC

VARIABLE scene

MCVars == <<vars, profileVars, scene>>

Bare == [emails |-> <<>>, shown |-> 0, flag |-> FALSE]
Plainest(k) == [kind |-> k, method |-> "none", secret |-> TRUE, rotates |-> FALSE,
                errorStatus |-> 400]

MCInit ==
  /\ Init /\ ProfileInit
  /\ \/ scene = "login" /\ kind = config.kind /\ profile = Bare
     \/ scene = "profile" /\ config = Plainest(kind)

MCNext ==
  \/ scene = "login" /\ Next /\ UNCHANGED <<profileVars, scene>>
  \/ scene = "profile" /\ ProfileNext /\ UNCHANGED <<vars, scene>>

MCSpec == MCInit /\ [][MCNext]_MCVars

HandlerSymmetry == Permutations(Handlers)
=============================================================================
