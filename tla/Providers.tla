------------------------------ MODULE Providers ------------------------------
(***************************************************************************)
(* What the five OAuth providers of oauth/*_provider.go make of a PKCE     *)
(* pair, of the answers of their token endpoint and of a user's profile,   *)
(* as operators: the modules of the login flow use them.                   *)
(*                                                                         *)
(* Data abstractions.  A code verifier is the login it was made for and a  *)
(* hash is a mark on it; tokens are numbers, 0 standing for the empty      *)
(* string; the body of an answer is a token, an error object, an object    *)
(* with neither, or nothing that decodes.                                  *)
(***************************************************************************)
EXTENDS Naturals, Sequences, SequencesExt

CONSTANT NoLogin

Kinds == {"google", "github", "apple", "twitter", "custom"}

-----------------------------------------------------------------------------
\* PKCE.
Plain(l) == [of |-> l, hashed |-> FALSE]
GenerateS256Challenge(verifier) == [verifier EXCEPT !.hashed = TRUE]

GeneratePKCEChallenge(method, l) ==
  [verifier |-> Plain(l), method |-> method,
   challenge |-> IF method = "S256" THEN GenerateS256Challenge(Plain(l)) ELSE Plain(l)]

\* A nil *PKCEChallenge.
NoPKCE == [verifier |-> Plain(NoLogin), method |-> "none", challenge |-> Plain(NoLogin)]

ValidatePKCEChallenge(verifier, challenge, method) ==
  \/ method = "S256" /\ challenge = GenerateS256Challenge(verifier)
  \/ method = "plain" /\ challenge = verifier

\* The parameters of the authorization URL that the provider keeps with a code.
PKCEParams(pkce) == [challenge |-> pkce.challenge, method |-> pkce.method]

GoogleAuthURL(pkce) == PKCEParams(pkce)
GitHubAuthURL(pkce) == PKCEParams(pkce)
AppleAuthURL(pkce) == PKCEParams(pkce)
CustomAuthURL(pkce) == PKCEParams(pkce)
TwitterAuthURL(pkce) == [PKCEParams(pkce) EXCEPT !.method = "S256"]

AuthURL(kind, pkce) ==
  CASE kind = "google" -> GoogleAuthURL(pkce)
    [] kind = "github" -> GitHubAuthURL(pkce)
    [] kind = "apple" -> AppleAuthURL(pkce)
    [] kind = "twitter" -> TwitterAuthURL(pkce)
    [] kind = "custom" -> CustomAuthURL(pkce)

-----------------------------------------------------------------------------
\* Token endpoint.
Failure == [ok |-> FALSE, access |-> 0, refresh |-> 0]
Token(access, refresh) == [ok |-> TRUE, access |-> access, refresh |-> refresh]

\* The status is 200, the body decodes and has no "error".  Nobody asks whether
\* it has an "access_token": without one the token comes out empty.
Answered(reply) == reply.status = 200 /\ reply.body \notin {"garbled", "error"}

GoogleExchange(reply) ==
  IF Answered(reply) THEN Token(reply.access, reply.refresh) ELSE Failure
AppleExchange(reply) ==
  IF Answered(reply) THEN Token(reply.access, reply.refresh) ELSE Failure
TwitterExchange(reply) ==
  IF Answered(reply) THEN Token(reply.access, reply.refresh) ELSE Failure
GitHubExchange(reply) ==
  IF Answered(reply) THEN Token(reply.access, 0) ELSE Failure

\* The custom provider does not look for an error in a body of status 200.
CustomExchange(reply) ==
  IF reply.status = 200 /\ reply.body # "garbled"
    THEN Token(reply.access, reply.refresh) ELSE Failure

Exchanged(kind, reply) ==
  CASE kind = "google" -> GoogleExchange(reply)
    [] kind = "github" -> GitHubExchange(reply)
    [] kind = "apple" -> AppleExchange(reply)
    [] kind = "twitter" -> TwitterExchange(reply)
    [] kind = "custom" -> CustomExchange(reply)

\* Three providers keep the refresh token they sent.
GoogleRefreshToken(sent, reply) ==
  IF Answered(reply) THEN Token(reply.access, sent) ELSE Failure
AppleRefreshToken(sent, reply) ==
  IF Answered(reply) THEN Token(reply.access, sent) ELSE Failure
TwitterRefreshToken(sent, reply) ==
  IF Answered(reply) THEN Token(reply.access, sent) ELSE Failure

\* Mutant of CustomRefreshToken: an answer without a refresh token clears it.
CustomTakesWhatComes(sent, reply) ==
  IF reply.status = 200 /\ reply.body # "garbled"
    THEN Token(reply.access, reply.refresh) ELSE Failure

CustomRefreshToken(sent, reply) ==
  IF reply.status = 200 /\ reply.body # "garbled"
    THEN Token(reply.access, IF reply.refresh = 0 THEN sent ELSE reply.refresh)
    ELSE Failure

Refreshed(kind, sent, reply) ==
  CASE kind = "google" -> GoogleRefreshToken(sent, reply)
    [] kind = "apple" -> AppleRefreshToken(sent, reply)
    [] kind = "twitter" -> TwitterRefreshToken(sent, reply)
    [] kind = "custom" -> CustomRefreshToken(sent, reply)

\* GitHub refuses to refresh.
SupportsRefresh(kind) == kind # "github"

\* Apple signs its client secret with the private key, which must be there.
GenerateClientSecret(kind, configured) == kind = "apple" => configured

-----------------------------------------------------------------------------
\* User information: the index of the e-mail address reported, 0 for none, and
\* EmailVerified.  A profile lists the user's addresses, the one it shows and
\* the flag the provider sends along, with or without an address.
Reports(email, verified) == [email |-> email, verified |-> verified]

\* Address and flag are copied, each by itself.
GoogleUserInfo(profile) == Reports(profile.shown, profile.flag)

\* Mutant of PrimaryEmail: the primary address, verified or not.
PrimaryUnverified(emails) ==
  LET primary == {i \in DOMAIN emails : emails[i].primary}
  IN  IF primary # {} THEN CHOOSE i \in primary : TRUE ELSE 0

\* The first address that is primary and verified, else the first verified one;
\* none when there is none, or the list cannot be had.
PrimaryEmail(emails) ==
  LET primary == SelectInSeq(emails, LAMBDA e : e.primary /\ e.verified)
  IN  IF primary # 0 THEN primary ELSE SelectInSeq(emails, LAMBDA e : e.verified)

\* An address that is shown counts as verified; a hidden one is asked for.
GitHubUserInfo(profile) ==
  LET email == IF profile.shown # 0 THEN profile.shown ELSE PrimaryEmail(profile.emails)
  IN  Reports(email, email # 0)

\* The user endpoint of Twitter has no e-mail address.
TwitterUserInfo(profile) == Reports(0, FALSE)

\* "email" is taken when the answer has it, and "email_verified" by itself.
CustomUserInfo(profile) == Reports(profile.shown, profile.flag)

\* From the claims of the ID token; GetUserInfo itself always fails.
AppleUserInfo(profile) == Reports(profile.shown, profile.flag)

UserInfo(kind, profile) ==
  CASE kind = "google" -> GoogleUserInfo(profile)
    [] kind = "github" -> GitHubUserInfo(profile)
    [] kind = "apple" -> AppleUserInfo(profile)
    [] kind = "twitter" -> TwitterUserInfo(profile)
    [] kind = "custom" -> CustomUserInfo(profile)
=============================================================================
