----------------------------- MODULE UserProfile -----------------------------
(***************************************************************************)
(* GetUserInfo of a provider (oauth/*_provider.go) against a user who      *)
(* edits the profile meanwhile.                                            *)
(*                                                                         *)
(* One request is enough for every provider but GitHub, whose user object  *)
(* may hide the e-mail address; a second request then asks for the list of *)
(* addresses, and the profile may have changed between the two.            *)
(*                                                                         *)
(* Data abstractions.  An address is its place in the list the provider    *)
(* keeps; MaxEmails bounds the list.  Apple's profile is the ID token that *)
(* GetUserInfoFromIDToken reads; its GetUserInfo always fails.             *)
(***************************************************************************)
EXTENDS Providers

CONSTANT MaxEmails   \* bound: addresses of a user

ASSUME ProfileAssumption == MaxEmails \in Nat

VARIABLES
  kind,     \* the provider
  profile,  \* provider: the addresses, the one shown, and the flag it sends
  asked,    \* GetUserInfo has hidden address and asks for the list
  info,     \* what the last GetUserInfo said of the e-mail address
  seen      \* history: addresses that were verified during the last GetUserInfo

profileVars == <<kind, profile, asked, info, seen>>

Email == [primary : BOOLEAN, verified : BOOLEAN]

\* GitHub shows verified addresses only.
Profiles(k) ==
  {p \in [emails : UNION {[1 .. n -> Email] : n \in 0 .. MaxEmails},
          shown : 0 .. MaxEmails, flag : BOOLEAN] :
     /\ p.shown \in {0} \cup DOMAIN p.emails
     /\ k = "github" /\ p.shown # 0 => p.emails[p.shown].verified}

VerifiedIn(p) == {i \in DOMAIN p.emails : p.emails[i].verified}

ProfileInit ==
  /\ kind \in Kinds
  /\ profile \in Profiles(kind)
  /\ asked = FALSE
  /\ info = Reports(0, FALSE)
  /\ seen = {}

\* The user, or the provider, changes the profile.
Edit ==
  /\ profile' \in Profiles(kind)
  /\ seen' = IF asked THEN seen \cup VerifiedIn(profile') ELSE seen
  /\ UNCHANGED <<kind, asked, info>>

\* GetUserInfo: the request for the user.  When it fails there is no result.
GetUserInfo ==
  /\ ~asked
  /\ seen' = VerifiedIn(profile)
  /\ IF kind = "github" /\ profile.shown = 0
       THEN asked' = TRUE /\ UNCHANGED info
       ELSE info' = UserInfo(kind, profile) /\ UNCHANGED asked
  /\ UNCHANGED <<kind, profile>>

\* GetUserInfo of GitHub: the request for the list.  When that fails the user
\* is reported without an address.
GetPrimaryEmail ==
  /\ asked
  /\ asked' = FALSE
  /\ info' \in {UserInfo(kind, [profile EXCEPT !.shown = 0]), Reports(0, FALSE)}
  /\ UNCHANGED <<kind, profile, seen>>

ProfileNext == Edit \/ GetUserInfo \/ GetPrimaryEmail

ProfileSpec == ProfileInit /\ [][ProfileNext]_profileVars

-----------------------------------------------------------------------------
\* Where the kit says by itself whether an address is verified, for GitHub whose
\* list it searches and for Twitter which gives none, what GetUserInfo reports
\* as verified is an address, and one that was verified at some time of the call,
\* however the profile changed between its two requests.  The other providers'
\* flag is passed on as it comes, even without an address.
VerifiedIsVerified ==
  kind \in {"github", "twitter"} /\ ~asked /\ info.verified => info.email \in seen
=============================================================================
