------------------------------ MODULE AppleKeys ------------------------------
(***************************************************************************)
(* Validation of Apple's ID tokens (oauth/apple_jwt.go): the cache of      *)
(* Apple's public keys shared by every validation in flight, while Apple   *)
(* rotates its keys.                                                       *)
(*                                                                         *)
(* A validation looks its key up, and on a miss fetches the published      *)
(* keys, replaces the cache by them and looks again; each locked section   *)
(* and the fetch are steps of their own, so fetches overlap and install    *)
(* their keys in any order.                                                *)
(*                                                                         *)
(* Data abstractions.  A signature verifies when the key is found under    *)
(* its id; the claims other than the times are right or wrong.             *)
(***************************************************************************)
EXTENDS Integers, FiniteSets

CONSTANTS
  Validations,
  Keys,           \* ids of the keys Apple ever publishes
  Ttl,            \* the cache's ttl, in ticks
  Lifetime,       \* validity of an ID token, in ticks
  MaxAge          \* bound: ticks are counted up to it

ASSUME KeysAssumption ==
  /\ Ttl \in Nat /\ Lifetime \in Nat /\ MaxAge \in Nat
  /\ Ttl < MaxAge /\ Lifetime < MaxAge

VARIABLES
  published,  \* external: the keys Apple publishes
  retired,    \* external: ticks since a key was last published
  keys,       \* appleKeysCache.keys
  updated,    \* ticks since appleKeysCache.lastUpdate
  work,       \* what each validation is doing
  delay,      \* history: ticks the keys in the cache spent on their way
  excused     \* history: the validations that had bad luck (see below)

vars == <<published, retired, keys, updated, work, delay, excused>>

\* One tick of a counter.
Aged(n) == IF n < MaxAge THEN n + 1 ELSE n

NoWork == [step |-> "idle", kid |-> 0, right |-> FALSE, age |-> 0, got |-> {}, gotAge |-> 0]

Init ==
  /\ published \in (SUBSET Keys) \ {{}}
  /\ retired = [k \in Keys |-> IF k \in published THEN 0 ELSE MaxAge]
  /\ keys = {}
  /\ updated = MaxAge
  /\ work = [v \in Validations |-> NoWork]
  /\ delay = 0
  /\ excused = {}

\* Mutant of CacheGet: keys do not expire.
GetForever(kid) == kid \in keys

\* appleKeysCache.get finds the key.
CacheGet(kid) == updated <= Ttl /\ kid \in keys

\* Issuer, audience and nonce are right; the token has not expired, and is not
\* older than the lifetime of Apple's tokens.
ValidateClaims(w) == w.right /\ w.age < Lifetime

\* The rest of ValidateIDToken once the key is found or known to be missing.
Verdict(w, found) ==
  [w EXCEPT !.step = IF found /\ ValidateClaims(w) THEN "accepted" ELSE "refused"]

\* ValidateIDToken for a token signed with kid, which Apple publishes or did so
\* when it signed: a hit, or a fetch.
Begin(v, kid, right, age) ==
  /\ work[v] = NoWork
  /\ retired[kid] <= age
  /\ LET w == [NoWork EXCEPT !.kid = kid, !.right = right, !.age = age]
     IN  work' = [work EXCEPT ![v] = IF CacheGet(kid) THEN Verdict(w, TRUE)
                                     ELSE [w EXCEPT !.step = "fetch"]]
  /\ excused' = IF kid \in published THEN excused \ {v} ELSE excused \cup {v}
  /\ UNCHANGED <<published, retired, keys, updated, delay>>

\* fetchAppleKeys: Apple answers with what it publishes now, or not at all, or
\* with a key among them that parseApplePublicKey refuses, which spoils them all.
FetchAppleKeys(v) ==
  /\ work[v].step = "fetch"
  /\ \/ /\ work' = [work EXCEPT ![v].step = "update", ![v].got = published]
        /\ UNCHANGED excused
     \/ /\ work' = [work EXCEPT ![v] = Verdict(work[v], FALSE)]
        /\ excused' = excused \cup {v}
  /\ UNCHANGED <<published, retired, keys, updated, delay>>

\* Mutant of CacheUpdate: stamps the keys and keeps those it had.
UpdateIfEmpty(v) ==
  /\ work[v].step = "update"
  /\ keys' = IF keys = {} THEN work[v].got ELSE keys
  /\ updated' = 0
  /\ delay' = work[v].gotAge
  /\ work' = [work EXCEPT ![v].step = "lookup", ![v].got = {}, ![v].gotAge = 0]
  /\ UNCHANGED <<published, retired, excused>>

\* appleKeysCache.update replaces the keys.  Validations that were about to look
\* theirs up may miss them.
CacheUpdate(v) ==
  /\ work[v].step = "update"
  /\ keys' = work[v].got
  /\ updated' = 0
  /\ delay' = work[v].gotAge
  /\ work' = [work EXCEPT ![v].step = "lookup", ![v].got = {}, ![v].gotAge = 0]
  /\ excused' = excused \cup {u \in Validations \ {v} : work[u].step = "lookup"}
  /\ UNCHANGED <<published, retired>>

\* The second lookup of getPublicKey, then the signature and the claims.
Lookup(v) ==
  /\ work[v].step = "lookup"
  /\ work' = [work EXCEPT ![v] = Verdict(work[v], CacheGet(work[v].kid))]
  /\ UNCHANGED <<published, retired, keys, updated, delay, excused>>

Return(v) ==
  /\ work[v].step \in {"accepted", "refused"}
  /\ work' = [work EXCEPT ![v] = NoWork]
  /\ excused' = excused \ {v}
  /\ UNCHANGED <<published, retired, keys, updated, delay>>

\* Apple publishes other keys.  Tokens signed with a key it takes back become
\* unverifiable, which excuses the validations of them.
Rotate(K) ==
  /\ K # {} /\ K # published
  /\ published' = K
  /\ retired' = [k \in Keys |-> IF k \in K THEN 0 ELSE retired[k]]
  /\ excused' = excused \cup {v \in Validations : work[v] # NoWork /\ work[v].kid \notin K}
  /\ UNCHANGED <<keys, updated, work, delay>>

\* A verdict is given at once: time passes for the validations at work.
Tick ==
  /\ \A v \in Validations : work[v].step \notin {"accepted", "refused"}
  /\ retired' = [k \in Keys |-> IF k \in published THEN 0 ELSE Aged(retired[k])]
  /\ updated' = Aged(updated)
  /\ work' = [v \in Validations |->
       IF work[v] = NoWork THEN NoWork
       ELSE [work[v] EXCEPT !.age = IF @ < Lifetime THEN @ + 1 ELSE @,
                            !.gotAge = IF work[v].step = "update" THEN Aged(@) ELSE 0]]
  /\ excused' = excused \cup {v \in Validations : work[v].step = "lookup" /\ updated >= Ttl}
  /\ UNCHANGED <<published, keys, delay>>

Next ==
  \/ \E v \in Validations :
       \/ \E kid \in Keys, right \in BOOLEAN, age \in 0 .. Lifetime : Begin(v, kid, right, age)
       \/ FetchAppleKeys(v) \/ CacheUpdate(v) \/ Lookup(v) \/ Return(v)
  \/ \E K \in SUBSET Keys : Rotate(K)
  \/ Tick

Spec == Init /\ [][Next]_vars

-----------------------------------------------------------------------------
\* A token that is right, fresh and signed with a key that Apple published all
\* the time is refused only when Apple gave no usable answer, another answer was
\* installed between the update and the lookup, or the cache expired there.
GenuineTokenAccepted ==
  \A v \in Validations :
    (/\ work[v].step = "refused" /\ work[v].right /\ work[v].age < Lifetime
     /\ work[v].kid \in published)
      => v \in excused

\* A key Apple took back is found for the ttl of the cache and the time the
\* cached answer spent on its way, and no longer, however answers overtake each
\* other.
RetiredKeysFade ==
  \A kid \in Keys :
    CacheGet(kid) /\ Ttl + delay < MaxAge => retired[kid] <= Ttl + delay
=============================================================================
