---------------------------- MODULE StoreWrappers ----------------------------
(***************************************************************************)
(* The stores of oauth/encrypted_store.go that wrap other stores: the      *)
(* CacheIntegratedTokenStore, over an EncryptedTokenStore and a cache, and *)
(* the EncryptedSessionStore over a MemorySessionStore.                    *)
(*                                                                         *)
(* A wrapper holds no lock: each call of a wrapped store is a step of its  *)
(* own and calls of several goroutines interleave.  The wrapped stores are *)
(* atomic and may fail; MemorySessionStore has its clean-up.               *)
(*                                                                         *)
(* Data abstractions.  One token key and one session key, the keys being   *)
(* independent; tokens are numbers; a ciphertext is the token and a mark.  *)
(***************************************************************************)
EXTENDS Naturals, FiniteSets

CONSTANTS Callers, Tokens

VARIABLES
  primary,   \* what the persistent store holds, encrypted, or None
  cache,     \* what the cache holds, or None
  session,   \* the encrypted session in MemorySessionStore: present or not
  call,      \* what each caller is doing
  redeemed,  \* history: how often the session was handed out, up to 2
  raced,     \* history: conflicting calls overlapped
  faulted    \* history: a call failed whose error the wrapper ignores, or one
             \* of the primary store failed and had its effect all the same

wrapVars == <<primary, cache, session, call, redeemed, raced, faulted>>

None == [type |-> "none", token |-> 0]
Encrypt(t) == [type |-> "encrypted", token |-> t]
Bare(t) == [type |-> "Bearer", token |-> t]

\* Tokens stored before encryption was introduced are returned as they are.
Decrypt(stored) == Bare(stored.token)

NoCall == [op |-> "idle", step |-> "none", token |-> 0]

WrapInit ==
  /\ primary \in {None} \cup {Bare(t) : t \in Tokens}
  /\ cache = None
  /\ session = FALSE
  /\ call = [c \in Callers |-> NoCall]
  /\ redeemed = 0
  /\ raced = FALSE
  /\ faulted = FALSE

Busy == {c \in Callers : call[c] # NoCall}

\* Calls on the token of which one writes, or two redemptions of the session.
Conflict(a, b) ==
  \/ {a, b} \subseteq {"store", "retrieve", "delete"} /\ {a, b} # {"retrieve"}
  \/ {a, b} = {"redeem"}

Begin(c, op, step, t) ==
  /\ call[c] = NoCall
  /\ call' = [call EXCEPT ![c] = [op |-> op, step |-> step, token |-> t]]
  /\ raced' = (raced \/ \E d \in Busy : Conflict(call[d].op, op))

Return(c) == call' = [call EXCEPT ![c] = NoCall]

-----------------------------------------------------------------------------
\* CacheIntegratedTokenStore.  Store begins with the primary store, ...
StorePrimary(c, t) ==
  /\ Begin(c, "store", "cache", t)
  /\ primary' = Encrypt(t)
  /\ UNCHANGED <<cache, session, redeemed, faulted>>

\* ... ends there when that fails, even when the token was written before the
\* error, ...
StoreDoubtful(c, t) ==
  /\ call[c] = NoCall
  /\ primary' = Encrypt(t)
  /\ raced' = (raced \/ \E d \in Busy : Conflict(call[d].op, "store"))
  /\ faulted' = TRUE
  /\ UNCHANGED <<cache, session, call, redeemed>>

\* ... and goes on with the cache, at best effort.
StoreCache(c) ==
  /\ call[c].op = "store"
  /\ \/ cache' = Bare(call[c].token) /\ UNCHANGED faulted
     \/ faulted' = TRUE /\ UNCHANGED cache
  /\ Return(c)
  /\ UNCHANGED <<primary, session, redeemed, raced>>

\* Retrieve is done when the cache answers with the token.  When it does not,
\* for want of the token or for an error, the primary store is asked,
RetrieveCache(c) ==
  /\ Begin(c, "retrieve", "primary", 0)
  /\ UNCHANGED <<primary, cache, session, redeemed, faulted>>

\* which has none or fails, ...
RetrievePrimary(c) ==
  /\ call[c].op = "retrieve" /\ call[c].step = "primary"
  /\ \/ Return(c)
     \/ /\ primary # None
        /\ call' = [call EXCEPT ![c].step = "fill", ![c].token = Decrypt(primary).token]
  /\ UNCHANGED <<primary, cache, session, redeemed, raced, faulted>>

\* ... or gives its token, which goes in the cache, at best effort.
FillCache(c) ==
  /\ call[c].op = "retrieve" /\ call[c].step = "fill"
  /\ cache' \in {Bare(call[c].token), cache}
  /\ Return(c)
  /\ UNCHANGED <<primary, session, redeemed, raced, faulted>>

\* Mutant of DeleteCache: leaves the cache alone.
DeleteLater(c) ==
  /\ Begin(c, "delete", "primary", 0)
  /\ UNCHANGED <<primary, cache, session, redeemed, faulted>>

\* Delete empties the cache, at best effort, ...
DeleteCache(c) ==
  /\ Begin(c, "delete", "primary", 0)
  /\ \/ cache' = None /\ UNCHANGED faulted
     \/ faulted' = TRUE /\ UNCHANGED cache
  /\ UNCHANGED <<primary, session, redeemed>>

\* ... then the primary store, whose error the caller gets.
DeletePrimary(c) ==
  /\ call[c].op = "delete"
  /\ primary' \in {None, primary}
  /\ Return(c)
  /\ UNCHANGED <<cache, session, redeemed, raced, faulted>>

-----------------------------------------------------------------------------
\* EncryptedSessionStore.  Store, once for the session.
StoreSession(c) ==
  /\ call[c] = NoCall
  /\ ~session /\ redeemed = 0
  /\ session' = TRUE
  /\ UNCHANGED <<primary, cache, call, redeemed, raced, faulted>>

\* RetrieveAndDelete retrieves, ...
RetrieveSession(c) ==
  /\ session
  /\ Begin(c, "redeem", "delete", 0)
  /\ redeemed' = IF redeemed < 2 THEN redeemed + 1 ELSE 2
  /\ UNCHANGED <<primary, cache, session, faulted>>

\* ... deletes, and ignores an error of that.
DeleteSession(c) ==
  /\ call[c].op = "redeem"
  /\ \/ session' = FALSE /\ UNCHANGED faulted
     \/ faulted' = TRUE /\ UNCHANGED session
  /\ Return(c)
  /\ UNCHANGED <<primary, cache, redeemed, raced>>

\* A tick of MemorySessionStore's clean-up.  The wrapper it sees has neither
\* CreatedAt nor ExpiresAt, so it goes whatever the session inside says.
Cleanup ==
  /\ session' = FALSE
  /\ UNCHANGED <<primary, cache, call, redeemed, raced, faulted>>

TokenStep(c) ==
  \/ \E t \in Tokens : StorePrimary(c, t) \/ StoreDoubtful(c, t)
  \/ StoreCache(c)
  \/ RetrieveCache(c) \/ RetrievePrimary(c) \/ FillCache(c)
  \/ DeleteCache(c) \/ DeletePrimary(c)

SessionStep(c) == StoreSession(c) \/ RetrieveSession(c) \/ DeleteSession(c)

WrapNext == Cleanup \/ \E c \in Callers : TokenStep(c) \/ SessionStep(c)

WrapSpec == WrapInit /\ [][WrapNext]_wrapVars

-----------------------------------------------------------------------------
\* At rest the cache holds what the primary store holds, or nothing.
Coherent == Busy = {} /\ cache # None => primary # None /\ cache = Decrypt(primary)

\* encrypted_store.go line 188: "RetrieveAndDelete atomically retrieves and deletes
\* session data", so that a session is handed out once.
RedeemedOnce == redeemed <= 1

\* No lock protects a wrapper: a stale token in the cache and a session handed
\* out twice are possible.  But it takes two conflicting calls that overlap, or
\* an error the wrapper ignores, or a write of the primary store that fails and
\* is done all the same.  Writes it refuses, deletions it fails or does in spite
\* of its error, reads that overlap and the clean-up do no harm.
WrongOnlyByOverlap == ~raced /\ ~faulted => Coherent /\ RedeemedOnce
=============================================================================
