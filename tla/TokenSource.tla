---------------------------- MODULE TokenSource ----------------------------
(***************************************************************************)
(* The OAuth token cache of the billing and the audit-governance clients.  *)
(* The goroutines that deliver facts share one tokenSource: its mutex is   *)
(* held over the whole of Token / AccessToken, the fetch included, and a   *)
(* 401 makes the goroutine call Invalidate with the token it had sent.     *)
(*                                                                         *)
(* Tokens are numbered in the order the authorization server issues them.  *)
(***************************************************************************)
EXTENDS Naturals, FiniteSets

CONSTANTS
    Callers,  \* the delivery goroutines
    NoCaller,
    MaxTokens \* bound: tokens issued

VARIABLES
    cached,   \* tokenSource.token, 0 for ""
    fresh,    \* now is before tokenSource.refresh / expires
    lock,     \* who holds tokenSource.mu, across the fetch
    caller,   \* each goroutine: pc and the token it sends
    issued,   \* tokens issued so far
    unauthorized, \* history: tokens some request was answered 401 for
    lapsed    \* history: cached tokens that passed their refresh time or were dropped

tokenVars == <<cached, fresh, lock, caller, issued, unauthorized, lapsed>>

At(c, pc) == caller[c].pc = pc
Goto(c, pc, t) == caller' = [caller EXCEPT ![c] = [pc |-> pc, token |-> t]]

Init ==
    /\ cached = 0 /\ fresh = FALSE /\ lock = NoCaller
    /\ caller = [c \in Callers |-> [pc |-> "idle", token |-> 0]]
    /\ issued = 0 /\ unauthorized = {} /\ lapsed = 0

\* Mutant of Cached: the goroutine that waited for the lock fetches anyway.
NeverCached == FALSE

Cached == cached # 0 /\ fresh

\* The lock is taken and the cache looked at in one step; the cached token is
\* returned, or the fetch begins with the lock held.
Token(c) ==
    /\ At(c, "idle") /\ lock = NoCaller
    /\ IF Cached THEN Goto(c, "send", cached) /\ UNCHANGED lock
       ELSE lock' = c /\ Goto(c, "fetch", 0)
    /\ UNCHANGED <<cached, fresh, issued, unauthorized, lapsed>>

\* fetch: a valid response replaces the cached token.
FetchOK(c) ==
    /\ At(c, "fetch") /\ issued < MaxTokens
    /\ issued' = issued + 1
    /\ cached' = issued + 1 /\ fresh' = TRUE
    /\ Goto(c, "send", issued + 1)
    /\ lock' = NoCaller
    /\ UNCHANGED <<unauthorized, lapsed>>

\* ErrTokenUnavailable: an error or an invalid response leaves the cache as it
\* was, and the delivery fails.
FetchFails(c) ==
    /\ At(c, "fetch")
    /\ Goto(c, "idle", 0)
    /\ lock' = NoCaller
    /\ UNCHANGED <<cached, fresh, issued, unauthorized, lapsed>>

\* The request is answered; a 401 goes on to Invalidate.
Answer(c, status) ==
    /\ At(c, "send")
    /\ IF status = 401
       THEN Goto(c, "invalidate", caller[c].token) /\ unauthorized' = unauthorized \cup {caller[c].token}
       ELSE Goto(c, "idle", 0) /\ UNCHANGED unauthorized
    /\ UNCHANGED <<cached, fresh, lock, issued, lapsed>>

\* Mutant of Matches: whatever is cached is dropped.
MatchesAny(t) == cached # 0

Matches(t) == cached = t

Invalidate(c) ==
    /\ At(c, "invalidate") /\ lock = NoCaller
    /\ IF Matches(caller[c].token)
       THEN cached' = 0 /\ fresh' = FALSE /\ lapsed' = IF fresh THEN lapsed + 1 ELSE lapsed
       ELSE UNCHANGED <<cached, fresh, lapsed>>
    /\ Goto(c, "idle", 0)
    /\ UNCHANGED <<lock, issued, unauthorized>>

\* The refresh time passes.
Expires ==
    /\ fresh
    /\ fresh' = FALSE /\ lapsed' = lapsed + 1
    /\ UNCHANGED <<cached, lock, caller, issued, unauthorized>>

Next ==
    \/ \E c \in Callers :
          \/ Token(c) \/ FetchOK(c) \/ FetchFails(c) \/ Invalidate(c)
          \/ \E status \in {200, 401} : Answer(c, status)
    \/ Expires

-----------------------------------------------------------------------------
\* Only the goroutine that fetches holds the lock.
TypeOK ==
    /\ cached \in 0..issued
    /\ fresh => cached # 0
    /\ \A c \in Callers : lock = c <=> At(c, "fetch")

\* A token is fetched only in place of one that lapsed: goroutines that found
\* the lock taken use the token its holder fetched.
NoStampede == issued <= 1 + lapsed

\* A late 401 for an old token never drops the token that replaced it.
KeepsNewToken == cached # 0 /\ cached' = 0 => cached \in unauthorized
=============================================================================
