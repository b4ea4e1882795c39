------------------------------- MODULE Outbox -------------------------------
(***************************************************************************)
(* What the deletion outbox promises the rest of the system, with neither  *)
(* relays nor claims, leases, retries and crashes.  The facts of a delete  *)
(* are recorded together.  A fact is settled at most once, as delivered or *)
(* failed, and forgotten only after that.  A notification goes only to     *)
(* targets that some lookup of the rules named, perhaps more than once,    *)
(* and counts as delivered only when every target of one such lookup has   *)
(* received it.                                                            *)
(***************************************************************************)
CONSTANTS
    Facts,     \* all facts there will ever be
    Notices,   \* those meant for the bucket's notification targets
    Deletes,   \* the sets of facts that are recorded together
    Targets    \* notification targets

VARIABLES
    state,     \* of each fact: "none", "open", "delivered", "failed" or "gone"
    ledger,    \* the facts on record as delivered
    rules,     \* the targets the bucket's rules name now
    lookups,   \* of each fact, the rules as some attempt under way has read them
    reached    \* of each fact, the targets that have received it

promiseVars == <<state, ledger, rules, lookups, reached>>

Init ==
    /\ state = [f \in Facts |-> "none"]
    /\ ledger = {}
    /\ rules = Targets
    /\ lookups = [f \in Facts |-> {}]
    /\ reached = [f \in Facts |-> {}]

\* Attempts end, for whatever reason.
Fewer == \A f \in Facts : lookups'[f] \subseteq lookups[f]

Record(d) ==
    /\ \A f \in d : state[f] = "none"
    /\ UNCHANGED <<ledger, rules, reached, lookups>>
    /\ state' = [f \in Facts |-> IF f \in d THEN "open" ELSE state[f]]

Look(f) ==
    /\ f \in Notices /\ state[f] # "none"
    /\ UNCHANGED <<rules, reached, ledger, state>>
    /\ lookups' = [lookups EXCEPT ![f] = @ \cup {rules}]

Reach(f, t) ==
    /\ \E M \in lookups[f] : t \in M
    /\ reached' = [reached EXCEPT ![f] = @ \cup {t}]
    /\ UNCHANGED <<rules, ledger, state>>
    /\ Fewer

Abandon ==
    /\ UNCHANGED <<rules, reached, ledger, state>>
    /\ Fewer

Settle(f, outcome) ==
    /\ state[f] = "open"
    /\ outcome = "delivered" /\ f \in Notices => \E M \in lookups[f] : M \subseteq reached[f]
    /\ state' = [state EXCEPT ![f] = outcome]
    /\ ledger' = IF outcome = "delivered" THEN ledger \cup {f} ELSE ledger
    /\ UNCHANGED <<rules, reached>>
    /\ Fewer

Forget(S) ==
    /\ \A f \in S : state[f] \in {"delivered", "failed"}
    /\ state' = [f \in Facts |-> IF f \in S THEN "gone" ELSE state[f]]
    /\ ledger' = ledger \ S
    /\ UNCHANGED <<rules, lookups, reached>>

SetRules ==
    /\ rules' \in SUBSET Targets
    /\ UNCHANGED <<state, ledger, lookups, reached>>

Next ==
    \/ Abandon
    \/ \E d \in Deletes : Record(d)
    \/ \E f \in Facts : Look(f) \/ \E t \in Targets : Reach(f, t)
    \/ \E f \in Facts, outcome \in {"delivered", "failed"} : Settle(f, outcome)
    \/ \E S \in SUBSET Facts : Forget(S)
    \/ SetRules

Spec == Init /\ [][Next]_promiseVars
=============================================================================
