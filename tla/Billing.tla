------------------------------ MODULE Billing ------------------------------
(***************************************************************************)
(* The usage side of the billing runtime.  A storage mutation updates the  *)
(* tenant's local gauge and inserts its usage facts in one transaction     *)
(* (ApplyBillingUsage); every server then runs Runtime.runOutbox, which    *)
(* claims a batch of facts, delivers each in a goroutine and waits for all *)
(* of them before it claims again.                                         *)
(*                                                                         *)
(* A claim is identified by the server alone: claim_owner is the Runtime's *)
(* UUID, drawn once in New, and neither CompleteBillingUsage nor           *)
(* RetryBillingUsage looks at claim_until_ns.  What claim times decide is  *)
(* a flag of the row, set by a time step.                                  *)
(***************************************************************************)
EXTENDS Integers, FiniteSets

CONSTANTS
    Servers,
    Operations,  \* the mutations FileService and the maintenance loops apply
    Delta,       \* Operation -> [bytes, objects]: signed deltas
    NoServer,
    OutboxBatch, \* OutboxBatchSize
    MaxAttempts, \* OutboxMaxAttempts
    MaxMishaps   \* bound: restarts, lost writes, claims that outlive their TTL

VARIABLES
    gauge,   \* tenant_quotas.used_bytes, used_objects
    applied, \* billing_usage_operations
    outbox,  \* billing_usage_outbox: fact id -> row
    claims,  \* the deliverFact goroutines of each server
    refused, \* history: the facts the service answered with a 4xx
    metered, \* the ids the service has metered (external)
    degraded, \* each Runtime's cached backlog probe
    mishaps

billingVars == <<gauge, applied, outbox, claims, refused, metered, degraded, mishaps>>

Dimensions == {"bytes", "objects"}
Idle == [busy |-> FALSE, facts |-> {}]

Init ==
    /\ gauge = [d \in Dimensions |-> 0]
    /\ applied = {}
    /\ outbox = [f \in {} |-> {}]
    /\ claims = [s \in Servers |-> Idle]
    /\ refused = {} /\ metered = {}
    /\ degraded = [s \in Servers |-> FALSE]
    /\ mishaps = 0

-----------------------------------------------------------------------------
(* ApplyBillingUsage.                                                      *)

\* The id of a fact is its operation's id and a suffix that names the
\* dimension and the sign; a zero delta has no fact.
newBillingFact(op, d) == <<op, d>>
factsForMutation(op) == {newBillingFact(op, d) : d \in {e \in Dimensions : Delta[op][e] # 0}}

NewFact == [status |-> "pending", attempts |-> 0, owner |-> NoServer, live |-> FALSE, due |-> TRUE]

insertBillingFacts(op) ==
    outbox' = [f \in DOMAIN outbox \cup factsForMutation(op) |->
                 IF f \in DOMAIN outbox THEN outbox[f] ELSE NewFact]

\* updateBillingUsage: the gauge never goes below zero.
updateBillingUsage(op) ==
    gauge' = [d \in Dimensions |-> IF gauge[d] + Delta[op][d] < 0 THEN 0 ELSE gauge[d] + Delta[op][d]]

\* Runtime.Apply draws a fresh operation id, so the duplicate branch of
\* ApplyBillingUsage answers only a driver that replays the statement.
ApplyBillingUsage(op) ==
    IF op \in applied THEN UNCHANGED <<gauge, applied, outbox>>
    ELSE /\ applied' = applied \cup {op}
         /\ updateBillingUsage(op)
         /\ insertBillingFacts(op)

Apply(op) ==
    /\ ApplyBillingUsage(op)
    /\ UNCHANGED <<claims, refused, metered, degraded, mishaps>>

-----------------------------------------------------------------------------
(* runOutbox: claim, deliver, wait, probe.                                 *)

Mishap == mishaps < MaxMishaps /\ mishaps' = mishaps + 1

Claimable(w) == (w.status = "pending" /\ w.due) \/ (w.status = "inflight" /\ ~w.live)

\* Mutant of Claimed: the row stays pending.
ClaimedPending(w, s) == [w EXCEPT !.attempts = @ + 1, !.owner = s, !.live = TRUE]

Claimed(w, s) == [w EXCEPT !.status = "inflight", !.attempts = @ + 1, !.owner = s, !.live = TRUE]

\* Mutant of Free: the loop claims again while goroutines of the last batch run.
FreeAnyTime(s) == TRUE

\* runOutbox is one goroutine, and deliverBatch waits for its workers.
Free(s) == ~claims[s].busy

\* The oldest OutboxBatch claimable rows; which are the oldest is left open.
ClaimBillingUsage(s, F) ==
    LET all == {f \in DOMAIN outbox : Claimable(outbox[f])} IN
    /\ Free(s)
    /\ F \subseteq all /\ Cardinality(F) <= OutboxBatch /\ (F = {} => all = {})
    /\ outbox' = [f \in DOMAIN outbox |-> IF f \in F THEN Claimed(outbox[f], s) ELSE outbox[f]]
    /\ claims' = [claims EXCEPT ![s] =
          [busy |-> TRUE,
           facts |-> @.facts \cup {[id |-> f, attempts |-> outbox[f].attempts + 1, answer |-> "none"] : f \in F}]]
    /\ UNCHANGED <<gauge, applied, refused, metered, degraded, mishaps>>

isPermanentBillingError(answer) == answer = "4xx"

\* Client.AppendUsage.  The fact id is the body's id and the idempotency key,
\* so the service meters it once; a response can be lost after it did.
AppendUsage(s, k, answer, meters) ==
    /\ k \in claims[s].facts /\ k.answer = "none"
    /\ answer = "ok" => meters
    /\ answer = "4xx" => ~meters
    /\ metered' = IF meters THEN metered \cup {k.id} ELSE metered
    /\ refused' = IF answer = "4xx" THEN refused \cup {k.id} ELSE refused
    /\ claims' = [claims EXCEPT ![s].facts = (@ \ {k}) \cup {[k EXCEPT !.answer = answer]}]
    /\ UNCHANGED <<gauge, applied, outbox, degraded, mishaps>>

\* WHERE id=... AND status='inflight' AND claim_owner=...
Held(f, s) == outbox[f].status = "inflight" /\ outbox[f].owner = s

Settle(s, k, row) ==
    /\ outbox' = IF Held(k.id, s) THEN [outbox EXCEPT ![k.id] = row] ELSE outbox
    /\ claims' = [claims EXCEPT ![s].facts = @ \ {k}]
    /\ UNCHANGED <<gauge, applied, refused, metered, degraded, mishaps>>

CompleteBillingUsage(s, k) ==
    /\ k \in claims[s].facts /\ k.answer = "ok"
    /\ Settle(s, k, [outbox[k.id] EXCEPT !.status = "delivered", !.owner = NoServer, !.live = FALSE])

\* Mutant of RetryBillingUsage: the budget ends an attempt early.
RetryEarly(s, k, max) ==
    Settle(s, k, [outbox[k.id] EXCEPT
        !.status = IF outbox[k.id].attempts + 1 >= max THEN "failed" ELSE "pending",
        !.owner = NoServer, !.live = FALSE, !.due = FALSE])

\* RetryBillingUsage: the row fails once its attempts reach the maximum.
RetryBillingUsage(s, k, max) ==
    Settle(s, k, [outbox[k.id] EXCEPT
        !.status = IF outbox[k.id].attempts >= max THEN "failed" ELSE "pending",
        !.owner = NoServer, !.live = FALSE, !.due = FALSE])

\* failFact passes the fact's own attempts as the maximum.
failFact(s, k) ==
    /\ k \in claims[s].facts /\ isPermanentBillingError(k.answer)
    /\ RetryBillingUsage(s, k, k.attempts)

retryFact(s, k) ==
    /\ k \in claims[s].facts /\ k.answer \notin {"none", "ok"} /\ ~isPermanentBillingError(k.answer)
    /\ RetryBillingUsage(s, k, MaxAttempts)

\* The final write fails: the goroutine logs and ends, the claim runs out.
WriteLost(s, k) ==
    /\ k \in claims[s].facts /\ k.answer # "none" /\ Mishap
    /\ claims' = [claims EXCEPT ![s].facts = @ \ {k}]
    /\ UNCHANGED <<gauge, applied, outbox, refused, metered, degraded>>

Backlog == {f \in DOMAIN outbox : outbox[f].status \in {"pending", "inflight"}}

\* Mutant of probeAndRecord: the flag is raised and never lowered.
ProbeSticks(s) ==
    \E lag \in BOOLEAN : degraded' = [degraded EXCEPT ![s] = @ \/ (lag /\ Backlog # {})]

\* After the batch, the age of the oldest fact that is not terminal is
\* compared with maxLag; how old it is is left open.
probeAndRecord(s) ==
    \E lag \in BOOLEAN : degraded' = [degraded EXCEPT ![s] = lag /\ Backlog # {}]

deliverBatch(s) ==
    /\ claims[s].busy /\ claims[s].facts = {}
    /\ claims' = [claims EXCEPT ![s] = Idle]
    /\ probeAndRecord(s)
    /\ UNCHANGED <<gauge, applied, outbox, refused, metered, mishaps>>

\* A crash; the Runtime of the next process draws a new owner id, so rows the
\* old one held belong to nobody until their claims run out.
Restart(s) ==
    /\ Mishap
    /\ claims' = [claims EXCEPT ![s] = Idle]
    /\ degraded' = [degraded EXCEPT ![s] = FALSE]
    /\ outbox' = [f \in DOMAIN outbox |->
                    IF outbox[f].owner = s THEN [outbox[f] EXCEPT !.owner = NoServer] ELSE outbox[f]]
    /\ UNCHANGED <<gauge, applied, refused, metered>>

-----------------------------------------------------------------------------
(* Time passes.                                                            *)

Working(f) == \E s \in Servers : outbox[f].owner = s /\ \E k \in claims[s].facts : k.id = f

\* A claim that runs out under its goroutine is a fault: Config.Validate
\* keeps ClaimTTL above the HTTP timeout.
ClaimExpires(f) ==
    /\ outbox[f].live
    /\ outbox' = [outbox EXCEPT ![f].live = FALSE]
    /\ IF Working(f) THEN Mishap ELSE UNCHANGED mishaps
    /\ UNCHANGED <<gauge, applied, claims, refused, metered, degraded>>

ComesDue(f) ==
    /\ ~outbox[f].due
    /\ outbox' = [outbox EXCEPT ![f].due = TRUE]
    /\ UNCHANGED <<gauge, applied, claims, refused, metered, degraded, mishaps>>

Deliver(s) ==
    \E k \in claims[s].facts :
        \/ \E answer \in {"ok", "4xx", "error"}, meters \in BOOLEAN : AppendUsage(s, k, answer, meters)
        \/ CompleteBillingUsage(s, k) \/ failFact(s, k) \/ retryFact(s, k) \/ WriteLost(s, k)

Loop(s) == (\E F \in SUBSET DOMAIN outbox : ClaimBillingUsage(s, F)) \/ deliverBatch(s)

Next ==
    \/ \E op \in Operations : Apply(op)
    \/ \E s \in Servers : Loop(s) \/ Deliver(s) \/ Restart(s)
    \/ \E f \in DOMAIN outbox : ClaimExpires(f) \/ ComesDue(f)

-----------------------------------------------------------------------------
\* The rows stay well formed: a live claim is an inflight row's.
TypeOK ==
    /\ applied \subseteq Operations
    /\ \A d \in Dimensions : gauge[d] >= 0
    /\ \A f \in DOMAIN outbox :
          /\ outbox[f].status \in {"pending", "inflight", "delivered", "failed"}
          /\ outbox[f].live => outbox[f].status = "inflight"
          /\ outbox[f].owner \in Servers \cup {NoServer}
    /\ \A s \in Servers : claims[s].facts # {} => claims[s].busy

\* The owner alone fences as well as a token per claim would: a goroutine
\* that settles a row carries the row's latest attempt, even when its claim
\* ran out and the row was claimed again meanwhile (CompleteBillingUsage and
\* RetryBillingUsage compare claim_owner only).
SettlesOwnClaim ==
    \A s \in Servers : \A k \in claims[s].facts :
        k.id \in DOMAIN outbox /\ Held(k.id, s) => k.attempts = outbox[k.id].attempts

\* A delivered row's usage is metered by the service, whichever of several
\* overlapping deliveries completed it.
DeliveredMetered ==
    \A f \in DOMAIN outbox : outbox[f].status = "delivered" => f \in metered

\* Usage is given up only after the service refused it or MaxAttempts claims.
FailedForCause ==
    \A f \in DOMAIN outbox :
        outbox[f].status = "failed" => f \in refused \/ outbox[f].attempts >= MaxAttempts

\* The attempts a fact uses beyond MaxAttempts are those of lost claims:
\* claiming does not look at the budget, only retryFact does.
AttemptBudget ==
    \A f \in DOMAIN outbox : outbox[f].attempts <= MaxAttempts + mishaps

\* A terminal row is never claimed, retried or completed again.
TerminalStays ==
    \A f \in DOMAIN outbox :
        outbox[f].status \in {"delivered", "failed"} => outbox'[f].status = outbox[f].status
=============================================================================
