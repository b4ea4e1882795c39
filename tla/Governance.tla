----------------------------- MODULE Governance -----------------------------
(***************************************************************************)
(* The audit-governance relay: audit_log and object_events rows (the       *)
(* origins) of bound tenants are relayed, redacted, to the governance      *)
(* service through audit_governance_outbox.  Every server runs the same    *)
(* loop (Runtime.run): reconcile the origins that have no row, claim and   *)
(* deliver a batch, prune what is past retention.                          *)
(*                                                                         *)
(* There is no clock.  What the code decides by comparing times is a flag  *)
(* of the row, set by a time step: the lease ran out, the retry is due,    *)
(* the cumulative window is over, the retention passed.  A claim token is  *)
(* a fresh UUID: any token that no row and no worker holds.  The service   *)
(* is external and is modelled from the receipts validateReceipt reads.    *)
(***************************************************************************)
EXTENDS Naturals, FiniteSets

CONSTANTS
    Relays,     \* the servers
    Origins,    \* audit_log and object_events rows
    TenantOf,   \* the tenant of an origin
    Manifests,  \* the binding manifests operators deploy: tenant |-> state
    Tokens,     \* claim tokens
    NoToken,
    Batch,      \* rows a claim or a prune takes at most
    MaxRevision, \* bound: manifest revisions
    MaxFaults    \* bound: crashes, failed writes, workers slower than their lease

VARIABLES
    control,   \* audit_governance_control: the applied revision and manifest
    logged,    \* the origins whose audit_log or object_events row exists
    row,       \* audit_governance_outbox by origin: no element or one
    delivered, \* audit_governance_delivered_origins
    rejected,  \* audit_governance_rejected_origins
    server,    \* each server's Runtime: up, revision, manifest
    pc,        \* where each server's loop is
    gaps,      \* what reconcile still has to enqueue
    work,      \* the facts the loop's workers deliver
    ledger,    \* the fact ids the service has ledgered
    faults

vars == <<control, logged, row, delivered, rejected, server, pc, gaps, work, ledger, faults>>
store == <<control, logged, row, delivered, rejected>>

NoManifest == [t \in {} |-> "active"]
Down == [up |-> FALSE, revision |-> 0, states |-> NoManifest]

\* The fact id hashes the tenant, the action, the origin and the second the
\* origin is stored with; the process clock plays no part in it.
DeterministicFactID(o, second) == <<o, second>>

\* governanceCaptureActive, and Runtime.Capture on a server's own manifest.
Active(states, o) ==
    TenantOf[o] \in DOMAIN states /\ states[TenantOf[o]] = "active"

Pending(o) == \E w \in row[o] : w.state = "pending"

Init ==
    /\ control = [revision |-> 0, states |-> NoManifest]
    /\ logged = {}
    /\ row = [o \in Origins |-> {}]
    /\ delivered = {} /\ rejected = {}
    /\ server = [s \in Relays |-> Down]
    /\ pc = [s \in Relays |-> "off"]
    /\ gaps = [s \in Relays |-> {}]
    /\ work = [s \in Relays |-> {}]
    /\ ledger = {} /\ faults = 0

-----------------------------------------------------------------------------
(* Boot: New applies the deployed manifest before the server serves.       *)

\* Config.Validate: an empty manifest boots only in drain mode, and drain
\* mode only with an empty manifest; so the flag is the manifest's emptiness.
ValidConfig(revision, states, drain) ==
    revision > 0 /\ (drain <=> DOMAIN states = {})

Unbound(states) == {o \in Origins : Pending(o) /\ TenantOf[o] \notin DOMAIN states}

\* Mutant of ApplyBindings: a tenant with a backlog may be dropped.
ApplyUnchecked(revision, states) ==
    /\ revision >= control.revision
    /\ revision = control.revision => states = control.states
    /\ control' = [revision |-> revision, states |-> states]

ApplyBindings(revision, states) ==
    /\ revision >= control.revision
    /\ revision = control.revision => states = control.states
    /\ Unbound(states) = {}
    /\ control' = [revision |-> revision, states |-> states]

Boot(s, revision, states) ==
    /\ ~server[s].up
    /\ \E drain \in BOOLEAN : ValidConfig(revision, states, drain)
    /\ ApplyBindings(revision, states)
    /\ server' = [server EXCEPT ![s] = [up |-> TRUE, revision |-> revision, states |-> states]]
    /\ pc' = [pc EXCEPT ![s] = "reconcile"]
    /\ UNCHANGED <<logged, row, delivered, rejected, gaps, work, ledger, faults>>

\* AuditGovernanceCanDisable.
CanDisable == DOMAIN control.states = {} /\ \A o \in Origins : ~Pending(o)

\* With the relay disabled a server starts only when nothing is bound and
\* nothing is pending; it then runs no loop and captures nothing.
BootDisabled(s) ==
    /\ ~server[s].up
    /\ CanDisable
    /\ server' = [server EXCEPT ![s].up = TRUE]
    /\ UNCHANGED <<store, pc, gaps, work, ledger, faults>>

Fault == faults < MaxFaults /\ faults' = faults + 1

\* Close after the loop returned, or a crash, which forgets what the workers
\* were doing.
Stop(s) ==
    /\ server[s].up /\ Fault
    /\ server' = [server EXCEPT ![s] = Down]
    /\ pc' = [pc EXCEPT ![s] = "off"]
    /\ gaps' = [gaps EXCEPT ![s] = {}]
    /\ work' = [work EXCEPT ![s] = {}]
    /\ UNCHANGED <<store, ledger>>

-----------------------------------------------------------------------------
(* Capture: the origin and its outbox row are inserted in one transaction. *)

NewRow(id) ==
    [id |-> id, state |-> "pending", token |-> NoToken,
     live |-> FALSE, due |-> TRUE, anchored |-> FALSE, over |-> FALSE, old |-> FALSE]

\* Mutant of InsertGovernance: the tombstones are not looked at.
InsertBlind(o, id) ==
    row' = IF row[o] = {} THEN [row EXCEPT ![o] = {NewRow(id)}] ELSE row

\* insertAuditGovernanceResult: no row for an origin with a tombstone, and
\* ON CONFLICT (origin_kind, origin_id) DO NOTHING.
InsertGovernance(o, id) ==
    row' = IF o \in delivered \cup rejected \/ row[o] # {} THEN row
           ELSE [row EXCEPT ![o] = {NewRow(id)}]

\* Mutant of CapturedID: the second is the process clock's.
ClockID(o) == DeterministicFactID(o, "clock")

\* The transaction reads back the created_at it stored with the origin.
CapturedID(o) == DeterministicFactID(o, "stored")

\* RecordAuditWithGovernance and InsertEventWithGovernance: the origin and,
\* when the stored binding is active, its outbox row.
CaptureTx(o) ==
    /\ logged' = logged \cup {o}
    /\ IF Active(control.states, o) THEN InsertGovernance(o, CapturedID(o)) ELSE UNCHANGED row

\* RecordAudit and InsertEvent of the wrapped repository.
Capture(s, o) ==
    /\ server[s].up /\ o \notin logged
    /\ IF Active(server[s].states, o) THEN CaptureTx(o)
       ELSE logged' = logged \cup {o} /\ UNCHANGED row
    /\ UNCHANGED <<control, delivered, rejected, server, pc, gaps, work, ledger, faults>>

-----------------------------------------------------------------------------
(* Reconcile: list the origins without a row, then enqueue them one by one. *)

\* ListAuditGovernanceGaps.
Gap(s, o) ==
    /\ o \in logged /\ Active(server[s].states, o)
    /\ row[o] = {} /\ o \notin delivered \cup rejected

ListGaps(s) ==
    /\ pc[s] = "reconcile"
    /\ gaps' = [gaps EXCEPT ![s] = {o \in Origins : Gap(s, o)}]
    /\ pc' = [pc EXCEPT ![s] = "enqueue"]
    /\ UNCHANGED <<store, server, work, ledger, faults>>

\* factFromGap redacts the stored origin; it computes the id from what is
\* stored, like the capture.
FactFromGap(o) == DeterministicFactID(o, "stored")

\* EnqueueAuditGovernance checks the stored binding, not the server's.  A
\* store error drops the rest of the list until the next cycle.
Enqueue(s, o) ==
    /\ pc[s] = "enqueue" /\ o \in gaps[s]
    /\ IF Active(control.states, o) THEN InsertGovernance(o, FactFromGap(o)) ELSE UNCHANGED row
    /\ gaps' = [gaps EXCEPT ![s] = @ \ {o}]
    /\ UNCHANGED <<control, logged, delivered, rejected, server, pc, work, ledger, faults>>

EndReconcile(s) ==
    /\ pc[s] = "enqueue"
    /\ IF gaps[s] = {} THEN UNCHANGED faults ELSE Fault
    /\ gaps' = [gaps EXCEPT ![s] = {}]
    /\ pc' = [pc EXCEPT ![s] = "claim"]
    /\ UNCHANGED <<store, server, work, ledger>>

-----------------------------------------------------------------------------
(* Delivery: claim a batch under one token, a worker per fact.             *)

Claimable(s, o) ==
    /\ \E w \in row[o] : w.state = "pending" /\ w.due /\ ~w.live
    /\ TenantOf[o] \in DOMAIN control.states
    /\ control.revision = server[s].revision

InFlight == UNION {work[s] : s \in Relays}
HeldTokens == {w.token : w \in UNION {row[o] : o \in Origins}} \cup {f.token : f \in InFlight}

\* Mutant of Claimed: every claim starts the cumulative window afresh.
ClaimedAfresh(w, t) ==
    [w EXCEPT !.token = t, !.live = TRUE, !.anchored = TRUE, !.over = FALSE]

Claimed(w, t) == [w EXCEPT !.token = t, !.live = TRUE, !.anchored = TRUE]

\* The fact a worker carries is the claimed row as RETURNING read it.
FactsOf(o, t) == {[origin |-> o, id |-> w.id, token |-> t, answer |-> "none"] : w \in row[o]}

\* ClaimAuditGovernance: the oldest Batch rows; which are the oldest is open.
Claim(s, S) ==
    LET t == CHOOSE t \in Tokens : t \notin HeldTokens IN
    /\ pc[s] = "claim"
    /\ S \subseteq {o \in Origins : Claimable(s, o)} /\ Cardinality(S) <= Batch
    /\ S = {} => \A o \in Origins : ~Claimable(s, o)
    /\ row' = [o \in Origins |-> IF o \in S THEN {Claimed(w, t) : w \in row[o]} ELSE row[o]]
    /\ work' = [work EXCEPT ![s] = UNION {FactsOf(o, t) : o \in S}]
    /\ pc' = [pc EXCEPT ![s] = "deliver"]
    /\ UNCHANGED <<control, logged, delivered, rejected, server, gaps, ledger, faults>>

Answered(s, f, a) == work' = [work EXCEPT ![s] = (@ \ {f}) \cup {[f EXCEPT !.answer = a]}]

\* Mutant of validateReceipt: any 202 completes the fact.
AnyReceipt(receipt) == IF receipt = "none" THEN "transport" ELSE "nil"

\* A matching ledgered receipt; a matching one that reports a conflict; one
\* that does not match or parse; anything else: no token, no answer, another
\* status, a body that breaks off.
validateReceipt(receipt) ==
    CASE receipt = "ledgered" -> "nil"
      [] receipt = "conflict" -> "ErrReceiptConflict"
      [] receipt = "mismatch" -> "ErrInvalidReceipt"
      [] receipt = "none" -> "transport"

isPermanent(err) == err \in {"ErrReceiptConflict", "ErrInvalidReceipt"}

\* The service ledgers an id once and answers a repeated POST like the first.
\* It reports a conflict only for an id it has not ledgered.
Publish(s, f, receipt, takes) ==
    /\ f \in work[s] /\ f.answer = "none"
    /\ receipt = "ledgered" => takes
    /\ receipt = "conflict" => ~takes /\ f.id \notin ledger
    /\ ledger' = IF takes THEN ledger \cup {f.id} ELSE ledger
    /\ Answered(s, f, validateReceipt(receipt))
    /\ UNCHANGED <<store, server, pc, gaps, faults>>

\* requireGovernanceClaim: the write touches the row only under its token and
\* a live lease; otherwise nothing changes and the worker only logs.
Held(f, w) == w.state = "pending" /\ w.token = f.token /\ w.live

Fenced(f, W(_)) == {IF Held(f, w) THEN W(w) ELSE w : w \in row[f.origin]}

Ended(w, st) == [w EXCEPT !.state = st, !.token = NoToken, !.live = FALSE]
Completed(w) == Ended(w, "delivered")
Failed(w) == Ended(w, "failed")
Retried(w) == [w EXCEPT !.token = NoToken, !.live = FALSE, !.due = FALSE]

WorkerDone(s, f) ==
    /\ work' = [work EXCEPT ![s] = @ \ {f}]
    /\ UNCHANGED <<control, logged, delivered, server, pc, gaps, ledger>>

Complete(s, f) ==
    /\ f \in work[s] /\ f.answer = "nil" /\ UNCHANGED faults
    /\ row' = [row EXCEPT ![f.origin] = Fenced(f, Completed)]
    /\ UNCHANGED rejected
    /\ WorkerDone(s, f)

\* RejectAuditGovernance: the failed row and the tombstone in one transaction.
Reject(s, f) ==
    /\ f \in work[s] /\ isPermanent(f.answer) /\ UNCHANGED faults
    /\ row' = [row EXCEPT ![f.origin] = Fenced(f, Failed)]
    /\ rejected' = IF \E w \in row[f.origin] : Held(f, w)
                   THEN rejected \cup {f.origin} ELSE rejected
    /\ WorkerDone(s, f)

cumulativeWindowExceeded(w) == w.anchored /\ w.over

\* retryFact: past the cumulative window the fact fails without a tombstone.
Retry(s, f) ==
    /\ f \in work[s] /\ f.answer = "transport" /\ UNCHANGED faults
    /\ row' = [row EXCEPT ![f.origin] =
                 Fenced(f, LAMBDA w : IF cumulativeWindowExceeded(w) THEN Failed(w) ELSE Retried(w))]
    /\ UNCHANGED rejected
    /\ WorkerDone(s, f)

\* The write itself can fail: the lease is left to run out.
WriteLost(s, f) ==
    /\ f \in work[s] /\ f.answer # "none" /\ Fault
    /\ UNCHANGED <<row, rejected>>
    /\ WorkerDone(s, f)

EndDeliver(s) ==
    /\ pc[s] = "deliver" /\ work[s] = {}
    /\ pc' = [pc EXCEPT ![s] = "prune"]
    /\ UNCHANGED <<store, server, gaps, work, ledger, faults>>

-----------------------------------------------------------------------------
(* Pruning: a delivered row leaves a tombstone, a failed one does not.      *)

Prunable(st) == {o \in Origins : \E w \in row[o] : w.state = st /\ w.old}

Oldest(S, all) == S \subseteq all /\ Cardinality(S) <= Batch /\ (S = {} => all = {})

Marked(S) == delivered' = delivered \cup S

CleanupDelivered(s, S) ==
    /\ pc[s] = "prune" /\ Oldest(S, Prunable("delivered"))
    /\ Marked(S)
    /\ row' = [o \in Origins |-> IF o \in S THEN {} ELSE row[o]]
    /\ pc' = [pc EXCEPT ![s] = "prune failed"]
    /\ UNCHANGED <<control, logged, rejected, server, gaps, work, ledger, faults>>

CleanupFailed(s, S) ==
    /\ pc[s] = "prune failed" /\ Oldest(S, Prunable("failed"))
    /\ row' = [o \in Origins |-> IF o \in S THEN {} ELSE row[o]]
    /\ pc' = [pc EXCEPT ![s] = "reconcile"]
    /\ UNCHANGED <<control, logged, delivered, rejected, server, gaps, work, ledger, faults>>

\* The next cleanup is not due yet; or the store failed on the way.
SkipCleanup(s) ==
    /\ \/ pc[s] = "prune" /\ UNCHANGED faults
       \/ pc[s] = "prune failed" /\ Fault
    /\ pc' = [pc EXCEPT ![s] = "reconcile"]
    /\ UNCHANGED <<store, server, gaps, work, ledger>>

-----------------------------------------------------------------------------
(* Time passes.                                                             *)

Aged(o, w, v) ==
    /\ row' = [row EXCEPT ![o] = {v}]
    /\ v # w
    /\ UNCHANGED <<control, logged, delivered, rejected, server, pc, gaps, work, ledger>>

\* ClaimTTL exceeds twice the HTTP timeout, so a lease that runs out under its
\* worker is a fault; one whose worker is gone just runs out.
Working(w) == \E f \in InFlight : f.token = w.token

LeaseExpires(o) ==
    \E w \in row[o] :
        /\ Aged(o, w, [w EXCEPT !.live = FALSE])
        /\ IF Working(w) THEN Fault ELSE UNCHANGED faults

Passes(o) ==
    /\ \/ \E w \in row[o] : Aged(o, w, [w EXCEPT !.due = TRUE])
       \/ \E w \in row[o] : w.anchored /\ Aged(o, w, [w EXCEPT !.over = TRUE])
       \/ \E w \in row[o] : w.state # "pending" /\ Aged(o, w, [w EXCEPT !.old = TRUE])
    /\ UNCHANGED faults

Receipts == {"ledgered", "conflict", "mismatch", "none"}

Deliver(s) ==
    \E f \in work[s] :
        \/ \E receipt \in Receipts, takes \in BOOLEAN : Publish(s, f, receipt, takes)
        \/ Complete(s, f) \/ Reject(s, f) \/ Retry(s, f) \/ WriteLost(s, f)

Loop(s) ==
    \/ ListGaps(s) \/ (\E o \in Origins : Enqueue(s, o)) \/ EndReconcile(s)
    \/ \E S \in SUBSET Origins : Claim(s, S)
    \/ EndDeliver(s)
    \/ \E S \in SUBSET Origins : CleanupDelivered(s, S) \/ CleanupFailed(s, S)
    \/ SkipCleanup(s)

Next ==
    \/ \E s \in Relays :
          \/ \E revision \in 1..MaxRevision, m \in Manifests : Boot(s, revision, m)
          \/ BootDisabled(s) \/ Stop(s)
          \/ \E o \in Origins : Capture(s, o)
          \/ Loop(s) \/ Deliver(s)
    \/ \E o \in Origins : LeaseExpires(o) \/ Passes(o)

\* A configured server builds the relay before it serves; the supervisor restarts
\* a stopped server with what is deployed.
Restart(s) == control.revision > 0 /\ Boot(s, control.revision, control.states)

-----------------------------------------------------------------------------
\* Well-formed state: a live lease is a pending row's, a worker holds a token.
TypeOK ==
    /\ control.revision \in 0..MaxRevision
    /\ logged \subseteq Origins
    /\ delivered \subseteq logged /\ rejected \subseteq logged
    /\ \A o \in Origins :
          /\ Cardinality(row[o]) <= 1
          /\ \A w \in row[o] : w.live => w.state = "pending" /\ w.token \in Tokens
    /\ \A s \in Relays : \A f \in work[s] : pc[s] = "deliver" /\ f.token \in Tokens

\* Every pending row belongs to a bound tenant, whatever order captures,
\* reconciles and manifest changes come in: applying a manifest refuses to
\* drop a tenant with a backlog (unboundGovernanceBacklog), so no fact is left
\* that no server can claim.
NoOrphanBacklog == \A o \in Origins : Pending(o) => TenantOf[o] \in DOMAIN control.states

\* A settled origin is never relayed again: an origin with a delivered or a
\* rejected tombstone has no pending row, although a reconcile may have listed
\* it as a gap before it was settled and pruned.
NoResurrection == \A o \in delivered \cup rejected : ~Pending(o)

\* A row that reads delivered, and a delivered tombstone, stand for a fact the
\* service has ledgered.
DeliveredLedgered ==
    \A o \in Origins :
        (o \in delivered \/ \E w \in row[o] : w.state = "delivered")
            => \E id \in ledger : id[1] = o

\* The service ledgers one event per origin: captured, reconciled after a
\* prune or posted twice, the fact carries one id.
LedgeredOnce == \A i, j \in ledger : i[1] = j[1] => i = j

\* The cumulative window of a row runs from its first claim: no later claim,
\* retry or lost lease moves it.
WindowKept ==
    \A o \in Origins : \A w \in row[o], v \in row'[o] : w.over => v.over

\* A logged origin of an actively bound tenant that is neither ledgered nor
\* rejected: what capture missed and what failed in the window is to be
\* reconciled and posted again.
Unsettled(o) ==
    /\ o \in logged /\ Active(control.states, o)
    /\ o \notin delivered \cup rejected
    /\ \A w \in row[o] : w.state # "delivered"
=============================================================================
