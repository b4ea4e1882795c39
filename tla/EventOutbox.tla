---------------------------- MODULE EventOutbox ----------------------------
(***************************************************************************)
(* The transactional deletion outbox (internal/repository/event_outbox.go) *)
(* and the relays that drain it (internal/events/event_outbox_relay.go,    *)
(* internal/events/event_outbox_boundary.go).                              *)
(*                                                                         *)
(* Every committed delete leaves two facts: the lifecycle fact             *)
(* (deleted@1.1, for the L2 audit sink) and the notification fact          *)
(* (notify@1.1, for the bucket's notification targets).  A relay claims a  *)
(* batch under a fresh token and a lease, delivers each fact in a          *)
(* goroutine of its own and persists the outcome under the fence           *)
(* owner + token + live lease.                                             *)
(*                                                                         *)
(* Time is kept relative to the clock: a row's lease and avail are the     *)
(* ticks left until lease_expires_at_ns and available_at_ns, so "<= now"   *)
(* is "= 0" and the clock itself needs no bound.  The due rows are claimed *)
(* in any order: ORDER BY only decides which of them come first, and       *)
(* FOR UPDATE SKIP LOCKED may leave any of them out.                       *)
(***************************************************************************)
EXTENDS Integers, FiniteSets, TLC

CONSTANTS
    Relays,         \* relay processes, one per server instance
    Hosts,          \* host names; a claim's owner is "event-outbox:<host>"
    HostOf,         \* the host of each relay (two relays may share one)
    Targets,        \* notification targets of the bucket
    MaxDeletes,     \* bound: deletes that commit in a behaviour
    BatchSize,      \* EventOutboxRelayOptions.BatchSize
    ClaimTTL,       \* EventOutboxRelayOptions.ClaimTTL, in ticks
    MaxAttempts,    \* EventOutboxRelayOptions.MaxAttempts
    MaxBackoff,     \* eventOutboxMaxBackoff, in ticks
    MaxFaults       \* bound: crashes, lease overruns and lost commits

ASSUME OutboxAssumption ==
    /\ HostOf \in [Relays -> Hosts]
    /\ MaxDeletes \in Nat
    /\ BatchSize \in Nat \ {0}
    /\ ClaimTTL \in Nat \ {0}
    /\ MaxAttempts \in Nat \ {0}
    /\ MaxBackoff \in Nat \ {0}
    /\ MaxFaults \in Nat

Ids == 1 .. 2 * MaxDeletes

\* insertOutboxFacts writes the deleted fact first and the notify fact second.
IsNotify(id) == id % 2 = 0

NoOwner == "none"

VARIABLES
    outbox,      \* the event_outbox table, by row id
    fidelity,    \* the event_outbox_delivered table: row ids
    inserted,    \* rows inserted so far (the id sequence)
    tokens,      \* batches claimed so far; newClaimToken is fresh each time
    work,        \* per relay and fact: the goroutine delivering it
    rules,       \* targets the bucket's notification rules match
    bound,       \* whether the bucket is bound to a Space
    received,    \* notifications each target has received
    faults       \* mishaps so far

vars == <<outbox, fidelity, inserted, tokens, work, rules, bound, received, faults>>
dbVars == <<outbox, fidelity, inserted>>
envVars == <<rules, bound>>

Statuses == {"absent", "pending", "inflight", "delivered", "failed", "pruned"}
Phases == {"idle", "start", "rules", "admit", "post", "ok", "err", "deny"}

Row == [status : Statuses, attempts : Nat, owner : Hosts \cup {NoOwner},
        token : Nat, lease : Nat, avail : Int]
Item == [phase : Phases, attempts : Nat, token : Nat,
         matched : SUBSET Targets, todo : SUBSET Targets]

EmptyRow == [status |-> "absent", attempts |-> 0, owner |-> NoOwner,
             token |-> 0, lease |-> 0, avail |-> 0]
IdleItem == [phase |-> "idle", attempts |-> 0, token |-> 0,
             matched |-> {}, todo |-> {}]

\* The tables, the goroutines and the counters have their types.
TypeOK ==
    /\ outbox \in [Ids -> Row]
    /\ fidelity \in SUBSET Ids
    /\ inserted \in Nat
    /\ tokens \in Nat
    /\ work \in [Relays -> [Ids -> Item]]
    /\ rules \in SUBSET Targets
    /\ bound \in BOOLEAN
    /\ received \in [Ids -> SUBSET Targets]
    /\ faults \in Nat

Init ==
    /\ outbox = [id \in Ids |-> EmptyRow]
    /\ fidelity = {}
    /\ inserted = 0
    /\ tokens = 0
    /\ work = [r \in Relays |-> [id \in Ids |-> IdleItem]]
    /\ rules = Targets
    /\ bound = FALSE
    /\ received = [id \in Ids |-> {}]
    /\ faults = 0

-----------------------------------------------------------------------------
(* The UPDATEs of a row, and the goroutine's copy of it.                   *)

Claimed(row, owner, token) ==
    [status |-> "inflight", attempts |-> row.attempts + 1, owner |-> owner,
     token |-> token, lease |-> ClaimTTL, avail |-> row.avail]

Released(row, status, avail) ==
    [status |-> status, attempts |-> row.attempts, owner |-> NoOwner,
     token |-> 0, lease |-> 0, avail |-> avail]

At(item, phase) ==
    [phase |-> phase, attempts |-> item.attempts, token |-> item.token,
     matched |-> item.matched, todo |-> item.todo]

WithTodo(item, phase, matched, todo) ==
    [phase |-> phase, attempts |-> item.attempts, token |-> item.token,
     matched |-> matched, todo |-> todo]

-----------------------------------------------------------------------------
(* The producer: insertOutboxFacts inside a delete transaction.            *)

insertOutboxFacts ==
    /\ inserted + 2 \in Ids
    /\ outbox' = [id \in Ids |-> IF id \in {inserted + 1, inserted + 2}
                                 THEN Released(EmptyRow, "pending", 0)
                                 ELSE outbox[id]]
    /\ inserted' = inserted + 2
    /\ UNCHANGED <<fidelity, tokens, work, rules, bound, received, faults>>

-----------------------------------------------------------------------------
(* ClaimEventOutbox and deliverBatch.                                      *)

\* Mutant of Due: an expired claim is never taken over.
DueOnlyPending(id) == outbox[id].status = "pending" /\ outbox[id].avail <= 0

\* Mutant of Due: a failed fact is claimed again.
DueFailed(id) == \/ outbox[id].status \in {"pending", "failed"} /\ outbox[id].avail <= 0
                 \/ outbox[id].status = "inflight" /\ outbox[id].lease = 0

Due(id) == \/ outbox[id].status = "pending" /\ outbox[id].avail <= 0
           \/ outbox[id].status = "inflight" /\ outbox[id].lease = 0

\* Mutants of newClaimToken: the zero buffer of a failed rand.Read, every time;
\* the random bytes read as a signed number.
ZeroToken == 1
SignedToken == 0 - tokens - 1

newClaimToken == tokens + 1

\* deliverBatch waits for every worker of the previous batch, then claims.
ClaimEventOutbox(r) ==
    /\ \A id \in Ids : work[r][id].phase = "idle"
    /\ \E S \in SUBSET {id \in Ids : Due(id)} :
        /\ S # {}
        /\ Cardinality(S) <= BatchSize
        /\ outbox' = [id \in Ids |->
             IF id \in S THEN Claimed(outbox[id], HostOf[r], newClaimToken) ELSE outbox[id]]
        /\ work' = [work EXCEPT ![r] = [id \in Ids |->
             IF id \in S
             THEN [phase |-> "start", attempts |-> outbox[id].attempts + 1,
                   token |-> newClaimToken, matched |-> {}, todo |-> {}]
             ELSE IdleItem]]
    /\ tokens' = newClaimToken
    /\ UNCHANGED <<fidelity, inserted, rules, bound, received, faults>>

-----------------------------------------------------------------------------
(* deliverFact, one goroutine per claimed fact.                            *)

Become(r, id, item) == work' = [work EXCEPT ![r][id] = item]

Goto(r, id, phase) == Become(r, id, At(work[r][id], phase))

\* deliverDeleted.  No sink, an accepting sink and ErrSinkNotBound all lead to
\* complete; ErrSinkUnauthorized fails the fact at once; anything else retries.
deliverDeleted(r, id) ==
    /\ ~IsNotify(id)
    /\ work[r][id].phase = "start"
    /\ \E phase \in {"ok", "deny", "err"} : Goto(r, id, phase)
    /\ UNCHANGED <<dbVars, tokens, envVars, received, faults>>

\* The outcome of admitNotify: a bound bucket is refused, an unbound one goes
\* on to the given phase, and a fault of the observation is an error.
Admission(r, id, onward) ==
    \/ bound /\ Goto(r, id, "deny")
    \/ ~bound /\ Goto(r, id, onward)
    \/ Goto(r, id, "err")

\* deliverNotify up to the rule lookup.
admitNotify(r, id) ==
    /\ IsNotify(id)
    /\ work[r][id].phase = "start"
    /\ Admission(r, id, "rules")
    /\ UNCHANGED <<dbVars, tokens, envVars, received, faults>>

\* The rule lookup and the match against the key.
GetBucketNotifications(r, id) ==
    /\ work[r][id].phase = "rules"
    /\ \/ Become(r, id, WithTodo(work[r][id], IF rules = {} THEN "ok" ELSE "admit",
                                  rules, rules))
       \/ Goto(r, id, "err")
    /\ UNCHANGED <<dbVars, tokens, envVars, received, faults>>

\* deliverNotifyTargets observes the binding again before every POST.
admitTarget(r, id) ==
    /\ work[r][id].phase = "admit"
    /\ Admission(r, id, "post")
    /\ UNCHANGED <<dbVars, tokens, envVars, received, faults>>

\* postEventTo reaches target t: the worker learns of it, or times out.
PostArrives(r, id, t) ==
    /\ work[r][id].phase = "post"
    /\ t \in work[r][id].todo
    /\ received' = [received EXCEPT ![id] = received[id] \cup {t}]
    /\ \/ Become(r, id, WithTodo(work[r][id],
                                  IF work[r][id].todo = {t} THEN "ok" ELSE "admit",
                                  work[r][id].matched, work[r][id].todo \ {t}))
       \/ Goto(r, id, "err")
    /\ UNCHANGED <<dbVars, tokens, envVars, faults>>

\* Mutant of PostFails: the error of the POST is swallowed.
PostFailsSilently(r, id) ==
    /\ work[r][id].phase = "post"
    /\ Goto(r, id, "ok")
    /\ UNCHANGED <<dbVars, tokens, envVars, received, faults>>

PostFails(r, id) ==
    /\ work[r][id].phase = "post"
    /\ Goto(r, id, "err")
    /\ UNCHANGED <<dbVars, tokens, envVars, received, faults>>

-----------------------------------------------------------------------------
(* Persisting the outcome.                                                 *)

\* The fence of CompleteEventOutbox and RetryEventOutbox.
Fenced(r, id) ==
    /\ outbox[id].status = "inflight"
    /\ outbox[id].owner = HostOf[r]
    /\ outbox[id].token = work[r][id].token
    /\ outbox[id].lease > 0

Finish(r, id) == Become(r, id, IdleItem)

\* The status and the fidelity record change in one transaction.  A lost
\* claim is not retried: the goroutine just ends.
CompleteEventOutbox(r, id) ==
    /\ work[r][id].phase = "ok"
    /\ IF Fenced(r, id)
       THEN /\ outbox' = [outbox EXCEPT
                  ![id] = Released(outbox[id], "delivered", outbox[id].avail)]
            /\ fidelity' = fidelity \cup {id}
       ELSE UNCHANGED <<outbox, fidelity>>
    /\ Finish(r, id)
    /\ UNCHANGED <<inserted, tokens, envVars, received, faults>>

\* eventOutboxBackoff: 1, 2, 4, ... capped, with downward jitter of a quarter.
eventOutboxBackoff(attempt) ==
    LET base == IF 2 ^ (attempt - 1) > MaxBackoff THEN MaxBackoff ELSE 2 ^ (attempt - 1)
    IN  (3 * base) \div 4 .. base

\* Mutant of Exhausted: off by one.
ExhaustedLate(id, maxAttempts) == outbox[id].attempts > maxAttempts

Exhausted(id, maxAttempts) == outbox[id].attempts >= maxAttempts

RetryEventOutbox(r, id, delay, maxAttempts) ==
    /\ IF Fenced(r, id)
       THEN outbox' = [outbox EXCEPT ![id] =
              Released(outbox[id],
                       IF Exhausted(id, maxAttempts) THEN "failed" ELSE "pending",
                       delay)]
       ELSE UNCHANGED outbox
    /\ Finish(r, id)
    /\ UNCHANGED <<fidelity, inserted, tokens, envVars, received, faults>>

\* retry: an ordinary delivery failure, rescheduled with backoff.
retry(r, id) ==
    /\ work[r][id].phase = "err"
    /\ \E delay \in eventOutboxBackoff(work[r][id].attempts) :
           RetryEventOutbox(r, id, delay, MaxAttempts)

\* failImmediately and failNotifyPolicy: the fact's own attempt count is passed
\* as the budget, so the terminal branch is taken.
failImmediately(r, id) ==
    /\ work[r][id].phase = "deny"
    /\ RetryEventOutbox(r, id, 0, work[r][id].attempts)

\* The database call of complete or retry returns an error and nothing was
\* committed: the goroutine ends and the row waits for its lease to expire.
PersistFault(r, id) ==
    /\ work[r][id].phase \in {"ok", "err", "deny"}
    /\ faults < MaxFaults
    /\ Finish(r, id)
    /\ faults' = faults + 1
    /\ UNCHANGED <<dbVars, tokens, envVars, received>>

-----------------------------------------------------------------------------
(* PruneEventOutbox: rows whose retention has passed, in one transaction.  *)

\* Mutant of FidelityAfterPrune: the delivered table is not pruned.
FidelityKept(S) == fidelity

FidelityAfterPrune(S) == fidelity \ S

\* Mutant of PruneEventOutbox: it goes by age alone, whatever the status.
PruneByAge ==
    \E S \in SUBSET {id \in Ids : outbox[id].status \notin {"absent", "pruned"}} :
        /\ S # {}
        /\ outbox' = [id \in Ids |-> IF id \in S
                                     THEN Released(outbox[id], "pruned", 0)
                                     ELSE outbox[id]]
        /\ fidelity' = FidelityAfterPrune(S)
        /\ UNCHANGED <<inserted, tokens, work, envVars, received, faults>>

PruneEventOutbox ==
    \E S \in SUBSET {id \in Ids : outbox[id].status \in {"delivered", "failed"}} :
        /\ S # {}
        /\ outbox' = [id \in Ids |-> IF id \in S
                                     THEN Released(outbox[id], "pruned", 0)
                                     ELSE outbox[id]]
        /\ fidelity' = FidelityAfterPrune(S)
        /\ UNCHANGED <<inserted, tokens, work, envVars, received, faults>>

-----------------------------------------------------------------------------
(* The environment.                                                        *)

\* The relay's process dies and restarts with no goroutine left.
Crash(r) ==
    /\ faults < MaxFaults
    /\ \E id \in Ids : work[r][id].phase # "idle"
    /\ work' = [work EXCEPT ![r] = [id \in Ids |-> IdleItem]]
    /\ faults' = faults + 1
    /\ UNCHANGED <<dbVars, tokens, envVars, received>>

\* A lease about to run out under the goroutine that still holds it.
Overrun == \E r \in Relays, id \in Ids :
              /\ work[r][id].phase # "idle"
              /\ Fenced(r, id)
              /\ outbox[id].lease = 1

Elapse(ticks) == IF ticks > 0 THEN ticks - 1 ELSE ticks

Aged(row) ==
    [status |-> row.status, attempts |-> row.attempts, owner |-> row.owner,
     token |-> row.token, lease |-> Elapse(row.lease), avail |-> Elapse(row.avail)]

\* The clock.  An overrun is a mishap: a behaviour has at most MaxFaults.
Tick ==
    /\ IF Overrun
       THEN faults < MaxFaults /\ faults' = faults + 1
       ELSE UNCHANGED faults
    /\ outbox' = [id \in Ids |-> Aged(outbox[id])]
    /\ UNCHANGED <<fidelity, inserted, tokens, work, envVars, received>>

\* An administrator changes the bucket's rules, or a Space binds the bucket.
SetRules ==
    /\ rules' \in SUBSET Targets
    /\ UNCHANGED <<dbVars, tokens, work, bound, received, faults>>

SetBinding ==
    /\ bound' = ~bound
    /\ UNCHANGED <<dbVars, tokens, work, rules, received, faults>>

-----------------------------------------------------------------------------
Deliver(r, id) ==
    \/ deliverDeleted(r, id)
    \/ admitNotify(r, id)
    \/ GetBucketNotifications(r, id)
    \/ admitTarget(r, id)
    \/ \E t \in Targets : PostArrives(r, id, t)
    \/ PostFails(r, id)

Persist(r, id) ==
    \/ CompleteEventOutbox(r, id)
    \/ retry(r, id)
    \/ failImmediately(r, id)

Next ==
    \/ insertOutboxFacts
    \/ \E r \in Relays : ClaimEventOutbox(r) \/ Crash(r)
    \/ \E r \in Relays, id \in Ids : Deliver(r, id) \/ Persist(r, id) \/ PersistFault(r, id)
    \/ PruneEventOutbox
    \/ Tick
    \/ SetRules
    \/ SetBinding

Spec == Init /\ [][Next]_vars

\* Relays that share one host, so that only the token tells their claims
\* apart, are alike.
SameHost == [r \in Relays |-> CHOOSE h \in Hosts : TRUE]
RelaySymmetry == Permutations(Relays)

\* Run polls forever, every goroutine's calls have timeouts and the clock runs.
Fairness ==
    /\ WF_vars(Tick)
    /\ \A r \in Relays : WF_vars(ClaimEventOutbox(r))
    /\ \A r \in Relays, id \in Ids : WF_vars(Deliver(r, id) \/ Persist(r, id))

FairSpec == Spec /\ Fairness

-----------------------------------------------------------------------------
(* Properties.                                                             *)

\* At most one goroutine in the whole cluster can still persist an outcome
\* for a row, whatever expired, crashed or shares a host name: the fence of
\* CompleteEventOutbox and RetryEventOutbox never admits two.
ClaimExclusive ==
    \A id \in Ids : \A r, s \in Relays :
        /\ work[r][id].phase # "idle" /\ Fenced(r, id)
        /\ work[s][id].phase # "idle" /\ Fenced(s, id)
        => r = s

\* The event_outbox_delivered table holds exactly the delivered rows, through
\* CompleteEventOutbox and PruneEventOutbox.
FidelityAgrees == fidelity = {id \in Ids : outbox[id].status = "delivered"}

\* The attempt budget: a pending row always has an attempt left, and a row is
\* claimed more than MaxAttempts times only through mishaps, one for each.
\* (ClaimEventOutbox itself never looks at the budget.)
AttemptBudget ==
    \A id \in Ids :
        /\ outbox[id].status = "pending" => outbox[id].attempts < MaxAttempts
        /\ outbox[id].attempts <= MaxAttempts + faults

\* A delivered or failed fact is never claimed, retried or completed again, by
\* a late goroutine or anyone else: it can only be pruned, once.
TerminalAbsorbing ==
    [][\A id \in Ids :
         /\ outbox[id].status \in {"delivered", "failed"} =>
                outbox'[id].status \in {outbox[id].status, "pruned"}
         /\ outbox[id].status = "pruned" => outbox'[id].status = "pruned"]_vars

\* deliverNotify completes a notification only after every target its rule
\* lookup matched has received it.
DeliveredWasSent ==
    [][\A id \in Ids :
         outbox[id].status # "delivered" /\ outbox'[id].status = "delivered" /\ IsNotify(id)
         => \E r \in Relays : /\ work[r][id].phase = "ok"
                              /\ work[r][id].matched \subseteq received[id]]_vars

\* Every fact is eventually delivered or failed: a crash or a lost lease only
\* delays it, because ClaimEventOutbox takes expired claims over.
EventuallyTerminal ==
    \A id \in Ids : outbox[id].status \in {"pending", "inflight"}
                    ~> outbox[id].status \in {"delivered", "failed", "pruned"}

-----------------------------------------------------------------------------
(* What the outbox promises: Outbox, with claims and relays hidden.        *)

\* Whether a row is pending or claimed is nobody else's business.
StateOf(row) ==
    CASE row.status = "absent" -> "none"
      [] row.status \in {"pending", "inflight"} -> "open"
      [] row.status = "pruned" -> "gone"
      [] OTHER -> row.status

\* A goroutine that has looked the targets up and may still deliver to them.
Looked(r, id) == IsNotify(id) /\ work[r][id].phase \in {"admit", "post", "ok"}
LookupsOf(id) == {work[r][id].matched : r \in {s \in Relays : Looked(s, id)}}

Promise == INSTANCE Outbox WITH
    Facts <- Ids, Notices <- {id \in Ids : IsNotify(id)},
    Deletes <- {{2 * d - 1, 2 * d} : d \in 1 .. MaxDeletes},
    state <- [id \in Ids |-> StateOf(outbox[id])], ledger <- fidelity,
    lookups <- [id \in Ids |-> LookupsOf(id)], reached <- received

\* The table and its relays implement Outbox: through claims, lost leases,
\* retries, crashes and pruning, the facts of a delete appear together, settle
\* once, and a notification is delivered only to and only after the targets
\* of a rule lookup (insertOutboxFacts, deliverNotifyTargets,
\* CompleteEventOutbox, RetryEventOutbox, PruneEventOutbox).
KeepsPromise == Promise!Spec
=============================================================================
