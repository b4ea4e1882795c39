----------------------------- MODULE MCDelivery -----------------------------
(***************************************************************************)
(* The loops that must get their work done, for TLC: the maintenance       *)
(* singleton, the audit-governance relay, the billing outbox, the webhook  *)
(* dispatchers and, on instances small enough for liveness, the event      *)
(* outbox and the object workers.  They share no state, so each behaviour  *)
(* is one of a single component, the subject; the variables of the others  *)
(* keep their initial values.  What the runs check of the first four is    *)
(* stated, and proved, in DeliveryProofs.                                  *)
(***************************************************************************)
EXTENDS DeliveryProofs, TLC

CONSTANTS r1, r2, r3

VARIABLES subject,
    events, fidelity, inserted, tokens, delivery, rules, bound, received,
    kind, put, rows, blob, replica, chan, job, local

\* The first replica's clock is one tick ahead.
MCOff == (r1 :> 1) @@ (r2 :> 0) @@ (r3 :> 0)

\* Both tenants bound; the first draining; the first gone.
MCManifests ==
    {[t1 |-> "active", t2 |-> "active"], [t1 |-> "draining", t2 |-> "active"], [t2 |-> "active"]}
MCTenantOf == [o \in Origins |-> "t1"]
MCDelta == [o \in Operations |-> [bytes |-> 1, objects |-> 0]]

governanceVars == <<control, logged, row, delivered, rejected, server, pc, gaps, work, ledger>>
usageVars == <<gauge, applied, outbox, claims, refused, metered, degraded>>
billingVars == <<usageVars, mishaps>>
eventVars == <<events, fidelity, inserted, tokens, delivery, rules, bound, received>>
workerVars == <<kind, put, rows, blob, replica, chan, job, local>>
webhookVars == <<inbox, failures, retry, unbound, landed, tries, slips>>
singletonVars == <<holder, left, at, elapsed>>
relayVars == <<governanceVars, faults>>
outboxVars == <<eventVars, mishaps>>
objectVars == <<workerVars, mishaps>>
allVars == <<subject, faults, singletonVars, governanceVars, billingVars, eventVars, workerVars, webhookVars>>

E == INSTANCE EventOutbox WITH
        Relays <- {r1}, Hosts <- {"h"}, HostOf <- (r1 :> "h"), Targets <- {"t"}, MaxDeletes <- 1,
        BatchSize <- 1, ClaimTTL <- 1, MaxBackoff <- 1, MaxFaults <- 2,
        outbox <- events, work <- delivery, faults <- mishaps
W == INSTANCE ObjectWorkers WITH
        Versioned <- TRUE, Kinds <- {"clean", "infected", "ssec"}, MaxPuts <- 1, SubBuffer <- 1, MaxFaults <- 3,
        faults <- mishaps

DeliveryInit ==
    /\ subject \in {"singleton", "governance", "billing", "events", "objects", "webhook"}
    /\ Init /\ G!Init /\ B!Init /\ E!Init /\ W!Init /\ H!Init
    /\ subject # "webhook" => inbox = [d \in Dispatchers |-> 1]

DeliveryNext ==
    /\ UNCHANGED subject
    /\ \/ /\ subject = "singleton" /\ Next
          /\ UNCHANGED <<governanceVars, billingVars, eventVars, workerVars, webhookVars>>
       \/ /\ subject = "governance" /\ G!Next
          /\ UNCHANGED <<singletonVars, billingVars, eventVars, workerVars, webhookVars>>
       \/ /\ subject = "billing" /\ B!Next
          /\ UNCHANGED <<faults, singletonVars, governanceVars, eventVars, workerVars, webhookVars>>
       \/ /\ subject = "events" /\ E!Next
          /\ UNCHANGED <<faults, singletonVars, governanceVars, usageVars, workerVars, webhookVars>>
       \/ /\ subject = "objects" /\ W!Next
          /\ UNCHANGED <<faults, singletonVars, governanceVars, usageVars, eventVars, webhookVars>>
       \/ /\ subject = "webhook" /\ H!Next
          /\ UNCHANGED <<faults, singletonVars, governanceVars, billingVars, eventVars, workerVars>>

\* The subject's loops and time steps happen; see the components for why.
DeliveryFairness ==
    /\ WF_vars(subject = "singleton" /\ Tick)
    /\ \A r \in Replicas :
          WF_vars(subject = "singleton" /\ Guard(r)) /\ WF_vars(subject = "singleton" /\ EndSweep(r))
    /\ \A s \in Relays :
          /\ WF_relayVars(subject = "governance" /\ G!Loop(s))
          /\ WF_relayVars(subject = "governance" /\ G!Deliver(s))
          /\ WF_relayVars(subject = "governance" /\ G!Restart(s))
          /\ \A o \in Origins : WF_relayVars(subject = "governance" /\ G!Enqueue(s, o))
    /\ \A o \in Origins :
          /\ WF_relayVars(subject = "governance" /\ G!LeaseExpires(o))
          /\ WF_relayVars(subject = "governance" /\ G!Passes(o))
    /\ SF_relayVars(subject = "governance" /\ \E s \in Relays, S \in SUBSET Origins : G!CleanupDelivered(s, S))
    /\ SF_relayVars(subject = "governance" /\ \E s \in Relays : \E f \in work[s] : G!Publish(s, f, "ledgered", TRUE))
    /\ \A s \in Servers :
          WF_billingVars(subject = "billing" /\ B!Loop(s)) /\ WF_billingVars(subject = "billing" /\ B!Deliver(s))
    /\ WF_billingVars(subject = "billing" /\ \E f \in DOMAIN outbox : B!ClaimExpires(f))
    /\ WF_billingVars(subject = "billing" /\ \E f \in DOMAIN outbox : B!ComesDue(f))
    /\ WF_outboxVars(subject = "events" /\ E!Tick)
    /\ WF_outboxVars(subject = "events" /\ E!ClaimEventOutbox(r1))
    /\ \A id \in E!Ids : WF_outboxVars(subject = "events" /\ (E!Deliver(r1, id) \/ E!Persist(r1, id)))
    /\ \A t \in W!Types : WF_objectVars(subject = "objects" /\ W!Bridge(t))
    /\ \A id \in W!Ids :
          /\ WF_objectVars(subject = "objects" /\ W!sweepObject(id))
          /\ \A t \in W!Types : WF_objectVars(subject = "objects" /\ W!Handler(t, id))
    /\ \A d \in Dispatchers :
          /\ WF_webhookVars(subject = "webhook" /\ H!RetryLoop(d))
          /\ WF_webhookVars(subject = "webhook" /\ (H!retryOne(d) \/ H!Settle(d)))
    /\ \A id \in 1..2 : WF_webhookVars(subject = "webhook" /\ H!Elapses(id))

DeliverySpec == DeliveryInit /\ [][DeliveryNext]_allVars /\ DeliveryFairness
-----------------------------------------------------------------------------
\* Every component's state is well formed.
TypesOK == TypeOK /\ G!TypeOK /\ B!TypeOK /\ E!TypeOK /\ W!TypeOK /\ H!TypeOK

\* What a component still owes: a tick without a sweep; a logged origin of an
\* active tenant that is neither ledgered nor rejected; usage that is neither
\* delivered nor failed, or a server degraded by it; an event that is neither
\* delivered nor failed; a live upload the secondary backend lacks; a webhook
\* row with attempts left.
Owed ==
    \/ subject = "singleton" /\ \A r \in Replicas : at[r] # "sweep"
    \/ subject = "governance" /\ \E o \in Origins : G!Unsettled(o)
    \/ subject = "billing" /\ (B!Backlog # {} \/ \E s \in Servers : degraded[s])
    \/ subject = "events" /\ \E id \in E!Ids : events[id].status \in {"pending", "inflight"}
    \/ subject = "objects" /\ \E id \in W!Ids : W!Unreplicated(id)
    \/ subject = "webhook" /\ H!Unsettled

\* Through crashes, lost writes, dropped events and lost leases each loop gets
\* its work done: what is owed does not stay owed.
WorkGetsDone == []<>~Owed
=============================================================================
