---------------------------- MODULE Entitlement ----------------------------
(***************************************************************************)
(* The entitlement side of the billing runtime, for one bound tenant.      *)
(* Every server's projector fetches the tenant's entitlement under a lease *)
(* and stores it with the quota derived from it; every storage request     *)
(* checks the stored entitlement and quota before it writes and adds its   *)
(* usage after (preflightQuota, CheckQuota, Apply).                        *)
(*                                                                         *)
(* One dimension stands for bytes and objects, which the code treats       *)
(* alike.  The lease carries a flag for its expiry instead of a time.      *)
(***************************************************************************)
EXTENDS Integers, FiniteSets, FiniteSetsExt

CONSTANTS
    Projectors, \* the servers, as projector holders
    Requests,   \* request goroutines: each writes one unit, again and again
    Grants,     \* revision (1..n) -> [active, hard, unlimited]: what the service grants
    Nobody,     \* the holder of a lease that was never taken
    MaxUsed     \* bound: units stored

VARIABLES
    revision,    \* the service's current revision (external)
    entitlement, \* billing_entitlements: the stored revision, 0 for no row
    max,         \* tenant_quotas.max_*, 0 = unlimited
    used,        \* tenant_quotas.used_*
    lease,       \* the projector lease of the tenant
    projector,   \* each server's projectTenant: the snapshot it fetched, 0 for none
    request,     \* each request: pc and the quota row it read
    lax          \* history: units admitted by a failed lookup with no local limit

entitlementVars == <<revision, entitlement, max, used, lease, projector, request, lax>>

Init ==
    /\ revision = 1
    /\ entitlement = 0 /\ max = 0 /\ used = 0
    /\ lease = [holder |-> Nobody, live |-> FALSE]
    /\ projector = [p \in Projectors |-> 0]
    /\ request = [r \in Requests |-> [pc |-> "idle", used |-> 0, max |-> 0]]
    /\ lax = 0

-----------------------------------------------------------------------------
(* projectAll: lease, fetch, apply.                                        *)

\* The billing service publishes a new revision.
Grant ==
    /\ revision + 1 \in DOMAIN Grants
    /\ revision' = revision + 1
    /\ UNCHANGED <<entitlement, max, used, lease, projector, request, lax>>

AcquireLease(p) == ~lease.live \/ lease.holder = p

\* Client.Entitlement under the lease.  A failed fetch, a snapshot for another
\* tenant or one without both limits ends the pass with nothing stored.
Entitle(p) ==
    /\ projector[p] = 0 /\ AcquireLease(p)
    /\ lease' = [holder |-> p, live |-> TRUE]
    /\ projector' = [projector EXCEPT ![p] = revision]
    /\ UNCHANGED <<revision, entitlement, max, used, request, lax>>

localQuotaLimit(grant) == IF grant.unlimited THEN 0 ELSE grant.hard

\* Mutant of upsertBillingProjection: last writer wins.
UpsertAny(rev) == TRUE

\* ON CONFLICT ... WHERE billing_entitlements.revision < excluded.revision
upsertBillingProjection(rev) == entitlement < rev

\* The row and the quota derived from it change in one transaction.
ApplyBillingProjection(rev) ==
    IF upsertBillingProjection(rev)
    THEN entitlement' = rev /\ max' = localQuotaLimit(Grants[rev])
    ELSE UNCHANGED <<entitlement, max>>

projectTenant(p) ==
    /\ projector[p] # 0
    /\ ApplyBillingProjection(projector[p])
    /\ projector' = [projector EXCEPT ![p] = 0]
    /\ UNCHANGED <<revision, used, lease, request, lax>>

\* Nothing releases the lease, and a slow fetch can outlive it.
LeaseExpires ==
    /\ lease.live
    /\ lease' = [lease EXCEPT !.live = FALSE]
    /\ UNCHANGED <<revision, entitlement, max, used, projector, request, lax>>

-----------------------------------------------------------------------------
(* A request: preflightQuota, the write, Apply.                            *)

\* The copy of the quota row is dead once it has been judged.
Goto(r, pc) == request' = [request EXCEPT ![r] = [pc |-> pc, used |-> 0, max |-> 0]]

\* preflightQuota reads the quota row first; the rest judges that copy.
GetTenantQuota(r) ==
    /\ request[r].pc = "idle"
    /\ request' = [request EXCEPT ![r] = [pc |-> "check", used |-> used, max |-> max]]
    /\ UNCHANGED <<revision, entitlement, max, used, lease, projector, lax>>

\* Mutant of exceedsBillingLimit: the limit itself may be passed by one.
ExceedsLate(grant, u, delta) == ~grant.unlimited /\ u > grant.hard

exceedsBillingLimit(grant, u, delta) ==
    delta > 0 /\ ~grant.unlimited /\ (u > grant.hard \/ delta > grant.hard - u)

\* CheckQuota on the stored projection.  A lookup that fails degrades to the
\* local quota: it refuses nothing.
CheckQuota(u, lookupFails) ==
    \/ lookupFails
    \/ /\ entitlement # 0
       /\ Grants[entitlement].active
       /\ ~exceedsBillingLimit(Grants[entitlement], u, 1)

checkBytesQuota(q) == ~(q.max > 0 /\ q.used + 1 > q.max)

preflightQuota(r, lookupFails) ==
    /\ request[r].pc = "check"
    /\ IF CheckQuota(request[r].used, lookupFails) /\ checkBytesQuota(request[r])
       THEN /\ Goto(r, "write")
            /\ lax' = IF lookupFails /\ request[r].max = 0 THEN Min({lax + 1, MaxUsed}) ELSE lax
       ELSE Goto(r, "idle") /\ UNCHANGED lax
    /\ UNCHANGED <<revision, entitlement, max, used, lease, projector>>

\* The object is written and its usage added; a failed write adds nothing.
Add(r) ==
    /\ request[r].pc = "write"
    /\ \/ used < MaxUsed /\ used' = used + 1
       \/ UNCHANGED used
    /\ Goto(r, "idle")
    /\ UNCHANGED <<revision, entitlement, max, lease, projector, lax>>

\* A deletion: its delta is negative, so no limit applies to it.
Reclaim ==
    /\ entitlement # 0 /\ used > 0
    /\ used' = used - 1
    /\ UNCHANGED <<revision, entitlement, max, lease, projector, request, lax>>

Project == \E p \in Projectors : Entitle(p) \/ projectTenant(p)

Next ==
    \/ Grant \/ Project \/ LeaseExpires
    \/ \E r \in Requests :
          GetTenantQuota(r) \/ (\E fails \in BOOLEAN : preflightQuota(r, fails)) \/ Add(r)
    \/ Reclaim

-----------------------------------------------------------------------------
\* The stored revision is one the service published.
TypeOK ==
    /\ revision \in DOMAIN Grants
    /\ entitlement \in 0..revision
    /\ used \in 0..MaxUsed
    /\ \A r \in Requests : request[r].pc \in {"idle", "check", "write"}

\* The quota row always carries the limit of the stored entitlement: the two
\* tables change in one transaction, whichever projector wrote last.
QuotaProjected == entitlement # 0 => max = localQuotaLimit(Grants[entitlement])

\* Two projectors whose lease expired between them may apply in either order;
\* the stored revision never goes back.
RevisionForward == entitlement' >= entitlement

Limits == {Grants[g].hard : g \in {h \in 1..entitlement : ~Grants[h].unlimited}}

\* Checking and adding are separate steps, so the limit can be exceeded, but
\* by at most one unit for every request that races with another: requests
\* that read the row after the limit was reached are refused.  The units a
\* failed lookup lets through while the quota row says 0 come on top (lax);
\* ZeroStaysZero is about those.
OvershootBounded ==
    (entitlement # 0 /\ \A g \in 1..entitlement : ~Grants[g].unlimited /\ Grants[g].hard > 0)
        => used <= Max(Limits) + Cardinality(Requests) - 1 + lax

\* docs/snaplink-billing.md: a non-unlimited hard limit of zero is enforced by
\* the subscription guard before the local quota is evaluated, "so zero can
\* never accidentally become unlimited".
ZeroStaysZero ==
    (entitlement # 0 /\ \A g \in 1..entitlement : ~Grants[g].unlimited /\ Grants[g].hard = 0)
        => used = 0
=============================================================================
