------------------------------- MODULE Rings --------------------------------
(***************************************************************************)
(* The rings a request passes on its way to a handler, from the outside    *)
(* in: bucket CORS, global CORS, authentication, tenant status, rate       *)
(* limit, recoverer, concurrency limit (internal/server/chain.go,          *)
(* internal/middleware).  One action per ring that can turn the request    *)
(* away; the semaphore is taken and given back one slot at a time.         *)
(***************************************************************************)
EXTENDS Naturals, Sequences, FiniteSets, FiniteSetsExt

CONSTANTS Flights,       \* requests
          FlightOf,      \* [Flights -> [tenant, method, origin, authOK]]
          Tenants,
          Statuses,      \* [Tenants -> "active" | "disabled" | "unknown"]
          CORSRules,     \* [Tenants -> set of origins a bucket's rules allow]
          GlobalOrigins, \* CORSConfig.AllowedOrigins
          GlobalMax,     \* slots of the semaphore
          PerTenantMax,
          Rps, Burst, IdleTTL, MaxBuckets,
          LastTick,
          NoBucket

VARIABLES tick,
          buckets,   \* [Tenants -> [tokens, last] or NoBucket]
          inflight,  \* [Tenants -> Nat]
          sem,       \* slots taken of the buffered channel
          flight,    \* [Flights -> [at, held, allow]]
          granted    \* history: per tenant, when the rate limiter let a request by

ringVars == <<tick, buckets, inflight, sem, flight, granted>>

Init ==
    /\ tick = 0
    /\ buckets = [t \in Tenants |-> NoBucket]
    /\ inflight = [t \in Tenants |-> 0]
    /\ sem = 0
    /\ flight = [q \in Flights |-> [at |-> "cors", held |-> 0, allow |-> {}]]
    /\ granted = [t \in Tenants |-> <<>>]

Goto(q, l) == flight' = [flight EXCEPT ![q].at = l]

(* reqWeight *)
reqWeight(q) == IF FlightOf[q].method \in {"GET", "HEAD", "OPTIONS"} THEN 1 ELSE 2

-----------------------------------------------------------------------------

(* The tenant ring has not run yet when the bucket CORS ring asks the      *)
(* context for a tenant: TenantFrom falls back to "default".               *)
TenantAtCORS(q) == "default"

(* BucketCORS and CORS: the origins the response names, and the preflight  *)
(* answers that end the request here.                                      *)
GlobalCORS(q) ==
    IF FlightOf[q].origin \in GlobalOrigins THEN {FlightOf[q].origin} ELSE {}

BucketCORS(q) ==
    IF FlightOf[q].origin \in CORSRules[TenantAtCORS(q)] THEN {FlightOf[q].origin} ELSE {}

CORS(q) ==
    /\ flight[q].at = "cors"
    /\ flight' = [flight EXCEPT
         ![q].at = IF FlightOf[q].method # "OPTIONS" THEN "auth"
                   ELSE IF FlightOf[q].origin = "" \/ GlobalCORS(q) # {} THEN "preflight"
                   ELSE "forbidden",
         ![q].allow = BucketCORS(q) \cup GlobalCORS(q)]
    /\ UNCHANGED <<tick, buckets, inflight, sem, granted>>

(* auth.Registry.Middleware, by its verdict on the request.                *)
Auth(q) ==
    /\ flight[q].at = "auth"
    /\ Goto(q, IF FlightOf[q].authOK THEN "tenant" ELSE "unauthorized")
    /\ UNCHANGED <<tick, buckets, inflight, sem, granted>>

(* TenantWithStatus: only a tenant known to be disabled is refused; a      *)
(* failing lookup refuses everyone.                                        *)
TenantWithStatus(q) ==
    /\ flight[q].at = "tenant"
    /\ Goto(q, IF Statuses[FlightOf[q].tenant] = "disabled" THEN "forbidden" ELSE "rate")
    /\ UNCHANGED <<tick, buckets, inflight, sem, granted>>

TenantLookupFails(q) ==
    /\ flight[q].at = "tenant"
    /\ Goto(q, "unavailable")
    /\ UNCHANGED <<tick, buckets, inflight, sem, granted>>

-----------------------------------------------------------------------------

(* Mutant: every bucket is dropped.                                        *)
EvictAll(b) == [t \in Tenants |-> IF b[t] # NoBucket /\ tick >= b[t].last THEN NoBucket ELSE b[t]]

evictIdle(b) ==
    [t \in Tenants |-> IF b[t] # NoBucket /\ tick - b[t].last > IdleTTL THEN NoBucket ELSE b[t]]

(* Mutant: a refill is not capped.                                         *)
RefillUncapped(b) == b.tokens + (tick - b.last) * Rps

Live(b) == {t \in Tenants : b[t] # NoBucket}

(* The buckets after Allow has made room for the tenant's own.             *)
WithRoom(t) ==
    IF buckets[t] # NoBucket \/ Cardinality(Live(buckets)) < MaxBuckets
    THEN buckets ELSE evictIdle(buckets)

Refill(b) ==
    LET grown == b.tokens + (tick - b.last) * Rps
    IN  IF grown > Burst THEN Burst ELSE grown

(* RateLimiter.Allow, one critical section.                                *)
Allow(q) ==
    LET t == FlightOf[q].tenant
        room == WithRoom(t)
        shed == room[t] = NoBucket /\ Cardinality(Live(room)) >= MaxBuckets
        b == IF room[t] = NoBucket THEN [tokens |-> Burst, last |-> tick] ELSE room[t]
        have == Refill(b)
        ok == ~shed /\ have >= 1
    IN  /\ flight[q].at = "rate"
        /\ buckets' = IF shed THEN room
                      ELSE [room EXCEPT ![t] = [tokens |-> IF ok THEN have - 1 ELSE have,
                                                last |-> tick]]
        /\ granted' = IF ok THEN [granted EXCEPT ![t] = Append(@, tick)] ELSE granted
        /\ Goto(q, IF ok THEN "slots" ELSE "limited")
        /\ UNCHANGED <<tick, inflight, sem>>

(* The sweeper of RateLimiter.Start.                                       *)
Sweep ==
    /\ evictIdle(buckets) # buckets
    /\ buckets' = evictIdle(buckets)
    /\ UNCHANGED <<tick, inflight, sem, flight, granted>>

-----------------------------------------------------------------------------

(* acquireSlots, one slot; a full channel gives back what was taken.       *)
acquireSlot(q) ==
    /\ flight[q].at = "slots"
    /\ IF sem < GlobalMax
       THEN /\ sem' = sem + 1
            /\ flight' = [flight EXCEPT ![q].held = @ + 1,
                             ![q].at = IF flight[q].held + 1 = reqWeight(q) THEN "slotted" ELSE @]
       ELSE /\ UNCHANGED sem
            /\ Goto(q, "backoff")
    /\ UNCHANGED <<tick, buckets, inflight, granted>>

(* acquireTenant, under the mutex.                                         *)
acquireTenant(q) ==
    LET t == FlightOf[q].tenant IN
    /\ flight[q].at = "slotted"
    /\ IF inflight[t] + reqWeight(q) > PerTenantMax
       THEN UNCHANGED inflight /\ Goto(q, "backoff")
       ELSE /\ inflight' = [inflight EXCEPT ![t] = @ + reqWeight(q)]
            /\ Goto(q, "serving")
    /\ UNCHANGED <<tick, buckets, sem, granted>>

(* The handler returns or panics: either way the deferred release runs,    *)
(* inside the recoverer.                                                   *)
Serve(q) ==
    /\ flight[q].at = "serving"
    /\ \E end \in {"leaving", "panicked"} : Goto(q, end)
    /\ UNCHANGED <<tick, buckets, inflight, sem, granted>>

(* releaseSlots, one slot.                                                 *)
releaseSlot(q) ==
    /\ flight[q].at \in {"backoff", "leaving", "panicked"} /\ flight[q].held > 0
    /\ sem' = sem - 1
    /\ flight' = [flight EXCEPT ![q].held = @ - 1]
    /\ UNCHANGED <<tick, buckets, inflight, granted>>

Rejected(q) ==
    /\ flight[q].at = "backoff" /\ flight[q].held = 0
    /\ Goto(q, "busy")
    /\ UNCHANGED <<tick, buckets, inflight, sem, granted>>

(* releaseTenant; the recoverer turns a panic into a 500.                  *)
releaseTenant(q) ==
    /\ flight[q].at \in {"leaving", "panicked"} /\ flight[q].held = 0
    /\ inflight' = [inflight EXCEPT ![FlightOf[q].tenant] = @ - reqWeight(q)]
    /\ Goto(q, IF flight[q].at = "panicked" THEN "error" ELSE "done")
    /\ UNCHANGED <<tick, buckets, sem, granted>>

Tick ==
    /\ tick < LastTick
    /\ tick' = tick + 1
    /\ UNCHANGED <<buckets, inflight, sem, flight, granted>>

Step(q) ==
    \/ CORS(q) \/ Auth(q) \/ TenantWithStatus(q) \/ TenantLookupFails(q) \/ Allow(q)
    \/ acquireSlot(q) \/ acquireTenant(q) \/ Serve(q) \/ releaseSlot(q)
    \/ Rejected(q) \/ releaseTenant(q)

Next == (\E q \in Flights : Step(q)) \/ Sweep \/ Tick

Spec == Init /\ [][Next]_ringVars

-----------------------------------------------------------------------------

TypeOK ==
    /\ sem \in 0 .. GlobalMax
    /\ \A t \in Tenants : inflight[t] \in 0 .. PerTenantMax
    /\ \A t \in Tenants : buckets[t] = NoBucket \/ buckets[t].tokens \in 0 .. Burst
    /\ \A q \in Flights : flight[q].held \in 0 .. 2

(* Whatever is rejected, panics or returns, and wherever the others stand: *)
(* the channel holds exactly the slots requests still hold, and a tenant's *)
(* counter is exactly the weight of its admitted requests                  *)
(* (PerTenantConcurrencyLimiter.Middleware).                               *)
SlotsExact ==
    /\ sem = MapThenSumSet(LAMBDA q : flight[q].held, Flights)
    /\ \A t \in Tenants :
          inflight[t] = MapThenSumSet(reqWeight,
                           {q \in Flights : FlightOf[q].tenant = t
                               /\ flight[q].at \in {"serving", "leaving", "panicked"}})

(* Between any two requests of a tenant that the rate limiter lets by,     *)
(* both included, at most Burst + Rps * (the time between them) pass,      *)
(* although the sweeper and the bucket cap drop buckets and a new one      *)
(* starts full (RateLimiter.Allow, evictIdle).  The idle lifetime has to   *)
(* be long enough to refill a bucket.                                      *)
RateBounded ==
    IdleTTL * Rps >= Burst =>
       \A t \in Tenants : \A i, j \in DOMAIN granted[t] :
          i <= j => j - i + 1 <= Burst + Rps * (granted[t][j] - granted[t][i])
=============================================================================
