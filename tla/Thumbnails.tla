----------------------------- MODULE Thumbnails -----------------------------
(***************************************************************************)
(* Thumbnail requests for one object of an unversioned bucket that is      *)
(* being overwritten: Handler.thumbnailDerive over the output cache, the   *)
(* coalescing of equal requests, and decode admission.                     *)
(*                                                                         *)
(* A row version and the blob generation written with it are one number;   *)
(* an overwrite replaces the blob before the row.  An image is the number  *)
(* of the blob it was made from.  Versions stand for the whole cache key:  *)
(* the other parts of it do not change during a run.  All requests have    *)
(* the same dimensions.  Decoding and scaling are left out: an image is    *)
(* made or the request fails.                                              *)
(***************************************************************************)
EXTENDS Naturals, FiniteSets, Sequences, SequencesExt

CONSTANTS
    Requests,
    TenantOf,           \* the tenant of a request (its share of the slots)
    Conditional,        \* the requests that send If-None-Match: 1
    MaxVersion,         \* bound: the object is overwritten up to this version
    Budget,             \* cache entries that fit maxBytes
    PerTenant,          \* THUMBNAIL_PER_TENANT_DECODE_SLOTS
    DecodeSlots,        \* maxConcurrentDecodes
    MaxPendingFlights   \* maxPendingFlights

VARIABLES
    live,     \* the version of the live row
    blob,     \* the generation of the blob under its storage key
    entries,  \* the LRU list, most recent first: [version, image, old]
    flights,  \* the registry: version -> the leader in flight
    landed,   \* the results of finished flights, by leader
    active,   \* tenantDecodeState.active
    used,     \* decodeSlots
    req       \* the requests

thumbVars == <<live, blob, entries, flights, landed, active, used, req>>

Tenants == {TenantOf[q] : q \in Requests}
None == 0
NoImage == [image |-> None, version |-> None, bound |-> FALSE, opened |-> FALSE]

Init ==
    /\ live = 1 /\ blob = 1
    /\ entries = <<>>
    /\ flights = [v \in {} |-> None] /\ landed = [q \in {} |-> NoImage]
    /\ active = [t \in Tenants |-> 0] /\ used = 0
    /\ req = [q \in Requests |->
                 [at |-> "stat", seen |-> None, leads |-> FALSE, joined |-> None,
                  stat |-> None, result |-> NoImage, etag |-> None]]

Goto(q, at) == req' = [req EXCEPT ![q].at = at]
Source == <<live, blob>>
Slots == <<active, used>>

\* A Put: the blob first, then the row.
PutBlob == blob = live /\ blob < MaxVersion /\ blob' = blob + 1 /\ UNCHANGED live
PutRow == live < blob /\ live' = blob /\ UNCHANGED blob
Overwrite == (PutBlob \/ PutRow) /\ UNCHANGED <<entries, flights, landed, Slots, req>>

-----------------------------------------------------------------------------
(* The cache.                                                              *)

EntryOf(v) == {i \in DOMAIN entries : entries[i].version = v}
Without(v) == SelectSeq(entries, LAMBDA e : e.version # v)

\* Put: the entry replaces the key's old one and comes first; over the budget,
\* expired entries go first, then those least recently used.
Put(v, image) ==
    LET new == <<[version |-> v, image |-> image, old |-> FALSE]>> \o Without(v)
        kept == IF Len(new) > Budget THEN SelectSeq(new, LAMBDA e : ~e.old) ELSE new
    IN  IF Len(kept) > Budget THEN SubSeq(kept, 1, Budget) ELSE kept

\* Entries grow old; the sweep drops those that are.
EntryExpires ==
    \E i \in DOMAIN entries :
        ~entries[i].old /\ entries' = [entries EXCEPT ![i].old = TRUE]
reclaimExpiredLocked == entries' = SelectSeq(entries, LAMBDA e : ~e.old)
SweepExpired ==
    /\ entries # <<>>
    /\ EntryExpires \/ reclaimExpiredLocked
    /\ UNCHANGED <<Source, flights, landed, Slots, req>>

-----------------------------------------------------------------------------
(* A request: stat, conditional answer, lookup, flight.                    *)

statPinned(q) ==
    /\ req[q].at = "stat"
    /\ req' = [req EXCEPT ![q].seen = live,
                          ![q].at = IF q \in Conditional /\ live = 1 THEN "revalidate" ELSE "lookup"]
    /\ UNCHANGED <<Source, entries, flights, landed, Slots>>

\* A validator that matched is confirmed against a second stat before a 304.
revalidateThumbnailSource(q) ==
    /\ req[q].at = "revalidate"
    /\ req' = [req EXCEPT ![q].seen = live, ![q].at = IF live = 1 THEN "not modified" ELSE "lookup",
                          ![q].etag = IF live = 1 THEN live ELSE None]
    /\ UNCHANGED <<Source, entries, flights, landed, Slots>>

FromEntry(i) == [NoImage EXCEPT !.image = entries[i].image]

\* lookupCached: a hit is moved to the front; an expired entry is dropped.
lookupCached(q) ==
    LET hits == EntryOf(req[q].seen) IN
    /\ req[q].at = "lookup"
    /\ IF \E i \in hits : ~entries[i].old
       THEN \E i \in hits :
              /\ req' = [req EXCEPT ![q].result = FromEntry(i), ![q].at = "respond"]
              /\ entries' = <<entries[i]>> \o Without(req[q].seen)
       ELSE entries' = Without(req[q].seen) /\ Goto(q, "begin")
    /\ UNCHANGED <<Source, flights, landed, Slots>>

\* beginFlight: join, lead, or go alone when the registry is full.
beginFlight(q) ==
    LET v == req[q].seen IN
    /\ req[q].at = "begin"
    /\ IF v \in DOMAIN flights
       THEN req' = [req EXCEPT ![q].joined = flights[v], ![q].at = "wait"] /\ UNCHANGED flights
       ELSE IF Cardinality(DOMAIN flights) >= MaxPendingFlights
       THEN Goto(q, "tenant") /\ UNCHANGED flights
       ELSE /\ req' = [req EXCEPT ![q].leads = TRUE, ![q].at = "peek"]
            /\ flights' = [w \in DOMAIN flights \cup {v} |-> IF w = v THEN q ELSE flights[w]]
    /\ UNCHANGED <<Source, entries, landed, Slots>>

\* peekContext: another leader may have stored the image since the lookup.
peekContext(q) ==
    LET hits == {i \in EntryOf(req[q].seen) : ~entries[i].old} IN
    /\ req[q].at = "peek"
    /\ IF hits = {} THEN Goto(q, "tenant")
       ELSE \E i \in hits : req' = [req EXCEPT ![q].result = FromEntry(i), ![q].at = "finish"]
    /\ UNCHANGED <<Source, entries, flights, landed, Slots>>

-----------------------------------------------------------------------------
(* Decode admission: a tenant's slot, then a global one.                   *)

\* acquireTenant: take a slot, or sleep on the tenant's current wake channel.
acquireTenant(q) ==
    LET t == TenantOf[q] IN
    /\ req[q].at = "tenant"
    /\ IF active[t] < PerTenant
       THEN active' = [active EXCEPT ![t] = @ + 1] /\ Goto(q, "slot")
       ELSE Goto(q, "asleep") /\ UNCHANGED active
    /\ UNCHANGED <<Source, entries, flights, landed, used>>

\* Mutant of Woken: a released slot wakes nobody.
WokenNone(t, r) == r

\* releaseTenant closes the wake channel: every sleeper of the tenant goes on.
Woken(t, r) ==
    [q \in Requests |-> IF r[q].at = "asleep" /\ TenantOf[q] = t
                        THEN [r[q] EXCEPT !.at = "tenant"] ELSE r[q]]

acquireDecodeSlot(q) ==
    /\ req[q].at = "slot" /\ used < DecodeSlots
    /\ used' = used + 1 /\ Goto(q, "open")
    /\ UNCHANGED <<Source, entries, flights, landed, active>>

\* Where a request that has finished generating goes on.
After(q) == IF req[q].leads THEN "finish" ELSE IF req[q].result.image = None THEN "failed" ELSE "respond"

\* release returns both slots.
Release(q, r) ==
    /\ active' = [active EXCEPT ![TenantOf[q]] = @ - 1]
    /\ req' = Woken(TenantOf[q], r)

-----------------------------------------------------------------------------
(* Generation: stat again, open the blob, decode, store.                   *)

thumbnailOpenObject(q) ==
    /\ req[q].at = "open"
    /\ req' = [req EXCEPT ![q].stat = live, ![q].at = "read"]
    /\ UNCHANGED <<Source, entries, flights, landed, Slots>>

\* Mutant of OpenThumbnailSource: the fallback read is taken for the row's.
OpenAlwaysBound(q) == [image |-> blob, version |-> req[q].stat, bound |-> TRUE, opened |-> TRUE]

\* OpenThumbnailSource: GetGenerationBound proves that the blob is the row's;
\* the fallback serves whatever is stored now, without a version.
OpenThumbnailSource(q) ==
    IF blob = req[q].stat
    THEN [image |-> blob, version |-> req[q].stat, bound |-> TRUE, opened |-> TRUE]
    ELSE [image |-> blob, version |-> None, bound |-> FALSE, opened |-> TRUE]

ReadSource(q) ==
    /\ req[q].at = "read"
    /\ req' = [req EXCEPT ![q].result = OpenThumbnailSource(q), ![q].at = "decode"]
    /\ UNCHANGED <<Source, entries, flights, landed, Slots>>

\* cacheStoreAdmissible: only the very source the key names.
cacheStoreAdmissible(q) == req[q].result.bound /\ req[q].result.version = req[q].seen

\* generateContextWithAdmission releases the slots when it returns; generateMiss
\* stores after that, unless the request was cancelled meanwhile.
Decoded(q) ==
    /\ req[q].at = "decode"
    /\ used' = used - 1
    /\ Release(q, [req EXCEPT ![q].at = "store"])
    /\ UNCHANGED <<Source, entries, flights, landed>>

generateMiss(q) ==
    /\ req[q].at = "store"
    /\ entries' = IF cacheStoreAdmissible(q) THEN Put(req[q].seen, req[q].result.image) ELSE entries
    /\ Goto(q, After(q))
    /\ UNCHANGED <<Source, flights, landed, Slots>>

\* An error or a cancelled context, at any of the places that look for one; the
\* slots held so far are given back and a leader still finishes its flight.
Fails(q) ==
    LET at == req[q].at
        r == [req EXCEPT ![q].result = NoImage, ![q].at = IF req[q].leads THEN "finish" ELSE "failed"]
    IN
    /\ at \in {"tenant", "asleep", "slot", "open", "read", "decode", "store", "wait"}
    /\ used' = IF at \in {"open", "read", "decode"} THEN used - 1 ELSE used
    /\ IF at \in {"slot", "open", "read", "decode"} THEN Release(q, r) ELSE req' = r /\ UNCHANGED active
    /\ UNCHANGED <<Source, entries, flights, landed>>

-----------------------------------------------------------------------------
(* Flights land, and requests answer.                                      *)

\* finishFlight closes the flight, then takes it out of the registry.
CloseFlight(q) ==
    /\ req[q].at = "finish"
    /\ landed' = [p \in DOMAIN landed \cup {q} |-> IF p = q THEN req[q].result ELSE landed[p]]
    /\ Goto(q, "unregister")
    /\ UNCHANGED <<Source, entries, flights, Slots>>

finishFlight(q) ==
    /\ req[q].at = "unregister"
    /\ flights' = [v \in {w \in DOMAIN flights : flights[w] # q} |-> flights[v]]
    /\ Goto(q, IF req[q].result.image = None THEN "failed" ELSE "respond")
    /\ UNCHANGED <<Source, entries, landed, Slots>>

\* A follower takes over its leader's result, error or image.
waitFlightResult(q) ==
    /\ req[q].at = "wait" /\ req[q].joined \in DOMAIN landed
    /\ LET r == landed[req[q].joined] IN
       req' = [req EXCEPT ![q].result = r, ![q].at = IF r.image = None THEN "failed" ELSE "respond"]
    /\ UNCHANGED <<Source, entries, flights, landed, Slots>>

\* Mutant of validator: the answer is labelled with what the first stat saw.
SeenValidator(q) == req[q].seen

\* The ETag names what was opened, if that is known to be one version; the
\* version of the first stat only for what came out of the cache.
validator(q) ==
    IF req[q].result.opened THEN IF req[q].result.bound THEN req[q].result.version ELSE None
    ELSE req[q].seen

Respond(q) ==
    /\ req[q].at = "respond"
    /\ req' = [req EXCEPT ![q].etag = validator(q), ![q].at = "done"]
    /\ UNCHANGED <<Source, entries, flights, landed, Slots>>

Derive(q) ==
    \/ statPinned(q) \/ revalidateThumbnailSource(q) \/ lookupCached(q) \/ beginFlight(q)
    \/ peekContext(q) \/ acquireTenant(q) \/ acquireDecodeSlot(q) \/ thumbnailOpenObject(q)
    \/ ReadSource(q) \/ Decoded(q) \/ generateMiss(q) \/ Fails(q)
    \/ CloseFlight(q) \/ finishFlight(q) \/ waitFlightResult(q) \/ Respond(q)

Next == Overwrite \/ SweepExpired \/ \E q \in Requests : Derive(q)

-----------------------------------------------------------------------------
Holding(at) == {q \in Requests : req[q].at \in at}

\* Well-formed state; every slot and every flight has its holder.
TypeOK ==
    /\ live <= blob /\ blob <= MaxVersion
    /\ Len(entries) <= Budget
    /\ used = Cardinality(Holding({"open", "read", "decode"})) /\ used <= DecodeSlots
    /\ \A t \in Tenants :
          /\ active[t] <= PerTenant
          /\ active[t] = Cardinality({q \in Holding({"slot", "open", "read", "decode"}) : TenantOf[q] = t})
    /\ \A v \in DOMAIN flights : req[flights[v]].leads /\ req[flights[v]].seen = v

\* What a response calls its version is the version its image was made from, and
\* so is what the cache keeps, although the object is overwritten between the
\* stat, the second stat and the read, and followers take over what their leader
\* opened (thumbnailDerive, storeCached, OpenThumbnailSource).
LabelsTruthful ==
    /\ \A i \in DOMAIN entries : entries[i].image = entries[i].version
    /\ \A q \in Requests : req[q].at = "done" /\ req[q].etag # None => req[q].etag = req[q].result.image

\* Nobody sleeps while its tenant has a slot free: acquireTenant registers under
\* the lock and releaseTenant wakes every sleeper.
NoMissedWakeup == \A q \in Holding({"asleep"}) : active[TenantOf[q]] = PerTenant

\* A follower's flight lands: its leader is still on the way or has left a result.
FollowersLanded ==
    \A q \in Holding({"wait"}) :
        \/ req[q].joined \in DOMAIN landed
        \/ req[req[q].joined].at \notin {"failed", "respond", "done"}
=============================================================================
