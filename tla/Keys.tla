-------------------------------- MODULE Keys --------------------------------
(***************************************************************************)
(* API keys: the persistent store, the per-replica read-through cache and  *)
(* its invalidation (internal/auth/auth.go, key_cache.go,                  *)
(* internal/repository/apikeys.go, wiring in cmd/server/auth.go).          *)
(*                                                                         *)
(* One token.  Each AddKey writes a new generation of its row.  A lookup   *)
(* takes the time, consults its replica's cache, reads the store and fills *)
(* the cache in separate steps; AddKey and RevokeKey drop the local entry, *)
(* change the store and publish, also in separate steps; a published       *)
(* invalidation reaches each other replica later or never.                 *)
(***************************************************************************)
EXTENDS Naturals, FiniteSets

CONSTANTS Replicas,
          Lookups,     \* requests that present the token
          Changes,     \* admin operations on the token
          TTL,         \* lifetime of a cache entry
          KeyLife,     \* [1 .. n -> Nat]: lifetime of a generation, 0 for none
          MaxTime,
          NoKey        \* no row, no entry

VARIABLES now,
          row,      \* the api_keys row: [gen, exp] or NoKey
          gone,     \* [generation -> the time it left the store, or MaxTime + 1]
          cache,    \* [Replicas -> [gen, expires] or NoKey]
          bus,      \* replicas an invalidation is on its way to
          lookup,   \* [Lookups -> [at, on, started, got]]
          change    \* [Changes -> [kind, at, on]]

keyVars == <<now, row, gone, cache, bus, lookup, change>>

Gens == DOMAIN KeyLife

Expiry(g, t) == IF KeyLife[g] = 0 THEN 0 ELSE t + KeyLife[g]

Row(g, t) == [gen |-> g, exp |-> Expiry(g, t)]

Init ==
    /\ now = 0
    /\ row = Row(1, 0)
    /\ gone = [g \in Gens |-> MaxTime + 1]
    /\ cache = [i \in Replicas |-> NoKey]
    /\ bus = {}
    /\ lookup = [q \in Lookups |-> [at |-> "new", on |-> CHOOSE i \in Replicas : TRUE,
                                    started |-> 0, got |-> NoKey]]
    /\ \E kind \in [Changes -> {"add", "revoke"}] :
          change = [c \in Changes |-> [kind |-> kind[c], at |-> "new",
                                       on |-> CHOOSE i \in Replicas : TRUE]]

Min2(a, b) == IF a < b THEN a ELSE b

-----------------------------------------------------------------------------

(* keyCache.get: an entry past its expiry is dropped.                      *)
Fresh(i) == cache[i] # NoKey /\ now <= cache[i].expires

(* lookupStore, the cache: a hit answers at once.                          *)
Lookup(q, i) ==
    /\ lookup[q].at = "new"
    /\ IF Fresh(i)
       THEN /\ lookup' = [lookup EXCEPT ![q] = [at |-> "accepted", on |-> i, started |-> now,
                                                got |-> cache[i].key]]
            /\ UNCHANGED cache
       ELSE /\ lookup' = [lookup EXCEPT ![q] = [at |-> "store", on |-> i, started |-> now,
                                                got |-> NoKey]]
            /\ cache' = [cache EXCEPT ![i] = NoKey]
    /\ UNCHANGED <<now, row, gone, bus, change>>

(* lookupStore, GetAPIKeyByHash and the expiry check, by the time the      *)
(* lookup began; TouchAPIKey changes nothing a lookup reads.               *)
Valid(r, t) == r # NoKey /\ (r.exp = 0 \/ t <= r.exp)

GetAPIKeyByHash(q) ==
    /\ lookup[q].at = "store"
    /\ lookup' = IF Valid(row, lookup[q].started)
                 THEN [lookup EXCEPT ![q].at = "put", ![q].got = row]
                 ELSE [lookup EXCEPT ![q].at = "rejected"]
    /\ UNCHANGED <<now, row, gone, cache, bus, change>>

(* Mutants: the entry lives TTL from the time it is put; it outlives the   *)
(* key.                                                                    *)
ExpiryFromPut(r, started) ==
    IF r.exp = 0 THEN Min2(now, now + started) + TTL ELSE Min2(now + TTL, r.exp)

ExpiryPastKey(r, started) == IF r.exp = 0 THEN started + TTL ELSE started + TTL

(* keyCache.put: the entry lives TTL from the lookup's start, and never    *)
(* longer than the key.                                                    *)
EntryExpiry(r, started) ==
    IF r.exp = 0 THEN started + TTL ELSE Min2(started + TTL, r.exp)

PutCache(q) ==
    /\ lookup[q].at = "put"
    /\ cache' = [cache EXCEPT ![lookup[q].on] =
                    [key |-> lookup[q].got,
                     expires |-> EntryExpiry(lookup[q].got, lookup[q].started)]]
    /\ lookup' = [lookup EXCEPT ![q].at = "accepted"]
    /\ UNCHANGED <<now, row, gone, bus, change>>

(* keyCache.put of another token at capacity evicts any entry.             *)
Evict(i) ==
    /\ cache[i] # NoKey
    /\ cache' = [cache EXCEPT ![i] = NoKey]
    /\ UNCHANGED <<now, row, gone, bus, lookup, change>>

-----------------------------------------------------------------------------

(* AddKey, RevokeKey: the local entry goes first.                          *)
DropLocal(c, i) ==
    /\ change[c].at = "new"
    /\ change' = [change EXCEPT ![c].at = "store", ![c].on = i]
    /\ cache' = [cache EXCEPT ![i] = NoKey]
    /\ UNCHANGED <<now, row, gone, bus, lookup>>

(* PutAPIKey, DeleteAPIKeyByHash.                                          *)
LastGen == Cardinality({g \in Gens : gone[g] <= MaxTime})
           + (IF row = NoKey THEN 0 ELSE 1)

Left == IF row = NoKey THEN gone ELSE [gone EXCEPT ![row.gen] = now]

ChangeStore(c) ==
    /\ change[c].at = "store"
    /\ IF change[c].kind = "add"
       THEN LastGen + 1 \in Gens /\ row' = Row(LastGen + 1, now)
       ELSE row' = NoKey
    /\ gone' = Left
    /\ change' = [change EXCEPT ![c].at = "publish"]
    /\ UNCHANGED <<now, cache, bus, lookup>>

(* The store refuses the change: it is reported and nothing is published.  *)
ChangeFails(c) ==
    /\ change[c].at = "store"
    /\ change' = [change EXCEPT ![c].at = "failed"]
    /\ UNCHANGED <<now, row, gone, cache, bus, lookup>>

(* keyChangePublisher *)
Publish(c) ==
    /\ change[c].at = "publish"
    /\ bus' = bus \cup (Replicas \ {change[c].on})
    /\ change' = [change EXCEPT ![c].at = "done"]
    /\ UNCHANGED <<now, row, gone, cache, lookup>>

(* The listener's InvalidateCachedKey; or the notification is lost.        *)
InvalidateCachedKey(i) ==
    /\ i \in bus
    /\ bus' = bus \ {i}
    /\ cache' = [cache EXCEPT ![i] = NoKey]
    /\ UNCHANGED <<now, row, gone, lookup, change>>

LoseNotice(i) ==
    /\ i \in bus
    /\ bus' = bus \ {i}
    /\ UNCHANGED <<now, row, gone, cache, lookup, change>>

Tick ==
    /\ now < MaxTime
    /\ now' = now + 1
    /\ UNCHANGED <<row, gone, cache, bus, lookup, change>>

Next ==
    \/ \E q \in Lookups : (\E i \in Replicas : Lookup(q, i)) \/ GetAPIKeyByHash(q) \/ PutCache(q)
    \/ \E c \in Changes : (\E i \in Replicas : DropLocal(c, i)) \/ ChangeStore(c)
                          \/ ChangeFails(c) \/ Publish(c)
    \/ \E i \in Replicas : Evict(i) \/ InvalidateCachedKey(i) \/ LoseNotice(i)
    \/ Tick

Spec == Init /\ [][Next]_keyVars

-----------------------------------------------------------------------------

TypeOK ==
    /\ now \in 0 .. MaxTime
    /\ row = NoKey \/ row.gen \in Gens
    /\ \A i \in Replicas : cache[i] = NoKey \/ cache[i].key.gen \in Gens
    /\ \A q \in Lookups : lookup[q].at \in {"new", "store", "put", "accepted", "rejected"}
    /\ bus \subseteq Replicas

(* A lookup never accepts a key row that had left the store more than TTL  *)
(* before the lookup began, on whatever replica, with whatever             *)
(* notifications lost, and whichever lookups raced the change              *)
(* (keyCache.put counts from the time before the store was read).          *)
StaleWithinTTL ==
    \A q \in Lookups :
       lookup[q].at = "accepted" => lookup[q].started <= gone[lookup[q].got.gen] + TTL

(* A lookup never accepts a key past the key's own expiry, cached or not.  *)
ExpiredRefused ==
    \A q \in Lookups :
       lookup[q].at = "accepted" /\ lookup[q].got.exp # 0 =>
          lookup[q].started <= lookup[q].got.exp
=============================================================================
