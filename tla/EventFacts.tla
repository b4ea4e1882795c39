----------------------------- MODULE EventFacts -----------------------------
(***************************************************************************)
(* The facts and events of internal/events as data: the two outbox facts a *)
(* delete builds (payload.go) and the checks the relay makes of a claimed  *)
(* row (event_authority.go), the identity of a persisted event across the  *)
(* transport and the webhook envelope, the bucket notification rules       *)
(* (notifier.go), the verdicts of the audit sink, and the retry delays.    *)
(*                                                                         *)
(* A JSON payload is the record it encodes, or Garbage.                    *)
(***************************************************************************)
EXTENDS Integers, Sequences, SequencesExt, FiniteSets

Garbage == [schema |-> "garbage"]
DELETED == "vault.file.deleted@1.1"
NOTIFY == "vault.file.notify@1.1"

BuildDeletedFact(obj, tenant, refs) ==
    [schema |-> "1.1", type |-> DELETED, tenant |-> tenant, bucket |-> obj.bucket, key |-> obj.key,
     objectID |-> obj.id, version |-> obj.version, size |-> obj.size, refs |-> refs]

\* The record repeats the object; the sequencer is drawn afresh.
BuildNotifyFact(obj, tenant, sequencer) ==
    [schema |-> "1.1", type |-> NOTIFY, tenant |-> tenant, bucket |-> obj.bucket, key |-> obj.key,
     version |-> obj.version, size |-> obj.size,
     records |-> <<[name |-> "s3:ObjectRemoved:Delete", principal |-> tenant, bucket |-> obj.bucket,
                    arn |-> <<"arn:aws:s3:::", obj.bucket>>, key |-> obj.key, size |-> obj.size,
                    version |-> obj.version, sequencer |-> sequencer]>>]

FactRow(id, type, obj, tenant, payload) ==
    [id |-> id, type |-> type, origin |-> obj.id, tenant |-> tenant, payload |-> payload]
deleteFactsWithRefs(obj, tenant, refs) ==
    <<FactRow(1, DELETED, obj, tenant, BuildDeletedFact(obj, tenant, refs)),
      FactRow(2, NOTIFY, obj, tenant, BuildNotifyFact(obj, tenant, "fresh"))>>
quarantineFacts(obj) == deleteFactsWithRefs(obj, obj.tenant, 0)

validateClaimedOutboxIdentity(fact) == fact.id > 0 /\ fact.origin > 0 /\ fact.tenant \notin {"", " "}
Contradicts(fact, p) == p.schema # "1.1" \/ p.type # fact.type \/ p.tenant # fact.tenant \/ p.bucket = "" \/ p.key = ""
validateAuthorityDeletedFact(fact) ==
    /\ fact.payload # Garbage
    /\ ~Contradicts(fact, fact.payload)
    /\ fact.payload.objectID > 0 /\ fact.payload.objectID = fact.origin
\* A mutant: the record's object is not compared with the payload.
RecordIdentityOnly(p, r) == r.name = "s3:ObjectRemoved:Delete" /\ r.principal = p.tenant
validateAuthorityNotifyRecord(p, r) ==
    /\ r.name = "s3:ObjectRemoved:Delete" /\ r.principal = p.tenant
    /\ r.bucket = p.bucket /\ r.arn = <<"arn:aws:s3:::", p.bucket>>
    /\ r.key = p.key /\ r.size = p.size /\ r.version = p.version /\ r.sequencer # ""
validateAuthorityNotifyFact(fact) ==
    /\ fact.payload # Garbage
    /\ ~Contradicts(fact, fact.payload)
    /\ fact.payload.records # <<>>
    /\ \A i \in DOMAIN fact.payload.records : validateAuthorityNotifyRecord(fact.payload, fact.payload.records[i])
ValidateClaimedOutboxFact(fact) ==
    /\ validateClaimedOutboxIdentity(fact)
    /\ \/ fact.type = DELETED /\ validateAuthorityDeletedFact(fact)
       \/ fact.type = NOTIFY /\ validateAuthorityNotifyFact(fact)

ValidScope(tenant, bucket) == tenant \notin {"", " ", "*"} /\ bucket \notin {"", " ", "*"}
validateOutboxDeletedFact(fact) == ValidateClaimedOutboxFact(fact) /\ ValidScope(fact.payload.tenant, fact.payload.bucket)
parseNotifyPayload(payload) == payload # Garbage /\ payload.tenant # "" /\ payload.bucket # ""
validateOutboxNotifyFact(fact) ==
    /\ ValidateClaimedOutboxFact(fact) /\ parseNotifyPayload(fact.payload)
    /\ ValidScope(fact.payload.tenant, fact.payload.bucket)
-----------------------------------------------------------------------------
(* The audit sink and the relay's verdicts *)

validateAuditSinkL2Endpoint(u) ==
    u.host # "" /\ ~u.extras /\ (u.scheme = "https" \/ (u.scheme = "http" /\ u.host = "loopback"))

\* The reply counts only when it echoes the fact's id.
DeliverDeleted(bound, reply) ==
    IF ~bound THEN "notBound"
    ELSE IF reply.status = 0 THEN "failed"
    ELSE IF reply.status \in {401, 403} THEN "unauthorized"
    ELSE IF reply.status < 200 \/ reply.status > 299 THEN "failed"
    ELSE IF ~reply.echoed THEN "failed" ELSE "nil"

deliverDeleted(fact, sink, bound, reply) ==
    IF ~validateOutboxDeletedFact(fact) THEN "retry"
    ELSE IF ~sink THEN "complete"
    ELSE CASE DeliverDeleted(bound, reply) \in {"nil", "notBound"} -> "complete"
           [] DeliverDeleted(bound, reply) = "unauthorized" -> "fail"
           [] OTHER -> "retry"
-----------------------------------------------------------------------------
(* An event's identity *)

defaultTenant(tenant) == IF tenant = "" THEN "default" ELSE tenant
InsertEvent(e, id) == [e EXCEPT !.id = id, !.tenant = defaultTenant(@)]

validateEventAuthorityInput(want) == want.id > 0 /\ want.tenant # ""
sameEventObjectID(a, b) == a = b
sameEventPayload(a, b) == a = b \/ {a, b} \subseteq {"nil", "empty"}
sameEventIdentity(got, want) ==
    /\ got.type = want.type /\ got.tenant = want.tenant /\ got.bucket = want.bucket /\ got.key = want.key
    /\ sameEventObjectID(got.object, want.object) /\ sameEventPayload(got.payload, want.payload)
\* A mutant: the first later row answers for one that is gone.
RereadGap(rows, want) ==
    validateEventAuthorityInput(want) /\ \E got \in rows : got.tenant = want.tenant /\ got.id >= want.id
Reread(rows, want) ==
    /\ validateEventAuthorityInput(want)
    /\ \E got \in rows : got.id = want.id /\ got.tenant = want.tenant /\ sameEventIdentity(got, want)

\* JSON drops an empty payload map; the creation time must have survived.
Encode(e) == [e EXCEPT !.payload = IF @ = "empty" THEN "nil" ELSE @]
decodeWebhookEventEnvelope(body) ==
    IF body = Garbage THEN [ok |-> FALSE] ELSE [ok |-> body.created, event |-> body]
decodeWebhookRetryEvent(row) ==
    LET e == decodeWebhookEventEnvelope(row.payload) IN
    e.ok /\ row.event > 0 /\ e.event.id = row.event /\ "" \notin {e.event.tenant, e.event.bucket, e.event.key, e.event.type}
-----------------------------------------------------------------------------
(* Bucket notification rules *)

s3EventName(type) ==
    CASE type = "created" -> <<"s3:ObjectCreated", "Put">> [] type = "deleted" -> <<"s3:ObjectRemoved", "Delete">> [] OTHER -> <<>>
matchEvent(pattern, name) == pattern = name \/ (Last(pattern) = "*" /\ IsPrefix(Front(pattern), name) /\ Len(name) > Len(pattern) - 1)
ruleMatches(rule, name, key) ==
    /\ \E p \in rule.events : matchEvent(p, name)
    /\ IsPrefix(rule.filter, key)
resolveTargets(rule) == SelectSeq(<<"endpoint", "sns", "sqs", "lambda">>, LAMBDA t : t \in rule.targets)

\* The bus posts to every target of every matching rule, whatever one answers.
NotifierPosts(rules, name, key) ==
    FoldLeft(LAMBDA acc, r : IF ruleMatches(r, name, key) THEN acc \o resolveTargets(r) ELSE acc, <<>>, rules)
\* The relay stops at the first target that fails.
deliverNotifyTargets(rules, key, fails) ==
    LET all == NotifierPosts(rules, s3EventName("deleted"), key)
        bad == {i \in DOMAIN all : all[i] \in fails}
    IN  IF bad = {} THEN [err |-> FALSE, posted |-> all]
        ELSE [err |-> TRUE, posted |-> SubSeq(all, 1, (CHOOSE i \in bad : \A j \in bad : i <= j))]
-----------------------------------------------------------------------------
(* Retry delays, in seconds; n is a draw in [0, d/2) *)

\* Doubles while below the limit, at most attempt - 1 times.
Doubled(base, attempt, limit) ==
    LET f[i \in 1..(attempt + 1)] == IF i = 1 THEN base ELSE IF f[i - 1] < limit THEN 2 * f[i - 1] ELSE f[i - 1]
    IN  f[IF attempt < 1 THEN 1 ELSE attempt]
AtMost(d, limit) == IF d > limit THEN limit ELSE d
AtLeast(d, limit) == IF d < limit THEN limit ELSE d
jitter(d, n) == IF d <= 0 THEN d ELSE d - d \div 4 + n \div 2
eventOutboxBackoff(attempt, n) == jitter(AtMost(Doubled(1000, attempt, 300000), 300000), n)
webhookBackoff(attempt, n) == jitter(Doubled(30, attempt, 3600), n)
billingBackoff(attempt, n) ==
    LET d == AtMost(Doubled(1000, attempt, 300000), 300000) IN d + n - d \div 4
\* A mutant: the last doubling passes the maximum.
BackoffUnclamped(attempts, initial, maximum, fraction) ==
    LET d == Doubled(initial, attempts, maximum) IN d + (d * fraction) \div 1000
boundedBackoffDelay(attempts, initial, maximum, fraction) ==
    LET f[i \in 1..(attempts + 1)] ==
            IF i = 1 THEN initial
            ELSE IF f[i - 1] >= maximum THEN f[i - 1]
            ELSE IF f[i - 1] > maximum \div 2 THEN maximum ELSE 2 * f[i - 1]
        d == f[IF attempts < 1 THEN 1 ELSE attempts]
        \* Go divides towards zero
        part == IF fraction < 0 THEN -((d * (-fraction)) \div 1000) ELSE (d * fraction) \div 1000
    IN  AtMost(AtLeast(d + part, initial \div 2), maximum)
-----------------------------------------------------------------------------
\* The facts of every delete pass the relay's checks, and a row whose payload
\* was changed in any identity field passes none: neither delivery posts it
\* (ValidateClaimedOutboxFact, validateAuthorityNotifyRecord).
FactsExact(obj, tenant, fact) ==
    LET built == Range(deleteFactsWithRefs(obj, tenant, 0))
    IN  /\ \A f \in built : IF f.type = DELETED THEN validateOutboxDeletedFact(f) ELSE validateOutboxNotifyFact(f)
        /\ fact.type = NOTIFY /\ validateOutboxNotifyFact(fact) =>
              \A i \in DOMAIN fact.payload.records :
                 LET r == fact.payload.records[i] IN
                 <<r.principal, r.bucket, r.key, r.size, r.version>> =
                 <<fact.tenant, fact.payload.bucket, fact.payload.key, fact.payload.size, fact.payload.version>>
        /\ fact.type = DELETED /\ validateOutboxDeletedFact(fact) =>
              fact.payload.tenant = fact.tenant /\ fact.payload.objectID = fact.origin

\* A persisted event is read again as itself after any way it travels - the bus,
\* the transport, the envelope of a failed post - and no other event is; only an
\* event published without a tenant is refused, although its row has one
\* (InsertEvent, Reread, decodeWebhookRetryEvent).
IdentityKept(e, rows, other) ==
    LET row == InsertEvent(e, 1)
        sent == [e EXCEPT !.id = 1]
        body == Encode(sent)
    IN  /\ Reread(rows \cup {row}, sent) = (e.tenant # "")
        /\ Reread(rows \cup {row}, body) = (e.tenant # "")
        /\ decodeWebhookRetryEvent([event |-> 1, payload |-> body]) = (e.tenant # "" /\ e.created)
        /\ Reread({row}, other) =>
              other.id = 1 /\ <<other.type, other.tenant, other.bucket, other.key, other.object>> =
                              <<row.type, row.tenant, row.bucket, row.key, row.object>>

\* A delete announced by the relay reaches the targets the bus would have
\* reached; a failing target keeps the relay's fact, and with it every later
\* target, in the queue (ruleMatches, deliverNotifyTargets).
SameTargets(rules, key, fails) ==
    LET relay == deliverNotifyTargets(rules, key, fails)
        bus == NotifierPosts(rules, s3EventName("deleted"), key)
    IN  /\ ~relay.err => relay.posted = bus
        /\ relay.err <=> Range(bus) \cap fails # {}
        /\ IsPrefix(relay.posted, bus)

\* Every delay lies between its base's three quarters and its ceiling, and the
\* ceiling is the one the schedule names: only billing's may exceed it, by a
\* quarter, and the webhook's by its last doubling.
BackoffsBounded(attempt, percent, initial, maximum) ==
    LET share(d) == (d * percent) \div 200
        d == AtMost(Doubled(1000, attempt, 300000), 300000)
        w == Doubled(30, attempt, 3600)
        b == boundedBackoffDelay(attempt, initial, maximum, 5 * percent - 250)
    IN  /\ eventOutboxBackoff(attempt, share(d - 1)) \in ((3 * d) \div 4)..300000
        /\ webhookBackoff(attempt, share(w - 1)) \in ((3 * w) \div 4)..3840
        /\ billingBackoff(attempt, share(d)) \in ((3 * d) \div 4)..375000
        /\ b \in (initial \div 2)..maximum
        /\ b <= boundedBackoffDelay(attempt + 1, initial, maximum, 5 * percent - 250)
=============================================================================
