------------------------------ MODULE Boundary ------------------------------
(***************************************************************************)
(* The resource boundary between ordinary buckets and buckets bound to a   *)
(* space: the binding and coverage probes (internal/spaces, repository/    *)
(* sql_spaces_binding.go, sql_spaces_coverage.go), the checks of           *)
(* internal/access/resource_boundary.go and how every layer above keeps or *)
(* translates their verdict: the file service, the event layer, the        *)
(* maintenance sweeps, the administration handlers and the replies of the  *)
(* REST and S3 gateways.                                                   *)
(*                                                                         *)
(* An error is the set of the sentinels errors.Is finds in it; {} is nil   *)
(* and errors.Join is union.  A database row has "null" for NULL.          *)
(*                                                                         *)
(* Then the rows that are checked before they are acted on: the job an     *)
(* administrator retries (api/rest/admin_resource_boundary.go), the usage  *)
(* rows of an object's lineage (api/rest/lineage_boundary.go), the rows    *)
(* and versions a maintenance sweep deletes (internal/reconcile/scope.go), *)
(* and what an agent's tools observed (internal/ai/agent_resource.go).  A  *)
(* world w has objects (a set of rows, at most one per id), chunks, events *)
(* and bound (tenant-bucket pairs of spaces).  A verdict is "ok",          *)
(* "missing", "refused", "fault" or "changed".                             *)
(***************************************************************************)
EXTENDS Naturals, Sequences, SequencesExt, FiniteSets

Nil == {}
Join(a, b) == a \cup b
Null == "null"

ValidateIdentifier(value) == value \notin {"", " ", Null}
ValidateTenant(tenant) == tenant # "*" /\ ValidateIdentifier(tenant)
ValidateBindingInput(tenant, bucket) == ValidateTenant(tenant) /\ ValidateIdentifier(bucket) /\ bucket # "*"
ValidateID(id) == id \notin {"", Null, "malformed"}
-----------------------------------------------------------------------------
(* The binding probe *)

BindingBound(r) == r.state = "bound"

validateBoundResult(r) == r.known /\ ValidateID(r.space) /\ r.revision > 0

\* What a reader may answer: an unknown tenant has no status, an unbound bucket
\* no space.
ValidateBindingResult(r) ==
    /\ ValidateBindingInput(r.tenant, r.bucket)
    /\ r.known \/ r.status = ""
    /\ \/ BindingBound(r) /\ validateBoundResult(r)
       \/ r.state = "unbound" /\ r.space = "" /\ r.revision = 0

\* The tenant columns are NULL together and name the requested tenant.
validateBindingTenantRow(row, requested) ==
    (row.tenant = Null) = (row.status = Null) /\ row.tenant \in {Null, requested}

Present(row) == {c \in {"spTenant", "spBucket", "id"} : row[c] # Null} \cup (IF row.revision > 0 THEN {"revision"} ELSE {})

\* All four space columns or none.
spaceBindingFromRow(result, row) ==
    IF Present(row) = {} THEN [err |-> Nil, result |-> result]
    ELSE IF Cardinality(Present(row)) # 4 \/ row.spTenant # result.tenant \/ row.spBucket # result.bucket
         THEN [err |-> {"persistence", "invalid"}, result |-> result]
         ELSE [err |-> Nil,
               result |-> [result EXCEPT !.state = "bound", !.space = row.id, !.revision = row.revision]]

Observed(tenant, bucket, row) ==
    [tenant |-> tenant, bucket |-> bucket, known |-> row.tenant # Null,
     status |-> IF row.status = Null THEN "" ELSE row.status, state |-> "unbound", space |-> "", revision |-> 0]

scanSpaceBinding(row, tenant, bucket) ==
    LET seen == spaceBindingFromRow(Observed(tenant, bucket, row), row) IN
    IF ~validateBindingTenantRow(row, tenant) THEN [err |-> {"persistence", "invalid"}, result |-> seen.result]
    ELSE IF seen.err # Nil \/ ValidateBindingResult(seen.result) THEN seen
         ELSE [err |-> {"persistence", "invalid"}, result |-> seen.result]

\* One row, from the requested pair LEFT JOIN tenants LEFT JOIN spaces; a query
\* that fails, or finds no row at all, is a persistence error.
ProbeSpaceBinding(rows, tenant, bucket) ==
    IF ~ValidateBindingInput(tenant, bucket) THEN [err |-> {"invalid"}, result |-> <<>>]
    ELSE IF rows = <<>> THEN [err |-> {"persistence"}, result |-> <<>>]
         ELSE scanSpaceBinding(rows[1], tenant, bucket)

boundaryFault(cause) == Join({"fault"}, cause)

boundaryTenantAdmission(known, status) ==
    IF known /\ status # "active" THEN {"denied", "tenantUnavailable"} ELSE Nil

\* access.ResourceBoundary: an observation that fails or contradicts itself is
\* a fault, a bound bucket or an inactive tenant a denial.
CheckBucketOf(rows, tenant, bucket) ==
    LET probe == ProbeSpaceBinding(rows, tenant, bucket) IN
    IF ~ValidateBindingInput(tenant, bucket) THEN boundaryFault({"invalid"})
    ELSE IF probe.err # Nil THEN boundaryFault(probe.err)
    ELSE IF ~ValidateBindingResult(probe.result) THEN boundaryFault({"invalid"})
    ELSE IF BindingBound(probe.result) THEN {"denied", "spaceBound"}
    ELSE boundaryTenantAdmission(probe.result.known, probe.result.status)
-----------------------------------------------------------------------------
(* The coverage probe *)

ValidateCoverageScope(scope) ==
    (scope.kind = "tenant" /\ ValidateTenant(scope.tenant)) \/ (scope.kind = "global" /\ scope.tenant = "")

scanSpaceCoverageRow(row, scope) ==
    LET tenant == IF scope.kind = "global" THEN row.spTenant ELSE scope.tenant
        seen == spaceBindingFromRow(Observed(tenant, row.spBucket, row), row)
        bad == [err |-> {"persistence", "invalid"}, result |-> seen.result]
    IN  IF ~validateBindingTenantRow(row, tenant) THEN bad
        ELSE IF seen.err # Nil THEN seen
        ELSE IF BindingBound(seen.result)
             THEN (IF ValidateBindingResult(seen.result) THEN seen ELSE bad)
             ELSE (IF scope.kind = "global" /\ seen.result.known THEN bad ELSE seen)

NoCoverage(scope) ==
    [scope |-> scope, known |-> FALSE, status |-> "", state |-> "unbound", complete |-> FALSE,
     witnesses |-> <<>>, observed |-> FALSE, absent |-> FALSE, err |-> Nil]

\* An absence stands alone, and every row agrees on the tenant.
addWitness(seen, o) ==
    LET w == seen.result
        mixed == o.observed /\ (o.absent \/ ~BindingBound(w))
        torn == o.observed /\ o.scope.kind = "tenant" /\ (o.known # w.known \/ o.status # w.status)
    IN  IF o.err # Nil THEN o
        ELSE IF seen.err # Nil THEN [o EXCEPT !.err = seen.err]
        ELSE IF mixed \/ torn THEN [o EXCEPT !.err = {"invalid"}]
        ELSE [o EXCEPT !.known = o.scope.kind = "tenant" /\ w.known,
                       !.status = IF o.scope.kind = "tenant" THEN w.status ELSE "",
                       !.observed = TRUE, !.absent = ~BindingBound(w),
                       !.state = IF BindingBound(w) THEN "bound" ELSE "unbound",
                       !.witnesses = IF BindingBound(w) THEN Append(@, w) ELSE @]

validateCoverageTenant(o) ==
    IF o.scope.kind = "global" THEN ~o.known /\ o.status = "" ELSE o.known \/ o.status = ""
validateCoverageState(o) ==
    \/ o.state = "bound" /\ o.witnesses # <<>>
    \/ o.state = "unbound" /\ o.complete /\ o.witnesses = <<>>
    \/ o.state = "unknown" /\ ~o.complete /\ o.witnesses = <<>>
validateCoverageWitness(o, w) ==
    /\ ValidateBindingResult(w) /\ BindingBound(w)
    /\ o.scope.kind = "tenant" => w.tenant = o.scope.tenant /\ w.known = o.known /\ w.status = o.status
\* No bucket and no space twice, one status per tenant.
validateCoverageWitnesses(o) ==
    /\ \A i \in DOMAIN o.witnesses : validateCoverageWitness(o, o.witnesses[i])
    /\ \A i, j \in DOMAIN o.witnesses :
          LET v == o.witnesses[i] w == o.witnesses[j] IN
          i # j /\ v.tenant = w.tenant => v.bucket # w.bucket /\ v.space # w.space /\ v.status = w.status
ValidateCoverageObservation(scope, o) ==
    /\ ValidateCoverageScope(scope) /\ o.scope = scope
    /\ validateCoverageTenant(o) /\ validateCoverageState(o) /\ validateCoverageWitnesses(o)

scanSpaceCoverage(rows, scope) ==
    LET seen == [i \in DOMAIN rows |-> scanSpaceCoverageRow(rows[i], scope)]
        o == FoldLeft(LAMBDA acc, s : addWitness(s, acc), NoCoverage(scope), seen)
        done == [o EXCEPT !.complete = TRUE]
    IN  IF o.err # Nil THEN o
        ELSE IF ~o.observed THEN [o EXCEPT !.err = {"persistence"}]
        ELSE IF ValidateCoverageObservation(scope, done) THEN done ELSE [o EXCEPT !.err = {"invalid"}]

ProbeSpaceCoverage(rows, scope) ==
    LET o == scanSpaceCoverage(rows, scope) IN
    IF ~ValidateCoverageScope(scope) THEN [NoCoverage(scope) EXCEPT !.err = {"invalid"}]
    ELSE [o EXCEPT !.err = IF @ = Nil THEN Nil ELSE Join({"persistence"}, @)]

\* A mutant: an observation that failed passes as absence.
CheckCoverageLax(rows, scope) ==
    IF ProbeSpaceCoverage(rows, scope).state = "bound" THEN {"denied", "spaceBound"} ELSE Nil
CheckCoverageOf(rows, scope) ==
    LET o == ProbeSpaceCoverage(rows, scope) IN
    IF ~ValidateCoverageScope(scope) THEN boundaryFault({"invalid"})
    ELSE IF o.err # Nil THEN boundaryFault(o.err)
    ELSE IF ~ValidateCoverageObservation(scope, o) \/ ~o.complete THEN boundaryFault({"invalid"})
    ELSE IF o.state = "bound" THEN {"denied", "spaceBound"}
    ELSE IF scope.kind = "tenant" THEN boundaryTenantAdmission(o.known, o.status) ELSE Nil
-----------------------------------------------------------------------------
(* The layers above *)

IsFault(err) == "fault" \in err
IsDenied(err) == ~IsFault(err) /\ "denied" \in err

\* events.ResourceBoundary: three outcomes, then two errors again.
Classify(err) ==
    IF err = Nil THEN [outcome |-> "unbound", err |-> Nil]
    ELSE IF IsFault(err) THEN [outcome |-> "unknown", err |-> boundaryFault(err)]
    ELSE IF IsDenied(err)
         THEN (IF "spaceBound" \in err THEN [outcome |-> "bound", err |-> Nil]
               ELSE [outcome |-> "unbound", err |-> Join({"denied"}, err)])
         ELSE [outcome |-> "unknown", err |-> boundaryFault(err)]
EventCheckBucket(err) ==
    LET c == Classify(err) IN
    IF c.err # Nil THEN c.err
    ELSE IF c.outcome = "bound" THEN {"denied", "spaceBound"}
    ELSE IF c.outcome = "unbound" THEN Nil ELSE boundaryFault({})

\* The outbox relay: a denial fails the fact, a fault is tried again.
outboxCheck(err) ==
    IF err = Nil THEN "admit" ELSE IF IsDenied(err) THEN "fail" ELSE "retry"

\* The maintenance sweeps count refusals and faults apart.
scopeBoundaryOutcome(err) ==
    IF err = Nil THEN "admitted" ELSE IF IsFault(err) THEN "fault" ELSE IF IsDenied(err) THEN "refused" ELSE "fault"

\* The file service adds its own sentinels to a denial.
serviceBoundaryError(err) ==
    IF ~IsDenied(err) THEN err
    ELSE Join(err, IF "tenantUnavailable" \in err THEN {"forbidden", "tenantDisabled"} ELSE {"forbidden"})
ordinaryAccessDenial(err) ==
    ~IsFault(err) /\ err \cap {"tenantUnavailable", "tenantDisabled"} = {} /\ ("forbidden" \in err \/ IsDenied(err))

\* REST: the boundary speaks first, then locks, requests and arguments.
classifyBoundary(err) ==
    IF ~IsFault(err) /\ ~IsDenied(err) /\ "spaceBound" \notin err THEN 0
    ELSE IF err \cap {"deadline", "timeout"} # {} THEN 504
    ELSE IF IsFault(err) THEN 500 ELSE 403
classifyRequestError(err) ==
    IF err \cap {"deadline", "timeout"} # {} THEN 504
    ELSE IF "tenantDisabled" \in err THEN 403
    ELSE IF "entitlement" \in err THEN 503
    ELSE IF "quota" \in err THEN 507
    ELSE IF err \cap {"notFound", "noUpload"} # {} THEN 404 ELSE 0
classifyThumbnail(err) ==
    IF err \cap {"imageTooLarge", "thumbMetadata", "sourceTooLarge"} # {} THEN 413
    ELSE IF "unsupportedFormat" \in err THEN 415 ELSE 0
classifyArgumentError(err) ==
    IF err \cap {"invalidArgs", "badDigest", "metadata", "sizeMismatch"} # {} THEN 400
    ELSE IF "bodyTooLarge" \in err THEN 413 ELSE 0
classifyOther(err) ==
    IF "range" \in err THEN 416
    ELSE IF "precondition" \in err THEN 412
    ELSE IF "forbidden" \in err THEN 403
    ELSE IF "corrupt" \in err THEN 410 ELSE 500
\* A mutant: the boundary speaks last.
restStatusLate(err) ==
    LET ask == <<IF "locked" \in err THEN 409 ELSE 0, classifyRequestError(err), classifyThumbnail(err),
                 classifyArgumentError(err), classifyBoundary(err), classifyOther(err)>>
    IN  SelectSeq(ask, LAMBDA status : status # 0)[1]
restStatus(err) ==
    LET ask == <<classifyBoundary(err), IF "locked" \in err THEN 409 ELSE 0, classifyRequestError(err),
                 classifyThumbnail(err), classifyArgumentError(err), classifyOther(err)>>
    IN  SelectSeq(ask, LAMBDA status : status # 0)[1]

\* S3: the first sentinel of the table; the table knows no boundary.
errToS3Code ==
    << <<"bodyTooLarge", 413>>, <<"notFound", 404>>, <<"invalidArgs", 400>>, <<"metadata", 400>>,
       <<"badDigest", 400>>, <<"sizeMismatch", 400>>, <<"range", 416>>, <<"precondition", 412>>,
       <<"noUpload", 404>>, <<"locked", 403>>, <<"quota", 403>>, <<"entitlement", 503>>,
       <<"forbidden", 403>>, <<"corrupt", 410>> >>
s3Status(err) ==
    LET hits == SelectSeq(errToS3Code, LAMBDA m : m[1] \in err) IN
    IF hits = <<>> THEN 500 ELSE hits[1][2]
-----------------------------------------------------------------------------
(* The reference *)

\* The rows the two queries return for a database.
TenantRow(db, tenant) ==
    IF tenant \in DOMAIN db.tenants THEN [tenant |-> tenant, status |-> db.tenants[tenant]]
    ELSE [tenant |-> Null, status |-> Null]
RowOf(db, tenant, S) ==
    LET t == TenantRow(db, tenant) IN
    IF S = {} THEN [tenant |-> t.tenant, status |-> t.status, spTenant |-> Null, spBucket |-> Null, id |-> Null, revision |-> 0]
    ELSE LET s == CHOOSE s \in S : TRUE IN
         [tenant |-> t.tenant, status |-> t.status, spTenant |-> s.tenant, spBucket |-> s.bucket, id |-> s.id, revision |-> s.revision]
BindingRows(db, tenant, bucket) ==
    <<RowOf(db, tenant, {s \in db.spaces : s.tenant = tenant /\ s.bucket = bucket})>>
CoverageRows(db, scope) ==
    LET mine == {s \in db.spaces : scope.kind = "global" \/ s.tenant = scope.tenant}
        order == SetToSeq(mine)
    IN  IF mine = {} THEN <<RowOf(db, IF scope.kind = "global" THEN Null ELSE scope.tenant, {})>>
        ELSE [i \in DOMAIN order |-> RowOf(db, order[i].tenant, {order[i]})]

Suspended(db, tenant) == tenant \in DOMAIN db.tenants /\ db.tenants[tenant] # "active"

\* What a verdict must be: the kind of err.
Kind(err) == IF err = Nil THEN "admitted" ELSE IF IsFault(err) THEN "fault" ELSE IF IsDenied(err) THEN "refused" ELSE "other"

\* A healthy probe admits exactly an unbound bucket of a tenant that is not
\* suspended, whatever else the database holds (ProbeSpaceBinding, CheckBucket),
\* and coverage admits exactly when no bucket in scope is bound.
ProbesExact(db, tenant, bucket, scope) ==
    /\ Kind(CheckBucketOf(BindingRows(db, tenant, bucket), tenant, bucket)) =
          IF (\E s \in db.spaces : s.tenant = tenant /\ s.bucket = bucket) \/ Suspended(db, tenant)
          THEN "refused" ELSE "admitted"
    /\ Kind(CheckCoverageOf(CoverageRows(db, scope), scope)) =
          IF (\E s \in db.spaces : scope.kind = "global" \/ s.tenant = scope.tenant)
             \/ (scope.kind = "tenant" /\ Suspended(db, scope.tenant))
          THEN "refused" ELSE "admitted"

\* Rows no database of this schema returns - half a NULL, another tenant's row,
\* a row twice, no row - never admit a bucket or a scope that a subset of them
\* shows bound (scanSpaceBinding, scanSpaceCoverage fail closed).
FailsClosed(rows, tenant, bucket, scope) ==
    /\ CheckBucketOf(rows, tenant, bucket) = Nil =>
          /\ rows # <<>> /\ Present(rows[1]) = {} /\ rows[1].tenant \in {Null, tenant}
          /\ rows[1].status \in {Null, "active"}
    /\ CheckCoverageOf(rows, scope) = Nil =>
          rows # <<>> /\ \A i \in DOMAIN rows : Present(rows[i]) = {}

\* Every layer keeps the verdict's kind: no layer turns a fault of the probe into
\* a refusal or a reply that blames the client, and none retries a refusal
\* (events Classify, outboxBoundary.check, scopeBoundaryOutcome, REST classify).
LayersKeepKind(err) ==
    /\ Kind(err) # "other" =>
          /\ Kind(EventCheckBucket(err)) = Kind(err)
          /\ scopeBoundaryOutcome(err) = Kind(err)
          /\ Kind(serviceBoundaryError(err)) = Kind(err)
          /\ outboxCheck(err) = CASE Kind(err) = "admitted" -> "admit" [] Kind(err) = "refused" -> "fail" [] OTHER -> "retry"
    /\ Kind(err) = "fault" => restStatus(serviceBoundaryError(err)) \in {500, 504} /\ ~ordinaryAccessDenial(err)
    /\ Kind(err) = "refused" => restStatus(serviceBoundaryError(err)) \in {403, 504}
-----------------------------------------------------------------------------
(* Rows and references *)

Ref(o) == [tenant |-> o.tenant, bucket |-> o.bucket, key |-> o.key, object |-> o.object]
NoRef(tenant, id) == [tenant |-> tenant, bucket |-> "", key |-> "", object |-> id]
ValidBinding(tenant, bucket) == tenant \notin {"", "*"} /\ bucket \notin {"", "*"}
ValidateChunkRef(r) == ValidBinding(r.tenant, r.bucket) /\ r.key # "" /\ r.object > 0

CheckBucket(w, tenant, bucket) == IF <<tenant, bucket>> \in w.bound THEN "refused" ELSE "ok"
CheckCoverage(w, tenant) == IF \E b \in w.bound : b[1] = tenant THEN "refused" ELSE "ok"
ObjectAt(w, id) == {o \in w.objects : o.object = id}
ChunksOf(w, id) == SetToSortSeq({c \in w.chunks : c.object = id}, LAMBDA a, b : a.id < b.id)
-----------------------------------------------------------------------------
(* Retrying a dead job *)

JobTypes == {"index_object", "delete_chunks", "virus_scan", "replicate"}

\* A payload is durable (schema 2, with the deleted object's scope and event) or
\* legacy (the object's id only).
validateAdminRetryLegacyScope(p) == p.tenant = "" /\ p.bucket = "" /\ p.key = "" /\ p.event = 0
validateAdminRetrySchema(job, p) ==
    IF p.schema = 0 THEN validateAdminRetryLegacyScope(p)
    ELSE job.type = "delete_chunks" /\ p.schema = 2 /\ p.event > 0 /\ p.tenant = job.tenant /\ ValidateChunkRef(Ref(p))
\* Unknown, repeated or trailing fields make a payload malformed.
decodeAdminRetryPayload(job) ==
    /\ job.type \in JobTypes /\ job.tenant \notin {"", "*"}
    /\ job.wellFormed /\ job.payload.object > 0
    /\ validateAdminRetrySchema(job, job.payload)

Bad == [ok |-> FALSE, ref |-> NoRef("", 0)]
Good(ref) == [ok |-> TRUE, ref |-> ref]

adminRetryObjectRef(job, o) ==
    LET ref == Ref(o) p == job.payload IN
    IF ~ValidateChunkRef(ref) \/ ref.tenant # job.tenant \/ ref.object # p.object \/ (p.schema # 0 /\ ref # Ref(p))
    THEN Bad ELSE Good(ref)
\* A missing object is good enough for deleting its chunks.
readRetryObject(w, job) ==
    LET p == job.payload row == ObjectAt(w, p.object) IN
    IF row # {} THEN adminRetryObjectRef(job, CHOOSE o \in row : TRUE)
    ELSE IF p.schema # 0 THEN Good(Ref(p))
    ELSE IF job.type = "delete_chunks" THEN Good(NoRef(job.tenant, p.object)) ELSE Bad

\* The chunks name one scope: the object's or, when it is gone, their own.
AdoptChunk(acc, c) ==
    LET ref == IF acc.ref.bucket = "" /\ c.tenant = acc.ref.tenant THEN Ref(c) ELSE acc.ref IN
    IF ~acc.ok \/ ~ValidateChunkRef(Ref(c)) \/ Ref(c) # ref THEN Bad ELSE Good(ref)
adminRetryChunkRef(ref, rows) ==
    LET all == FoldLeft(AdoptChunk, Good(ref), rows) IN
    IF all.ok /\ ValidateChunkRef(all.ref) THEN all ELSE Bad

\* The event that queued the job, when it is still in the table.
checkRetryEvent(w, p) ==
    LET later == {e \in w.events : e.tenant = p.tenant /\ e.id >= p.event}
        first == CHOOSE e \in later : \A f \in later : e.id <= f.id
    IN  later = {} \/ first.id > p.event \/ (first.type = "deleted" /\ Ref(first) = Ref(p))

resolveRetryResource(w, job) ==
    LET read == readRetryObject(w, job)
        ref == IF job.type = "delete_chunks" /\ read.ok THEN adminRetryChunkRef(read.ref, ChunksOf(w, read.ref.object)) ELSE read
    IN  IF ~decodeAdminRetryPayload(job) \/ ~ref.ok \/ (job.payload.schema # 0 /\ ~checkRetryEvent(w, job.payload))
           \/ ~ValidateChunkRef(ref.ref)
        THEN Bad ELSE ref

\* A mutant: the bucket the payload names is checked, not the resolved one.
admitFromPayload(w, job) ==
    IF job.state = "missing" THEN "missing"
    ELSE IF ~decodeAdminRetryPayload(job) THEN "fault"
    ELSE CheckBucket(w, job.payload.tenant, job.payload.bucket)
\* readRetryJob: an absent job is no fault, a lookup that contradicts itself is.
admitRetryJob(w, job) ==
    CASE job.state = "missing" -> "missing"
      [] job.state = "torn" -> "fault"
      [] OTHER -> LET r == resolveRetryResource(w, job) IN
                  IF ~r.ok THEN "fault" ELSE CheckBucket(w, r.ref.tenant, r.ref.bucket)
-----------------------------------------------------------------------------
(* Lineage *)

lineageReferenceSet(ids) == IsInjective(ids) /\ \A i \in DOMAIN ids : ids[i] > 0
lineageObjectIDs(tenant, requested, usages) ==
    /\ \A i, j \in DOMAIN usages : i # j => usages[i].id # usages[j].id
    /\ \A i \in DOMAIN usages :
          /\ usages[i].id > 0 /\ usages[i].tenant = tenant
          /\ lineageReferenceSet(usages[i].objects) /\ requested \in Range(usages[i].objects)
lineageChunkRef(ref, rows) ==
    FoldLeft(LAMBDA acc, c :
                IF ~acc.ok \/ ~ValidateChunkRef(Ref(c)) \/ c.tenant # ref.tenant \/ c.object # ref.object THEN Bad
                ELSE IF acc.ref.bucket = "" THEN Good(Ref(c))
                ELSE IF Ref(c) # acc.ref THEN Bad ELSE acc,
             Good(ref), rows)
readLineageObject(w, tenant, id) ==
    LET row == ObjectAt(w, id)
        o == CHOOSE o \in row : TRUE
    IN  IF row = {} THEN lineageChunkRef(NoRef(tenant, id), ChunksOf(w, id))
        ELSE IF ~ValidateChunkRef(Ref(o)) \/ o.tenant # tenant THEN Bad
        ELSE lineageChunkRef(Ref(o), ChunksOf(w, id))
validateUsageChunks(w, ids, usages) ==
    \A i \in DOMAIN usages :
        /\ lineageReferenceSet(usages[i].chunks)
        /\ \A c \in w.chunks : c.object \in ids /\ c.id \in Range(usages[i].chunks) => c.object \in Range(usages[i].objects)
resolveLineage(w, tenant, requested, usages) ==
    LET ids == {requested} \cup UNION {Range(usages[i].objects) : i \in DOMAIN usages} IN
    /\ lineageObjectIDs(tenant, requested, usages)
    /\ \A id \in ids : readLineageObject(w, tenant, id).ok
    /\ validateUsageChunks(w, ids, usages)
\* Coverage, the rows, every bucket they name, coverage again; w1 and w2 are the
\* world before and after the rows are read.
readAdmittedLineage(w1, w2, tenant, requested, usages) ==
    LET ids == {requested} \cup UNION {Range(usages[i].objects) : i \in DOMAIN usages}
        buckets == {readLineageObject(w1, tenant, id).ref.bucket : id \in ids} \ {""}
    IN  IF CheckCoverage(w1, tenant) # "ok" THEN "refused"
        ELSE IF ~resolveLineage(w1, tenant, requested, usages) THEN "fault"
        ELSE IF \E b \in buckets : CheckBucket(w2, tenant, b) # "ok" THEN "refused"
        ELSE CheckCoverage(w2, tenant)
-----------------------------------------------------------------------------
(* Rows a sweep may touch *)

validateObjectIdentity(o) == o.object > 0 /\ o.key # "" /\ o.version # ""
validateObjectScope(o, tenant, bucket) ==
    /\ validateObjectIdentity(o) /\ ValidBinding(o.tenant, o.bucket)
    /\ tenant \in {"", o.tenant} /\ bucket \in {"", o.bucket}
    /\ o.storage # "" \/ o.marker
sameObjectIdentity(a, b) == a = b

\* The row is read again and must be the row that was listed.
canonicalObject(w, o, tenant, bucket) ==
    LET row == ObjectAt(w, o.object) IN
    /\ validateObjectScope(o, tenant, bucket)
    /\ row # {} /\ \A r \in row : validateObjectScope(r, tenant, bucket) /\ sameObjectIdentity(o, r)
scopeObject(w, o, tenant, bucket) ==
    IF ~canonicalObject(w, o, tenant, bucket) THEN "fault" ELSE CheckBucket(w, o.tenant, o.bucket)

\* A mutant: a marker need not have advanced.
MarkerAny(page, marker, last) == TRUE
validObjectMarker(page, marker, last) ==
    ~page.more \/ (page.keys # <<>> /\ page.next = last /\ page.next > marker)
validateObjectPage(page, marker, previous) ==
    LET last == IF page.keys = <<>> THEN previous ELSE Last(page.keys) IN
    /\ \A i \in DOMAIN page.keys : page.keys[i] > IF i = 1 THEN previous ELSE page.keys[i - 1]
    /\ validObjectMarker(page, marker, last)

versionAnchorMatches(anchor, row) == anchor.object # row.object \/ sameObjectIdentity(anchor, row)
\* The versions of the anchor's key, each read again, the anchor among them.
ListObjectVersions(w, anchor, listed) ==
    IF listed = <<>> \/ (\E i, j \in DOMAIN listed : i # j /\ (listed[i].object = listed[j].object \/ listed[i].version = listed[j].version))
    THEN "fault"
    ELSE IF \E i \in DOMAIN listed : \/ listed[i].key # anchor.key
                                     \/ ~canonicalObject(w, listed[i], anchor.tenant, anchor.bucket)
                                     \/ ~versionAnchorMatches(anchor, listed[i])
    THEN "fault"
    ELSE IF CheckBucket(w, anchor.tenant, anchor.bucket) # "ok" THEN "refused"
    ELSE IF anchor.object \in {listed[i].object : i \in DOMAIN listed} THEN "ok" ELSE "fault"
-----------------------------------------------------------------------------
(* An agent's observations *)

validateBucketScope(g, tenant, bucket) == tenant = g.tenant /\ ValidBinding(tenant, bucket)
validateAgentBucket(w, g, b) ==
    IF ~validateBucketScope(g, b[1], b[2]) THEN "changed" ELSE CheckBucket(w, b[1], b[2])
validateAgentObject(w, g, o) ==
    IF o.tenant # g.tenant \/ ~ValidateChunkRef(Ref(o)) THEN "changed"
    ELSE IF CheckBucket(w, o.tenant, o.bucket) # "ok" THEN "refused"
    ELSE IF o \in w.objects THEN "ok" ELSE "changed"
\* addList: a row outside the listed bucket spoils the guard for good.
addList(g, tenant, bucket, rows) ==
    [g EXCEPT !.buckets = @ \cup {<<tenant, bucket>>}, !.objects = @ \cup rows,
              !.invalid = @ \/ \E o \in rows : o.tenant # tenant \/ o.bucket # bucket]
\* validate remembers the first error it meets.
validateGuard(w, g) ==
    LET bad == g.invalid \/ (\E b \in g.buckets : validateAgentBucket(w, g, b) # "ok")
                         \/ (\E o \in g.objects : validateAgentObject(w, g, o) # "ok")
    IN  [g EXCEPT !.invalid = bad]
-----------------------------------------------------------------------------
\* A retry is admitted only when the bucket that was checked holds the job's
\* object, every chunk the job would delete, and the delete that queued it: a
\* payload cannot name one bucket and work on another (resolveRetryResource).
RetryAdmitted(w, job) ==
    admitRetryJob(w, job) = "ok" =>
        LET id == job.payload.object IN
        /\ \A o \in ObjectAt(w, id) : o.tenant = job.tenant /\ <<o.tenant, o.bucket>> \notin w.bound
        /\ job.type = "delete_chunks" =>
              \A c \in w.chunks : c.object = id => c.tenant = job.tenant /\ <<c.tenant, c.bucket>> \notin w.bound
        /\ ObjectAt(w, id) = {} => job.type = "delete_chunks"

\* Admitted usage rows name only objects and chunks of the tenant, in buckets no
\* space held when the rows were read, nor after (readAdmittedLineage).
LineageAdmitted(w1, w2, tenant, requested, usages) ==
    readAdmittedLineage(w1, w2, tenant, requested, usages) = "ok" =>
        \A i \in DOMAIN usages : \A id \in Range(usages[i].objects) :
            \A r \in ObjectAt(w1, id) \cup {c \in w1.chunks : c.object = id} :
                r.tenant = tenant /\ <<r.tenant, r.bucket>> \notin w1.bound \cup w2.bound

\* A sweep's deletion receives exactly rows that are still what was listed, of
\* one key, in no space, with the expired row among them (validateVersions).
SweepScoped(w, anchor, listed) ==
    ListObjectVersions(w, anchor, listed) = "ok" =>
        /\ Range(listed) \subseteq w.objects /\ IsInjective(listed)
        /\ anchor \in Range(listed)
        /\ \A i \in DOMAIN listed : <<listed[i].tenant, listed[i].bucket, listed[i].key>> = <<anchor.tenant, anchor.bucket, anchor.key>>
        /\ <<anchor.tenant, anchor.bucket>> \notin w.bound

\* A page that is accepted moves the cursor forward, so a sweep over any pages
\* ends (validateObjectPage).
PagesAdvance(page, marker) ==
    validateObjectPage(page, marker, marker) /\ page.more => page.next > marker /\ Last(page.keys) = page.next

\* What the guard lets through is still there and outside every space, and a
\* guard that once refused refuses for good, even when the world returns to what
\* it was (agentResourceGuard.validate, rememberError).
GuardSticky(w1, w2, g) ==
    LET first == validateGuard(w1, g) IN
    /\ ~first.invalid => g.objects \subseteq w1.objects /\ g.buckets \cap w1.bound = {}
    /\ first.invalid => validateGuard(w2, first).invalid
=============================================================================
