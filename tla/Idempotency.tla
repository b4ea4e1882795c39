---------------------------- MODULE Idempotency ----------------------------
(***************************************************************************)
(* Idempotency-Key on REST writes (internal/api/rest/idempotency.go,       *)
(* idempotency_boundary.go, idempotency_cached_response.go, the key table  *)
(* of internal/repository/idempotency.go, and the admission observation of *)
(* internal/service/space_boundary_replay.go).                             *)
(*                                                                         *)
(* One (tenant, key) pair; every request that carries it is one of         *)
(* Requests.  A request claims the key (insert, then read on a conflict:   *)
(* two statements), runs its handler, and then completes or releases the   *)
(* key; a completed key is admitted for replay by separate reads of the    *)
(* bucket policy, the object row and the authorizer.  The process may die  *)
(* at any point, the settling statement may fail, and retention may purge  *)
(* the record.  Time is abstracted: a purge may hit any record.            *)
(***************************************************************************)
EXTENDS Naturals, FiniteSets

CONSTANTS Requests,    \* the requests that carry the key
          Wants,       \* [Requests -> [op: {"put", "delete"}, body]]
          HashBody,    \* IDEMPOTENCY_HASH_BODY
          MaxPurges,   \* retention sweeps that delete the record
          MaxFlips,    \* policy, grant and object changes by other requests
          NoRecord     \* the key has no row

VARIABLES rec,      \* the idempotency_keys row, or NoRecord
          live,     \* ids of the object's undeleted versions
          nextID,   \* id of the next version a put creates
          policy,   \* the bucket policy lets the caller in
          grant,    \* the authorizer lets the caller in
          req,      \* [Requests -> request]
          purges,   \* purges so far
          flips     \* changes by others so far

idemVars == <<rec, live, nextID, policy, grant, req, purges, flips>>

(* The checks of AdmitReplay that a request has seen hold at some instant  *)
(* since it arrived: what a replay may rest on.                            *)
Facts(p, g, present, obj) == (IF p THEN {"policy"} ELSE {})
                             \cup (IF g THEN {"grant"} ELSE {})
                             \cup (IF obj \in present THEN {"live"} ELSE {})

(* ReplayAdmission, as recordReplayAdmission and RecordReplayObject leave  *)
(* it: the action and the object the handler acted on; a handler that      *)
(* fails before it reaches the service leaves none.                        *)
NoAdmission == [action |-> "none", object |-> 0]

Admission(action, obj) == [action |-> action, object |-> obj]

(* fingerprint: method, path and query; bodyFingerprint folds in the body. *)
fingerprint(q) == IF HashBody THEN <<Wants[q].op, Wants[q].body>> ELSE <<Wants[q].op>>

InProgress(q) == [fp |-> fingerprint(q), status |-> "in_progress", code |-> 0,
                  admission |-> NoAdmission]

Init ==
    /\ rec = NoRecord
    /\ live = {0}
    /\ nextID = 1
    /\ policy = TRUE
    /\ grant = TRUE
    /\ req = [q \in Requests |-> [at |-> "new", saw |-> NoRecord, code |-> 0,
                                  admission |-> NoAdmission, since |-> {}]]
    /\ purges = 0
    /\ flips = 0

Goto(q, at) == [req EXCEPT ![q].at = at]

(* Mutant: an upsert in place of the insert that yields to an existing row.        *)
ClaimBlind(q) ==
    /\ req[q].at = "new"
    /\ rec' = InProgress(q)
    /\ req' = Goto(q, "handler")
    /\ UNCHANGED <<live, nextID, policy, grant, purges, flips>>

(* ClaimIdempotencyKey, the INSERT ... ON CONFLICT DO NOTHING.             *)
ClaimInsert(q) ==
    /\ req[q].at = "new"
    /\ rec' = IF rec = NoRecord THEN InProgress(q) ELSE rec
    /\ req' = Goto(q, IF rec = NoRecord THEN "handler" ELSE "read")
    /\ UNCHANGED <<live, nextID, policy, grant, purges, flips>>

(* handleIdempotentRequest: a row that vanished since the insert is a      *)
(* store error; another fingerprint, or a row still in progress, is a      *)
(* conflict; a completed row goes through admission.                       *)
Verdict(q, r) ==
    CASE r = NoRecord -> "failed"
      [] r # NoRecord /\ r.fp # fingerprint(q) -> "conflict"
      [] r # NoRecord /\ r.fp = fingerprint(q) /\ r.status # "completed" -> "conflict"
      [] OTHER -> "cached"

(* ClaimIdempotencyKey, the SELECT after a conflicting insert.             *)
ReadRecord(q) ==
    /\ req[q].at = "read"
    /\ req' = [req EXCEPT ![q].at = Verdict(q, rec), ![q].saw = rec,
                          ![q].since = Facts(policy, grant, live, IF rec = NoRecord THEN 0
                                                                    ELSE rec.admission.object)]
    /\ UNCHANGED <<rec, live, nextID, policy, grant, purges, flips>>

(* next.ServeHTTP of a put: a new version is stored and observed.          *)
PutHandler(q) ==
    /\ Wants[q].op = "put" /\ grant
    /\ live' = live \cup {nextID}
    /\ nextID' = nextID + 1
    /\ req' = [req EXCEPT ![q].at = "settle", ![q].code = 201,
                          ![q].admission = Admission("write", nextID)]

(* next.ServeHTTP of a delete: the newest live version is soft-deleted.    *)
DeleteHandler(q) ==
    /\ Wants[q].op = "delete" /\ grant
    /\ \E obj \in live :
          /\ \A other \in live : other <= obj
          /\ live' = live \ {obj}
          /\ req' = [req EXCEPT ![q].at = "settle", ![q].code = 204,
                                ![q].admission = Admission("delete", obj)]
    /\ UNCHANGED nextID

(* A handler that answers 4xx (refused, or nothing to delete), or 5xx      *)
(* (a panic is settled the same way), without effect.                      *)
HandlerFails(q) ==
    /\ \E code \in {403, 500} :
          req' = [req EXCEPT ![q].at = "settle", ![q].code = code]
    /\ UNCHANGED <<live, nextID>>

Execute(q) ==
    /\ req[q].at = "handler"
    /\ PutHandler(q) \/ DeleteHandler(q) \/ HandlerFails(q)
    /\ UNCHANGED <<rec, policy, grant, purges, flips>>

(* CompleteIdempotencyKey: an UPDATE by tenant and key.                    *)
CompleteIdempotencyKey(q) ==
    IF rec = NoRecord THEN NoRecord
    ELSE [rec EXCEPT !.status = "completed", !.code = req[q].code,
                     !.admission = req[q].admission]

(* executeIdempotent after the handler: a 5xx releases the key, anything   *)
(* else completes it.                                                      *)
Settled(q) == IF req[q].code >= 500 THEN NoRecord ELSE CompleteIdempotencyKey(q)

Settle(q) ==
    /\ req[q].at = "settle"
    /\ rec' = Settled(q)
    /\ req' = Goto(q, "answered")
    /\ UNCHANGED <<live, nextID, policy, grant, purges, flips>>

(* The settling statement fails (it is only logged), or the process dies   *)
(* during or after the handler: the row stays in progress.                 *)
SettleLost(q) ==
    /\ req[q].at \in {"handler", "settle"}
    /\ req' = Goto(q, "lost")
    /\ UNCHANGED <<rec, live, nextID, policy, grant, purges, flips>>

(* cachedReplayAdmission and validateCachedTarget: a record without an     *)
(* admission, of another action, or whose status is not the success code   *)
(* of its kind, is a boundary fault.                                       *)
cachedResponseStatus(want) == IF want = "put" THEN 201 ELSE 204

CachedConsistent(q, r) ==
    /\ r.admission # NoAdmission
    /\ r.admission.action = (IF Wants[q].op = "put" THEN "write" ELSE "delete")
    /\ r.code = cachedResponseStatus(Wants[q].op)

AdmitCached(q) ==
    /\ req[q].at = "cached"
    /\ req' = Goto(q, IF CachedConsistent(q, req[q].saw) THEN "policy" ELSE "fault")
    /\ UNCHANGED <<rec, live, nextID, policy, grant, purges, flips>>

(* bucketPolicyAdmission: put and delete both carry a policy action.       *)
bucketPolicyAdmission(q) ==
    /\ req[q].at = "policy"
    /\ req' = Goto(q, IF policy THEN "canonical" ELSE "refused")
    /\ UNCHANGED <<rec, live, nextID, policy, grant, purges, flips>>

(* Mutant: admission that trusts the stored object without reading the row again.  *)
CanonicalTrusted(a) == a.action \in {"delete", "write"}

(* validateReplayCanonical: the object of a write must still be the live   *)
(* row of that id; the object of a delete is not looked at.                *)
CanonicalHolds(a) == a.action = "delete" \/ a.object \in live

validateReplayCanonical(q) ==
    /\ req[q].at = "canonical"
    /\ req' = Goto(q, IF CanonicalHolds(req[q].saw.admission) THEN "authorize"
                      ELSE "refused")
    /\ UNCHANGED <<rec, live, nextID, policy, grant, purges, flips>>

(* AuthorizeReplayAdmission, then replay.                                  *)
AuthorizeReplayAdmission(q) ==
    /\ req[q].at = "authorize"
    /\ req' = Goto(q, IF grant THEN "replayed" ELSE "refused")
    /\ UNCHANGED <<rec, live, nextID, policy, grant, purges, flips>>

(* DeleteIdempotencyKeysBefore: the retention sweep goes by created_at     *)
(* alone, so it also takes a key still in progress.                        *)
DeleteIdempotencyKeysBefore ==
    /\ purges < MaxPurges /\ rec # NoRecord
    /\ rec' = NoRecord
    /\ purges' = purges + 1
    /\ UNCHANGED <<live, nextID, policy, grant, req, flips>>

(* Other requests change the policy, the grant or the object; the requests *)
(* under admission note what has held meanwhile.                           *)
Noting == [q \in Requests |->
             IF req[q].at \in {"cached", "policy", "canonical", "authorize"}
             THEN [req[q] EXCEPT !.since = @ \cup Facts(policy', grant', live', req[q].saw.admission.object)]
             ELSE req[q]]

OthersAct ==
    /\ flips < MaxFlips
    /\ flips' = flips + 1
    /\ \/ policy' = ~policy /\ UNCHANGED <<grant, live>>
       \/ grant' = ~grant /\ UNCHANGED <<policy, live>>
       \/ \E obj \in live : live' = live \ {obj} /\ UNCHANGED <<policy, grant>>
    /\ req' = Noting
    /\ UNCHANGED <<rec, nextID, purges>>

Next ==
    \/ \E q \in Requests :
          \/ ClaimInsert(q) \/ ReadRecord(q) \/ Execute(q) \/ Settle(q)
          \/ SettleLost(q) \/ AdmitCached(q) \/ bucketPolicyAdmission(q)
          \/ validateReplayCanonical(q) \/ AuthorizeReplayAdmission(q)
    \/ DeleteIdempotencyKeysBefore
    \/ OthersAct

Spec == Init /\ [][Next]_idemVars

-----------------------------------------------------------------------------

Steps == {"new", "read", "handler", "settle", "answered", "lost", "cached",
          "policy", "canonical", "authorize", "replayed", "refused", "fault",
          "conflict", "failed"}

TypeOK ==
    /\ rec = NoRecord
       \/ (rec.fp \in {fingerprint(q) : q \in Requests} /\ rec.status \in {"in_progress", "completed"})
    /\ \A q \in Requests : req[q].at \in Steps /\ req[q].since \subseteq {"policy", "grant", "live"}
    /\ live \subseteq 0 .. (nextID - 1)

(* Requests whose handler took effect (ClaimIdempotencyKey guards it).     *)
Took == {q \in Requests : req[q].code \in {201, 204}}

(* A retried write takes effect once, and once more for each record that   *)
(* retention removed, although completing and releasing name the key only  *)
(* and a straggler may settle a record that is not its own.                *)
EffectsBounded == Cardinality(Took) <= 1 + purges

(* A replay is answered only when the bucket policy, the grant and (for a  *)
(* write) the live object each held at some instant since the record was   *)
(* read: admission reads them one after the other (AdmitReplay).           *)
ReplayAdmitted ==
    \A q \in Requests :
       req[q].at = "replayed" =>
          /\ {"policy", "grant"} \subseteq req[q].since
          /\ Wants[q].op = "put" => "live" \in req[q].since

=============================================================================
