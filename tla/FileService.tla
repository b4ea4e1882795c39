---------------------------- MODULE FileService ----------------------------
(***************************************************************************)
(* FileService over one object key: Put, Delete (soft and hard),           *)
(* DeleteVersion, CreateDeleteMarker, RestoreObject and the legal holds.   *)
(* The metadata rows, the blobs and the tenant's usage counter are three   *)
(* stores with no transaction across them; a request reads and writes them *)
(* one after the other and other requests run in between.  A request may   *)
(* stop anywhere, by an error or because the process dies.                 *)
(*                                                                         *)
(* Authorization, validation and events are left out: they change none of  *)
(* this state (the events are EventOutbox's and ObjectWorkers').           *)
(*                                                                         *)
(* The rows of the key in the objects table: a table t maps row ids to     *)
(* rows with                                                               *)
(*                                                                         *)
(*   st     "none" no such row, "live" deleted_at IS NULL, "tombstone" an  *)
(*          old version, "deleted" removed by a user or a delete marker    *)
(*   up     the version id, numbered by the request that wrote it; the     *)
(*          object's size is that number too, so that no two are alike     *)
(*   key    the storage key: the shared key of an unversioned bucket, a    *)
(*          key per version, or none (a delete marker)                     *)
(*   holds  the versions of the row's legal holds; ON DELETE CASCADE ties  *)
(*          them to the row                                                *)
(*                                                                         *)
(* Row ids grow with updated_at: a row is written when it is inserted, and *)
(* afterwards only overwritten while it is live in an unversioned bucket,  *)
(* where the live row is the newest.  Hence "newest" is the largest id.    *)
(***************************************************************************)
EXTENDS Integers, FiniteSetsExt

CONSTANTS
    MaxReqs,   \* bound: requests, hence versions and row ids
    Clients,   \* requests that run at the same time
    Sweepers,  \* maintenance sweeps, see Maintenance
    MaxBytes,  \* the tenant's quota; 0 is none
    MaxActive, \* bound: operations under way at the same time
    MaxEvents  \* bound: legal holds placed and operations that stop half-way

ASSUME MaxReqsAssumption == MaxReqs \in Nat

ASSUME FileServiceAssumption ==
    /\ Clients \cap Sweepers = {}
    /\ MaxBytes \in Nat /\ MaxActive \in Nat /\ MaxEvents \in Nat

-----------------------------------------------------------------------------
(* The transactions of the repository over the rows.                       *)

Ids == 1..MaxReqs
SharedKey == 0
NoKey == -1
Keys == SharedKey..MaxReqs

Row == [st : {"none", "live", "tombstone", "deleted"}, up : 0..MaxReqs,
        key : Keys \cup {NoKey}, holds : SUBSET Ids]

NoRow == [st |-> "none", up |-> 0, key |-> NoKey, holds |-> {}]

InState(t, s) == {i \in Ids : t[i].st = s}
Live(t) == InState(t, "live")
Present(t) == {i \in Ids : t[i].st # "none"}
AtMostOneLive(t) == \A i, j \in Live(t) : i = j
Held(t) == {i \in Present(t) : t[i].holds # {}}
IsDeleteMarker(r) == r.key = NoKey

\* The row whose version_id is v, if there is one.
GetObjectVersion(t, v) == {i \in Present(t) : t[i].up = v}

\* Row r in another state, with other holds, overwritten by an upload.
WithState(r, s) == [st |-> s, up |-> r.up, key |-> r.key, holds |-> r.holds]
WithHolds(r, H) == [st |-> r.st, up |-> r.up, key |-> r.key, holds |-> H]
Overwritten(r, new) ==
    [st |-> r.st, up |-> new.up, key |-> new.key, holds |-> r.holds]

SetState(t, S, s) ==
    [i \in Ids |-> IF i \in S THEN WithState(t[i], s) ELSE t[i]]

Remove(t, S) == [i \in Ids |-> IF i \in S THEN NoRow ELSE t[i]]

\* Mutant of UpsertObject: ON CONFLICT without the partial index.
UpsertObjectInsertOnly(t, i, r) == [t EXCEPT ![i] = r]

\* ON CONFLICT the live row keeps its id and its holds.
UpsertObject(t, i, r) ==
    IF Live(t) = {} THEN [t EXCEPT ![i] = r]
    ELSE [j \in Ids |-> IF j \in Live(t) THEN Overwritten(t[j], r) ELSE t[j]]

\* InsertObjectVersion and InsertDeleteMarker: the live row becomes an old
\* version in the transaction that inserts r.
InsertVersion(t, i, r) ==
    [SetState(t, Live(t), "tombstone") EXCEPT ![i] = r]

SoftDeleteObject(t) == SetState(t, Live(t), "deleted")

promoteLatestObjectVersion(t) ==
    IF \/ Live(t) # {} \/ Present(t) = {}
       \/ IsDeleteMarker(t[Max(Present(t))])
    THEN t
    ELSE SetState(t, {Max(Present(t))}, "live")

DeleteObjectVersion(t, i) == promoteLatestObjectVersion(Remove(t, {i}))

RestoreObject(t) == SetState(t, {Max(InState(t, "deleted"))}, "live")

\* Mutant: an old version is not counted.
CountedLiveOnly(t, S) == {i \in S : t[i].st = "live"}

\* countedObjectUsage and deletionUsage: live rows and old versions count,
\* user-deleted rows and delete markers do not.
Counted(t, S) == {i \in S : t[i].st \in {"live", "tombstone"}}

Size(r) == IF IsDeleteMarker(r) THEN 0 ELSE r.up

Usage(t, S) == MapThenSumSet(LAMBDA i : Size(t[i]), Counted(t, S))
-----------------------------------------------------------------------------
VARIABLES
    versioned, \* the bucket's Versioning flag
    rows,      \* the objects table
    lastId,    \* the id of the last row inserted
    blob,      \* the storage: the version each key holds, 0 for none
    old,       \* the keys whose blob is older than the grace period
    used,      \* tenant_quotas.used_bytes
    reqs,      \* requests so far
    proc,      \* what each request and sweep is doing
    events,    \* holds placed and operations stopped so far
    stray,     \* history: keys a removal deleted before it stopped
    disturbed  \* history: requests overlapped or stopped half-way

state == <<versioned, rows, lastId, blob, old, used>>
vars == <<state, reqs, proc, events, stray, disturbed>>

Procs == Clients \cup Sweepers

\* op   the operation        pc    its next step
\* up   the version          id    the row
\* todo rows to be removed, with their storage keys
\* gone keys whose blob it has removed      owed  the usage change it owes
Idle == [op |-> "none", pc |-> "idle", up |-> 0, id |-> 0,
         todo |-> {}, gone |-> {}, owed |-> 0]

Init ==
    /\ versioned \in BOOLEAN
    /\ rows = [i \in Ids |-> NoRow] /\ lastId = 0
    /\ blob = [k \in Keys |-> 0] /\ old = {}
    /\ used = 0 /\ reqs = 0
    /\ proc = [p \in Procs |-> Idle]
    /\ events = 0 /\ stray = {} /\ disturbed = FALSE

Active == {p \in Procs : proc[p].pc # "idle"}
Quiet == Active = {}

\* p starts an operation.
Start(p, r) ==
    /\ Cardinality(Active) < MaxActive
    /\ proc' = [proc EXCEPT ![p] = r]
    /\ disturbed' = (disturbed \/ ~Quiet)
    /\ UNCHANGED <<events, stray>>

\* p goes on to another step.
Goto(p, r) ==
    /\ proc' = [proc EXCEPT ![p] = r]
    /\ UNCHANGED <<reqs, events, stray, disturbed>>

\* p ends without its row step or its accounting.
Stop(p) ==
    /\ proc' = [proc EXCEPT ![p] = Idle]
    /\ stray' = stray \cup proc[p].gone
    /\ UNCHANGED <<reqs, events, disturbed>>

NewRequest == reqs < MaxReqs /\ reqs' = reqs + 1
NewEvent == events < MaxEvents /\ events' = events + 1

StorageKey(v) == IF versioned THEN v ELSE SharedKey

\* checkBytesQuota and checkObjectsQuota, in bytes.
WithinQuota(delta) ==
    delta <= 0 \/ MaxBytes = 0 \/ used + delta <= MaxBytes

\* LocalStorage: Put renames the finished file over the key, Delete of a key
\* that has no file is no error.
StorePut(k, v) == [blob EXCEPT ![k] = v]
StoreDelete(k) == [j \in Keys |-> IF j = k THEN 0 ELSE blob[j]]

-----------------------------------------------------------------------------
(* Put *)

\* checkOverwriteProtection: only an unversioned overwrite is refused.
PutStart(p) ==
    /\ proc[p].pc = "idle" /\ NewRequest
    /\ versioned \/ Live(rows) \cap Held(rows) = {}
    /\ Start(p, [Idle EXCEPT !.op = "put", !.pc = "usage", !.up = reqs + 1])
    /\ UNCHANGED state

\* objectWriteUsage: the size the overwrite replaces.
PutDelta(v) ==
    IF versioned THEN v ELSE v - Usage(rows, Live(rows))

\* The quota checks; a refused upload has left nothing.
PutUsage(p) ==
    /\ proc[p].pc = "usage"
    /\ LET delta == PutDelta(proc[p].up)
       IN IF WithinQuota(delta)
          THEN Goto(p, [proc[p] EXCEPT !.pc = "blob", !.owed = delta])
          ELSE Stop(p)
    /\ UNCHANGED state

\* The blob is stored, or stored and removed again (the size or the digest
\* is not the announced one).
PutBlob(p) ==
    /\ proc[p].pc = "blob"
    /\ LET k == StorageKey(proc[p].up)
       IN /\ \/ /\ blob' = StorePut(k, proc[p].up)
                /\ Goto(p, [proc[p] EXCEPT !.pc = "row"])
             \/ blob' = StoreDelete(k) /\ Stop(p)
          /\ old' = old \ {k}
    /\ UNCHANGED <<versioned, rows, lastId, used>>

\* writePutObject: the row, and the hold the upload may ask for.
PutRow(p) ==
    /\ proc[p].pc = "row"
    /\ LET v == proc[p].up
           r == [st |-> "live", up |-> v, key |-> StorageKey(v), holds |-> {}]
           saved == IF versioned \/ Live(rows) = {} THEN lastId + 1
                    ELSE CHOOSE i \in Live(rows) : TRUE
       IN /\ rows' = IF versioned THEN InsertVersion(rows, lastId + 1, r)
                     ELSE UpsertObject(rows, lastId + 1, r)
          /\ lastId' = IF saved > lastId THEN saved ELSE lastId
          /\ \E pc \in {"hold", "account"} :
                /\ IF pc = "hold" THEN NewEvent ELSE UNCHANGED events
                /\ proc' = [proc EXCEPT ![p] = [@ EXCEPT !.pc = pc,
                                                         !.id = saved]]
          /\ UNCHANGED <<reqs, stray, disturbed>>
    /\ UNCHANGED <<versioned, blob, old, used>>

\* The hold's foreign key fails if the row is gone by now.
PutHold(p) ==
    /\ proc[p].pc = "hold"
    /\ LET i == proc[p].id
       IN IF i \in Present(rows)
          THEN /\ rows' = [rows EXCEPT ![i] =
                             WithHolds(rows[i], rows[i].holds \cup {proc[p].up})]
               /\ Goto(p, [proc[p] EXCEPT !.pc = "account"])
          ELSE UNCHANGED rows /\ Stop(p)
    /\ UNCHANGED <<versioned, lastId, blob, old, used>>

\* Mutant: the counter is not kept from going below zero.
AddTenantUsageUnclamped(delta) == used + delta

AddTenantUsage(delta) == IF used + delta < 0 THEN 0 ELSE used + delta

\* The last step of every operation that owes something.
Account(p) ==
    /\ proc[p].pc = "account"
    /\ used' = AddTenantUsage(proc[p].owed)
    /\ Goto(p, Idle)
    /\ UNCHANGED <<versioned, rows, lastId, blob, old>>

-----------------------------------------------------------------------------
(* Delete *)

\* DeleteWithAction reads the live row; what a soft delete takes off the
\* usage is the size of that row.
SoftDeleteStart(p) ==
    /\ proc[p].pc = "idle" /\ NewRequest /\ Live(rows) # {}
    /\ Start(p, [Idle EXCEPT !.op = "soft", !.pc = "soft",
                             !.owed = -Usage(rows, Live(rows))])
    /\ UNCHANGED state

\* Also softDeleteKey, the sweeps' version: both go by key, not by row.
SoftDelete(p) ==
    /\ proc[p].pc = "soft"
    /\ IF Live(rows) # {}
       THEN /\ rows' = SoftDeleteObject(rows)
            /\ Goto(p, [proc[p] EXCEPT !.pc = "account"])
       ELSE UNCHANGED rows /\ Stop(p)
    /\ UNCHANGED <<versioned, lastId, blob, old, used>>

\* Every version of the key, with its storage key.
Versions == {<<i, rows[i].key>> : i \in Present(rows)}

HardDeleteStart(p) ==
    /\ proc[p].pc = "idle" /\ NewRequest /\ Live(rows) # {}
    /\ Start(p, [Idle EXCEPT
                    !.op = "hard", !.pc = "list",
                    !.todo = {<<i, rows[i].key>> : i \in Live(rows)},
                    !.owed = -Usage(rows, Live(rows))])
    /\ UNCHANGED state

\* versionsForHardDelete: the row read before stands in for an empty list.
HardDeleteList(p) ==
    /\ proc[p].pc = "list"
    /\ IF Held(rows) # {} THEN Stop(p)
       ELSE IF Present(rows) = {}
       THEN Goto(p, [proc[p] EXCEPT !.pc = "blobs"])
       ELSE Goto(p, [proc[p] EXCEPT !.pc = "blobs", !.todo = Versions,
                                    !.owed = -Usage(rows, Present(rows))])
    /\ UNCHANGED state

\* The newest of the versions still to be removed.
NextKey(p) == (CHOOSE v \in proc[p].todo :
                  \A w \in proc[p].todo : w[1] <= v[1])[2]

\* store.Delete, one storage key at a time; a key is deleted once.
DeleteBlob(p) ==
    /\ proc[p].pc = "blobs" /\ proc[p].op \in {"hard", "version"}
    /\ proc[p].todo # {}
    /\ LET k == NextKey(p)
       IN /\ blob' = StoreDelete(k)
          /\ Goto(p, [proc[p] EXCEPT
                         !.todo = {v \in @ : v[2] # k},
                         !.gone = @ \cup ({k} \ {NoKey})])
    /\ UNCHANGED <<versioned, rows, lastId, old, used>>

\* Mutant: the transaction does not look at the holds.
MayRemoveAny(S) == TRUE

\* The hold check of every removing transaction.
MayRemove(S) == S \cap Held(rows) = {}

\* p's transaction removed its rows.
Removed(p) ==
    /\ proc' = [proc EXCEPT ![p] = [@ EXCEPT !.pc = "account", !.gone = {}]]
    /\ UNCHANGED <<reqs, events, stray, disturbed>>

\* HardDeleteObjectWithEvent removes the rows the key has by then; no row
\* left is ErrNotFound.
HardDeleteRows(p) ==
    /\ proc[p].pc = "blobs" /\ proc[p].op = "hard" /\ proc[p].todo = {}
    /\ IF MayRemove(Ids) /\ Present(rows) # {}
       THEN rows' = Remove(rows, Ids) /\ Removed(p)
       ELSE UNCHANGED rows /\ Stop(p)
    /\ UNCHANGED <<versioned, lastId, blob, old, used>>

-----------------------------------------------------------------------------
(* Versions *)

DeleteVersionStart(p, i) ==
    /\ proc[p].pc = "idle" /\ NewRequest
    /\ i \in Present(rows) /\ MayRemove({i})
    /\ Start(p, [Idle EXCEPT !.op = "version", !.pc = "blobs",
                             !.up = rows[i].up,
                             !.todo = {<<i, rows[i].key>>},
                             !.owed = -Usage(rows, {i})])
    /\ UNCHANGED state

\* A user-deleted row came back: its size was taken off when it was deleted.
Revived(t, u) == \E i \in Ids : t[i].st = "deleted" /\ u[i].st = "live"

DeleteVersionRow(p) ==
    /\ proc[p].pc = "blobs" /\ proc[p].op = "version" /\ proc[p].todo = {}
    /\ LET S == GetObjectVersion(rows, proc[p].up)
       IN IF S # {} /\ MayRemove(S)
          THEN /\ rows' = DeleteObjectVersion(rows, CHOOSE i \in S : TRUE)
               /\ proc' = [proc EXCEPT
                              ![p] = [@ EXCEPT !.pc = "account", !.gone = {}]]
               /\ disturbed' = (disturbed \/ Revived(rows, rows'))
               /\ UNCHANGED <<reqs, events, stray>>
          ELSE UNCHANGED rows /\ Stop(p)
    /\ UNCHANGED <<versioned, lastId, blob, old, used>>

CreateDeleteMarker(p) ==
    /\ proc[p].pc = "idle" /\ versioned /\ NewRequest
    /\ rows' = InsertVersion(rows, lastId + 1,
                   [st |-> "deleted", up |-> reqs + 1, key |-> NoKey,
                    holds |-> {}])
    /\ lastId' = lastId + 1
    /\ disturbed' = (disturbed \/ ~Quiet)
    /\ UNCHANGED <<versioned, blob, old, used, proc, events, stray>>

\* RestoreObject: no live row, the newest user-deleted one has its blob (a
\* delete marker has none) and fits the quota.
RestoreStart(p) ==
    /\ proc[p].pc = "idle" /\ NewRequest
    /\ Live(rows) = {} /\ InState(rows, "deleted") # {}
    /\ LET r == rows[Max(InState(rows, "deleted"))]
       IN /\ ~IsDeleteMarker(r) /\ blob[r.key] # 0 /\ WithinQuota(r.up)
          /\ Start(p, [Idle EXCEPT !.op = "restore", !.pc = "restore",
                                   !.owed = r.up])
    /\ UNCHANGED state

RestoreRow(p) ==
    /\ proc[p].pc = "restore"
    /\ IF Live(rows) = {} /\ InState(rows, "deleted") # {}
       THEN /\ rows' = RestoreObject(rows)
            /\ Goto(p, [proc[p] EXCEPT !.pc = "account"])
       ELSE UNCHANGED rows /\ Stop(p)
    /\ UNCHANGED <<versioned, lastId, blob, old, used>>

-----------------------------------------------------------------------------
(* Legal holds, and requests that stop *)

PutLegalHold(i) ==
    /\ i \in Present(rows) /\ NewEvent
    /\ rows' = [rows EXCEPT ![i] =
                   WithHolds(rows[i], rows[i].holds \cup {rows[i].up})]
    /\ UNCHANGED <<versioned, lastId, blob, old, used, reqs, proc, stray,
                   disturbed>>

RemoveLegalHold(i) ==
    /\ i \in Present(rows) /\ rows[i].up \in rows[i].holds
    /\ rows' = [rows EXCEPT ![i] =
                   WithHolds(rows[i], rows[i].holds \ {rows[i].up})]
    /\ UNCHANGED <<versioned, lastId, blob, old, used, reqs, proc, events,
                   stray, disturbed>>

\* An error from the storage or the repository, or the process dies.
Abandon(p) ==
    /\ proc[p].pc # "idle" /\ NewEvent
    /\ proc' = [proc EXCEPT ![p] = Idle]
    /\ stray' = stray \cup proc[p].gone
    /\ disturbed' = TRUE
    /\ UNCHANGED <<state, reqs>>

Request(c) ==
    \/ PutStart(c) \/ SoftDeleteStart(c) \/ HardDeleteStart(c)
    \/ \E i \in Ids : DeleteVersionStart(c, i)
    \/ CreateDeleteMarker(c) \/ RestoreStart(c)

\* What a request that has started does next.
Step(c) ==
    \/ PutUsage(c) \/ PutBlob(c) \/ PutRow(c) \/ PutHold(c)
    \/ SoftDelete(c) \/ HardDeleteList(c) \/ DeleteBlob(c)
    \/ HardDeleteRows(c) \/ DeleteVersionRow(c) \/ RestoreRow(c)
    \/ Account(c)

ClientNext ==
    \/ \E c \in Clients : Request(c) \/ Step(c) \/ Abandon(c)
    \/ \E i \in Ids : PutLegalHold(i) \/ RemoveLegalHold(i)
=============================================================================
