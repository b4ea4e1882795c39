---------------------------- MODULE Maintenance ----------------------------
(***************************************************************************)
(* The maintenance sweeps over the objects FileService serves: the         *)
(* retention GC (user-deleted rows), the lifecycle job (expired objects    *)
(* and old versions) and the reconcile job (rows without a blob, blobs     *)
(* without a row).  A sweep handles one row at a time; which rows are old  *)
(* enough is left open.  A row is re-read before it is acted upon and      *)
(* refused if it has changed (scope.object), so listing and re-reading are *)
(* one step here; everything after it interleaves with the requests.       *)
(*                                                                         *)
(* A blob becomes older than the grace period while no upload is between   *)
(* its blob and its row and no orphan-blob scan is under way: an upload    *)
(* and a scan together take less than the grace period.                    *)
(***************************************************************************)
EXTENDS FileService, TLC

\* A sweep takes up an operation on the rows.
Take(s, r) ==
    /\ proc[s].pc = "idle"
    /\ Start(s, r)
    /\ UNCHANGED <<state, reqs>>

\* purgeOneSoftDeleted: a user-deleted row whose key has no protected
\* version; hardDeleteKey then goes for every version of the key.
Purge(s) ==
    /\ InState(rows, "deleted") # {} /\ Held(rows) = {}
    /\ Take(s, [Idle EXCEPT !.op = "purge", !.pc = "recheck",
                            !.todo = Versions,
                            !.owed = -Usage(rows, Present(rows))])

\* hardDeleteVersion of row i.
TakeVersion(s, i) ==
    /\ MayRemove({i})
    /\ Take(s, [Idle EXCEPT !.op = "expire", !.pc = "recheck", !.id = i,
                            !.todo = {<<i, rows[i].key>>},
                            !.owed = -Usage(rows, {i})])

\* handleExpiredObject with expire_action hard_delete: the live version,
\* unless any version of the key is protected.
ExpireHard(s) == \E i \in Live(rows) : Held(rows) = {} /\ TakeVersion(s, i)

\* handleExpiredObject otherwise: softDeleteKey, whatever protects the row.
ExpireSoft(s) ==
    /\ Live(rows) # {}
    /\ Take(s, [Idle EXCEPT !.op = "expireSoft", !.pc = "soft",
                            !.owed = -Usage(rows, Live(rows))])

PurgeNonCurrent(s) ==
    \E i \in InState(rows, "tombstone") : TakeVersion(s, i)

\* reconcileObjectRow: the live row's blob is missing.
OrphanRow(s) ==
    /\ \E i \in Live(rows) : ~IsDeleteMarker(rows[i]) /\ blob[rows[i].key] = 0
    /\ Take(s, [Idle EXCEPT !.op = "orphanRow", !.pc = "soft",
                            !.owed = -Usage(rows, Live(rows))])

\* The newest version still to be removed.
NextVersion(s) == CHOOSE v \in proc[s].todo :
                      \A w \in proc[s].todo : w[1] <= v[1]

\* The protection of each version is checked once more before its blob goes.
Recheck(s) ==
    /\ proc[s].pc = "recheck" /\ proc[s].todo # {}
    /\ IF MayRemove({NextVersion(s)[1]})
       THEN Goto(s, [proc[s] EXCEPT !.pc = "blobs"])
       ELSE Stop(s)
    /\ UNCHANGED state

SweepBlob(s) ==
    /\ proc[s].pc = "blobs"
    /\ LET v == NextVersion(s)
       IN /\ blob' = StoreDelete(v[2])
          /\ Goto(s, [proc[s] EXCEPT !.pc = "recheck", !.todo = @ \ {v},
                                     !.gone = @ \cup ({v[2]} \ {NoKey})])
    /\ UNCHANGED <<versioned, rows, lastId, old, used>>

\* HardDeleteObject: the rows the key has by now; none is no error.
PurgeRows(s) ==
    /\ proc[s].pc = "recheck" /\ proc[s].op = "purge" /\ proc[s].todo = {}
    /\ IF MayRemove(Ids) THEN rows' = Remove(rows, Ids) /\ Removed(s)
       ELSE UNCHANGED rows /\ Stop(s)
    /\ UNCHANGED <<versioned, lastId, blob, old, used>>

\* HardDeleteObjectByID: that row only; no other version takes its place.
ExpireRow(s) ==
    /\ proc[s].pc = "recheck" /\ proc[s].op = "expire" /\ proc[s].todo = {}
    /\ IF proc[s].id \in Present(rows) /\ MayRemove({proc[s].id})
       THEN rows' = Remove(rows, {proc[s].id}) /\ Removed(s)
       ELSE UNCHANGED rows /\ Stop(s)
    /\ UNCHANGED <<versioned, lastId, blob, old, used>>

-----------------------------------------------------------------------------
(* Orphan blobs *)

\* Mutant of ReferencedKeys: a user-deleted row does not pin its blob.
ReferencedUndeleted == {rows[i].key : i \in Counted(rows, Ids)}

\* ListStorageKeys: every row pins its blob, deleted or not.
ReferencedKeys == {rows[i].key : i \in Present(rows)} \ {NoKey}

\* sweepOrphanBlobs: collectReferencedKeys comes before the listing.
CollectReferenced(s) ==
    Take(s, [Idle EXCEPT !.op = "scan", !.pc = "list",
                         !.todo = {0} \X ReferencedKeys])

\* The age is the one the listing gives.
Stale(k) == blob[k] # 0 /\ k \in old

\* listStorageObjects and findStaleBlobs.
ListBlobs(s) ==
    /\ proc[s].pc = "list" /\ proc[s].op = "scan"
    /\ Goto(s, [proc[s] EXCEPT
                   !.pc = "delete",
                   !.todo = {v \in ({0} \X Keys) \ @ : Stale(v[2])}])
    /\ UNCHANGED state

\* handleOrphanBlobs, one key at a time.
DeleteOrphan(s) ==
    /\ proc[s].pc = "delete"
    /\ \/ \E v \in proc[s].todo :
             /\ blob' = StoreDelete(v[2])
             /\ Goto(s, [proc[s] EXCEPT !.todo = @ \ {v}])
       \/ proc[s].todo = {} /\ Goto(s, Idle) /\ UNCHANGED blob
    /\ UNCHANGED <<versioned, rows, lastId, old, used>>

\* The grace period of a blob passes (its age matters once no live row has
\* the blob).
GracePasses(k) ==
    /\ blob[k] # 0 /\ k \notin old
    /\ \A i \in Live(rows) : rows[i].key # k
    /\ \A p \in Procs :
          /\ proc[p].op # "scan"
          /\ ~(proc[p].pc = "row" /\ StorageKey(proc[p].up) = k)
    /\ old' = old \cup {k}
    /\ UNCHANGED <<versioned, rows, lastId, blob, used, reqs, proc, events,
                   stray, disturbed>>

Sweep(s) ==
    \/ Purge(s) \/ ExpireHard(s) \/ ExpireSoft(s) \/ PurgeNonCurrent(s)
    \/ OrphanRow(s) \/ CollectReferenced(s)

SweepStep(s) ==
    \/ Recheck(s) \/ SweepBlob(s) \/ PurgeRows(s) \/ ExpireRow(s)
    \/ SoftDelete(s) \/ Account(s) \/ ListBlobs(s) \/ DeleteOrphan(s)

Next ==
    \/ ClientNext
    \/ \E s \in Sweepers : Sweep(s) \/ SweepStep(s) \/ Abandon(s)
    \/ \E k \in Keys : GracePasses(k)

Spec == Init /\ [][Next]_vars

\* Clients are alike.
ClientSymmetry == Permutations(Clients)

-----------------------------------------------------------------------------
(* Properties *)

\* The rows, the storage, the usage counter and the processes have their types.
TypeOK ==
    /\ versioned \in BOOLEAN
    /\ rows \in [Ids -> Row] /\ lastId \in 0..MaxReqs
    /\ blob \in [Keys -> 0..MaxReqs] /\ old \subseteq Keys
    /\ used \in Nat /\ reqs \in 0..MaxReqs /\ events \in 0..MaxEvents
    /\ stray \subseteq Keys /\ disturbed \in BOOLEAN
    /\ \A p \in Procs :
          /\ proc[p].todo \subseteq (0..MaxReqs) \X (Keys \cup {NoKey})
          /\ proc[p].gone \subseteq Keys /\ proc[p].owed \in Int

\* However uploads, deletions, restores, promotions and sweeps interleave,
\* a key has at most one live row (the invariant behind the partial unique
\* index on objects, and GetObject's single row).
OneLive == AtMostOneLive(rows)

\* A row under a legal hold is never removed, also when the hold is placed
\* while a deletion is past its protection checks: the transaction that
\* removes rows looks at the holds again (HardDeleteObject and the others).
HeldRowKept ==
    [][\A i \in Held(rows) : i \in Present(rows')]_vars

\* In a versioned bucket a row's blob is there, with that row's content,
\* unless a removal of that version is under way or stopped half-way.  In
\* particular the orphan-blob scan never takes a blob a row needs.
RowsBacked ==
    versioned =>
        \A i \in Present(rows) :
            \/ IsDeleteMarker(rows[i]) \/ blob[rows[i].key] = rows[i].up
            \/ rows[i].key \in stray
            \/ \E p \in Procs : rows[i].key \in proc[p].gone

\* As long as no two operations overlap and none stops half-way, used_bytes
\* is the size of the rows that count and within the quota, over any
\* sequence of uploads, deletions, restores and sweeps.  (Except after a
\* DeleteVersion that brought a user-deleted row back, see Revived.)
UsageExact ==
    Quiet /\ ~disturbed =>
        /\ used = Usage(rows, Ids)
        /\ MaxBytes > 0 => used <= MaxBytes

\* The retention GC "permanently purges rows that have been soft-deleted":
\* its transaction removes no live row.
PurgesOnlyDeleted ==
    [][\A s \in Sweepers : PurgeRows(s) /\ rows' # rows => Live(rows) = {}]_vars

\* DeleteVersion "permanently removes one exact version and leaves other
\* versions intact": no blob of another row goes with it.
OthersIntact ==
    [][\A c \in Clients : proc[c].op = "version" /\ DeleteBlob(c) =>
          \A i \in Present(rows) :
              rows[i].up # proc[c].up /\ ~IsDeleteMarker(rows[i])
                  => blob'[rows[i].key] = blob[rows[i].key]]_vars

\* The orphan-blob scan acts only on blobs older than the grace period, "so
\* an in-flight upload that has not yet committed its DB row is never
\* deleted".
InFlightKept ==
    [][\A s \in Sweepers : DeleteOrphan(s) =>
          \A c \in Clients : proc[c].pc = "row" =>
              blob'[StorageKey(proc[c].up)] = blob[StorageKey(proc[c].up)]]_vars
=============================================================================
