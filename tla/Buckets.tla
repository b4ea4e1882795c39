------------------------------- MODULE Buckets -------------------------------
(***************************************************************************)
(* One bucket: its row with the settings, its objects, and the requests    *)
(* that create it, configure it, fill it and delete it over REST and S3.   *)
(* No request holds a lock or a transaction across its statements: a       *)
(* setter creates the bucket and then updates it, an upload stores bytes,  *)
(* row and usage one after the other, and a deletion works from a list it  *)
(* made at its start.  The CORS rules are also kept in a cache of the      *)
(* server, which only the REST handlers invalidate.                        *)
(* Authorization and the documents' formats are left out; of the settings  *)
(* two columns stand for all: "cors", the cached one, and "other".         *)
(***************************************************************************)
EXTENDS Naturals, FiniteSets

CONSTANTS
    BucketCallers,  \* the requests, each made once
    BucketPlans,    \* what they ask: functions of the callers to [op, door, col]
    Elsewhere,      \* objects the tenant has in its other buckets
    MaxExpiries     \* bound: entries of the cache that expire

VARIABLES
    row,      \* the buckets row: its columns, or NoBucket
    rows,     \* object rows: the caller that uploaded them
    trashed,  \* those that are soft-deleted
    held,     \* those under a legal hold
    blobs,    \* stored bytes, by uploader
    usage,    \* the tenant's used_objects
    cache,    \* the CORS rules kept by the server, or NoEntry
    plan,     \* what every caller asks
    call,     \* how far it is
    expiries, \* entries expired so far
    log       \* history, see NoLog

bucketVars == <<row, rows, trashed, held, blobs, usage, cache, plan, call, expiries, log>>

NoBucket == [cors |-> 0, other |-> 0, exists |-> FALSE]
Fresh == [NoBucket EXCEPT !.exists = TRUE]
NoEntry == [rules |-> 0, kept |-> FALSE]

\* pc    the next step               rules  the CORS rules read
\* list  the rows a deletion found   owed   the usage it will give back
\* spare rows the deletion saw and may not remove
Waiting == [pc |-> "start", list |-> {}, owed |-> 0, spare |-> {}, rules |-> 0]

\* clash   a deletion overlapped an upload or another deletion
\* broken  a deletion stopped half-way
\* lost    setters that updated no row        deleted requests a deletion overlapped
\* wiped   rows removed by a deletion that had to spare them
\* stale   the cached rules may be older than the row's
NoLog == [clash |-> FALSE, broken |-> FALSE, lost |-> {}, deleted |-> {},
          wiped |-> {}, stale |-> FALSE]

Init ==
    /\ row = NoBucket /\ rows = {} /\ trashed = {} /\ held = {} /\ blobs = {}
    /\ usage = Elsewhere /\ cache = NoEntry /\ expiries = 0 /\ log = NoLog
    /\ plan \in BucketPlans
    /\ call = [c \in BucketCallers |-> Waiting]

Op(c) == plan[c].op
At(c, pc) == call[c].pc = pc
Goes(c, pc) == call' = [call EXCEPT ![c].pc = pc]
Done(c) == call[c].pc \in {"ok", "refused"}
Running(c) == ~Done(c) /\ ~At(c, "start")
Deleting(c) == Op(c) = "delete" /\ Running(c) /\ ~At(c, "list")
objectState == <<rows, trashed, held, blobs, usage>>
others == <<plan, expiries>>

-----------------------------------------------------------------------------
(* The row: repository/sql_buckets.go *)

\* INSERT ... ON CONFLICT DO NOTHING.
CreateBucket(r) == IF r.exists THEN r ELSE Fresh

\* UPDATE buckets SET col: no row, no effect, and no error either.
UpdateColumn(r, col, v) ==
    IF ~r.exists THEN r
    ELSE [r EXCEPT !.cors = IF col = "cors" THEN v ELSE @,
                   !.other = IF col = "other" THEN v ELSE @]

\* A column that changes under the cache.
Outdates(r) == cache.kept /\ cache.rules # r.cors

-----------------------------------------------------------------------------
(* Creating and configuring *)

\* REST CreateBucket and S3 createBucket, which may go on to set the ACL.
Creates(c) ==
    /\ Op(c) = "create" /\ At(c, "start")
    /\ row' = CreateBucket(row)
    /\ Goes(c, IF plan[c].col = "other" THEN "update" ELSE "ok")
    /\ UNCHANGED <<objectState, cache, log, others>>

\* Mutant: the setter creates the bucket after it has updated it.
SetCreatesLate(c) ==
    /\ Op(c) = "set" /\ At(c, "start")
    /\ Goes(c, "update")
    /\ UNCHANGED <<row, objectState, cache, log, others>>

\* A setter's first statement.
SetCreates(c) ==
    /\ Op(c) = "set" /\ At(c, "start")
    /\ row' = CreateBucket(row)
    /\ Goes(c, "update")
    /\ UNCHANGED <<objectState, cache, log, others>>

\* Its second.  REST's PutBucketCORS goes on to InvalidateBucket.
AfterWrite(c) == IF plan[c].door = "rest" /\ plan[c].col = "cors" THEN "invalidate" ELSE "ok"

SetUpdates(c) ==
    /\ At(c, "update")
    /\ row' = UpdateColumn(row, plan[c].col, c)
    /\ log' = [log EXCEPT
         !.lost = IF row.exists THEN @ ELSE @ \cup {c},
         !.stale = @ \/ (Outdates(row') /\ AfterWrite(c) = "ok")]
    /\ Goes(c, AfterWrite(c))
    /\ UNCHANGED <<objectState, cache, others>>

\* The deletion of a setting updates only.
Unsets(c) ==
    /\ Op(c) = "unset" /\ At(c, "start")
    /\ row' = UpdateColumn(row, plan[c].col, 0)
    /\ log' = [log EXCEPT !.stale = @ \/ (Outdates(row') /\ AfterWrite(c) = "ok")]
    /\ Goes(c, AfterWrite(c))
    /\ UNCHANGED <<objectState, cache, others>>

\* Mutant: the entry is invalidated for no bucket.
InvalidateNothing(c) ==
    /\ At(c, "invalidate")
    /\ Goes(c, "ok")
    /\ UNCHANGED <<row, objectState, cache, log, others>>

InvalidateBucket(c) ==
    /\ At(c, "invalidate")
    /\ cache' = NoEntry
    /\ log' = [log EXCEPT !.stale = FALSE]
    /\ Goes(c, "ok")
    /\ UNCHANGED <<row, objectState, others>>

-----------------------------------------------------------------------------
(* Reading: GET of the CORS rules, and BucketCORS of any cross-origin request *)

\* GetBucketCORS creates the bucket it reads.
GetBucketCORS(r) == CreateBucket(r)

\* The middleware answers from its entry while that is kept.
BucketCORS(c) ==
    /\ Op(c) = "origin" /\ At(c, "start") /\ cache.kept
    /\ Goes(c, "ok")
    /\ UNCHANGED <<row, objectState, cache, log, others>>

ReadsRules(c) ==
    /\ Op(c) = "origin" /\ At(c, "start") /\ ~cache.kept
    /\ row' = GetBucketCORS(row)
    /\ call' = [call EXCEPT ![c].pc = "keep", ![c].rules = row'.cors]
    /\ UNCHANGED <<objectState, cache, log, others>>

\* GetCORSRules keeps what it read, whatever happened since.
KeepsRules(c) ==
    /\ At(c, "keep")
    /\ cache' = [rules |-> call[c].rules, kept |-> TRUE]
    /\ log' = [log EXCEPT !.stale = call[c].rules # row.cors]
    /\ Goes(c, "ok")
    /\ UNCHANGED <<row, objectState, others>>

\* The TTL is over, or evictExpired came by.
EntryExpires ==
    /\ expiries < MaxExpiries /\ cache.kept
    /\ cache' = NoEntry /\ expiries' = expiries + 1
    /\ log' = [log EXCEPT !.stale = FALSE]
    /\ UNCHANGED <<row, objectState, plan, call>>

-----------------------------------------------------------------------------
(* Objects *)

\* Put: the bucket, the bytes, the row, the usage.
PutCreates(c) ==
    /\ Op(c) = "put" /\ At(c, "start")
    /\ row' = CreateBucket(row)
    /\ log' = [log EXCEPT !.clash = @ \/ \E d \in BucketCallers : Deleting(d)]
    /\ Goes(c, "bytes")
    /\ UNCHANGED <<objectState, cache, others>>

PutStores(c) ==
    /\ At(c, "bytes")
    /\ blobs' = blobs \cup {c}
    /\ Goes(c, "row")
    /\ UNCHANGED <<row, rows, trashed, held, usage, cache, log, others>>

PutInserts(c) ==
    /\ At(c, "row")
    /\ rows' = rows \cup {c}
    /\ Goes(c, "usage")
    /\ UNCHANGED <<row, trashed, held, blobs, usage, cache, log, others>>

PutAccounts(c) ==
    /\ At(c, "usage") /\ Op(c) = "put"
    /\ usage' = usage + 1
    /\ Goes(c, "ok")
    /\ UNCHANGED <<row, rows, trashed, held, blobs, cache, log, others>>

\* A soft deletion, in one step here, and a legal hold.
Trashes(c) ==
    /\ Op(c) = "trash" /\ At(c, "start")
    /\ \E o \in (rows \ trashed) \ held :
          /\ trashed' = trashed \cup {o}
          /\ usage' = IF usage > 0 THEN usage - 1 ELSE 0
    /\ log' = [log EXCEPT !.clash = @ \/ \E d \in BucketCallers : Running(d)]
    /\ Goes(c, "ok")
    /\ UNCHANGED <<row, rows, held, blobs, cache, others>>

Holds(c) ==
    /\ Op(c) = "hold" /\ At(c, "start")
    /\ \E o \in rows : held' = held \cup {o}
    /\ Goes(c, "ok")
    /\ UNCHANGED <<row, rows, trashed, blobs, usage, cache, log, others>>

-----------------------------------------------------------------------------
(* Deleting the bucket *)

\* Mutant: the S3 handler asks only whether the bucket exists.
deleteBucketUnasked(c) ==
    /\ Op(c) = "delete" /\ At(c, "start") /\ plan[c].door = "s3"
    /\ call' = [call EXCEPT ![c].pc = IF row.exists THEN "list" ELSE "refused",
                            ![c].spare = rows]
    /\ UNCHANGED <<row, objectState, cache, log, others>>

\* S3 deleteBucket: the bucket must exist and be empty.
deleteBucket(c) ==
    /\ Op(c) = "delete" /\ At(c, "start") /\ plan[c].door = "s3"
    /\ call' = [call EXCEPT ![c].pc = IF row.exists /\ rows = {} THEN "list" ELSE "refused",
                            ![c].spare = rows]
    /\ UNCHANGED <<row, objectState, cache, log, others>>

\* Mutant: soft-deleted objects are taken off the usage again.
countedAll(list) == Cardinality(list)

\* What is soft-deleted was taken off before.
countedObjectUsage(list) == Cardinality(list \ trashed)

\* Mutant: only live objects are asked whether they are protected.
LiveNotHeld(list) == (list \ trashed) \cap held = {}

\* checkObjectProtection for every object of the list.
NoneHeld(list) == list \cap held = {}

\* FileService.DeleteBucket lists every version, soft-deleted ones included,
\* and asks for each whether it is protected.
DeleteLists(c) ==
    /\ Op(c) = "delete"
    /\ At(c, "list") \/ (At(c, "start") /\ plan[c].door = "rest")
    /\ call' = [call EXCEPT ![c] =
                  [@ EXCEPT !.pc = IF NoneHeld(rows) THEN "data" ELSE "refused",
                            !.list = rows, !.owed = countedObjectUsage(rows),
                            !.spare = @ \cup (rows \cap held)]]
    /\ log' = [log EXCEPT !.clash = @ \/ \E d \in BucketCallers \ {c} :
                  (Op(d) = "put" /\ Running(d)) \/ Deleting(d)]
    /\ UNCHANGED <<row, objectState, cache, others>>

\* deleteBucketData: the bytes, one storage key at a time; the first error
\* ends the request.
DeleteData(c) ==
    /\ At(c, "data")
    /\ \/ /\ \E o \in call[c].list \cap blobs : blobs' = blobs \ {o}
          /\ UNCHANGED <<call, log>>
       \/ /\ call[c].list \cap blobs = {} /\ UNCHANGED <<blobs, log>>
          /\ Goes(c, "rows")
       \/ /\ call[c].list \cap blobs # {} /\ UNCHANGED blobs
          /\ log' = [log EXCEPT !.broken = TRUE] /\ Goes(c, "refused")
    /\ UNCHANGED <<row, rows, trashed, held, usage, cache, others>>

\* repository DeleteBucket: one transaction over everything the bucket has
\* now; without a row it is ErrNotFound.
DeleteRows(c) ==
    /\ At(c, "rows")
    /\ IF row.exists
       THEN /\ row' = NoBucket /\ rows' = {} /\ trashed' = {} /\ held' = {}
            /\ Goes(c, "usage")
            /\ log' = [log EXCEPT
                 !.deleted = @ \cup {d \in BucketCallers : Running(d)},
                 !.wiped = @ \cup (call[c].spare \cap rows),
                 !.stale = @ \/ (cache.kept /\ cache.rules # 0)]
       ELSE UNCHANGED <<row, rows, trashed, held, log>> /\ Goes(c, "refused")
    /\ UNCHANGED <<blobs, usage, cache, others>>

DeleteAccounts(c) ==
    /\ At(c, "usage") /\ Op(c) = "delete"
    /\ usage' = IF usage > call[c].owed THEN usage - call[c].owed ELSE 0
    /\ Goes(c, "ok")
    /\ UNCHANGED <<row, rows, trashed, held, blobs, cache, log, others>>

Next ==
    \/ EntryExpires
    \/ \E c \in BucketCallers :
          \/ Creates(c) \/ SetCreates(c) \/ SetUpdates(c) \/ Unsets(c)
          \/ InvalidateBucket(c) \/ BucketCORS(c) \/ ReadsRules(c) \/ KeepsRules(c)
          \/ PutCreates(c) \/ PutStores(c) \/ PutInserts(c) \/ PutAccounts(c)
          \/ Trashes(c) \/ Holds(c)
          \/ deleteBucket(c) \/ DeleteLists(c) \/ DeleteData(c)
          \/ DeleteRows(c) \/ DeleteAccounts(c)

Spec == Init /\ [][Next]_bucketVars

-----------------------------------------------------------------------------
TypeOK ==
    /\ row.cors \in BucketCallers \cup {0} /\ row.other \in BucketCallers \cup {0}
    /\ rows \subseteq BucketCallers /\ blobs \subseteq BucketCallers
    /\ trashed \subseteq rows /\ held \subseteq rows
    /\ usage \in 0..(Elsewhere + Cardinality(BucketCallers)) /\ expiries \in 0..MaxExpiries

\* A setting the server acknowledged was written, unless a deletion of the
\* bucket ran between the setter's two statements (CreateBucket, UPDATE): then
\* it is lost and no error says so.
SettingsWritten == log.lost \subseteq log.deleted

\* A deletion of the bucket never removes an object that was under a legal
\* hold when it looked, nor (S3) one that was there when it found the bucket
\* empty.  What came later it removes unasked.
SparedStay == log.wiped = {}

\* Once nothing runs, and if no deletion overlapped an upload or another
\* deletion and none broke off, rows, bytes and usage agree.
Settled == \A c \in BucketCallers : ~Running(c)
DeletionAccounted ==
    Settled /\ ~log.clash /\ ~log.broken
        => usage = Elsewhere + Cardinality(rows \ trashed) /\ blobs = rows

\* The rules the server keeps are the row's, or older only because S3 wrote
\* them or the bucket was deleted (neither invalidates), because the reading
\* overlapped a write, or because a REST write is about to invalidate.
CacheExplained ==
    cache.kept /\ cache.rules # row.cors
        => log.stale \/ \E c \in BucketCallers : At(c, "invalidate")
=============================================================================
