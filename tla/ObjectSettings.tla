--------------------------- MODULE ObjectSettings ---------------------------
(***************************************************************************)
(* What is said of an object besides its content: retention date and mode, *)
(* legal holds, tags, ACL, user metadata and the service's own metadata    *)
(* (internal/service/object_retention.go, file_features.go, acl.go over    *)
(* internal/repository/sql_tags_acl.go, sql_objects_maint.go and           *)
(* sql_legal_holds.go), and the scrubber, which reads a digest and sets a  *)
(* flag in that metadata (internal/reconcile/scrub.go).                    *)
(*                                                                         *)
(* The module has one key of a versioned bucket.  Every request reads a    *)
(* row and then writes, some by the id they read, some by key, that is to  *)
(* the row live by then; some merge into the metadata, and some write all  *)
(* of it back.                                                             *)
(***************************************************************************)
EXTENDS Naturals, Sequences, FiniteSets

CONSTANTS
    Clients,        \* requests at a time
    Asks,           \* the requests: [op : {"retain"}, id, until, mode], [op : {"hold"}, id, status],
                    \* [op : {"putMeta"}, user], [op : {"patchMeta", "deleteKey"}, key],
                    \* [op : {"tags"}, tags], [op : {"acl"}, acl]; id 0 is the live version
    UserKeys,       \* keys of user metadata
    MaxRows,        \* versions of the key
    MaxUntil,       \* retention dates 1..MaxUntil, all in the future; 0 is none
    MaxRequests,    \* requests in all
    MaxDamage,      \* blobs damaged, in all
    MaxPasses       \* visits of the scrubber to the key

VARIABLES
    rows,       \* the rows of the key, oldest first
    live,       \* the row that is not deleted, or 0
    rot,        \* rows whose blob is damaged
    held,       \* rows with a legal hold
    req,        \* client -> its request and the row it read
    scrub,      \* the scrubber's current object
    want,       \* what the acknowledged requests said of each row
    stale,      \* rows written back over a change the writer had not read
    misled,     \* rows whose flag such a write, a late mark or a repair explains
    known,      \* damaged rows the scrubber has marked
    spent       \* [requests, damage, passes] so far

settingVars == <<rows, live, rot, held, req, scrub, want, stale, misled, known, spent>>

Modes == {"GOVERNANCE", "COMPLIANCE"}
ACLs == {"private", "public-read"}
Row == [md5 : 0..MaxRows, flag : BOOLEAN, mode : Modes \cup {"none"}, user : SUBSET UserKeys,
        until : 0..MaxUntil, tags : 0..1, acl : ACLs \cup {""}]
NoRow == [md5 |-> 0, flag |-> FALSE, mode |-> "none", user |-> {}, until |-> 0, tags |-> 0, acl |-> ""]
NoAsk == [op |-> "none"]
Idle == [at |-> "idle", ask |-> NoAsk, got |-> 0, seen |-> NoRow]
Resting == [at |-> "idle", got |-> 0, seen |-> NoRow, equal |-> FALSE, base |-> 0]

Init ==
    /\ rows = <<>> /\ live = 0 /\ rot = {} /\ held = {} /\ want = <<>>
    /\ req = [c \in Clients |-> Idle] /\ scrub = Resting
    /\ stale = {} /\ misled = {} /\ known = {} /\ spent = [requests |-> 0, damage |-> 0, passes |-> 0]

NeverMind == UNCHANGED <<rows, live, rot, held, scrub, want, stale, misled, known>>
-----------------------------------------------------------------------------
(* What is shown *)

\* A row without a mode is shown as governed.
ObjectRetentionMode(r) == IF r.mode = "none" THEN "GOVERNANCE" ELSE r.mode
GetObjectRetention(r) == [until |-> r.until, mode |-> ObjectRetentionMode(r)]
GetMetadata(r) == r.user
GetTags(r) == r.tags
GetObjectACL(r) == IF r.acl = "" THEN "private" ELSE r.acl
GetLegalHold(id) == id \in held
Shown(id) ==
    [lock |-> GetObjectRetention(rows[id]), user |-> GetMetadata(rows[id]), tags |-> GetTags(rows[id]),
     acl |-> GetObjectACL(rows[id]), hold |-> GetLegalHold(id)]
-----------------------------------------------------------------------------
(* Uploads, deletes and damage *)

\* An upload into a versioned bucket makes a new live row; Content-MD5 is kept
\* when the client sent it.
Put ==
    /\ Len(rows) < MaxRows
    /\ \E md5 \in {0, Len(rows) + 1}, user \in {{}, UserKeys} :
          /\ rows' = Append(rows, [NoRow EXCEPT !.md5 = md5, !.user = user])
          /\ want' = Append(want, [lock |-> [until |-> 0, mode |-> "GOVERNANCE"], user |-> user,
                                   tags |-> 0, acl |-> "private", hold |-> FALSE])
    /\ live' = Len(rows) + 1
    /\ UNCHANGED <<rot, held, req, scrub, stale, misled, known, spent>>

\* checkObjectProtection: a soft delete needs a row neither retained nor held.
Delete ==
    /\ live # 0 /\ rows[live].until = 0 /\ live \notin held
    /\ live' = 0
    /\ UNCHANGED <<rows, rot, held, req, scrub, want, stale, misled, known, spent>>

\* The blob's bytes change on the disk; an operator restores them.
Damage(id) ==
    /\ id \notin rot /\ spent.damage < MaxDamage
    /\ rot' = rot \cup {id} /\ spent' = [spent EXCEPT !.damage = @ + 1]
    /\ UNCHANGED <<rows, live, held, req, scrub, want, stale, misled, known>>
Repair(id) ==
    /\ id \in rot /\ rot' = rot \ {id} /\ misled' = misled \cup {id} /\ known' = known \ {id}
    /\ UNCHANGED <<rows, live, held, req, scrub, want, stale, spent>>
-----------------------------------------------------------------------------
(* The requests: the read *)

\* Mutant: no comparison with the date in force.
MayRetainAny(seen, until) == until > 0 /\ seen.until >= 0
\* A date can be extended and not shortened.
MayRetain(seen, until) == ~(seen.until > until)

\* objectVersion: the row of the version asked for, or the live one.
objectVersion(id) == IF id = 0 THEN live ELSE IF id <= Len(rows) THEN id ELSE 0

Reads(c, ask) ==
    LET got == IF ask.op \in {"retain", "hold"} THEN objectVersion(ask.id) ELSE live IN
    /\ req[c].at = "idle" /\ spent.requests < MaxRequests
    /\ got # 0
    /\ ask.op = "retain" => MayRetain(rows[got], ask.until)
    /\ spent' = [spent EXCEPT !.requests = @ + 1]
    /\ req' = [req EXCEPT ![c] = [at |-> "write", ask |-> ask, got |-> got, seen |-> rows[got]]]
    /\ NeverMind
-----------------------------------------------------------------------------
(* The requests: the write *)

\* Mutant: the service's own metadata go with the user's.
systemNone(r) == [md5 |-> 0, flag |-> r.flag, mode |-> "none"]
\* The keys under _aero_.
systemMetadata(r) == [md5 |-> r.md5, flag |-> r.flag, mode |-> r.mode]
Metadata(r) == <<r.md5, r.flag, r.mode, r.user>>

Says(id, field, value) == want' = [want EXCEPT ![id] = [@ EXCEPT ![field] = value]]
Explains(id, upset) ==
    /\ stale' = IF upset THEN stale \cup {id} ELSE stale
    /\ misled' = IF upset THEN misled \cup {id} ELSE misled

\* By id: the date, and all of the metadata as they were read, with the mode.
SetObjectRetention(c) ==
    LET id == req[c].got
        seen == req[c].seen
        ask == req[c].ask IN
    /\ ask.op = "retain"
    /\ rows' = [rows EXCEPT ![id].until = ask.until, ![id].mode = ask.mode, ![id].md5 = seen.md5,
                            ![id].flag = seen.flag, ![id].user = seen.user]
    /\ Says(id, "lock", [until |-> ask.until, mode |-> ask.mode])
    /\ Explains(id, rows[id].until # seen.until \/ Metadata(rows[id]) # Metadata(seen))
    /\ UNCHANGED held

\* By key: the user's metadata, with the service's as they were read.
ReplaceObjectMetadata(r, user, sys) ==
    [r EXCEPT !.user = user, !.md5 = sys.md5, !.flag = sys.flag, !.mode = sys.mode]
PutMetadata(c) ==
    LET sys == systemMetadata(req[c].seen)
        ask == req[c].ask IN
    /\ ask.op = "putMeta"
    /\ rows' = [rows EXCEPT ![live] = ReplaceObjectMetadata(@, ask.user, sys)]
    /\ Says(live, "user", ask.user)
    /\ Explains(live, live # req[c].got \/ systemMetadata(rows[live]) # systemMetadata(req[c].seen))
    /\ UNCHANGED held

\* Merged by the database into what is there.
mergeObjectMetadata(r, key) == [r EXCEPT !.user = @ \cup {key}]
DeleteObjectMetaKey(r, key) == [r EXCEPT !.user = @ \ {key}]

PatchMetadata(c) ==
    LET ask == req[c].ask IN
    /\ \/ /\ ask.op = "patchMeta" /\ rows' = [rows EXCEPT ![live] = mergeObjectMetadata(@, ask.key)]
          /\ Says(live, "user", want[live].user \cup {ask.key})
       \/ /\ ask.op = "deleteKey" /\ rows' = [rows EXCEPT ![live] = DeleteObjectMetaKey(@, ask.key)]
          /\ Says(live, "user", want[live].user \ {ask.key})
    /\ UNCHANGED <<held, stale, misled>>

UpdateTags(c) ==
    /\ req[c].ask.op = "tags"
    /\ rows' = [rows EXCEPT ![live].tags = req[c].ask.tags] /\ Says(live, "tags", req[c].ask.tags)
    /\ UNCHANGED <<held, stale, misled>>

SetObjectACL(c) ==
    /\ req[c].ask.op = "acl"
    /\ rows' = [rows EXCEPT ![live].acl = req[c].ask.acl] /\ Says(live, "acl", req[c].ask.acl)
    /\ UNCHANGED <<held, stale, misled>>

\* By id and version; taking off a hold that is not there is an error.
PutLegalHold(id) == held \cup {id}
RemoveLegalHold(id) == held \ {id}
putObjectLegalHold(c) ==
    LET id == req[c].got IN
    /\ req[c].ask.op = "hold"
    /\ held' = IF req[c].ask.status = "ON" THEN PutLegalHold(id) ELSE RemoveLegalHold(id)
    /\ Says(id, "hold", req[c].ask.status = "ON")
    /\ UNCHANGED <<rows, stale, misled>>

ByKey(c) == req[c].ask.op \in {"putMeta", "patchMeta", "deleteKey", "tags", "acl"}

\* A write by key that finds no live row is ErrNotFound.
Writes(c) ==
    /\ req[c].at = "write"
    /\ req' = [req EXCEPT ![c] = Idle]
    /\ IF ByKey(c) /\ live = 0 THEN UNCHANGED <<rows, want, held, stale, misled>>
       ELSE \/ SetObjectRetention(c) \/ PutMetadata(c) \/ PatchMetadata(c)
            \/ UpdateTags(c) \/ SetObjectACL(c) \/ putObjectLegalHold(c)
    /\ UNCHANGED <<live, rot, scrub, known, spent>>
-----------------------------------------------------------------------------
(* The scrubber *)

\* scrubObjectResult: a live row with a digest.
scrubObject ==
    /\ scrub.at = "idle" /\ live # 0 /\ rows[live].md5 # 0
    /\ spent.passes < MaxPasses /\ spent' = [spent EXCEPT !.passes = @ + 1]
    /\ scrub' = [Resting EXCEPT !.at = "read", !.got = live, !.seen = rows[live]]
    /\ UNCHANGED <<rows, live, rot, held, req, want, stale, misled, known>>

\* The digest of the stored bytes; damaged ones fit no digest on record.
readScrubDigest ==
    /\ scrub.at = "read"
    /\ scrub' = [scrub EXCEPT !.at = "check", !.equal = scrub.got \notin rot /\ scrub.got = scrub.seen.md5]
    /\ UNCHANGED <<rows, live, rot, held, req, want, stale, misled, known, spent>>

\* Mutant: the row is not looked at again.
StillSameTrusted(s) == s.got \in DOMAIN rows
\* The second look by id: neither deleted since nor under another digest.
StillSame(s) == live = s.got /\ rows[s.got].md5 = s.seen.md5

verifyScrubContent ==
    /\ scrub.at = "check"
    /\ scrub' = IF StillSame(scrub)
                THEN [scrub EXCEPT !.at = "mark", !.seen = rows[scrub.got], !.base = live]
                ELSE Resting
    /\ UNCHANGED <<rows, live, rot, held, req, want, stale, misled, known, spent>>

\* By key: the flag goes to the row live by now.
markScrubCorrupt ==
    /\ ~scrub.equal
    /\ rows' = [rows EXCEPT ![live].flag = TRUE]
    /\ misled' = IF live # scrub.base THEN misled \cup {live} ELSE misled
    /\ known' = IF live = scrub.got /\ live \in rot THEN known \cup {live} ELSE known
clearCorruptFlag ==
    /\ scrub.equal
    /\ rows' = IF scrub.seen.flag THEN [rows EXCEPT ![live].flag = FALSE] ELSE rows
    /\ misled' = IF ~scrub.seen.flag THEN misled
                 ELSE IF live = scrub.base /\ rows[live].md5 \in {0, live} THEN misled \ {live}
                 ELSE IF live \in known THEN misled \cup {live} ELSE misled
    /\ UNCHANGED known

ScrubWrites ==
    /\ scrub.at = "mark" /\ scrub' = Resting
    /\ IF live = 0 THEN UNCHANGED <<rows, misled, known>> ELSE markScrubCorrupt \/ clearCorruptFlag
    /\ UNCHANGED <<live, rot, held, req, want, stale, spent>>

Next ==
    \/ Put \/ Delete
    \/ \E id \in DOMAIN rows : Damage(id) \/ Repair(id)
    \/ \E c \in Clients : Writes(c) \/ \E ask \in Asks : Reads(c, ask)
    \/ scrubObject \/ readScrubDigest \/ verifyScrubContent \/ ScrubWrites
-----------------------------------------------------------------------------
TypeOK ==
    /\ rows \in Seq(Row) /\ Len(rows) <= MaxRows /\ live \in 0..Len(rows)
    /\ {rot, held, stale, misled, known} \subseteq SUBSET (DOMAIN rows)
    /\ \A c \in Clients : req[c].at \in {"idle", "write"} /\ req[c].seen \in Row
    /\ scrub.at \in {"idle", "read", "check", "mark"} /\ scrub.seen \in Row

\* What is shown of a version is what the acknowledged requests said of it, in
\* the order of their writes, unless a request wrote metadata back over a change
\* it had not read: merges, tags, ACLs and holds never disturb each other or the
\* retention (PutMetadata, PatchMetadata, SetObjectRetention).
SettingsKept == \A id \in DOMAIN rows \ stale : Shown(id) = want[id]

\* Reads of a sound object are refused as corrupt only when a write overlapped
\* with another, a mark came after an upload, or the blob was repaired; and a
\* damaged one stays refused but for the same reasons (scrub.go:115-130).
FlagExplained ==
    \A id \in DOMAIN rows \ misled :
        /\ rows[id].flag => id \in rot
        /\ id \in known => rows[id].flag

\* "Existing retention can be extended but never shortened through this API"
\* (object_retention.go:31) holds but for a request that had not read the date.
RetentionForward ==
    \A id \in DOMAIN rows : rows'[id].until < rows[id].until => id \in stale'
=============================================================================
