--------------------------- MODULE ObjectWorkers ---------------------------
(***************************************************************************)
(* The asynchronous workers behind an upload: the antivirus scan and the   *)
(* replication copy.  An upload publishes a created event; each worker's   *)
(* bridge turns the events of its bus subscription into jobs deduplicated  *)
(* by row id; each handler reads the row, then the blob, acts, and writes  *)
(* back the tags it read with its own status added.  The resync sweep      *)
(* re-enqueues live rows without a replication status.                     *)
(*                                                                         *)
(* One object key.  An upload is numbered, and its number stands for its   *)
(* content and for the tags its caller gave.  In a versioned bucket every  *)
(* upload has a row and a storage key of its own; in an unversioned one    *)
(* all of them share the row (UpsertObject keeps its id) and the blob.     *)
(* The job table is abstracted to what JobQueue establishes of it: at most *)
(* one live job per dedupe key, executed by one worker.                    *)
(***************************************************************************)
EXTENDS Naturals, Sequences

CONSTANTS
    Versioned,  \* is the bucket versioned?
    Kinds,      \* what an upload may be: "clean", "infected" or, encrypted with
                \* a customer key, "ssec"
    MaxPuts,    \* bound: uploads
    SubBuffer,  \* the depth of a subscriber channel
    MaxFaults   \* bound: failed handlers, refused enqueues, restarts

ASSUME WorkersAssumption ==
    /\ Versioned \in BOOLEAN
    /\ MaxPuts \in Nat \ {0} /\ SubBuffer \in Nat \ {0} /\ MaxFaults \in Nat
    /\ Kinds \subseteq {"clean", "infected", "ssec"}

VARIABLES
    kind,    \* what each upload so far is
    put,     \* the step the current upload is at, and its row
    rows,    \* object rows by id
    blob,    \* primary backend: the upload stored under a storage key
    replica, \* secondary backend, same keys
    chan,    \* row ids of the created events waiting in each subscription
    job,     \* job[t][id]: the live job of type t for row id
    local,   \* local[t][id]: where its handler is, and what it read
    faults

vars == <<kind, put, rows, blob, replica, chan, job, local, faults>>
world == <<rows, blob, replica>>

Types == {"scan", "replicate"}
Ids == 1..MaxPuts
puts == Len(kind)
Infected == {p \in 1..puts : kind[p] = "infected"}
SSEC == {p \in 1..puts : kind[p] = "ssec"}

Tags == [user : 0..MaxPuts, av : {"none", "clean", "infected"}, repl : {"none", "replicated", "skipped"}]
NewTags(p) == [user |-> p, av |-> "none", repl |-> "none"]
States == {"none", "live", "tombstone", "deleted", "quarantined", "gone"}
Row == [state : States, content : 0..MaxPuts, tags : Tags]
NoRow == [state |-> "none", content |-> 0, tags |-> NewTags(0)]
Local == [pc : {"idle", "load", "fetch", "apply", "tag", "quarantine"},
          tags : Tags, content : 0..MaxPuts]
Idle == [pc |-> "idle", tags |-> NewTags(0), content |-> 0]
NoPut == [at |-> "idle", id |-> 0]

Live == {id \in Ids : rows[id].state = "live"}

\* The storage key of a row, as the number of the row that first used it.
KeyOf(id) == IF Versioned THEN id ELSE 1

Init ==
    /\ kind = <<>> /\ put = NoPut /\ faults = 0
    /\ rows = [id \in Ids |-> NoRow]
    /\ blob = [id \in Ids |-> 0] /\ replica = [id \in Ids |-> 0]
    /\ chan = [t \in Types |-> <<>>]
    /\ job = [t \in Types |-> [id \in Ids |-> "none"]]
    /\ local = [t \in Types |-> [id \in Ids |-> Idle]]
-----------------------------------------------------------------------------
(* Uploads and deletes, as far as the workers see them. *)

PutBlob ==
    /\ put = NoPut /\ puts < MaxPuts
    /\ \E k \in Kinds : kind' = Append(kind, k)
    /\ blob' = [blob EXCEPT ![KeyOf(puts + 1)] = puts + 1]
    /\ put' = [at |-> "blob", id |-> 0]
    /\ UNCHANGED <<rows, replica, chan, job, local, faults>>

\* UpsertObject updates the live row in place; without one, and in a versioned
\* bucket, a row is inserted, and InsertObjectVersion tombstones the current one.
PutRow ==
    /\ put.at = "blob"
    /\ \E id \in Ids :
          /\ IF Versioned \/ Live = {} THEN id = puts ELSE id \in Live
          /\ rows' = [i \in Ids |->
                        IF i = id THEN [state |-> "live", content |-> puts, tags |-> NewTags(puts)]
                        ELSE IF i \in Live THEN [rows[i] EXCEPT !.state = "tombstone"]
                        ELSE rows[i]]
          /\ put' = [at |-> "row", id |-> id]
    /\ UNCHANGED <<kind, blob, replica, chan, job, local, faults>>

\* Mutant of broadcast: the event is queued beyond the channel's depth.
broadcastUnbounded(ch, id) == Append(ch, id)

\* A full subscriber misses the event.
broadcast(ch, id) == IF Len(ch) < SubBuffer THEN Append(ch, id) ELSE ch

\* emit -> Bus.Publish.
Publish ==
    /\ put.at = "row"
    /\ put' = NoPut
    /\ chan' = [t \in Types |-> broadcast(chan[t], put.id)]
    /\ UNCHANGED <<kind, world, job, local, faults>>

SoftDelete ==
    /\ put = NoPut
    /\ \E id \in Live : rows' = [rows EXCEPT ![id].state = "deleted"]
    /\ UNCHANGED <<kind, put, blob, replica, chan, job, local, faults>>
-----------------------------------------------------------------------------
(* Event bridges and the resync sweep. *)

\* EnqueueJob with the dedupe key "<type>:<row id>".
Enqueued(t, id) ==
    IF job[t][id] = "none" THEN [job EXCEPT ![t][id] = "pending"] ELSE job

\* Worker.Run of either worker; a refused enqueue (ErrQueueFull) is only logged.
Bridge(t) ==
    /\ chan[t] # <<>>
    /\ chan' = [chan EXCEPT ![t] = Tail(@)]
    /\ \/ /\ job' = Enqueued(t, Head(chan[t]))
          /\ UNCHANGED faults
       \/ /\ faults < MaxFaults
          /\ faults' = faults + 1
          /\ UNCHANGED job
    /\ UNCHANGED <<kind, put, world, local>>

\* Mutant of NeedsReplication: the sweep looks for a failure nobody records.
NeedsRepair(id) == id \in Live /\ rows[id].tags.repl = "failed"

NeedsReplication(id) ==
    id \in Live /\ rows[id].tags.repl \notin {"replicated", "skipped"}

sweepObject(id) ==
    /\ NeedsReplication(id)
    /\ job["replicate"][id] = "none"
    /\ job' = Enqueued("replicate", id)
    /\ UNCHANGED <<kind, put, world, chan, local, faults>>
-----------------------------------------------------------------------------
(* The handlers. *)

At(t, id, pc) == job[t][id] = "running" /\ local[t][id].pc = pc
Goto(t, id, pc, tags, content) ==
    local' = [local EXCEPT ![t][id] = [pc |-> pc, tags |-> tags, content |-> content]]
Done(t, id, status) ==
    /\ job' = [job EXCEPT ![t][id] = status]
    /\ local' = [local EXCEPT ![t][id] = Idle]

ClaimJob(t, id) ==
    /\ job[t][id] = "pending"
    /\ job' = [job EXCEPT ![t][id] = "running"]
    /\ Goto(t, id, "load", NewTags(0), 0)
    /\ UNCHANGED <<kind, put, world, chan, faults>>

\* GetObjectByID: tombstones and deleted rows are found too.
Load(t, id) ==
    /\ At(t, id, "load")
    /\ rows[id].state # "gone"
    /\ Goto(t, id, IF t = "replicate" /\ rows[id].content \in SSEC THEN "tag" ELSE "fetch",
            rows[id].tags, 0)
    /\ UNCHANGED <<kind, put, world, chan, job, faults>>

\* store.Get, and for the scan the verdict on what was read.
Fetch(t, id) ==
    /\ At(t, id, "fetch")
    /\ blob[KeyOf(id)] \notin {0} \cup SSEC
    /\ Goto(t, id, IF t = "replicate" THEN "apply" ELSE "tag", local[t][id].tags, blob[KeyOf(id)])
    /\ UNCHANGED <<kind, put, world, chan, job, faults>>

\* Mutant of ReplicaPut: the status is recorded as soon as the object was read.
ReplicaPutSkipped(id) ==
    /\ At("replicate", id, "apply")
    /\ Goto("replicate", id, "tag", local["replicate"][id].tags, local["replicate"][id].content)
    /\ UNCHANGED <<kind, put, world, chan, job, faults>>

\* replica.Put of the stream that was read.
ReplicaPut(id) ==
    /\ At("replicate", id, "apply")
    /\ replica' = [replica EXCEPT ![KeyOf(id)] = local["replicate"][id].content]
    /\ Goto("replicate", id, "tag", local["replicate"][id].tags, local["replicate"][id].content)
    /\ UNCHANGED <<kind, put, rows, blob, chan, job, faults>>

\* UpdateObjectTagsByID replaces the whole map.
SetObjectTagsByID(id, tags) ==
    rows' = [rows EXCEPT ![id].tags = tags]

\* recordStatus: a failed tag write is only logged.
recordStatus(id) ==
    LET l == local["replicate"][id]
        status == IF l.content = 0 THEN "skipped" ELSE "replicated" IN
    /\ At("replicate", id, "tag")
    /\ \/ /\ rows[id].state # "gone"
          /\ SetObjectTagsByID(id, [user |-> l.tags.user, av |-> l.tags.av, repl |-> status])
          /\ UNCHANGED faults
       \/ /\ faults < MaxFaults \/ rows[id].state = "gone"
          /\ faults' = IF rows[id].state = "gone" THEN faults ELSE faults + 1
          /\ UNCHANGED rows
    /\ Done("replicate", id, "none")
    /\ UNCHANGED <<kind, put, blob, replica, chan>>

\* Mutant of Verdict: res.Clean is read the wrong way round.
VerdictInverted(content) == IF content \in Infected THEN "clean" ELSE "infected"

Verdict(content) == IF content \in Infected THEN "infected" ELSE "clean"

\* Mutant of Quarantines: the verdict is not looked at.
QuarantinesAll(verdict) == TRUE

Quarantines(verdict) == verdict # "clean"

recordVerdict(id) ==
    LET l == local["scan"][id] IN
    /\ At("scan", id, "tag")
    /\ rows[id].state # "gone"
    /\ SetObjectTagsByID(id, [user |-> l.tags.user, av |-> Verdict(l.content), repl |-> l.tags.repl])
    /\ IF Quarantines(Verdict(l.content))
       THEN Goto("scan", id, "quarantine", l.tags, l.content) /\ UNCHANGED job
       ELSE Done("scan", id, "none")
    /\ UNCHANGED <<kind, put, blob, replica, chan, faults>>

\* QuarantineObjectByID reads the row again: a tombstone is removed with its
\* blob (DeleteVersion), a deleted row is left alone, a live one soft-deleted.
QuarantineObjectByID(id) ==
    /\ At("scan", id, "quarantine")
    /\ rows[id].state # "gone"
    /\ rows' = [rows EXCEPT ![id].state = CASE @ = "tombstone" -> "gone"
                                            [] @ = "live" -> "quarantined"
                                            [] OTHER -> @]
    /\ blob' = IF rows[id].state = "tombstone" THEN [blob EXCEPT ![KeyOf(id)] = 0] ELSE blob
    /\ Done("scan", id, "none")
    /\ UNCHANGED <<kind, put, replica, chan, faults>>

\* The row or the blob the handler asks for is not there, or needs a key.
Doomed(t, id) ==
    \/ rows[id].state = "gone"
    \/ At(t, id, "fetch") /\ blob[KeyOf(id)] \in {0} \cup SSEC

\* A handler's error: runOne retries the job or, its attempts used up, fails it.
HandlerFails(t, id) ==
    /\ job[t][id] = "running"
    /\ \/ Doomed(t, id) /\ UNCHANGED faults
       \/ ~Doomed(t, id) /\ faults < MaxFaults /\ faults' = faults + 1
    /\ \E status \in {"pending", "none"} : Done(t, id, status)
    /\ UNCHANGED <<kind, put, world, chan>>

\* The process restarts: subscriptions are in memory, jobs are not and are
\* reaped, an upload stops between two of its steps.
Restart ==
    /\ faults < MaxFaults
    /\ faults' = faults + 1
    /\ put' = NoPut
    /\ chan' = [t \in Types |-> <<>>]
    /\ job' = [t \in Types |-> [id \in Ids |->
                  IF job[t][id] = "running" THEN "pending" ELSE job[t][id]]]
    /\ local' = [t \in Types |-> [id \in Ids |-> Idle]]
    /\ UNCHANGED <<kind, world>>

Handler(t, id) ==
    \/ ClaimJob(t, id)
    \/ Load(t, id)
    \/ Fetch(t, id)
    \/ t = "replicate" /\ (ReplicaPut(id) \/ recordStatus(id))
    \/ t = "scan" /\ (recordVerdict(id) \/ QuarantineObjectByID(id))
    \/ HandlerFails(t, id)

Next ==
    \/ PutBlob \/ PutRow \/ Publish \/ SoftDelete
    \/ \E t \in Types : Bridge(t)
    \/ \E id \in Ids : sweepObject(id)
    \/ \E t \in Types, id \in Ids : Handler(t, id)
    \/ Restart

Spec == Init /\ [][Next]_vars

\* Bridges, the sweep's ticker and the job pool run as long as the process does.
Fairness ==
    /\ \A t \in Types : WF_vars(Bridge(t))
    /\ \A id \in Ids : WF_vars(sweepObject(id))
    /\ \A t \in Types, id \in Ids : WF_vars(Handler(t, id))

FairSpec == Spec /\ Fairness
-----------------------------------------------------------------------------
(* Properties. *)

\* Rows, channels, jobs and handlers have their types.
TypeOK ==
    /\ kind \in Seq(Kinds) /\ puts <= MaxPuts /\ faults \in 0..MaxFaults
    /\ put \in [at : {"idle", "blob", "row"}, id : 0..MaxPuts]
    /\ rows \in [Ids -> Row]
    /\ blob \in [Ids -> 0..MaxPuts] /\ replica \in [Ids -> 0..MaxPuts]
    /\ chan \in [Types -> Seq(Ids)] /\ \A t \in Types : Len(chan[t]) <= SubBuffer
    /\ job \in [Types -> [Ids -> {"none", "pending", "running"}]]
    /\ local \in [Types -> [Ids -> Local]]

\* A verdict tag speaks of the content of the row that carries it.
VerdictSound ==
    \A id \in Ids : rows[id].tags.av # "none"
                    => (rows[id].tags.av = "infected" <=> rows[id].content \in Infected)

\* repl_status=replicated is on a row only while the secondary backend holds
\* that row's content under its storage key.
ReplicaSound ==
    \A id \in Ids : rows[id].tags.repl = "replicated" => replica[KeyOf(id)] = rows[id].content

\* Only infected content is quarantined (QuarantineObjectByID: "soft-deletes one
\* exact version").
QuarantineSound ==
    \A id \in Ids : rows[id].state = "quarantined" => rows[id].content \in Infected

\* A live upload, not encrypted with a customer key, that the secondary
\* backend lacks: the resync sweep is to copy it, however events are dropped,
\* enqueues refused and handlers failed.
Unreplicated(id) ==
    id \in Live /\ rows[id].content \notin SSEC /\ replica[KeyOf(id)] # rows[id].content
=============================================================================
