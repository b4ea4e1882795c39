------------------------------ MODULE Indexing ------------------------------
(***************************************************************************)
(* The indexer (internal/ai/indexer*.go): object events become index_object *)
(* and delete_chunks jobs, whose workers rewrite the chunk rows of an       *)
(* object and the chunk sinks (BM25, Qdrant) behind the search.             *)
(*                                                                         *)
(* One object key of one bucket.  An overwrite keeps the row id in an       *)
(* unversioned bucket and takes a new id in a versioned one.  A text is     *)
(* numbered by the write that stored it; the chunks of one InsertChunks     *)
(* call are one batch, numbered because chunk ids are never reused.  One    *)
(* sink stands for each of them.  FileService has all of a row, JobQueue    *)
(* the queue; here a job is pending, running at a worker, or over.          *)
(***************************************************************************)
EXTENDS Integers, FiniteSets, Sequences

CONSTANTS
    Blank,         \* the texts that yield no chunk: empty, unsupported, SSE-C
    Runners,       \* workers of the job pool
    MaxWrites,     \* bound: puts and deletes of the key
    MaxFaults      \* bound: failing steps, expired leases, refused enqueues

VARIABLES
    versioned, \* whether the bucket keeps versions
    row,       \* the rows of the key: none, live, or gone (deleted, old)
    text,      \* the text under a row's storage key
    events,    \* the persisted events of the key, oldest first
    todo,      \* live jobs of the queue that no worker holds
    worker,    \* what a worker does
    chunks,    \* the chunk rows of an object: batches [text, n]
    sink,      \* the batches a sink holds for an object
    writes, faults,
    excused    \* ids written, or indexed twice, while an index run had them,
               \* and ids whose chunk cleanup failed with only a log line

indexVars == <<versioned, row, text, events, todo, worker, chunks, sink, writes, faults,
               excused>>

Ids == 1..MaxWrites
Batches == [text : Ids, n : 1..(2 * MaxWrites + MaxFaults)]
Jobs == [kind : {"index", "delete"}, id : Ids, event : 0..MaxWrites]
Idle == [pc |-> "idle"]

Live == {i \in Ids : row[i] = "live"}

Init ==
    /\ versioned \in BOOLEAN
    /\ row = [i \in Ids |-> "none"]
    /\ text = [i \in Ids |-> 0]
    /\ events = << >>
    /\ todo = {}
    /\ worker = [w \in Runners |-> Idle]
    /\ chunks = [i \in Ids |-> {}]
    /\ sink = [i \in Ids |-> {}]
    /\ writes = 0
    /\ faults = 0
    /\ excused = {}

\* Index runs that have read object i and not yet finished.
Loaded(i) == {w \in Runners : /\ worker[w].pc # "idle"
                              /\ worker[w].job.kind = "index"
                              /\ worker[w].job.id = i
                              /\ worker[w].pc # "start"}

Emit(type, i) ==
    events' = Append(events, [type |-> type, id |-> i, consumed |-> FALSE])

-----------------------------------------------------------------------------
(* The file service, in as much as the indexer sees of it.                  *)

\* The id a put writes: the live row of an unversioned bucket, or a new one.
PutID == IF versioned \/ Live = {} THEN writes + 1 ELSE CHOOSE i \in Live : TRUE

Put ==
    /\ writes < MaxWrites
    /\ row' = [i \in Ids |-> IF i = PutID THEN "live"
                             ELSE IF row[i] = "live" THEN "gone" ELSE row[i]]
    /\ text' = [text EXCEPT ![PutID] = writes + 1]
    /\ Emit("created", PutID)
    /\ writes' = writes + 1
    /\ excused' = excused
           \cup {i \in Live \cup {PutID} : Loaded(i) # {}}
    /\ UNCHANGED <<todo, worker, chunks, sink, faults>>

\* softDeleteObject: the indexer drops the object's chunks, then the row is
\* marked deleted; the event will have them dropped once more.
SoftDelete ==
    /\ writes < MaxWrites
    /\ \E i \in Live :
          /\ chunks' = [chunks EXCEPT ![i] = {}]
          /\ sink' = [sink EXCEPT ![i] = {}]
          /\ row' = [row EXCEPT ![i] = "gone"]
          /\ Emit("deleted", i)
          /\ excused' = excused \cup {j \in {i} : Loaded(j) # {}}
    /\ writes' = writes + 1
    /\ UNCHANGED <<text, todo, worker, faults>>

\* The cleanup fails, which is only logged.
SoftDeleteUnclean ==
    /\ writes < MaxWrites
    /\ faults < MaxFaults
    /\ faults' = faults + 1
    /\ \E i \in Live :
          /\ row' = [row EXCEPT ![i] = "gone"]
          /\ Emit("deleted", i)
          /\ excused' = excused \cup {j \in {i} : Loaded(j) # {}}
    /\ writes' = writes + 1
    /\ UNCHANGED <<text, todo, worker, chunks, sink>>

\* A hard delete of a row that is no longer live (a version's deletion, a
\* retention sweep): cleanHardDeleteChunks asks the indexer to drop the
\* object's chunks, and the foreign key of the chunk rows cascades.
Purge ==
    \E i \in Ids :
        /\ row[i] = "gone"
        /\ row' = [row EXCEPT ![i] = "none"]
        /\ chunks' = [chunks EXCEPT ![i] = {}]
        /\ sink' = [sink EXCEPT ![i] = {}]
        /\ excused' = excused \cup {j \in {i} : Loaded(j) # {}}
        /\ UNCHANGED <<text, events, todo, worker, writes, faults>>

\* The cleanup fails, which is only logged: nothing else knows the sink's
\* entries of this object.
PurgeUnclean ==
    \E i \in Ids :
        /\ row[i] = "gone"
        /\ faults < MaxFaults
        /\ faults' = faults + 1
        /\ row' = [row EXCEPT ![i] = "none"]
        /\ chunks' = [chunks EXCEPT ![i] = {}]
        /\ excused' = excused \cup {i}
        /\ UNCHANGED <<text, events, todo, worker, sink, writes>>

-----------------------------------------------------------------------------
(* Events to jobs.                                                          *)

Running == {worker[w].job : w \in {v \in Runners : worker[v].pc # "idle"}}

\* The dedupe key: the object for index_object, the event for delete_chunks.
Queued(j) == \E k \in todo \cup Running :
                 k.kind = j.kind /\ k.id = j.id /\ k.event = j.event

handleCreatedEvent(e) == [kind |-> "index", id |-> events[e].id, event |-> 0]
handleDeletedEvent(e) == [kind |-> "delete", id |-> events[e].id, event |-> e]

processEvent(e) == IF events[e].type = "created" THEN handleCreatedEvent(e)
                   ELSE handleDeletedEvent(e)

Enqueue(j) == todo' = IF Queued(j) THEN todo ELSE todo \cup {j}

\* Mutant of HandleFails: the event is consumed though Enqueue failed.
ConsumedAnyway(e) ==
    /\ ~events[e].consumed
    /\ faults < MaxFaults
    /\ faults' = faults + 1
    /\ events' = [events EXCEPT ![e].consumed = TRUE]
    /\ UNCHANGED <<row, text, todo, worker, chunks, sink, writes, excused>>

\* handle: the event is marked consumed only after its job is queued.  It
\* comes from the bus or from the backlog, in any order.
Handle(e) ==
    /\ ~events[e].consumed
    /\ Enqueue(processEvent(e))
    /\ events' = [events EXCEPT ![e].consumed = TRUE]
    /\ UNCHANGED <<row, text, worker, chunks, sink, writes, faults, excused>>

\* Enqueue fails, and the event stays in the backlog for drainBacklog.
HandleFails(e) ==
    /\ ~events[e].consumed
    /\ faults < MaxFaults
    /\ faults' = faults + 1
    /\ UNCHANGED <<row, text, events, todo, worker, chunks, sink, writes,
                   excused>>

\* MarkEventConsumed fails, or the bus and the backlog both bring the event:
\* the job is queued and the event will be handled again.
HandleTwice(e) ==
    /\ ~events[e].consumed
    /\ faults < MaxFaults
    /\ faults' = faults + 1
    /\ Enqueue(processEvent(e))
    /\ UNCHANGED <<row, text, events, worker, chunks, sink, writes, excused>>

-----------------------------------------------------------------------------
(* The workers.  A run goes through                                         *)
(*   start    the job is claimed                                            *)
(*   drop     chunk rows of the ids in `drop` are to be deleted             *)
(*   dropSink the chunk rows of `at` are deleted, its sink entry is next    *)
(*   read     the object was current, its text is to be read                *)
(*   replace  the text was read and embedded                                *)
(*   insert   the object's old chunk rows are deleted                       *)
(*   push     the new chunk rows are inserted, the sink is next             *)

Free(w) == worker[w].pc = "idle"
At(w, pc) == worker[w].pc = pc
Move(w, r) == worker' = [worker EXCEPT ![w] = r]

Claim(w) ==
    /\ Free(w)
    /\ \E j \in todo :
          /\ todo' = todo \ {j}
          /\ Move(w, [pc |-> "start", job |-> j])
    /\ UNCHANGED <<row, text, events, chunks, sink, writes, faults, excused>>

Drop(j, ids, then) == [pc |-> "drop", job |-> j, drop |-> ids, then |-> then]

\* deleteRefChunks of the ids that remain, and what the run does after it.
NextDrop(j, ids, then) ==
    IF ids # {} THEN Drop(j, ids, then)
    ELSE IF then = "read" THEN [pc |-> "read", job |-> j] ELSE Idle

\* executeDeleteChunkJobV2: the payload carries the ref, so that the rows
\* and the sink are cleaned even when the object row is gone.
executeDeleteChunkJobV2(w) ==
    /\ At(w, "start") /\ worker[w].job.kind = "delete"
    /\ Move(w, Drop(worker[w].job, {worker[w].job.id}, "done"))
    /\ UNCHANGED <<row, text, events, todo, chunks, sink, writes, faults,
                   excused>>

\* cleanupVanishedObject: the chunk rows are the only evidence of the ref;
\* without them the run fails, and is retried until it is given up.
cleanupVanishedObject(j) ==
    IF chunks[j.id] = {} THEN Idle ELSE Drop(j, {j.id}, "done")

\* Mutant of prepareCurrentObject: older versions keep their chunks.
PrepareNoVersions(j) ==
    IF j.id \notin Live THEN Drop(j, {j.id}, "done")
    ELSE [pc |-> "read", job |-> j]

\* prepareCurrentObject: an object that is not current loses its chunks; a
\* current one supersedes every other version of the key.
prepareCurrentObject(j) ==
    IF j.id \notin Live THEN Drop(j, {j.id}, "done")
    ELSE NextDrop(j, {i \in Ids \ {j.id} : row[i] # "none"}, "read")

indexObjectByID(w) ==
    /\ At(w, "start") /\ worker[w].job.kind = "index"
    /\ LET j == worker[w].job
       IN  /\ Move(w, IF row[j.id] = "none" THEN cleanupVanishedObject(j)
                      ELSE prepareCurrentObject(j))
           /\ excused' = excused \cup {i \in {j.id} : Loaded(i) # {}}
    /\ UNCHANGED <<row, text, events, todo, chunks, sink, writes, faults>>

\* deleteRefChunks: the chunk rows first, then the sink.
deleteRefChunks(w) ==
    /\ At(w, "drop")
    /\ \E i \in worker[w].drop :
          /\ chunks' = [chunks EXCEPT ![i] = {}]
          /\ Move(w, [pc |-> "dropSink", job |-> worker[w].job, at |-> i,
                      drop |-> worker[w].drop \ {i}, then |-> worker[w].then])
    /\ UNCHANGED <<row, text, events, todo, sink, writes, faults, excused>>

DeleteScopedObjectChunks(w) ==
    /\ At(w, "dropSink")
    /\ sink' = [sink EXCEPT ![worker[w].at] = {}]
    /\ Move(w, NextDrop(worker[w].job, worker[w].drop, worker[w].then))
    /\ UNCHANGED <<row, text, events, todo, chunks, writes, faults, excused>>

\* indexLoadedObject: the text read is the one stored now, whatever row was
\* loaded.  A text without chunks ends the run and leaves the old chunks.
ReadText(w) ==
    /\ At(w, "read")
    /\ LET j == worker[w].job IN
       Move(w, IF text[j.id] \in Blank THEN Idle
               ELSE [pc |-> "replace", job |-> j, text |-> text[j.id]])
    /\ UNCHANGED <<row, text, events, todo, chunks, sink, writes, faults,
                   excused>>

DeleteChunksForObject(w) ==
    /\ At(w, "replace")
    /\ chunks' = [chunks EXCEPT ![worker[w].job.id] = {}]
    /\ Move(w, [worker[w] EXCEPT !.pc = "insert"])
    /\ UNCHANGED <<row, text, events, todo, sink, writes, faults, excused>>

\* The error of the delete is only logged, and the old rows stay.
DeleteChunksFails(w) ==
    /\ At(w, "replace")
    /\ faults < MaxFaults
    /\ faults' = faults + 1
    /\ excused' = excused \cup {worker[w].job.id}
    /\ Move(w, [worker[w] EXCEPT !.pc = "insert"])
    /\ UNCHANGED <<row, text, events, todo, chunks, sink, writes>>

FreshBatch == CHOOSE n \in 1..(2 * MaxWrites + MaxFaults) :
                  \A i \in Ids : \A b \in chunks[i] \cup sink[i] : b.n # n

\* The foreign key refuses chunks of a purged object; the retried job then
\* finds nothing.
InsertChunks(w) ==
    /\ At(w, "insert")
    /\ LET j == worker[w].job IN
       IF row[j.id] = "none" THEN Move(w, Idle) /\ UNCHANGED chunks
       ELSE /\ chunks' = [chunks EXCEPT ![j.id] = @ \cup
                             {[text |-> worker[w].text, n |-> FreshBatch]}]
            /\ Move(w, [pc |-> "push", job |-> j])
    /\ UNCHANGED <<row, text, events, todo, sink, writes, faults, excused>>

\* pushToSinks rereads the rows; rows deleted meanwhile fail the run.
pushToSinks(w) ==
    /\ At(w, "push")
    /\ sink' = IF chunks[worker[w].job.id] = {} THEN sink
               ELSE [sink EXCEPT ![worker[w].job.id] = chunks[worker[w].job.id]]
    /\ Move(w, Idle)
    /\ UNCHANGED <<row, text, events, todo, chunks, writes, faults, excused>>

\* A step fails, or the process dies: the job is tried again from the start.
RunFails(w) ==
    /\ ~Free(w)
    /\ faults < MaxFaults
    /\ faults' = faults + 1
    /\ todo' = todo \cup {worker[w].job}
    /\ Move(w, Idle)
    /\ UNCHANGED <<row, text, events, chunks, sink, writes, excused>>

\* The lease runs out under a worker that goes on: the job runs twice.
LeaseExpires(w) ==
    /\ ~Free(w)
    /\ faults < MaxFaults
    /\ faults' = faults + 1
    /\ todo' = todo \cup {worker[w].job}
    /\ UNCHANGED <<row, text, events, worker, chunks, sink, writes, excused>>

Step(w) ==
    \/ Claim(w) \/ executeDeleteChunkJobV2(w) \/ indexObjectByID(w)
    \/ deleteRefChunks(w) \/ DeleteScopedObjectChunks(w) \/ ReadText(w)
    \/ DeleteChunksForObject(w) \/ DeleteChunksFails(w) \/ InsertChunks(w)
    \/ pushToSinks(w) \/ RunFails(w) \/ LeaseExpires(w)

Next ==
    /\ UNCHANGED versioned
    /\ \/ Put \/ SoftDelete \/ SoftDeleteUnclean \/ Purge \/ PurgeUnclean
       \/ \E e \in DOMAIN events :
             Handle(e) \/ HandleFails(e) \/ HandleTwice(e)
       \/ \E w \in Runners : Step(w)

Spec == Init /\ [][Next]_indexVars

-----------------------------------------------------------------------------
TypeOK ==
    /\ row \in [Ids -> {"none", "live", "gone"}]
    /\ text \in [Ids -> 0..MaxWrites]
    /\ todo \subseteq Jobs
    /\ \A w \in Runners : Free(w) \/ worker[w].job \in Jobs
    /\ chunks \in [Ids -> SUBSET Batches]
    /\ sink \in [Ids -> SUBSET Batches]
    /\ excused \subseteq Ids

\* Every event is consumed, and no job is queued or running.
Settled == /\ \A e \in DOMAIN events : events[e].consumed
           /\ todo = {}
           /\ \A w \in Runners : Free(w)

Deleted(i) == \E e \in DOMAIN events :
                  events[e].type = "deleted" /\ events[e].id = i

\* Once the indexer has caught up, the search sees exactly the current text
\* of the key: a live object has one batch of chunks, of its current text; a
\* deleted object and the older versions of a live one have none; and the
\* sinks hold what the chunk rows hold.  Refused enqueues, failing steps,
\* expired leases, failed cleanups and events handled twice or late do not
\* break this.  What may is an index run that overlaps a write of its object
\* or another run of it (the dedupe key of a job covers its running
\* instance too), a text without chunks, which keeps the chunks of the text
\* before it, and a version deleted before it was indexed, which leaves the
\* chunks of the version before it.
IndexSettles ==
    Settled =>
        \A i \in Ids \ excused :
            /\ row[i] # "live" /\ (Live # {} \/ Deleted(i)) =>
                   chunks[i] = {} /\ sink[i] = {}
            /\ row[i] = "live" /\ text[i] \notin Blank =>
                   /\ Cardinality(chunks[i]) = 1
                   /\ \A b \in chunks[i] : b.text = text[i]
                   /\ sink[i] = chunks[i]

=============================================================================
