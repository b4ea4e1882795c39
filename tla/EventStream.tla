----------------------------- MODULE EventStream -----------------------------
(***************************************************************************)
(* The event bus of every replica (internal/events/bus.go), the Postgres   *)
(* transport between them (internal/events/postgres_transport.go) and one  *)
(* server-sent event stream reading from it (internal/api/rest/sse.go).    *)
(*                                                                         *)
(* A publisher inserts its event, which gives it an id, then broadcasts it *)
(* to the subscriptions of its own replica, then notifies every replica,   *)
(* its own included.  The database hands out an id before the insert       *)
(* commits, so two publishers may become visible, and may broadcast, in    *)
(* the other order.  A stream subscribes, replays the rows after the       *)
(* client's cursor page by page and then follows the subscription,         *)
(* skipping what is not above the last id it sent.                         *)
(***************************************************************************)
EXTENDS Naturals, Sequences, SequencesExt, FiniteSets

CONSTANTS
    Publishers,     \* one event each
    PublishedAt,    \* publisher -> the replica it runs on
    TenantAt,       \* publisher -> the event's tenant
    Streamer,       \* the replica the stream is served by
    StreamTenant,   \* the stream's tenant
    Stored,         \* events 1..Stored are rows already, of StreamTenant
    Cursors,        \* values of Last-Event-ID; 0 when there is none
    StreamBuffer,   \* capacity of a subscription
    ReplayPage,     \* rows a replay page holds (200)
    MaxLosses       \* notifications, inserts and reads that get lost

VARIABLES
    pub,        \* publisher -> step and id
    nextID,     \* the id sequence
    commits,    \* ids in the order the rows became visible
    wire,       \* notifications on their way to the stream's replica
    closed,     \* has the bucket been bound to a space?
    stream,     \* the stream's handler
    buf,        \* its subscription
    casts,      \* ids broadcast on its replica while subscribed or before, in order
    dropped,    \* ids its full subscription missed
    sent,       \* ids written to the client
    losses

streamVars == <<pub, nextID, commits, wire, closed, stream, buf, casts, dropped, sent, losses>>

MaxID == Stored + Cardinality(Publishers)
IDs == 1..MaxID
Visible == Range(commits)
TenantOfID(id) ==
    IF id <= Stored THEN StreamTenant ELSE TenantAt[CHOOSE p \in Publishers : pub[p].id = id]

TypeOK ==
    /\ pub \in [Publishers -> [at : {"idle", "insert", "cast", "notify", "done"}, id : 0..MaxID]]
    /\ nextID \in 1..(MaxID + 1)
    /\ commits \in Seq(IDs) /\ wire \in Seq(IDs) /\ closed \in BOOLEAN
    /\ stream \in [at : {"asked", "subscribe", "replay", "page", "live", "ended"},
                   cursor : Cursors, last : 0..MaxID, page : Seq(IDs), full : BOOLEAN]
    /\ buf \in Seq(IDs) /\ Len(buf) <= StreamBuffer
    /\ casts \in Seq(IDs) /\ dropped \subseteq IDs /\ sent \in Seq(IDs)
    /\ losses \in 0..MaxLosses

Init ==
    /\ pub = [p \in Publishers |-> [at |-> "idle", id |-> 0]]
    /\ nextID = Stored + 1 /\ commits = [i \in 1..Stored |-> i]
    /\ wire = <<>> /\ closed = FALSE
    /\ \E c \in Cursors : stream = [at |-> "asked", cursor |-> c, last |-> c, page |-> <<>>, full |-> FALSE]
    /\ buf = <<>> /\ casts = <<>> /\ dropped = {} /\ sent = <<>> /\ losses = 0

Lose == losses < MaxLosses /\ losses' = losses + 1

\* The bucket of the events is bound to a space: nobody may be told of them.
BindSpace == ~closed /\ closed' = TRUE
    /\ UNCHANGED <<pub, nextID, commits, wire, stream, buf, casts, dropped, sent, losses>>
-----------------------------------------------------------------------------
(* The bus *)

\* A mutant: a stream that subscribes after its replay.
SubscribedLate == stream.at = "live"
\* The stream's channel is in the bus's list from Subscribe to Unsubscribe.
Subscribed == stream.at \in {"replay", "page", "live"}

\* A full subscription misses the event; the publisher does not wait.
broadcast(id) ==
    /\ casts' = Append(casts, id)
    /\ IF ~Subscribed THEN UNCHANGED <<buf, dropped>>
       ELSE IF Len(buf) < StreamBuffer
            THEN buf' = Append(buf, id) /\ UNCHANGED dropped
            ELSE dropped' = dropped \cup {id} /\ UNCHANGED buf

Subscribe == buf' = <<>>

\* InsertEvent draws an id and commits later; a failed insert ends the publish.
InsertEvent(p) ==
    \/ /\ pub[p].at = "idle"
       /\ pub' = [pub EXCEPT ![p] = [at |-> "insert", id |-> nextID]] /\ nextID' = nextID + 1
       /\ UNCHANGED <<commits, losses>>
    \/ /\ pub[p].at = "insert"
       /\ \/ /\ commits' = Append(commits, pub[p].id) /\ pub' = [pub EXCEPT ![p].at = "cast"]
             /\ UNCHANGED losses
          \/ Lose /\ pub' = [pub EXCEPT ![p].at = "done"] /\ UNCHANGED commits
       /\ UNCHANGED nextID

\* The notification reaches the stream's replica unless the boundary refuses
\* the bucket, pg_notify fails, or the listener is reconnecting.
sendTransport(p) == wire' = Append(wire, pub[p].id) /\ UNCHANGED losses
publishTransport(p) ==
    \/ ~closed /\ sendTransport(p)
    \/ closed /\ UNCHANGED <<wire, losses>>
    \/ Lose /\ UNCHANGED wire

Publish(p) ==
    \/ InsertEvent(p) /\ UNCHANGED <<wire, buf, casts, dropped>>
    \/ /\ pub[p].at = "cast" /\ pub' = [pub EXCEPT ![p].at = "notify"]
       /\ IF PublishedAt[p] = Streamer THEN broadcast(pub[p].id) ELSE UNCHANGED <<buf, casts, dropped>>
       /\ UNCHANGED <<nextID, commits, wire, losses>>
    \/ /\ pub[p].at = "notify" /\ pub' = [pub EXCEPT ![p].at = "done"]
       /\ publishTransport(p) /\ UNCHANGED <<nextID, commits, buf, casts, dropped>>

PublishStep(p) == Publish(p) /\ UNCHANGED <<closed, stream, sent>>

\* A row of exactly this id, the one the caller has.
Reread(id) == id \in Visible
CheckBucket == ~closed

\* The replica's listener hands a notification to its bus, the echo of its own
\* included; the row is read again and the bucket admitted first.
DeliverContext ==
    /\ wire # <<>> /\ wire' = Tail(wire)
    /\ LET id == wire[1] IN
       \/ Reread(id) /\ CheckBucket /\ broadcast(id) /\ UNCHANGED losses
       \/ ~(Reread(id) /\ CheckBucket) /\ UNCHANGED <<buf, casts, dropped, losses>>
       \/ Lose /\ UNCHANGED <<buf, casts, dropped>>
    /\ UNCHANGED <<pub, nextID, commits, closed, stream, sent>>

\* The listener's connection breaks: what is sent until LISTEN is issued again
\* is gone (listenLoop, reconnected by Run).
listenLoop ==
    /\ wire # <<>> /\ Lose /\ wire' = <<>>
    /\ UNCHANGED <<pub, nextID, commits, closed, stream, buf, casts, dropped, sent>>
-----------------------------------------------------------------------------
(* The stream *)

\* The first rows of the tenant above an id, in id order.
ListEventsAfter(after, limit) ==
    LET above == {id \in Visible : id > after /\ TenantOfID(id) = StreamTenant}
        all == SetToSortSeq(above, LAMBDA a, b : a < b)
    IN  SubSeq(all, 1, IF Len(all) < limit THEN Len(all) ELSE limit)

admitEvent(id) == TenantOfID(id) = StreamTenant /\ CheckBucket
validateReplayEvent(after, id) == TenantOfID(id) = StreamTenant /\ id > after

\* The event the cursor names, when there is one, must still be admitted.
admitCursor ==
    LET rows == ListEventsAfter(stream.cursor - 1, 1) IN
    rows = <<>> \/ rows[1] # stream.cursor \/ admitEvent(rows[1])

\* Before the answer is committed, the cursor and the first row are admitted.
preflightReplay ==
    \/ stream.cursor = 0
    \/ /\ admitCursor
       /\ LET rows == ListEventsAfter(stream.cursor, 1) IN
          rows = <<>> \/ (validateReplayEvent(stream.cursor, rows[1]) /\ admitEvent(rows[1]))

Preflight ==
    /\ stream.at = "asked"
    /\ stream' = [stream EXCEPT !.at = IF preflightReplay THEN "subscribe" ELSE "ended"]
    /\ UNCHANGED <<pub, nextID, commits, wire, closed, buf, casts, dropped, sent, losses>>

\* The subscription comes before the replay, so nothing falls between the two.
Stream ==
    /\ stream.at = "subscribe"
    /\ stream' = [stream EXCEPT !.at = IF stream.cursor = 0 THEN "live" ELSE "replay"]
    /\ Subscribe
    /\ UNCHANGED <<pub, nextID, commits, wire, closed, casts, dropped, sent, losses>>

\* One page is read, and its events are written one by one, each admitted; a
\* short page ends the replay.
replayMissed ==
    \/ /\ stream.at = "replay"
       /\ LET backlog == ListEventsAfter(stream.last, ReplayPage) IN
          stream' = [stream EXCEPT !.at = IF backlog = <<>> THEN "live" ELSE "page", !.page = backlog,
                                   !.full = Len(backlog) = ReplayPage]
       /\ UNCHANGED sent
    \/ /\ stream.at = "page"
       /\ LET id == stream.page[1] rest == Tail(stream.page) IN
          IF validateReplayEvent(stream.last, id) /\ admitEvent(id)
          THEN /\ sent' = Append(sent, id)
               /\ stream' = [stream EXCEPT !.last = id, !.page = rest,
                                !.at = IF rest # <<>> THEN "page"
                                       ELSE IF stream.full THEN "replay" ELSE "live"]
          ELSE stream' = [stream EXCEPT !.at = "ended", !.page = <<>>] /\ UNCHANGED sent

ReplayStep == replayMissed /\ UNCHANGED <<pub, nextID, commits, wire, closed, buf, casts, dropped, losses>>

\* The row is read again before it is written.
authoritativeEvent(id) == Reread(id)

\* A mutant: a live event is written whatever was sent before.
liveNotAbove ==
    /\ stream.at = "live" /\ buf # <<>> /\ buf' = Tail(buf)
    /\ LET id == buf[1] IN
       IF TenantOfID(id) # StreamTenant THEN UNCHANGED <<stream, sent>>
       ELSE /\ sent' = Append(sent, id)
            /\ stream' = [stream EXCEPT !.last = id]
\* An event of another tenant, or one not above the last sent, is skipped; one
\* that cannot be read again or is not admitted ends the stream.
liveStream ==
    /\ stream.at = "live" /\ buf # <<>> /\ buf' = Tail(buf)
    /\ LET id == buf[1] IN
       IF TenantOfID(id) # StreamTenant \/ id <= stream.last THEN UNCHANGED <<stream, sent>>
       ELSE IF authoritativeEvent(id) /\ admitEvent(id)
            THEN sent' = Append(sent, id) /\ stream' = [stream EXCEPT !.last = id]
            ELSE stream' = [stream EXCEPT !.at = "ended"] /\ UNCHANGED sent

LiveStep == liveStream /\ UNCHANGED <<pub, nextID, commits, wire, closed, casts, dropped, losses>>

\* The client goes away, a write fails, or the bus is closed at shutdown: the
\* handler returns and its subscription is removed and closed.
Unsubscribe ==
    /\ stream.at \notin {"asked", "ended"} /\ Lose
    /\ stream' = [stream EXCEPT !.at = "ended", !.page = <<>>] /\ buf' = <<>>
    /\ UNCHANGED <<pub, nextID, commits, wire, closed, casts, dropped, sent>>

Next ==
    \/ \E p \in Publishers : PublishStep(p)
    \/ DeliverContext \/ listenLoop \/ BindSpace
    \/ Preflight \/ Stream \/ ReplayStep \/ LiveStep \/ Unsubscribe

Spec == Init /\ [][Next]_streamVars
-----------------------------------------------------------------------------
\* The client sees each id once and in order, replay and live events, local
\* broadcasts and transport echoes together (sse.go: lastSentID).
SentInOrder ==
    \A i \in DOMAIN sent :
       /\ stream.cursor < sent[i] /\ TenantOfID(sent[i]) = StreamTenant
       /\ i > 1 => sent[i - 1] < sent[i]

Before(order, a, b) == \E i, j \in DOMAIN order : i < j /\ order[i] = a /\ order[j] = b

\* The publishers of two ids ran into each other.
Overtaken(id) ==
    \E other \in IDs \ {id} :
       \/ other > id /\ (Before(commits, other, id) \/ Before(casts, other, id))
       \/ other < id /\ Before(casts, id, other)

\* A client that resumes from a cursor misses an event below the last one it got
\* only if the subscription overflowed, the broadcast never reached the replica,
\* or the event's publisher was overtaken by one with a higher id (sse.go: Stream
\* subscribes before it replays).
GapsExplained ==
    stream.cursor > 0 =>
    \A id \in Visible :
       stream.cursor < id /\ id < stream.last /\ TenantOfID(id) = StreamTenant /\ id \notin Range(sent)
          => id \in dropped \/ id \notin Range(casts) \/ Overtaken(id)
=============================================================================
