--------------------------- MODULE Notifications ---------------------------
(***************************************************************************)
(* Who announces a delete to the targets of a bucket's notification rules: *)
(* the outbox relay, from the fact committed with the delete, or the bus   *)
(* notifier (internal/events/notifier.go), when outboxOwnsDelete finds no  *)
(* fact of the object's row.  One object row is deleted, restored and      *)
(* deleted again; soft and hard deletes commit a fact, DeleteVersion does  *)
(* not (service/file_delete.go).  The row keeps its id over a restore.     *)
(***************************************************************************)
EXTENDS Naturals, Sequences, FiniteSets

CONSTANTS MaxDeletes,  \* deletes of the row
          MaxLapses    \* failed lookups and events a full subscriber buffer drops

VARIABLES row,      \* "live", "deleted" or "gone"
          deletes,  \* the kind of each delete so far: "fact" or "bare"
          facts,    \* status of the notify fact of each delete, "none" when there is no row
          events,   \* deletes whose event waits in the notifier's channel
          posts,    \* who announced each delete
          excused,  \* deletes whose event was dropped by a full buffer or a failed lookup
          shadowed, \* deletes whose event met the fact of an earlier delete only
          lapses

notifyVars == <<row, deletes, facts, events, posts, excused, shadowed, lapses>>

Deletes == 1..MaxDeletes
Statuses == {"none", "pending", "delivered", "failed"}

\* The row, its deletes and the two delivery paths.
TypeOK ==
    /\ row \in {"live", "deleted", "gone"}
    /\ deletes \in Seq({"fact", "bare"}) /\ Len(deletes) <= MaxDeletes
    /\ facts \in [Deletes -> Statuses] /\ posts \in [Deletes -> SUBSET {"relay", "bus"}]
    /\ events \in Seq(Deletes) /\ excused \subseteq Deletes /\ shadowed \subseteq Deletes
    /\ lapses \in 0..MaxLapses

Init ==
    /\ row = "live" /\ deletes = <<>> /\ events = <<>> /\ excused = {} /\ shadowed = {} /\ lapses = 0
    /\ facts = [d \in Deletes |-> "none"] /\ posts = [d \in Deletes |-> {}]

\* emit: broadcast drops the event when the subscriber's buffer is full.
emit(d) ==
    \/ events' = Append(events, d) /\ UNCHANGED <<excused, lapses>>
    \/ lapses < MaxLapses /\ lapses' = lapses + 1 /\ excused' = excused \cup {d} /\ UNCHANGED events

Deleted(kind, after) ==
    /\ row = "live" /\ Len(deletes) < MaxDeletes
    /\ row' = after /\ deletes' = Append(deletes, kind)
    /\ emit(Len(deletes) + 1)
    /\ UNCHANGED <<posts, shadowed>>

\* The fact commits with the row's change, before the event is emitted.
WithFact(d) == facts' = [facts EXCEPT ![d] = "pending"]
softDeleteObject == Deleted("fact", "deleted") /\ WithFact(Len(deletes) + 1)
hardDeleteObject == Deleted("fact", "gone") /\ WithFact(Len(deletes) + 1)
DeleteVersion == Deleted("bare", "gone") /\ UNCHANGED facts

\* The restored object is the same row.
RestoreObject == row = "deleted" /\ row' = "live" /\ UNCHANGED <<deletes, facts, events, posts, excused, shadowed, lapses>>

\* The relay announces a pending fact or gives it up.
deliverNotify(d) ==
    /\ facts[d] = "pending"
    /\ \/ facts' = [facts EXCEPT ![d] = "delivered"] /\ posts' = [posts EXCEPT ![d] = @ \cup {"relay"}]
       \/ facts' = [facts EXCEPT ![d] = "failed"] /\ UNCHANGED posts
    /\ UNCHANGED <<row, deletes, events, excused, shadowed, lapses>>

\* Settled facts are pruned a day later; no event of theirs is still waiting.
prune(d) ==
    /\ facts[d] \in {"delivered", "failed"} /\ d \notin {events[i] : i \in DOMAIN events}
    /\ facts' = [facts EXCEPT ![d] = "none"]
    /\ UNCHANGED <<row, deletes, events, posts, excused, shadowed, lapses>>

\* HasEventOutboxFact asks for the row's id, so it sees the fact of any delete.
HasEventOutboxFact == \E d \in Deletes : facts[d] # "none"
\* A mutant: only a fact that still waits counts.
OwnsPending(d) == \E o \in Deletes : facts[o] = "pending"
outboxOwnsDelete(d) == HasEventOutboxFact

\* The notifier's step for the next event; a failed lookup drops the event.
deliver ==
    /\ events # <<>> /\ events' = Tail(events)
    /\ LET d == Head(events) IN
       \/ /\ lapses < MaxLapses /\ lapses' = lapses + 1 /\ excused' = excused \cup {d}
          /\ UNCHANGED <<posts, shadowed>>
       \/ /\ outboxOwnsDelete(d) /\ UNCHANGED <<posts, excused, lapses>>
          /\ shadowed' = IF deletes[d] = "bare" THEN shadowed \cup {d} ELSE shadowed
       \/ /\ ~outboxOwnsDelete(d) /\ posts' = [posts EXCEPT ![d] = @ \cup {"bus"}]
          /\ UNCHANGED <<excused, shadowed, lapses>>
    /\ UNCHANGED <<row, deletes, facts>>

Next ==
    \/ softDeleteObject \/ hardDeleteObject \/ DeleteVersion \/ RestoreObject \/ deliver
    \/ \E d \in Deletes : deliverNotify(d) \/ prune(d)

Spec == Init /\ [][Next]_notifyVars /\ WF_notifyVars(deliver)
-----------------------------------------------------------------------------
\* No delete is announced by both paths, whatever the relay has already done when
\* the notifier looks (outboxOwnsDelete counts facts of any status).
AnnouncedOnce == \A d \in Deletes : Cardinality(posts[d]) <= 1

\* A delete without a fact, whose event was neither dropped nor met a failed
\* lookup, is announced by the bus or was shadowed by a fact of an earlier delete
\* of the same row (HasEventOutboxFact asks for the row id only).
BareExplained ==
    \A d \in DOMAIN deletes : deletes[d] = "bare" /\ posts[d] = {} =>
        \/ d \in excused \/ d \in {events[i] : i \in DOMAIN events}
        \/ d \in shadowed /\ \E o \in 1..(d - 1) : deletes[o] = "fact"

\* The notifier's comment: a delete without a fact "keep[s] the bus path - never
\* silently drop them": its event, once in the channel, is announced or met a
\* failed lookup.
BareKept == \A d \in DOMAIN deletes : deletes[d] = "bare" => d \notin shadowed
=============================================================================
