------------------------------- MODULE Webhook -------------------------------
(***************************************************************************)
(* The webhook dispatcher (internal/events/webhook.go) of every replica    *)
(* over the shared failure table (internal/repository/webhook_failures.go).*)
(*                                                                         *)
(* A dispatcher takes the copies of an event from its bus subscription and *)
(* posts each to the endpoint.  A failed post becomes a row that every     *)
(* replica's retry loop reads on its ticker: the loop takes a snapshot of  *)
(* the due rows, re-admits and posts each, and writes the result back by   *)
(* id.  Nothing claims a row, so the loops of two replicas may work on the *)
(* same one from snapshots of different ages.                              *)
(***************************************************************************)
EXTENDS Naturals, Sequences, Folds

CONSTANTS
    Dispatchers,    \* the replicas running a dispatcher and a retry loop
    Copies,         \* how many copies of the event the bus hands out at most
    DeadAfter,      \* attempts after which a row is dead-lettered (10)
    RetryLimit,     \* rows a tick takes (25)
    MaxSlips        \* database errors, admission faults and restarts

VARIABLES
    inbox,      \* dispatcher -> copies waiting in its subscription
    failures,   \* webhook_failures, by id
    retry,      \* dispatcher -> its retry loop
    unbound,    \* is the event's bucket outside every space?
    landed,     \* ids of the rows whose payload the endpoint accepted
    tries,      \* failed attempts made for each row, by id
    slips       \* faults so far

webhookVars == <<inbox, failures, retry, unbound, landed, tries, slips>>

Fresh == [attempts |-> 1, succeeded |-> FALSE, dead |-> FALSE, due |-> FALSE]
Snapshots == [id : 1..Copies, attempts : 1..DeadAfter]
Waiting == [at |-> "ticker", pending |-> <<>>, result |-> "none"]

TypeOK ==
    /\ inbox \in [Dispatchers -> 0..Copies]
    /\ failures \in Seq([attempts : 1..DeadAfter, succeeded : BOOLEAN, dead : BOOLEAN, due : BOOLEAN])
    /\ Len(failures) <= Copies
    /\ retry \in [Dispatchers -> [at : {"ticker", "row", "settle"}, pending : Seq(Snapshots),
                                  result : {"none", "accepted", "refused", "denied"}]]
    /\ unbound \in BOOLEAN
    /\ landed \subseteq DOMAIN failures
    /\ tries \in Seq(0..(DeadAfter + 1)) /\ Len(tries) = Len(failures)
    /\ slips \in 0..MaxSlips

\* The copies the bus handed out.
Handed == MapThenFoldSet(+, 0, LAMBDA d : inbox[d], LAMBDA D : CHOOSE d \in D : TRUE, Dispatchers)

\* One event.  The bus gives a subscription the local broadcast and, with the
\* transport attached, the echo of its own notification.
Init ==
    /\ inbox \in [Dispatchers -> 0..Copies] /\ Handed \in 1..Copies
    /\ failures = <<>> /\ retry = [d \in Dispatchers |-> Waiting]
    /\ unbound = TRUE /\ landed = {} /\ tries = <<>> /\ slips = 0

Slip == slips < MaxSlips /\ slips' = slips + 1

\* The bucket is bound to a space.
BindBucket == unbound /\ unbound' = FALSE /\ UNCHANGED <<inbox, failures, retry, landed, tries, slips>>
-----------------------------------------------------------------------------
(* Delivery from the subscription *)

\* A row with the first attempt behind it, due one backoff later.
RecordWebhookFailure == failures' = Append(failures, Fresh) /\ tries' = Append(tries, 1)

\* The insert's error is only logged: the failed delivery is forgotten.
persistFailure == (RecordWebhookFailure /\ UNCHANGED slips) \/ (Slip /\ UNCHANGED <<failures, tries>>)

\* Anything but a 2xx answer is a failure of attempt 1.
postOne == (UNCHANGED <<failures, tries, slips>>) \/ persistFailure

\* The event is read again, then admitted, then posted; a refusal or a fault of
\* either check drops the copy.
deliver(d) ==
    /\ inbox[d] > 0 /\ inbox' = [inbox EXCEPT ![d] = @ - 1]
    /\ \/ unbound /\ postOne
       \/ ~unbound /\ UNCHANGED <<failures, tries, slips>>
       \/ Slip /\ UNCHANGED <<failures, tries>>
    /\ UNCHANGED <<retry, unbound, landed>>
-----------------------------------------------------------------------------
(* The retry loop *)

Pending(f) == ~f.succeeded /\ ~f.dead

Due == {id \in DOMAIN failures : Pending(failures[id]) /\ failures[id].due}

\* What the query returns: the rows whose backoff is over, ORDER BY id LIMIT.
NextPendingFailures(ids) ==
    /\ \A i, j \in DOMAIN ids : i < j => ids[i] < ids[j]
    /\ \A id \in Due :
          \/ \E i \in DOMAIN ids : ids[i] = id
          \/ Len(ids) = RetryLimit /\ \A i \in DOMAIN ids : ids[i] < id

MarkWebhookSucceeded(id) == failures' = [failures EXCEPT ![id].succeeded = TRUE]
MarkWebhookDeadLettered(id, attempts) ==
    failures' = [failures EXCEPT ![id] = [@ EXCEPT !.dead = TRUE, !.due = TRUE, !.attempts = attempts]]

\* A mutant: the update starts the row over, whatever became of it.
UpdateRevives(id, attempts) ==
    failures' = [failures EXCEPT ![id] = [Fresh EXCEPT !.attempts = attempts]]
UpdateWebhookFailure(id, attempts) ==
    failures' = [failures EXCEPT ![id] = [@ EXCEPT !.attempts = attempts, !.due = FALSE]]

\* The row's backoff is over.
Elapses(id) ==
    /\ id \in DOMAIN failures /\ ~failures[id].due
    /\ failures' = [failures EXCEPT ![id].due = TRUE]
    /\ UNCHANGED <<inbox, retry, unbound, landed, tries, slips>>

\* The ticker fires.
RetryLoop(d) ==
    /\ retry[d].at = "ticker"
    /\ \E n \in 1..RetryLimit : \E ids \in [1..n -> Due] :
          /\ NextPendingFailures(ids)
          /\ retry' = [retry EXCEPT ![d].at = "row", ![d].pending =
                         [i \in 1..n |-> [id |-> ids[i], attempts |-> failures[ids[i]].attempts]]]
    /\ UNCHANGED <<inbox, failures, unbound, landed, tries, slips>>

Failed(id) == tries' = [tries EXCEPT ![id] = IF @ > DeadAfter THEN @ ELSE @ + 1]

\* The post of the row's payload: the endpoint accepts it or not.
sendRetry(d, id) ==
    \/ /\ retry' = [retry EXCEPT ![d].at = "settle", ![d].result = "accepted"]
       /\ landed' = landed \cup {id} /\ UNCHANGED <<tries, slips>>
    \/ /\ retry' = [retry EXCEPT ![d].at = "settle", ![d].result = "refused"]
       /\ Failed(id) /\ UNCHANGED <<landed, slips>>

\* The envelope decodes, as the dispatcher wrote it; a denied admission is
\* final, a fault of the check counts as a failed attempt.
retryOne(d) ==
    /\ retry[d].at = "row"
    /\ LET f == retry[d].pending[1] IN
       \/ unbound /\ sendRetry(d, f.id)
       \/ /\ ~unbound /\ retry' = [retry EXCEPT ![d].at = "settle", ![d].result = "denied"]
          /\ UNCHANGED <<landed, tries, slips>>
       \/ /\ Slip /\ retry' = [retry EXCEPT ![d].at = "settle", ![d].result = "refused"]
          /\ Failed(f.id) /\ UNCHANGED landed
    /\ UNCHANGED <<inbox, failures, unbound>>

deadLetterRetry(f, attempts) == MarkWebhookDeadLettered(f.id, attempts)

\* A mutant: gives up one attempt early.
GivesUpEarly(f) ==
    IF f.attempts + 2 >= DeadAfter
    THEN deadLetterRetry(f, f.attempts + 1)
    ELSE UpdateWebhookFailure(f.id, f.attempts + 1)
\* The count comes from the snapshot, not from the row.
handleRetryFailure(f) ==
    IF f.attempts + 1 >= DeadAfter
    THEN deadLetterRetry(f, f.attempts + 1)
    ELSE UpdateWebhookFailure(f.id, f.attempts + 1)

\* The result is written back; the write's error is only logged.
Settle(d) ==
    /\ retry[d].at = "settle"
    /\ LET f == retry[d].pending[1] IN
       \/ /\ CASE retry[d].result = "accepted" -> MarkWebhookSucceeded(f.id)
               [] retry[d].result = "denied" -> deadLetterRetry(f, f.attempts + 1)
               [] OTHER -> handleRetryFailure(f)
          /\ UNCHANGED slips
       \/ Slip /\ UNCHANGED failures
    /\ retry' = [retry EXCEPT ![d] =
                    IF Len(@.pending) = 1 THEN Waiting
                    ELSE [at |-> "row", pending |-> Tail(@.pending), result |-> "none"]]
    /\ UNCHANGED <<inbox, unbound, landed, tries>>

\* The process restarts: what its subscription held is gone, the rows stay.
Restart(d) ==
    /\ Slip /\ inbox' = [inbox EXCEPT ![d] = 0] /\ retry' = [retry EXCEPT ![d] = Waiting]
    /\ UNCHANGED <<failures, unbound, landed, tries>>

Next ==
    \/ BindBucket
    \/ \E d \in Dispatchers : deliver(d) \/ RetryLoop(d) \/ retryOne(d) \/ Settle(d) \/ Restart(d)
    \/ \E id \in 1..Copies : Elapses(id)

Spec == Init /\ [][Next]_webhookVars
-----------------------------------------------------------------------------
\* What a retry loop marks succeeded the endpoint has accepted, and a pending
\* row has attempts left (webhook.go: sendRetry, handleRetryFailure).
SuccessBacked ==
    \A id \in DOMAIN failures :
       /\ failures[id].succeeded => id \in landed
       /\ Pending(failures[id]) => failures[id].attempts < DeadAfter

\* However the loops of several replicas interleave on stale snapshots, a row is
\* given up only after DeadAfter attempts that really failed, or for a bucket
\* bound to a space (webhook.go: handleRetryFailure counts from the snapshot).
DeadForCause ==
    \A id \in DOMAIN failures : failures[id].dead => tries[id] >= DeadAfter \/ ~unbound

\* A settled row is never pending again: a late result of a slower replica
\* cannot revive it (webhook_failures.go: UpdateWebhookFailure).
SettledStays == \A id \in DOMAIN failures : Pending(failures'[id]) => Pending(failures[id])

\* Some failed delivery waits for its next attempt.
Unsettled == \E id \in DOMAIN failures : Pending(failures[id])
=============================================================================
