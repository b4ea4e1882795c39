------------------------- MODULE EventOutboxProofs -------------------------
(***************************************************************************)
(* Proofs about EventOutbox for any number of relays, hosts, targets and   *)
(* facts, any TTL, budget and backoff, and any number of mishaps.          *)
(*                                                                         *)
(* The invariant IInv adds to the checked invariants what makes them       *)
(* inductive: claim tokens of different relays never coincide, and a       *)
(* goroutine's copy of a row it holds is current (TokenInv),               *)
(* an inflight row nobody holds any more has already been paid for by a    *)
(* mishap (BudgetInv), and a goroutine's progress through its targets is   *)
(* what the targets received (SentInv).                                    *)
(***************************************************************************)
EXTENDS EventOutbox, TLAPS

Busy(r, id) == work[r][id].phase # "idle"

\* A goroutine that could still persist the outcome of the row.
Held(id) == \E r \in Relays : Busy(r, id) /\ Fenced(r, id)

TokenInv ==
    /\ \A r \in Relays, id \in Ids : Busy(r, id) => work[r][id].token <= tokens
    /\ \A r, s \in Relays, i, j \in Ids :
          Busy(r, i) /\ Busy(s, j) /\ r # s => work[r][i].token # work[s][j].token
    /\ \A r \in Relays, id \in Ids :
          Busy(r, id) /\ Fenced(r, id) => work[r][id].attempts = outbox[id].attempts

BudgetInv ==
    \A id \in Ids :
        /\ outbox[id].status = "pending" => outbox[id].attempts < MaxAttempts
        /\ outbox[id].attempts <= MaxAttempts + faults
        /\ outbox[id].status = "inflight" /\ ~Held(id)
              => outbox[id].attempts < MaxAttempts + faults

\* What a goroutine has crossed off is among what the targets got.
SentOK(item, id, got) ==
    /\ item.phase \in {"admit", "post"} => item.matched \ item.todo \subseteq got
    /\ IsNotify(id) /\ item.phase = "ok" => item.matched \subseteq got

SentInv == \A r \in Relays, id \in Ids : SentOK(work[r][id], id, received[id])

\* The batch S of a claim, named.
ClaimBatch(r, S) ==
    /\ outbox' = [id \in Ids |->
         IF id \in S THEN Claimed(outbox[id], HostOf[r], newClaimToken) ELSE outbox[id]]
    /\ work' = [work EXCEPT ![r] = [id \in Ids |->
         IF id \in S
         THEN [phase |-> "start", attempts |-> outbox[id].attempts + 1,
               token |-> newClaimToken, matched |-> {}, todo |-> {}]
         ELSE IdleItem]]

FreshInv == \A id \in Ids : id > inserted => outbox[id].status = "absent"

IInv == TypeOK /\ TokenInv /\ BudgetInv /\ FidelityAgrees /\ FreshInv /\ SentInv

-----------------------------------------------------------------------------
\* Every step of the relays and their environment keeps the state well typed.
LEMMA TypeStep == TypeOK /\ [Next]_vars => TypeOK'
<1> SUFFICES ASSUME TypeOK, [Next]_vars PROVE TypeOK'
  BY Zenon
<1> USE OutboxAssumption DEF TypeOK, Row, Item, Statuses, EmptyRow, IdleItem,
                             dbVars, envVars, NoOwner, Claimed, Released, At, WithTodo
<1>1. CASE insertOutboxFacts
  BY <1>1 DEF insertOutboxFacts, Phases
<1>2. ASSUME NEW r \in Relays, ClaimEventOutbox(r) PROVE TypeOK'
  <2>1. newClaimToken \in Nat /\ HostOf[r] \in Hosts /\ ClaimTTL \in Nat
    BY DEF newClaimToken
  <2>2. outbox' \in [Ids -> Row]
    BY <1>2, <2>1 DEF ClaimEventOutbox
  <2>3. work' \in [Relays -> [Ids -> Item]]
    BY <1>2, <2>1 DEF ClaimEventOutbox, Phases
  <2> QED
    BY <1>2, <2>1, <2>2, <2>3, Zenon DEF ClaimEventOutbox
<1>3. ASSUME NEW r \in Relays, Crash(r) PROVE TypeOK'
  BY <1>3 DEF Crash, Phases
<1>4. ASSUME NEW r \in Relays, NEW id \in Ids, Deliver(r, id) PROVE TypeOK'
  <2>0. ASSUME NEW item \in Item, Become(r, id, item)
        PROVE work' \in [Relays -> [Ids -> Item]]
    BY <2>0, Zenon DEF Become
  <2>1. \A phase \in Phases : Goto(r, id, phase) => work' \in [Relays -> [Ids -> Item]]
    BY DEF Goto, Become
  <2>2. CASE deliverDeleted(r, id)
    BY <2>1, <2>2, Zenon DEF deliverDeleted, Phases
  <2>3. CASE admitNotify(r, id)
    BY <2>1, <2>3, Zenon DEF admitNotify, Admission, Phases
  <2>4. CASE GetBucketNotifications(r, id)
    <3>1. WithTodo(work[r][id], IF rules = {} THEN "ok" ELSE "admit", rules, rules) \in Item
      BY DEF Phases
    <3> HIDE DEF WithTodo, Item
    <3> QED
      BY <2>0, <2>1, <2>4, <3>1, Zenon DEF GetBucketNotifications, Phases
  <2>5. CASE admitTarget(r, id)
    BY <2>1, <2>5, Zenon DEF admitTarget, Admission, Phases
  <2>6. ASSUME NEW t \in Targets, PostArrives(r, id, t) PROVE TypeOK'
    <3>1. WithTodo(work[r][id], IF work[r][id].todo = {t} THEN "ok" ELSE "admit",
                   work[r][id].matched, work[r][id].todo \ {t}) \in Item
      BY DEF Phases
    <3>2. received' \in [Ids -> SUBSET Targets]
      BY <2>6, Zenon DEF PostArrives
    <3> HIDE DEF WithTodo, Item
    <3> QED
      BY <2>0, <2>1, <2>6, <3>1, <3>2, Zenon DEF PostArrives, Phases
  <2>7. CASE PostFails(r, id)
    BY <2>1, <2>7, Zenon DEF PostFails, Phases
  <2> QED
    BY <1>4, <2>2, <2>3, <2>4, <2>5, <2>6, <2>7, Zenon DEF Deliver
<1>5. ASSUME NEW r \in Relays, NEW id \in Ids, Persist(r, id) PROVE TypeOK'
  <2>1. Finish(r, id) => work' \in [Relays -> [Ids -> Item]]
    BY DEF Finish, Become, Phases
  <2>2. ASSUME NEW delay \in Int, NEW max, RetryEventOutbox(r, id, delay, max)
        PROVE TypeOK'
    <3>1. \A status \in Statuses : Released(outbox[id], status, delay) \in Row
      BY Zenon DEF Row
    <3>2. outbox' \in [Ids -> Row]
      <4> HIDE DEF Released, Row
      <4> QED
        BY <2>2, <3>1, Zenon DEF RetryEventOutbox
    <3> QED
      BY <2>1, <2>2, <3>2, Zenon DEF RetryEventOutbox
  <2>3. CASE CompleteEventOutbox(r, id)
    <3>1. Released(outbox[id], "delivered", outbox[id].avail) \in Row
      BY Zenon
    <3>2. outbox' \in [Ids -> Row]
      <4> HIDE DEF Released, Row
      <4> QED
        BY <2>3, <3>1, Zenon DEF CompleteEventOutbox
    <3> QED
      BY <2>1, <2>3, <3>2, Zenon DEF CompleteEventOutbox
  <2>4. CASE retry(r, id)
    BY <2>2, <2>4 DEF retry, eventOutboxBackoff
  <2>5. CASE failImmediately(r, id)
    BY <2>2, <2>5 DEF failImmediately
  <2> QED
    BY <1>5, <2>3, <2>4, <2>5, Zenon DEF Persist
<1>6. ASSUME NEW r \in Relays, NEW id \in Ids, PersistFault(r, id) PROVE TypeOK'
  BY <1>6 DEF PersistFault, Finish, Become, Phases
<1>7. CASE PruneEventOutbox
  BY <1>7 DEF PruneEventOutbox, FidelityAfterPrune
<1>8. CASE Tick
  BY <1>8 DEF Tick, Elapse, Aged
<1>9. CASE SetRules
  BY <1>9, Zenon DEF SetRules
<1>10. CASE SetBinding
  BY <1>10, Zenon DEF SetBinding
<1>11. CASE UNCHANGED vars
  BY <1>11, Zenon DEF vars
<1> QED
  BY <1>1, <1>2, <1>3, <1>4, <1>5, <1>6, <1>7, <1>8, <1>9, <1>10, <1>11, Zenon DEF Next

-----------------------------------------------------------------------------
\* What a goroutine's step does to the relays' memory: one entry changes.
LEMMA BecomeOne ==
  ASSUME TypeOK, NEW r \in Relays, NEW id \in Ids, NEW item, Become(r, id, item)
  PROVE  /\ work'[r][id] = item
         /\ \A s \in Relays, j \in Ids : s # r \/ j # id => work'[s][j] = work[s][j]
BY Zenon DEF TypeOK, Become

\* Every step of a goroutine is a Become that keeps its token or ends it.
LEMMA DeliverWork ==
  ASSUME TypeOK, NEW r \in Relays, NEW id \in Ids, Deliver(r, id)
  PROVE  /\ work[r][id].phase # "idle"
         /\ work'[r][id].phase # "idle"
         /\ work'[r][id].token = work[r][id].token
         /\ work'[r][id].attempts = work[r][id].attempts
         /\ \A s \in Relays, j \in Ids : s # r \/ j # id => work'[s][j] = work[s][j]
         /\ UNCHANGED <<outbox, fidelity, inserted, tokens, faults>>
<1>1. ASSUME NEW phase \in Phases \ {"idle"}, Goto(r, id, phase)
      PROVE  /\ work'[r][id].phase # "idle"
             /\ work'[r][id].token = work[r][id].token
             /\ work'[r][id].attempts = work[r][id].attempts
             /\ \A s \in Relays, j \in Ids : s # r \/ j # id => work'[s][j] = work[s][j]
  BY <1>1, BecomeOne DEF Goto, At
<1>2. ASSUME NEW phase \in Phases \ {"idle"}, NEW matched, NEW todo,
             Become(r, id, WithTodo(work[r][id], phase, matched, todo))
      PROVE  /\ work'[r][id].phase # "idle"
             /\ work'[r][id].token = work[r][id].token
             /\ work'[r][id].attempts = work[r][id].attempts
             /\ \A s \in Relays, j \in Ids : s # r \/ j # id => work'[s][j] = work[s][j]
  BY <1>2, BecomeOne DEF WithTodo
<1> USE DEF dbVars, envVars
<1>3. CASE deliverDeleted(r, id)
  BY <1>1, <1>3, Zenon DEF deliverDeleted, Phases
<1>4. CASE admitNotify(r, id)
  BY <1>1, <1>4, Zenon DEF admitNotify, Admission, Phases
<1>5. CASE GetBucketNotifications(r, id)
  BY <1>1, <1>2, <1>5, Zenon DEF GetBucketNotifications, Phases
<1>6. CASE admitTarget(r, id)
  BY <1>1, <1>6, Zenon DEF admitTarget, Admission, Phases
<1>7. ASSUME NEW t \in Targets, PostArrives(r, id, t)
      PROVE  /\ work[r][id].phase # "idle"
             /\ work'[r][id].phase # "idle"
             /\ work'[r][id].token = work[r][id].token
             /\ work'[r][id].attempts = work[r][id].attempts
             /\ \A s \in Relays, j \in Ids : s # r \/ j # id => work'[s][j] = work[s][j]
             /\ UNCHANGED <<outbox, fidelity, inserted, tokens, faults>>
  BY <1>1, <1>2, <1>7, Zenon DEF PostArrives, Phases
<1>8. CASE PostFails(r, id)
  BY <1>1, <1>8, Zenon DEF PostFails, Phases
<1> QED
  BY <1>3, <1>4, <1>5, <1>6, <1>7, <1>8, Zenon DEF Deliver

\* The goroutine of relay r for id ends, and no other moves.
Ended(r, id) ==
    /\ work[r][id].phase # "idle"
    /\ work'[r][id] = IdleItem
    /\ \A s \in Relays, j \in Ids : s # r \/ j # id => work'[s][j] = work[s][j]

\* The row is released, to a terminal status or back to pending, only under
\* the fence.
Settled(r, id) ==
    /\ \A j \in Ids : j # id => outbox'[j] = outbox[j]
    /\ ~Fenced(r, id) => outbox' = outbox /\ fidelity' = fidelity
    /\ Fenced(r, id) =>
         /\ outbox[id].status = "inflight"
         /\ outbox'[id].attempts = outbox[id].attempts
         /\ \/ /\ work[r][id].phase = "ok"
               /\ outbox'[id].status = "delivered"
               /\ fidelity' = fidelity \cup {id}
            \/ /\ outbox'[id].status = "failed"
               /\ fidelity' = fidelity
            \/ /\ outbox'[id].status = "pending"
               /\ \/ outbox[id].attempts < MaxAttempts
                  \/ outbox[id].attempts < work[r][id].attempts
               /\ fidelity' = fidelity

\* What persisting an outcome does.
LEMMA PersistRow ==
  ASSUME TypeOK, NEW r \in Relays, NEW id \in Ids, Persist(r, id)
  PROVE  /\ Ended(r, id) /\ Settled(r, id)
         /\ UNCHANGED <<inserted, tokens, rules, bound, received, faults>>
<1>1. ASSUME work[r][id].phase # "idle", Finish(r, id) PROVE Ended(r, id)
  BY <1>1, BecomeOne, Zenon DEF Finish, Ended
<1>2. CASE CompleteEventOutbox(r, id)
  <2>1. Ended(r, id)
    BY <1>1, <1>2, Zenon DEF CompleteEventOutbox
  <2>2. Settled(r, id)
    BY <1>2 DEF CompleteEventOutbox, Released, Settled, TypeOK, Fenced
  <2> QED
    BY <1>2, <2>1, <2>2, Zenon DEF CompleteEventOutbox, envVars
<1>3. ASSUME NEW delay, NEW max \in {MaxAttempts, work[r][id].attempts},
             RetryEventOutbox(r, id, delay, max)
      PROVE  Settled(r, id)
  <2>1. outbox[id].attempts \in Nat /\ work[r][id].attempts \in Nat /\ MaxAttempts \in Nat
    BY OutboxAssumption, Zenon DEF TypeOK, Row, Item
  <2> QED
    BY <1>3, <2>1 DEF RetryEventOutbox, Exhausted, Released, Settled, TypeOK, Fenced
<1>4. CASE retry(r, id)
  <2>1. Ended(r, id)
    BY <1>1, <1>4, Zenon DEF retry, RetryEventOutbox
  <2>2. Settled(r, id)
    BY <1>3, <1>4, Zenon DEF retry
  <2> QED
    BY <1>4, <2>1, <2>2, Zenon DEF retry, RetryEventOutbox, envVars
<1>5. CASE failImmediately(r, id)
  <2>1. Ended(r, id)
    BY <1>1, <1>5, Zenon DEF failImmediately, RetryEventOutbox
  <2>2. Settled(r, id)
    BY <1>3, <1>5, Zenon DEF failImmediately
  <2> QED
    BY <1>5, <2>1, <2>2, Zenon DEF failImmediately, RetryEventOutbox, envVars
<1> QED
  BY <1>2, <1>4, <1>5, Zenon DEF Persist

\* A failed statement ends the goroutine and leaves the tables alone.
LEMMA FaultRow ==
  ASSUME TypeOK, NEW r \in Relays, NEW id \in Ids, PersistFault(r, id)
  PROVE  /\ Ended(r, id)
         /\ faults' = faults + 1
         /\ UNCHANGED <<outbox, fidelity, inserted, tokens, rules, bound, received>>
<1>1. Ended(r, id)
  BY BecomeOne, Zenon DEF PersistFault, Finish, Ended
<1> QED
  BY <1>1, Zenon DEF PersistFault, dbVars, envVars

\* What a claim does to the rows: some pending or expired ones go inflight.
LEMMA ClaimRow ==
  ASSUME NEW r \in Relays, ClaimEventOutbox(r)
  PROVE  /\ \A id \in Ids : \/ outbox'[id] = outbox[id]
                            \/ /\ outbox[id].status \in {"pending", "inflight"}
                               /\ outbox'[id].status = "inflight"
         /\ fidelity' = fidelity
<1> PICK S \in SUBSET {id \in Ids : Due(id)} : ClaimBatch(r, S)
  BY Zenon DEF ClaimEventOutbox, ClaimBatch
<1>1. \A id \in S : /\ outbox[id].status \in {"pending", "inflight"}
                    /\ outbox'[id].status = "inflight"
  BY Zenon DEF ClaimBatch, Claimed, Due
<1>2. \A id \in Ids \ S : outbox'[id] = outbox[id]
  BY Zenon DEF ClaimBatch
<1>3. fidelity' = fidelity
  BY Zenon DEF ClaimEventOutbox
<1> QED
  BY <1>1, <1>2, <1>3, Zenon

\* What a committed delete does to the rows: two fresh ones appear.
LEMMA InsertRow ==
  insertOutboxFacts =>
         \A id \in Ids : \/ outbox'[id] = outbox[id]
                         \/ outbox'[id].attempts = 0 /\ outbox'[id].status = "pending"
BY DEF insertOutboxFacts, Released, EmptyRow

\* What pruning does to the rows: some delivered or failed ones go.
LEMMA PruneRow ==
  ASSUME PruneEventOutbox
  PROVE  /\ \A id \in Ids : \/ outbox'[id] = outbox[id]
                            \/ /\ outbox[id].status \in {"delivered", "failed"}
                               /\ outbox'[id].status = "pruned"
                               /\ outbox'[id].attempts = outbox[id].attempts
         /\ UNCHANGED <<inserted, tokens, work, received, faults>>
<1> PICK S \in SUBSET {id \in Ids : outbox[id].status \in {"delivered", "failed"}} :
           /\ outbox' = [id \in Ids |-> IF id \in S THEN Released(outbox[id], "pruned", 0)
                                                    ELSE outbox[id]]
           /\ UNCHANGED <<inserted, tokens, work, received, faults>>
  BY Zenon DEF PruneEventOutbox
<1>1. \A id \in S : /\ outbox[id].status \in {"delivered", "failed"}
                    /\ outbox'[id].status = "pruned"
                    /\ outbox'[id].attempts = outbox[id].attempts
  BY Zenon DEF Released
<1>2. \A id \in Ids \ S : outbox'[id] = outbox[id]
  BY Zenon
<1> QED
  BY <1>1, <1>2, Zenon

\* What the clock does to a row: its lease and its delay run down.
LEMMA TickRow ==
  TypeOK /\ Tick =>
         /\ \A id \in Ids : /\ outbox'[id].status = outbox[id].status
                            /\ outbox'[id].owner = outbox[id].owner
                            /\ outbox'[id].token = outbox[id].token
                            /\ outbox'[id].attempts = outbox[id].attempts
                            /\ outbox[id].lease \in Nat
                            /\ outbox'[id].lease \in Nat
                            /\ outbox'[id].lease > 0 => outbox[id].lease > 0
                            /\ outbox[id].lease > 1 => outbox'[id].lease > 0
         /\ UNCHANGED <<fidelity, inserted, tokens, work, rules, bound, received>>
BY DEF Tick, Aged, Elapse, TypeOK, Row, envVars

-----------------------------------------------------------------------------
\* TokenInv survives any step in which goroutines only end or move on with
\* what they hold, and rows are left alone or cease to be inflight.
LEMMA TokenKept ==
  ASSUME TokenInv, tokens' = tokens,
         \A s \in Relays, j \in Ids :
            Busy(s, j)' => /\ Busy(s, j)
                           /\ work'[s][j].token = work[s][j].token
                           /\ work'[s][j].attempts = work[s][j].attempts,
         \A j \in Ids : outbox'[j] = outbox[j] \/ outbox'[j].status # "inflight"
  PROVE  TokenInv'
<1>1. \A s \in Relays, j \in Ids :
         Busy(s, j)' /\ Fenced(s, j)' => Fenced(s, j) /\ outbox'[j] = outbox[j]
  <2> SUFFICES ASSUME NEW s \in Relays, NEW j \in Ids, Busy(s, j)', Fenced(s, j)'
               PROVE  Fenced(s, j) /\ outbox'[j] = outbox[j]
    BY Zenon
  <2>1. outbox'[j] = outbox[j] /\ work'[s][j].token = work[s][j].token
    BY Zenon DEF Fenced
  <2> QED
    BY <2>1, Zenon DEF Fenced
<1> QED
  BY <1>1 DEF TokenInv

\* Tokens of different relays stay apart and copies stay current.
LEMMA TokenStep == IInv /\ [Next]_vars => TokenInv'
<1> SUFFICES ASSUME TypeOK, TokenInv, [Next]_vars PROVE TokenInv'
  BY Zenon DEF IInv
<1>1. CASE insertOutboxFacts
  <2>1. work' = work /\ tokens' = tokens
    BY <1>1, Zenon DEF insertOutboxFacts
  <2>2. \A id \in Ids : outbox'[id] = outbox[id] \/ outbox'[id].status # "inflight"
    BY <1>1, InsertRow, Zenon
  <2> QED
    BY <2>1, <2>2, TokenKept, Zenon DEF Busy
<1>2. ASSUME NEW r \in Relays, ClaimEventOutbox(r) PROVE TokenInv'
  <2> PICK S \in SUBSET {id \in Ids : Due(id)} : ClaimBatch(r, S)
    BY <1>2, Zenon DEF ClaimEventOutbox, ClaimBatch
  <2>1. tokens' = tokens + 1 /\ tokens \in Nat
    BY <1>2, Zenon DEF ClaimEventOutbox, newClaimToken, TypeOK
  <2>2. \A s \in Relays, id \in Ids : s # r => work'[s][id] = work[s][id]
    BY Zenon DEF ClaimBatch, TypeOK
  <2>3. \A id \in Ids : Busy(r, id)' =>
           id \in S /\ work'[r][id].token = tokens + 1
                   /\ work'[r][id].attempts = outbox'[id].attempts
    BY Zenon DEF ClaimBatch, TypeOK, IdleItem, Claimed, newClaimToken, Busy
  <2>4. \A id \in Ids : IF id \in S THEN outbox'[id].token = tokens + 1
                                     ELSE outbox'[id] = outbox[id]
    BY Zenon DEF ClaimBatch, Claimed, newClaimToken
  <2>5. \A s \in Relays, id \in Ids : work[s][id].token \in Nat
    BY Zenon DEF TypeOK, Item
  <2>6. \A s \in Relays, id \in Ids : s # r =>
           /\ Busy(s, id)' => Busy(s, id) /\ work'[s][id].token <= tokens
           /\ Busy(s, id)' /\ Fenced(s, id)' => Fenced(s, id) /\ outbox'[id] = outbox[id]
    <3> SUFFICES ASSUME NEW s \in Relays, NEW id \in Ids, s # r, Busy(s, id)'
                 PROVE  /\ Busy(s, id) /\ work'[s][id].token <= tokens
                        /\ Fenced(s, id)' => Fenced(s, id) /\ outbox'[id] = outbox[id]
      BY Zenon
    <3>1. work'[s][id] = work[s][id] /\ Busy(s, id)
      BY <2>2, Zenon DEF Busy
    <3>2. work[s][id].token \in Nat /\ work[s][id].token <= tokens
      BY <2>5, <3>1, Zenon DEF TokenInv
    <3>3. ASSUME Fenced(s, id)' PROVE id \notin S
      BY <2>1, <2>4, <3>1, <3>2, <3>3 DEF Fenced
    <3>4. ASSUME Fenced(s, id)' PROVE Fenced(s, id) /\ outbox'[id] = outbox[id]
      BY <2>4, <3>1, <3>3, <3>4, Zenon DEF Fenced
    <3> QED
      BY <3>1, <3>2, <3>4, Zenon
  <2>7. \A s \in Relays, id \in Ids : Busy(s, id)' => work'[s][id].token <= tokens'
    <3> SUFFICES ASSUME NEW s \in Relays, NEW id \in Ids, Busy(s, id)'
                 PROVE  work'[s][id].token <= tokens'
      BY Zenon
    <3>1. CASE s = r
      BY <2>1, <2>3, <3>1
    <3>2. CASE s # r
      <4>1. work'[s][id].token \in Nat /\ work'[s][id].token <= tokens
        BY <2>2, <2>5, <2>6, <3>2, Zenon
      <4> QED
        BY <2>1, <4>1
    <3> QED
      BY <3>1, <3>2, Zenon
  <2>8. \A s, q \in Relays, i, j \in Ids :
           Busy(s, i)' /\ Busy(q, j)' /\ s # q => work'[s][i].token # work'[q][j].token
    <3> SUFFICES ASSUME NEW s \in Relays, NEW q \in Relays, NEW i \in Ids, NEW j \in Ids,
                        Busy(s, i)', Busy(q, j)', s # q
                 PROVE  work'[s][i].token # work'[q][j].token
      BY ZenonT(40)
    <3>1. CASE s = r
      BY <2>1, <2>2, <2>3, <2>5, <2>6, <3>1
    <3>2. CASE q = r
      BY <2>1, <2>2, <2>3, <2>5, <2>6, <3>2
    <3>3. CASE s # r /\ q # r
      <4>1. /\ work'[s][i] = work[s][i] /\ Busy(s, i)
            /\ work'[q][j] = work[q][j] /\ Busy(q, j)
        BY <2>2, <2>6, <3>3, Zenon
      <4> QED
        BY <4>1 DEF TokenInv
    <3> QED
      BY <3>1, <3>2, <3>3, Zenon
  <2>9. \A s \in Relays, id \in Ids :
           Busy(s, id)' /\ Fenced(s, id)' => work'[s][id].attempts = outbox'[id].attempts
    BY <2>2, <2>3, <2>6, SMTT(20) DEF TokenInv
  <2> QED
    BY <2>7, <2>8, <2>9, Zenon DEF TokenInv
<1>3. ASSUME NEW r \in Relays, Crash(r) PROVE TokenInv'
  <2>1. /\ \A id \in Ids : work'[r][id].phase = "idle"
        /\ \A s \in Relays, id \in Ids : s # r => work'[s][id] = work[s][id]
    BY <1>3, Zenon DEF Crash, TypeOK, IdleItem
  <2>2. outbox' = outbox /\ tokens' = tokens
    BY <1>3, Zenon DEF Crash, dbVars
  <2> QED
    BY <2>1, <2>2, TokenKept, Zenon DEF Busy
<1>4. ASSUME NEW r \in Relays, NEW id \in Ids, Deliver(r, id) PROVE TokenInv'
  <2>1. /\ outbox' = outbox /\ tokens' = tokens
        /\ \A s \in Relays, j \in Ids :
              Busy(s, j)' => /\ Busy(s, j)
                             /\ work'[s][j].token = work[s][j].token
                             /\ work'[s][j].attempts = work[s][j].attempts
    BY <1>4, DeliverWork DEF Busy
  <2> QED
    BY <2>1, TokenKept, Zenon
<1>5. ASSUME NEW r \in Relays, NEW id \in Ids, Persist(r, id) PROVE TokenInv'
  <2>1. Ended(r, id) /\ Settled(r, id) /\ tokens' = tokens
    BY <1>5, PersistRow, Zenon
  <2>2. \A j \in Ids : outbox'[j] = outbox[j] \/ outbox'[j].status # "inflight"
    BY <2>1, Zenon DEF Settled
  <2>3. \A s \in Relays, j \in Ids : Busy(s, j)' => Busy(s, j) /\ work'[s][j] = work[s][j]
    BY <2>1 DEF Ended, IdleItem, Busy
  <2> QED
    BY <2>1, <2>2, <2>3, TokenKept, Zenon
<1>6. ASSUME NEW r \in Relays, NEW id \in Ids, PersistFault(r, id) PROVE TokenInv'
  <2>1. Ended(r, id) /\ outbox' = outbox /\ tokens' = tokens
    BY <1>6, FaultRow, Zenon
  <2>2. \A s \in Relays, j \in Ids : Busy(s, j)' => Busy(s, j) /\ work'[s][j] = work[s][j]
    BY <2>1 DEF Ended, IdleItem, Busy
  <2> QED
    BY <2>1, <2>2, TokenKept, Zenon
<1>7. CASE PruneEventOutbox
  <2>1. work' = work /\ tokens' = tokens
    BY <1>7, PruneRow, Zenon
  <2>2. \A id \in Ids : outbox'[id] = outbox[id] \/ outbox'[id].status # "inflight"
    BY <1>7, PruneRow, Zenon
  <2> QED
    BY <2>1, <2>2, TokenKept, Zenon DEF Busy
<1>8. CASE Tick
  <2>1. /\ \A id \in Ids : /\ outbox'[id].status = outbox[id].status
                           /\ outbox'[id].owner = outbox[id].owner
                           /\ outbox'[id].token = outbox[id].token
                           /\ outbox'[id].attempts = outbox[id].attempts
                           /\ outbox'[id].lease > 0 => outbox[id].lease > 0
        /\ work' = work /\ tokens' = tokens
    BY <1>8, TickRow, Zenon
  <2>2. \A r \in Relays, id \in Ids : Fenced(r, id)' => Fenced(r, id)
    BY <2>1, Zenon DEF Fenced
  <2>3. \A r \in Relays, id \in Ids : Busy(r, id)' = Busy(r, id)
    BY <2>1, Zenon DEF Busy
  <2> QED
    BY <2>1, <2>2, <2>3 DEF TokenInv
<1>9. CASE SetRules \/ SetBinding \/ UNCHANGED vars
  <2>1. UNCHANGED <<outbox, work, tokens>>
    BY <1>9, Zenon DEF SetRules, SetBinding, vars, dbVars
  <2> QED
    BY <2>1, TokenKept, Zenon DEF Busy
<1> QED
  BY <1>1, <1>2, <1>3, <1>4, <1>5, <1>6, <1>7, <1>8, <1>9, Zenon DEF Next

-----------------------------------------------------------------------------
(* The attempt budget, the targets' answers and the theorems *)

\* A mishap pays for one more attempt of every row.
LEMMA MishapBudget ==
  ASSUME TypeOK, BudgetInv, faults' = faults + 1,
         \A id \in Ids : /\ outbox'[id].status = outbox[id].status
                         /\ outbox'[id].attempts = outbox[id].attempts
  PROVE  BudgetInv'
<1>1. MaxAttempts \in Nat /\ faults \in Nat
  BY OutboxAssumption, Zenon DEF TypeOK
<1>2. ASSUME NEW id \in Ids
      PROVE  /\ outbox'[id].status = "pending" => outbox'[id].attempts < MaxAttempts
             /\ outbox'[id].attempts <= MaxAttempts + faults'
             /\ outbox'[id].attempts < MaxAttempts + faults'
  <2>1. outbox[id].attempts \in Nat
    BY Zenon DEF TypeOK, Row
  <2>2. /\ outbox[id].status = "pending" => outbox[id].attempts < MaxAttempts
        /\ outbox[id].attempts <= MaxAttempts + faults
    BY Zenon DEF BudgetInv
  <2> QED
    BY <1>1, <2>1, <2>2
<1> QED
  BY <1>2, Zenon DEF BudgetInv

\* Rows that keep their holder, or are released within the budget, and no
\* mishap.
LEMMA KeptBudget ==
  ASSUME BudgetInv, faults' = faults,
         \A id \in Ids :
            \/ /\ outbox'[id].status = outbox[id].status
               /\ outbox'[id].attempts = outbox[id].attempts
               /\ Held(id) => Held(id)'
            \/ /\ outbox'[id].status # "inflight"
               /\ outbox'[id].attempts <= MaxAttempts + faults
               /\ outbox'[id].status = "pending" => outbox'[id].attempts < MaxAttempts
  PROVE  BudgetInv'
<1> SUFFICES ASSUME NEW id \in Ids
             PROVE  /\ outbox'[id].status = "pending" => outbox'[id].attempts < MaxAttempts
                    /\ outbox'[id].attempts <= MaxAttempts + faults'
                    /\ outbox'[id].status = "inflight" /\ ~Held(id)'
                          => outbox'[id].attempts < MaxAttempts + faults'
  BY Zenon DEF BudgetInv
<1>1. /\ outbox[id].status = "pending" => outbox[id].attempts < MaxAttempts
      /\ outbox[id].attempts <= MaxAttempts + faults
      /\ outbox[id].status = "inflight" /\ ~Held(id)
            => outbox[id].attempts < MaxAttempts + faults
  BY Zenon DEF BudgetInv
<1> QED
  BY <1>1, Zenon

\* The attempt budget: what a row lacks of it was spent by a mishap.
LEMMA BudgetStep == IInv /\ [Next]_vars => BudgetInv'
<1> SUFFICES ASSUME TypeOK, TokenInv, BudgetInv, [Next]_vars PROVE BudgetInv'
  BY Zenon DEF IInv
<1>a. \A id \in Ids : outbox[id].attempts \in Nat /\ outbox[id].lease \in Nat
  BY Zenon DEF TypeOK, Row
<1>b. faults \in Nat /\ MaxAttempts \in Nat /\ MaxAttempts > 0 /\ ClaimTTL > 0
  BY OutboxAssumption DEF TypeOK
<1>1. CASE insertOutboxFacts
  <2>1. UNCHANGED <<work, faults>>
    BY <1>1, Zenon DEF insertOutboxFacts
  <2>2. \A id \in Ids : \/ outbox'[id] = outbox[id]
                        \/ outbox'[id].attempts = 0 /\ outbox'[id].status = "pending"
    BY <1>1, InsertRow, Zenon
  <2>3. \A id \in Ids : outbox'[id] = outbox[id] => (Held(id) => Held(id)')
    BY <2>1, Zenon DEF Held, Busy, Fenced
  <2>4. \A id \in Ids : outbox'[id].attempts = 0 =>
                           /\ outbox'[id].attempts <= MaxAttempts + faults
                           /\ outbox'[id].attempts < MaxAttempts
    BY <1>b
  <2> QED
    BY <2>1, <2>2, <2>3, <2>4, KeptBudget, Zenon
<1>2. ASSUME NEW r \in Relays, ClaimEventOutbox(r) PROVE BudgetInv'
  <2> PICK S \in SUBSET {id \in Ids : Due(id)} : ClaimBatch(r, S)
    BY <1>2, Zenon DEF ClaimEventOutbox, ClaimBatch
  <2>1. faults' = faults
    BY <1>2, Zenon DEF ClaimEventOutbox
  <2>2. ASSUME NEW id \in S
        PROVE  /\ outbox'[id].attempts <= MaxAttempts + faults
               /\ outbox'[id].status = "inflight"
               /\ Held(id)'
    <3>1. /\ outbox[id].status \in {"pending", "inflight"}
          /\ outbox[id].status = "inflight" => outbox[id].lease = 0
      BY Zenon DEF Due
    <3>2. /\ outbox'[id].attempts = outbox[id].attempts + 1
          /\ outbox'[id].status = "inflight"
          /\ outbox'[id].owner = HostOf[r]
          /\ outbox'[id].token = newClaimToken
          /\ outbox'[id].lease = ClaimTTL
      BY Zenon DEF ClaimBatch, Claimed
    <3>3. work'[r][id].phase = "start" /\ work'[r][id].token = newClaimToken
      BY Zenon DEF ClaimBatch, TypeOK
    <3>4. Busy(r, id)' /\ Fenced(r, id)'
      BY <1>b, <3>2, <3>3, Zenon DEF Busy, Fenced
    <3>5. outbox[id].status = "inflight" => ~Held(id)
      BY <3>1 DEF Held, Fenced
    <3>6. outbox[id].attempts < MaxAttempts + faults
      BY <1>a, <1>b, <3>1, <3>5 DEF BudgetInv
    <3>7. outbox'[id].attempts <= MaxAttempts + faults
      BY <1>a, <1>b, <3>2, <3>6
    <3> QED
      BY <3>2, <3>4, <3>7, Zenon DEF Held
  <2>3. ASSUME NEW id \in Ids \ S
        PROVE  outbox'[id] = outbox[id] /\ (Held(id) => Held(id)')
    <3>1. outbox'[id] = outbox[id]
      BY Zenon DEF ClaimBatch
    <3>2. \A s \in Relays : Busy(s, id) => work'[s][id] = work[s][id]
      BY <1>2, Zenon DEF ClaimBatch, ClaimEventOutbox, Busy, TypeOK
    <3> QED
      BY <3>1, <3>2, Zenon DEF Held, Busy, Fenced
  <2>4. ASSUME NEW id \in Ids
        PROVE  /\ outbox'[id].status = "pending" => outbox'[id].attempts < MaxAttempts
               /\ outbox'[id].attempts <= MaxAttempts + faults
               /\ outbox'[id].status = "inflight" /\ ~Held(id)'
                     => outbox'[id].attempts < MaxAttempts + faults
    <3>1. CASE id \in S
      BY <2>2, <3>1, Zenon
    <3>2. CASE id \notin S
      BY <2>3, <3>2, Zenon DEF BudgetInv
    <3> QED
      BY <3>1, <3>2, Zenon
  <2> QED
    BY <2>1, <2>4, Zenon DEF BudgetInv
<1>3. ASSUME NEW r \in Relays, Crash(r) PROVE BudgetInv'
  <2>1. outbox' = outbox /\ faults' = faults + 1
    BY <1>3, Zenon DEF Crash, dbVars
  <2> QED
    BY <2>1, MishapBudget, Zenon
<1>4. ASSUME NEW r \in Relays, NEW id \in Ids, Deliver(r, id) PROVE BudgetInv'
  <2>1. /\ outbox' = outbox /\ faults' = faults
        /\ \A s \in Relays, j \in Ids :
              Busy(s, j) => Busy(s, j)' /\ work'[s][j].token = work[s][j].token
    BY <1>4, DeliverWork DEF Busy
  <2>2. \A s \in Relays, j \in Ids : Busy(s, j) /\ Fenced(s, j) => Busy(s, j)' /\ Fenced(s, j)'
    BY <2>1, Zenon DEF Fenced
  <2>3. \A j \in Ids : Held(j) => Held(j)'
    BY <2>2, Zenon DEF Held
  <2> QED
    BY <2>1, <2>3, KeptBudget, Zenon
<1>5. ASSUME NEW r \in Relays, NEW id \in Ids, Persist(r, id) PROVE BudgetInv'
  <2>0. Ended(r, id) /\ Settled(r, id) /\ faults' = faults
    BY <1>5, PersistRow, Zenon
  <2>1. \A j \in Ids : j # id => outbox'[j] = outbox[j] /\ (Held(j) => Held(j)')
    <3>1. \A j \in Ids : j # id => /\ outbox'[j] = outbox[j]
                                   /\ \A s \in Relays : work'[s][j] = work[s][j]
      BY <2>0, Zenon DEF Ended, Settled
    <3> QED
      BY <3>1, Zenon DEF Held, Busy, Fenced
  <2>2. CASE Fenced(r, id)
    <3>1. work[r][id].attempts = outbox[id].attempts
      BY <2>0, <2>2, Zenon DEF TokenInv, Busy, Ended
    <3>2. /\ outbox'[id].attempts = outbox[id].attempts
          /\ outbox'[id].status \in {"delivered", "failed", "pending"}
          /\ outbox'[id].status = "pending" => \/ outbox[id].attempts < MaxAttempts
                                               \/ outbox[id].attempts < work[r][id].attempts
      BY <2>0, <2>2, Zenon DEF Settled
    <3>3. ~(outbox[id].attempts < work[r][id].attempts)
      BY <1>a, <3>1
    <3>4. outbox[id].attempts <= MaxAttempts + faults
      BY Zenon DEF BudgetInv
    <3> QED
      BY <2>0, <2>1, <3>2, <3>3, <3>4, KeptBudget, Zenon
  <2>3. CASE ~Fenced(r, id)
    <3>1. outbox' = outbox
      BY <2>0, <2>3, Zenon DEF Settled
    <3>2. \A s \in Relays : s # r => work'[s][id] = work[s][id]
      BY <2>0, Zenon DEF Ended
    <3>3. Held(id) => Held(id)'
      BY <2>3, <3>1, <3>2 DEF Held, Busy, Fenced
    <3> QED
      BY <2>0, <2>1, <3>1, <3>3, KeptBudget, Zenon
  <2> QED
    BY <2>2, <2>3, Zenon
<1>6. ASSUME NEW r \in Relays, NEW id \in Ids, PersistFault(r, id) PROVE BudgetInv'
  <2>1. outbox' = outbox /\ faults' = faults + 1
    BY <1>6, FaultRow, Zenon
  <2> QED
    BY <2>1, MishapBudget, Zenon
<1>7. CASE PruneEventOutbox
  <2>1. UNCHANGED <<work, faults>>
    BY <1>7, PruneRow, Zenon
  <2>2. \A id \in Ids : \/ outbox'[id] = outbox[id]
                        \/ /\ outbox'[id].attempts = outbox[id].attempts
                           /\ outbox'[id].status = "pruned"
    BY <1>7, PruneRow, Zenon
  <2>3. \A id \in Ids : outbox'[id] = outbox[id] => (Held(id) => Held(id)')
    BY <2>1, Zenon DEF Held, Busy, Fenced
  <2>4. \A id \in Ids : outbox[id].attempts <= MaxAttempts + faults
    BY Zenon DEF BudgetInv
  <2> QED
    BY <2>1, <2>2, <2>3, <2>4, KeptBudget, Zenon
<1>8. CASE Tick
  <2>1. \A id \in Ids : /\ outbox'[id].status = outbox[id].status
                        /\ outbox'[id].attempts = outbox[id].attempts
    BY <1>8, TickRow, Zenon
  <2>2. CASE Overrun
    <3>1. faults' = faults + 1
      BY <1>8, <2>2, Zenon DEF Tick
    <3> QED
      BY <2>1, <3>1, MishapBudget, Zenon
  <2>3. CASE ~Overrun
    <3>1. ASSUME NEW id \in Ids, Held(id) PROVE Held(id)'
      <4>1. PICK r \in Relays : Busy(r, id) /\ Fenced(r, id)
        BY <3>1, Zenon DEF Held
      <4>2. outbox[id].lease # 1
        BY <2>3, <4>1, Zenon DEF Overrun, Busy
      <4>3. outbox[id].lease > 1
        BY <1>a, <4>1, <4>2 DEF Fenced
      <4>4. Fenced(r, id)' /\ work' = work
        BY <1>8, <4>1, <4>3, TickRow, Zenon DEF Fenced
      <4> QED
        BY <4>1, <4>4, Zenon DEF Held, Busy
    <3>2. faults' = faults
      BY <1>8, <2>3, Zenon DEF Tick
    <3> QED
      BY <2>1, <3>1, <3>2, KeptBudget, Zenon
  <2> QED
    BY <2>2, <2>3, Zenon
<1>9. CASE SetRules \/ SetBinding \/ UNCHANGED vars
  <2>1. UNCHANGED <<outbox, work, faults>>
    BY <1>9, Zenon DEF SetRules, SetBinding, vars, dbVars
  <2>2. \A id \in Ids : Held(id) => Held(id)'
    BY <2>1, Zenon DEF Held, Busy, Fenced
  <2> QED
    BY <2>1, <2>2, KeptBudget, Zenon
<1> QED
  BY <1>1, <1>2, <1>3, <1>4, <1>5, <1>6, <1>7, <1>8, <1>9, Zenon DEF Next

\* The delivered table follows the statuses through completion and pruning.
LEMMA FidelityStep == IInv /\ [Next]_vars => FidelityAgrees'
<1> SUFFICES ASSUME IInv, [Next]_vars PROVE FidelityAgrees'
  BY Zenon
<1> USE DEF IInv, FidelityAgrees
<1>1. CASE insertOutboxFacts
  <2>1. \A id \in Ids : outbox'[id].status = "delivered" <=>
                           /\ outbox[id].status = "delivered"
                           /\ id \notin {inserted + 1, inserted + 2}
    BY <1>1, Zenon DEF insertOutboxFacts, Released, EmptyRow
  <2>2. \A id \in {inserted + 1, inserted + 2} \cap Ids : outbox[id].status # "delivered"
    BY DEF FreshInv, TypeOK
  <2> QED
    BY <1>1, <2>1, <2>2, Zenon DEF insertOutboxFacts
<1>2. ASSUME NEW r \in Relays, ClaimEventOutbox(r) PROVE FidelityAgrees'
  BY <1>2, ClaimRow, Zenon
<1>3. ASSUME NEW r \in Relays, Crash(r) PROVE FidelityAgrees'
  BY <1>3, Zenon DEF Crash, dbVars
<1>4. ASSUME NEW r \in Relays, NEW id \in Ids, Deliver(r, id) PROVE FidelityAgrees'
  BY <1>4, DeliverWork, Zenon
<1>5. ASSUME NEW r \in Relays, NEW id \in Ids, Persist(r, id) PROVE FidelityAgrees'
  <2>0. Settled(r, id)
    BY <1>5, PersistRow, Zenon
  <2>1. CASE Fenced(r, id)
    BY <2>0, <2>1, Zenon DEF Settled
  <2>2. CASE ~Fenced(r, id)
    BY <2>0, <2>2, Zenon DEF Settled
  <2> QED
    BY <2>1, <2>2, Zenon
<1>6. ASSUME NEW r \in Relays, NEW id \in Ids, PersistFault(r, id) PROVE FidelityAgrees'
  BY <1>6, Zenon DEF PersistFault, dbVars
<1>7. CASE PruneEventOutbox
  BY <1>7 DEF PruneEventOutbox, FidelityAfterPrune, Released
<1>8. CASE Tick
  BY <1>8, TickRow, Zenon
<1>9. CASE SetRules \/ SetBinding \/ UNCHANGED vars
  BY <1>9, Zenon DEF SetRules, SetBinding, vars, dbVars
<1> QED
  BY <1>1, <1>2, <1>3, <1>4, <1>5, <1>6, <1>7, <1>8, <1>9, Zenon DEF Next

\* Rows past the id sequence do not exist yet.
LEMMA FreshStep == IInv /\ [Next]_vars => FreshInv'
<1> SUFFICES ASSUME IInv, [Next]_vars PROVE FreshInv'
  BY Zenon
<1>0. TypeOK /\ inserted \in Nat
  BY Zenon DEF IInv, TypeOK
<1> USE <1>0 DEF IInv, FreshInv
<1>1. CASE insertOutboxFacts
  BY <1>1 DEF insertOutboxFacts, Ids
<1>2. ASSUME NEW r \in Relays, ClaimEventOutbox(r) PROVE FreshInv'
  BY <1>2, Zenon DEF ClaimEventOutbox, Due
<1>3. ASSUME NEW r \in Relays, Crash(r) PROVE FreshInv'
  BY <1>3, Zenon DEF Crash, dbVars
<1>4. ASSUME NEW r \in Relays, NEW id \in Ids, Deliver(r, id) PROVE FreshInv'
  BY <1>4, DeliverWork, Zenon
<1>5. ASSUME NEW r \in Relays, NEW id \in Ids, Persist(r, id) PROVE FreshInv'
  <2>1. Settled(r, id) /\ inserted' = inserted
    BY <1>5, PersistRow, Zenon
  <2>2. \A j \in Ids : outbox'[j] = outbox[j] \/ outbox[j].status = "inflight"
    BY <2>1, Zenon DEF Settled
  <2> QED
    BY <2>1, <2>2, Zenon
<1>6. ASSUME NEW r \in Relays, NEW id \in Ids, PersistFault(r, id) PROVE FreshInv'
  BY <1>6, Zenon DEF PersistFault, dbVars
<1>7. CASE PruneEventOutbox
  BY <1>7, Zenon DEF PruneEventOutbox
<1>8. CASE Tick
  BY <1>8, TickRow, Zenon
<1>9. CASE SetRules \/ SetBinding \/ UNCHANGED vars
  BY <1>9, Zenon DEF SetRules, SetBinding, vars, dbVars
<1> QED
  BY <1>1, <1>2, <1>3, <1>4, <1>5, <1>6, <1>7, <1>8, <1>9, Zenon DEF Next

\* A step of one goroutine keeps SentInv when that goroutine's item is right
\* and no target forgets anything.
LEMMA SentOthers ==
  ASSUME SentInv, NEW r \in Relays, NEW id \in Ids,
         \A s \in Relays, j \in Ids : s # r \/ j # id => work'[s][j] = work[s][j],
         \A j \in Ids : received[j] \subseteq received'[j],
         SentOK(work'[r][id], id, received'[id])
  PROVE  SentInv'
<1> SUFFICES ASSUME NEW s \in Relays, NEW j \in Ids
             PROVE  SentOK(work'[s][j], j, received'[j])
  BY Zenon DEF SentInv
<1>1. CASE s = r /\ j = id
  BY <1>1, Zenon
<1>2. CASE s # r \/ j # id
  <2>1. work'[s][j] = work[s][j] /\ SentOK(work[s][j], j, received[j])
    BY <1>2, Zenon DEF SentInv
  <2> QED
    BY <2>1, Zenon DEF SentOK
<1> QED
  BY <1>1, <1>2, Zenon

\* A goroutine's progress through its targets is what they received.
LEMMA SentStep == IInv /\ [Next]_vars => SentInv'
<1> SUFFICES ASSUME TypeOK, SentInv, [Next]_vars PROVE SentInv'
  BY Zenon DEF IInv
<1>1. CASE insertOutboxFacts
  BY <1>1, Zenon DEF insertOutboxFacts, SentInv
<1>2. ASSUME NEW r \in Relays, ClaimEventOutbox(r) PROVE SentInv'
  <2> PICK S \in SUBSET {id \in Ids : Due(id)} : ClaimBatch(r, S)
    BY <1>2, Zenon DEF ClaimEventOutbox, ClaimBatch
  <2>1. \A id \in Ids : work'[r][id].phase \in {"start", "idle"}
    BY Zenon DEF ClaimBatch, IdleItem, TypeOK
  <2>2. \A s \in Relays, id \in Ids : s # r => work'[s][id] = work[s][id]
    BY Zenon DEF ClaimBatch, TypeOK
  <2>3. received' = received
    BY <1>2, Zenon DEF ClaimEventOutbox
  <2>4. \A id \in Ids : SentOK(work'[r][id], id, received'[id])
    BY <2>1, Zenon DEF SentOK
  <2> QED
    BY <2>2, <2>3, <2>4, Zenon DEF SentInv
<1>3. ASSUME NEW r \in Relays, Crash(r) PROVE SentInv'
  <2>1. /\ \A id \in Ids : work'[r][id].phase = "idle"
        /\ \A s \in Relays, id \in Ids : s # r => work'[s][id] = work[s][id]
        /\ received' = received
    BY <1>3, Zenon DEF Crash, TypeOK, IdleItem
  <2>2. \A id \in Ids : SentOK(work'[r][id], id, received'[id])
    BY <2>1, Zenon DEF SentOK
  <2> QED
    BY <2>1, <2>2, Zenon DEF SentInv
<1>4. ASSUME NEW r \in Relays, NEW id \in Ids, Deliver(r, id) PROVE SentInv'
  <2>0. \A s \in Relays, j \in Ids : s # r \/ j # id => work'[s][j] = work[s][j]
    BY <1>4, DeliverWork, Zenon
  <2>1. ASSUME NEW phase, Goto(r, id, phase)
        PROVE  /\ work'[r][id].phase = phase
               /\ work'[r][id].matched = work[r][id].matched
               /\ work'[r][id].todo = work[r][id].todo
    <3>1. work'[r][id] = At(work[r][id], phase)
      BY <2>1, BecomeOne DEF Goto
    <3> QED
      BY <3>1 DEF At
  <2>a. SentOK(work[r][id], id, received[id])
    BY Zenon DEF SentInv
  <2>b. ASSUME \A j \in Ids : received[j] \subseteq received'[j],
               SentOK(work'[r][id], id, received'[id])
        PROVE  SentInv'
    BY <2>0, <2>b, SentOthers, Zenon
  <2>c. ASSUME NEW phase \in {"err", "deny", "rules"}, Goto(r, id, phase)
        PROVE  SentOK(work'[r][id], id, received'[id])
    BY <2>1, <2>c, Zenon DEF SentOK
  <2>3. CASE deliverDeleted(r, id)
    <3>1. received' = received
      BY <2>3, Zenon DEF deliverDeleted
    <3>2. ASSUME Goto(r, id, "ok") PROVE SentOK(work'[r][id], id, received'[id])
      BY <2>1, <2>3, <3>2, Zenon DEF SentOK, deliverDeleted
    <3>3. SentOK(work'[r][id], id, received'[id])
      BY <2>3, <2>c, <3>2, Zenon DEF deliverDeleted
    <3> QED
      BY <2>b, <3>1, <3>3, Zenon
  <2>4. CASE admitNotify(r, id)
    <3>1. received' = received
      BY <2>4, Zenon DEF admitNotify
    <3>2. SentOK(work'[r][id], id, received'[id])
      BY <2>4, <2>c, Zenon DEF admitNotify, Admission
    <3> QED
      BY <2>b, <3>1, <3>2, Zenon
  <2>5. CASE GetBucketNotifications(r, id)
    <3>1. received' = received
      BY <2>5, Zenon DEF GetBucketNotifications
    <3>2. ASSUME Become(r, id, WithTodo(work[r][id], IF rules = {} THEN "ok" ELSE "admit",
                                         rules, rules))
          PROVE  SentOK(work'[r][id], id, received'[id])
      <4>0. work'[r][id] = WithTodo(work[r][id], IF rules = {} THEN "ok" ELSE "admit",
                                    rules, rules)
        BY <3>2, BecomeOne
      <4>1. /\ work'[r][id].phase = IF rules = {} THEN "ok" ELSE "admit"
            /\ work'[r][id].matched = rules
            /\ work'[r][id].todo = rules
        BY <4>0 DEF WithTodo
      <4> QED
        BY <4>1, Zenon DEF SentOK
    <3>3. SentOK(work'[r][id], id, received'[id])
      BY <2>5, <2>c, <3>2, Zenon DEF GetBucketNotifications
    <3> QED
      BY <2>b, <3>1, <3>3, Zenon
  <2>6. CASE admitTarget(r, id)
    <3>1. received' = received
      BY <2>6, Zenon DEF admitTarget
    <3>2. ASSUME Goto(r, id, "post") PROVE SentOK(work'[r][id], id, received'[id])
      <4>1. /\ work'[r][id].phase = "post"
            /\ work'[r][id].matched = work[r][id].matched
            /\ work'[r][id].todo = work[r][id].todo
        BY <2>1, <3>2, Zenon
      <4>2. work[r][id].matched \ work[r][id].todo \subseteq received[id]
        BY <2>6, <2>a, Zenon DEF SentOK, admitTarget
      <4> QED
        BY <3>1, <4>1, <4>2, Zenon DEF SentOK
    <3>3. SentOK(work'[r][id], id, received'[id])
      BY <2>6, <2>c, <3>2, Zenon DEF admitTarget, Admission
    <3> QED
      BY <2>b, <3>1, <3>3, Zenon
  <2>7. ASSUME NEW t \in Targets, PostArrives(r, id, t) PROVE SentInv'
    <3>1. /\ received'[id] = received[id] \cup {t}
          /\ \A j \in Ids : received[j] \subseteq received'[j]
      BY <2>7, Zenon DEF PostArrives, TypeOK
    <3>2. ASSUME Become(r, id, WithTodo(work[r][id],
                                    IF work[r][id].todo = {t} THEN "ok" ELSE "admit",
                                    work[r][id].matched, work[r][id].todo \ {t}))
          PROVE  SentOK(work'[r][id], id, received'[id])
      <4>0. work'[r][id] = WithTodo(work[r][id],
                                    IF work[r][id].todo = {t} THEN "ok" ELSE "admit",
                                    work[r][id].matched, work[r][id].todo \ {t})
        BY <3>2, BecomeOne
      <4>1. /\ work'[r][id].phase = IF work[r][id].todo = {t} THEN "ok" ELSE "admit"
            /\ work'[r][id].matched = work[r][id].matched
            /\ work'[r][id].todo = work[r][id].todo \ {t}
        BY <4>0 DEF WithTodo
      <4>2. work[r][id].matched \ work[r][id].todo \subseteq received[id]
        BY <2>7, <2>a, Zenon DEF PostArrives, SentOK
      <4>3. work'[r][id].matched \ work'[r][id].todo \subseteq received'[id]
        BY <3>1, <4>1, <4>2, Zenon
      <4>4. work'[r][id].phase = "ok" => work'[r][id].matched \subseteq received'[id]
        BY <3>1, <4>1, <4>2, Zenon
      <4> QED
        BY <4>3, <4>4, Zenon DEF SentOK
    <3>3. SentOK(work'[r][id], id, received'[id])
      BY <2>7, <2>c, <3>2, Zenon DEF PostArrives
    <3> QED
      BY <2>b, <3>1, <3>3, Zenon
  <2>8. CASE PostFails(r, id)
    <3>1. received' = received
      BY <2>8, Zenon DEF PostFails
    <3>2. SentOK(work'[r][id], id, received'[id])
      BY <2>8, <2>c, Zenon DEF PostFails
    <3> QED
      BY <2>b, <3>1, <3>2, Zenon
  <2> QED
    BY <1>4, <2>3, <2>4, <2>5, <2>6, <2>7, <2>8, Zenon DEF Deliver
<1>5. ASSUME NEW r \in Relays, NEW id \in Ids, Persist(r, id) \/ PersistFault(r, id)
      PROVE  SentInv'
  <2>1. Ended(r, id) /\ received' = received
    BY <1>5, PersistRow, FaultRow, Zenon
  <2>2. work'[r][id].phase = "idle"
    BY <2>1 DEF Ended, IdleItem
  <2>3. SentOK(work'[r][id], id, received'[id])
    BY <2>2, Zenon DEF SentOK
  <2> QED
    BY <2>1, <2>3, SentOthers, Zenon DEF Ended
<1>6. CASE PruneEventOutbox
  BY <1>6, Zenon DEF PruneEventOutbox, SentInv
<1>7. CASE Tick
  BY <1>7, TickRow, Zenon DEF SentInv
<1>8. CASE SetRules \/ SetBinding \/ UNCHANGED vars
  BY <1>8, Zenon DEF SetRules, SetBinding, vars, SentInv
<1> QED
  BY <1>1, <1>2, <1>3, <1>4, <1>5, <1>6, <1>7, <1>8, Zenon DEF Next

-----------------------------------------------------------------------------
\* The empty outbox with idle relays satisfies the inductive invariant.
LEMMA InitInv == Init => IInv
<1> SUFFICES ASSUME Init PROVE IInv
  BY Zenon
<1>1. EmptyRow \in Row /\ IdleItem \in Item
  <2>1. EmptyRow \in Row
    BY DEF EmptyRow, Row, Statuses
  <2>2. IdleItem \in Item
    BY Zenon DEF IdleItem, Item, Phases
  <2> QED
    BY <2>1, <2>2, Zenon
<1>2. TypeOK
  BY <1>1, Zenon DEF TypeOK, Init
<1>3. /\ \A id \in Ids : /\ outbox[id].status = "absent"
                         /\ outbox[id].attempts = 0
      /\ \A r \in Relays, id \in Ids : work[r][id].phase = "idle"
      /\ fidelity = {} /\ faults = 0
  BY Zenon DEF Init, EmptyRow, IdleItem
<1>4. TokenInv /\ FidelityAgrees /\ FreshInv
  BY <1>3, Zenon DEF TokenInv, Busy, FidelityAgrees, FreshInv
<1>5. SentInv
  BY <1>3, Zenon DEF SentInv, SentOK
<1>6. BudgetInv
  BY <1>3, OutboxAssumption DEF BudgetInv
<1> QED
  BY <1>2, <1>4, <1>5, <1>6, Zenon DEF IInv

\* Every statement, relay step, crash and tick preserves the inductive invariant.
LEMMA InvStep == IInv /\ [Next]_vars => IInv'
<1> SUFFICES ASSUME IInv, [Next]_vars PROVE IInv'
  BY Zenon
<1>1. TypeOK'
  BY TypeStep, Zenon DEF IInv
<1> QED
  BY <1>1, TokenStep, BudgetStep, FidelityStep, FreshStep, SentStep, Zenon DEF IInv

\* IInv is an invariant of the outbox and its relays.
THEOREM Invariance == Spec => []IInv
BY InitInv, InvStep, PTL DEF Spec

\* Every reachable state of the table and of the relays is well typed.
THEOREM TypeCorrect == Spec => []TypeOK
<1>1. IInv => TypeOK
  BY Zenon DEF IInv
<1> QED
  BY <1>1, Invariance, PTL

\* The fence owner + token + live lease never admits two goroutines, for any
\* number of relays on any hosts.
THEOREM Exclusive == Spec => []ClaimExclusive
<1>1. ASSUME IInv PROVE ClaimExclusive
  <2> SUFFICES ASSUME NEW id \in Ids, NEW r \in Relays, NEW s \in Relays,
                      Busy(r, id), Fenced(r, id), Busy(s, id), Fenced(s, id)
               PROVE  r = s
    BY Zenon DEF ClaimExclusive, Busy
  <2>1. work[r][id].token = work[s][id].token
    BY Zenon DEF Fenced
  <2>2. r # s => work[r][id].token # work[s][id].token
    BY <1>1, Zenon DEF IInv, TokenInv
  <2> QED
    BY <2>1, <2>2, Zenon
<1> QED
  BY <1>1, Invariance, PTL

\* event_outbox_delivered is exactly the set of delivered rows.
THEOREM Fidelity == Spec => []FidelityAgrees
<1>1. IInv => FidelityAgrees
  BY Zenon DEF IInv
<1> QED
  BY <1>1, Invariance, PTL

\* Pending rows have attempts left, and only mishaps exceed the budget.
THEOREM Budget == Spec => []AttemptBudget
<1>1. IInv => AttemptBudget
  BY Zenon DEF IInv, BudgetInv, AttemptBudget
<1> QED
  BY <1>1, Invariance, PTL

\* Delivered and failed facts are never claimed, retried or completed again.
THEOREM Terminal == Spec => TerminalAbsorbing
<1>1. ASSUME IInv, [Next]_vars
      PROVE  \A id \in Ids :
               /\ outbox[id].status \in {"delivered", "failed"} =>
                      outbox'[id].status \in {outbox[id].status, "pruned"}
               /\ outbox[id].status = "pruned" => outbox'[id].status = "pruned"
  <2>0. TypeOK
    BY <1>1, Zenon DEF IInv
  <2>1. CASE insertOutboxFacts
    BY <1>1, <2>0, <2>1 DEF insertOutboxFacts, IInv, FreshInv, TypeOK
  <2>2. ASSUME NEW r \in Relays, ClaimEventOutbox(r)
        PROVE  \A id \in Ids : outbox[id].status \in {"delivered", "failed", "pruned"}
                                => outbox'[id] = outbox[id]
    BY <2>2, ClaimRow, Zenon
  <2>3. ASSUME NEW r \in Relays, Crash(r) PROVE outbox' = outbox
    BY <2>3, Zenon DEF Crash, dbVars
  <2>4. ASSUME NEW r \in Relays, NEW id \in Ids, Deliver(r, id) \/ PersistFault(r, id)
        PROVE  outbox' = outbox
    BY <2>0, <2>4, DeliverWork, Zenon DEF PersistFault, dbVars
  <2>5. ASSUME NEW r \in Relays, NEW id \in Ids, Persist(r, id)
        PROVE  \A j \in Ids : outbox[j].status # "inflight" => outbox'[j] = outbox[j]
    <3>1. Settled(r, id)
      BY <2>0, <2>5, PersistRow, Zenon
    <3> QED
      BY <3>1, Zenon DEF Settled
  <2>6. CASE PruneEventOutbox
    BY <2>6, PruneRow, Zenon
  <2>7. CASE Tick
    BY <2>0, <2>7, TickRow, Zenon
  <2>8. CASE SetRules \/ SetBinding \/ UNCHANGED vars
    BY <2>8, Zenon DEF SetRules, SetBinding, vars, dbVars
  <2> QED
    BY <1>1, <2>1, <2>2, <2>3, <2>4, <2>5, <2>6, <2>7, <2>8, Zenon DEF Next
<1> QED
  BY <1>1, Invariance, PTL DEF Spec, TerminalAbsorbing

\* A completed notification has reached every target its lookup matched.
THEOREM Sent == Spec => DeliveredWasSent
<1>1. ASSUME IInv, [Next]_vars
      PROVE  \A id \in Ids :
               outbox[id].status # "delivered" /\ outbox'[id].status = "delivered" /\ IsNotify(id)
               => \E r \in Relays : /\ work[r][id].phase = "ok"
                                    /\ work[r][id].matched \subseteq received[id]
  <2>0. TypeOK
    BY <1>1, Zenon DEF IInv
  <2>1. CASE insertOutboxFacts
    BY <2>1, InsertRow, Zenon
  <2>2. ASSUME NEW r \in Relays, ClaimEventOutbox(r)
        PROVE  \A id \in Ids : outbox'[id] = outbox[id] \/ outbox'[id].status = "inflight"
    BY <2>2, ClaimRow, Zenon
  <2>3. ASSUME NEW r \in Relays, Crash(r) PROVE outbox' = outbox
    BY <2>3, Zenon DEF Crash, dbVars
  <2>4. ASSUME NEW r \in Relays, NEW id \in Ids, Deliver(r, id) \/ PersistFault(r, id)
        PROVE  outbox' = outbox
    BY <2>0, <2>4, DeliverWork, Zenon DEF PersistFault, dbVars
  <2>5. ASSUME NEW r \in Relays, NEW id \in Ids, Persist(r, id)
        PROVE  \A j \in Ids :
                 outbox[j].status # "delivered" /\ outbox'[j].status = "delivered"
                 => j = id /\ work[r][id].phase = "ok"
    <3>1. Settled(r, id)
      BY <2>0, <2>5, PersistRow, Zenon
    <3> QED
      BY <3>1, Zenon DEF Settled
  <2>9. ASSUME NEW r \in Relays, NEW id \in Ids, work[r][id].phase = "ok", IsNotify(id)
        PROVE  work[r][id].matched \subseteq received[id]
    BY <1>1, <2>9, Zenon DEF IInv, SentInv, SentOK
  <2>6. CASE PruneEventOutbox
    BY <2>6, PruneRow, Zenon
  <2>7. CASE Tick
    BY <2>0, <2>7, TickRow, Zenon
  <2>8. CASE SetRules \/ SetBinding \/ UNCHANGED vars
    BY <2>8, Zenon DEF SetRules, SetBinding, vars, dbVars
  <2>10. CASE \E r \in Relays : ClaimEventOutbox(r) \/ Crash(r)
    BY <2>2, <2>3, <2>10, Zenon
  <2>11. CASE \E r \in Relays, id \in Ids : Deliver(r, id) \/ PersistFault(r, id)
    BY <2>4, <2>11, Zenon
  <2>12. CASE \E r \in Relays, id \in Ids : Persist(r, id)
    BY <2>5, <2>9, <2>12
  <2> QED
    BY <1>1, <2>1, <2>6, <2>7, <2>8, <2>10, <2>11, <2>12, ZenonT(30) DEF Next
<1> QED
  BY <1>1, Invariance, PTL DEF Spec, DeliveredWasSent

-----------------------------------------------------------------------------
(***************************************************************************)
(* The table and its relays implement Outbox, for any number of relays,    *)
(* hosts, targets and facts and any number of mishaps.                     *)
(*                                                                         *)
(* Beside IInv the step needs what a goroutine's phase says (PhaseInv): a  *)
(* goroutine works only on a recorded fact, only a notification's looks up *)
(* targets, and what it has still to send is among what it looked up; and  *)
(* that facts are numbered in pairs (PairInv).                             *)
(***************************************************************************)

PhaseOK(item, id, row) ==
    /\ item.phase # "idle" => row.status # "absent"
    /\ item.phase \in {"rules", "admit", "post"} => IsNotify(id)
    /\ item.phase \in {"admit", "post"} => item.todo \subseteq item.matched

PhaseInv == \A r \in Relays, id \in Ids : PhaseOK(work[r][id], id, outbox[id])

PairInv == \E d \in Nat : inserted = 2 * d

RInv == IInv /\ PhaseInv /\ PairInv

\* A step of one goroutine keeps PhaseInv when that goroutine's item is right
\* and no row disappears.
LEMMA PhaseOthers ==
  ASSUME PhaseInv, NEW r \in Relays, NEW id \in Ids,
         \A s \in Relays, j \in Ids : s # r \/ j # id => work'[s][j] = work[s][j],
         \A j \in Ids : outbox[j].status # "absent" => outbox'[j].status # "absent",
         PhaseOK(work'[r][id], id, outbox'[id])
  PROVE  PhaseInv'
<1> SUFFICES ASSUME NEW s \in Relays, NEW j \in Ids
             PROVE  PhaseOK(work'[s][j], j, outbox'[j])
  BY Zenon DEF PhaseInv
<1>1. CASE s = r /\ j = id
  BY <1>1, Zenon
<1>2. CASE s # r \/ j # id
  <2>1. work'[s][j] = work[s][j] /\ PhaseOK(work[s][j], j, outbox[j])
    BY <1>2, Zenon DEF PhaseInv
  <2> QED
    BY <2>1, Zenon DEF PhaseOK
<1> QED
  BY <1>1, <1>2, Zenon

\* What a goroutine's step makes of its own item.
Advanced(r, id) ==
    \/ /\ work'[r][id].phase \in {"err", "deny"}
       /\ received' = received \/ \E t \in Targets : PostArrives(r, id, t)
    \/ ~IsNotify(id) /\ work'[r][id].phase = "ok" /\ received' = received
    \/ IsNotify(id) /\ work'[r][id].phase = "rules" /\ received' = received
    \/ /\ work[r][id].phase = "rules" /\ work'[r][id].phase \in {"admit", "ok"}
       /\ work'[r][id].matched = rules /\ work'[r][id].todo = rules
       /\ received' = received
    \/ /\ work[r][id].phase = "admit" /\ work'[r][id].phase = "post"
       /\ work'[r][id].matched = work[r][id].matched
       /\ work'[r][id].todo = work[r][id].todo
       /\ received' = received
    \/ /\ work[r][id].phase = "post" /\ work'[r][id].phase \in {"admit", "ok"}
       /\ work'[r][id].matched = work[r][id].matched
       /\ work'[r][id].todo \subseteq work[r][id].todo
       /\ \E t \in Targets : PostArrives(r, id, t)

\* Deliver moves a goroutine through its phases one at a time.
LEMMA DeliverAdvances ==
  ASSUME TypeOK, NEW r \in Relays, NEW id \in Ids, Deliver(r, id)
  PROVE  Advanced(r, id) /\ rules' = rules
<1>1. ASSUME NEW phase, Goto(r, id, phase)
      PROVE  /\ work'[r][id].phase = phase
             /\ work'[r][id].matched = work[r][id].matched
             /\ work'[r][id].todo = work[r][id].todo
  <2>1. work'[r][id] = At(work[r][id], phase)
    BY <1>1, BecomeOne DEF Goto
  <2> QED
    BY <2>1 DEF At
<1>2. ASSUME NEW phase, NEW matched, NEW todo,
             Become(r, id, WithTodo(work[r][id], phase, matched, todo))
      PROVE  /\ work'[r][id].phase = phase
             /\ work'[r][id].matched = matched
             /\ work'[r][id].todo = todo
  <2>1. work'[r][id] = WithTodo(work[r][id], phase, matched, todo)
    BY <1>2, BecomeOne
  <2> QED
    BY <2>1 DEF WithTodo
<1>3. CASE deliverDeleted(r, id)
  BY <1>1, <1>3, Zenon DEF deliverDeleted, Advanced, envVars
<1>4. CASE admitNotify(r, id)
  BY <1>1, <1>4, Zenon DEF admitNotify, Admission, Advanced, envVars
<1>5. CASE GetBucketNotifications(r, id)
  BY <1>1, <1>2, <1>5, Zenon DEF GetBucketNotifications, Advanced, envVars
<1>6. CASE admitTarget(r, id)
  BY <1>1, <1>6, Zenon DEF admitTarget, Admission, Advanced, envVars
<1>7. ASSUME NEW t \in Targets, PostArrives(r, id, t)
      PROVE  Advanced(r, id) /\ rules' = rules
  <2>1. /\ work[r][id].phase = "post" /\ rules' = rules
        /\ \/ /\ work'[r][id].phase \in {"admit", "ok"}
              /\ work'[r][id].matched = work[r][id].matched
              /\ work'[r][id].todo = work[r][id].todo \ {t}
           \/ work'[r][id].phase = "err"
    BY <1>1, <1>2, <1>7, Zenon DEF PostArrives, envVars
  <2> QED
    BY <1>7, <2>1, Zenon DEF Advanced
<1>8. CASE PostFails(r, id)
  BY <1>1, <1>8, Zenon DEF PostFails, Advanced, envVars
<1> QED
  BY <1>3, <1>4, <1>5, <1>6, <1>7, <1>8, Zenon DEF Deliver

\* The phases keep their meaning.
LEMMA PhaseStep == IInv /\ PhaseInv /\ [Next]_vars => PhaseInv'
<1> SUFFICES ASSUME TypeOK, FreshInv, PhaseInv, [Next]_vars PROVE PhaseInv'
  BY Zenon DEF IInv
<1>1. CASE insertOutboxFacts
  <2>1. work' = work /\ \A id \in Ids : outbox[id].status # "absent" => outbox'[id].status # "absent"
    BY <1>1, InsertRow, Zenon DEF insertOutboxFacts
  <2> QED
    BY <2>1, Zenon DEF PhaseInv, PhaseOK
<1>2. ASSUME NEW r \in Relays, ClaimEventOutbox(r) PROVE PhaseInv'
  <2> PICK S \in SUBSET {id \in Ids : Due(id)} : ClaimBatch(r, S)
    BY <1>2, Zenon DEF ClaimEventOutbox, ClaimBatch
  <2>1. \A id \in Ids : \/ work'[r][id].phase = "start" /\ outbox'[id].status = "inflight"
                        \/ work'[r][id].phase = "idle"
    BY Zenon DEF ClaimBatch, Claimed, IdleItem, TypeOK
  <2>2. \A s \in Relays, id \in Ids : s # r => work'[s][id] = work[s][id]
    BY Zenon DEF ClaimBatch, TypeOK
  <2>3. \A id \in Ids : outbox[id].status # "absent" => outbox'[id].status # "absent"
    BY <1>2, ClaimRow, Zenon
  <2>4. \A id \in Ids : PhaseOK(work'[r][id], id, outbox'[id])
    BY <2>1, Zenon DEF PhaseOK
  <2>5. \A s \in Relays, id \in Ids : s # r => PhaseOK(work'[s][id], id, outbox'[id])
    BY <2>2, <2>3 DEF PhaseInv, PhaseOK
  <2> QED
    BY <2>4, <2>5, Zenon DEF PhaseInv
<1>3. ASSUME NEW r \in Relays, Crash(r) PROVE PhaseInv'
  <2>1. /\ \A id \in Ids : work'[r][id].phase = "idle"
        /\ \A s \in Relays, id \in Ids : s # r => work'[s][id] = work[s][id]
        /\ outbox' = outbox
    BY <1>3, Zenon DEF Crash, TypeOK, IdleItem, dbVars
  <2> QED
    BY <2>1 DEF PhaseInv, PhaseOK
<1>4. ASSUME NEW r \in Relays, NEW id \in Ids, Deliver(r, id) PROVE PhaseInv'
  <2>1. /\ \A s \in Relays, j \in Ids : s # r \/ j # id => work'[s][j] = work[s][j]
        /\ work[r][id].phase # "idle" /\ outbox' = outbox
    BY <1>4, DeliverWork, Zenon
  <2>2. Advanced(r, id)
    BY <1>4, DeliverAdvances, Zenon
  <2>3. PhaseOK(work[r][id], id, outbox[id])
    BY Zenon DEF PhaseInv
  <2>4. PhaseOK(work'[r][id], id, outbox'[id])
    BY <2>1, <2>2, <2>3, Zenon DEF PhaseOK, Advanced
  <2> QED
    BY <2>1, <2>4, PhaseOthers, Zenon
<1>5. ASSUME NEW r \in Relays, NEW id \in Ids, Persist(r, id) \/ PersistFault(r, id)
      PROVE  PhaseInv'
  <2>1. Ended(r, id) /\ \A j \in Ids : outbox[j].status # "absent" => outbox'[j].status # "absent"
    BY <1>5, PersistRow, FaultRow, Zenon DEF Settled
  <2>2. PhaseOK(work'[r][id], id, outbox'[id])
    BY <2>1 DEF Ended, IdleItem, PhaseOK
  <2> QED
    BY <2>1, <2>2, PhaseOthers, Zenon DEF Ended
<1>6. CASE PruneEventOutbox
  <2>1. work' = work /\ \A id \in Ids : outbox[id].status # "absent" => outbox'[id].status # "absent"
    BY <1>6, PruneRow, Zenon
  <2> QED
    BY <2>1, Zenon DEF PhaseInv, PhaseOK
<1>7. CASE Tick
  <2>1. work' = work /\ \A id \in Ids : outbox'[id].status = outbox[id].status
    BY <1>7, TickRow, Zenon
  <2> QED
    BY <2>1, Zenon DEF PhaseInv, PhaseOK
<1>8. CASE SetRules \/ SetBinding \/ UNCHANGED vars
  BY <1>8, Zenon DEF SetRules, SetBinding, vars, dbVars, PhaseInv
<1> QED
  BY <1>1, <1>2, <1>3, <1>4, <1>5, <1>6, <1>7, <1>8, Zenon DEF Next

\* Facts are recorded in pairs.
LEMMA PairStep == PairInv /\ [Next]_vars => PairInv'
<1> SUFFICES ASSUME PairInv, [Next]_vars PROVE PairInv'
  BY Zenon
<1>1. PICK d \in Nat : inserted = 2 * d
  BY Zenon DEF PairInv
<1>2. CASE insertOutboxFacts
  <2>1. d + 1 \in Nat /\ inserted' = 2 * (d + 1)
    BY <1>1, <1>2 DEF insertOutboxFacts
  <2> QED
    BY <2>1, Zenon DEF PairInv
<1>3. CASE inserted' = inserted
  BY <1>3, Zenon DEF PairInv
<1>4. ASSUME NEW r \in Relays, NEW id \in Ids, Deliver(r, id) \/ Persist(r, id) \/ PersistFault(r, id)
      PROVE  inserted' = inserted
  BY <1>4, Zenon DEF Deliver, Persist, PersistFault, dbVars, deliverDeleted, admitNotify,
     GetBucketNotifications, admitTarget, PostArrives, PostFails, CompleteEventOutbox, retry,
     failImmediately, RetryEventOutbox
<1>5. ASSUME NEW r \in Relays, ClaimEventOutbox(r) \/ Crash(r)
      PROVE  inserted' = inserted
  BY <1>5, Zenon DEF ClaimEventOutbox, Crash, dbVars
<1>6. CASE PruneEventOutbox \/ Tick \/ SetRules \/ SetBinding \/ UNCHANGED vars
  BY <1>3, <1>6, Zenon DEF PruneEventOutbox, Tick, SetRules, SetBinding, vars, dbVars
<1> QED
  BY <1>2, <1>3, <1>4, <1>5, <1>6, Zenon DEF Next

\* The empty table satisfies RInv.
LEMMA RInvInit == Init => RInv
<1> SUFFICES ASSUME Init PROVE PhaseInv /\ PairInv
  BY InitInv, Zenon DEF RInv
<1>1. \A r \in Relays, id \in Ids : work[r][id].phase = "idle"
  BY Zenon DEF Init, IdleItem
<1> QED
  BY <1>1 DEF Init, PhaseInv, PhaseOK, PairInv

\* RInv, the invariant the refinement rests on, holds in every state of the
\* outbox and its relays.
THEOREM RInvariance == Spec => []RInv
<1>1. RInv /\ [Next]_vars => RInv'
  BY InvStep, PhaseStep, PairStep, Zenon DEF RInv
<1> QED
  BY <1>1, RInvInit, PTL DEF Spec

-----------------------------------------------------------------------------
(* The step. *)

\* No goroutine has looked anything up in the step.
Behind ==
    \A r \in Relays, id \in Ids :
        Looked(r, id)' => Looked(r, id) /\ work'[r][id].matched = work[r][id].matched

\* While goroutines only end, the abstract outbox's lookups only disappear.
LEMMA FewerLookups ==
  ASSUME Behind PROVE Promise!Fewer
<1>1. \A id \in Ids : LookupsOf(id)' \subseteq LookupsOf(id)
  BY Zenon DEF Behind, LookupsOf
<1> QED
  BY <1>1, Zenon DEF Promise!Fewer

\* A goroutine that moves on alone, and not to a lookup.
LEMMA BehindOne ==
  ASSUME NEW r \in Relays, NEW id \in Ids,
         \A s \in Relays, j \in Ids : s # r \/ j # id => work'[s][j] = work[s][j],
         Looked(r, id)' => Looked(r, id) /\ work'[r][id].matched = work[r][id].matched
  PROVE  Behind
BY Zenon DEF Behind, Looked

\* Rows that keep their state keep the state the abstract outbox sees.
LEMMA SameStates ==
  ASSUME \A id \in Ids : StateOf(outbox'[id]) = StateOf(outbox[id])
  PROVE  [id \in Ids |-> StateOf(outbox[id])]' = [id \in Ids |-> StateOf(outbox[id])]
BY Zenon

\* A step that only ends goroutines is Abandon of the abstract outbox.
LEMMA Abandons ==
  ASSUME Behind, \A id \in Ids : StateOf(outbox'[id]) = StateOf(outbox[id]),
         UNCHANGED <<fidelity, rules, received>>
  PROVE  Promise!Next
<1>1. Promise!Fewer
  BY FewerLookups, Zenon
<1>2. Promise!Abandon
  BY <1>1, SameStates, Zenon DEF Promise!Abandon
<1> QED
  BY <1>2, Zenon DEF Promise!Next

\* The facts of a committed delete appear together.
LEMMA InsertRecords ==
  ASSUME RInv, insertOutboxFacts PROVE Promise!Next
<1>1. PICK d \in Nat : inserted = 2 * d
  BY Zenon DEF RInv, PairInv
<1> DEFINE pair == {2 * (d + 1) - 1, 2 * (d + 1)}
<1>2. /\ inserted + 1 = 2 * (d + 1) - 1 /\ inserted + 2 = 2 * (d + 1)
      /\ d + 1 \in 1 .. MaxDeletes
  BY <1>1, OutboxAssumption DEF insertOutboxFacts, Ids
<1>3. pair \in {{2 * e - 1, 2 * e} : e \in 1 .. MaxDeletes}
  BY <1>2, Zenon
<1>4. ASSUME NEW id \in Ids
      PROVE  /\ id \in pair => /\ StateOf(outbox[id]) = "none"
                               /\ StateOf(outbox'[id]) = "open"
             /\ id \notin pair => outbox'[id] = outbox[id]
  <2>1. id \in pair => outbox[id].status = "absent"
    BY <1>1, <1>2 DEF RInv, IInv, FreshInv, Ids
  <2>2. id \in pair => outbox'[id].status = "pending"
    BY <1>2, Zenon DEF insertOutboxFacts, Released
  <2>3. id \notin pair => outbox'[id] = outbox[id]
    BY <1>2, Zenon DEF insertOutboxFacts
  <2> QED
    BY <2>1, <2>2, <2>3, Zenon DEF StateOf
<1>5. pair \subseteq Ids
  BY <1>1, <1>2, OutboxAssumption DEF insertOutboxFacts, Ids
<1>6. \A id \in Ids : LookupsOf(id)' = LookupsOf(id)
  BY Zenon DEF insertOutboxFacts, LookupsOf, Looked
<1>7. UNCHANGED <<fidelity, rules, received>>
  BY Zenon DEF insertOutboxFacts
<1> HIDE DEF pair
<1>8. Promise!Record(pair)
  BY <1>4, <1>5, <1>6, <1>7, Zenon DEF Promise!Record
<1> QED
  BY <1>3, <1>8, Zenon DEF Promise!Next, pair

\* A goroutine's step is a lookup, a target reached, or nothing to the outside.
LEMMA DeliverReaches ==
  ASSUME RInv, NEW r \in Relays, NEW id \in Ids, Deliver(r, id) PROVE Promise!Next
<1>0. TypeOK /\ PhaseOK(work[r][id], id, outbox[id])
  BY Zenon DEF RInv, IInv, PhaseInv
<1>1. /\ \A s \in Relays, j \in Ids : s # r \/ j # id => work'[s][j] = work[s][j]
      /\ work[r][id].phase # "idle" /\ outbox' = outbox /\ fidelity' = fidelity
  BY <1>0, DeliverWork, Zenon
<1>2. Advanced(r, id) /\ rules' = rules
  BY <1>0, DeliverAdvances, Zenon
<1>3. \A j \in Ids : StateOf(outbox'[j]) = StateOf(outbox[j])
  BY <1>1, Zenon
<1>4. CASE Behind /\ received' = received
  BY <1>1, <1>2, <1>3, <1>4, Abandons, Zenon
<1>5. CASE /\ work[r][id].phase = "rules" /\ work'[r][id].phase \in {"admit", "ok"}
           /\ work'[r][id].matched = rules /\ received' = received
  <2>0. outbox[id].status \in Statuses
    BY <1>0, Zenon DEF TypeOK, Row
  <2>1. IsNotify(id) /\ StateOf(outbox[id]) # "none"
    BY <1>0, <1>1, <1>5, <2>0, Zenon DEF PhaseOK, StateOf, Statuses
  <2>2. LookupsOf(id)' = LookupsOf(id) \cup {rules}
    <3>1. ~Looked(r, id) /\ Looked(r, id)' /\ work'[r][id].matched = rules
      BY <1>5, <2>1, Zenon DEF Looked
    <3>2. \A s \in Relays : s # r => /\ Looked(s, id)' <=> Looked(s, id)
                                     /\ work'[s][id].matched = work[s][id].matched
      BY <1>1, Zenon DEF Looked
    <3> QED
      BY <3>1, <3>2, Zenon DEF LookupsOf
  <2>3. \A j \in Ids : j # id => LookupsOf(j)' = LookupsOf(j)
    BY <1>1 DEF LookupsOf, Looked
  <2>4. Promise!Look(id)
    BY <1>1, <1>2, <1>5, <2>1, <2>2, <2>3, Zenon DEF Promise!Look
  <2> QED
    BY <2>4, Zenon DEF Promise!Next
<1>6. ASSUME NEW t \in Targets, PostArrives(r, id, t) PROVE Promise!Next
  <2>1. /\ work[r][id].phase = "post" /\ t \in work[r][id].todo
        /\ received' = [received EXCEPT ![id] = received[id] \cup {t}]
    BY <1>6, Zenon DEF PostArrives
  <2>2. Looked(r, id) /\ t \in work[r][id].matched
    BY <1>0, <2>1, Zenon DEF PhaseOK, Looked
  <2>3. work[r][id].matched \in LookupsOf(id)
    BY <2>2, Zenon DEF LookupsOf
  <2>4. Looked(r, id)' => work'[r][id].matched = work[r][id].matched
    BY <1>2, <2>1, <2>2, Zenon DEF Advanced, Looked
  <2>5. Promise!Fewer
    BY <1>1, <2>2, <2>4, BehindOne, FewerLookups, Zenon
  <2>6. Promise!Reach(id, t)
    BY <1>1, <1>2, <2>1, <2>2, <2>3, <2>5, Zenon DEF Promise!Reach
  <2> QED
    BY <2>6, Zenon DEF Promise!Next
<1>7. ASSUME received' = received, Looked(r, id)' => /\ Looked(r, id)
                                                     /\ work'[r][id].matched = work[r][id].matched
      PROVE  Promise!Next
  BY <1>1, <1>4, <1>7, BehindOne, Zenon
<1> QED
  BY <1>2, <1>5, <1>6, <1>7, Zenon DEF Advanced, Looked

\* A persisted outcome settles an open fact, or changes nothing to the outside.
LEMMA PersistSettles ==
  ASSUME RInv, NEW r \in Relays, NEW id \in Ids, Persist(r, id) PROVE Promise!Next
<1>0. TypeOK /\ SentOK(work[r][id], id, received[id])
  BY Zenon DEF RInv, IInv, SentInv
<1>1. Ended(r, id) /\ Settled(r, id) /\ UNCHANGED <<rules, received>>
  BY <1>0, PersistRow, Zenon
<1>2. ~Looked(r, id)'
  BY <1>1 DEF Ended, IdleItem, Looked
<1>3. Behind /\ Promise!Fewer
  BY <1>1, <1>2, BehindOne, FewerLookups, Zenon DEF Ended
<1>4. CASE ~Fenced(r, id)
  BY <1>1, <1>3, <1>4, Abandons, Zenon DEF Settled
<1>5. ASSUME Fenced(r, id), NEW outcome \in {"delivered", "failed"},
             outbox'[id].status = outcome,
             fidelity' = IF outcome = "delivered" THEN fidelity \cup {id} ELSE fidelity,
             outcome = "delivered" => work[r][id].phase = "ok"
      PROVE  Promise!Next
  <2>1. StateOf(outbox[id]) = "open" /\ StateOf(outbox'[id]) = outcome
    BY <1>1, <1>5, Zenon DEF Settled, StateOf
  <2>2. \A j \in Ids : j # id => StateOf(outbox'[j]) = StateOf(outbox[j])
    BY <1>1, Zenon DEF Settled
  <2>3. ASSUME outcome = "delivered", IsNotify(id)
        PROVE  \E M \in LookupsOf(id) : M \subseteq received[id]
    <3>1. Looked(r, id) /\ work[r][id].matched \subseteq received[id]
      BY <1>0, <1>5, <2>3, Zenon DEF SentOK, Looked
    <3> QED
      BY <3>1, Zenon DEF LookupsOf
  <2>4. Promise!Settle(id, outcome)
    BY <1>1, <1>3, <1>5, <2>1, <2>2, <2>3, Zenon DEF Promise!Settle
  <2> QED
    BY <2>4, Zenon DEF Promise!Next
<1>6. CASE Fenced(r, id) /\ outbox'[id].status = "pending" /\ fidelity' = fidelity
  <2>1. \A j \in Ids : StateOf(outbox'[j]) = StateOf(outbox[j])
    BY <1>1, <1>6, Zenon DEF Settled, StateOf
  <2> QED
    BY <1>1, <1>3, <1>6, <2>1, Abandons, Zenon
<1> QED
  BY <1>1, <1>4, <1>5, <1>6, Zenon DEF Settled

\* Pruning forgets settled facts.
LEMMA PruneForgets ==
  ASSUME PruneEventOutbox PROVE Promise!Next
<1>1. PICK S \in SUBSET {id \in Ids : outbox[id].status \in {"delivered", "failed"}} :
         /\ outbox' = [id \in Ids |-> IF id \in S THEN Released(outbox[id], "pruned", 0)
                                                  ELSE outbox[id]]
         /\ fidelity' = fidelity \ S
         /\ UNCHANGED <<work, rules, received>>
  BY Zenon DEF PruneEventOutbox, FidelityAfterPrune, envVars
<1>2. \A id \in S : /\ StateOf(outbox[id]) \in {"delivered", "failed"}
                    /\ StateOf(outbox'[id]) = "gone"
  BY <1>1, Zenon DEF StateOf, Released
<1>3. \A id \in Ids \ S : StateOf(outbox'[id]) = StateOf(outbox[id])
  BY <1>1, Zenon
<1>4. \A id \in Ids : LookupsOf(id)' = LookupsOf(id)
  BY <1>1, Zenon DEF LookupsOf, Looked
<1>5. S \in SUBSET Ids
  BY Zenon
<1>6. Promise!Forget(S)
  BY <1>1, <1>2, <1>3, <1>4, <1>5, Zenon DEF Promise!Forget
<1> QED
  BY <1>5, <1>6, Zenon DEF Promise!Next

\* Every step of the table, the relays and their environment is a step of
\* Outbox or invisible to it.
LEMMA RefineStep == RInv /\ [Next]_vars => [Promise!Next]_(Promise!promiseVars)
<1> SUFFICES ASSUME RInv, [Next]_vars
             PROVE  Promise!Next \/ UNCHANGED Promise!promiseVars
  BY Zenon
<1>0. TypeOK
  BY Zenon DEF RInv, IInv
<1>a. ASSUME work' = work PROVE Behind
  BY <1>a, Zenon DEF Behind, Looked
<1>1. CASE insertOutboxFacts
  BY <1>1, InsertRecords, Zenon
<1>2. ASSUME NEW r \in Relays, ClaimEventOutbox(r) PROVE Promise!Next
  <2> PICK S \in SUBSET {id \in Ids : Due(id)} : ClaimBatch(r, S)
    BY <1>2, Zenon DEF ClaimEventOutbox, ClaimBatch
  <2>1. \A id \in Ids : work'[r][id].phase \in {"start", "idle"}
    BY <1>0, Zenon DEF ClaimBatch, IdleItem, TypeOK
  <2>2. \A s \in Relays, id \in Ids : s # r => work'[s][id] = work[s][id]
    BY <1>0, Zenon DEF ClaimBatch, TypeOK
  <2>3. Behind
    BY <2>1, <2>2, Zenon DEF Behind, Looked
  <2>4. \A id \in Ids : StateOf(outbox'[id]) = StateOf(outbox[id])
    BY <1>2, ClaimRow, Zenon DEF StateOf
  <2>5. UNCHANGED <<fidelity, rules, received>>
    BY <1>2, Zenon DEF ClaimEventOutbox
  <2> QED
    BY <2>3, <2>4, <2>5, Abandons, Zenon
<1>3. ASSUME NEW r \in Relays, Crash(r) PROVE Promise!Next
  <2>1. /\ \A id \in Ids : work'[r][id].phase = "idle"
        /\ \A s \in Relays, id \in Ids : s # r => work'[s][id] = work[s][id]
        /\ UNCHANGED <<outbox, fidelity, rules, received>>
    BY <1>0, <1>3, Zenon DEF Crash, TypeOK, IdleItem, dbVars, envVars
  <2>2. Behind
    BY <2>1, Zenon DEF Behind, Looked
  <2> QED
    BY <2>1, <2>2, Abandons, Zenon
<1>4. ASSUME NEW r \in Relays, NEW id \in Ids, PersistFault(r, id) PROVE Promise!Next
  <2>1. Ended(r, id) /\ UNCHANGED <<outbox, fidelity, rules, received>>
    BY <1>0, <1>4, FaultRow, Zenon
  <2>2. ~Looked(r, id)'
    BY <2>1 DEF Ended, IdleItem, Looked
  <2>3. Behind
    BY <2>1, <2>2, BehindOne, Zenon DEF Ended
  <2> QED
    BY <2>1, <2>3, Abandons, Zenon
<1>5. CASE PruneEventOutbox
  BY <1>5, PruneForgets, Zenon
<1>6. CASE Tick
  <2>1. UNCHANGED <<work, fidelity, rules, received>>
    BY <1>0, <1>6, TickRow, Zenon
  <2>2. \A id \in Ids : StateOf(outbox'[id]) = StateOf(outbox[id])
    BY <1>0, <1>6, TickRow, Zenon DEF StateOf
  <2> QED
    BY <1>a, <2>1, <2>2, Abandons, Zenon
<1>7. CASE SetRules
  <2>1. \A id \in Ids : LookupsOf(id)' = LookupsOf(id)
    BY <1>7, Zenon DEF SetRules, LookupsOf, Looked
  <2>2. Promise!SetRules
    BY <1>7, <2>1, Zenon DEF SetRules, dbVars, Promise!SetRules
  <2> QED
    BY <2>2, Zenon DEF Promise!Next
<1>8. CASE SetBinding \/ UNCHANGED vars
  <2>1. UNCHANGED <<work, outbox, fidelity, rules, received>>
    BY <1>8, Zenon DEF SetBinding, vars, dbVars
  <2> QED
    BY <1>a, <2>1, Abandons, Zenon
<1>9. ASSUME NEW r \in Relays, NEW id \in Ids, Deliver(r, id) \/ Persist(r, id)
      PROVE  Promise!Next
  BY <1>9, DeliverReaches, PersistSettles, Zenon
<1> QED
  BY <1>1, <1>2, <1>3, <1>4, <1>5, <1>6, <1>7, <1>8, <1>9, Zenon DEF Next

\* The empty outbox is the empty Outbox.
LEMMA RefineInit == Init => Promise!Init
<1> SUFFICES ASSUME Init PROVE Promise!Init
  BY Zenon
<1>1. \A id \in Ids : StateOf(outbox[id]) = "none"
  BY Zenon DEF Init, EmptyRow, StateOf
<1>2. \A r \in Relays, id \in Ids : ~Looked(r, id)
  BY Zenon DEF Init, IdleItem, Looked
<1>3. \A id \in Ids : LookupsOf(id) = {}
  BY <1>2, Zenon DEF LookupsOf
<1> QED
  BY <1>1, <1>3, Zenon DEF Init, Promise!Init

\* The transactional outbox with its relays implements the Outbox: facts of a
\* delete together, settled once, notifications delivered to the targets of a
\* rule lookup, whatever crashes, lapses or is retried (event_outbox.go,
\* event_outbox_relay.go).
THEOREM Refinement == Spec => KeepsPromise
<1>1. RInv /\ [Next]_vars => [Promise!Next]_(Promise!promiseVars)
  BY RefineStep, Zenon
<1> QED
  BY <1>1, RInvariance, RefineInit, PTL DEF Spec, KeepsPromise, Promise!Spec
=============================================================================
