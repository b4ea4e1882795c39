--------------------------- MODULE DeliveryProofs ---------------------------
(***************************************************************************)
(* The loops that hand work on side by side: the maintenance singleton,    *)
(* the audit-governance relay, the billing outbox and the webhook          *)
(* dispatchers, with what is proved about them for any number of           *)
(* replicas, servers, origins, operations and dispatchers and any number   *)
(* of mishaps.  They share no state: the loops together are the            *)
(* conjunction of their specifications.                                    *)
(***************************************************************************)
EXTENDS Singleton, Sequences, TLAPS

(* The proof that the lease excludes overlaps, for any replicas and clocks. *)

\* A replica that sweeps still holds the lease, which then has the rest of its
\* time left, or has swept for longer than the lease time less the skew: that
\* much must have passed before any other clock saw the lease expired.
SweepCovered ==
    \A r \in Replicas : at[r] = "sweep" =>
        /\ holder # "none"
        /\ \/ holder = r /\ left + elapsed[r] >= Ttl + Off[r]
           \/ elapsed[r] > Ttl - MaxSkew

IInv == TypeOK /\ SweepCovered

\* Every step of every replica, and every tick, keeps the invariant.
LEMMA IInvStep ==
    ASSUME IInv, [Next]_vars
    PROVE  IInv'
  <1> USE SingletonAssumption DEF SingletonAssumption, IInv
  <1>1. ASSUME NEW r \in Replicas, Granted(r), holder = r \/ holder = "none" \/ left < Off[r]
        PROVE  IInv'
    <2>1. TypeOK'
      BY <1>1 DEF Granted, TypeOK
    <2>2. ASSUME NEW s \in Replicas, at'[s] = "sweep"
          PROVE  /\ holder' # "none"
                 /\ \/ holder' = s /\ left' + elapsed'[s] >= Ttl + Off[s]
                    \/ elapsed'[s] > Ttl - MaxSkew
      <3>1. CASE s = r
        BY <1>1, <3>1 DEF Granted, TypeOK
      <3>2. CASE s # r
        BY <1>1, <2>2, <3>2 DEF Granted, TypeOK, SweepCovered
      <3> QED BY <3>1, <3>2, Zenon
    <2> QED BY <2>1, <2>2, Zenon DEF SweepCovered
  <1>2. ASSUME NEW r \in Replicas, NEW now \in {"idle", "insert"}, at' = [at EXCEPT ![r] = now],
               UNCHANGED <<holder, left, elapsed>>, faults' \in 0..MaxFaults
        PROVE  IInv'
    BY <1>2, Zenon DEF TypeOK, SweepCovered
  <1>3. ASSUME NEW r \in Replicas, UpdateLease(r) \/ InsertLease(r) PROVE IInv'
    <2>1. faults \in 0..MaxFaults
      BY Zenon DEF TypeOK
    <2> QED BY <1>1, <1>2, <1>3, <2>1, Zenon DEF UpdateLease, InsertLease, Claimable
  <1>4. ASSUME NEW r \in Replicas, LeaseError(r) \/ EndSweep(r) PROVE IInv'
    <2>1. faults' \in 0..MaxFaults
      BY <1>4 DEF LeaseError, EndSweep, TypeOK
    <2> QED BY <1>2, <1>4, <2>1, Zenon DEF LeaseError, EndSweep
  <1>5. ASSUME NEW r \in Replicas, Restart(r) PROVE IInv'
    <2>1. TypeOK'
      BY <1>5 DEF Restart, TypeOK
    <2>2. SweepCovered'
      BY <1>5, Zenon DEF Restart, TypeOK, SweepCovered
    <2> QED BY <2>1, <2>2, Zenon
  <1>6. CASE Tick
    <2>1. TypeOK'
      BY <1>6 DEF Tick, TypeOK
    <2>2. SweepCovered'
      BY <1>6 DEF Tick, TypeOK, SweepCovered
    <2> QED BY <2>1, <2>2, Zenon
  <1>7. CASE UNCHANGED vars
    BY <1>7, Zenon DEF vars, TypeOK, SweepCovered
  <1> QED BY <1>3, <1>4, <1>5, <1>6, <1>7, Zenon DEF Next, Guard

\* Whatever the replicas, their clocks, restarts and failing statements: two
\* overlapping sweeps mean that one has outlived its lease less the skew.
THEOREM NoOverlapInTime == Spec => []OverlapNeedsOverrun
  <1>1. Init => IInv
    BY SingletonAssumption DEF SingletonAssumption, Init, IInv, TypeOK, SweepCovered
  <1>2. IInv /\ [Next]_vars => IInv'
    BY IInvStep, Zenon
  <1>3. IInv => OverlapNeedsOverrun
    BY Zenon DEF IInv, SweepCovered, OverlapNeedsOverrun
  <1> QED BY <1>1, <1>2, <1>3, PTL DEF Spec
-----------------------------------------------------------------------------
(* The webhook dispatchers.                                                *)

CONSTANTS Dispatchers, Copies, DeadAfter, RetryLimit, MaxSlips

\* A row is dead-lettered after ten attempts, the first of them its creation.
ASSUME WebhookAssumption == DeadAfter \in Nat /\ DeadAfter > 1

VARIABLES inbox, failures, retry, unbound, landed, tries, slips

H == INSTANCE Webhook

WebhookSpec == H!Init /\ [][H!Next]_(H!webhookVars)

Hook == [attempts : Nat, succeeded : BOOLEAN, dead : BOOLEAN, due : BOOLEAN]
Snapshot == [id : Nat, attempts : Nat]
Results == {"none", "accepted", "refused", "denied"}

\* A pending row counts attempts that failed, and has some left; a succeeded
\* one landed; a dead one used them up, or its bucket is bound.
HookOK(id) ==
    LET f == failures[id] IN
    /\ f.succeeded => id \in landed
    /\ ~f.succeeded /\ ~f.dead => f.attempts < DeadAfter /\ f.attempts <= tries[id]
    /\ f.dead => tries[id] >= DeadAfter \/ ~unbound

\* So does a snapshot, however old; a result is what became of its first row.
SnapshotOK(p) ==
    /\ p.id \in 1..Len(failures)
    /\ p.attempts < DeadAfter /\ p.attempts <= tries[p.id]

ResultOK(p, result) ==
    \/ result = "accepted" /\ p.id \in landed
    \/ result = "denied" /\ ~unbound
    \/ result = "refused" /\ p.attempts < tries[p.id]

RetryOK(r) ==
    /\ r \in [at : {"ticker", "row", "settle"}, pending : Seq(Snapshot), result : Results]
    /\ r.at # "ticker" => Len(r.pending) > 0
    /\ \A i \in 1..Len(r.pending) : SnapshotOK(r.pending[i])
    /\ r.at = "settle" => ResultOK(r.pending[1], r.result)

HInv ==
    /\ failures \in Seq(Hook) /\ tries \in Seq(Nat) /\ Len(tries) = Len(failures)
    /\ \A id \in 1..Len(failures) : HookOK(id)
    /\ DOMAIN retry = Dispatchers /\ \A d \in Dispatchers : RetryOK(retry[d])

\* What was recorded of a loop stays true while rows, failed attempts and
\* landed payloads only become more.
LEMMA RetryKept ==
    ASSUME NEW r, RetryOK(r), failures \in Seq(Hook), failures' \in Seq(Hook), tries \in Seq(Nat), tries' \in Seq(Nat),
           Len(tries) = Len(failures), Len(tries') = Len(failures'),
           Len(failures) <= Len(failures'), landed \subseteq landed', unbound' => unbound,
           \A id \in 1..Len(failures) : tries[id] <= tries'[id]
    PROVE  RetryOK(r)'
  <1>1. \A i \in 1..Len(r.pending) : r.pending[i] \in Snapshot
    BY DEF RetryOK
  <1>2. ASSUME NEW p \in Snapshot, SnapshotOK(p) PROVE SnapshotOK(p)'
    <2>1. p.id \in 1..Len(failures) /\ p.attempts \in Nat
      BY <1>2, Zenon DEF SnapshotOK, Snapshot
    <2>2. tries[p.id] \in Nat /\ tries'[p.id] \in Nat /\ tries[p.id] <= tries'[p.id]
      BY <2>1, SMTT(20)
    <2>3. p.id \in 1..Len(failures')
      BY <2>1
    <2> QED BY <1>2, <2>1, <2>2, <2>3, SMTT(20) DEF SnapshotOK
  <1>3. ASSUME NEW p \in Snapshot, NEW a, SnapshotOK(p), ResultOK(p, a) PROVE ResultOK(p, a)'
    <2>1. p.id \in 1..Len(failures) /\ p.attempts \in Nat
      BY <1>3, Zenon DEF SnapshotOK, Snapshot
    <2>2. tries[p.id] \in Nat /\ tries'[p.id] \in Nat /\ tries[p.id] <= tries'[p.id]
      BY <2>1, SMTT(20)
    <2>3. p.attempts < tries[p.id] => p.attempts < tries'[p.id]
      BY <2>1, <2>2
    <2> QED BY <1>3, <2>3, Zenon DEF ResultOK
  <1>4. r.at = "settle" => ResultOK(r.pending[1], r.result)'
    <2> SUFFICES ASSUME r.at = "settle" PROVE ResultOK(r.pending[1], r.result)'
      BY Zenon
    <2>1. PICK p : p = r.pending[1]
      BY Zenon
    <2>2. PICK a : a = r.result
      BY Zenon
    <2>3. p \in Snapshot /\ SnapshotOK(p) /\ ResultOK(p, a)
      BY <1>1, <2>1, <2>2 DEF RetryOK
    <2> QED BY <1>3, <2>1, <2>2, <2>3, Zenon
  <1>5. ASSUME NEW i \in 1..Len(r.pending) PROVE SnapshotOK(r.pending[i])'
    <2>1. PICK p : p = r.pending[i]
      BY Zenon
    <2>2. p \in Snapshot /\ SnapshotOK(p)
      BY <1>1, <2>1, Zenon DEF RetryOK
    <2> QED BY <1>2, <2>1, <2>2, Zenon
  <1> QED BY <1>4, <1>5, Zenon DEF RetryOK

\* A dispatcher between two ticks has nothing in hand.
LEMMA WaitingOK == RetryOK(H!Waiting)
  BY DEF RetryOK, H!Waiting, Results

\* A step of one loop that leaves the table.
LEMMA RetryMoves ==
    ASSUME HInv, NEW d \in Dispatchers, NEW r, RetryOK(r)', retry' = [retry EXCEPT ![d] = r],
           UNCHANGED failures, tries' \in Seq(Nat), Len(tries') = Len(tries),
           landed \subseteq landed', UNCHANGED unbound,
           \A id \in 1..Len(failures) : tries[id] <= tries'[id]
    PROVE  HInv'
  <1>1. ASSUME NEW e \in Dispatchers PROVE RetryOK(retry[e])'
    <2>1. CASE e = d
      BY <2>1, Zenon DEF HInv
    <2>2. CASE e # d
      <3>1. PICK q : q = retry[e] /\ retry'[e] = q
        BY <2>2, Zenon DEF HInv
      <3>2. RetryOK(q)'
        BY <3>1, RetryKept DEF HInv
      <3> QED BY <3>1, <3>2, Zenon
    <2> QED BY <2>1, <2>2, Zenon
  <1>2. ASSUME NEW id \in 1..Len(failures) PROVE HookOK(id)'
    <2>1. HookOK(id) /\ tries[id] \in Nat /\ tries'[id] \in Nat /\ tries[id] <= tries'[id] /\ failures[id] \in Hook
      BY DEF HInv
    <2> QED BY <2>1, WebhookAssumption DEF WebhookAssumption, HookOK, Hook
  <1> QED BY <1>1, <1>2, Zenon DEF HInv

\* A tick of retryLoop lists the due rows: a snapshot of rows that are in
\* order is in order.
LEMMA TickerStep == ASSUME HInv, NEW d \in Dispatchers, H!RetryLoop(d) PROVE HInv'
  <1>1. UNCHANGED <<failures, unbound, landed, tries>>
    BY Zenon DEF H!RetryLoop
  <1>2. PICK n, ids, pending :
           /\ n \in 1..RetryLimit /\ ids \in [1..n -> H!Due]
           /\ pending = [i \in 1..n |-> [id |-> ids[i], attempts |-> failures[ids[i]].attempts]]
           /\ retry' = [retry EXCEPT ![d].at = "row", ![d].pending = pending]
    BY Zenon DEF H!RetryLoop
  <1>3. ASSUME NEW i \in 1..n PROVE pending[i] \in Snapshot /\ SnapshotOK(pending[i])
    <2>1. ids[i] \in 1..Len(failures) /\ H!Pending(failures[ids[i]]) /\ failures[ids[i]] \in Hook
      BY <1>2 DEF H!Due, HInv
    <2>2. pending[i] = [id |-> ids[i], attempts |-> failures[ids[i]].attempts]
      BY <1>2, Zenon
    <2>3. HookOK(ids[i])
      BY <2>1, Zenon DEF HInv
    <2> QED BY <2>1, <2>2, <2>3 DEF HookOK, SnapshotOK, Snapshot, Hook, H!Pending, HInv
  <1>4. pending \in Seq(Snapshot) /\ Len(pending) = n /\ n \in Nat \ {0}
    <2>1. n \in Nat \ {0} /\ pending \in [1..n -> Snapshot]
      BY <1>2, <1>3
    <2> QED BY <2>1
  <1>5. PICK r : r = [retry[d] EXCEPT !.at = "row", !.pending = pending]
    BY Zenon
  <1>6. RetryOK(r)
    <2>1. RetryOK(retry[d])
      BY Zenon DEF HInv
    <2>2. /\ r \in [at : {"ticker", "row", "settle"}, pending : Seq(Snapshot), result : Results]
          /\ r.at = "row" /\ r.pending = pending
      BY <1>4, <1>5, <2>1, Zenon DEF RetryOK
    <2> QED BY <1>3, <1>4, <2>2 DEF RetryOK
  <1>7. retry' = [retry EXCEPT ![d] = r]
    BY <1>2, <1>5, Zenon DEF HInv
  <1>8. RetryOK(r)'
    BY <1>1, <1>6, RetryKept DEF HInv
  <1>9. tries' \in Seq(Nat) /\ Len(tries') = Len(tries) /\ \A id \in 1..Len(failures) : tries[id] <= tries'[id]
    BY <1>1 DEF HInv
  <1> QED BY <1>1, <1>7, <1>8, <1>9, RetryMoves, Zenon

\* The post of the snapshot's first row: what it counts or lands is there when
\* the result is written back.
LEMMA PostStep == ASSUME HInv, NEW d \in Dispatchers, H!retryOne(d) PROVE HInv'
  <1>1. PICK p : p = retry[d].pending[1]
    BY Zenon
  <1>2. RetryOK(retry[d]) /\ retry[d].at = "row" /\ UNCHANGED <<failures, unbound>>
    BY Zenon DEF HInv, H!retryOne
  <1>3. p \in Snapshot /\ SnapshotOK(p) /\ Len(retry[d].pending) > 0
    BY <1>1, <1>2 DEF RetryOK
  <1>4. PICK a \in {"accepted", "refused", "denied"} :
           /\ retry' = [retry EXCEPT ![d].at = "settle", ![d].result = a]
           /\ landed' = IF a = "accepted" THEN landed \cup {p.id} ELSE landed
           /\ a = "denied" => ~unbound
           /\ IF a = "refused" THEN H!Failed(p.id) ELSE UNCHANGED tries
    BY <1>1, Zenon DEF H!retryOne, H!sendRetry
  <1>5. /\ tries' \in Seq(Nat) /\ Len(tries') = Len(tries)
        /\ \A id \in 1..Len(failures) : tries[id] <= tries'[id]
        /\ a = "refused" => p.attempts < tries'[p.id]
    <2>1. p.id \in 1..Len(tries) /\ p.attempts \in Nat /\ p.attempts < DeadAfter /\ p.attempts <= tries[p.id]
      BY <1>3, Zenon DEF SnapshotOK, Snapshot, HInv
    <2>2. CASE a = "refused"
      <3>1. PICK n \in Nat : /\ tries' = [tries EXCEPT ![p.id] = n] /\ n >= tries[p.id] /\ n > p.attempts
        <4> DEFINE m == IF tries[p.id] > DeadAfter THEN tries[p.id] ELSE tries[p.id] + 1
        <4>1. tries' = [tries EXCEPT ![p.id] = m]
          BY <1>4, <2>2, Zenon DEF H!Failed
        <4>2. m \in Nat /\ m >= tries[p.id] /\ m > p.attempts
          BY <2>1, WebhookAssumption DEF WebhookAssumption, HInv
        <4> HIDE DEF m
        <4> QED BY <4>1, <4>2, Zenon
      <3> QED BY <2>1, <3>1 DEF HInv
    <2>3. CASE a # "refused"
      BY <1>4, <2>3 DEF HInv
    <2> QED BY <2>2, <2>3, Zenon
  <1>6. PICK r : r = [retry[d] EXCEPT !.at = "settle", !.result = a]
    BY Zenon
  <1>7. /\ r \in [at : {"ticker", "row", "settle"}, pending : Seq(Snapshot), result : Results]
        /\ r.at = "settle" /\ r.result = a /\ r.pending = retry[d].pending
    BY <1>2, <1>6, Zenon DEF RetryOK, Results
  <1>8. ResultOK(p, a)'
    BY <1>2, <1>4, <1>5, Zenon DEF ResultOK
  <1>10. PICK q : q = retry[d]
    BY Zenon
  <1>11. RetryOK(q)'
    BY <1>2, <1>4, <1>5, <1>10, RetryKept DEF HInv
  <1>12. RetryOK(r)'
    BY <1>1, <1>3, <1>7, <1>8, <1>10, <1>11, Zenon DEF RetryOK
  <1>13. retry' = [retry EXCEPT ![d] = r]
    BY <1>4, <1>6, Zenon DEF HInv
  <1> QED BY <1>2, <1>4, <1>5, <1>12, <1>13, RetryMoves, Zenon

\* A row is written and a loop moves on.
LEMMA RowSettles ==
    ASSUME HInv, NEW d \in Dispatchers, NEW r, RetryOK(r)', retry' = [retry EXCEPT ![d] = r],
           UNCHANGED <<unbound, landed, tries>>,
           NEW id \in 1..Len(failures), NEW f \in Hook, failures' = [failures EXCEPT ![id] = f],
           f.succeeded => id \in landed,
           ~f.succeeded /\ ~f.dead => f.attempts < DeadAfter /\ f.attempts <= tries[id],
           f.dead => tries[id] >= DeadAfter \/ ~unbound
    PROVE  HInv'
  <1>1. /\ failures' \in Seq(Hook) /\ Len(failures') = Len(failures) /\ failures'[id] = f
        /\ \A i \in 1..Len(failures) : i # id => failures'[i] = failures[i]
    BY DEF HInv
  <1>2. tries' \in Seq(Nat) /\ Len(tries') = Len(failures') /\ \A i \in 1..Len(failures) : tries[i] <= tries'[i]
    BY <1>1 DEF HInv
  <1>3. ASSUME NEW e \in Dispatchers PROVE RetryOK(retry[e])'
    <2>1. CASE e = d
      BY <2>1, Zenon DEF HInv
    <2>2. CASE e # d
      <3>1. PICK q : q = retry[e] /\ retry'[e] = q
        BY <2>2, Zenon DEF HInv
      <3>2. RetryOK(q)'
        BY <1>1, <1>2, <3>1, RetryKept DEF HInv
      <3> QED BY <3>1, <3>2, Zenon
    <2> QED BY <2>1, <2>2, Zenon
  <1>4. ASSUME NEW i \in 1..Len(failures) PROVE HookOK(i)'
    <2>1. CASE i = id
      BY <1>1, <2>1, Zenon DEF HookOK
    <2>2. CASE i # id
      <3>1. HookOK(i) /\ failures'[i] = failures[i]
        BY <1>1, <2>2, Zenon DEF HInv
      <3> QED BY <3>1, Zenon DEF HookOK
    <2> QED BY <2>1, <2>2, Zenon
  <1> QED BY <1>1, <1>2, <1>3, <1>4, Zenon DEF HInv

\* After its first row a snapshot's rest is in order.
LEMMA RestOK ==
    ASSUME NEW r, RetryOK(r), r.at = "settle"
    PROVE  RetryOK(IF Len(r.pending) = 1 THEN H!Waiting
                   ELSE [at |-> "row", pending |-> Tail(r.pending), result |-> "none"])
  <1>1. CASE Len(r.pending) = 1
    BY <1>1, WaitingOK, Zenon
  <1>2. CASE Len(r.pending) # 1
    <2>0. PICK s : s = r.pending /\ s \in Seq(Snapshot) /\ Len(s) > 0 /\ Len(s) # 1
      BY <1>2, Zenon DEF RetryOK
    <2>1. r.pending \in Seq(Snapshot) /\ Len(r.pending) \in Nat /\ Len(r.pending) > 1
      <3>1. Len(s) \in Nat
        BY <2>0
      <3>2. ASSUME NEW n \in Nat, n > 0, n # 1 PROVE n > 1
        BY <3>2
      <3> QED BY <2>0, <3>1, <3>2, Zenon
    <2>2. PICK t : t = Tail(r.pending)
      BY Zenon
    <2>3. /\ t \in Seq(Snapshot) /\ Len(t) = Len(r.pending) - 1
          /\ \A i \in 1..Len(t) : t[i] = r.pending[i + 1]
      BY <2>1, <2>2
    <2>4. \A i \in 1..Len(t) : SnapshotOK(t[i])
      <3>1. ASSUME NEW i \in 1..Len(t) PROVE i + 1 \in 1..Len(r.pending)
        BY <2>1, <2>3
      <3> QED BY <2>3, <3>1, Zenon DEF RetryOK
    <2> QED BY <1>2, <2>1, <2>2, <2>3, <2>4 DEF RetryOK, Results
  <1> QED BY <1>1, <1>2, Zenon

\* Both writes of a failed retry keep the row's shape: the dead letter and
\* the next attempt.
LEMMA HookWritten ==
    ASSUME NEW w \in Hook, NEW n \in Nat
    PROVE  /\ LET f == [w EXCEPT !.dead = TRUE, !.due = TRUE, !.attempts = n + 1]
              IN  f \in Hook /\ f.succeeded = w.succeeded /\ f.dead
           /\ LET f == [w EXCEPT !.attempts = n + 1, !.due = FALSE]
              IN  f \in Hook /\ f.succeeded = w.succeeded /\ f.dead = w.dead /\ f.attempts = n + 1
  <1>1. n + 1 \in Nat
    OBVIOUS
  <1> QED BY <1>1, Zenon DEF Hook

\* Writing back the result of a retry, whatever other dispatchers did to the
\* row since the snapshot.
LEMMA SettleRow == ASSUME HInv, NEW d \in Dispatchers, H!Settle(d) PROVE HInv'
  <1>1. PICK p : p = retry[d].pending[1]
    BY Zenon
  <1>2. RetryOK(retry[d]) /\ retry[d].at = "settle" /\ UNCHANGED <<unbound, landed, tries>>
    BY Zenon DEF HInv, H!Settle
  <1>3. p \in Snapshot /\ SnapshotOK(p) /\ ResultOK(p, retry[d].result)
    BY <1>1, <1>2 DEF RetryOK
  <1>4. PICK r : r = IF Len(retry[d].pending) = 1 THEN H!Waiting
                     ELSE [at |-> "row", pending |-> Tail(retry[d].pending), result |-> "none"]
    BY Zenon
  <1>5. RetryOK(r) /\ retry' = [retry EXCEPT ![d] = r]
    BY <1>2, <1>4, RestOK, Zenon DEF H!Settle
  <1>6. /\ p.id \in 1..Len(failures) /\ failures[p.id] \in Hook /\ HookOK(p.id)
        /\ p.attempts \in Nat /\ p.attempts < DeadAfter /\ tries[p.id] \in Nat
    BY <1>3 DEF SnapshotOK, Snapshot, HInv
  <1>7. CASE UNCHANGED failures
    <2>1. RetryOK(r)'
      BY <1>2, <1>5, <1>7, RetryKept DEF HInv
    <2>2. tries' \in Seq(Nat) /\ Len(tries') = Len(tries) /\ \A id \in 1..Len(failures) : tries[id] <= tries'[id]
      BY <1>2 DEF HInv
    <2> QED BY <1>2, <1>5, <1>7, <2>1, <2>2, RetryMoves, Zenon
  <1>8. ASSUME NEW f \in Hook, failures' = [failures EXCEPT ![p.id] = f],
               f.succeeded => p.id \in landed,
               ~f.succeeded /\ ~f.dead => f.attempts < DeadAfter /\ f.attempts <= tries[p.id],
               f.dead => tries[p.id] >= DeadAfter \/ ~unbound
        PROVE  HInv'
    <2>1. failures' \in Seq(Hook) /\ Len(failures') = Len(failures)
      BY <1>6, <1>8 DEF HInv
    <2>2. tries' \in Seq(Nat) /\ Len(tries') = Len(tries) /\ \A id \in 1..Len(failures) : tries[id] <= tries'[id]
      BY <1>2 DEF HInv
    <2>3. RetryOK(r)'
      BY <1>2, <1>5, <2>1, <2>2, RetryKept DEF HInv
    <2> QED BY <1>2, <1>5, <1>6, <1>8, <2>3, RowSettles, Zenon
  <1> DEFINE w == failures[p.id]
  <1>9. CASE H!MarkWebhookSucceeded(p.id) /\ retry[d].result = "accepted"
    <2>1. PICK f : f = [w EXCEPT !.succeeded = TRUE]
      BY Zenon
    <2>2. f \in Hook /\ f.succeeded /\ f.dead = w.dead /\ failures' = [failures EXCEPT ![p.id] = f]
      BY <1>6, <1>9, <2>1, Zenon DEF Hook, H!MarkWebhookSucceeded
    <2>3. p.id \in landed
      BY <1>3, <1>9, Zenon DEF ResultOK
    <2> QED BY <1>6, <1>8, <2>2, <2>3, Zenon DEF HookOK
  <1>10. CASE /\ H!MarkWebhookDeadLettered(p.id, p.attempts + 1)
              /\ tries[p.id] >= DeadAfter \/ ~unbound
    <2>1. PICK f : f = [w EXCEPT !.dead = TRUE, !.due = TRUE, !.attempts = p.attempts + 1]
      BY Zenon
    <2>2. f \in Hook /\ f.succeeded = w.succeeded /\ f.dead
      BY <1>6, <2>1, HookWritten, Zenon
    <2>3. failures' = [failures EXCEPT ![p.id] = f]
      BY <1>10, <2>1, Zenon DEF H!MarkWebhookDeadLettered
    <2> QED BY <1>6, <1>8, <1>10, <2>2, <2>3, Zenon DEF HookOK
  <1>11. CASE /\ H!UpdateWebhookFailure(p.id, p.attempts + 1)
              /\ p.attempts + 1 < DeadAfter /\ p.attempts + 1 <= tries[p.id]
    <2>1. PICK f : f = [w EXCEPT !.attempts = p.attempts + 1, !.due = FALSE]
      BY Zenon
    <2>2. f \in Hook /\ f.succeeded = w.succeeded /\ f.dead = w.dead /\ f.attempts = p.attempts + 1
      BY <1>6, <2>1, HookWritten, Zenon
    <2>3. failures' = [failures EXCEPT ![p.id] = f]
      BY <1>11, <2>1, Zenon DEF H!UpdateWebhookFailure
    <2> QED BY <1>6, <1>8, <1>11, <2>2, <2>3, Zenon DEF HookOK
  <1>12. CASE retry[d].result = "refused" /\ H!handleRetryFailure(p)
    <2>1. p.attempts + 1 <= tries[p.id]
      BY <1>3, <1>6, <1>12 DEF ResultOK
    <2>2. p.attempts + 1 >= DeadAfter => tries[p.id] >= DeadAfter
      BY <1>6, <2>1, WebhookAssumption DEF WebhookAssumption
    <2> QED BY <1>6, <1>10, <1>11, <1>12, <2>1, <2>2, WebhookAssumption
           DEF WebhookAssumption, H!handleRetryFailure, H!deadLetterRetry
  <1>13. retry[d].result \in {"accepted", "denied", "refused"} /\ (retry[d].result = "denied" => ~unbound)
    BY <1>3, Zenon DEF ResultOK
  <1> QED BY <1>1, <1>7, <1>9, <1>10, <1>12, <1>13, Zenon DEF H!Settle, H!deadLetterRetry

\* A new row has failed once.
LEMMA RecordStep == ASSUME HInv, H!RecordWebhookFailure, UNCHANGED <<retry, unbound, landed>> PROVE HInv'
  <1>1. PICK n : n = Len(failures) + 1
    BY Zenon
  <1>2. H!Fresh \in Hook /\ H!Fresh.attempts = 1 /\ ~H!Fresh.succeeded /\ ~H!Fresh.dead
    BY Zenon DEF H!Fresh, Hook
  <1>3. /\ failures' \in Seq(Hook) /\ Len(failures') = n /\ failures'[n] = H!Fresh
        /\ \A id \in 1..Len(failures) : failures'[id] = failures[id]
    BY <1>1, <1>2 DEF H!RecordWebhookFailure, HInv
  <1>4. /\ tries' \in Seq(Nat) /\ Len(tries') = n /\ tries'[n] = 1
        /\ \A id \in 1..Len(failures) : tries'[id] = tries[id] /\ tries[id] \in Nat
    BY <1>1 DEF H!RecordWebhookFailure, HInv
  <1>5. ASSUME NEW id \in 1..n PROVE HookOK(id)'
    <2>1. CASE id = n
      BY <1>2, <1>3, <1>4, <2>1, WebhookAssumption DEF WebhookAssumption, HookOK
    <2>2. CASE id # n
      <3>1. id \in 1..Len(failures)
        BY <1>1, <2>2 DEF HInv
      <3> QED BY <1>3, <1>4, <3>1, Zenon DEF HInv, HookOK
    <2> QED BY <2>1, <2>2, Zenon
  <1>6. ASSUME NEW d \in Dispatchers PROVE RetryOK(retry[d])'
    <2>1. PICK q : q = retry[d] /\ retry'[d] = q /\ RetryOK(q)
      BY Zenon DEF HInv
    <2>2. Len(failures) <= Len(failures') /\ \A id \in 1..Len(failures) : tries[id] <= tries'[id]
      BY <1>1, <1>3, <1>4 DEF HInv
    <2>3. RetryOK(q)'
      BY <1>3, <1>4, <2>1, <2>2, RetryKept, Zenon DEF HInv
    <2> QED BY <2>1, <2>3, Zenon
  <1> QED BY <1>3, <1>4, <1>5, <1>6, Zenon DEF HInv

\* A step that leaves the table, and the loops but for one that starts over.
LEMMA IdleStep ==
    ASSUME HInv, UNCHANGED <<failures, landed, tries>>, unbound' => unbound,
           UNCHANGED retry \/ \E d \in Dispatchers : retry' = [retry EXCEPT ![d] = H!Waiting]
    PROVE  HInv'
  <1>1. ASSUME NEW d \in Dispatchers PROVE RetryOK(retry[d])'
    <2>1. PICK q : q \in {retry[d], H!Waiting} /\ retry'[d] = q
      BY Zenon DEF HInv
    <2>2. RetryOK(q)
      BY <2>1, WaitingOK, Zenon DEF HInv
    <2>3. \A id \in 1..Len(failures) : tries[id] <= tries'[id]
      BY DEF HInv
    <2>4. RetryOK(q)'
      BY <2>2, <2>3, RetryKept DEF HInv
    <2> QED BY <2>1, <2>4, Zenon
  <1>2. \A id \in 1..Len(failures) : HookOK(id)'
    BY Zenon DEF HInv, HookOK
  <1>3. DOMAIN retry' = Dispatchers
    BY Zenon DEF HInv
  <1> QED BY <1>1, <1>2, <1>3, Zenon DEF HInv

\* A row's backoff runs out.
LEMMA ElapsesStep == ASSUME HInv, NEW id, H!Elapses(id) PROVE HInv'
  <1>1. id \in 1..Len(failures) /\ failures[id] \in Hook /\ UNCHANGED <<retry, unbound, landed, tries>>
    BY DEF H!Elapses, HInv
  <1>2. PICK f : f = [failures[id] EXCEPT !.due = TRUE]
    BY Zenon
  <1>3. /\ f \in Hook /\ f.succeeded = failures[id].succeeded /\ f.dead = failures[id].dead
        /\ f.attempts = failures[id].attempts /\ failures' = [failures EXCEPT ![id] = f]
    BY <1>1, <1>2, Zenon DEF H!Elapses, Hook
  <1>4. /\ failures' \in Seq(Hook) /\ Len(failures') = Len(failures) /\ failures'[id] = f
        /\ \A i \in 1..Len(failures) : i # id => failures'[i] = failures[i]
    BY <1>1, <1>3 DEF HInv
  <1>5. ASSUME NEW i \in 1..Len(failures) PROVE HookOK(i)'
    <2>1. HookOK(i)
      BY Zenon DEF HInv
    <2>2. CASE i = id
      BY <1>1, <1>3, <1>4, <2>1, <2>2, Zenon DEF HookOK
    <2>3. CASE i # id
      BY <1>1, <1>4, <2>1, <2>3, Zenon DEF HookOK
    <2> QED BY <2>2, <2>3, Zenon
  <1>6. ASSUME NEW d \in Dispatchers PROVE RetryOK(retry[d])'
    <2>1. PICK q : q = retry[d] /\ retry'[d] = q /\ RetryOK(q)
      BY <1>1, Zenon DEF HInv
    <2>2. tries' \in Seq(Nat) /\ \A i \in 1..Len(failures) : tries[i] <= tries'[i]
      BY <1>1 DEF HInv
    <2>3. RetryOK(q)'
      BY <1>1, <1>4, <2>1, <2>2, RetryKept DEF HInv
    <2> QED BY <2>1, <2>3, Zenon
  <1> QED BY <1>1, <1>4, <1>5, <1>6, Zenon DEF HInv

\* Every step of the dispatchers keeps HInv.
LEMMA HInvStep == ASSUME HInv, [H!Next]_(H!webhookVars) PROVE HInv'
  <1>1. CASE UNCHANGED H!webhookVars \/ H!BindBucket
    BY <1>1, IdleStep DEF H!webhookVars, H!BindBucket
  <1>2. ASSUME NEW d \in Dispatchers, H!deliver(d) PROVE HInv'
    <2>1. UNCHANGED <<retry, unbound, landed>>
      BY <1>2, Zenon DEF H!deliver
    <2>2. CASE H!RecordWebhookFailure
      BY <2>1, <2>2, RecordStep, Zenon
    <2>3. CASE UNCHANGED <<failures, tries>>
      BY <2>1, <2>3, IdleStep, Zenon
    <2> QED BY <1>2, <2>2, <2>3, Zenon DEF H!deliver, H!postOne, H!persistFailure
  <1>3. ASSUME NEW d \in Dispatchers, H!Restart(d) PROVE HInv'
    BY <1>3, IdleStep, Zenon DEF H!Restart
  <1> QED BY <1>1, <1>2, <1>3, TickerStep, PostStep, SettleRow, ElapsesStep, Zenon DEF H!Next

\* No step takes a webhook row out of succeeded or dead-lettered.
LEMMA StaysStep == ASSUME HInv, [H!Next]_(H!webhookVars) PROVE H!SettledStays
  <1>1. CASE UNCHANGED failures
    BY <1>1, Zenon DEF H!SettledStays
  <1>2. CASE H!RecordWebhookFailure
    BY <1>2 DEF HInv, H!RecordWebhookFailure, H!SettledStays
  <1>3. ASSUME NEW id \in 1..Len(failures), NEW f, failures' = [failures EXCEPT ![id] = f],
               H!Pending(f) => H!Pending(failures[id])
        PROVE  H!SettledStays
    <2>1. \A i \in DOMAIN failures : failures'[i] = IF i = id THEN f ELSE failures[i]
      BY <1>3, Zenon DEF HInv
    <2> QED BY <1>3, <2>1, Zenon DEF H!SettledStays
  <1>4. ASSUME NEW id \in 1..Len(failures), NEW a, NEW b PROVE
           LET w == failures[id]
           IN  /\ H!Pending([w EXCEPT !.succeeded = TRUE]) => H!Pending(w)
               /\ H!Pending([w EXCEPT !.due = b]) => H!Pending(w)
               /\ H!Pending([w EXCEPT !.attempts = a, !.due = b]) => H!Pending(w)
               /\ H!Pending([w EXCEPT !.dead = TRUE, !.due = b, !.attempts = a]) => H!Pending(w)
    <2>1. failures[id] \in Hook
      BY DEF HInv
    <2> QED BY <2>1, Zenon DEF Hook, H!Pending
  <1>5. ASSUME NEW id, H!Elapses(id) PROVE H!SettledStays
    <2>1. id \in 1..Len(failures)
      BY <1>5 DEF H!Elapses, HInv
    <2>2. PICK f : f = [failures[id] EXCEPT !.due = TRUE]
      BY Zenon
    <2>3. failures' = [failures EXCEPT ![id] = f]
      BY <1>5, <2>2, Zenon DEF H!Elapses
    <2> QED BY <1>3, <1>4, <2>1, <2>2, <2>3, Zenon
  <1>6. ASSUME NEW d \in Dispatchers, H!Settle(d) PROVE H!SettledStays
    <2>1. PICK p : p = retry[d].pending[1]
      BY Zenon
    <2>2. p.id \in 1..Len(failures)
      BY <1>6, <2>1 DEF H!Settle, HInv, RetryOK, SnapshotOK
    <2>3. CASE H!MarkWebhookSucceeded(p.id)
      BY <1>3, <1>4, <2>2, <2>3, Zenon DEF H!MarkWebhookSucceeded
    <2>4. ASSUME NEW a, H!MarkWebhookDeadLettered(p.id, a) PROVE H!SettledStays
      BY <1>3, <1>4, <2>2, <2>4, Zenon DEF H!MarkWebhookDeadLettered
    <2>5. ASSUME NEW a, H!UpdateWebhookFailure(p.id, a) PROVE H!SettledStays
      BY <1>3, <1>4, <2>2, <2>5, Zenon DEF H!UpdateWebhookFailure
    <2> QED BY <1>1, <1>6, <2>1, <2>3, <2>4, <2>5, Zenon DEF H!Settle, H!deadLetterRetry, H!handleRetryFailure
  <1> QED BY <1>1, <1>2, <1>5, <1>6, Zenon DEF H!Next, H!webhookVars, H!BindBucket, H!deliver, H!postOne,
             H!persistFailure, H!RetryLoop, H!retryOne, H!Restart

\* HInv holds in every state of the dispatchers.
LEMMA WebhookInvariance == WebhookSpec => []HInv
  <1>1. H!Init => HInv
    <2> SUFFICES ASSUME H!Init PROVE HInv
      BY Zenon
    <2>1. failures = <<>> /\ tries = <<>> /\ retry = [d \in Dispatchers |-> H!Waiting]
      BY Zenon DEF H!Init
    <2> QED BY <2>1, WaitingOK DEF HInv
  <1>2. HInv /\ [H!Next]_(H!webhookVars) => HInv'
    BY HInvStep, Zenon
  <1> QED BY <1>1, <1>2, PTL DEF WebhookSpec

\* What HInv says of succeeded and of dead rows is what the runs check.
LEMMA HInvImplies == HInv => H!SuccessBacked /\ H!DeadForCause
  BY DEF HInv, HookOK, H!SuccessBacked, H!DeadForCause, H!Pending
-----------------------------------------------------------------------------
(* The audit-governance relay.                                             *)

CONSTANTS Relays, Origins, TenantOf, Manifests, Tokens, NoToken, Batch, MaxRevision

VARIABLES control, logged, row, delivered, rejected, server, pc, gaps, work, ledger

G == INSTANCE Governance

GovernanceSpec == G!Init /\ [][G!Next]_(G!vars)

\* audit_governance_bindings.go refuses to drop a tenant with a backlog.
NoOrphanBacklog == G!NoOrphanBacklog

\* An origin with a tombstone has no pending row.
NoResurrection == G!NoResurrection

\* The service ledgers one event per origin.
LedgeredOnce == G!LedgeredOnce

RowFields == {"id", "state", "token", "live", "due", "anchored", "over", "old"}
FactFields == {"origin", "id", "token", "answer"}

\* An origin has one row at most, under its one id; a pending row's tenant is
\* bound and its origin not settled; a delivered row or tombstone is ledgered.
OriginOK(o) ==
    /\ \A w, v \in row[o] : w = v
    /\ \A w \in row[o] :
          /\ DOMAIN w = RowFields /\ w.id = <<o, "stored">>
          /\ w.state = "pending" =>
                TenantOf[o] \in DOMAIN control.states /\ o \notin delivered \cup rejected
          /\ w.state = "delivered" => <<o, "stored">> \in ledger
    /\ o \in delivered => <<o, "stored">> \in ledger

\* A worker's fact carries its origin's id, and is ledgered once it has a receipt.
FactOK(f) ==
    /\ DOMAIN f = FactFields
    /\ f.origin \in Origins /\ f.id = <<f.origin, "stored">>
    /\ f.answer = "nil" => f.id \in ledger

GInv ==
    /\ DOMAIN row = Origins /\ DOMAIN work = Relays
    /\ delivered \cup rejected \subseteq Origins
    /\ \A o \in Origins : OriginOK(o)
    /\ \A s \in Relays : \A f \in work[s] : FactOK(f)
    /\ ledger \subseteq Origins \X {"stored"}

\* A row that comes from the row before it keeps its origin in order.
LEMMA OriginKept ==
    ASSUME NEW o \in Origins, OriginOK(o),
           \A u, v \in row'[o] : u = v,
           \A v \in row'[o] : \E w \in row[o] :
              /\ DOMAIN v = RowFields /\ v.id = w.id
              /\ v.state = "pending" =>
                    /\ w.state = "pending"
                    /\ TenantOf[o] \in DOMAIN control'.states
                    /\ o \notin (delivered \cup rejected) => o \notin (delivered' \cup rejected')
              /\ v.state = "delivered" => w.state = "delivered" \/ <<o, "stored">> \in ledger,
           ledger \subseteq ledger',
           o \in delivered' => o \in delivered \/ <<o, "stored">> \in ledger
    PROVE  OriginOK(o)'
  BY Zenon DEF OriginOK

\* The outbox's steps touch one origin.
LEMMA OneOrigin ==
    ASSUME GInv, NEW o \in Origins, NEW R, row' = [row EXCEPT ![o] = R],
           UNCHANGED <<control, delivered, ledger>>,
           rejected \subseteq rejected', rejected' \subseteq rejected \cup {o},
           OriginOK(o)',
           DOMAIN work' = Relays, \A s \in Relays : \A f \in work'[s] : FactOK(f)'
    PROVE  GInv'
  <1>1. DOMAIN row' = Origins /\ \A p \in Origins \ {o} : row'[p] = row[p]
    BY Zenon DEF GInv
  <1>2. \A p \in Origins : OriginOK(p)'
    <2>1. ASSUME NEW p \in Origins, p # o PROVE OriginOK(p)'
      BY <1>1, <2>1, Zenon DEF GInv, OriginOK
    <2> QED BY <2>1, Zenon
  <1> QED BY <1>1, <1>2, Zenon DEF GInv

\* Workers that only lose facts keep theirs true.
LEMMA FactsFewer ==
    ASSUME GInv, NEW s \in Relays, NEW f, work' = [work EXCEPT ![s] = @ \ {f}], UNCHANGED ledger
    PROVE  DOMAIN work' = Relays /\ \A r \in Relays : \A g \in work'[r] : FactOK(g)'
  BY Zenon DEF GInv, FactOK

\* The row of an origin whose tenant's stored binding is active.
LEMMA InsertKeeps ==
    ASSUME NEW o \in Origins, GInv, G!InsertGovernance(o, <<o, "stored">>),
           G!Active(control.states, o),
           UNCHANGED <<control, delivered, rejected, work, ledger>>
    PROVE  GInv'
  <1>1. \A s \in Relays : \A f \in work'[s] : FactOK(f)'
    BY Zenon DEF GInv, FactOK
  <1>2. CASE UNCHANGED row
    BY <1>1, <1>2, Zenon DEF GInv, OriginOK
  <1>3. CASE /\ row' = [row EXCEPT ![o] = {G!NewRow(<<o, "stored">>)}]
             /\ o \notin delivered \cup rejected
    <2>1. OriginOK(o)'
      <3>1. row'[o] = {G!NewRow(<<o, "stored">>)} /\ OriginOK(o)
        BY <1>3, Zenon DEF GInv
      <3>2. LET v == G!NewRow(<<o, "stored">>) IN
            DOMAIN v = RowFields /\ v.id = <<o, "stored">> /\ v.state = "pending"
        BY Zenon DEF G!NewRow, RowFields
      <3>3. TenantOf[o] \in DOMAIN control'.states
        BY Zenon DEF G!Active
      <3> QED BY <1>3, <3>1, <3>2, <3>3, Zenon DEF OriginOK
    <2> QED BY <1>1, <1>3, <2>1, OneOrigin, Zenon DEF GInv
  <1> QED BY <1>2, <1>3, Zenon DEF G!InsertGovernance

\* What a fenced write makes of a row: settled, rescheduled or left alone.
Written(w, v) ==
    /\ DOMAIN v = RowFields /\ v.id = w.id /\ v.over = w.over
    /\ v.state = w.state \/ (w.state = "pending" /\ v.state \in {"delivered", "failed"})

\* A worker's fenced write settles or reschedules the row of its origin, or
\* misses it.
LEMMA SettleKeeps ==
    ASSUME GInv, NEW s \in Relays, NEW f \in work[s], NEW R,
           row' = [row EXCEPT ![f.origin] = R],
           \A u, v \in R : u = v,
           \A v \in R : \E w \in row[f.origin] :
              /\ Written(w, v)
              /\ v.state = "delivered" => w.state = "delivered" \/ f.answer = "nil"
              /\ v.state = "pending" => rejected' = rejected,
           rejected \subseteq rejected', rejected' \subseteq rejected \cup {f.origin},
           G!WorkerDone(s, f)
    PROVE  GInv'
  <1>1. FactOK(f) /\ f.origin \in Origins /\ OriginOK(f.origin)
    BY Zenon DEF GInv, FactOK
  <1>2. row'[f.origin] = R
    BY <1>1, Zenon DEF GInv
  <1>3. UNCHANGED <<control, delivered, ledger>> /\ work' = [work EXCEPT ![s] = @ \ {f}]
    BY Zenon DEF G!WorkerDone
  <1>4. OriginOK(f.origin)'
    <2> DEFINE o == f.origin
    <2>1. \A v \in row'[o] : \E w \in row[o] :
              /\ DOMAIN v = RowFields /\ v.id = w.id
              /\ v.state = "pending" =>
                    /\ w.state = "pending"
                    /\ TenantOf[o] \in DOMAIN control'.states
                    /\ o \notin (delivered \cup rejected) => o \notin (delivered' \cup rejected')
              /\ v.state = "delivered" => w.state = "delivered" \/ <<o, "stored">> \in ledger
      BY <1>1, <1>2, <1>3 DEF OriginOK, FactOK, Written
    <2> QED BY <1>1, <1>2, <1>3, <2>1, OriginKept
  <1> QED BY <1>1, <1>3, <1>4, OneOrigin, FactsFewer, Zenon

\* Ended, rescheduled or left alone, a row is rewritten.
LEMMA EndsWritten ==
    ASSUME NEW w, DOMAIN w = RowFields, w.state = "pending"
    PROVE  /\ Written(w, G!Completed(w)) /\ G!Completed(w).state = "delivered"
           /\ Written(w, G!Failed(w)) /\ G!Failed(w).state = "failed"
           /\ Written(w, G!Retried(w)) /\ G!Retried(w).state = "pending"
  BY Zenon DEF Written, RowFields, G!Completed, G!Failed, G!Ended, G!Retried

\* A receipt marks the row delivered.
LEMMA CompleteKeeps ==
    ASSUME GInv, NEW s \in Relays, NEW f \in work[s], G!Complete(s, f) PROVE GInv'
  <1> DEFINE R == {IF G!Held(f, w) THEN G!Completed(w) ELSE w : w \in row[f.origin]}
  <1>1. row' = [row EXCEPT ![f.origin] = R] /\ f.answer = "nil" /\ rejected' = rejected /\ G!WorkerDone(s, f)
    BY Zenon DEF G!Complete, G!Fenced
  <1>2. OriginOK(f.origin)
    BY Zenon DEF GInv, FactOK
  <1>3. \A u, v \in R : u = v
    BY <1>2, Zenon DEF OriginOK
  <1>4. \A v \in R : \E w \in row[f.origin] : Written(w, v)
    <2>1. ASSUME NEW w \in row[f.origin] PROVE Written(w, IF G!Held(f, w) THEN G!Completed(w) ELSE w)
      BY <1>2, EndsWritten, Zenon DEF OriginOK, G!Held, Written
    <2> QED BY <2>1, Zenon
  <1> HIDE DEF R
  <1> QED BY <1>1, <1>3, <1>4, SettleKeeps, Zenon

\* A refusal fails the row and writes the origin's tombstone with it.
LEMMA RejectKeeps ==
    ASSUME GInv, NEW s \in Relays, NEW f \in work[s], G!Reject(s, f) PROVE GInv'
  <1> DEFINE R == {IF G!Held(f, w) THEN G!Failed(w) ELSE w : w \in row[f.origin]}
  <1>1. /\ row' = [row EXCEPT ![f.origin] = R] /\ G!WorkerDone(s, f)
        /\ rejected \subseteq rejected' /\ rejected' \subseteq rejected \cup {f.origin}
        /\ (\A w \in row[f.origin] : ~G!Held(f, w)) => rejected' = rejected
    BY Zenon DEF G!Reject, G!Fenced
  <1>2. OriginOK(f.origin)
    BY Zenon DEF GInv, FactOK
  <1>3. \A u, v \in R : u = v
    BY <1>2, Zenon DEF OriginOK
  <1>4. \A v \in R : \E w \in row[f.origin] :
           /\ Written(w, v)
           /\ v.state = "delivered" => w.state = "delivered"
           /\ v.state = "pending" => rejected' = rejected
    <2>1. ASSUME NEW w \in row[f.origin], G!Held(f, w)
          PROVE Written(w, G!Failed(w)) /\ G!Failed(w).state = "failed"
      BY <1>2, <2>1, EndsWritten, Zenon DEF OriginOK, G!Held
    <2>2. ASSUME NEW w \in row[f.origin], ~G!Held(f, w) PROVE Written(w, w) /\ rejected' = rejected
      BY <1>1, <1>2, <2>2, Zenon DEF OriginOK, Written
    <2> QED BY <2>1, <2>2, Zenon
  <1> HIDE DEF R
  <1> QED BY <1>1, <1>3, <1>4, SettleKeeps, Zenon

\* A failed post reschedules the row, or fails it past its window.
LEMMA RetryKeeps ==
    ASSUME GInv, NEW s \in Relays, NEW f \in work[s], G!Retry(s, f) PROVE GInv'
  <1> DEFINE Z(w) == IF G!cumulativeWindowExceeded(w) THEN G!Failed(w) ELSE G!Retried(w)
             R == {IF G!Held(f, w) THEN Z(w) ELSE w : w \in row[f.origin]}
  <1>1. row' = [row EXCEPT ![f.origin] = R] /\ rejected' = rejected /\ G!WorkerDone(s, f)
    BY Zenon DEF G!Retry, G!Fenced
  <1>2. OriginOK(f.origin)
    BY Zenon DEF GInv, FactOK
  <1>3. \A u, v \in R : u = v
    BY <1>2, Zenon DEF OriginOK
  <1>4. \A v \in R : \E w \in row[f.origin] :
           Written(w, v) /\ (v.state = "delivered" => w.state = "delivered")
    <2>1. ASSUME NEW w \in row[f.origin], G!Held(f, w)
          PROVE Written(w, Z(w)) /\ Z(w).state # "delivered"
      BY <1>2, <2>1, EndsWritten, Zenon DEF OriginOK, G!Held
    <2>2. ASSUME NEW w \in row[f.origin] PROVE Written(w, w)
      BY <1>2, Zenon DEF OriginOK, Written
    <2> QED BY <2>1, <2>2, Zenon
  <1> HIDE DEF R
  <1> QED BY <1>1, <1>3, <1>4, SettleKeeps, Zenon

\* The service's answer changes one worker's fact.
LEMMA PublishKeeps ==
    ASSUME GInv, NEW s \in Relays, NEW f \in work[s], NEW receipt \in G!Receipts, NEW takes \in BOOLEAN,
           G!Publish(s, f, receipt, takes)
    PROVE  GInv'
  <1>1. FactOK(f) /\ UNCHANGED <<control, row, delivered, rejected>>
    BY Zenon DEF GInv, G!Publish, G!store
  <1>2. ledger \subseteq ledger' /\ ledger' \subseteq ledger \cup {f.id} /\ (receipt = "ledgered" => f.id \in ledger')
    BY Zenon DEF G!Publish
  <1>3. PICK a : /\ work' = [work EXCEPT ![s] = (@ \ {f}) \cup {[f EXCEPT !.answer = a]}]
                 /\ a = "nil" => f.id \in ledger'
    <2>1. G!validateReceipt(receipt) = "nil" => receipt = "ledgered"
      BY Zenon DEF G!validateReceipt, G!Receipts
    <2>2. work' = [work EXCEPT ![s] = (@ \ {f}) \cup {[f EXCEPT !.answer = G!validateReceipt(receipt)]}]
      BY Zenon DEF G!Publish, G!Answered
    <2> QED BY <1>2, <2>1, <2>2, Zenon
  <1>4. FactOK([f EXCEPT !.answer = a])'
    BY <1>1, <1>3, Zenon DEF FactOK, FactFields
  <1>5. \A r \in Relays : \A g \in work[r] : FactOK(g)'
    BY <1>2, Zenon DEF GInv, FactOK
  <1>6. DOMAIN work' = Relays /\ \A r \in Relays : \A g \in work'[r] : FactOK(g)'
    BY <1>3, <1>4, <1>5, Zenon DEF GInv
  <1>7. \A o \in Origins : OriginOK(o)'
    BY <1>1, <1>2, Zenon DEF GInv, OriginOK
  <1>8. ledger' \subseteq Origins \X {"stored"}
    BY <1>1, <1>2 DEF GInv, FactOK
  <1> QED BY <1>1, <1>6, <1>7, <1>8, Zenon DEF GInv

\* A claim marks rows and hands their facts to the server's workers.
LEMMA ClaimKeeps ==
    ASSUME GInv, NEW s \in Relays, NEW S \in SUBSET Origins, G!Claim(s, S) PROVE GInv'
  <1>1. UNCHANGED <<control, delivered, rejected, ledger>>
    BY Zenon DEF G!Claim
  <1>2. PICK t :
           /\ row' = [o \in Origins |-> IF o \in S THEN {G!Claimed(w, t) : w \in row[o]} ELSE row[o]]
           /\ work' = [work EXCEPT ![s] = UNION {G!FactsOf(o, t) : o \in S}]
    <2> DEFINE u == CHOOSE t \in Tokens : t \notin G!HeldTokens
    <2>1. /\ row' = [o \in Origins |-> IF o \in S THEN {G!Claimed(w, u) : w \in row[o]} ELSE row[o]]
          /\ work' = [work EXCEPT ![s] = UNION {G!FactsOf(o, u) : o \in S}]
      BY Zenon DEF G!Claim
    <2> HIDE DEF u
    <2> QED BY <2>1, Zenon
  <1>3. ASSUME NEW o \in Origins PROVE OriginOK(o)'
    <2>1. OriginOK(o)
      BY Zenon DEF GInv
    <2>2. CASE o \notin S
      BY <1>1, <1>2, <2>1, <2>2, Zenon DEF OriginOK
    <2>3. CASE o \in S
      <3>1. row'[o] = {G!Claimed(w, t) : w \in row[o]}
        BY <1>2, <2>3, Zenon
      <3>2. ASSUME NEW w \in row[o]
            PROVE  LET v == G!Claimed(w, t) IN
                   DOMAIN v = RowFields /\ v.id = w.id /\ v.state = w.state
        BY <2>1, Zenon DEF OriginOK, G!Claimed, RowFields
      <3>3. \A u, v \in row'[o] : u = v
        BY <2>1, <3>1, Zenon DEF OriginOK
      <3> QED BY <1>1, <2>1, <3>1, <3>2, <3>3 DEF OriginOK
    <2> QED BY <2>2, <2>3, Zenon
  <1>4. ASSUME NEW o \in S, NEW f \in G!FactsOf(o, t) PROVE FactOK(f)'
    <2>1. PICK w \in row[o] : f = [origin |-> o, id |-> w.id, token |-> t, answer |-> "none"]
      BY Zenon DEF G!FactsOf
    <2>2. w.id = <<o, "stored">> /\ o \in Origins
      BY Zenon DEF GInv, OriginOK
    <2> QED BY <2>1, <2>2, Zenon DEF FactOK, FactFields
  <1>5. DOMAIN work' = Relays /\ \A r \in Relays : \A f \in work'[r] : FactOK(f)'
    <2>1. DOMAIN work' = Relays /\ work'[s] = UNION {G!FactsOf(o, t) : o \in S}
          /\ \A r \in Relays \ {s} : work'[r] = work[r]
      BY <1>2, Zenon DEF GInv
    <2>2. \A r \in Relays \ {s} : \A f \in work'[r] : FactOK(f)'
      BY <1>1, <2>1, Zenon DEF GInv, FactOK
    <2>3. \A f \in work'[s] : FactOK(f)'
      BY <1>4, <2>1, Zenon
    <2> QED BY <2>1, <2>2, <2>3, Zenon
  <1>6. DOMAIN row' = Origins
    BY <1>2, Zenon
  <1> QED BY <1>1, <1>3, <1>5, <1>6, Zenon DEF GInv

\* A new manifest keeps every tenant with a pending row bound.
LEMMA ApplyKeeps ==
    ASSUME GInv, NEW revision, NEW states, G!ApplyBindings(revision, states),
           UNCHANGED <<row, delivered, rejected, work, ledger>>
    PROVE  GInv'
  <1>1. control'.states = states /\ G!Unbound(states) = {}
    BY Zenon DEF G!ApplyBindings
  <1>2. ASSUME NEW o \in Origins PROVE OriginOK(o)'
    <2>1. \A w \in row[o] : w.state = "pending" => TenantOf[o] \in DOMAIN states
      BY <1>1, Zenon DEF G!Unbound, G!Pending
    <2> QED BY <1>1, <2>1, Zenon DEF GInv, OriginOK
  <1>3. \A s \in Relays : \A f \in work'[s] : FactOK(f)'
    BY Zenon DEF GInv, FactOK
  <1> QED BY <1>2, <1>3, Zenon DEF GInv

\* Pruning takes rows that are not pending; a delivered one leaves a tombstone.
LEMMA PruneKeeps ==
    ASSUME GInv, NEW S \in SUBSET Origins,
           \/ S \subseteq G!Prunable("delivered") /\ delivered' = delivered \cup S
           \/ S \subseteq G!Prunable("failed") /\ delivered' = delivered,
           row' = [o \in Origins |-> IF o \in S THEN {} ELSE row[o]],
           UNCHANGED <<control, rejected, work, ledger>>
    PROVE  GInv'
  <1>1. ASSUME NEW o \in Origins PROVE OriginOK(o)'
    <2>1. OriginOK(o)
      BY Zenon DEF GInv
    <2>2. o \in delivered' => o \in delivered \/ (o \in S /\ <<o, "stored">> \in ledger)
      BY <2>1, Zenon DEF G!Prunable, OriginOK
    <2>3. row'[o] = IF o \in S THEN {} ELSE row[o]
      BY Zenon
    <2> QED BY <2>1, <2>2, <2>3, Zenon DEF OriginOK
  <1>2. \A s \in Relays : \A f \in work'[s] : FactOK(f)'
    BY Zenon DEF GInv, FactOK
  <1> QED BY <1>1, <1>2, Zenon DEF GInv

\* A time step sets a flag of a row.
LEMMA AgedKeeps ==
    ASSUME GInv, NEW o \in Origins, NEW w \in row[o], NEW v, G!Aged(o, w, v),
           DOMAIN v = RowFields, v.id = w.id, v.state = w.state
    PROVE  GInv'
  <1>1. row' = [row EXCEPT ![o] = {v}] /\ UNCHANGED <<control, delivered, rejected, work, ledger>>
    BY Zenon DEF G!Aged
  <1>2. row'[o] = {v} /\ OriginOK(o)
    BY <1>1, Zenon DEF GInv
  <1>3. OriginOK(o)'
    BY <1>1, <1>2, Zenon DEF OriginOK
  <1>4. \A s \in Relays : \A f \in work'[s] : FactOK(f)'
    BY <1>1, Zenon DEF GInv, FactOK
  <1> QED BY <1>1, <1>3, <1>4, OneOrigin, Zenon DEF GInv

\* A step that leaves the tables and the ledger, and gives the workers no fact.
LEMMA RestKeeps ==
    ASSUME GInv, UNCHANGED <<control, row, delivered, rejected, ledger>>,
           \/ UNCHANGED work
           \/ \E s \in Relays : work' = [work EXCEPT ![s] = {}]
           \/ \E s \in Relays, f \in UNION {work[r] : r \in Relays} : work' = [work EXCEPT ![s] = @ \ {f}]
    PROVE  GInv'
  <1>1. \A o \in Origins : OriginOK(o)'
    BY Zenon DEF GInv, OriginOK
  <1>2. DOMAIN work' = Relays /\ \A s \in Relays : work'[s] \subseteq work[s]
    BY Zenon DEF GInv
  <1>3. \A s \in Relays : \A f \in work'[s] : FactOK(f)'
    BY <1>2, Zenon DEF GInv, FactOK
  <1> QED BY <1>1, <1>2, <1>3, Zenon DEF GInv

\* The relay's own steps: reconciling, claiming and pruning.
LEMMA LoopKeeps == ASSUME GInv, NEW s \in Relays, G!Loop(s) PROVE GInv'
  <1>1. CASE G!ListGaps(s)
    BY <1>1, RestKeeps, Zenon DEF G!ListGaps, G!store
  <1>2. ASSUME NEW o \in Origins, G!Enqueue(s, o) PROVE GInv'
    <2>1. CASE UNCHANGED row
      BY <1>2, <2>1, RestKeeps, Zenon DEF G!Enqueue
    <2>2. CASE G!Active(control.states, o) /\ G!InsertGovernance(o, <<o, "stored">>)
      BY <1>2, <2>2, InsertKeeps, Zenon DEF G!Enqueue
    <2> QED BY <1>2, <2>1, <2>2, Zenon DEF G!Enqueue, G!FactFromGap, G!DeterministicFactID
  <1>3. CASE G!EndReconcile(s)
    BY <1>3, RestKeeps, Zenon DEF G!EndReconcile, G!store
  <1>4. CASE G!EndDeliver(s)
    BY <1>4, RestKeeps, Zenon DEF G!EndDeliver, G!store
  <1>5. ASSUME NEW S \in SUBSET Origins, G!CleanupDelivered(s, S) PROVE GInv'
    BY <1>5, PruneKeeps, Zenon DEF G!CleanupDelivered, G!Oldest, G!Marked
  <1>6. ASSUME NEW S \in SUBSET Origins, G!CleanupFailed(s, S) PROVE GInv'
    BY <1>6, PruneKeeps, Zenon DEF G!CleanupFailed, G!Oldest
  <1>7. CASE G!SkipCleanup(s)
    BY <1>7, RestKeeps, Zenon DEF G!SkipCleanup, G!store
  <1> QED BY <1>1, <1>2, <1>3, <1>4, <1>5, <1>6, <1>7, ClaimKeeps, Zenon DEF G!Loop

\* A worker's steps: posting and writing the outcome back.
LEMMA DeliverKeeps == ASSUME GInv, NEW s \in Relays, G!Deliver(s) PROVE GInv'
  <1>1. ASSUME NEW f \in work[s], G!WriteLost(s, f) PROVE GInv'
    <2>1. UNCHANGED <<control, row, delivered, rejected, ledger>> /\ work' = [work EXCEPT ![s] = @ \ {f}]
      BY <1>1, Zenon DEF G!WriteLost, G!WorkerDone
    <2> QED BY <2>1, RestKeeps, Zenon
  <1> QED BY <1>1, PublishKeeps, CompleteKeeps, RejectKeeps, RetryKeeps, Zenon DEF G!Deliver

\* An origin is logged and, for an active tenant, gets its row.
LEMMA CaptureKeeps == ASSUME GInv, NEW s \in Relays, NEW o \in Origins, G!Capture(s, o) PROVE GInv'
  <1>1. UNCHANGED <<control, delivered, rejected, work, ledger>>
    BY Zenon DEF G!Capture
  <1>2. CASE UNCHANGED row
    BY <1>1, <1>2, RestKeeps, Zenon
  <1>3. CASE G!Active(control.states, o) /\ G!InsertGovernance(o, <<o, "stored">>)
    BY <1>1, <1>3, InsertKeeps, Zenon
  <1> QED BY <1>2, <1>3, Zenon DEF G!Capture, G!CaptureTx, G!CapturedID, G!DeterministicFactID

\* A lease runs out, or time passes for a row.
LEMMA TimeKeeps == ASSUME GInv, NEW o \in Origins, G!LeaseExpires(o) \/ G!Passes(o) PROVE GInv'
  <1>1. PICK w \in row[o], k \in {"live", "due", "over", "old"}, b \in BOOLEAN :
           G!Aged(o, w, [w EXCEPT ![k] = b])
    BY Zenon DEF G!LeaseExpires, G!Passes
  <1>2. DOMAIN w = RowFields
    BY Zenon DEF GInv, OriginOK
  <1>3. LET v == [w EXCEPT ![k] = b] IN DOMAIN v = RowFields /\ v.id = w.id /\ v.state = w.state
    BY <1>2, Zenon DEF RowFields
  <1> QED BY <1>1, <1>3, AgedKeeps, Zenon

\* Every step of the relays and their workers keeps GInv.
LEMMA GInvStep == ASSUME GInv, [G!Next]_(G!vars) PROVE GInv'
  <1>1. ASSUME NEW s \in Relays, NEW revision, NEW m, G!Boot(s, revision, m) PROVE GInv'
    BY <1>1, ApplyKeeps, Zenon DEF G!Boot
  <1>2. ASSUME NEW s \in Relays, G!BootDisabled(s) \/ G!Stop(s) PROVE GInv'
    BY <1>2, RestKeeps, Zenon DEF G!BootDisabled, G!Stop, G!store
  <1>3. CASE UNCHANGED G!vars
    BY <1>3, RestKeeps, Zenon DEF G!vars
  <1> QED BY <1>1, <1>2, <1>3, CaptureKeeps, LoopKeeps, DeliverKeeps, TimeKeeps, Zenon DEF G!Next

\* GInv holds in every state of the relays.
LEMMA GovernanceInvariance == GovernanceSpec => []GInv
  <1>1. G!Init => GInv
    BY Zenon DEF G!Init, GInv, OriginOK
  <1> QED BY <1>1, GInvStep, PTL DEF GovernanceSpec

\* No manifest, in whatever order it arrives with captures and deliveries,
\* leaves a pending row whose tenant is no longer bound: the guard in
\* audit_governance_bindings.go suffices for any number of relays.
THEOREM BacklogBound == GovernanceSpec => []NoOrphanBacklog
  <1>1. GInv => NoOrphanBacklog
    BY Zenon DEF GInv, OriginOK, NoOrphanBacklog, G!NoOrphanBacklog, G!Pending
  <1> QED BY <1>1, GovernanceInvariance, PTL

\* An origin that was delivered or rejected never has a pending row again,
\* also when a late worker writes back after its lease was taken over.
THEOREM SettledStaySettled == GovernanceSpec => []NoResurrection
  <1>1. GInv => NoResurrection
    BY Zenon DEF GInv, OriginOK, NoResurrection, G!NoResurrection, G!Pending
  <1> QED BY <1>1, GovernanceInvariance, PTL

\* However often an origin is posted again after lost receipts and lost
\* leases, the service ledgers it under one id.
THEOREM OneIdPerOrigin == GovernanceSpec => []LedgeredOnce
  <1>1. GInv => LedgeredOnce
    BY DEF GInv, LedgeredOnce, G!LedgeredOnce
  <1> QED BY <1>1, GovernanceInvariance, PTL

\* A delivered row or tombstone has its event in the ledger.
LEMMA LedgerBacksRows == GInv => G!DeliveredLedgered
  <1> SUFFICES ASSUME GInv, NEW o \in Origins, o \in delivered \/ \E w \in row[o] : w.state = "delivered"
               PROVE  \E id \in ledger : id[1] = o
    BY Zenon DEF G!DeliveredLedgered
  <1>1. <<o, "stored">> \in ledger /\ <<o, "stored">>[1] = o
    BY Zenon DEF GInv, OriginOK
  <1> QED BY <1>1, Zenon

\* An origin's row that comes from the row before it keeps its window.
LEMMA WindowOne ==
    ASSUME GInv, NEW o \in Origins, NEW R, row' = [row EXCEPT ![o] = R],
           \A v \in R : \A w \in row[o] : w.over => v.over
    PROVE  G!WindowKept
  <1>1. row'[o] = R /\ \A p \in Origins \ {o} : row'[p] = row[p] /\ \A w, v \in row[p] : w = v
    BY Zenon DEF GInv, OriginOK
  <1> QED BY <1>1, Zenon DEF G!WindowKept

\* Steps that leave the rows leave their windows.
LEMMA WindowSame == ASSUME GInv, UNCHANGED row PROVE G!WindowKept
  <1>1. ASSUME NEW o \in Origins, NEW w \in row[o], NEW v \in row'[o] PROVE w = v
    BY Zenon DEF GInv, OriginOK
  <1> QED BY <1>1, Zenon DEF G!WindowKept

\* A new row opens a window; there was none to move.
LEMMA WindowInserts ==
    ASSUME GInv, NEW o \in Origins, G!InsertGovernance(o, <<o, "stored">>)
    PROVE  G!WindowKept
  <1>1. CASE UNCHANGED row
    BY <1>1, WindowSame, Zenon
  <1>2. CASE row[o] = {} /\ row' = [row EXCEPT ![o] = {G!NewRow(<<o, "stored">>)}]
    BY <1>2, WindowOne, Zenon
  <1> QED BY <1>1, <1>2, Zenon DEF G!InsertGovernance

\* A claim marks rows and leaves their windows.
LEMMA WindowClaims == ASSUME GInv, NEW s \in Relays, NEW S \in SUBSET Origins, G!Claim(s, S) PROVE G!WindowKept
  <1>1. PICK t : row' = [o \in Origins |-> IF o \in S THEN {G!Claimed(w, t) : w \in row[o]} ELSE row[o]]
    <2> DEFINE u == CHOOSE t \in Tokens : t \notin G!HeldTokens
    <2>1. row' = [o \in Origins |-> IF o \in S THEN {G!Claimed(w, u) : w \in row[o]} ELSE row[o]]
      BY Zenon DEF G!Claim
    <2> HIDE DEF u
    <2> QED BY <2>1, Zenon
  <1>2. ASSUME NEW o \in Origins, NEW w \in row[o], NEW v \in row'[o], w.over PROVE v.over
    <2>1. \A u \in row[o] : u = w
      BY Zenon DEF GInv, OriginOK
    <2>2. v = w \/ v = G!Claimed(w, t)
      BY <1>1, <2>1, Zenon
    <2>3. G!Claimed(w, t).over = w.over
      BY DEF GInv, OriginOK, G!Claimed, RowFields
    <2> QED BY <1>2, <2>2, <2>3, Zenon
  <1> QED BY <1>2, Zenon DEF G!WindowKept

\* A fenced write leaves the window of the row it changes.
LEMMA WindowSettles ==
    ASSUME GInv, NEW s \in Relays, NEW f \in work[s], G!Complete(s, f) \/ G!Reject(s, f) \/ G!Retry(s, f)
    PROVE  G!WindowKept
  <1>1. f.origin \in Origins /\ OriginOK(f.origin)
    BY Zenon DEF GInv, FactOK
  <1>2. PICK R : /\ row' = [row EXCEPT ![f.origin] = R]
                 /\ \A v \in R : \E w \in row[f.origin] :
                       v = w \/ (G!Held(f, w) /\ v \in {G!Completed(w), G!Failed(w), G!Retried(w)})
    <2>1. CASE G!Complete(s, f)
      <3> DEFINE R == {IF G!Held(f, w) THEN G!Completed(w) ELSE w : w \in row[f.origin]}
      <3>1. row' = [row EXCEPT ![f.origin] = R]
        BY <2>1, Zenon DEF G!Complete, G!Fenced
      <3>2. \A v \in R : \E w \in row[f.origin] :
               v = w \/ (G!Held(f, w) /\ v \in {G!Completed(w), G!Failed(w), G!Retried(w)})
        BY Zenon
      <3> HIDE DEF R
      <3> QED BY <3>1, <3>2, Zenon
    <2>2. CASE G!Reject(s, f)
      <3> DEFINE R == {IF G!Held(f, w) THEN G!Failed(w) ELSE w : w \in row[f.origin]}
      <3>1. row' = [row EXCEPT ![f.origin] = R]
        BY <2>2, Zenon DEF G!Reject, G!Fenced
      <3>2. \A v \in R : \E w \in row[f.origin] :
               v = w \/ (G!Held(f, w) /\ v \in {G!Completed(w), G!Failed(w), G!Retried(w)})
        BY Zenon
      <3> HIDE DEF R
      <3> QED BY <3>1, <3>2, Zenon
    <2>3. CASE G!Retry(s, f)
      <3> DEFINE Z(w) == IF G!cumulativeWindowExceeded(w) THEN G!Failed(w) ELSE G!Retried(w)
                 R == {IF G!Held(f, w) THEN Z(w) ELSE w : w \in row[f.origin]}
      <3>1. row' = [row EXCEPT ![f.origin] = R]
        BY <2>3, Zenon DEF G!Retry, G!Fenced
      <3>2. \A v \in R : \E w \in row[f.origin] :
               v = w \/ (G!Held(f, w) /\ v \in {G!Completed(w), G!Failed(w), G!Retried(w)})
        BY Zenon
      <3> HIDE DEF R
      <3> QED BY <3>1, <3>2, Zenon
    <2> QED BY <2>1, <2>2, <2>3, Zenon
  <1>3. ASSUME NEW v \in R, NEW w \in row[f.origin], w.over PROVE v.over
    <2>1. \A u \in row[f.origin] : u = w
      BY <1>1, Zenon DEF OriginOK
    <2>2. v = w \/ (w.state = "pending" /\ v \in {G!Completed(w), G!Failed(w), G!Retried(w)})
      BY <1>2, <2>1, Zenon DEF G!Held
    <2>3. v = w \/ v.over = w.over
      BY <1>1, <2>2, EndsWritten, Zenon DEF OriginOK, Written
    <2> QED BY <1>3, <2>3, Zenon
  <1> QED BY <1>1, <1>2, <1>3, WindowOne, Zenon

\* Time only makes a window older.
LEMMA WindowAges == ASSUME GInv, NEW o \in Origins, G!LeaseExpires(o) \/ G!Passes(o) PROVE G!WindowKept
  <1>1. PICK w \in row[o], k \in {"live", "due", "over", "old"}, b \in BOOLEAN :
           /\ row' = [row EXCEPT ![o] = {[w EXCEPT ![k] = b]}]
           /\ k = "over" => b = TRUE
    BY Zenon DEF G!LeaseExpires, G!Passes, G!Aged
  <1>2. DOMAIN w = RowFields /\ \A u \in row[o] : u = w
    BY Zenon DEF GInv, OriginOK
  <1>3. w.over => [w EXCEPT ![k] = b].over
    BY <1>1, <1>2, Zenon DEF RowFields
  <1> DEFINE R == {[w EXCEPT ![k] = b]}
  <1>4. row' = [row EXCEPT ![o] = R] /\ \A v \in R : \A u \in row[o] : u.over => v.over
    BY <1>1, <1>2, <1>3, Zenon
  <1> HIDE DEF R
  <1> QED BY <1>4, WindowOne, Zenon

\* No step of the relays moves a row's cumulative window.
LEMMA WindowStep == ASSUME GInv, [G!Next]_(G!vars) PROVE G!WindowKept
  <1>1. ASSUME NEW s \in Relays, NEW o \in Origins, G!Capture(s, o) \/ G!Enqueue(s, o) PROVE G!WindowKept
    BY <1>1, WindowSame, WindowInserts, Zenon
       DEF G!Capture, G!CaptureTx, G!CapturedID, G!Enqueue, G!FactFromGap, G!DeterministicFactID
  <1>2. ASSUME NEW s \in Relays, G!Loop(s) PROVE G!WindowKept
    <2>1. CASE G!ListGaps(s) \/ G!EndReconcile(s) \/ G!EndDeliver(s) \/ G!SkipCleanup(s)
      BY <2>1, WindowSame, Zenon DEF G!ListGaps, G!EndReconcile, G!EndDeliver, G!SkipCleanup, G!store
    <2>2. ASSUME NEW S \in SUBSET Origins, G!CleanupDelivered(s, S) \/ G!CleanupFailed(s, S) PROVE G!WindowKept
      <3>1. row' = [o \in Origins |-> IF o \in S THEN {} ELSE row[o]]
        BY <2>2, Zenon DEF G!CleanupDelivered, G!CleanupFailed
      <3>2. ASSUME NEW o \in Origins, NEW w \in row[o], NEW v \in row'[o] PROVE w = v
        BY <3>1, Zenon DEF GInv, OriginOK
      <3> QED BY <3>2, Zenon DEF G!WindowKept
    <2> QED BY <1>1, <1>2, <2>1, <2>2, WindowClaims, Zenon DEF G!Loop
  <1>3. ASSUME NEW s \in Relays, G!Deliver(s) PROVE G!WindowKept
    <2>1. ASSUME NEW f \in work[s], UNCHANGED row PROVE G!WindowKept
      BY <2>1, WindowSame, Zenon
    <2> QED BY <1>3, <2>1, WindowSettles, Zenon DEF G!Deliver, G!Publish, G!WriteLost, G!store
  <1>4. ASSUME NEW s \in Relays, NEW revision, NEW m,
               G!Boot(s, revision, m) \/ G!BootDisabled(s) \/ G!Stop(s)
        PROVE  G!WindowKept
    BY <1>4, WindowSame, Zenon DEF G!Boot, G!BootDisabled, G!Stop, G!store
  <1>5. CASE UNCHANGED G!vars
    BY <1>5, WindowSame, Zenon DEF G!vars
  <1> QED BY <1>1, <1>2, <1>3, <1>4, <1>5, WindowAges, Zenon DEF G!Next
-----------------------------------------------------------------------------
(* The billing outbox.                                                     *)

CONSTANTS Servers, Operations, Delta, NoServer, OutboxBatch, MaxAttempts, MaxMishaps

\* Config.Validate refuses a budget below one attempt.
ASSUME BillingAssumption == NoServer \notin Servers /\ MaxAttempts \in Nat \ {0}

VARIABLES gauge, applied, outbox, claims, refused, metered, degraded, mishaps

B == INSTANCE Billing

BillingSpec == B!Init /\ [][B!Next]_(B!billingVars)

\* The owner alone fences the billing outbox as well as a token would.
SettlesOwnClaim == B!SettlesOwnClaim

UsageFields == {"status", "attempts", "owner", "live", "due"}

\* A goroutine of the owner is at work on the row.
Carries(s, f) == \E k \in claims[s].facts : k.id = f

\* A row's attempts beyond MaxAttempts are paid for by mishaps, and so is the
\* next one of an inflight row, unless its claim is live and its owner at work.
UsageOK(f) ==
    LET w == outbox[f] IN
    /\ DOMAIN w = UsageFields /\ w.attempts \in Nat
    /\ w.attempts <= MaxAttempts + mishaps
    /\ w.status = "pending" => w.attempts < MaxAttempts
    /\ w.status = "inflight" /\ w.attempts = MaxAttempts + mishaps
          => w.live = TRUE /\ w.owner \in Servers /\ Carries(w.owner, f)
    /\ w.status = "delivered" => f \in metered
    /\ w.status = "failed" => f \in refused \/ w.attempts >= MaxAttempts

\* A goroutine whose server still owns the row carries the row's attempts.
ClaimOK(s, k) ==
    /\ DOMAIN k = {"id", "attempts", "answer"} /\ k.id \in DOMAIN outbox
    /\ outbox[k.id].status = "inflight" /\ outbox[k.id].owner = s
          => k.attempts = outbox[k.id].attempts
    /\ k.answer = "ok" => k.id \in metered
    /\ k.answer = "4xx" => k.id \in refused

ServerOK(s) ==
    /\ DOMAIN claims[s] = {"busy", "facts"}
    /\ claims[s].facts # {} => claims[s].busy = TRUE
    /\ \A k \in claims[s].facts : ClaimOK(s, k)

BInv ==
    /\ mishaps \in Nat /\ DOMAIN claims = Servers
    /\ \A f \in DOMAIN outbox : UsageOK(f)
    /\ \A s \in Servers : ServerOK(s)

\* A mutation's new facts leave the rows there are.
LEMMA ApplyStep == ASSUME BInv, NEW op \in Operations, B!Apply(op) PROVE BInv' /\ B!TerminalStays
  <1>1. UNCHANGED <<claims, refused, metered, mishaps>>
    BY Zenon DEF B!Apply
  <1>2. CASE UNCHANGED outbox
    BY <1>1, <1>2, SMTT(20) DEF BInv, UsageOK, ServerOK, ClaimOK, Carries, B!TerminalStays
  <1>3. CASE B!insertBillingFacts(op)
    <2>1. /\ DOMAIN outbox \subseteq DOMAIN outbox'
          /\ \A f \in DOMAIN outbox : outbox'[f] = outbox[f]
          /\ \A f \in DOMAIN outbox' \ DOMAIN outbox : outbox'[f] = B!NewFact
      BY <1>3, Zenon DEF B!insertBillingFacts
    <2>2. \A f \in DOMAIN outbox : UsageOK(f)'
      BY <1>1, <2>1, Zenon DEF BInv, UsageOK, Carries
    <2>3. \A f \in DOMAIN outbox' \ DOMAIN outbox : UsageOK(f)'
      <3>1. DOMAIN B!NewFact = UsageFields /\ B!NewFact.attempts = 0 /\ B!NewFact.status = "pending"
        BY Zenon DEF UsageFields, B!NewFact
      <3> QED BY <1>1, <2>1, <3>1, BillingAssumption, SMTT(20) DEF BInv, UsageOK, BillingAssumption
    <2>4. \A s \in Servers : ServerOK(s)'
      BY <1>1, <2>1, SMTT(20) DEF BInv, ServerOK, ClaimOK
    <2> QED BY <1>1, <2>1, <2>2, <2>3, <2>4, Zenon DEF BInv, B!TerminalStays
  <1> QED BY <1>2, <1>3, Zenon DEF B!Apply, B!ApplyBillingUsage

\* The rows a claim takes become the server's; each was due its attempt.
LEMMA ClaimStep ==
    ASSUME BInv, NEW s \in Servers, NEW F \in SUBSET DOMAIN outbox, B!ClaimBillingUsage(s, F)
    PROVE  BInv' /\ B!TerminalStays
  <1> DEFINE carried == {[id |-> f, attempts |-> outbox[f].attempts + 1, answer |-> "none"] : f \in F}
  <1>1. /\ UNCHANGED <<refused, metered, mishaps>> /\ ServerOK(s)
        /\ \A f \in F : B!Claimable(outbox[f])
    BY Zenon DEF B!ClaimBillingUsage, BInv
  <1>2. DOMAIN claims' = Servers /\ \A r \in Servers \ {s} : claims'[r] = claims[r]
    BY Zenon DEF B!ClaimBillingUsage, BInv
  <1>3. DOMAIN claims'[s] = {"busy", "facts"} /\ claims'[s].busy = TRUE /\ claims'[s].facts = carried
    <2>1. claims[s].facts = {}
      BY <1>1, Zenon DEF B!ClaimBillingUsage, B!Free, ServerOK
    <2> QED BY <2>1, Zenon DEF B!ClaimBillingUsage, BInv
  <1>4. /\ DOMAIN outbox' = DOMAIN outbox
        /\ \A f \in DOMAIN outbox \ F : outbox'[f] = outbox[f]
        /\ \A f \in F : outbox'[f] = B!Claimed(outbox[f], s)
    BY Zenon DEF B!ClaimBillingUsage
  <1>5. ASSUME NEW f \in F
        PROVE  LET v == B!Claimed(outbox[f], s) IN
               /\ DOMAIN v = UsageFields /\ v.status = "inflight" /\ v.owner = s /\ v.live = TRUE
               /\ v.attempts = outbox[f].attempts + 1
    BY Zenon DEF BInv, UsageOK, UsageFields, B!Claimed
  <1>6. ASSUME NEW f \in F PROVE outbox[f].attempts \in Nat /\ outbox[f].attempts + 1 <= MaxAttempts + mishaps
    <2>1. UsageOK(f) /\ mishaps \in Nat /\ B!Claimable(outbox[f])
      BY <1>1, Zenon DEF BInv
    <2> QED BY <2>1, BillingAssumption, SMTT(20) DEF BillingAssumption, UsageOK, B!Claimable
  <1>7. ASSUME NEW f \in F PROVE UsageOK(f)'
    <2>1. \E k \in claims'[s].facts : k.id = f
      <3>1. [id |-> f, attempts |-> outbox[f].attempts + 1, answer |-> "none"] \in claims'[s].facts
        BY <1>3, Zenon
      <3> QED BY <3>1, Zenon
    <2>2. LET v == outbox'[f] IN
          /\ DOMAIN v = UsageFields /\ v.status = "inflight" /\ v.owner = s /\ v.live = TRUE
          /\ v.attempts \in Nat /\ v.attempts <= MaxAttempts + mishaps
      <3>1. outbox'[f] = B!Claimed(outbox[f], s)
        BY <1>4, Zenon
      <3>2. LET v == outbox'[f] IN
            /\ DOMAIN v = UsageFields /\ v.status = "inflight" /\ v.owner = s /\ v.live = TRUE
            /\ v.attempts = outbox[f].attempts + 1
        BY <1>5, <3>1, Zenon
      <3> QED BY <1>6, <3>2, SMTT(20)
    <2> QED BY <1>1, <2>1, <2>2, Zenon DEF UsageOK, Carries
  <1>8. ASSUME NEW f \in DOMAIN outbox \ F PROVE UsageOK(f)'
    <2>1. UsageOK(f) /\ outbox'[f] = outbox[f]
      BY <1>4, Zenon DEF BInv
    <2>2. ASSUME NEW r \in Servers, Carries(r, f) PROVE Carries(r, f)'
      <3>1. r # s
        BY <1>1, <2>2, Zenon DEF Carries, ServerOK, B!ClaimBillingUsage, B!Free
      <3> QED BY <1>2, <2>2, <3>1, Zenon DEF Carries
    <2> QED BY <1>1, <2>1, <2>2, Zenon DEF UsageOK
  <1>9. ServerOK(s)'
    <2>1. ASSUME NEW k \in carried PROVE ClaimOK(s, k)'
      <3>1. PICK f \in F : k = [id |-> f, attempts |-> outbox[f].attempts + 1, answer |-> "none"]
        BY Zenon
      <3> QED BY <1>4, <1>5, <3>1, Zenon DEF ClaimOK
    <2> QED BY <1>3, <2>1, Zenon DEF ServerOK
  <1>10. ASSUME NEW r \in Servers \ {s} PROVE ServerOK(r)'
    <2>1. ServerOK(r) /\ claims'[r] = claims[r]
      BY <1>2, Zenon DEF BInv
    <2>2. ASSUME NEW k \in claims[r].facts PROVE ClaimOK(r, k)'
      <3>1. ClaimOK(r, k)
        BY <2>1, Zenon DEF ServerOK
      <3>2. k.id \in DOMAIN outbox /\ (k.id \in F => outbox'[k.id].owner = s)
        BY <1>4, <1>5, <3>1, ZenonT(30) DEF ClaimOK
      <3> QED BY <1>1, <1>4, <3>1, <3>2, Zenon DEF ClaimOK
    <2> QED BY <2>1, <2>2, Zenon DEF ServerOK
  <1>11. B!TerminalStays
    BY <1>1, <1>4, Zenon DEF B!TerminalStays, B!Claimable
  <1> QED BY <1>1, <1>2, <1>4, <1>7, <1>8, <1>9, <1>10, <1>11, Zenon DEF BInv

\* A goroutine ends: its server's others, and what they carry, stay.
LEMMA Dropped ==
    ASSUME BInv, NEW s \in Servers, NEW k \in claims[s].facts,
           claims' = [claims EXCEPT ![s].facts = @ \ {k}]
    PROVE  /\ DOMAIN claims' = Servers /\ \A r \in Servers \ {s} : claims'[r] = claims[r]
           /\ DOMAIN claims'[s] = {"busy", "facts"} /\ claims'[s].busy = claims[s].busy
           /\ claims'[s].facts = claims[s].facts \ {k}
           /\ ClaimOK(s, k)
           /\ \A r \in Servers, f \in DOMAIN outbox :
                 Carries(r, f) => Carries(r, f)' \/ (r = s /\ f = k.id)
  <1>1. ServerOK(s)
    BY Zenon DEF BInv
  <1>2. /\ DOMAIN claims' = Servers /\ \A r \in Servers \ {s} : claims'[r] = claims[r]
        /\ DOMAIN claims'[s] = {"busy", "facts"} /\ claims'[s].busy = claims[s].busy
        /\ claims'[s].facts = claims[s].facts \ {k}
    BY <1>1, Zenon DEF BInv, ServerOK
  <1> QED BY <1>1, <1>2, Zenon DEF ServerOK, Carries

\* A goroutine settles its row, or finds that the row is no longer its server's.
LEMMA SettleStep ==
    ASSUME BInv, NEW s \in Servers, NEW k \in claims[s].facts, NEW new,
           B!Settle(s, k, new),
           B!Held(k.id, s) =>
              /\ DOMAIN new = UsageFields /\ new.attempts = outbox[k.id].attempts
              /\ \/ new.status = "delivered" /\ k.id \in metered
                 \/ new.status = "failed" /\ (k.id \in refused \/ new.attempts >= MaxAttempts)
                 \/ new.status = "pending" /\ new.attempts < MaxAttempts
    PROVE  BInv' /\ B!TerminalStays
  <1>1. UNCHANGED <<refused, metered, mishaps>> /\ claims' = [claims EXCEPT ![s].facts = @ \ {k}]
    BY Zenon DEF B!Settle
  <1>2. /\ DOMAIN claims' = Servers /\ \A r \in Servers \ {s} : claims'[r] = claims[r]
        /\ DOMAIN claims'[s] = {"busy", "facts"} /\ claims'[s].busy = claims[s].busy
        /\ claims'[s].facts = claims[s].facts \ {k}
        /\ ClaimOK(s, k)
        /\ \A r \in Servers, f \in DOMAIN outbox :
              Carries(r, f) => Carries(r, f)' \/ (r = s /\ f = k.id)
    BY <1>1, Dropped, Zenon
  <1>3. /\ DOMAIN outbox' = DOMAIN outbox
        /\ \A f \in DOMAIN outbox \ {k.id} : outbox'[f] = outbox[f]
        /\ ~B!Held(k.id, s) => outbox'[k.id] = outbox[k.id]
        /\ B!Held(k.id, s) => outbox'[k.id] = new
    BY <1>2, Zenon DEF B!Settle, ClaimOK
  <1>4. ASSUME NEW f \in DOMAIN outbox, f # k.id \/ ~B!Held(k.id, s) PROVE UsageOK(f)'
    <2>1. UsageOK(f) /\ outbox'[f] = outbox[f]
      BY <1>3, <1>4, Zenon DEF BInv
    <2>2. ASSUME NEW r \in Servers, outbox[f].status = "inflight", outbox[f].owner = r, Carries(r, f)
          PROVE  Carries(r, f)'
      BY <1>2, <1>4, <2>2, Zenon DEF B!Held
    <2> QED BY <1>1, <2>1, <2>2, Zenon DEF UsageOK, Carries
  <1>5. B!Held(k.id, s) => UsageOK(k.id)'
    <2>1. k.id \in DOMAIN outbox /\ UsageOK(k.id)
      BY <1>2, Zenon DEF BInv, ClaimOK
    <2> QED BY <1>1, <1>3, <2>1, Zenon DEF UsageOK
  <1>6. ASSUME NEW r \in Servers PROVE ServerOK(r)'
    <2>1. ServerOK(r)
      BY Zenon DEF BInv
    <2>2. ASSUME NEW j \in claims[r].facts PROVE ClaimOK(r, j)'
      <3>1. ClaimOK(r, j)
        BY <2>1, Zenon DEF ServerOK
      <3>2. outbox'[j.id].status = "inflight" => outbox'[j.id] = outbox[j.id]
        BY <1>3, <3>1, Zenon DEF ClaimOK
      <3> QED BY <1>1, <1>3, <3>1, <3>2, Zenon DEF ClaimOK
    <2> QED BY <1>2, <2>1, <2>2, Zenon DEF ServerOK
  <1>7. B!TerminalStays
    BY <1>3, Zenon DEF B!TerminalStays, B!Held
  <1> QED BY <1>1, <1>2, <1>3, <1>4, <1>5, <1>6, <1>7, Zenon DEF BInv

\* An accepted fact is marked delivered if its server still owns it.
LEMMA CompleteStep ==
    ASSUME BInv, NEW s \in Servers, NEW k \in claims[s].facts, B!CompleteBillingUsage(s, k)
    PROVE  BInv' /\ B!TerminalStays
  <1> DEFINE new == [outbox[k.id] EXCEPT !.status = "delivered", !.owner = NoServer, !.live = FALSE]
  <1>1. ClaimOK(s, k) /\ UsageOK(k.id) /\ k.id \in metered /\ B!Settle(s, k, new)
    BY Zenon DEF BInv, ServerOK, ClaimOK, B!CompleteBillingUsage
  <1>2. DOMAIN new = UsageFields /\ new.attempts = outbox[k.id].attempts /\ new.status = "delivered"
    BY <1>1, Zenon DEF UsageOK, UsageFields
  <1> HIDE DEF new
  <1> QED BY <1>1, <1>2, SettleStep, Zenon

\* A failed post gives the fact up, at the last attempt or after a refusal,
\* or reschedules it.
LEMMA RetryStep ==
    ASSUME BInv, NEW s \in Servers, NEW k \in claims[s].facts, B!failFact(s, k) \/ B!retryFact(s, k)
    PROVE  BInv' /\ B!TerminalStays
  <1>1. PICK max : /\ B!RetryBillingUsage(s, k, max)
                   /\ \/ max = k.attempts /\ k.answer = "4xx"
                      \/ max = MaxAttempts
    BY Zenon DEF B!failFact, B!retryFact, B!isPermanentBillingError
  <1> DEFINE new == [outbox[k.id] EXCEPT
                        !.status = IF outbox[k.id].attempts >= max THEN "failed" ELSE "pending",
                        !.owner = NoServer, !.live = FALSE, !.due = FALSE]
  <1>2. ClaimOK(s, k) /\ UsageOK(k.id) /\ B!Settle(s, k, new)
    BY <1>1, Zenon DEF BInv, ServerOK, ClaimOK, B!RetryBillingUsage
  <1>3. /\ DOMAIN new = UsageFields /\ new.attempts = outbox[k.id].attempts
        /\ new.status = IF outbox[k.id].attempts >= max THEN "failed" ELSE "pending"
    BY <1>2, Zenon DEF UsageOK, UsageFields
  <1> HIDE DEF new
  <1>4. B!Held(k.id, s) =>
           \/ new.status = "failed" /\ (k.id \in refused \/ new.attempts >= MaxAttempts)
           \/ new.status = "pending" /\ new.attempts < MaxAttempts
    BY <1>1, <1>2, <1>3, BillingAssumption, SMTT(20) DEF BillingAssumption, ClaimOK, UsageOK, B!Held
  <1> QED BY <1>2, <1>3, <1>4, SettleStep, Zenon

\* The service's answer is noted in the goroutine.
LEMMA AppendStep ==
    ASSUME BInv, NEW s \in Servers, NEW k \in claims[s].facts, NEW answer \in {"ok", "4xx", "error"},
           NEW meters \in BOOLEAN, B!AppendUsage(s, k, answer, meters)
    PROVE  BInv' /\ B!TerminalStays
  <1> DEFINE j == [k EXCEPT !.answer = answer]
  <1>1. /\ UNCHANGED <<outbox, mishaps>> /\ metered \subseteq metered' /\ refused \subseteq refused'
        /\ answer = "ok" => k.id \in metered'
        /\ answer = "4xx" => k.id \in refused'
    BY Zenon DEF B!AppendUsage
  <1>2. ServerOK(s) /\ ClaimOK(s, k)
    BY Zenon DEF BInv, ServerOK
  <1>3. DOMAIN j = {"id", "attempts", "answer"} /\ j.id = k.id /\ j.attempts = k.attempts /\ j.answer = answer
    BY <1>2, Zenon DEF ClaimOK
  <1>4. claims' = [claims EXCEPT ![s].facts = (@ \ {k}) \cup {j}]
    BY Zenon DEF B!AppendUsage
  <1> HIDE DEF j
  <1>5. /\ DOMAIN claims' = Servers /\ \A r \in Servers \ {s} : claims'[r] = claims[r]
        /\ DOMAIN claims'[s] = {"busy", "facts"} /\ claims'[s].busy = claims[s].busy
        /\ claims'[s].facts = (claims[s].facts \ {k}) \cup {j}
    BY <1>2, <1>4, Zenon DEF BInv, ServerOK
  <1>6. ASSUME NEW f \in DOMAIN outbox PROVE UsageOK(f)'
    <2>1. ASSUME NEW r \in Servers, Carries(r, f) PROVE Carries(r, f)'
      BY <1>3, <1>5, <2>1, Zenon DEF Carries
    <2> QED BY <1>1, <2>1, Zenon DEF BInv, UsageOK, Carries
  <1>7. ASSUME NEW r \in Servers PROVE ServerOK(r)'
    <2>1. ASSUME NEW i \in claims[r].facts PROVE ClaimOK(r, i)'
      BY <1>1, Zenon DEF BInv, ServerOK, ClaimOK
    <2>2. ClaimOK(s, j)'
      BY <1>1, <1>2, <1>3, Zenon DEF ClaimOK
    <2> QED BY <1>5, <2>1, <2>2, Zenon DEF BInv, ServerOK
  <1> QED BY <1>1, <1>5, <1>6, <1>7, Zenon DEF BInv, B!TerminalStays

\* What stays true of a row when a mishap is counted.
LEMMA Paid ==
    ASSUME BInv, NEW f \in DOMAIN outbox, mishaps' = mishaps + 1, UNCHANGED <<refused, metered>>,
           DOMAIN outbox'[f] = UsageFields, outbox'[f].status = outbox[f].status,
           outbox'[f].attempts = outbox[f].attempts
    PROVE  UsageOK(f)'
  <1>1. UsageOK(f) /\ mishaps \in Nat
    BY Zenon DEF BInv
  <1> QED BY <1>1, BillingAssumption, SMTT(20) DEF BillingAssumption, UsageOK

\* A write that never reaches the database is a mishap.
LEMMA LostStep ==
    ASSUME BInv, NEW s \in Servers, NEW k \in claims[s].facts, B!WriteLost(s, k)
    PROVE  BInv' /\ B!TerminalStays
  <1>1. /\ UNCHANGED <<outbox, refused, metered>> /\ mishaps' = mishaps + 1
        /\ claims' = [claims EXCEPT ![s].facts = @ \ {k}]
    BY Zenon DEF B!WriteLost, B!Mishap
  <1>2. /\ DOMAIN claims' = Servers /\ \A r \in Servers \ {s} : claims'[r] = claims[r]
        /\ DOMAIN claims'[s] = {"busy", "facts"} /\ claims'[s].busy = claims[s].busy
        /\ claims'[s].facts = claims[s].facts \ {k}
    BY <1>1, Dropped, Zenon
  <1>3. \A f \in DOMAIN outbox : UsageOK(f)'
    BY <1>1, Paid, Zenon DEF BInv, UsageOK
  <1>4. \A r \in Servers : ServerOK(r)'
    BY <1>1, <1>2 DEF BInv, ServerOK, ClaimOK
  <1> QED BY <1>1, <1>2, <1>3, <1>4 DEF BInv, B!TerminalStays

\* A server restarts under a new owner id; what it had claimed is nobody's.
LEMMA RestartStep == ASSUME BInv, NEW s \in Servers, B!Restart(s) PROVE BInv' /\ B!TerminalStays
  <1>1. UNCHANGED <<refused, metered>> /\ mishaps' = mishaps + 1
    BY Zenon DEF B!Restart, B!Mishap
  <1>2. DOMAIN claims' = Servers /\ claims'[s] = B!Idle /\ \A r \in Servers \ {s} : claims'[r] = claims[r]
    BY Zenon DEF B!Restart, BInv
  <1>3. /\ DOMAIN outbox' = DOMAIN outbox
        /\ \A f \in DOMAIN outbox :
              /\ DOMAIN outbox'[f] = UsageFields /\ outbox'[f].status = outbox[f].status
              /\ outbox'[f].attempts = outbox[f].attempts
              /\ outbox'[f].owner = IF outbox[f].owner = s THEN NoServer ELSE outbox[f].owner
    BY Zenon DEF B!Restart, BInv, UsageOK, UsageFields
  <1>4. \A f \in DOMAIN outbox : UsageOK(f)'
    BY <1>1, <1>3, Paid, Zenon
  <1>5. ServerOK(s)'
    BY <1>2, SMTT(20) DEF ServerOK, B!Idle
  <1>6. ASSUME NEW r \in Servers \ {s} PROVE ServerOK(r)'
    <2>1. ServerOK(r) /\ claims'[r] = claims[r]
      BY <1>2, Zenon DEF BInv
    <2>2. ASSUME NEW k \in claims[r].facts PROVE ClaimOK(r, k)'
      <3>1. ClaimOK(r, k)
        BY <2>1, Zenon DEF ServerOK
      <3> QED BY <1>1, <1>3, <3>1, BillingAssumption, Zenon DEF BillingAssumption, ClaimOK
    <2> QED BY <2>1, <2>2, Zenon DEF ServerOK
  <1> QED BY <1>1, <1>2, <1>3, <1>4, <1>5, <1>6, SMTT(20) DEF BInv, B!TerminalStays

\* A claim runs out, or a backoff does.
LEMMA ExpiresStep == ASSUME BInv, NEW f \in DOMAIN outbox, B!ClaimExpires(f) \/ B!ComesDue(f) PROVE BInv' /\ B!TerminalStays
  <1>1. UNCHANGED <<claims, refused, metered>> /\ UsageOK(f)
    BY Zenon DEF B!ClaimExpires, B!ComesDue, BInv
  <1>2. /\ DOMAIN outbox' = DOMAIN outbox
        /\ \A g \in DOMAIN outbox \ {f} : outbox'[g] = outbox[g]
        /\ DOMAIN outbox'[f] = UsageFields /\ outbox'[f].status = outbox[f].status
        /\ outbox'[f].attempts = outbox[f].attempts /\ outbox'[f].owner = outbox[f].owner
    BY <1>1, Zenon DEF B!ClaimExpires, B!ComesDue, UsageOK, UsageFields
  <1>3. ASSUME NEW s \in Servers PROVE ServerOK(s)'
    <2>1. ServerOK(s) /\ claims'[s] = claims[s]
      BY <1>1, Zenon DEF BInv
    <2>2. ASSUME NEW k \in claims[s].facts PROVE ClaimOK(s, k)'
      <3>1. ClaimOK(s, k)
        BY <2>1, Zenon DEF ServerOK
      <3> QED BY <1>1, <1>2, <3>1, Zenon DEF ClaimOK
    <2> QED BY <2>1, <2>2, Zenon DEF ServerOK
  <1>4. CASE mishaps' = mishaps + 1
    <2>1. \A g \in DOMAIN outbox : UsageOK(g)'
      BY <1>1, <1>2, <1>4, Paid, ZenonT(40) DEF BInv, UsageOK
    <2> QED BY <1>1, <1>2, <1>3, <1>4, <2>1, SMTT(20) DEF BInv, B!TerminalStays
  <1>5. CASE mishaps' = mishaps /\ (outbox'[f].live = outbox[f].live \/ ~B!Working(f))
    <2>1. \A g \in DOMAIN outbox \ {f} : UsageOK(g)'
      BY <1>1, <1>2, <1>5 DEF BInv, UsageOK, Carries
    <2>2. UsageOK(f)'
      <3>1. ~B!Working(f) => ~(outbox[f].owner \in Servers /\ Carries(outbox[f].owner, f))
        BY Zenon DEF B!Working, Carries
      <3> QED BY <1>1, <1>2, <1>5, <3>1, Zenon DEF UsageOK, Carries
    <2> QED BY <1>1, <1>2, <1>3, <1>5, <2>1, <2>2, Zenon DEF BInv, B!TerminalStays
  <1>6. B!ComesDue(f) => outbox'[f].live = outbox[f].live
    BY <1>1, Zenon DEF B!ComesDue, UsageOK, UsageFields
  <1> QED BY <1>4, <1>5, <1>6, Zenon DEF B!ClaimExpires, B!ComesDue, B!Mishap

\* A batch is over when its goroutines are; the backlog is probed.
LEMMA BatchStep == ASSUME BInv, NEW s \in Servers, B!deliverBatch(s) PROVE BInv' /\ B!TerminalStays
  <1>1. UNCHANGED <<outbox, refused, metered, mishaps>> /\ claims[s].facts = {}
    BY Zenon DEF B!deliverBatch
  <1>2. DOMAIN claims' = Servers /\ claims'[s] = B!Idle /\ \A r \in Servers \ {s} : claims'[r] = claims[r]
    BY Zenon DEF B!deliverBatch, BInv
  <1>3. ASSUME NEW f \in DOMAIN outbox PROVE UsageOK(f)'
    <2>1. ASSUME NEW r \in Servers, Carries(r, f) PROVE Carries(r, f)'
      BY <1>1, <1>2, <2>1, Zenon DEF Carries
    <2> QED BY <1>1, <2>1, Zenon DEF BInv, UsageOK, Carries
  <1>4. ServerOK(s)'
    BY <1>2, SMTT(20) DEF ServerOK, B!Idle
  <1>5. ASSUME NEW r \in Servers \ {s} PROVE ServerOK(r)'
    <2>1. ServerOK(r) /\ claims'[r] = claims[r]
      BY <1>2, Zenon DEF BInv
    <2>2. ASSUME NEW k \in claims[r].facts PROVE ClaimOK(r, k)'
      <3>1. ClaimOK(r, k)
        BY <2>1, Zenon DEF ServerOK
      <3> QED BY <1>1, <3>1, Zenon DEF ClaimOK
    <2> QED BY <2>1, <2>2, Zenon DEF ServerOK
  <1> QED BY <1>1, <1>2, <1>3, <1>4, <1>5, Zenon DEF BInv, B!TerminalStays

\* Every step of the billing outbox keeps BInv, and no settled fact changes.
LEMMA BInvStep == ASSUME BInv, [B!Next]_(B!billingVars) PROVE BInv' /\ B!TerminalStays
  <1>1. CASE UNCHANGED B!billingVars
    BY <1>1 DEF B!billingVars, BInv, UsageOK, ServerOK, ClaimOK, Carries, B!TerminalStays
  <1>2. ASSUME NEW s \in Servers, B!Loop(s) PROVE BInv' /\ B!TerminalStays
    BY <1>2, ClaimStep, BatchStep, Zenon DEF B!Loop
  <1>3. ASSUME NEW s \in Servers, B!Deliver(s) PROVE BInv' /\ B!TerminalStays
    BY <1>3, AppendStep, CompleteStep, RetryStep, LostStep, ZenonT(40) DEF B!Deliver
  <1> QED BY <1>1, <1>2, <1>3, ApplyStep, RestartStep, ExpiresStep, ZenonT(40) DEF B!Next

\* BInv holds in every state of the billing outbox.
LEMMA BillingInvariance == BillingSpec => []BInv
  <1>1. B!Init => BInv
    BY SMTT(20) DEF B!Init, B!Idle, BInv, ServerOK
  <1>2. BInv /\ [B!Next]_(B!billingVars) => BInv'
    BY BInvStep, Zenon
  <1> QED BY <1>1, <1>2, PTL DEF BillingSpec

\* A goroutine whose server owns the row settles the very claim it was
\* started for: the owner column fences as well as a token would, for any
\* number of servers, restarts and expired claims.
THEOREM OwnClaimOnly == BillingSpec => []SettlesOwnClaim
  <1>1. BInv => SettlesOwnClaim
    BY Zenon DEF BInv, ServerOK, ClaimOK, SettlesOwnClaim, B!SettlesOwnClaim, B!Held
  <1> QED BY <1>1, BillingInvariance, PTL

\* What BInv says of the facts is what the runs check.
LEMMA BInvImplies == BInv => B!DeliveredMetered /\ B!FailedForCause /\ B!AttemptBudget
  BY Zenon DEF BInv, UsageOK, B!DeliveredMetered, B!FailedForCause, B!AttemptBudget
-----------------------------------------------------------------------------
(* The loops together.                                                     *)

loopVars == <<G!vars, B!billingVars, H!webhookVars>>

LoopsSpec == GovernanceSpec /\ BillingSpec /\ WebhookSpec

\* What an outbox marks delivered the service has: an origin in the governance
\* ledger, a usage fact among the metered ones, a webhook row's payload at the
\* endpoint.
DeliveredReceived == G!DeliveredLedgered /\ B!DeliveredMetered /\ H!SuccessBacked

\* Usage is given up only after a refusal or MaxAttempts claims, and claimed
\* more often only as claims got lost; a webhook row only after its attempts
\* really failed or for a bucket in a space.
FailedForCause == B!FailedForCause /\ B!AttemptBudget /\ H!DeadForCause

\* No claim, retry, lost lease or late result moves a governance row's
\* cumulative window, or a usage fact or a webhook row out of a settled state.
RowsMoveForward == [][G!WindowKept /\ B!TerminalStays /\ H!SettledStays]_loopVars

\* Whatever the interleaving, crashes, lost answers and late results: a row
\* that reads delivered stands for something the service has.
THEOREM ReceivedAlways == LoopsSpec => []DeliveredReceived
  <1>1. GInv /\ BInv /\ HInv => DeliveredReceived
    BY LedgerBacksRows, BInvImplies, HInvImplies, Zenon DEF DeliveredReceived
  <1> QED BY <1>1, GovernanceInvariance, BillingInvariance, WebhookInvariance, PTL DEF LoopsSpec

\* Nothing is given up before its budget is used up, or for a reason.
THEOREM CauseAlways == LoopsSpec => []FailedForCause
  <1>1. BInv /\ HInv => FailedForCause
    BY BInvImplies, HInvImplies, Zenon DEF FailedForCause
  <1> QED BY <1>1, BillingInvariance, WebhookInvariance, PTL DEF LoopsSpec

\* No step of any loop takes a settled row back or moves a window.
THEOREM ForwardAlways == LoopsSpec => RowsMoveForward
  <1>1. /\ GInv /\ BInv /\ HInv
        /\ [G!Next]_(G!vars) /\ [B!Next]_(B!billingVars) /\ [H!Next]_(H!webhookVars)
        => G!WindowKept /\ B!TerminalStays /\ H!SettledStays
    BY WindowStep, BInvStep, StaysStep, Zenon
  <1> QED BY <1>1, GovernanceInvariance, BillingInvariance, WebhookInvariance, PTL
          DEF LoopsSpec, GovernanceSpec, BillingSpec, WebhookSpec, RowsMoveForward
=============================================================================
