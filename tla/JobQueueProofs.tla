--------------------------- MODULE JobQueueProofs ---------------------------
(***************************************************************************)
(* Proofs about JobQueue.  IInv is its inductive invariant: the rows and   *)
(* the workers' copies are typed, DedupeLive, OwnerExclusive, and Budget,  *)
(* which is what makes AttemptSlack inductive.                             *)
(***************************************************************************)
EXTENDS JobQueue, FiniteSetTheorems, TLAPS

\* The executions of job id that may still overdraw its budget: by its own copy
\* the worker may requeue the job, and the row is not the worker's any more or
\* the next reap takes it away.
Doomed(id) ==
    {w \in Workers : /\ held[w].id = id /\ held[w].attempts < MaxAttempts
                     /\ held[w].lost \/ jobs[id].age = ReapAfter}

\* The attempts past the budget that the row has taken, or will with its next claim.
Overdrawn(row) ==
    IF row.attempts < MaxAttempts THEN 0
    ELSE IF row.status = "pending" THEN row.attempts + 1 - MaxAttempts
    ELSE row.attempts - MaxAttempts

Slack == retries + overruns

\* Every overdrawn attempt of a job with d doomed executions, and every one of
\* those executions, is paid for out of s.  A settled job has one to spare: what
\* revives it is a retry, or uses up one of the executions.
Within(row, d, s) ==
    IF row.status \in {"succeeded", "failed"}
    THEN d <= s + 1 /\ row.attempts <= MaxAttempts + s
    ELSE d + Overdrawn(row) <= s

Budget == \A id \in Ids : Within(jobs[id], Cardinality(Doomed(id)), Slack)

Typed ==
    /\ jobs \in [Ids -> Row]
    /\ held \in [Workers -> Holding]
    /\ overruns \in Nat /\ retries \in Nat

IInv == Typed /\ DedupeLive /\ OwnerExclusive /\ Budget
-----------------------------------------------------------------------------
(* Sets of workers and their sizes. *)

\* A set of workers is finite, and its size is a number.
LEMMA WorkersSize ==
    ASSUME NEW S \in SUBSET Workers
    PROVE  IsFiniteSet(S) /\ Cardinality(S) \in Nat
  BY JobsAssumption, FS_Subset, FS_CardinalityType, Zenon DEF JobsAssumption

\* A set covered by two others is no larger than they are together.
LEMMA SizeOfUnion ==
    ASSUME NEW S \in SUBSET Workers, NEW T \in SUBSET Workers, NEW U \in SUBSET Workers,
           S \subseteq T \cup U
    PROVE  Cardinality(S) <= Cardinality(T) + Cardinality(U)
  <1>1. Cardinality(S) <= Cardinality(T \cup U)
    BY WorkersSize, FS_Subset, Zenon
  <1>2. Cardinality(T \cup U) = Cardinality(T) + Cardinality(U) - Cardinality(T \cap U)
    BY WorkersSize, FS_Union, Zenon
  <1>3. /\ Cardinality(S) \in Nat /\ Cardinality(T) \in Nat /\ Cardinality(U) \in Nat
        /\ Cardinality(T \cap U) \in Nat /\ Cardinality(T \cup U) \in Nat
    BY WorkersSize, Zenon
  <1> QED BY <1>1, <1>2, <1>3

\* A subset is no larger.
LEMMA SizeOfSubset ==
    ASSUME NEW T \in SUBSET Workers, NEW S \in SUBSET T
    PROVE  Cardinality(S) <= Cardinality(T)
  BY WorkersSize, FS_Subset, Zenon

\* One more worker makes a set larger by one at most.
LEMMA SizeWithOne ==
    ASSUME NEW S \in SUBSET Workers, NEW T \in SUBSET Workers, NEW o \in Workers,
           S \subseteq T \cup {o}
    PROVE  Cardinality(S) <= Cardinality(T) + 1
  <1>1. Cardinality({o}) = 1
    BY FS_Singleton, Zenon
  <1> QED BY <1>1, SizeOfUnion, Zenon

\* One worker less makes a set smaller by one.
LEMMA SizeWithoutOne ==
    ASSUME NEW T \in SUBSET Workers, NEW w \in T, NEW S \in SUBSET (T \ {w})
    PROVE  Cardinality(S) + 1 <= Cardinality(T)
  <1>1. Cardinality(T \ {w}) = Cardinality(T) - 1
    BY WorkersSize, FS_RemoveElement, Zenon
  <1>2. Cardinality(S) <= Cardinality(T \ {w})
    BY SizeOfSubset, Zenon
  <1>3. Cardinality(S) \in Nat /\ Cardinality(T) \in Nat
    BY WorkersSize, Zenon
  <1> QED BY <1>1, <1>2, <1>3
-----------------------------------------------------------------------------
(* Types. *)

\* A row rewritten by a statement is a row.
LEMMA RowTyped ==
    ASSUME NEW row \in Row, NEW s \in Statuses, NEW n \in Nat, NEW d \in 0..MaxBackoff
    PROVE  To(row, s, n, d) \in Row /\ To(row, s, n, d).age = 0
  BY JobsAssumption DEF To, Row, JobsAssumption

\* What a worker's last statement does: the row, if it is still in a state the
\* statement accepts, is rewritten, and the worker lets go of the job.
LEMMA FinishEffect ==
    ASSUME Typed, NEW w \in Workers, Finish(w)
    PROVE  /\ held[w].id \in Ids
           /\ UNCHANGED <<overruns, retries>>
           /\ \/ held' = Release(w) /\ UNCHANGED jobs
              \/ \E row \in Row :
                    /\ jobs' = [jobs EXCEPT ![held[w].id] = row]
                    /\ held' = LoseAll(Release(w), held[w].id)
                    /\ row.key = jobs[held[w].id].key /\ row.age = 0
                    /\ \/ /\ jobs[held[w].id].status = "running"
                          /\ row.status \in {"succeeded", "failed"}
                          /\ row.attempts = jobs[held[w].id].attempts
                       \/ /\ Retriable(held[w].id) /\ held[w].attempts < MaxAttempts
                          /\ row.status = "pending"
                          /\ row.attempts = IF jobs[held[w].id].status = "failed" THEN 0
                                            ELSE jobs[held[w].id].attempts
  <1>1. held[w].id \in Ids /\ jobs[held[w].id] \in Row /\ jobs[held[w].id].attempts \in Nat
    <2>1. held[w].id # 0
      BY Zenon DEF Finish, CompleteJob, FailJob, RetryJob
    <2> QED BY <2>1, Zenon DEF Typed, Holding, Row
  <1>0. UNCHANGED <<overruns, retries>>
    BY Zenon DEF Finish, CompleteJob, FailJob, RetryJob, Settle
  <1>2. CASE CompleteJob(w) \/ FailJob(w)
    <2>1. PICK s \in {"succeeded", "failed"} :
             Settle(w, {"running"}, To(Mine(w), s, Mine(w).attempts, 0))
      BY <1>2, Zenon DEF CompleteJob, FailJob
    <2> DEFINE row == To(Mine(w), s, Mine(w).attempts, 0)
    <2>2. row \in Row /\ row.age = 0
      <3>1. s \in Statuses /\ 0 \in 0..MaxBackoff /\ Mine(w) \in Row /\ Mine(w).attempts \in Nat
        BY <1>1, JobsAssumption DEF Mine, Statuses, JobsAssumption
      <3> QED BY <3>1, RowTyped, Zenon
    <2>3. row.key = jobs[held[w].id].key /\ row.status = s /\ row.attempts = jobs[held[w].id].attempts
      BY Zenon DEF To, Mine
    <2> HIDE DEF row
    <2> QED BY <1>0, <1>1, <2>1, <2>2, <2>3, Zenon DEF Settle, row
  <1>3. CASE \E d \in 0..MaxBackoff : RetryJob(w, d)
    <2>1. PICK d \in 0..MaxBackoff : RetryJob(w, d)
      BY <1>3, Zenon
    <2> DEFINE row == Requeued(Mine(w), d)
    <2>2. row \in Row /\ row.age = 0
      BY <1>1, RowTyped, JobsAssumption, Zenon DEF Mine, Statuses, JobsAssumption, Requeued
    <2>3. /\ row.key = jobs[held[w].id].key /\ row.status = "pending"
          /\ row.attempts = IF jobs[held[w].id].status = "failed" THEN 0
                            ELSE jobs[held[w].id].attempts
      BY Zenon DEF To, Mine, Requeued
    <2>4. held[w].attempts < MaxAttempts
      BY <2>1, Zenon DEF RetryJob
    <2>5. CASE Retriable(held[w].id)
      <3>1. jobs[held[w].id].status \in {"running", "failed"}
        BY <2>5, Zenon DEF Retriable
      <3>2. Settle(w, {"running", "failed"}, row)
        BY <2>1, <2>5, Zenon DEF RetryJob
      <3> HIDE DEF row
      <3> QED BY <1>0, <1>1, <2>2, <2>3, <2>4, <2>5, <3>1, <3>2, Zenon DEF Settle
    <2>6. CASE ~Retriable(held[w].id)
      <3>1. Settle(w, {}, row)
        BY <2>1, <2>6, Zenon DEF RetryJob
      <3> QED BY <1>0, <1>1, <3>1, Zenon DEF Settle
    <2> QED BY <2>5, <2>6, Zenon
  <1> QED BY <1>2, <1>3, Zenon DEF Finish

\* A worker's copy that is lost, or that was let go of, is typed.
LEMMA HeldTyped ==
    ASSUME Typed, NEW w \in Workers, NEW id
    PROVE  Release(w) \in [Workers -> Holding] /\ LoseAll(Release(w), id) \in [Workers -> Holding]
           /\ LoseAll(held, id) \in [Workers -> Holding]
  BY Zenon DEF Typed, Release, LoseAll, Free, Holding

\* Every step keeps the types.
LEMMA TypedStep ==
    ASSUME Typed, [Next]_vars
    PROVE  Typed'
  <1>1. ASSUME NEW q \in Queues, CountPending(q) PROVE Typed'
    BY <1>1, Zenon DEF CountPending, Typed
  <1>2. ASSUME NEW q \in Queues, NEW k \in Keys \cup {NoKey}, EnqueueJob(q, k) PROVE Typed'
    <2>1. NewRow(k) \in Row
      BY JobsAssumption DEF JobsAssumption, NewRow, Row, Statuses
    <2> QED BY <1>2, <2>1, Zenon DEF EnqueueJob, Typed
  <1>3. ASSUME NEW w \in Workers, ClaimJob(w) PROVE Typed'
    <2>1. PICK id \in Ids :
            LET n == jobs[id].attempts + 1 IN
                /\ jobs' = [jobs EXCEPT ![id] = To(jobs[id], "running", n, 0)]
                /\ held' = [held EXCEPT ![w] = [id |-> id, attempts |-> n, lost |-> FALSE]]
      BY <1>3, Zenon DEF ClaimJob
    <2>2. jobs[id] \in Row /\ jobs[id].attempts + 1 \in Nat /\ 0 \in 0..MaxBackoff /\ "running" \in Statuses
      BY JobsAssumption DEF Typed, Row, Statuses, JobsAssumption
    <2>3. To(jobs[id], "running", jobs[id].attempts + 1, 0) \in Row
      BY <2>2, RowTyped, Zenon
    <2>4. [id |-> id, attempts |-> jobs[id].attempts + 1, lost |-> FALSE] \in Holding
      BY <2>2, Zenon DEF Holding
    <2> QED BY <1>3, <2>1, <2>3, <2>4, Zenon DEF Typed, ClaimJob
  <1>4. ASSUME NEW w \in Workers, Finish(w) PROVE Typed'
    <2>1. Release(w) \in [Workers -> Holding] /\ LoseAll(Release(w), held[w].id) \in [Workers -> Holding]
      BY HeldTyped, Zenon
    <2> QED BY <1>4, <2>1, FinishEffect, Zenon DEF Typed
  <1>5. ASSUME NEW w \in Workers, Crash(w) PROVE Typed'
    BY <1>5, HeldTyped, Zenon DEF Typed, Crash
  <1>6. CASE ReapStuckJobs
    <2>1. ASSUME NEW id \in Ids PROVE Reaped(jobs[id]) \in Row
      <3>1. /\ jobs[id] \in Row /\ jobs[id].attempts \in Nat /\ 0 \in 0..MaxBackoff
            /\ {"failed", "pending"} \subseteq Statuses
        BY JobsAssumption DEF Typed, Row, Statuses, JobsAssumption
      <3> QED BY <3>1, RowTyped, Zenon DEF Reaped
    <2>2. jobs' \in [Ids -> Row]
      BY <1>6, <2>1, Zenon DEF ReapStuckJobs, Typed
    <2>3. held' \in [Workers -> Holding]
      BY <1>6, Zenon DEF ReapStuckJobs, Typed, Holding
    <2> QED BY <1>6, <2>2, <2>3, Zenon DEF ReapStuckJobs, Typed
  <1>7. ASSUME NEW id \in Ids, AdminRetryJob(id) PROVE Typed'
    <2>1. /\ jobs[id] \in Row /\ jobs[id].attempts \in Nat /\ 0 \in Nat /\ 0 \in 0..MaxBackoff
          /\ "pending" \in Statuses
      BY JobsAssumption DEF Typed, Row, Statuses, JobsAssumption
    <2>2. Requeued(jobs[id], 0) \in Row
      BY <2>1, RowTyped, Zenon DEF Requeued
    <2>3. LoseAll(held, id) \in [Workers -> Holding]
      BY Zenon DEF Typed, LoseAll, Holding
    <2> QED BY <1>7, <2>2, <2>3 DEF AdminRetryJob, Typed
  <1>8. CASE Tick
    <2>1. ASSUME NEW id \in Ids PROVE Older(jobs[id]) \in Row
      BY JobsAssumption DEF Typed, Row, Older, JobsAssumption
    <2>2. Cardinality(Overrunning) \in Nat
      BY WorkersSize, Zenon DEF Overrunning
    <2> QED BY <1>8, <2>1, <2>2 DEF Tick, Typed
  <1>9. CASE UNCHANGED vars
    BY <1>9, Zenon DEF vars, Typed
  <1> QED BY <1>1, <1>2, <1>3, <1>4, <1>5, <1>6, <1>7, <1>8, <1>9, Zenon DEF Next
-----------------------------------------------------------------------------
(* DedupeLive. *)

\* A step after which the live rows were live before, under the same keys.
LEMMA DedupeKept ==
    ASSUME DedupeLive, \A id \in Ids : Live(id)' => Live(id) /\ jobs'[id].key = jobs[id].key
    PROVE  DedupeLive'
  BY Zenon DEF DedupeLive

\* A statement the partial unique index accepts.
LEMMA DedupeAdded ==
    ASSUME Typed, DedupeLive, NEW id \in Ids, NEW row \in Row,
           DedupeFree(row.key), jobs' = [jobs EXCEPT ![id] = row]
    PROVE  DedupeLive'
  BY Zenon DEF Typed, DedupeLive, DedupeFree, Live

\* Requeueing a running or a failed job.
LEMMA DedupeRequeued ==
    ASSUME Typed, DedupeLive, NEW id \in Ids, NEW row \in Row, Retriable(id),
           row.key = jobs[id].key, jobs' = [jobs EXCEPT ![id] = row]
    PROVE  DedupeLive'
  <1>1. CASE jobs[id].status = "running"
    <2>1. \A i \in Ids : Live(i)' => Live(i) /\ jobs'[i].key = jobs[i].key
      BY <1>1, Zenon DEF Live, Typed
    <2> QED BY <2>1, DedupeKept, Zenon
  <1>2. CASE DedupeFree(jobs[id].key)
    BY <1>2, DedupeAdded, Zenon
  <1> QED BY <1>1, <1>2, Zenon DEF Retriable

\* Every step keeps DedupeLive.
LEMMA DedupeStep ==
    ASSUME Typed, DedupeLive, [Next]_vars
    PROVE  DedupeLive'
  <1>1. CASE UNCHANGED jobs
    BY <1>1, DedupeKept, Zenon DEF Live
  <1>2. ASSUME NEW q \in Queues, NEW k \in Keys \cup {NoKey}, EnqueueJob(q, k) PROVE DedupeLive'
    <2>1. NewRow(k) \in Row /\ NewRow(k).key = k
      BY JobsAssumption DEF JobsAssumption, NewRow, Row, Statuses
    <2> QED BY <1>1, <1>2, <2>1, DedupeAdded, Zenon DEF EnqueueJob
  <1>3. ASSUME NEW w \in Workers, ClaimJob(w) PROVE DedupeLive'
    <2>1. \A i \in Ids : Live(i)' => Live(i) /\ jobs'[i].key = jobs[i].key
      BY <1>3 DEF ClaimJob, Runnable, To, Live, Typed
    <2> QED BY <2>1, DedupeKept, Zenon
  <1>4. ASSUME NEW w \in Workers, Finish(w) PROVE DedupeLive'
    <2>1. CASE \E row \in Row :
                 /\ jobs' = [jobs EXCEPT ![held[w].id] = row]
                 /\ row.status \in {"succeeded", "failed"}
      <3>1. \A i \in Ids : Live(i)' => Live(i) /\ jobs'[i].key = jobs[i].key
        BY <2>1, Zenon DEF Live, Typed
      <3> QED BY <3>1, DedupeKept, Zenon
    <2> QED BY <1>1, <1>4, <2>1, FinishEffect, DedupeRequeued, Zenon
  <1>5. CASE ReapStuckJobs
    <2>1. \A i \in Ids : Live(i)' => Live(i) /\ jobs'[i].key = jobs[i].key
      BY <1>5, Zenon DEF ReapStuckJobs, Reaped, Stuck, To, Live, Typed
    <2> QED BY <2>1, DedupeKept, Zenon
  <1>6. ASSUME NEW id \in Ids, AdminRetryJob(id) PROVE DedupeLive'
    <2>1. jobs[id] \in Row /\ jobs[id].attempts \in Nat /\ 0 \in Nat /\ 0 \in 0..MaxBackoff
          /\ "pending" \in Statuses
      BY JobsAssumption DEF Typed, Row, Statuses, JobsAssumption
    <2>2. Requeued(jobs[id], 0) \in Row /\ Requeued(jobs[id], 0).key = jobs[id].key
      BY <2>1, RowTyped, Zenon DEF Requeued, To
    <2> QED BY <1>6, <2>2, DedupeRequeued, Zenon DEF AdminRetryJob
  <1>7. CASE Tick
    <2>1. \A i \in Ids : Live(i)' => Live(i) /\ jobs'[i].key = jobs[i].key
      BY <1>7, Zenon DEF Tick, Older, Live, Typed
    <2> QED BY <2>1, DedupeKept, Zenon
  <1> QED BY <1>1, <1>2, <1>3, <1>4, <1>5, <1>6, <1>7, Zenon DEF Next, CountPending, Crash, vars
-----------------------------------------------------------------------------
(* OwnerExclusive. *)

\* Taking job id out of 'running' marks every other execution of it lost, so
\* whoever is left an owner executes another job, whose row has not changed.
LEMMA OwnersOfOthers ==
    ASSUME Typed, OwnerExclusive, NEW id \in Ids, NEW row \in Row, NEW h,
           h = held \/ \E w \in Workers : h = Release(w),
           jobs' = [jobs EXCEPT ![id] = row], held' = LoseAll(h, id)
    PROVE  OwnerExclusive'
  <1>1. \A v \in Workers : h[v] = held[v] \/ h[v] = Free
    BY Zenon DEF Typed, Release
  <1>2. \A v \in Workers : held'[v].id = h[v].id /\ (~held'[v].lost => held'[v] = h[v] /\ h[v].id # id)
    BY Zenon DEF LoseAll
  <1>3. \A v \in Workers : h[v].id # id => held'[v] = h[v]
    BY Zenon DEF LoseAll
  <1> SUFFICES ASSUME NEW w \in Workers, held'[w].id # 0, ~held'[w].lost
               PROVE  /\ jobs'[held'[w].id].status = "running"
                      /\ jobs'[held'[w].id].attempts = held'[w].attempts
                      /\ \A v \in Workers \ {w} : held'[v].id = held'[w].id => held'[v].lost
    BY Zenon DEF OwnerExclusive
  <1>4. held'[w] = held[w] /\ held[w].id # id
    BY <1>1, <1>2 DEF Free
  <1>5. held[w].id \in Ids
    BY <1>4, Zenon DEF Typed, Holding
  <1>6. jobs'[held'[w].id] = jobs[held[w].id]
    BY <1>4, <1>5, Zenon DEF Typed
  <1>7. ASSUME NEW v \in Workers \ {w}, held'[v].id = held'[w].id PROVE held'[v].lost
    <2>1. held'[v] = held[v]
      BY <1>1, <1>2, <1>3, <1>4, <1>7 DEF Free
    <2> QED BY <1>4, <1>7, <2>1, Zenon DEF OwnerExclusive
  <1> QED BY <1>4, <1>5, <1>6, <1>7, Zenon DEF OwnerExclusive

\* A worker that only lets go of its job leaves the other owners as they are.
LEMMA OwnersReleased ==
    ASSUME Typed, OwnerExclusive, NEW w \in Workers, held' = Release(w), UNCHANGED jobs
    PROVE  OwnerExclusive'
  BY Zenon DEF Typed, OwnerExclusive, Release, Free, Holding

\* Every step keeps OwnerExclusive.
LEMMA OwnerStep ==
    ASSUME Typed, OwnerExclusive, [Next]_vars
    PROVE  OwnerExclusive'
  <1>1. CASE UNCHANGED <<jobs, held>>
    BY <1>1, Zenon DEF OwnerExclusive
  <1>2. ASSUME NEW q \in Queues, NEW k \in Keys \cup {NoKey}, EnqueueJob(q, k) PROVE OwnerExclusive'
    <2>1. CASE UNCHANGED jobs
      BY <1>1, <1>2, <2>1, Zenon DEF EnqueueJob
    <2>2. CASE \E id \in Ids : jobs[id].status = "absent" /\ jobs' = [jobs EXCEPT ![id] = NewRow(k)]
      BY <1>2, <2>2, Zenon DEF EnqueueJob, OwnerExclusive, Typed, Holding
    <2> QED BY <1>2, <2>1, <2>2, Zenon DEF EnqueueJob
  <1>3. ASSUME NEW w \in Workers, ClaimJob(w) PROVE OwnerExclusive'
    <2>1. PICK id \in Ids :
            /\ jobs[id].status = "pending"
            /\ LET n == jobs[id].attempts + 1 IN
                /\ jobs' = [jobs EXCEPT ![id] = To(jobs[id], "running", n, 0)]
                /\ held' = [held EXCEPT ![w] = [id |-> id, attempts |-> n, lost |-> FALSE]]
      BY <1>3, Zenon DEF ClaimJob, Runnable
    <2>2. \A v \in Workers : held[v].id = id => held[v].lost
      BY <2>1, 0 \notin Ids, Zenon DEF OwnerExclusive, Ids
    <2>3. jobs'[id].status = "running" /\ jobs'[id].attempts = jobs[id].attempts + 1
      BY <2>1, Zenon DEF Typed, To
    <2> QED BY <2>1, <2>2, <2>3, Zenon DEF OwnerExclusive, Typed, Holding
  <1>4. ASSUME NEW w \in Workers, Finish(w) PROVE OwnerExclusive'
    BY <1>4, FinishEffect, OwnersReleased, OwnersOfOthers
  <1>5. ASSUME NEW w \in Workers, Crash(w) PROVE OwnerExclusive'
    BY <1>5, OwnersReleased, Zenon DEF Crash
  <1>6. CASE ReapStuckJobs
    <2>1. \A v \in Workers : /\ held'[v].id = held[v].id /\ (held[v].lost => held'[v].lost)
                             /\ held'[v].attempts = held[v].attempts
                             /\ held[v].id # 0 /\ ~held'[v].lost => ~Stuck(held[v].id)
      BY <1>6, Zenon DEF ReapStuckJobs
    <2>2. \A id \in Ids : ~Stuck(id) => jobs'[id] = jobs[id]
      BY <1>6, Zenon DEF ReapStuckJobs
    <2> QED BY <2>1, <2>2 DEF OwnerExclusive, Typed, Holding
  <1>7. ASSUME NEW id \in Ids, AdminRetryJob(id) PROVE OwnerExclusive'
    <2>1. jobs[id] \in Row /\ jobs[id].attempts \in Nat /\ 0 \in Nat /\ 0 \in 0..MaxBackoff
          /\ "pending" \in Statuses
      BY JobsAssumption DEF Typed, Row, Statuses, JobsAssumption
    <2>2. Requeued(jobs[id], 0) \in Row
      BY <2>1, RowTyped, Zenon DEF Requeued
    <2> QED BY <1>7, <2>2, OwnersOfOthers, Zenon DEF AdminRetryJob
  <1>8. CASE Tick
    <2>1. \A id \in Ids : jobs'[id].status = jobs[id].status /\ jobs'[id].attempts = jobs[id].attempts
      BY <1>8, Zenon DEF Tick, Older
    <2> QED BY <1>8, <2>1 DEF Tick, OwnerExclusive, Typed, Holding
  <1> QED BY <1>1, <1>2, <1>3, <1>4, <1>5, <1>6, <1>7, <1>8, Zenon DEF Next, CountPending, vars
-----------------------------------------------------------------------------
(* Budget. *)

\* Doomed is a set of workers, so it can be counted.
LEMMA DoomedSize ==
    ASSUME NEW id
    PROVE  /\ Doomed(id) \in SUBSET Workers /\ Cardinality(Doomed(id)) \in Nat
           /\ Doomed(id)' \in SUBSET Workers /\ Cardinality(Doomed(id)') \in Nat
  <1>1. Doomed(id) \in SUBSET Workers /\ Doomed(id)' \in SUBSET Workers
    BY Zenon DEF Doomed
  <1> QED BY <1>1, WorkersSize, Zenon

\* A job whose row stays and which gains no doomed execution stays within its budget.
LEMMA WithinKept ==
    ASSUME NEW row \in Row, NEW d \in Nat, NEW e \in Nat, NEW s \in Nat, NEW t \in Nat,
           Within(row, d, s), e + s <= d + t, s <= t
    PROVE  Within(row, e, t)
  BY JobsAssumption DEF Within, Overdrawn, Row, JobsAssumption

\* A worker that has lost job id and requeues it is one of the doomed.
LEMMA LostIsDoomed ==
    ASSUME NEW w \in Workers, held[w].lost, held[w].attempts < MaxAttempts
    PROVE  w \in Doomed(held[w].id)
  BY Zenon DEF Doomed

\* When job id is taken out of 'running' by the owner of h = Release(w), or by
\* an administrator, its doomed executions are the old ones and the owner's.
LEMMA DoomedByTaking ==
    ASSUME Typed, OwnerExclusive, NEW id \in Ids, NEW row \in Row, row.age = 0, NEW h,
           \/ h = held
           \/ \E w \in Workers : h = Release(w),
           jobs' = [jobs EXCEPT ![id] = row], held' = LoseAll(h, id)
    PROVE  /\ \A v \in Doomed(id)' : v \in Doomed(id) \/ (held[v].id = id /\ ~held[v].lost)
           /\ \A v \in Doomed(id)' : h[v] = held[v] /\ held[v].attempts < MaxAttempts
           /\ \A j \in Ids \ {id} : Doomed(j)' \subseteq Doomed(j) /\ jobs'[j] = jobs[j]
  <1>1. \A v \in Workers : h[v] = held[v] \/ h[v] = Free
    BY Zenon DEF Typed, Release
  <1>2. \A v \in Workers : held'[v].id = h[v].id /\ held'[v].attempts = h[v].attempts
    BY Zenon DEF LoseAll
  <1>3. \A v \in Workers : h[v].id # id => held'[v] = h[v]
    BY Zenon DEF LoseAll
  <1>4. ASSUME NEW v \in Doomed(id)'
        PROVE  /\ h[v] = held[v] /\ held[v].attempts < MaxAttempts
               /\ v \in Doomed(id) \/ (held[v].id = id /\ ~held[v].lost)
    <2>1. v \in Workers /\ h[v].id = id /\ h[v].attempts < MaxAttempts
      BY <1>2, Zenon DEF Doomed
    <2>2. h[v] = held[v]
      BY <1>1, <2>1 DEF Free, Ids
    <2> QED BY <2>1, <2>2, Zenon DEF Doomed
  <1>5. ASSUME NEW j \in Ids \ {id} PROVE Doomed(j)' \subseteq Doomed(j) /\ jobs'[j] = jobs[j]
    <2>1. jobs'[j] = jobs[j]
      BY Zenon DEF Typed
    <2>2. ASSUME NEW v \in Doomed(j)' PROVE v \in Doomed(j)
      <3>1. v \in Workers /\ held'[v].id = j /\ h[v].id = j
        BY <1>2, Zenon DEF Doomed
      <3>2. held'[v] = held[v]
        BY <1>1, <1>3, <3>1 DEF Free, Ids
      <3> QED BY <2>1, <3>1, <3>2, Zenon DEF Doomed
    <2> QED BY <2>1, <2>2, Zenon
  <1> QED BY <1>4, <1>5, Zenon

\* How many executions of job id are doomed after it was taken: there is at most
\* one owner to add, none when the row was not running or was out of budget, and
\* the worker that took it is no longer one of them.
LEMMA DoomedCount ==
    ASSUME Typed, OwnerExclusive, NEW id \in Ids, NEW row \in Row, row.age = 0, NEW h,
           \/ h = held
           \/ \E w \in Workers : h = Release(w),
           jobs' = [jobs EXCEPT ![id] = row], held' = LoseAll(h, id)
    PROVE  /\ Cardinality(Doomed(id)') <= Cardinality(Doomed(id)) + 1
           /\ jobs[id].status # "running" \/ jobs[id].attempts >= MaxAttempts
              => Cardinality(Doomed(id)') <= Cardinality(Doomed(id))
           /\ \A w \in Workers : h = Release(w) /\ held[w].id = id /\ ~held[w].lost
              => Cardinality(Doomed(id)') <= Cardinality(Doomed(id))
           /\ \A w \in Doomed(id) : h = Release(w)
              => /\ Cardinality(Doomed(id)') <= Cardinality(Doomed(id))
                 /\ jobs[id].status # "running" \/ jobs[id].attempts >= MaxAttempts
                    => Cardinality(Doomed(id)') + 1 <= Cardinality(Doomed(id))
  <1> DEFINE D == Doomed(id)
             E == Doomed(id)'
  <1>0. D \in SUBSET Workers /\ E \in SUBSET Workers /\ Cardinality(D) \in Nat /\ Cardinality(E) \in Nat
    BY DoomedSize, Zenon
  <1>1. \A v \in E : v \in D \/ (held[v].id = id /\ ~held[v].lost)
    BY DoomedByTaking, Zenon
  <1>2. \A v \in E : h[v] = held[v] /\ held[v].attempts < MaxAttempts
    BY DoomedByTaking, Zenon
  <1>3. \A w \in Workers : h = Release(w) /\ held[w].id = id => w \notin E
    BY <1>2, 0 \notin Ids DEF Release, Free, Typed, Ids
  <1> HIDE DEF D, E
  <1>4. PICK o \in Workers \cup {id} : E \subseteq D \cup {o}
    <2>1. CASE \E o \in Workers : held[o].id = id /\ ~held[o].lost
      <3>1. PICK o \in Workers : held[o].id = id /\ ~held[o].lost
        BY <2>1, Zenon
      <3>2. E \subseteq D \cup {o}
        BY <1>0, <1>1, <3>1 DEF OwnerExclusive, Ids
      <3> QED BY <3>2, Zenon
    <2>2. CASE ~\E o \in Workers : held[o].id = id /\ ~held[o].lost
      BY <1>0, <1>1, <2>2, Zenon
    <2> QED BY <2>1, <2>2, Zenon
  <1>5. Cardinality(E) <= Cardinality(D) + 1
    <2>1. CASE E \subseteq D
      BY <1>0, <2>1, SizeOfSubset
    <2>2. CASE ~(E \subseteq D)
      <3>1. o \in Workers
        BY <1>0, <1>4, <2>2, Zenon
      <3> QED BY <1>0, <1>4, <3>1, SizeWithOne, Zenon
    <2> QED BY <2>1, <2>2, Zenon
  <1>6. jobs[id].status # "running" \/ jobs[id].attempts >= MaxAttempts => E \subseteq D
    <2> SUFFICES ASSUME jobs[id].status # "running" \/ jobs[id].attempts >= MaxAttempts,
                        NEW v \in E, v \notin D
                 PROVE  FALSE
      BY Zenon
    <2>1. held[v].id = id /\ ~held[v].lost /\ v \in Workers /\ held[v].attempts < MaxAttempts
      BY <1>0, <1>1, <1>2, Zenon
    <2>2. jobs[id].status = "running" /\ jobs[id].attempts = held[v].attempts
      BY <2>1 DEF OwnerExclusive, Ids
    <2>3. jobs[id].attempts \in Nat /\ MaxAttempts \in Nat
      BY JobsAssumption, Zenon DEF Typed, Row, JobsAssumption
    <2> QED BY <2>1, <2>2, <2>3
  <1>7. ASSUME NEW w \in Workers, h = Release(w), held[w].id = id, ~held[w].lost
        PROVE  Cardinality(E) <= Cardinality(D)
    <2>1. E \subseteq D
      BY <1>0, <1>1, <1>3, <1>7 DEF OwnerExclusive, Ids
    <2> QED BY <1>0, <2>1, SizeOfSubset, Zenon
  <1>8. ASSUME NEW w \in D, h = Release(w)
        PROVE  /\ Cardinality(E) <= Cardinality(D)
               /\ E \subseteq D => Cardinality(E) + 1 <= Cardinality(D)
    <2>1. w \notin E /\ w \in Workers
      BY <1>0, <1>3, <1>8, Zenon DEF D, Doomed
    <2>2. E \subseteq D => Cardinality(E) + 1 <= Cardinality(D)
      BY <1>0, <2>1, SizeWithoutOne, Zenon
    <2>3. CASE ~(E \subseteq D)
      <3>1. o \in Workers
        BY <1>0, <1>4, <2>3, Zenon
      <3>2. E \subseteq (D \ {w}) \cup {o} /\ D \ {w} \in SUBSET Workers
        BY <1>0, <1>4, <2>1, Zenon
      <3>3. Cardinality(E) <= Cardinality(D \ {w}) + 1
        BY <1>0, <3>1, <3>2, SizeWithOne, Zenon
      <3>4. Cardinality(D \ {w}) + 1 <= Cardinality(D)
        BY <1>0, SizeWithoutOne, Zenon
      <3>5. Cardinality(D \ {w}) \in Nat
        BY <3>2, WorkersSize, Zenon
      <3> QED BY <1>0, <2>3, <3>3, <3>4, <3>5
    <2> QED BY <1>0, <2>2, <2>3
  <1>9. E \subseteq D => Cardinality(E) <= Cardinality(D)
    BY <1>0, SizeOfSubset, Zenon
  <1> QED BY <1>5, <1>6, <1>7, <1>8, <1>9, Zenon DEF D, E

\* What there is to spend is a number.
LEMMA SlackTyped ==
    /\ Typed => Slack \in Nat /\ jobs \in [Ids -> Row]
    /\ Typed' => Slack' \in Nat
  <1>1. Typed => Slack \in Nat /\ jobs \in [Ids -> Row]
    BY DEF Typed, Slack
  <1>2. Typed' => Slack' \in Nat
    <2>1. \A a, b \in Nat : a + b \in Nat
      OBVIOUS
    <2>2. Typed' => retries' \in Nat /\ overruns' \in Nat
      BY Zenon DEF Typed
    <2> QED BY <2>1, <2>2, Zenon DEF Slack
  <1> QED BY <1>1, <1>2, Zenon

\* A job whose row is the same, and which gains no doomed execution, stays
\* within its budget.
LEMMA WithinUntouched ==
    ASSUME Typed, Typed', Budget, Slack <= Slack', NEW j \in Ids,
           jobs'[j] = jobs[j], Doomed(j)' \subseteq Doomed(j)
    PROVE  Within(jobs[j], Cardinality(Doomed(j)), Slack)'
  <1>1. Slack \in Nat /\ Slack' \in Nat /\ jobs[j] \in Row
    BY SlackTyped, Zenon
  <1>2. Cardinality(Doomed(j)') <= Cardinality(Doomed(j))
    BY DoomedSize, SizeOfSubset, Zenon
  <1>3. Within(jobs[j], Cardinality(Doomed(j)), Slack)
    BY Zenon DEF Budget
  <1>4. Within(jobs[j], Cardinality(Doomed(j)'), Slack')
    BY <1>1, <1>2, <1>3, DoomedSize, WithinKept
  <1>5. Within(jobs[j], Cardinality(Doomed(j)), Slack)' <=> Within(jobs'[j], Cardinality(Doomed(j)'), Slack')
    BY Zenon DEF Within, Overdrawn
  <1> QED BY <1>4, <1>5, Zenon

\* A worker's last statement keeps Budget.
LEMMA BudgetFinish ==
    ASSUME Typed, Typed', OwnerExclusive, Budget, NEW w \in Workers, Finish(w)
    PROVE  Budget'
  <1>a. PICK id \in Ids : id = held[w].id
    BY FinishEffect, Zenon
  <1> DEFINE D == Cardinality(Doomed(id))
             E == Cardinality(Doomed(id)')
  <1>b. Slack' = Slack
    BY FinishEffect, Zenon DEF Slack
  <1>c. Slack \in Nat
    BY DEF Typed, Slack
  <1>0. id \in Ids /\ id = held[w].id /\ Slack' = Slack /\ Slack \in Nat /\ MaxAttempts \in Nat \ {0}
    BY <1>a, <1>b, <1>c, JobsAssumption, Zenon DEF JobsAssumption
  <1>1. CASE held' = Release(w) /\ UNCHANGED jobs
    <2>1. ASSUME NEW j \in Ids PROVE Doomed(j)' \subseteq Doomed(j)
      BY <1>1 DEF Doomed, Release, Free, Typed, Ids
    <2> QED BY <1>0, <1>1, <2>1, WithinUntouched DEF Budget
  <1>2. ASSUME NEW row \in Row,
               jobs' = [jobs EXCEPT ![id] = row], held' = LoseAll(Release(w), id), row.age = 0,
               \/ /\ jobs[id].status = "running"
                  /\ row.status \in {"succeeded", "failed"}
                  /\ row.attempts = jobs[id].attempts
               \/ /\ Retriable(id) /\ held[w].attempts < MaxAttempts
                  /\ row.status = "pending"
                  /\ row.attempts = IF jobs[id].status = "failed" THEN 0 ELSE jobs[id].attempts
        PROVE  Budget'
    <2>1. ASSUME NEW j \in Ids \ {id} PROVE Within(jobs[j], Cardinality(Doomed(j)), Slack)'
      <3>1. Doomed(j)' \subseteq Doomed(j) /\ jobs'[j] = jobs[j]
        BY <1>0, <1>2, DoomedByTaking, Zenon
      <3> QED BY <1>0, <3>1, WithinUntouched
    <2>2. /\ E <= D + 1
          /\ jobs[id].status # "running" \/ jobs[id].attempts >= MaxAttempts => E <= D
          /\ ~held[w].lost => E <= D
          /\ w \in Doomed(id)
             => /\ E <= D
                /\ jobs[id].status # "running" \/ jobs[id].attempts >= MaxAttempts => E + 1 <= D
      BY <1>0, <1>2, DoomedCount, Zenon
    <2>3. D \in Nat /\ E \in Nat /\ jobs[id].attempts \in Nat /\ row.attempts \in Nat /\ jobs'[id] = row
      BY <1>0, <1>2, DoomedSize, Zenon DEF Typed, Row
    <2>4. Within(jobs[id], D, Slack)
      BY <1>0, Zenon DEF Budget
    <2>5. held[w].attempts < MaxAttempts /\ held[w].lost => w \in Doomed(id)
      BY <1>0, LostIsDoomed, Zenon
    <2>6. ~held[w].lost => jobs[id].status = "running" /\ jobs[id].attempts = held[w].attempts
      BY <1>0 DEF OwnerExclusive, Ids
    <2> HIDE DEF D, E
    <2>7. Within(row, E, Slack)
      <3>1. CASE /\ jobs[id].status = "running" /\ row.status \in {"succeeded", "failed"}
                 /\ row.attempts = jobs[id].attempts
        BY <1>0, <2>2, <2>3, <2>4, <3>1, SMTT(20) DEF Within, Overdrawn
      <3>2. CASE /\ Retriable(id) /\ held[w].attempts < MaxAttempts
                 /\ row.status = "pending"
                 /\ row.attempts = IF jobs[id].status = "failed" THEN 0 ELSE jobs[id].attempts
        <4>1. jobs[id].status \in {"running", "failed"}
          BY <3>2, Zenon DEF Retriable
        <4>2. CASE jobs[id].status = "failed"
          <5>1. w \in Doomed(id)
            BY <2>5, <2>6, <3>2, <4>2, Zenon
          <5>2. E + 1 <= D /\ row.attempts = 0
            BY <2>2, <3>2, <4>2, <5>1, Zenon
          <5>3. D <= Slack + 1
            BY <2>4, <4>2, Zenon DEF Within
          <5> QED BY <1>0, <2>3, <3>2, <5>2, <5>3 DEF Within, Overdrawn
        <4>3. CASE jobs[id].status = "running" /\ jobs[id].attempts < MaxAttempts
          <5>1. E <= D
            BY <2>2, <2>5, <3>2, Zenon
          <5>2. D <= Slack /\ row.attempts < MaxAttempts
            BY <1>0, <2>3, <2>4, <3>2, <4>3 DEF Within, Overdrawn
          <5> QED BY <1>0, <2>3, <3>2, <5>1, <5>2 DEF Within, Overdrawn
        <4>4. CASE jobs[id].status = "running" /\ ~(jobs[id].attempts < MaxAttempts)
          <5>1. w \in Doomed(id)
            BY <2>5, <2>6, <3>2, <4>4, Zenon
          <5>2. E + 1 <= D /\ row.attempts = jobs[id].attempts
            BY <1>0, <2>2, <2>3, <3>2, <4>4, <5>1
          <5>3. D + jobs[id].attempts - MaxAttempts <= Slack
            BY <1>0, <2>3, <2>4, <4>4, Zenon DEF Within, Overdrawn
          <5> QED BY <1>0, <2>3, <3>2, <4>4, <5>2, <5>3 DEF Within, Overdrawn
        <4> QED BY <4>1, <4>2, <4>3, <4>4, Zenon
      <3> QED BY <1>2, <3>1, <3>2, Zenon
    <2>8. Within(jobs[id], Cardinality(Doomed(id)), Slack)'
      BY <1>0, <2>3, <2>7, Zenon DEF Within, Overdrawn, E
    <2> QED BY <2>1, <2>8, Zenon DEF Budget
  <1> QED BY <1>0, <1>1, <1>2, FinishEffect, Zenon

\* An administrator's retry keeps Budget: it pays for what it takes away.
LEMMA BudgetAdminRetry ==
    ASSUME Typed, Typed', OwnerExclusive, Budget, NEW id \in Ids, AdminRetryJob(id)
    PROVE  Budget'
  <1> DEFINE row == Requeued(jobs[id], 0)
             D == Cardinality(Doomed(id))
             E == Cardinality(Doomed(id)')
  <1>1. retries \in Nat /\ overruns \in Nat /\ MaxAttempts \in Nat \ {0}
    BY JobsAssumption, Zenon DEF Typed, JobsAssumption
  <1>2. Slack \in Nat /\ Slack' = Slack + 1
    BY <1>1 DEF AdminRetryJob, Slack
  <1>3. row \in Row /\ row.age = 0
    <2>1. jobs[id] \in Row /\ jobs[id].attempts \in Nat /\ 0 \in Nat /\ 0 \in 0..MaxBackoff
          /\ "pending" \in Statuses
      BY JobsAssumption DEF Typed, Row, Statuses, JobsAssumption
    <2> QED BY <2>1, RowTyped, Zenon DEF Requeued
  <1>4. /\ row.status = "pending"
        /\ row.attempts = IF jobs[id].status = "failed" THEN 0 ELSE jobs[id].attempts
    BY Zenon DEF Requeued, To
  <1>5. jobs' = [jobs EXCEPT ![id] = row] /\ held' = LoseAll(held, id)
    BY Zenon DEF AdminRetryJob
  <1>6. jobs[id].status \in {"running", "failed"}
    BY Zenon DEF AdminRetryJob, Retriable
  <1> HIDE DEF row
  <1>7. ASSUME NEW j \in Ids \ {id} PROVE Within(jobs[j], Cardinality(Doomed(j)), Slack)'
    <2>1. Doomed(j)' \subseteq Doomed(j) /\ jobs'[j] = jobs[j]
      BY <1>3, <1>5, DoomedByTaking, Zenon
    <2> QED BY <1>2, <2>1, WithinUntouched
  <1>8. E <= D + 1 /\ (jobs[id].status # "running" \/ jobs[id].attempts >= MaxAttempts => E <= D)
    BY <1>3, <1>5, DoomedCount, Zenon
  <1>9. D \in Nat /\ E \in Nat /\ jobs[id].attempts \in Nat /\ jobs'[id] = row
    BY <1>5, DoomedSize, Zenon DEF Typed, Row
  <1>10. Within(jobs[id], D, Slack)
    BY Zenon DEF Budget
  <1> HIDE DEF D, E
  <1>11. Within(row, E, Slack + 1)
    <2>1. CASE jobs[id].status = "failed"
      BY <1>1, <1>2, <1>4, <1>8, <1>9, <1>10, <2>1 DEF Within, Overdrawn
    <2>2. CASE jobs[id].status = "running"
      BY <1>1, <1>2, <1>4, <1>8, <1>9, <1>10, <2>2 DEF Within, Overdrawn
    <2> QED BY <1>6, <2>1, <2>2, Zenon
  <1>12. Within(jobs[id], Cardinality(Doomed(id)), Slack)'
    BY <1>2, <1>9, <1>11, Zenon DEF Within, Overdrawn, E
  <1> QED BY <1>7, <1>12, Zenon DEF Budget

\* The reaper keeps Budget: it takes jobs only from executions already doomed,
\* and what it requeues has an attempt left.
LEMMA BudgetReap ==
    ASSUME Typed, Typed', Budget, ReapStuckJobs
    PROVE  Budget'
  <1>1. Slack' = Slack /\ Slack \in Nat /\ MaxAttempts \in Nat \ {0} /\ ReapAfter # 0
    <2>1. Slack' = Slack
      BY Zenon DEF ReapStuckJobs, Slack
    <2>2. Slack \in Nat
      BY DEF Typed, Slack
    <2> QED BY <2>1, <2>2, JobsAssumption, Zenon DEF JobsAssumption
  <1> SUFFICES ASSUME NEW id \in Ids PROVE Within(jobs[id], Cardinality(Doomed(id)), Slack)'
    BY Zenon DEF Budget
  <1>2. \A v \in Workers : /\ held'[v].id = held[v].id /\ held'[v].attempts = held[v].attempts
                           /\ held'[v].lost => held[v].lost \/ Stuck(held[v].id)
    BY Zenon DEF ReapStuckJobs
  <1>3. jobs'[id] = IF Stuck(id) THEN Reaped(jobs[id]) ELSE jobs[id]
    BY Zenon DEF ReapStuckJobs
  <1>4. jobs'[id].age = ReapAfter => jobs[id].age = ReapAfter
    BY <1>1, <1>3 DEF Reaped, To
  <1>5. Doomed(id)' \subseteq Doomed(id)
    BY <1>2, <1>4 DEF Doomed, Stuck
  <1>6. CASE ~Stuck(id)
    BY <1>1, <1>3, <1>5, <1>6, WithinUntouched
  <1>7. CASE Stuck(id)
    <2> DEFINE D == Cardinality(Doomed(id))
               E == Cardinality(Doomed(id)')
    <2>1. E <= D /\ E \in Nat /\ D \in Nat
      BY <1>5, DoomedSize, SizeOfSubset, Zenon
    <2>2. Within(jobs[id], D, Slack) /\ jobs[id].status = "running" /\ jobs[id].attempts \in Nat
      BY <1>7, Zenon DEF Budget, Stuck, Typed, Row
    <2>3. /\ jobs'[id].attempts = jobs[id].attempts
          /\ jobs'[id].status = IF jobs[id].attempts >= MaxAttempts THEN "failed" ELSE "pending"
      <3>1. jobs'[id] = Reaped(jobs[id])
        BY <1>3, <1>7, Zenon
      <3>2. ASSUME NEW row
            PROVE  /\ Reaped(row).attempts = row.attempts
                   /\ Reaped(row).status = IF row.attempts >= MaxAttempts THEN "failed" ELSE "pending"
        BY Zenon DEF Reaped, To
      <3> QED BY <3>1, <3>2, Zenon
    <2> HIDE DEF D, E
    <2>4. Within(jobs'[id], E, Slack)
      BY <1>1, <2>1, <2>2, <2>3 DEF Within, Overdrawn
    <2> QED BY <1>1, <2>4, Zenon DEF Within, Overdrawn, E
  <1> QED BY <1>6, <1>7, Zenon

\* The clock keeps Budget: what it dooms it counts as an overrun.
LEMMA BudgetTick ==
    ASSUME Typed, Typed', Budget, Tick
    PROVE  Budget'
  <1>1. Overrunning \in SUBSET Workers /\ Cardinality(Overrunning) \in Nat
    BY WorkersSize, Zenon DEF Overrunning
  <1>2. retries \in Nat /\ overruns \in Nat /\ MaxAttempts \in Nat \ {0} /\ ReapAfter \in Nat
    BY JobsAssumption, Zenon DEF Typed, JobsAssumption
  <1>3. Slack \in Nat /\ Slack' = Slack + Cardinality(Overrunning)
    BY <1>1, <1>2 DEF Tick, Slack
  <1> SUFFICES ASSUME NEW id \in Ids PROVE Within(jobs[id], Cardinality(Doomed(id)), Slack)'
    BY Zenon DEF Budget
  <1> DEFINE D == Cardinality(Doomed(id))
             E == Cardinality(Doomed(id)')
  <1>4. jobs'[id] = Older(jobs[id]) /\ held' = held
    BY Zenon DEF Tick
  <1>5. jobs'[id].status = jobs[id].status /\ jobs'[id].attempts = jobs[id].attempts
    <2>1. ASSUME NEW row PROVE Older(row).status = row.status /\ Older(row).attempts = row.attempts
      BY Zenon DEF Older
    <2> QED BY <1>4, <2>1, Zenon
  <1>6. jobs'[id].age = ReapAfter => jobs[id].age = ReapAfter \/ jobs[id].age + 1 = ReapAfter
    BY <1>4 DEF Older
  <1>7. Doomed(id)' \subseteq Doomed(id) \cup Overrunning
    BY <1>4, <1>6, 0 \notin Ids, Zenon DEF Doomed, Overrunning, Ids
  <1>8. E <= D + Cardinality(Overrunning) /\ E \in Nat /\ D \in Nat
    BY <1>1, <1>7, DoomedSize, SizeOfUnion, Zenon
  <1>9. Within(jobs[id], D, Slack) /\ jobs[id].attempts \in Nat
    BY Zenon DEF Budget, Typed, Row
  <1> HIDE DEF D, E
  <1>10. Within(jobs'[id], E, Slack + Cardinality(Overrunning))
    BY <1>1, <1>2, <1>3, <1>5, <1>8, <1>9 DEF Within, Overdrawn
  <1> QED BY <1>3, <1>10, Zenon DEF Within, Overdrawn, E

\* Every step keeps Budget.
LEMMA BudgetStep ==
    ASSUME Typed, Typed', OwnerExclusive, Budget, [Next]_vars
    PROVE  Budget'
  <1>0. Slack \in Nat /\ MaxAttempts \in Nat \ {0} /\ ReapAfter # 0
    BY SlackTyped, JobsAssumption, Zenon DEF JobsAssumption
  <1>1. CASE UNCHANGED <<jobs, held, overruns, retries>>
    BY <1>1, Zenon DEF Budget, Within, Doomed, Slack, Overdrawn
  <1>2. ASSUME NEW q \in Queues, NEW k \in Keys \cup {NoKey}, EnqueueJob(q, k) PROVE Budget'
    <2>1. CASE UNCHANGED jobs
      BY <1>1, <1>2, <2>1, Zenon DEF EnqueueJob
    <2>2. ASSUME NEW id \in Ids, jobs[id].status = "absent", jobs' = [jobs EXCEPT ![id] = NewRow(k)]
          PROVE  Budget'
      <3>1. Slack' = Slack /\ held' = held
        BY <1>2, Zenon DEF EnqueueJob, Slack
      <3>2. jobs'[id] = NewRow(k) /\ \A j \in Ids \ {id} : jobs'[j] = jobs[j]
        BY <2>2, SlackTyped, Zenon
      <3>3. \A j \in Ids : Doomed(j)' \subseteq Doomed(j)
        <4>1. NewRow(k).age # ReapAfter
          BY <1>0, Zenon DEF NewRow
        <4>2. \A j \in Ids : jobs'[j].age = ReapAfter => jobs[j].age = ReapAfter
          BY <3>2, <4>1, Zenon
        <4> QED BY <3>1, <4>2, Zenon DEF Doomed
      <3>4. ASSUME NEW j \in Ids \ {id} PROVE Within(jobs[j], Cardinality(Doomed(j)), Slack)'
        <4>1. Slack <= Slack' /\ jobs'[j] = jobs[j] /\ Doomed(j)' \subseteq Doomed(j)
          BY <1>0, <3>1, <3>2, <3>3
        <4> QED BY <4>1, WithinUntouched, Zenon
      <3>5. Within(jobs[id], Cardinality(Doomed(id)), Slack)'
        <4>1. Cardinality(Doomed(id)') <= Cardinality(Doomed(id)) /\ Cardinality(Doomed(id)') \in Nat
              /\ Cardinality(Doomed(id)) \in Nat
          BY <3>3, DoomedSize, SizeOfSubset, Zenon
        <4>2. Cardinality(Doomed(id)) + Overdrawn(jobs[id]) <= Slack /\ Overdrawn(jobs[id]) \in Nat
          BY <1>0, <2>2, SlackTyped DEF Budget, Within, Overdrawn, Row
        <4>3. Cardinality(Doomed(id)') <= Slack
          BY <1>0, <4>1, <4>2
        <4>4. jobs'[id].status = "pending" /\ jobs'[id].attempts = 0
          BY <3>2 DEF NewRow
        <4> QED BY <1>0, <3>1, <4>1, <4>3, <4>4 DEF Within, Overdrawn
      <3> QED BY <3>4, <3>5, Zenon DEF Budget
    <2> QED BY <1>2, <2>1, <2>2, Zenon DEF EnqueueJob
  <1>3. ASSUME NEW w \in Workers, ClaimJob(w) PROVE Budget'
    <2>1. PICK id \in Ids :
            /\ jobs[id].status = "pending"
            /\ jobs' = [jobs EXCEPT ![id] = To(jobs[id], "running", jobs[id].attempts + 1, 0)]
            /\ held' = [held EXCEPT ![w] = [id |-> id, attempts |-> jobs[id].attempts + 1, lost |-> FALSE]]
      BY <1>3, Zenon DEF ClaimJob, Runnable
    <2>2. Slack' = Slack
      BY <1>3, Zenon DEF ClaimJob, Slack
    <2>3. /\ jobs'[id].status = "running" /\ jobs'[id].attempts = jobs[id].attempts + 1
          /\ jobs'[id].age = 0 /\ \A j \in Ids \ {id} : jobs'[j] = jobs[j]
      BY <2>1, SlackTyped, Zenon DEF To
    <2>4. \A v \in Workers : held'[v] = held[v] \/ (held'[v].id = id /\ ~held'[v].lost)
      BY <2>1, Zenon DEF Typed
    <2>5. \A j \in Ids : Doomed(j)' \subseteq Doomed(j)
      BY <1>0, <2>3, <2>4, Zenon DEF Doomed
    <2>6. ASSUME NEW j \in Ids \ {id} PROVE Within(jobs[j], Cardinality(Doomed(j)), Slack)'
      <3>1. Slack <= Slack' /\ jobs'[j] = jobs[j] /\ Doomed(j)' \subseteq Doomed(j)
        BY <1>0, <2>2, <2>3, <2>5
      <3> QED BY <3>1, WithinUntouched, Zenon
    <2>7. Within(jobs[id], Cardinality(Doomed(id)), Slack)'
      <3>1. Cardinality(Doomed(id)') <= Cardinality(Doomed(id)) /\ Cardinality(Doomed(id)') \in Nat
            /\ Cardinality(Doomed(id)) \in Nat
        BY <2>5, DoomedSize, SizeOfSubset, Zenon
      <3>2. jobs[id].attempts \in Nat
        BY SlackTyped, Zenon DEF Row
      <3>3. Cardinality(Doomed(id)) + Overdrawn(jobs[id]) <= Slack
        BY <2>1, Zenon DEF Budget, Within
      <3>4. Overdrawn(jobs[id])' = Overdrawn(jobs[id]) /\ Overdrawn(jobs[id]) \in Nat
        BY <1>0, <2>1, <2>3, <3>2 DEF Overdrawn
      <3>5. Cardinality(Doomed(id)') + Overdrawn(jobs[id])' <= Slack
        BY <1>0, <3>1, <3>3, <3>4
      <3> QED BY <2>2, <2>3, <3>5, Zenon DEF Within
    <2> QED BY <2>6, <2>7, Zenon DEF Budget
  <1>4. ASSUME NEW w \in Workers, Finish(w) PROVE Budget'
    BY <1>4, BudgetFinish, Zenon
  <1>5. ASSUME NEW w \in Workers, Crash(w) PROVE Budget'
    <2>1. Slack' = Slack /\ jobs' = jobs /\ held' = Release(w)
      BY <1>5, Zenon DEF Crash, Slack
    <2>2. \A j \in Ids : Doomed(j)' \subseteq Doomed(j)
      BY <2>1 DEF Doomed, Release, Free, Typed, Ids
    <2> QED BY <1>0, <2>1, <2>2, WithinUntouched DEF Budget
  <1>6. CASE ReapStuckJobs
    BY <1>6, BudgetReap, Zenon
  <1>7. ASSUME NEW id \in Ids, AdminRetryJob(id) PROVE Budget'
    BY <1>7, BudgetAdminRetry, Zenon
  <1>8. CASE Tick
    BY <1>8, BudgetTick, Zenon
  <1> QED BY <1>1, <1>2, <1>3, <1>4, <1>5, <1>6, <1>7, <1>8, Zenon DEF Next, CountPending, vars
-----------------------------------------------------------------------------
\* IInv is an invariant of every interleaving of enqueues, workers, crashes,
\* reaps, retries and clock ticks.
THEOREM Invariance == Spec => []IInv
  <1>1. Init => IInv
    <2> SUFFICES ASSUME Init PROVE IInv
      BY Zenon
    <2>1. NoRow \in Row /\ Free \in Holding
      BY JobsAssumption DEF NoRow, Row, Statuses, Free, Holding, JobsAssumption
    <2>2. Typed
      BY <2>1, Zenon DEF Init, Typed
    <2>3. DedupeLive /\ OwnerExclusive
      BY Zenon DEF Init, DedupeLive, OwnerExclusive, Live, NoRow, Free
    <2>4. Budget
      <3> SUFFICES ASSUME NEW id \in Ids PROVE Within(jobs[id], Cardinality(Doomed(id)), Slack)
        BY Zenon DEF Budget
      <3>1. Doomed(id) = {}
        BY 0 \notin Ids, Zenon DEF Init, Doomed, Free, Ids
      <3>2. Cardinality(Doomed(id)) = 0
        BY <3>1, FS_EmptySet, Zenon
      <3>3. jobs[id].status = "absent" /\ jobs[id].attempts = 0 /\ Slack = 0
        BY DEF Init, NoRow, Slack
      <3>4. 0 < MaxAttempts
        BY JobsAssumption DEF JobsAssumption
      <3> QED BY <3>2, <3>3, <3>4 DEF Within, Overdrawn
    <2> QED BY <2>2, <2>3, <2>4, Zenon DEF IInv
  <1>2. IInv /\ [Next]_vars => IInv'
    BY TypedStep, DedupeStep, OwnerStep, BudgetStep, Zenon DEF IInv
  <1> QED BY <1>1, <1>2, PTL DEF Spec

\* For every number of workers, replicas, keys and jobs: the partial unique index
\* and the lookup leave at most one live job per dedupe key.
THEOREM DedupeLiveHolds == Spec => []DedupeLive
  <1>1. IInv => DedupeLive
    BY Zenon DEF IInv
  <1> QED BY <1>1, Invariance, PTL

\* A worker from which nobody took its job is the only one to execute it.
THEOREM OwnerExclusiveHolds == Spec => []OwnerExclusive
  <1>1. IInv => OwnerExclusive
    BY Zenon DEF IInv
  <1> QED BY <1>1, Invariance, PTL

\* Attempts past max_attempts are paid for, one by one, by administrator retries
\* and by handlers that outlive reapAfter.
THEOREM AttemptSlackHolds == Spec => []AttemptSlack
  <1>1. IInv => AttemptSlack
    <2> SUFFICES ASSUME IInv, NEW id \in Ids
                 PROVE  jobs[id].attempts <= MaxAttempts + retries + overruns
      BY Zenon DEF AttemptSlack
    <2>1. Typed /\ Within(jobs[id], Cardinality(Doomed(id)), Slack)
      BY Zenon DEF IInv, Budget
    <2>2. jobs[id].attempts \in Nat /\ retries \in Nat /\ overruns \in Nat /\ MaxAttempts \in Nat
      BY <2>1, JobsAssumption, Zenon DEF Typed, Row, JobsAssumption
    <2> QED BY <2>1, <2>2, DoomedSize DEF Within, Overdrawn, Slack
  <1> QED BY <1>1, Invariance, PTL
=============================================================================
