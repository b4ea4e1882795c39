------------------------------ MODULE JobQueue ------------------------------
(***************************************************************************)
(* The durable job queue: the jobs table (repository/jobs.go), the enqueue *)
(* side with its depth cap (jobs.Queue), the worker pool and its reaper    *)
(* (jobs.Pool) and the administrator's retry endpoint.                     *)
(*                                                                         *)
(* A claim is not a lease: CompleteJob, RetryJob and FailJob name a job by *)
(* its id alone, so a worker whose job was reaped, or retried away from it *)
(* by an administrator, still writes to the row.  Such a worker is marked  *)
(* lost here; the mark is history and no action reads it.                  *)
(*                                                                         *)
(* Times are relative to the clock: wait is what is left of run_after and  *)
(* age is the time since started_at, up to ReapAfter.                      *)
(***************************************************************************)
EXTENDS Naturals, FiniteSets

CONSTANTS
    Workers,     \* worker goroutines of every pool of every replica
    Queues,      \* one jobs.Queue, and so one mutex, per replica
    Keys,        \* dedupe keys
    NoKey,       \* the empty dedupe key, stored as NULL
    MaxJobs,     \* bound: rows the jobs table ever holds
    MaxDepth,    \* JOBS_MAX_DEPTH, 0 for no cap
    MaxAttempts, \* max_attempts of every job
    MaxBackoff,  \* the longest backoff, in ticks
    ReapAfter,   \* reapAfter, in ticks
    MaxOverruns, \* bound: handlers that run past reapAfter
    MaxCrashes,  \* bound: workers that die, and writes that fail
    MaxRetries   \* bound: administrator retries

ASSUME JobsAssumption ==
    /\ IsFiniteSet(Workers)
    /\ NoKey \notin Keys
    /\ MaxJobs \in Nat \ {0} /\ MaxDepth \in Nat
    /\ MaxAttempts \in Nat \ {0} /\ ReapAfter \in Nat \ {0}
    /\ {MaxBackoff, MaxOverruns, MaxCrashes, MaxRetries} \subseteq Nat

VARIABLES
    jobs,      \* the jobs table
    held,      \* the job value each worker claimed, and whether it lost it
    enq,       \* the enqueue each replica has past its depth check
    overruns, crashes, retries

vars == <<jobs, held, enq, overruns, crashes, retries>>

Ids == 1..MaxJobs
Statuses == {"absent", "pending", "running", "succeeded", "failed"}
Row == [status : Statuses, attempts : Nat, key : Keys \cup {NoKey},
        wait : 0..MaxBackoff, age : 0..ReapAfter]
NoRow == [status |-> "absent", attempts |-> 0, key |-> NoKey, wait |-> 0, age |-> 0]

\* The row a statement leaves behind.
To(row, status, attempts, wait) ==
    [status |-> status, attempts |-> attempts, key |-> row.key, wait |-> wait, age |-> 0]

NewRow(k) == [status |-> "pending", attempts |-> 0, key |-> k, wait |-> 0, age |-> 0]

Holding == [id : Ids \cup {0}, attempts : Nat, lost : BOOLEAN]
Free == [id |-> 0, attempts |-> 0, lost |-> FALSE]

Live(id) == jobs[id].status \in {"pending", "running"}
Pending == {id \in Ids : jobs[id].status = "pending"}

Init ==
    /\ jobs = [id \in Ids |-> NoRow]
    /\ held = [w \in Workers |-> Free]
    /\ enq = [q \in Queues |-> "none"]
    /\ overruns = 0 /\ crashes = 0 /\ retries = 0
-----------------------------------------------------------------------------
(* Enqueue.  The mutex is one process's: replicas count and insert freely. *)

\* CountJobsByStatus found room.  ErrQueueFull changes nothing.
CountPending(q) ==
    /\ enq[q] = "none"
    /\ MaxDepth > 0 => Cardinality(Pending) < MaxDepth
    /\ enq' = [enq EXCEPT ![q] = "counted"]
    /\ UNCHANGED <<jobs, held, overruns, crashes, retries>>

\* jobs_dedupe_idx, the partial unique index over live rows: a statement that
\* would make a second live row with this key fails.
DedupeFree(k) == k = NoKey \/ \A id \in Ids : Live(id) => jobs[id].key # k

\* A job that duplicates a live one is dropped, by the lookup or by the index.
EnqueueJob(q, k) ==
    /\ enq[q] = "counted"
    /\ enq' = [enq EXCEPT ![q] = "none"]
    /\ \/ /\ DedupeFree(k)
          /\ \E id \in Ids :
                /\ jobs[id].status = "absent"
                /\ \A j \in Ids : j < id => jobs[j].status # "absent"
                /\ jobs' = [jobs EXCEPT ![id] = NewRow(k)]
       \/ /\ ~DedupeFree(k)
          /\ UNCHANGED jobs
    /\ UNCHANGED <<held, overruns, crashes, retries>>
-----------------------------------------------------------------------------
(* The pool's workers. *)

\* Mutant of Runnable: a running job is claimed again.
RunnableTwice(id) == Live(id) /\ jobs[id].wait = 0

Runnable(id) == jobs[id].status = "pending" /\ jobs[id].wait = 0

\* The oldest runnable job: no caller sets a priority.
ClaimJob(w) ==
    /\ held[w] = Free
    /\ \E id \in Ids :
          /\ Runnable(id)
          /\ \A j \in Ids : j < id => ~Runnable(j)
          /\ LET n == jobs[id].attempts + 1 IN
                /\ jobs' = [jobs EXCEPT ![id] = To(jobs[id], "running", n, 0)]
                /\ held' = [held EXCEPT ![w] = [id |-> id, attempts |-> n, lost |-> FALSE]]
    /\ UNCHANGED <<enq, overruns, crashes, retries>>

\* held after a statement took job id out of 'running': whoever else was
\* executing it has lost it.
LoseAll(h, id) ==
    [v \in Workers |-> IF h[v].id = id THEN [id |-> id, attempts |-> h[v].attempts, lost |-> TRUE]
                       ELSE h[v]]

Release(w) == [held EXCEPT ![w] = Free]

\* One UPDATE by id that settles or requeues a running job, by worker w.
Settle(w, from, row) ==
    LET id == held[w].id IN
    /\ id # 0
    /\ IF jobs[id].status \in from
       THEN /\ jobs' = [jobs EXCEPT ![id] = row]
            /\ held' = LoseAll(Release(w), id)
       ELSE /\ held' = Release(w)
            /\ UNCHANGED jobs
    /\ UNCHANGED <<enq, overruns, crashes, retries>>

Mine(w) == jobs[held[w].id]

\* The handler returned nil.
CompleteJob(w) ==
    /\ held[w].id # 0
    /\ Settle(w, {"running"}, To(Mine(w), "succeeded", Mine(w).attempts, 0))

\* The handler failed on what the worker believes to be the last attempt, or
\* no handler is registered for the type.
FailJob(w) ==
    /\ held[w].id # 0
    /\ Settle(w, {"running"}, To(Mine(w), "failed", Mine(w).attempts, 0))

\* Mutants of Requeued: the status is misspelt; a retry keeps the used-up budget.
RequeuedMisspelt(row, delay) == To(row, "queued", row.attempts, delay)
RequeuedUsedUp(row, delay) == To(row, "pending", row.attempts, delay)

\* The row RetryJob writes: a failed job gets a fresh budget.
Requeued(row, delay) ==
    To(row, "pending", IF row.status = "failed" THEN 0 ELSE row.attempts, delay)

\* Mutant of Retriable: the retry of a failed job ignores the live row that
\* has replaced it.
RetriableBlindly(id) == jobs[id].status \in {"running", "failed"}

\* What RetryJob may return to pending: the index rejects a failed job whose key
\* has a live row again.
Retriable(id) ==
    \/ jobs[id].status = "running"
    \/ jobs[id].status = "failed" /\ DedupeFree(jobs[id].key)

\* The handler failed, or panicked, with attempts left by the worker's copy.
RetryJob(w, delay) ==
    /\ held[w].id # 0
    /\ held[w].attempts < MaxAttempts
    /\ Settle(w, IF Retriable(held[w].id) THEN {"running", "failed"} ELSE {},
              Requeued(Mine(w), delay))

\* The worker's process dies, its context is cancelled, or its last statement
\* fails: runOne ignores the error and the row stays 'running'.
Crash(w) ==
    /\ held[w].id # 0 /\ crashes < MaxCrashes
    /\ crashes' = crashes + 1
    /\ held' = Release(w)
    /\ UNCHANGED <<jobs, enq, overruns, retries>>
-----------------------------------------------------------------------------
(* The reaper, the administrator and the clock. *)

\* Mutant of Stuck: only exhausted jobs are looked for.
StuckExhausted(id) ==
    /\ jobs[id].status = "running" /\ jobs[id].age = ReapAfter
    /\ jobs[id].attempts >= MaxAttempts

Stuck(id) == jobs[id].status = "running" /\ jobs[id].age = ReapAfter

\* Mutant of Reaped: an exhausted job is requeued too.
ReapedToPending(row) == To(row, "pending", row.attempts, 0)

Reaped(row) ==
    To(row, IF row.attempts >= MaxAttempts THEN "failed" ELSE "pending", row.attempts, 0)

\* One transaction fails the exhausted stuck jobs and requeues the others.
ReapStuckJobs ==
    /\ \E id \in Ids : Stuck(id)
    /\ jobs' = [id \in Ids |-> IF Stuck(id) THEN Reaped(jobs[id]) ELSE jobs[id]]
    /\ held' = [w \in Workers |->
                  IF held[w].id # 0 /\ Stuck(held[w].id)
                  THEN [id |-> held[w].id, attempts |-> held[w].attempts, lost |-> TRUE]
                  ELSE held[w]]
    /\ UNCHANGED <<enq, overruns, crashes, retries>>

\* POST /v1/admin/jobs/{id}/retry: RetryJob on any running or failed job.
AdminRetryJob(id) ==
    /\ retries < MaxRetries
    /\ Retriable(id)
    /\ retries' = retries + 1
    /\ jobs' = [jobs EXCEPT ![id] = Requeued(jobs[id], 0)]
    /\ held' = LoseAll(held, id)
    /\ UNCHANGED <<enq, overruns, crashes>>

\* The live workers whose job this tick carries past reapAfter.
Overrunning ==
    {w \in Workers : /\ held[w].id # 0 /\ ~held[w].lost
                     /\ jobs[held[w].id].age + 1 = ReapAfter}

Older(row) ==
    [status |-> row.status, attempts |-> row.attempts, key |-> row.key,
     wait |-> IF row.wait = 0 THEN 0 ELSE row.wait - 1,
     age |-> IF row.status = "running" /\ row.age < ReapAfter THEN row.age + 1 ELSE row.age]

Tick ==
    /\ overruns + Cardinality(Overrunning) <= MaxOverruns
    /\ overruns' = overruns + Cardinality(Overrunning)
    /\ jobs' = [id \in Ids |-> Older(jobs[id])]
    /\ UNCHANGED <<held, enq, crashes, retries>>

Finish(w) ==
    \/ CompleteJob(w)
    \/ FailJob(w)
    \/ \E d \in 0..MaxBackoff : RetryJob(w, d)

Next ==
    \/ \E q \in Queues : CountPending(q) \/ \E k \in Keys \cup {NoKey} : EnqueueJob(q, k)
    \/ \E w \in Workers : ClaimJob(w) \/ Finish(w) \/ Crash(w)
    \/ ReapStuckJobs
    \/ \E id \in Ids : AdminRetryJob(id)
    \/ Tick

Spec == Init /\ [][Next]_vars

\* Workers poll and handlers return, the reaper's ticker fires, the clock runs.
Fairness ==
    /\ WF_vars(\E w \in Workers : ClaimJob(w))
    /\ \A w \in Workers : WF_vars(Finish(w))
    /\ WF_vars(ReapStuckJobs)
    /\ WF_vars(Tick)

FairSpec == Spec /\ Fairness
-----------------------------------------------------------------------------
(* Properties. *)

\* The rows, the workers' copies and the bounded counters have their types.
TypeOK ==
    /\ jobs \in [Ids -> Row]
    /\ held \in [Workers -> Holding]
    /\ enq \in [Queues -> {"none", "counted"}]
    /\ overruns \in 0..MaxOverruns /\ crashes \in 0..MaxCrashes /\ retries \in 0..MaxRetries

\* However enqueues, retries and reaps interleave, at most one live job carries
\* a dedupe key (EnqueueJob's lookup and jobs_dedupe_idx).
DedupeLive ==
    \A i, j \in Ids : Live(i) /\ Live(j) /\ jobs[i].key # NoKey /\ jobs[i].key = jobs[j].key
                      => i = j

\* Two workers execute one job only when the first was reaped or retried away:
\* a worker that has not lost its job is the only such worker, the row is
\* 'running', and its attempt count is the one the worker was given.
OwnerExclusive ==
    \A w \in Workers : held[w].id # 0 /\ ~held[w].lost =>
        /\ jobs[held[w].id].status = "running"
        /\ jobs[held[w].id].attempts = held[w].attempts
        /\ \A v \in Workers \ {w} : held[v].id = held[w].id => held[v].lost

\* The attempt budget is overdrawn only by what takes a running job from its
\* worker without ending its execution: each administrator retry and each
\* handler that outlives reapAfter costs at most one attempt.
AttemptSlack ==
    \A id \in Ids : jobs[id].attempts <= MaxAttempts + retries + overruns

\* A finished job stays as it is, except that a failed one may be requeued, and
\* then with a fresh budget and with no live duplicate (RetryJob).
FinishedRows ==
    [][\A id \in Ids :
          jobs[id].status \in {"succeeded", "failed"} /\ jobs'[id] # jobs[id] =>
             /\ jobs[id].status = "failed"
             /\ jobs'[id].status = "pending" /\ jobs'[id].attempts = 0]_vars

\* Every enqueued job is eventually settled, whatever workers crash: the reaper
\* finds a job whose worker is gone (jobs.go, "A reaper requeues jobs orphaned
\* by a crashed worker").
EventuallySettled ==
    \A id \in Ids : jobs[id].status # "absent" ~> jobs[id].status \in {"succeeded", "failed"}
=============================================================================
