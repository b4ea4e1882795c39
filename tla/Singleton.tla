----------------------------- MODULE Singleton -----------------------------
(***************************************************************************)
(* One maintenance sweep (reconcile, lifecycle, retention or upload GC)    *)
(* run by several replicas behind cluster.Singleton: each tick a replica   *)
(* acquires or renews the sweep's lease and, holding it, runs the sweep to *)
(* its end without looking at the lease again.                             *)
(*                                                                         *)
(* The replicas' clocks differ: Off[r] is how far r's clock is ahead of    *)
(* the slowest one.  left is expires_at minus the slowest clock; below     *)
(* zero every replica sees the lease expired, so it stops there.           *)
(***************************************************************************)
EXTENDS Integers

CONSTANTS
    Replicas,
    NoOne,    \* a holder that no longer exists
    Off,      \* the clock offset of each replica
    MaxSkew,  \* the largest offset
    Ttl,      \* twice the sweep's interval, in ticks
    MaxSweep, \* bound: ticks a sweep takes
    MaxFaults \* bound: crashes and lease errors

ASSUME SingletonAssumption ==
    /\ NoOne \notin Replicas /\ "none" \notin Replicas \cup {NoOne}
    /\ MaxSkew \in Nat /\ Off \in [Replicas -> 0..MaxSkew]
    /\ Ttl \in Nat /\ MaxSweep \in Nat /\ MaxFaults \in Nat

VARIABLES
    holder,  \* the lease row's holder; "none" while there is no row
    left,    \* the lease row's expires_at, relative to the slowest clock
    at,      \* what each replica is doing
    elapsed, \* ticks since the lease was granted for the sweep it runs
    faults

vars == <<holder, left, at, elapsed, faults>>

Init ==
    /\ holder = "none" /\ left = 0
    /\ at = [r \in Replicas |-> "idle"]
    /\ elapsed = [r \in Replicas |-> 0]
    /\ faults = 0

\* Mutant of Granted: the expiry is computed from the old one.
GrantedForever(r) ==
    /\ holder' = r
    /\ left' = left + Ttl + Off[r] + 1
    /\ at' = [at EXCEPT ![r] = "sweep"]
    /\ elapsed' = [elapsed EXCEPT ![r] = 0]
    /\ UNCHANGED faults

Granted(r) ==
    /\ holder' = r
    /\ left' = Ttl + Off[r]
    /\ at' = [at EXCEPT ![r] = "sweep"]
    /\ elapsed' = [elapsed EXCEPT ![r] = 0]
    /\ UNCHANGED faults

\* Mutants of Claimable: any lease may be taken; nobody else's ever may.
ClaimableAlways(r) == holder # "none"
ClaimableOwn(r) == holder = r

\* WHERE holder = me OR expires_at < now, by this replica's clock.
Claimable(r) == holder = r \/ (holder # "none" /\ left < Off[r])

\* Guard: the UPDATE renews or takes over, or matches nothing.
UpdateLease(r) ==
    /\ at[r] = "idle"
    /\ \/ Claimable(r) /\ Granted(r)
       \/ ~Claimable(r) /\ at' = [at EXCEPT ![r] = "insert"]
          /\ UNCHANGED <<holder, left, elapsed, faults>>

\* The INSERT creates the row unless there is one by now.
InsertLease(r) ==
    /\ at[r] = "insert"
    /\ \/ holder = "none" /\ Granted(r)
       \/ holder # "none" /\ at' = [at EXCEPT ![r] = "idle"]
          /\ UNCHANGED <<holder, left, elapsed, faults>>

\* Either statement fails: the round is skipped.
LeaseError(r) ==
    /\ at[r] \in {"idle", "insert"} /\ faults < MaxFaults
    /\ at' = [at EXCEPT ![r] = "idle"]
    /\ faults' = faults + 1
    /\ UNCHANGED <<holder, left, elapsed>>

\* fn returns; the lease is not given back.
EndSweep(r) ==
    /\ at[r] = "sweep"
    /\ at' = [at EXCEPT ![r] = "idle"]
    /\ UNCHANGED <<holder, left, elapsed, faults>>

\* The process restarts under a new holder id: the lease stays with the old one.
Restart(r) ==
    /\ faults < MaxFaults
    /\ faults' = faults + 1
    /\ at' = [at EXCEPT ![r] = "idle"]
    /\ holder' = IF holder = r THEN NoOne ELSE holder
    /\ UNCHANGED <<left, elapsed>>

Tick ==
    /\ \A r \in Replicas : at[r] = "sweep" => elapsed[r] < MaxSweep
    /\ left' = IF left < 0 THEN left ELSE left - 1
    /\ elapsed' = [r \in Replicas |-> IF at[r] = "sweep" THEN elapsed[r] + 1 ELSE 0]
    /\ UNCHANGED <<holder, at, faults>>

Guard(r) == UpdateLease(r) \/ InsertLease(r)

Next ==
    \/ \E r \in Replicas : Guard(r) \/ LeaseError(r) \/ EndSweep(r) \/ Restart(r)
    \/ Tick

Spec == Init /\ [][Next]_vars

\* Every replica's ticker fires, sweeps end, the clocks run.
Fairness ==
    /\ \A r \in Replicas : WF_vars(Guard(r)) /\ WF_vars(EndSweep(r))
    /\ WF_vars(Tick)

FairSpec == Spec /\ Fairness
-----------------------------------------------------------------------------
\* The lease row, the replicas and their clocks have their types.
TypeOK ==
    /\ holder \in Replicas \cup {NoOne, "none"}
    /\ left \in -1..(Ttl + MaxSkew)
    /\ at \in [Replicas -> {"idle", "insert", "sweep"}]
    /\ elapsed \in [Replicas -> 0..MaxSweep]
    /\ faults \in 0..MaxFaults

\* Two replicas sweep at once only when one of them has been sweeping for
\* longer than the lease time less the clock skew.
OverlapNeedsOverrun ==
    \A r, s \in Replicas :
       r # s /\ at[r] = "sweep" /\ at[s] = "sweep"
       => elapsed[r] > Ttl - MaxSkew \/ elapsed[s] > Ttl - MaxSkew

\* A dead or slow holder does not stop the sweep: some replica sweeps again and
\* again ("a dead holder's lease frees and another replica takes over").
SweepsGoOn == []<>(\E r \in Replicas : at[r] = "sweep")
=============================================================================
