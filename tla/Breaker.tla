------------------------------ MODULE Breaker ------------------------------
(***************************************************************************)
(* storage.circuitBreaker around a backend, with the calls in flight       *)
(* across its transitions.  Each method admits (beforeRequest), calls the  *)
(* backend without the lock, and reports (recordOutcome).  A call is a     *)
(* probe while the half-open episode that admitted it lasts, plain after.  *)
(* The recovery timeout is a flag: waited since the last transition.  The  *)
(* per-second window feeds metrics only and is left out.                   *)
(***************************************************************************)
EXTENDS Integers, FiniteSets, FiniteSetsExt

CONSTANTS
    Calls,               \* the goroutines that call the backend
    FailureThreshold,
    HalfOpenMaxRequests,
    MaxLost              \* bound: admitted calls that never report

VARIABLES
    circuit,      \* state
    failures,     \* consecutive failures, counted up to the threshold
    halfAllowed,  \* remaining probes in half-open
    waited,       \* RecoveryTimeout has passed since the last transition
    call,         \* idle, plain or probe
    lost,         \* history: probes of this episode that never report
    stale,        \* history: slots handed back in this episode by plain calls
    losses        \* history: all calls that never reported

breakerVars == <<circuit, failures, halfAllowed, waited, call, lost, stale, losses>>

Init ==
    /\ circuit = "closed" /\ failures = 0 /\ halfAllowed = 0 /\ waited = FALSE
    /\ call = [c \in Calls |-> "idle"]
    /\ lost = 0 /\ stale = 0 /\ losses = 0

Probes == {c \in Calls : call[c] = "probe"}

\* What the calls in flight are once an episode ends.
Plain(calls) == [c \in Calls |-> IF calls[c] = "probe" THEN "plain" ELSE calls[c]]

Reopens ==
    circuit = "half-open" /\ halfAllowed = HalfOpenMaxRequests /\ waited

\* tryTransition, called under the lock by beforeRequest and State.
tryTransition ==
    IF circuit = "open" /\ waited
    THEN [circuit |-> "half-open", halfAllowed |-> HalfOpenMaxRequests, fresh |-> TRUE]
    ELSE IF Reopens THEN [circuit |-> "open", halfAllowed |-> halfAllowed, fresh |-> TRUE]
    ELSE [circuit |-> circuit, halfAllowed |-> halfAllowed, fresh |-> FALSE]

\* The bookkeeping of a transition: the clock and the histories restart.
Turn(fresh) ==
    /\ waited' = (waited /\ ~fresh)
    /\ lost' = IF fresh THEN 0 ELSE lost

State ==
    LET t == tryTransition IN
    /\ t.fresh
    /\ circuit' = t.circuit /\ halfAllowed' = t.halfAllowed
    /\ call' = Plain(call) /\ stale' = 0
    /\ Turn(TRUE)
    /\ UNCHANGED <<failures, losses>>

\* A refused call returns ErrBackendUnavailable without touching the backend.
beforeRequest(c) ==
    LET t == tryTransition
        probes == t.circuit = "half-open" /\ t.halfAllowed > 0
        before == IF t.fresh THEN Plain(call) ELSE call
    IN
    /\ call[c] = "idle"
    /\ circuit' = t.circuit
    /\ halfAllowed' = IF probes THEN t.halfAllowed - 1 ELSE t.halfAllowed
    /\ call' = IF probes THEN [before EXCEPT ![c] = "probe"]
               ELSE IF t.circuit = "closed" THEN [before EXCEPT ![c] = "plain"] ELSE before
    /\ stale' = IF t.fresh THEN 0 ELSE stale
    /\ Turn(t.fresh)
    /\ UNCHANGED <<failures, losses>>

\* The backend's answer: nil; an error of the request or the object (not found,
\* bad key, cancelled...); or an error that speaks of the backend.
isBackendFailure(err) == err = "failure"

Success ==
    /\ failures' = IF circuit = "open" THEN failures ELSE 0
    /\ circuit' = IF circuit = "half-open" THEN "closed" ELSE circuit
    /\ UNCHANGED halfAllowed

\* Mutant of Neutral: the slot of a call that says nothing of the backend is kept.
NeutralKeeps == UNCHANGED <<circuit, failures, halfAllowed>>

\* A half-open probe that fails for the object's sake gives its slot back.
Neutral ==
    /\ halfAllowed' = IF circuit = "half-open" /\ halfAllowed < HalfOpenMaxRequests
                      THEN halfAllowed + 1 ELSE halfAllowed
    /\ UNCHANGED <<circuit, failures>>

Failure ==
    LET n == Min({failures + 1, FailureThreshold}) IN
    /\ failures' = n
    /\ circuit' = IF circuit = "half-open" \/ (circuit = "closed" /\ n >= FailureThreshold)
                  THEN "open" ELSE circuit
    /\ UNCHANGED halfAllowed

\* recordOutcome looks at the circuit as it is now, not as it was when the call
\* was admitted.
recordOutcome(c, err) ==
    LET back == [call EXCEPT ![c] = "idle"] IN
    /\ call[c] # "idle"
    /\ CASE err = "nil" -> Success
         [] isBackendFailure(err) -> Failure
         [] OTHER -> Neutral
    /\ LET fresh == circuit' # circuit IN
       /\ Turn(fresh)
       /\ call' = IF fresh THEN Plain(back) ELSE back
       /\ stale' = IF fresh THEN 0
                   ELSE IF call[c] = "plain" /\ halfAllowed' > halfAllowed THEN stale + 1 ELSE stale
    /\ UNCHANGED losses

\* GetGenerationBound, GetWithOptions and their like return ErrUnsupported after
\* beforeRequest and without recordOutcome; so does a call that panics.
NeverReports(c) ==
    /\ call[c] # "idle" /\ losses < MaxLost
    /\ losses' = losses + 1
    /\ lost' = IF call[c] = "probe" THEN lost + 1 ELSE lost
    /\ call' = [call EXCEPT ![c] = "idle"]
    /\ UNCHANGED <<circuit, failures, halfAllowed, waited, stale>>

RecoveryTimeout ==
    /\ circuit # "closed" /\ ~waited
    /\ waited' = TRUE
    /\ UNCHANGED <<circuit, failures, halfAllowed, call, lost, stale, losses>>

\* Every operation of the wrapped store: admission, the backend's answer, its report.
Call(c) ==
    \/ beforeRequest(c) \/ NeverReports(c)
    \/ \E err \in {"nil", "object", "failure"} : recordOutcome(c, err)

Next == State \/ RecoveryTimeout \/ \E c \in Calls : Call(c)

-----------------------------------------------------------------------------
\* Well-formed state: an open circuit was opened by a full count of failures or
\* by a probe, and a plain call is never counted among an episode's probes.
TypeOK ==
    /\ circuit \in {"closed", "open", "half-open"}
    /\ failures \in 0..FailureThreshold
    /\ halfAllowed \in 0..HalfOpenMaxRequests
    /\ circuit # "half-open" => Probes = {} /\ lost = 0 /\ stale = 0
    /\ circuit = "closed" => failures < FailureThreshold

\* Every half-open slot is free, with a probe in flight, or lost with a call that
\* never reports; plain calls that answer late can only add slots.  So a circuit
\* that refuses everybody waits for a probe that will decide it, unless a probe
\* was lost (recordOutcome, tryTransition).
SlotsAccounted ==
    circuit = "half-open" =>
        LET slots == halfAllowed + Cardinality(Probes) + lost IN
        /\ HalfOpenMaxRequests <= slots
        /\ slots <= HalfOpenMaxRequests + stale
=============================================================================
