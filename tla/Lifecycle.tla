------------------------------ MODULE Lifecycle ------------------------------
(***************************************************************************)
(* A bucket's lifecycle rules and the sweeps that carry them out.  The     *)
(* rules are written whole by REST or by S3, or half (only the expiration) *)
(* by the S3 DELETE.  LifecycleJob.sweep lists the objects that are due    *)
(* and then handles them one at a time while clients go on writing;        *)
(* RetentionJob purges what was soft-deleted long enough ago.  Both lists  *)
(* are cut at a limit, and rows they may not remove stay at their head.    *)
(* Time is in days and a sweep runs every day.  Blobs, usage and the race  *)
(* between a legal hold and a removal are Maintenance's.                   *)
(***************************************************************************)
EXTENDS Integers, Sequences, FiniteSets, SequencesExt

CONSTANTS
    AgedIds,     \* the object rows, by id
    OldVersions, \* those that start as noncurrent versions
    LockedTo,    \* the day each row is protected up to
    RuleAsks,    \* requests that set the rules: [door, doc]
    FirstRules,  \* rules the bucket may start with, as such requests
    SweepLimit,  \* the 200 of the sweeps
    ScanBatch,   \* lifecycleScanBatchSize
    KeepDays,    \* RetentionJob.retention
    MaxDay, MaxRuleAsks, MaxTouches   \* bounds

VARIABLES
    day,      \* today
    rules,    \* the lifecycle columns of the bucket
    objs,     \* the rows
    job,      \* the sweep under way
    asked,    \* rule requests so far
    touches   \* writes by clients so far

lifeVars == <<day, rules, objs, job, asked, touches>>

Standard == "STANDARD"
NoClass == ""

NoRules == [days |-> 0, action |-> "", nc |-> 0, count |-> 0, trans |-> <<>>,
            ncDays |-> 0, ncClass |-> NoClass]

-----------------------------------------------------------------------------
(* The rules: documents, columns and what is shown of them *)

\* A rule of an S3 document says something of expiration, transition and
\* noncurrent versions, zero where it says nothing.

\* Mutant: a later rule of the document takes the expiration away.
FromRuleResets(lc, rule) ==
    IF ~rule.on THEN lc ELSE
    [lc EXCEPT
       !.days = rule.days, !.action = "soft_delete",
       !.trans = IF rule.trans > 0
                 THEN Append(@, [days |-> rule.trans, class |-> rule.class]) ELSE @]

\* The body of the loop over in.Rules: the last rule of a kind wins, except
\* the transitions, which add up; a disabled rule is skipped.
FromRule(lc, rule) ==
    IF ~rule.on THEN lc ELSE
    [lc EXCEPT
       !.days   = IF rule.days > 0 THEN rule.days ELSE @,
       !.action = IF rule.days > 0 THEN "soft_delete" ELSE @,
       !.trans  = IF rule.trans > 0 /\ rule.class # NoClass
                  THEN Append(@, [days |-> rule.trans, class |-> rule.class]) ELSE @,
       !.nc     = IF rule.nc > 0 THEN rule.nc ELSE @,
       !.ncDays = IF rule.ncDays > 0 /\ rule.ncClass # NoClass THEN rule.ncDays ELSE @,
       !.ncClass = IF rule.ncDays > 0 /\ rule.ncClass # NoClass THEN rule.ncClass ELSE @]

putBucketLifecycle(doc) == FoldLeft(FromRule, NoRules, doc)

\* SetBucketLifecycleFull writes every column.
SetBucketLifecycleFull(lc) ==
    [lc EXCEPT !.action = IF @ = "" /\ lc.days > 0 THEN "soft_delete" ELSE @]

\* SetBucketLifecycle writes the expiration only.
SetBucketLifecycle(old, days, action) ==
    [old EXCEPT !.days = days, !.action = IF action = "" THEN "soft_delete" ELSE action]

\* deleteBucketLifecycle.
deleteBucketLifecycle(old) == SetBucketLifecycle(old, 0, "soft_delete")

\* No number of days or versions is negative.
validateLifecycleConfig(lc) ==
    /\ lc.days >= 0 /\ lc.nc >= 0 /\ lc.count >= 0 /\ lc.ncDays >= 0
    /\ \A i \in DOMAIN lc.trans : lc.trans[i].days >= 0

\* The service's SetBucketLifecycleFull: a refused configuration changes nothing.
Accepted(old, lc) ==
    IF validateLifecycleConfig(lc) THEN SetBucketLifecycleFull(lc) ELSE old

\* What the request leaves in the row.  The body of the REST
\* PutBucketLifecycle is the columns themselves.
Stored(old, ask) ==
    CASE ask.door = "s3"     -> Accepted(old, putBucketLifecycle(ask.doc))
      [] ask.door = "rest"   -> Accepted(old, ask.doc)
      [] ask.door = "delete" -> deleteBucketLifecycle(old)

Shows(days, trans, class, nc, ncDays, ncClass) ==
    [on |-> TRUE, days |-> days, trans |-> trans, class |-> class,
     nc |-> nc, ncDays |-> ncDays, ncClass |-> ncClass]

\* getBucketLifecycle: one rule per configuration type; an empty answer is
\* NoSuchLifecycleConfiguration, also when only noncurrent versions have a rule.
getBucketLifecycle(row) ==
    IF row.days = 0 /\ row.trans = <<>> THEN <<>>
    ELSE (IF row.days > 0 THEN <<Shows(row.days, 0, NoClass, 0, 0, NoClass)>> ELSE <<>>)
         \o [i \in DOMAIN row.trans |->
                Shows(0, row.trans[i].days, row.trans[i].class, 0, 0, NoClass)]
         \o (IF row.nc > 0 THEN <<Shows(0, 0, NoClass, row.nc, 0, NoClass)>> ELSE <<>>)
         \o (IF row.ncDays > 0 /\ row.ncClass # NoClass
             THEN <<Shows(0, 0, NoClass, 0, row.ncDays, row.ncClass)>> ELSE <<>>)

\* The REST GetBucketLifecycle shows every column.
GetBucketLifecycle(row) == [f \in DOMAIN NoRules |-> row[f]]

-----------------------------------------------------------------------------
(* Listing what is due *)

Locked(o) == LockedTo[o] > day

\* Mutant: a batch with nothing due ends the scan.
ScanGivesUp(cands, due, cursor, out) ==
    LET page == SelectSeq(cands, LAMBDA o : o > cursor)
        batch == SubSeq(page, 1, IF Len(page) < ScanBatch THEN Len(page) ELSE ScanBatch)
        found == SelectSeq(batch, LAMBDA o : o \in due)
    IN SubSeq(found, 1, IF Len(found) < SweepLimit THEN Len(found) ELSE SweepLimit)

\* scanLifecycleBatches: batches in id order until enough are found or a
\* batch is short.
RECURSIVE scanLifecycleBatches(_, _, _, _)
scanLifecycleBatches(cands, due, cursor, out) ==
    LET page == SelectSeq(cands, LAMBDA o : o > cursor)
        batch == SubSeq(page, 1, IF Len(page) < ScanBatch THEN Len(page) ELSE ScanBatch)
        found == out \o SelectSeq(batch, LAMBDA o : o \in due)
    IN IF Len(found) >= SweepLimit THEN SubSeq(found, 1, SweepLimit)
       ELSE IF Len(batch) < ScanBatch THEN found
       ELSE scanLifecycleBatches(cands, due, Last(batch), found)

InOrder(s) == SetToSortSeq(s, <)
In(st) == {o \in AgedIds : objs[o].st = st}

\* Mutant: an object expires a day late.
ExpiredLate == {o \in In("live") : rules.days > 0 /\ objs[o].at + rules.days + 1 < day}

\* ListExpired: updated_at plus the days is before now.
Expired == {o \in In("live") : rules.days > 0 /\ objs[o].at + rules.days < day}
ListExpired == scanLifecycleBatches(InOrder(In("live")), Expired, 0, <<>>)

\* ListExpiredNonCurrentVersions, by deleted_at; rows on legal hold are not
\* listed, locked ones are.
Outdated == {o \in In("old") : rules.nc > 0 /\ objs[o].at + rules.nc < day}
ListExpiredNonCurrentVersions ==
    scanLifecycleBatches(InOrder(In("old")), Outdated, 0, <<>>)

\* The first rule old enough whose class the object does not have.
RuleFor(o) == {i \in DOMAIN rules.trans : /\ day >= objs[o].at + rules.trans[i].days
                                          /\ objs[o].class # rules.trans[i].class}
TransitionTo(o) ==
    rules.trans[CHOOSE i \in RuleFor(o) : \A j \in RuleFor(o) : i <= j].class
ListTransitionable ==
    scanLifecycleBatches(InOrder(In("live")), {o \in In("live") : RuleFor(o) # {}}, 0, <<>>)

\* ListSoftDeletedBefore: the oldest deletions first.
Purgeable == {o \in In("soft") : objs[o].at + KeepDays < day}
ListSoftDeletedBefore ==
    LET all == SetToSortSeq(Purgeable, LAMBDA a, b :
                   objs[a].at < objs[b].at \/ (objs[a].at = objs[b].at /\ a < b))
    IN SubSeq(all, 1, IF Len(all) < SweepLimit THEN Len(all) ELSE SweepLimit)

-----------------------------------------------------------------------------
(* The sweeps *)

Phases == <<"expired", "noncurrent", "transitions", "retention">>

Resting == [pc |-> 5, todo |-> <<>>, due |-> {}]

Init ==
    /\ day = 0
    /\ \E ask \in FirstRules : rules = Stored(NoRules, ask)
    /\ objs = [o \in AgedIds |->
                 [st |-> IF o \in OldVersions THEN "old" ELSE "live",
                  class |-> Standard, at |-> 0, born |-> 0, v |-> 0]]
    /\ job = Resting
    /\ asked = 0 /\ touches = 0

\* The rows phase p lists, and the reference: every row that is due and may
\* be removed.
Listed(p) ==
    CASE p = "expired"     -> ListExpired
      [] p = "noncurrent"  -> ListExpiredNonCurrentVersions
      [] p = "transitions" -> ListTransitionable
      [] p = "retention"   -> ListSoftDeletedBefore
Due(p) ==
    CASE p = "expired"     -> Expired
      [] p = "noncurrent"  -> Outdated
      [] p = "transitions" -> {o \in In("live") : RuleFor(o) # {}}
      [] p = "retention"   -> Purgeable

\* A sub-sweep lists; each entry carries the version it saw and, for the
\* expired and the transitioned, what is to be done.
SweepList ==
    /\ job.todo = <<>> /\ job.pc < 5
    /\ LET p == Phases[job.pc]
           list == Listed(p)
       IN job' = [job EXCEPT
             !.pc = IF list = <<>> THEN @ + 1 ELSE @,
             !.todo = [i \in DOMAIN list |->
                         [id |-> list[i], v |-> objs[list[i]].v,
                          what |-> CASE p = "expired" -> rules.action
                                     [] p = "transitions" -> TransitionTo(list[i])
                                     [] OTHER -> "purge"]],
             !.due = {[id |-> o, v |-> objs[o].v, at |-> objs[o].at,
                       class |-> objs[o].class] : o \in Due(p)}]
    /\ UNCHANGED <<day, rules, objs, asked, touches>>

\* canonicalObject: the row is still the one listed.
Same(entry, st) == objs[entry.id].v = entry.v /\ objs[entry.id].st = st

\* handleExpiredObject: a hard delete spares a protected object, a soft
\* delete does not ask.
handleExpiredObject(e) ==
    IF ~Same(e, "live") THEN objs
    ELSE IF e.what # "hard_delete"
         THEN [objs EXCEPT ![e.id].st = "soft", ![e.id].at = day]
    ELSE IF Locked(e.id) THEN objs
    ELSE [objs EXCEPT ![e.id].st = "gone"]

purgeNonCurrentVersion(e) ==
    IF Same(e, "old") /\ ~Locked(e.id) THEN [objs EXCEPT ![e.id].st = "gone"] ELSE objs

\* UpdateObjectStorageClass sets updated_at.
transitionObject(e) ==
    IF Same(e, "live") /\ objs[e.id].class # e.what
    THEN [objs EXCEPT ![e.id].class = e.what, ![e.id].at = day] ELSE objs

purgeOneSoftDeleted(e) ==
    IF Same(e, "soft") /\ ~Locked(e.id) THEN [objs EXCEPT ![e.id].st = "gone"] ELSE objs

SweepOne ==
    /\ job.todo # <<>>
    /\ LET e == Head(job.todo)
           p == Phases[job.pc]
       IN objs' = CASE p = "expired"     -> handleExpiredObject(e)
                    [] p = "noncurrent"  -> purgeNonCurrentVersion(e)
                    [] p = "transitions" -> transitionObject(e)
                    [] p = "retention"   -> purgeOneSoftDeleted(e)
    /\ job' = [job EXCEPT !.todo = Tail(@), !.pc = IF Len(job.todo) = 1 THEN @ + 1 ELSE @]
    /\ UNCHANGED <<day, rules, asked, touches>>

\* A day passes and its sweeps start.
NextDay ==
    /\ job.pc = 5 /\ day < MaxDay
    /\ day' = day + 1
    /\ job' = [Resting EXCEPT !.pc = 1]
    /\ UNCHANGED <<rules, objs, asked, touches>>

-----------------------------------------------------------------------------
(* Clients *)

SetsRules ==
    /\ asked < MaxRuleAsks /\ asked' = asked + 1
    /\ \E ask \in RuleAsks : rules' = Stored(rules, ask)
    /\ UNCHANGED <<day, objs, job, touches>>

\* A new version of the object, or (UpdateTags) only a new updated_at.
Touches(o) ==
    /\ touches < MaxTouches /\ touches' = touches + 1
    /\ objs[o].st = "live"
    /\ \E v \in {objs[o].v, objs[o].v + 1} :
          objs' = [objs EXCEPT ![o].v = v, ![o].at = day, ![o].born = day,
                      ![o].class = IF v = objs[o].v THEN @ ELSE Standard]
    /\ UNCHANGED <<day, rules, job, asked>>

Next ==
    \/ SweepList \/ SweepOne \/ NextDay \/ SetsRules
    \/ \E o \in AgedIds : Touches(o)

Spec == Init /\ [][Next]_lifeVars

-----------------------------------------------------------------------------
TypeOK ==
    /\ day \in 0..MaxDay /\ asked \in 0..MaxRuleAsks /\ touches \in 0..MaxTouches
    /\ DOMAIN rules = DOMAIN NoRules
    /\ \A o \in AgedIds : /\ objs[o].st \in {"live", "old", "soft", "gone"}
                          /\ objs[o].at \in 0..day /\ objs[o].born \in 0..objs[o].at
    /\ job.pc \in 1..5

\* What a sub-sweep has left although it was due when the sub-sweep listed
\* (scanLifecycleBatches, ListSoftDeletedBefore): it is protected, a client
\* wrote it meanwhile, or rows the sweep may not remove filled the list ahead
\* of it.
SweepMisses(p) ==
    {d \in job.due : LET o == d.id IN
        /\ objs[o].v = d.v /\ objs[o].at = d.at /\ objs[o].class = d.class
        /\ ~Locked(o)
        /\ objs[o].st = CASE p = "noncurrent" -> "old" [] p = "retention" -> "soft"
                          [] OTHER -> "live"
        /\ Cardinality({e \in job.due : e.id # o /\ (e.at < d.at \/ e.id < o)}) < SweepLimit}

\* A row that is due, may be removed and is not kept out by the limit does
\* not outlive the sub-sweep (sweepExpired, sweepNonCurrentVersions,
\* purgeSoftDeleted): it is judged when the sub-sweep's last entry is done.
SweptInTurn ==
    job.todo = <<>> /\ job.pc \in 2..5 /\ job.due # {}
        => SweepMisses(Phases[job.pc - 1]) = {}

\* How long an object outlives its last write under the rules: the days of
\* the expiration, and once more those of the transition that reset its age.
LongestLife(lc) ==
    lc.days + (IF lc.trans # <<>> /\ lc.trans[1].days <= lc.days
               THEN lc.trans[1].days ELSE 0)

\* With at most one transition rule, and as long as the rules stay as they
\* are, an unprotected object is removed within that time.  It is not so with
\* two: each change of class resets updated_at, from which ListExpired counts,
\* and the two rules hand the object to and fro.
ExpiresInTime ==
    asked = 0 /\ job.pc = 5 /\ rules.days > 0 /\ Len(rules.trans) <= 1
    /\ Cardinality({o \in AgedIds : Locked(o)}) < SweepLimit
    /\ Cardinality(AgedIds \ OldVersions) <= SweepLimit
        => \A o \in In("live") : Locked(o) \/ day <= objs[o].born + LongestLife(rules)

\* What S3 shows of rules that S3 wrote writes the same rules again
\* (getBucketLifecycle, putBucketLifecycle), unless they are about
\* noncurrent versions only, which it does not show.  What REST shows always
\* does.
RulesRoundTrip(doc) ==
    LET row == SetBucketLifecycleFull(putBucketLifecycle(doc))
        shown == getBucketLifecycle(row)
    IN /\ Stored(NoRules, [door |-> "rest", doc |-> GetBucketLifecycle(row)]) = row
       /\ \/ Stored(NoRules, [door |-> "s3", doc |-> shown]) = row
          \/ row.days = 0 /\ row.trans = <<>>

\* After the S3 DELETE nothing expires any more, but the transitions and the
\* rules for noncurrent versions stay in force (deleteBucketLifecycle).
DeleteKeepsTheRest(doc) ==
    LET row == SetBucketLifecycleFull(putBucketLifecycle(doc))
        left == deleteBucketLifecycle(row)
    IN left.days = 0 /\ left.nc = row.nc /\ left.trans = row.trans

=============================================================================
