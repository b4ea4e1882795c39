------------------------- MODULE ObjectWorkersProofs -------------------------
(***************************************************************************)
(* In a versioned bucket the workers' records are sound, for any number of *)
(* uploads, events, faults and restarts.                                   *)
(***************************************************************************)
EXTENDS ObjectWorkers, TLAPS

\* Row id belongs to upload id, and so do the blobs stored under its key.
OwnContent ==
    /\ put.at = "blob" => puts >= 1 /\ rows[puts].state = "none"
    /\ put.at = "row" => put.id \in Ids /\ rows[put.id].state # "none"
    /\ \A id \in Ids :
          /\ rows[id].state = "none" => rows[id] = NoRow
          /\ rows[id].state # "none" => rows[id].content = id /\ id <= puts
          /\ blob[id] \in {0, id} /\ replica[id] \in {0, id}

\* Events and jobs are of rows that were written.
Announced ==
    /\ \A t \in Types : \A k \in 1..Len(chan[t]) : rows[chan[t][k]].state # "none"
    /\ \A t \in Types, id \in Ids : job[t][id] # "none" => rows[id].state # "none"

\* What tags say of row id is true, on the row and in a handler's hands.
TagsTrue(tags, id) ==
    /\ tags.av # "none" => id <= puts /\ (tags.av = "infected" <=> id \in Infected)
    /\ tags.repl = "replicated" => replica[id] = id

\* What the handler of job t for row id holds.
Holds(t, id) ==
    LET l == local[t][id] IN
    /\ TagsTrue(l.tags, id)
    /\ job[t][id] # "running" => l = Idle
    /\ l.content # 0 => l.content = id
    /\ t = "scan" /\ l.pc \in {"tag", "quarantine"} => l.content = id
    /\ t = "replicate" /\ l.pc = "apply" => l.content = id
    /\ t = "replicate" /\ l.pc = "tag" /\ l.content # 0 => replica[id] = id
    /\ l.pc = "quarantine" => t = "scan" /\ id \in Infected

Handled == \A t \in Types, id \in Ids : Holds(t, id)

IInv ==
    /\ TypeOK /\ OwnContent /\ Announced /\ Handled
    /\ \A id \in Ids : TagsTrue(rows[id].tags, id)
    /\ QuarantineSound

-----------------------------------------------------------------------------

\* An upload's kind, once known, stays.
LEMMA KindKept ==
    ASSUME kind \in Seq(Kinds), NEW k, kind' = Append(kind, k), k \in Kinds
    PROVE  /\ kind' \in Seq(Kinds) /\ puts' = puts + 1
           /\ Infected \subseteq 1..puts
           /\ \A id \in 1..puts : (id \in Infected') <=> (id \in Infected)
  BY DEF puts, Infected

\* An empty bucket satisfies IInv.
LEMMA InitIInv == Versioned /\ Init => IInv
  <1> SUFFICES ASSUME Versioned, Init PROVE IInv
    BY Zenon
  <1> USE WorkersAssumption DEF Init, NoPut, NoRow, NewTags, Idle, Types
  <1>1. TypeOK
    BY DEF TypeOK, puts, Row, States, Tags, Local, Ids
  <1>2. OwnContent /\ Announced
    BY DEF OwnContent, Announced, puts, Ids
  <1>3. Handled /\ \A id \in Ids : TagsTrue(rows[id].tags, id)
    BY Zenon DEF Handled, Holds, TagsTrue
  <1> QED BY <1>1, <1>2, <1>3, Zenon DEF IInv, QuarantineSound

\* An upload's blob is written under its own key.
LEMMA PutBlobStep == Versioned /\ IInv /\ PutBlob => IInv'
  <1> SUFFICES ASSUME Versioned, IInv, PutBlob PROVE IInv'
    BY Zenon
  <1> USE WorkersAssumption
  <1>1. PICK k \in Kinds : kind' = Append(kind, k)
    BY Zenon DEF PutBlob
  <1>2. /\ kind' \in Seq(Kinds) /\ puts' = puts + 1
        /\ Infected \subseteq 1..puts
        /\ \A id \in 1..puts : (id \in Infected') <=> (id \in Infected)
    BY <1>1, KindKept, Zenon DEF IInv, TypeOK
  <1>3. puts \in Nat /\ puts + 1 \in Ids /\ puts < MaxPuts
    BY DEF IInv, TypeOK, PutBlob, puts, Ids
  <1>4. TypeOK'
    BY <1>2, <1>3 DEF IInv, TypeOK, PutBlob, Ids, KeyOf
  <1>5. OwnContent' /\ Announced'
    BY <1>2, <1>3 DEF IInv, TypeOK, OwnContent, Announced, PutBlob, Ids, KeyOf
  <1>6. ASSUME NEW tags, NEW id \in Ids, TagsTrue(tags, id)
        PROVE  TagsTrue(tags, id)'
    BY <1>2, <1>3, <1>6 DEF TagsTrue, PutBlob, Ids
  <1>7. Handled'
    BY <1>2, <1>3, <1>6 DEF IInv, Handled, Holds, TypeOK, OwnContent, PutBlob, Ids
  <1>8. (\A id \in Ids : TagsTrue(rows[id].tags, id))'
    BY <1>6, Zenon DEF IInv, PutBlob
  <1>9. QuarantineSound'
    BY <1>2, <1>3, Zenon DEF IInv, QuarantineSound, OwnContent, PutBlob, Ids
  <1> QED BY <1>4, <1>5, <1>7, <1>8, <1>9, Zenon DEF IInv

\* What tags say does not change while uploads and replica do not.
LEMMA TagsKept ==
    ASSUME NEW tags, NEW id, UNCHANGED <<kind, replica>>
    PROVE  TagsTrue(tags, id)' <=> TagsTrue(tags, id)
  BY Zenon DEF TagsTrue, Infected, puts

\* An upload's row is written.
LEMMA PutRowStep == Versioned /\ IInv /\ PutRow => IInv'
  <1> SUFFICES ASSUME Versioned, IInv, PutRow PROVE IInv'
    BY Zenon
  <1> USE WorkersAssumption
  <1> DEFINE new == [state |-> "live", content |-> puts, tags |-> NewTags(puts)]
  <1>1. /\ put.at = "blob" /\ puts' = puts /\ Infected' = Infected
        /\ puts \in Ids /\ rows[puts] = NoRow
    BY DEF PutRow, IInv, OwnContent, TypeOK, Ids, puts, Infected
  <1>2. /\ put' = [at |-> "row", id |-> puts]
        /\ rows' = [i \in Ids |->
                       IF i = puts THEN new
                       ELSE IF i \in Live THEN [rows[i] EXCEPT !.state = "tombstone"]
                       ELSE rows[i]]
    BY Zenon DEF PutRow
  <1>3. new \in Row
    BY <1>1 DEF Row, States, Tags, NewTags, Ids
  <1>4. ASSUME NEW i \in Ids, i # puts
        PROVE  /\ rows'[i] \in Row
               /\ rows'[i].content = rows[i].content
               /\ rows'[i].tags = rows[i].tags
               /\ rows[i].state = "none" => rows'[i] = rows[i]
               /\ rows[i].state # "none" => rows'[i].state # "none"
               /\ rows'[i].state = "quarantined" => rows[i].state = "quarantined"
    BY <1>2, <1>4, Zenon DEF IInv, TypeOK, Row, States, Live
  <1>11. /\ rows'[puts] \in Row /\ rows'[puts].state = "live"
         /\ rows'[puts].content = puts /\ rows'[puts].tags = NewTags(puts)
    BY <1>1, <1>2, <1>3, Zenon
  <1>12. /\ put'.at = "row" /\ put'.id = puts
         /\ UNCHANGED <<blob, replica, chan, job>>
    BY <1>2, Zenon DEF PutRow
  <1>5. TypeOK'
    <2>1. rows' \in [Ids -> Row]
      BY <1>2, <1>4, <1>11, Zenon
    <2> QED BY <1>1, <1>2, <2>1 DEF IInv, TypeOK, PutRow, Ids
  <1> HIDE DEF new
  <1>13. \A i \in Ids : rows[i].state # "none" => rows'[i].state # "none"
    BY <1>4, <1>11, Zenon
  <1>6. OwnContent'
    <2>1. ASSUME NEW i \in Ids
          PROVE  /\ rows'[i].state = "none" => rows'[i] = NoRow
                 /\ rows'[i].state # "none" => rows'[i].content = i /\ i <= puts
                 /\ blob'[i] \in {0, i} /\ replica'[i] \in {0, i}
      <3>1. CASE i = puts
        BY <1>1, <1>11, <1>12, <3>1 DEF IInv, OwnContent, Ids
      <3>2. CASE i # puts
        <4>1. /\ rows[i].state = "none" => rows[i] = NoRow
              /\ rows[i].state # "none" => rows[i].content = i /\ i <= puts
              /\ blob[i] \in {0, i} /\ replica[i] \in {0, i}
          BY Zenon DEF IInv, OwnContent
        <4> QED BY <1>4, <1>12, <3>2, <4>1, Zenon
      <3> QED BY <3>1, <3>2, Zenon
    <2> QED BY <1>1, <1>11, <1>12, <2>1, Zenon DEF OwnContent
  <1>7. Announced'
    <2>1. \A t \in Types : chan[t] \in Seq(Ids)
      BY Zenon DEF IInv, TypeOK
    <2> QED BY <1>12, <1>13, <2>1 DEF IInv, Announced
  <1>8. Handled'
    BY <1>1, TagsKept DEF IInv, Handled, Holds, PutRow
  <1>9. (\A id \in Ids : TagsTrue(rows[id].tags, id))'
    <2>1. TagsTrue(NewTags(puts), puts)'
      BY Zenon DEF TagsTrue, NewTags
    <2> QED BY <1>1, <1>4, <1>11, <2>1, TagsKept DEF IInv, PutRow
  <1>10. QuarantineSound'
    BY <1>1, <1>4, <1>11, Zenon DEF IInv, QuarantineSound
  <1> QED BY <1>5, <1>6, <1>7, <1>8, <1>9, <1>10, Zenon DEF IInv

\* Steps that leave uploads, rows and both backends alone.
LEMMA WorldKept ==
    ASSUME IInv, UNCHANGED <<kind, world>>,
           put' = put \/ put'.at = "idle", TypeOK', Announced', Handled'
    PROVE  IInv'
  <1>1. puts' = puts /\ Infected' = Infected
    BY Zenon DEF puts, Infected
  <1>2. OwnContent'
    BY <1>1, Zenon DEF IInv, OwnContent, world
  <1>3. (\A id \in Ids : TagsTrue(rows[id].tags, id))'
    BY TagsKept, Zenon DEF IInv, world
  <1>4. QuarantineSound'
    BY <1>1, Zenon DEF IInv, QuarantineSound, world
  <1> QED BY <1>2, <1>3, <1>4, Zenon DEF IInv

\* The upload is announced to the subscribers.
LEMMA PublishStep == IInv /\ Publish => IInv'
  <1> SUFFICES ASSUME IInv, Publish PROVE IInv'
    BY Zenon
  <1> USE WorkersAssumption
  <1>1. put.at = "row" /\ put.id \in Ids /\ rows[put.id].state # "none"
    BY Zenon DEF IInv, OwnContent, Publish
  <1>2. ASSUME NEW t \in Types
        PROVE  /\ chan'[t] \in Seq(Ids) /\ Len(chan'[t]) <= SubBuffer
               /\ \A k \in 1..Len(chan'[t]) : rows[chan'[t][k]].state # "none"
    <2>1. chan'[t] = IF Len(chan[t]) < SubBuffer THEN Append(chan[t], put.id) ELSE chan[t]
      BY Zenon DEF Publish, broadcast
    <2>2. /\ chan[t] \in Seq(Ids) /\ Len(chan[t]) <= SubBuffer
          /\ \A k \in 1..Len(chan[t]) : rows[chan[t][k]].state # "none"
      BY Zenon DEF IInv, TypeOK, Announced
    <2> QED BY <1>1, <2>1, <2>2
  <1>3. TypeOK'
    BY <1>2 DEF IInv, TypeOK, Publish, NoPut, world, puts
  <1>4. Announced'
    BY <1>2, Zenon DEF IInv, Announced, Publish, world
  <1>5. Handled'
    BY TagsKept DEF IInv, Handled, Holds, Publish, world, Infected, puts
  <1> QED BY <1>3, <1>4, <1>5, WorldKept, Zenon DEF Publish, NoPut

\* An object is soft-deleted.
LEMMA SoftDeleteStep == IInv /\ SoftDelete => IInv'
  <1> SUFFICES ASSUME IInv, SoftDelete PROVE IInv'
    BY Zenon
  <1> USE WorkersAssumption
  <1>1. PICK id \in Live : rows' = [rows EXCEPT ![id].state = "deleted"]
    BY Zenon DEF SoftDelete
  <1>2. /\ puts' = puts /\ Infected' = Infected
        /\ id \in Ids /\ rows[id].state = "live"
    BY Zenon DEF SoftDelete, puts, Infected, Live
  <1>3. ASSUME NEW i \in Ids
        PROVE  /\ rows'[i] \in Row
               /\ rows'[i].content = rows[i].content
               /\ rows'[i].tags = rows[i].tags
               /\ rows'[i].state = rows[i].state \/ (rows[i].state = "live" /\ rows'[i].state = "deleted")
               /\ rows[i].state = "none" => rows'[i] = rows[i]
    BY <1>1, <1>2, Zenon DEF IInv, TypeOK, Row, States
  <1>4. TypeOK'
    BY <1>1, <1>2, <1>3, Zenon DEF IInv, TypeOK, SoftDelete
  <1>9. \A i \in Ids : rows[i].state # "none" => rows'[i].state # "none"
    BY <1>3, Zenon
  <1>10. OwnContent'
    BY <1>2, <1>3 DEF IInv, OwnContent, SoftDelete, NoPut
  <1>5. Announced'
    <2>1. \A t \in Types : chan[t] \in Seq(Ids)
      BY Zenon DEF IInv, TypeOK
    <2> QED BY <1>9, <2>1 DEF IInv, Announced, SoftDelete
  <1>6. Handled'
    BY <1>2, TagsKept DEF IInv, Handled, Holds, SoftDelete
  <1>7. (\A j \in Ids : TagsTrue(rows[j].tags, j))'
    BY <1>3, TagsKept, Zenon DEF IInv, SoftDelete
  <1>8. QuarantineSound'
    BY <1>2, <1>3, Zenon DEF IInv, QuarantineSound
  <1> QED BY <1>4, <1>5, <1>6, <1>7, <1>8, <1>10, Zenon DEF IInv

\* Jobs that are none, pending or running stay so when one of them changes.
LEMMA JobSet ==
    ASSUME TypeOK, NEW t \in Types, NEW id \in Ids,
           NEW status \in {"none", "pending", "running"}
    PROVE  LET new == [job EXCEPT ![t][id] = status] IN
           /\ new \in [Types -> [Ids -> {"none", "pending", "running"}]]
           /\ new[t][id] = status
           /\ \A s \in Types, i \in Ids : <<s, i>> # <<t, id>> => new[s][i] = job[s][i]
  BY Zenon DEF TypeOK, Types

\* Setting one handler's record leaves the others.
LEMMA LocalSet ==
    ASSUME TypeOK, NEW t \in Types, NEW id \in Ids, NEW l \in Local
    PROVE  LET new == [local EXCEPT ![t][id] = l] IN
           /\ new \in [Types -> [Ids -> Local]]
           /\ new[t][id] = l
           /\ \A s \in Types, i \in Ids : <<s, i>> # <<t, id>> => new[s][i] = local[s][i]
  BY Zenon DEF TypeOK, Types

\* A job enters the table for a row that was written.
LEMMA EnqueueStep ==
    ASSUME IInv, NEW t \in Types, NEW id \in Ids, rows[id].state # "none",
           UNCHANGED <<kind, put, world, local>>, job' = Enqueued(t, id),
           chan' \in [Types -> Seq(Ids)],
           \A s \in Types : /\ Len(chan'[s]) <= SubBuffer
                           /\ \A k \in 1..Len(chan'[s]) : rows[chan'[s][k]].state # "none",
           faults' \in 0..MaxFaults
    PROVE  IInv'
  <1>1. TypeOK /\ Types = {"scan", "replicate"}
    BY Zenon DEF IInv, Types
  <1>2. /\ job' \in [Types -> [Ids -> {"none", "pending", "running"}]]
        /\ \A s \in Types, i \in Ids :
              \/ job'[s][i] = job[s][i]
              \/ s = t /\ i = id /\ job[s][i] = "none" /\ job'[s][i] = "pending"
    BY <1>1, JobSet DEF Enqueued, TypeOK
  <1>3. TypeOK'
    BY <1>1, <1>2, Zenon DEF TypeOK, world, puts
  <1>4. Announced'
    <2>1. \A s \in Types, i \in Ids : job'[s][i] # "none" => rows[i].state # "none"
      <3>1. \A s \in Types, i \in Ids : job[s][i] # "none" => rows[i].state # "none"
        BY Zenon DEF IInv, Announced
      <3> QED BY <1>2, <3>1
    <2> QED BY <2>1, Zenon DEF Announced, world
  <1>5. Handled'
    <2> SUFFICES ASSUME NEW s \in Types, NEW i \in Ids PROVE Holds(s, i)'
      BY Zenon DEF Handled
    <2>1. Holds(s, i) /\ local'[s][i] = local[s][i]
      BY Zenon DEF IInv, Handled
    <2>2. job'[s][i] # "running" => job[s][i] # "running"
      BY <1>2, Zenon
    <2> QED BY <2>1, <2>2, TagsKept, Zenon DEF Holds, world, Infected, puts
  <1> QED BY <1>3, <1>4, <1>5, WorldKept, Zenon

\* The bridge turns an event into a job.
LEMMA BridgeStep == ASSUME NEW t \in Types, IInv, Bridge(t) PROVE IInv'
  <1> USE WorkersAssumption
  <1>1. /\ chan[t] \in Seq(Ids) /\ chan[t] # <<>>
        /\ chan' = [chan EXCEPT ![t] = Tail(@)] /\ DOMAIN chan = Types
    BY Zenon DEF IInv, TypeOK, Bridge
  <1>2. /\ chan' \in [Types -> Seq(Ids)]
        /\ \A s \in Types : /\ Len(chan'[s]) <= SubBuffer
                            /\ \A k \in 1..Len(chan'[s]) : rows[chan'[s][k]].state # "none"
    <2> DEFINE q == chan[t]
    <2>1. /\ Tail(q) \in Seq(Ids) /\ Len(Tail(q)) < Len(q)
          /\ \A k \in 1..Len(Tail(q)) : k + 1 \in 1..Len(q) /\ Tail(q)[k] = q[k + 1]
      BY <1>1
    <2>2. /\ \A k \in 1..Len(q) : rows[q[k]].state # "none"
          /\ Len(q) <= SubBuffer
      BY Zenon DEF IInv, TypeOK, Announced
    <2>3. /\ Len(Tail(q)) <= SubBuffer
          /\ \A k \in 1..Len(Tail(q)) : rows[Tail(q)[k]].state # "none"
      BY <1>1, <2>1, <2>2
    <2>4. chan'[t] = Tail(q) /\ \A s \in Types \ {t} : chan'[s] = chan[s]
      BY <1>1, Zenon
    <2>5. chan' \in [Types -> Seq(Ids)]
      BY <1>1, <2>1, Zenon DEF IInv, TypeOK
    <2> HIDE DEF q
    <2>6. ASSUME NEW s \in Types
          PROVE  /\ Len(chan'[s]) <= SubBuffer
                 /\ \A k \in 1..Len(chan'[s]) : rows[chan'[s][k]].state # "none"
      <3>1. CASE s = t
        BY <2>3, <2>4, <3>1, Zenon
      <3>2. CASE s # t
        <4>1. /\ Len(chan[s]) <= SubBuffer
              /\ \A k \in 1..Len(chan[s]) : rows[chan[s][k]].state # "none"
          BY Zenon DEF IInv, TypeOK, Announced
        <4>2. chan'[s] = chan[s]
          BY <2>4, <3>2, Zenon
        <4> QED BY <4>1, <4>2, Zenon
      <3> QED BY <3>1, <3>2, Zenon
    <2> QED BY <2>5, <2>6, Zenon
  <1>3. Head(chan[t]) \in Ids /\ rows[Head(chan[t])].state # "none"
    BY <1>1 DEF IInv, Announced
  <1>4. CASE job' = Enqueued(t, Head(chan[t])) /\ UNCHANGED faults
    BY <1>2, <1>3, <1>4, EnqueueStep, Zenon DEF Bridge, IInv, TypeOK
  <1>5. CASE UNCHANGED job /\ faults < MaxFaults /\ faults' = faults + 1
    <2>1. TypeOK'
      BY <1>2, <1>5 DEF IInv, TypeOK, Bridge, world, puts
    <2>2. Announced'
      BY <1>2, <1>5, Zenon DEF IInv, Announced, Bridge, world
    <2>3. Handled'
      BY <1>5, TagsKept DEF IInv, Handled, Holds, Bridge, world, Infected, puts
    <2> QED BY <2>1, <2>2, <2>3, WorldKept, Zenon DEF Bridge
  <1> QED BY <1>4, <1>5, Zenon DEF Bridge

\* The replication sweep enqueues a job for an object without a replica.
LEMMA SweepStep == ASSUME NEW id \in Ids, IInv, sweepObject(id) PROVE IInv'
  <1>1. rows[id].state # "none" /\ "replicate" \in Types
    BY Zenon DEF sweepObject, NeedsReplication, Live, Types
  <1>2. /\ chan' \in [Types -> Seq(Ids)]
        /\ \A s \in Types : /\ Len(chan'[s]) <= SubBuffer
                            /\ \A k \in 1..Len(chan'[s]) : rows[chan'[s][k]].state # "none"
    BY Zenon DEF IInv, TypeOK, Announced, sweepObject
  <1> QED BY <1>1, <1>2, EnqueueStep, Zenon DEF sweepObject, IInv, TypeOK

-----------------------------------------------------------------------------
(* The handlers. *)

\* A step of one handler leaves what the others hold, and adds to the replica
\* at most a row's own content.
LEMMA OthersHold ==
    ASSUME IInv, NEW t \in Types, NEW id \in Ids,
           NEW status \in {"none", "pending", "running"}, NEW l \in Local,
           job' = [job EXCEPT ![t][id] = status],
           local' = [local EXCEPT ![t][id] = l],
           UNCHANGED kind, \A i \in Ids : replica'[i] \in {replica[i], i},
           Holds(t, id)'
    PROVE  /\ job' \in [Types -> [Ids -> {"none", "pending", "running"}]]
           /\ local' \in [Types -> [Ids -> Local]]
           /\ \A s \in Types, i \in Ids : <<s, i>> # <<t, id>> => job'[s][i] = job[s][i]
           /\ job'[t][id] = status /\ Handled'
  <1>1. TypeOK
    BY Zenon DEF IInv
  <1>2. /\ job' \in [Types -> [Ids -> {"none", "pending", "running"}]]
        /\ job'[t][id] = status
        /\ \A s \in Types, i \in Ids : <<s, i>> # <<t, id>> => job'[s][i] = job[s][i]
    BY <1>1, JobSet
  <1>3. /\ local' \in [Types -> [Ids -> Local]]
        /\ \A s \in Types, i \in Ids : <<s, i>> # <<t, id>> => local'[s][i] = local[s][i]
    BY <1>1, LocalSet
  <1>4. ASSUME NEW s \in Types, NEW i \in Ids PROVE Holds(s, i)'
    <2>1. CASE s = t /\ i = id
      BY <2>1, Zenon
    <2>2. CASE <<s, i>> # <<t, id>>
      <3>1. Holds(s, i) /\ local'[s][i] = local[s][i] /\ job'[s][i] = job[s][i]
        BY <1>2, <1>3, <2>2, Zenon DEF IInv, Handled
      <3>2. puts' = puts /\ Infected' = Infected
        BY Zenon DEF puts, Infected
      <3>3. TagsTrue(local[s][i].tags, i) => TagsTrue(local[s][i].tags, i)'
        BY <3>1, <3>2, Zenon DEF TagsTrue
      <3> QED BY <3>1, <3>2, <3>3, Zenon DEF Holds
    <2> QED BY <2>1, <2>2, Zenon
  <1> QED BY <1>2, <1>3, <1>4, Zenon DEF Handled

\* A handler moves without touching a row or a backend.
LEMMA HandlerMove ==
    ASSUME IInv, NEW t \in Types, NEW id \in Ids, job[t][id] # "none",
           NEW status \in {"none", "pending", "running"}, NEW l \in Local,
           job' = [job EXCEPT ![t][id] = status],
           local' = [local EXCEPT ![t][id] = l],
           UNCHANGED <<kind, put, world, chan>>, faults' \in 0..MaxFaults,
           Holds(t, id)'
    PROVE  IInv'
  <1>1. /\ job' \in [Types -> [Ids -> {"none", "pending", "running"}]]
        /\ local' \in [Types -> [Ids -> Local]] /\ Handled'
        /\ \A s \in Types, i \in Ids : <<s, i>> # <<t, id>> => job'[s][i] = job[s][i]
    BY OthersHold, Zenon DEF world
  <1>2. TypeOK'
    BY <1>1, Zenon DEF IInv, TypeOK, world, puts
  <1>3. Announced'
    <2>1. \A s \in Types, i \in Ids : job[s][i] # "none" => rows[i].state # "none"
      BY Zenon DEF IInv, Announced
    <2>2. \A s \in Types, i \in Ids : job'[s][i] # "none" => rows[i].state # "none"
      BY <1>1, <2>1
    <2> QED BY <2>2, Zenon DEF IInv, Announced, world
  <1> QED BY <1>1, <1>2, <1>3, WorldKept, Zenon

\* An idle handler has nothing that could be wrong.
LEMMA IdleHolds ==
    ASSUME NEW t, NEW id, local'[t][id] = Idle
    PROVE  Holds(t, id)'
  BY DEF Holds, Idle, TagsTrue, NewTags

\* The records a handler starts with are handler records.
LEMMA IdleType == Idle \in Local /\ \A pc \in {"load", "fetch"} : [Idle EXCEPT !.pc = pc] \in Local
  BY WorkersAssumption DEF Idle, Local, Tags, NewTags

\* A worker claims a job.
LEMMA ClaimJobStep ==
    ASSUME NEW t \in Types, NEW id \in Ids, IInv, ClaimJob(t, id) PROVE IInv'
  <1> DEFINE l == [pc |-> "load", tags |-> NewTags(0), content |-> 0]
  <1>1. l \in Local
    BY WorkersAssumption DEF Local, Tags, NewTags
  <1>2. job' = [job EXCEPT ![t][id] = "running"] /\ local' = [local EXCEPT ![t][id] = l]
    BY Zenon DEF ClaimJob, Goto
  <1>3. local'[t][id] = l /\ job'[t][id] = "running"
    BY <1>1, <1>2, Zenon DEF IInv, TypeOK
  <1>4. Holds(t, id)'
    BY <1>3 DEF Holds, TagsTrue, NewTags
  <1>5. UNCHANGED <<kind, put, world, chan>> /\ faults' \in 0..MaxFaults /\ job[t][id] # "none"
    BY Zenon DEF ClaimJob, IInv, TypeOK
  <1> QED BY <1>1, <1>2, <1>4, <1>5, HandlerMove, Zenon

\* A handler fails and its job is retried or dropped.
LEMMA FailStep ==
    ASSUME NEW t \in Types, NEW id \in Ids, IInv, HandlerFails(t, id) PROVE IInv'
  <1>1. PICK status \in {"pending", "none"} : Done(t, id, status)
    BY Zenon DEF HandlerFails
  <1>2. Idle \in Local
    BY IdleType, Zenon
  <1>3. local'[t][id] = Idle
    BY <1>1, <1>2, Zenon DEF IInv, TypeOK, Done
  <1>4. UNCHANGED <<kind, put, world, chan>> /\ faults' \in 0..MaxFaults /\ job[t][id] # "none"
    BY WorkersAssumption DEF HandlerFails, IInv, TypeOK
  <1> QED BY <1>1, <1>2, <1>3, <1>4, IdleHolds, HandlerMove, Zenon DEF Done

\* Keeping the job.
LEMMA JobKept ==
    ASSUME TypeOK, NEW t \in Types, NEW id \in Ids, UNCHANGED job
    PROVE  job' = [job EXCEPT ![t][id] = job[t][id]]
  BY Zenon DEF TypeOK

\* A handler loads the row.
LEMMA LoadStep ==
    ASSUME NEW t \in Types, NEW id \in Ids, IInv, Load(t, id) PROVE IInv'
  <1> DEFINE pc == IF t = "replicate" /\ rows[id].content \in SSEC THEN "tag" ELSE "fetch"
             l == [pc |-> pc, tags |-> rows[id].tags, content |-> 0]
  <1>1. job[t][id] = "running" /\ UNCHANGED job
    BY Zenon DEF Load, At
  <1>2. rows[id] \in Row
    BY Zenon DEF IInv, TypeOK
  <1>3. l \in Local
    BY <1>2, WorkersAssumption, SMTT(20) DEF Local, Row
  <1>4. local' = [local EXCEPT ![t][id] = l]
    BY Zenon DEF Load, Goto
  <1>5. local'[t][id] = l
    BY <1>3, <1>4, Zenon DEF IInv, TypeOK
  <1>6. TagsTrue(rows[id].tags, id)'
    BY TagsKept, Zenon DEF IInv, Load, world
  <1>7. /\ local'[t][id].tags = rows'[id].tags /\ local'[t][id].content = 0
        /\ local'[t][id].pc \in {"tag", "fetch"}
        /\ t = "scan" => local'[t][id].pc = "fetch"
    BY <1>5 DEF Load, world
  <1>8. Holds(t, id)'
    BY <1>1, <1>6, <1>7, Zenon DEF Holds, Types
  <1>9. UNCHANGED <<kind, put, world, chan>> /\ faults' \in 0..MaxFaults
    BY Zenon DEF Load, IInv, TypeOK
  <1>10. TypeOK
    BY Zenon DEF IInv
  <1> HIDE DEF l
  <1> QED BY <1>1, <1>3, <1>4, <1>8, <1>9, <1>10, JobKept, HandlerMove, Zenon

\* A handler reads the blob.
LEMMA FetchStep ==
    ASSUME Versioned, NEW t \in Types, NEW id \in Ids, IInv, Fetch(t, id) PROVE IInv'
  <1> DEFINE l == [pc |-> IF t = "replicate" THEN "apply" ELSE "tag",
                   tags |-> local[t][id].tags, content |-> blob[KeyOf(id)]]
  <1>1. job[t][id] = "running" /\ UNCHANGED job
    BY Zenon DEF Fetch, At
  <1>2. local[t][id] \in Local /\ blob[id] \in 0..MaxPuts /\ KeyOf(id) = id
    BY Zenon DEF IInv, TypeOK, KeyOf
  <1>3. l \in Local
    BY <1>2, WorkersAssumption, Zenon DEF Local
  <1>4. local' = [local EXCEPT ![t][id] = l]
    BY Zenon DEF Fetch, Goto
  <1>5. local'[t][id] = l
    BY <1>3, <1>4, Zenon DEF IInv, TypeOK
  <1>6. TagsTrue(local[t][id].tags, id)
    BY Zenon DEF IInv, Handled, Holds
  <1>7. blob[id] = id
    BY <1>2, Zenon DEF Fetch, IInv, OwnContent
  <1>8. /\ local'[t][id].tags = local[t][id].tags /\ local'[t][id].content = id
        /\ local'[t][id].pc = IF t = "replicate" THEN "apply" ELSE "tag"
    BY <1>2, <1>5, <1>7
  <1>9. TagsTrue(local[t][id].tags, id)'
    BY <1>6, <1>8, TagsKept, Zenon DEF Fetch, world
  <1>10. Holds(t, id)'
    BY <1>1, <1>8, <1>9, Zenon DEF Holds
  <1>11. TypeOK /\ UNCHANGED <<kind, put, world, chan>> /\ faults' \in 0..MaxFaults
    BY Zenon DEF Fetch, IInv, TypeOK
  <1> HIDE DEF l
  <1> QED BY <1>1, <1>3, <1>4, <1>10, <1>11, JobKept, HandlerMove, Zenon

\* The replication handler writes the replica.
LEMMA ReplicaPutStep ==
    ASSUME Versioned, NEW id \in Ids, IInv, ReplicaPut(id) PROVE IInv'
  <1> DEFINE t == "replicate"
             l == [pc |-> "tag", tags |-> local[t][id].tags, content |-> local[t][id].content]
  <1>1. job[t][id] = "running" /\ UNCHANGED job /\ t \in Types /\ TypeOK
    BY Zenon DEF ReplicaPut, At, Types, IInv
  <1>2. /\ local[t][id] \in Local /\ KeyOf(id) = id /\ local[t][id].content = id
        /\ TagsTrue(local[t][id].tags, id)
    BY <1>1, SMTT(20) DEF IInv, TypeOK, KeyOf, Handled, Holds, ReplicaPut, At
  <1>3. l \in Local
    BY <1>2, Zenon DEF Local
  <1>4. local' = [local EXCEPT ![t][id] = l]
    BY Zenon DEF ReplicaPut, Goto
  <1>5. local'[t][id] = l
    BY <1>1, <1>3, <1>4, Zenon DEF TypeOK
  <1>6. replica' = [replica EXCEPT ![id] = id] /\ replica \in [Ids -> 0..MaxPuts]
    BY <1>1, <1>2, Zenon DEF ReplicaPut, TypeOK
  <1>7. replica' \in [Ids -> 0..MaxPuts] /\ \A i \in Ids : replica'[i] \in {replica[i], i}
    BY <1>6, WorkersAssumption DEF Ids
  <1>8. puts' = puts /\ Infected' = Infected
    BY Zenon DEF puts, Infected, ReplicaPut
  <1>9. ASSUME NEW i \in Ids, NEW tags, TagsTrue(tags, i)
        PROVE  TagsTrue(tags, i)'
    BY <1>7, <1>8, <1>9, Zenon DEF TagsTrue
  <1>10. /\ local'[t][id].tags = local[t][id].tags /\ local'[t][id].content = id
         /\ local'[t][id].pc = "tag" /\ replica'[id] = id
    BY <1>2, <1>5, <1>6
  <1>11. TagsTrue(local[t][id].tags, id)'
    BY <1>2, <1>9, <1>10, Zenon
  <1>12. Holds(t, id)'
    BY <1>1, <1>10, <1>11, Zenon DEF Holds
  <1> HIDE DEF l
  <1>13. Handled' /\ local' \in [Types -> [Ids -> Local]]
    <2>1. job' = [job EXCEPT ![t][id] = "running"] /\ UNCHANGED kind
      BY <1>1, JobKept, Zenon DEF ReplicaPut
    <2>2. "running" \in {"none", "pending", "running"}
      BY Zenon
    <2> QED BY <1>1, <1>3, <1>4, <1>7, <1>12, <2>1, <2>2, OthersHold, Zenon
  <1>14. TypeOK'
    BY <1>1, <1>7, <1>13, Zenon DEF TypeOK, ReplicaPut, puts
  <1>15. OwnContent' /\ Announced'
    <2>1. OwnContent /\ Announced
      BY Zenon DEF IInv
    <2>2. rows' = rows /\ blob' = blob /\ chan' = chan /\ job' = job /\ put' = put
      BY Zenon DEF ReplicaPut
    <2>3. \A i \in Ids : replica'[i] \in {0, i}
      <3> SUFFICES ASSUME NEW i \in Ids PROVE replica'[i] \in {0, i}
        BY Zenon
      <3>1. replica[i] \in {0, i} /\ replica'[i] \in {replica[i], i}
        BY <1>7, <2>1, Zenon DEF OwnContent
      <3> QED BY <3>1, Zenon
    <2>4. OwnContent'
      <3>0. /\ put'.at = "blob" => puts' >= 1 /\ rows'[puts'].state = "none"
            /\ put'.at = "row" => put'.id \in Ids /\ rows'[put'.id].state # "none"
        BY <1>8, <2>1, <2>2, Zenon DEF OwnContent
      <3> SUFFICES ASSUME NEW i \in Ids
                   PROVE  /\ rows'[i].state = "none" => rows'[i] = NoRow
                          /\ rows'[i].state # "none" => rows'[i].content = i /\ i <= puts'
                          /\ blob'[i] \in {0, i} /\ replica'[i] \in {0, i}
        BY <3>0, Zenon DEF OwnContent
      <3>1. /\ rows[i].state = "none" => rows[i] = NoRow
            /\ rows[i].state # "none" => rows[i].content = i /\ i <= puts
            /\ blob[i] \in {0, i}
        BY <2>1, Zenon DEF OwnContent
      <3>2. /\ rows'[i].state = "none" => rows'[i] = NoRow
            /\ rows'[i].state # "none" => rows'[i].content = i /\ i <= puts'
        BY <1>8, <2>2, <3>1, Zenon
      <3>3. blob'[i] \in {0, i}
        BY <2>2, <3>1, Zenon
      <3> QED BY <2>3, <3>2, <3>3, Zenon
    <2>5. Announced'
      BY <2>1, <2>2, Zenon DEF Announced
    <2> QED BY <2>4, <2>5, Zenon
  <1>16. (\A i \in Ids : TagsTrue(rows[i].tags, i))'
    BY <1>9, Zenon DEF IInv, ReplicaPut
  <1>17. QuarantineSound'
    BY <1>8, Zenon DEF IInv, QuarantineSound, ReplicaPut
  <1> QED BY <1>13, <1>14, <1>15, <1>16, <1>17, Zenon DEF IInv

\* A restart empties the subscriptions and stops handlers and uploads.
LEMMA RestartStep == ASSUME IInv, Restart PROVE IInv'
  <1> USE WorkersAssumption
  <1>1. /\ job' \in [Types -> [Ids -> {"none", "pending", "running"}]]
        /\ \A t \in Types, id \in Ids : job'[t][id] # "none" => job[t][id] # "none"
        /\ \A t \in Types, id \in Ids : job'[t][id] # "running"
    BY Zenon DEF IInv, TypeOK, Restart
  <1>2. /\ local' \in [Types -> [Ids -> Local]]
        /\ \A t \in Types, id \in Ids : local'[t][id] = Idle
    BY IdleType, Zenon DEF Restart
  <1>3. chan' \in [Types -> Seq(Ids)] /\ \A t \in Types : chan'[t] = <<>>
    BY SMTT(20) DEF Restart
  <1>4. TypeOK'
    BY <1>1, <1>2, <1>3 DEF IInv, TypeOK, Restart, NoPut, world, puts
  <1>5. Announced'
    BY <1>1, <1>3, SMTT(20) DEF IInv, Announced, Restart, world
  <1>6. Handled'
    BY <1>2, IdleHolds, Zenon DEF Handled
  <1> QED BY <1>4, <1>5, <1>6, WorldKept, Zenon DEF Restart, NoPut

\* A handler writes a row's tags or removes the row from sight, and keeps what
\* row it is.
LEMMA RowWritten ==
    ASSUME Versioned, IInv, NEW t \in Types, NEW id \in Ids, job[t][id] = "running",
           NEW status \in {"none", "pending", "running"}, NEW l \in Local, NEW row \in Row,
           job' = [job EXCEPT ![t][id] = status],
           local' = [local EXCEPT ![t][id] = l],
           rows' = [rows EXCEPT ![id] = row],
           row.content = rows[id].content, row.state # "none",
           row.state = "quarantined" => rows[id].state = "quarantined" \/ id \in Infected,
           TagsTrue(row.tags, id), Holds(t, id)',
           UNCHANGED <<kind, put, replica, chan>>, faults' \in 0..MaxFaults,
           blob' = blob \/ blob' = [blob EXCEPT ![id] = 0]
    PROVE  IInv'
  <1> USE WorkersAssumption
  <1>1. TypeOK /\ rows \in [Ids -> Row] /\ blob \in [Ids -> 0..MaxPuts]
    BY Zenon DEF IInv, TypeOK
  <1>2. /\ rows' \in [Ids -> Row] /\ rows'[id] = row
        /\ \A i \in Ids : i # id => rows'[i] = rows[i]
    BY <1>1, Zenon
  <1>3. blob' \in [Ids -> 0..MaxPuts] /\ \A i \in Ids : blob'[i] \in {0, blob[i]}
    BY <1>1
  <1>4. /\ job' \in [Types -> [Ids -> {"none", "pending", "running"}]]
        /\ local' \in [Types -> [Ids -> Local]] /\ Handled'
        /\ \A s \in Types, i \in Ids : <<s, i>> # <<t, id>> => job'[s][i] = job[s][i]
    BY OthersHold, Zenon
  <1>5. puts' = puts /\ Infected' = Infected
    BY Zenon DEF puts, Infected
  <1>6. rows[id].state # "none"
    BY Zenon DEF IInv, Announced
  <1>7. \A i \in Ids : /\ rows'[i].content = rows[i].content
                       /\ (rows'[i].state = "none") <=> (rows[i].state = "none")
                       /\ rows[i].state = "none" => rows'[i] = rows[i]
    BY <1>2, <1>6, Zenon
  <1>8. TypeOK'
    BY <1>1, <1>2, <1>3, <1>4, Zenon DEF TypeOK, puts
  <1>9. OwnContent'
    <2>1. put.at = "blob" => puts \in Ids
      BY <1>1 DEF IInv, TypeOK, OwnContent, Ids, puts
    <2>2. ASSUME NEW i \in Ids
          PROVE  /\ rows'[i].state = "none" => rows'[i] = NoRow
                 /\ rows'[i].state # "none" => rows'[i].content = i /\ i <= puts
                 /\ blob'[i] \in {0, i} /\ replica'[i] \in {0, i}
      <3>1. /\ rows[i].state = "none" => rows[i] = NoRow
            /\ rows[i].state # "none" => rows[i].content = i /\ i <= puts
            /\ blob[i] \in {0, i} /\ replica[i] \in {0, i}
        BY Zenon DEF IInv, OwnContent
      <3> QED BY <1>3, <1>7, <3>1, Zenon
    <2>3. /\ put.at = "blob" => puts >= 1 /\ rows[puts].state = "none"
          /\ put.at = "row" => put.id \in Ids /\ rows[put.id].state # "none"
      BY Zenon DEF IInv, OwnContent
    <2>4. /\ put.at = "blob" => rows'[puts].state = "none"
          /\ put.at = "row" => rows'[put.id].state # "none"
      BY <1>7, <2>1, <2>3, Zenon
    <2> QED BY <1>5, <2>2, <2>3, <2>4, Zenon DEF OwnContent
  <1>10. Announced'
    <2>1. /\ \A s \in Types, i \in Ids : job[s][i] # "none" => rows[i].state # "none"
          /\ \A s \in Types : \A k \in 1..Len(chan[s]) : rows[chan[s][k]].state # "none"
          /\ \A s \in Types : chan[s] \in Seq(Ids)
      BY Zenon DEF IInv, Announced, TypeOK
    <2>2. \A s \in Types, i \in Ids : job'[s][i] # "none" => rows'[i].state # "none"
      BY <1>4, <1>6, <1>7, <2>1, SMTT(20)
    <2>3. \A s \in Types : \A k \in 1..Len(chan[s]) : rows'[chan[s][k]].state # "none"
      BY <1>7, <2>1
    <2> QED BY <2>2, <2>3, Zenon DEF Announced
  <1>11. (\A i \in Ids : TagsTrue(rows[i].tags, i))'
    <2> SUFFICES ASSUME NEW i \in Ids PROVE TagsTrue(rows[i].tags, i)'
      BY Zenon
    <2>1. CASE i = id
      BY <1>2, <2>1, TagsKept, Zenon
    <2>2. CASE i # id
      BY <1>2, <2>2, TagsKept, Zenon DEF IInv
    <2> QED BY <2>1, <2>2, Zenon
  <1>12. QuarantineSound'
    <2>1. \A i \in Ids : rows[i].state = "quarantined" => rows[i].content \in Infected
      BY Zenon DEF IInv, QuarantineSound
    <2>2. rows[id].content = id
      BY <1>6, Zenon DEF IInv, OwnContent
    <2>3. ASSUME NEW i \in Ids, rows'[i].state = "quarantined"
          PROVE  rows'[i].content \in Infected
      BY <1>2, <1>7, <2>1, <2>2, <2>3
    <2> QED BY <1>5, <2>3, Zenon DEF QuarantineSound
  <1> QED BY <1>4, <1>8, <1>9, <1>10, <1>11, <1>12, Zenon DEF IInv

\* The replication handler writes its tags.
LEMMA RecordStatusStep ==
    ASSUME Versioned, NEW id \in Ids, IInv, recordStatus(id) PROVE IInv'
  <1> DEFINE t == "replicate"
  <1>1. /\ t \in Types /\ TypeOK /\ Holds(t, id) /\ job[t][id] = "running"
        /\ local[t][id] \in Local /\ local[t][id].pc = "tag" /\ rows[id] \in Row
    BY Zenon DEF Types, IInv, Handled, TypeOK, recordStatus, At
  <1>2. /\ job' = [job EXCEPT ![t][id] = "none"] /\ local' = [local EXCEPT ![t][id] = Idle]
        /\ UNCHANGED <<kind, put, blob, replica, chan>>
    BY Zenon DEF recordStatus, Done
  <1>3. Idle \in Local /\ Holds(t, id)'
    BY <1>1, <1>2, IdleType, IdleHolds, Zenon DEF TypeOK
  <1>4. faults' \in 0..MaxFaults
    BY <1>1, WorkersAssumption DEF recordStatus, TypeOK
  <1>5. CASE UNCHANGED rows
    BY <1>1, <1>2, <1>3, <1>4, <1>5, HandlerMove, Zenon DEF world
  <1>6. CASE rows' # rows
    <2> DEFINE status == IF local[t][id].content = 0 THEN "skipped" ELSE "replicated"
               tags == [user |-> local[t][id].tags.user, av |-> local[t][id].tags.av, repl |-> status]
               row == [rows[id] EXCEPT !.tags = tags]
    <2>1. rows' = [rows EXCEPT ![id].tags = tags]
      BY <1>6, Zenon DEF recordStatus, SetObjectTagsByID
    <2>2. tags \in Tags /\ row \in Row
      BY <1>1, Zenon DEF Local, Tags, Row
    <2>3. rows' = [rows EXCEPT ![id] = row]
      BY <1>1, <2>1, Zenon DEF Row
    <2>4. TagsTrue(tags, id)
      BY <1>1, Zenon DEF Holds, TagsTrue
    <2>5. row.content = rows[id].content /\ row.state = rows[id].state /\ row.tags = tags
      BY <1>1, Zenon DEF Row
    <2>6. rows[id].state # "none"
      BY <1>1, Zenon DEF IInv, Announced
    <2> HIDE DEF tags, row
    <2> QED BY <1>1, <1>2, <1>3, <1>4, <2>2, <2>3, <2>4, <2>5, <2>6, RowWritten, Zenon
  <1> QED BY <1>5, <1>6, Zenon

\* The scan handler writes its tags.
LEMMA RecordVerdictStep ==
    ASSUME Versioned, NEW id \in Ids, IInv, recordVerdict(id) PROVE IInv'
  <1> DEFINE t == "scan"
             l == local[t][id]
             verdict == Verdict(l.content)
             tags == [user |-> l.tags.user, av |-> verdict, repl |-> l.tags.repl]
             row == [rows[id] EXCEPT !.tags = tags]
  <1>1. /\ t \in Types /\ TypeOK /\ Holds(t, id) /\ job[t][id] = "running"
        /\ l \in Local /\ l.pc = "tag" /\ rows[id] \in Row
    BY Zenon DEF Types, IInv, Handled, TypeOK, recordVerdict, At
  <1>2. /\ UNCHANGED <<kind, put, blob, replica, chan, faults>>
        /\ rows' = [rows EXCEPT ![id].tags = tags]
    BY Zenon DEF recordVerdict, SetObjectTagsByID
  <1>3. l.content = id /\ (verdict = "infected" <=> id \in Infected) /\ verdict \in {"clean", "infected"}
    BY <1>1, Zenon DEF Holds, Verdict
  <1>4. tags \in Tags /\ row \in Row
    BY <1>1, <1>3, Zenon DEF Local, Tags, Row
  <1>5. rows' = [rows EXCEPT ![id] = row]
    BY <1>1, <1>2, Zenon DEF Row
  <1>6. rows[id].state # "none" /\ id <= puts
    BY <1>1, Zenon DEF IInv, Announced, OwnContent
  <1>7. TagsTrue(tags, id)
    BY <1>1, <1>3, <1>6, Zenon DEF Holds, TagsTrue
  <1>8. row.content = rows[id].content /\ row.state = rows[id].state /\ row.tags = tags
    BY <1>1, Zenon DEF Row
  <1>9. faults' \in 0..MaxFaults
    BY <1>1, <1>2, Zenon DEF TypeOK
  <1>10. CASE verdict = "clean"
    <2>1. job' = [job EXCEPT ![t][id] = "none"] /\ local' = [local EXCEPT ![t][id] = Idle]
      BY <1>10, Zenon DEF recordVerdict, Done, Quarantines
    <2>2. Idle \in Local /\ Holds(t, id)'
      BY <1>1, <2>1, IdleType, IdleHolds, Zenon DEF TypeOK
    <2> HIDE DEF tags, row
    <2> QED BY <1>1, <1>2, <1>4, <1>5, <1>6, <1>7, <1>8, <1>9, <2>1, <2>2, RowWritten, Zenon
  <1>11. CASE verdict = "infected"
    <2> DEFINE m == [pc |-> "quarantine", tags |-> l.tags, content |-> l.content]
    <2>1. UNCHANGED job /\ local' = [local EXCEPT ![t][id] = m]
      BY <1>11, Zenon DEF recordVerdict, Goto, Quarantines
    <2>2. m \in Local
      BY <1>1, Zenon DEF Local
    <2>3. job' = [job EXCEPT ![t][id] = "running"]
      BY <1>1, <2>1, JobKept
    <2>4. local'[t][id] = m /\ job'[t][id] = "running"
      BY <1>1, <2>1, <2>2, Zenon DEF TypeOK
    <2>5. /\ local'[t][id].tags = l.tags /\ local'[t][id].content = id
          /\ local'[t][id].pc = "quarantine"
      BY <1>3, <2>4
    <2>6. TagsTrue(l.tags, id)'
      BY <1>1, <1>2, <2>5, TagsKept, Zenon DEF Holds
    <2>7. id \in Infected'
      BY <1>2, <1>3, <1>11, Zenon DEF Infected, puts
    <2>8. Holds(t, id)'
      BY <2>4, <2>5, <2>6, <2>7, Zenon DEF Holds
    <2> HIDE DEF tags, row, m
    <2> QED BY <1>1, <1>2, <1>4, <1>5, <1>6, <1>7, <1>8, <1>9, <2>2, <2>1, <2>3, <2>8, RowWritten, Zenon
  <1> QED BY <1>3, <1>10, <1>11, Zenon

\* The scan handler removes an infected object.
LEMMA QuarantineStep ==
    ASSUME Versioned, NEW id \in Ids, IInv, QuarantineObjectByID(id) PROVE IInv'
  <1> DEFINE t == "scan"
             state == CASE rows[id].state = "tombstone" -> "gone"
                        [] rows[id].state = "live" -> "quarantined"
                        [] OTHER -> rows[id].state
             row == [rows[id] EXCEPT !.state = state]
  <1>1. /\ t \in Types /\ TypeOK /\ Holds(t, id) /\ job[t][id] = "running"
        /\ local[t][id].pc = "quarantine" /\ rows[id] \in Row
    BY Zenon DEF Types, IInv, Handled, TypeOK, QuarantineObjectByID, At
  <1>2. /\ job' = [job EXCEPT ![t][id] = "none"] /\ local' = [local EXCEPT ![t][id] = Idle]
        /\ UNCHANGED <<kind, put, replica, chan, faults>>
        /\ rows' = [rows EXCEPT ![id].state = state]
    BY Zenon DEF QuarantineObjectByID, Done
  <1>3. Idle \in Local /\ Holds(t, id)'
    BY <1>1, <1>2, IdleType, IdleHolds, Zenon DEF TypeOK
  <1>4. state \in States /\ row \in Row /\ id \in Infected
    BY <1>1, Zenon DEF Row, States, Holds
  <1>5. rows' = [rows EXCEPT ![id] = row]
    BY <1>1, <1>2, Zenon DEF Row
  <1>6. rows[id].state # "none"
    BY <1>1, Zenon DEF IInv, Announced
  <1>7. row.content = rows[id].content /\ row.state = state /\ row.tags = rows[id].tags
    BY <1>1, Zenon DEF Row
  <1>8. state # "none" /\ (state = "quarantined" => id \in Infected)
    BY <1>4, <1>6, Zenon
  <1>9. TagsTrue(row.tags, id)
    BY <1>7, Zenon DEF IInv
  <1>10. faults' \in 0..MaxFaults
    BY <1>1, <1>2, Zenon DEF TypeOK
  <1>11. blob' = blob \/ blob' = [blob EXCEPT ![id] = 0]
    BY Zenon DEF QuarantineObjectByID, KeyOf
  <1> HIDE DEF row, state
  <1> QED BY <1>1, <1>2, <1>3, <1>4, <1>5, <1>7, <1>8, <1>9, <1>10, <1>11, RowWritten, Zenon

\* Nothing happens.
LEMMA StutterStep == IInv /\ UNCHANGED vars => IInv'
  <1> SUFFICES ASSUME IInv, UNCHANGED vars PROVE IInv'
    BY Zenon
  <1>1. UNCHANGED <<kind, world, put, chan, job, local, faults>>
    BY Zenon DEF vars, world
  <1>2. TypeOK' /\ Announced'
    BY <1>1, Zenon DEF IInv, TypeOK, Announced, puts, world
  <1>3. Handled'
    BY <1>1, TagsKept, SMTT(20) DEF IInv, Handled, Holds, world, Infected, puts
  <1> QED BY <1>1, <1>2, <1>3, WorldKept, Zenon

-----------------------------------------------------------------------------

\* In a versioned bucket IInv holds in every reachable state.
THEOREM Invariance == Versioned => (Spec => []IInv)
  <1> SUFFICES ASSUME Versioned PROVE Spec => []IInv
    BY Zenon
  <1>1. Init => IInv
    BY InitIInv, Zenon
  <1>2. IInv /\ [Next]_vars => IInv'
    <2> SUFFICES ASSUME IInv, [Next]_vars PROVE IInv'
      BY Zenon
    <2>1. ASSUME NEW t \in Types, NEW id \in Ids, Handler(t, id) PROVE IInv'
      BY <2>1, ClaimJobStep, LoadStep, FetchStep, ReplicaPutStep, RecordStatusStep,
         RecordVerdictStep, QuarantineStep, FailStep, Zenon DEF Handler
    <2> QED BY <2>1, PutBlobStep, PutRowStep, PublishStep, SoftDeleteStep, BridgeStep,
               SweepStep, RestartStep, StutterStep, Zenon DEF Next
  <1> QED BY <1>1, <1>2, PTL DEF Spec

\* In a versioned bucket a verdict tag speaks of the content of the row that
\* carries it, whatever is uploaded, deleted, tagged by the other worker and
\* retried between the scan's reads and its write (recordVerdict).
THEOREM VerdictsSound == Versioned => (Spec => []VerdictSound)
  <1> SUFFICES ASSUME Versioned PROVE Spec => []VerdictSound
    BY Zenon
  <1>1. IInv => VerdictSound
    <2> SUFFICES ASSUME IInv, NEW id \in Ids, rows[id].tags.av # "none"
                 PROVE  rows[id].tags.av = "infected" <=> rows[id].content \in Infected
      BY Zenon DEF VerdictSound
    <2>1. rows[id].state # "none" => rows[id].content = id
      BY Zenon DEF IInv, OwnContent
    <2>2. rows[id].state = "none" => rows[id].tags.av = "none"
      BY DEF IInv, OwnContent, NoRow, NewTags
    <2> QED BY <2>1, <2>2, Zenon DEF IInv, TagsTrue
  <1> QED BY <1>1, Invariance, PTL

\* In a versioned bucket a row tagged as replicated has its content in the
\* secondary backend (ReplicaPut before recordStatus).
THEOREM ReplicasSound == Versioned => (Spec => []ReplicaSound)
  <1> SUFFICES ASSUME Versioned PROVE Spec => []ReplicaSound
    BY Zenon
  <1>1. IInv => ReplicaSound
    <2> SUFFICES ASSUME IInv, NEW id \in Ids, rows[id].tags.repl = "replicated"
                 PROVE  replica[id] = rows[id].content
      BY Zenon DEF ReplicaSound, KeyOf
    <2>1. rows[id].state # "none" => rows[id].content = id
      BY Zenon DEF IInv, OwnContent
    <2>2. rows[id].state = "none" => rows[id].tags.repl = "none"
      BY DEF IInv, OwnContent, NoRow, NewTags
    <2> QED BY <2>1, <2>2, Zenon DEF IInv, TagsTrue
  <1> QED BY <1>1, Invariance, PTL

\* In a versioned bucket only infected content is quarantined, although
\* QuarantineObjectByID reads the row again long after the scan.
THEOREM QuarantinesSound == Versioned => (Spec => []QuarantineSound)
  <1> SUFFICES ASSUME Versioned PROVE Spec => []QuarantineSound
    BY Zenon
  <1>1. IInv => QuarantineSound
    BY Zenon DEF IInv
  <1> QED BY <1>1, Invariance, PTL

=============================================================================
