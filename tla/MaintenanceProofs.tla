------------------------- MODULE MaintenanceProofs -------------------------
(***************************************************************************)
(* Proofs about the rows of a key and their blobs, for any number of       *)
(* clients, sweepers, requests and failures.  For the rows and the holds   *)
(* the inductive invariant is that the table is a function on the row ids  *)
(* with at most one live row; the requests' own records play no part in    *)
(* it.  For the blobs it is BInv, which says what every upload, removal    *)
(* and scan of a versioned bucket has in hand.                             *)
(***************************************************************************)
EXTENDS Maintenance, WellFoundedInduction, TLAPS

IsTable(t) == t = [i \in Ids |-> t[i]]

Good(t) == IsTable(t) /\ AtMostOneLive(t)

\* What every transaction makes of a table t: a good table u that has all
\* rows of t but those of S.
Yields(t, u, S) ==
    /\ Good(t) => Good(u)
    /\ \A i \in Ids : t[i].st # "none" /\ i \notin S => u[i].st # "none"

-----------------------------------------------------------------------------
(* The operators over the rows *)

\* Moving rows to a state that is not live, or one row to live when none is.
LEMMA SetStateLemma ==
    ASSUME NEW t, NEW S, NEW s, s # "none",
           \/ s # "live"
           \/ Live(t) = {} /\ \A i, j \in S : i = j
    PROVE  Yields(t, SetState(t, S, s), {})
  <1> DEFINE u == SetState(t, S, s)
  <1>1. /\ IsTable(u)
        /\ \A i \in Ids : u[i].st = IF i \in S THEN s ELSE t[i].st
    BY Zenon DEF IsTable, SetState, WithState
  <1>2. AtMostOneLive(t) => AtMostOneLive(u)
    BY <1>1, Zenon DEF AtMostOneLive, Live, InState
  <1> QED BY <1>1, <1>2, Zenon DEF Yields, Good

\* Deleting rows yields the table without them.
LEMMA RemoveLemma ==
    ASSUME NEW t, NEW S
    PROVE  Yields(t, Remove(t, S), S)
  <1> DEFINE u == Remove(t, S)
  <1>1. /\ IsTable(u)
        /\ \A i \in Ids : u[i].st = IF i \in S THEN "none" ELSE t[i].st
    BY Zenon DEF IsTable, Remove, NoRow
  <1>2. AtMostOneLive(t) => AtMostOneLive(u)
    BY <1>1, Zenon DEF AtMostOneLive, Live, InState
  <1> QED BY <1>1, <1>2, Zenon DEF Yields, Good

\* A new row: live only if no row is.
LEMMA PutLemma ==
    ASSUME NEW t, NEW k, NEW r, IsTable(t), r.st # "none",
           r.st = "live" => Live(t) = {}
    PROVE  Yields(t, [t EXCEPT ![k] = r], {})
  <1> DEFINE u == [t EXCEPT ![k] = r]
  <1>1. /\ IsTable(u)
        /\ \A i \in Ids : u[i] = IF i = k THEN r ELSE t[i]
    BY Zenon DEF IsTable
  <1>2. AtMostOneLive(t) => AtMostOneLive(u)
    BY <1>1, Zenon DEF AtMostOneLive, Live, InState
  <1> QED BY <1>1, <1>2, Zenon DEF Yields, Good

\* Two transactions on the rows, the second of which removes none.
LEMMA Compose ==
    ASSUME NEW t, NEW u, NEW w, NEW S, Yields(t, u, S), Yields(u, w, {})
    PROVE  Yields(t, w, S)
  BY Zenon DEF Yields

\* An upload in an unversioned bucket overwrites the live row or is one.
LEMMA UpsertObjectLemma ==
    ASSUME NEW t, NEW k, NEW r, IsTable(t), r.st = "live"
    PROVE  Yields(t, UpsertObject(t, k, r), {})
  <1>1. CASE Live(t) = {}
    BY <1>1, PutLemma, Zenon DEF UpsertObject
  <1>2. CASE Live(t) # {}
    <2> DEFINE u == UpsertObject(t, k, r)
    <2>1. IsTable(u) /\ \A i \in Ids : u[i].st = t[i].st
      BY <1>2, Zenon DEF IsTable, UpsertObject, Overwritten
    <2>2. AtMostOneLive(t) => AtMostOneLive(u)
      BY <2>1, Zenon DEF AtMostOneLive, Live, InState
    <2> QED BY <2>1, <2>2, Zenon DEF Yields, Good
  <1> QED BY <1>1, <1>2, Zenon

\* A new version or a delete marker turns the live row into an old version.
LEMMA InsertVersionLemma ==
    ASSUME NEW t, NEW k, NEW r, r.st # "none"
    PROVE  Yields(t, InsertVersion(t, k, r), {})
  <1> DEFINE u == SetState(t, Live(t), "tombstone")
  <1>1. Yields(t, u, {})
    BY SetStateLemma, Zenon
  <1>2. IsTable(u) /\ Live(u) = {}
    BY Zenon DEF IsTable, SetState, WithState, Live, InState
  <1>3. Yields(u, [u EXCEPT ![k] = r], {})
    <2> HIDE DEF u
    <2> QED BY <1>2, PutLemma, Zenon
  <1> QED BY <1>1, <1>3, Compose, Zenon DEF InsertVersion

\* Removing a version promotes another only when no row is live.
LEMMA DeleteObjectVersionLemma ==
    ASSUME NEW t, NEW k
    PROVE  Yields(t, DeleteObjectVersion(t, k), {k})
  <1> DEFINE u == Remove(t, {k})
             w == promoteLatestObjectVersion(u)
  <1>1. Yields(t, u, {k})
    BY RemoveLemma, Zenon
  <1>2. Yields(u, w, {})
    <2> HIDE DEF u
    <2>1. CASE w = u
      BY <2>1, Zenon DEF Yields
    <2>2. CASE w # u
      <3>1. Live(u) = {} /\ w = SetState(u, {Max(Present(u))}, "live")
        BY <2>2, Zenon DEF promoteLatestObjectVersion
      <3> QED BY <3>1, SetStateLemma, Zenon
    <2> QED BY <2>1, <2>2, Zenon
  <1> QED BY <1>1, <1>2, Compose, Zenon DEF DeleteObjectVersion

-----------------------------------------------------------------------------
(* The steps *)

\* What a step may do to the rows: a good table stays good, and no row
\* under a legal hold is removed.
RowsStep ==
    \/ rows' = rows
    \/ \E S : Yields(rows, rows', S) /\ S \cap Held(rows) = {}

\* Steps that leave the rows alone.
LEMMA RowsUntouched ==
    ASSUME NEW p,
           \/ PutStart(p) \/ PutUsage(p) \/ PutBlob(p) \/ Account(p)
           \/ SoftDeleteStart(p) \/ HardDeleteStart(p) \/ HardDeleteList(p)
           \/ DeleteBlob(p) \/ \E i \in Ids : DeleteVersionStart(p, i)
           \/ RestoreStart(p) \/ Abandon(p)
           \/ Recheck(p) \/ SweepBlob(p) \/ ListBlobs(p) \/ DeleteOrphan(p)
           \/ \E k \in Keys : GracePasses(k)
    PROVE  rows' = rows
  BY ZenonT(30)
     DEF PutStart, PutUsage, PutBlob, Account, SoftDeleteStart,
         HardDeleteStart, HardDeleteList, DeleteBlob, DeleteVersionStart,
         RestoreStart, Abandon, Recheck, SweepBlob, ListBlobs, DeleteOrphan,
         GracePasses, state

\* A sweep's selection reads the rows only.
LEMMA SweepsStart ==
    ASSUME NEW s, Sweep(s)
    PROVE  rows' = rows
  <1>1. ASSUME NEW r, Take(s, r) PROVE rows' = rows
    BY <1>1, Zenon DEF Take, state
  <1> QED
    BY <1>1, Zenon DEF Sweep, Purge, ExpireHard, TakeVersion, ExpireSoft,
                PurgeNonCurrent, OrphanRow, CollectReferenced

\* writePutObject inserts a version or overwrites the live row.
LEMMA PutRowStep ==
    ASSUME NEW p, IsTable(rows), PutRow(p)
    PROVE  RowsStep
  <1> DEFINE v == proc[p].up
             r == [st |-> "live", up |-> v, key |-> StorageKey(v),
                   holds |-> {}]
  <1>1. r.st = "live"
    BY Zenon
  <1>2. rows' = IF versioned THEN InsertVersion(rows, lastId + 1, r)
                ELSE UpsertObject(rows, lastId + 1, r)
    BY Zenon DEF PutRow
  <1> HIDE DEF r
  <1>3. Yields(rows, rows', {})
    BY <1>1, <1>2, InsertVersionLemma, UpsertObjectLemma, Zenon
  <1> QED BY <1>3 DEF RowsStep

\* A row with other holds is in the same state.
LEMMA HoldsLemma ==
    ASSUME NEW t, IsTable(t), NEW k, NEW H
    PROVE  Yields(t, [t EXCEPT ![k] = WithHolds(t[k], H)], {})
  <1> DEFINE u == [t EXCEPT ![k] = WithHolds(t[k], H)]
  <1>1. IsTable(u) /\ \A i \in Ids : u[i].st = t[i].st
    BY Zenon DEF IsTable, WithHolds
  <1>2. AtMostOneLive(t) => AtMostOneLive(u)
    BY <1>1, Zenon DEF AtMostOneLive, Live, InState
  <1> QED BY <1>1, <1>2, Zenon DEF Yields, Good

\* Placing and lifting a legal hold keeps every row in its state.
LEMMA HoldSteps ==
    ASSUME IsTable(rows),
           \/ \E p : PutHold(p)
           \/ \E i \in Ids : PutLegalHold(i) \/ RemoveLegalHold(i)
    PROVE  RowsStep
  <1>1. \/ rows' = rows
        \/ \E k, H : rows' = [rows EXCEPT ![k] = WithHolds(rows[k], H)]
    BY Zenon DEF PutHold, PutLegalHold, RemoveLegalHold
  <1>2. rows' = rows \/ Yields(rows, rows', {})
    BY <1>1, HoldsLemma
  <1> QED BY <1>2 DEF RowsStep

\* SoftDelete, CreateDeleteMarker and RestoreRow remove no row.
LEMMA StateSteps ==
    ASSUME NEW p, SoftDelete(p) \/ CreateDeleteMarker(p) \/ RestoreRow(p)
    PROVE  RowsStep
  <1>1. CASE SoftDelete(p)
    <2>1. rows' = rows \/ rows' = SetState(rows, Live(rows), "deleted")
      BY <1>1, Zenon DEF SoftDelete, SoftDeleteObject
    <2>2. rows' = rows \/ Yields(rows, rows', {})
      BY <2>1, SetStateLemma, Zenon
    <2> QED BY <2>2 DEF RowsStep
  <1>2. CASE CreateDeleteMarker(p)
    <2> DEFINE r == [st |-> "deleted", up |-> reqs + 1, key |-> NoKey,
                     holds |-> {}]
    <2>1. r.st # "none"
      BY Zenon
    <2>2. rows' = InsertVersion(rows, lastId + 1, r)
      BY <1>2, Zenon DEF CreateDeleteMarker
    <2> HIDE DEF r
    <2>3. Yields(rows, rows', {})
      BY <2>1, <2>2, InsertVersionLemma, Zenon
    <2> QED BY <2>3 DEF RowsStep
  <1>3. CASE RestoreRow(p)
    <2>1. \/ rows' = rows
          \/ /\ Live(rows) = {}
             /\ rows' = SetState(rows, {Max(InState(rows, "deleted"))}, "live")
      BY <1>3, Zenon DEF RestoreRow, RestoreObject
    <2>2. rows' = rows \/ Yields(rows, rows', {})
      BY <2>1, SetStateLemma, Zenon
    <2> QED BY <2>2 DEF RowsStep
  <1> QED BY <1>1, <1>2, <1>3, Zenon

\* The removing transactions take rows without a hold only.
LEMMA RemovingSteps ==
    ASSUME NEW p,
           \/ HardDeleteRows(p) \/ DeleteVersionRow(p)
           \/ PurgeRows(p) \/ ExpireRow(p)
    PROVE  RowsStep
  <1>1. CASE HardDeleteRows(p) \/ PurgeRows(p) \/ ExpireRow(p)
    <2>1. \/ rows' = rows
          \/ \E S : MayRemove(S) /\ rows' = Remove(rows, S)
      BY <1>1, Zenon DEF HardDeleteRows, PurgeRows, ExpireRow
    <2> QED BY <2>1, RemoveLemma, Zenon DEF RowsStep, MayRemove
  <1>2. CASE DeleteVersionRow(p)
    <2> DEFINE S == GetObjectVersion(rows, proc[p].up)
               k == CHOOSE i \in S : TRUE
    <2>1. \/ rows' = rows
          \/ /\ S # {} /\ MayRemove(S)
             /\ rows' = DeleteObjectVersion(rows, k)
      BY <1>2, Zenon DEF DeleteVersionRow
    <2> HIDE DEF S
    <2>2. S # {} => k \in S
      BY Zenon
    <2> HIDE DEF k
    <2>3. rows' = rows \/ (Yields(rows, rows', {k}) /\ {k} \cap Held(rows) = {})
      BY <2>1, <2>2, DeleteObjectVersionLemma, Zenon DEF MayRemove
    <2> QED BY <2>3, Zenon DEF RowsStep
  <1> QED BY <1>1, <1>2, Zenon

\* Every step keeps at most one live row and every row under a hold.
LEMMA NextRowsStep ==
    ASSUME IsTable(rows), [Next]_vars
    PROVE  RowsStep
  <1>1. CASE UNCHANGED vars
    BY <1>1, Zenon DEF RowsStep, vars, state
  <1>2. ASSUME NEW c, Request(c) \/ Step(c) \/ Abandon(c)
        PROVE  RowsStep
    BY <1>2, RowsUntouched, PutRowStep, HoldSteps, StateSteps, RemovingSteps,
       ZenonT(30) DEF Request, Step, RowsStep
  <1>3. ASSUME NEW s, Sweep(s) \/ SweepStep(s) \/ Abandon(s)
        PROVE  RowsStep
    BY <1>3, RowsUntouched, SweepsStart, StateSteps, RemovingSteps,
       ZenonT(30) DEF SweepStep, RowsStep
  <1>4. CASE \E k \in Keys : GracePasses(k)
    BY <1>4, RowsUntouched, Zenon DEF RowsStep
  <1>5. CASE \E i \in Ids : PutLegalHold(i) \/ RemoveLegalHold(i)
    BY <1>5, HoldSteps, Zenon
  <1> QED BY <1>1, <1>2, <1>3, <1>4, <1>5, ZenonT(30) DEF Next, ClientNext

-----------------------------------------------------------------------------
(* The theorems *)

\* The table keeps at most one live row, whatever transactions follow one
\* another in whatever order.
LEMMA GoodAlways == Spec => []Good(rows)
  <1>1. Init => Good(rows)
    BY DEF Init, Good, IsTable, AtMostOneLive, Live, InState, NoRow
  <1>2. Good(rows) /\ [Next]_vars => Good(rows)'
    <2> SUFFICES ASSUME Good(rows), [Next]_vars PROVE Good(rows')
      BY Zenon
    <2>1. RowsStep
      BY NextRowsStep, Zenon DEF Good
    <2> QED BY <2>1, Zenon DEF RowsStep, Yields
  <1> QED BY <1>1, <1>2, PTL DEF Spec

\* A key never has two live rows (the partial unique index on objects and
\* the single row GetObject reads).
THEOREM OneLiveAlways == Spec => []OneLive
  <1>1. Good(rows) => OneLive
    BY Zenon DEF Good, OneLive
  <1> QED BY <1>1, GoodAlways, PTL

\* No step removes a row under a legal hold, also when the hold is placed
\* between a deletion's protection checks and its transaction.
THEOREM HeldRowsKept == Spec => HeldRowKept
  <1>1. ASSUME Good(rows), [Next]_vars
        PROVE  [\A i \in Held(rows) : i \in Present(rows')]_vars
    <2>1. RowsStep
      BY <1>1, NextRowsStep, Zenon DEF Good
    <2>2. ASSUME NEW i \in Held(rows) PROVE i \in Present(rows')
      <3>1. i \in Ids /\ rows[i].st # "none"
        BY Zenon DEF Held, Present
      <3>2. rows'[i].st # "none"
        BY <2>1, <3>1, Zenon DEF RowsStep, Yields
      <3> QED BY <3>1, <3>2, Zenon DEF Present
    <2> QED BY <2>2, Zenon
  <1> QED BY <1>1, GoodAlways, PTL DEF Spec, HeldRowKept

-----------------------------------------------------------------------------
(* Rows and blobs of a versioned bucket (RowsBacked).  A row's blob is left *)
(* alone because every version has a number, a row and a key of its own     *)
(* (Numbered), an upload's key is in nobody's hands before its row is there *)
(* (Uploading), and what a removal or a scan has in hand are keys of rows   *)
(* it answers for, or of no row (Fit).                                      *)

Fields == {"op", "pc", "up", "id", "todo", "gone", "owed"}

\* The upload has its version and no row yet.
Pending(p) == proc[p].pc \in {"usage", "blob", "row"}

Shape ==
    /\ DOMAIN proc = Procs /\ \A p \in Procs : DOMAIN proc[p] = Fields
    /\ reqs \in 0..MaxReqs /\ lastId \in Nat /\ DOMAIN blob = Keys

\* Every version has its own number, row and key.
Numbered ==
    /\ \A i \in Present(rows) :
          /\ i <= lastId /\ rows[i].up \in 1..reqs
          /\ rows[i].key \in {NoKey, rows[i].up}
    /\ \A i, j \in Present(rows) : rows[i].up = rows[j].up => i = j
    /\ \A k \in Keys : k > reqs => blob[k] = 0

\* An upload without its row is alone with its version: nobody is going to
\* delete its blob, which is there, and young, as soon as it is written.
Uploading ==
    \A p \in Procs : Pending(p) =>
        /\ proc[p].up \in 1..reqs
        /\ \A i \in Present(rows) : rows[i].up # proc[p].up
        /\ \A q \in Procs : Pending(q) /\ proc[q].up = proc[p].up => q = p
        /\ \A q \in Procs : \A v \in proc[q].todo : v[2] # proc[p].up
        /\ proc[p].pc = "row" => blob[proc[p].up] = proc[p].up /\ proc[p].up \notin old
        /\ proc[p].pc # "row" => blob[proc[p].up] = 0

\* What a removal or a scan in state r has in hand, when the table is t, n
\* requests were made, l is the last row id and the keys o are old.
Fit(r, t, n, l, o) ==
    /\ r.pc \notin {"blobs", "recheck"} => r.gone = {}
    /\ \A v \in r.todo : v[1] \in 0..MaxReqs /\ v[2] \in Int /\ v[2] <= n
    /\ r.op = "version" =>
          /\ r.pc \in {"recheck", "blobs", "account"}
          /\ r.gone \subseteq {r.up} /\ \A v \in r.todo : v[2] \in {NoKey, r.up}
    /\ r.op = "expire" =>
          /\ r.pc \in {"recheck", "blobs", "account"} /\ r.id \in Ids /\ r.id <= l
          /\ r.pc # "account" /\ r.id \in Present(t) =>
                /\ r.gone \subseteq {t[r.id].key} \ {NoKey}
                /\ \A v \in r.todo : v[2] = t[r.id].key
    /\ r.op = "scan" /\ r.pc = "list" =>
          \A i \in Present(t) :
             t[i].key = NoKey \/ <<0, t[i].key>> \in r.todo \/ t[i].key \notin o
    /\ r.pc = "delete" =>
          \A i \in Present(t) : t[i].key = NoKey \/ \A v \in r.todo : v[2] # t[i].key

Fits ==
    /\ \A p \in Procs : Fit(proc[p], rows, reqs, lastId, old)
    /\ \A s \in Sweepers : proc[s].pc = "blobs" => proc[s].todo # {}

VInv == Numbered /\ Uploading /\ Fits /\ RowsBacked

BInv == Shape /\ (versioned => VInv)

-----------------------------------------------------------------------------

\* A set of numbers up to MaxReqs that is not empty has a largest one.
LEMMA Largest ==
    ASSUME NEW S \in SUBSET (0..MaxReqs), S # {}
    PROVE  \E x \in S : \A y \in S : x >= y
  <1> DEFINE T == {n \in Nat : MaxReqs - n \in S}
             R == OpToRel(<, Nat)
  <1>1. T \subseteq Nat /\ T # {}
    <2>1. PICK x \in S : TRUE
      BY Zenon
    <2>2. MaxReqs - x \in Nat /\ MaxReqs - (MaxReqs - x) = x
      BY MaxReqsAssumption
    <2> QED BY <2>1, <2>2, Zenon
  <1>2. PICK m \in T : \A n \in T : ~(<<n, m>> \in R)
    <2> HIDE DEF T, R
    <2>1. IsWellFoundedOn(R, Nat)
      BY NatLessThanWellFounded, Zenon DEF R
    <2> QED BY <1>1, <2>1, WFMin, Zenon
  <1>3. \A n \in T : ~(n < m)
    BY <1>2, Zenon DEF OpToRel
  <1>4. ASSUME NEW y \in S PROVE MaxReqs - m >= y
    <2>1. MaxReqs - y \in Nat /\ MaxReqs - (MaxReqs - y) = y /\ y \in Nat
      BY MaxReqsAssumption
    <2>2. MaxReqs - y \in T
      BY <2>1, Zenon
    <2>3. ~(MaxReqs - y < m)
      BY <1>3, <2>2, Zenon
    <2>4. m \in Nat
      BY <1>2, Zenon
    <2> HIDE DEF T, R
    <2> QED BY <2>1, <2>3, <2>4, MaxReqsAssumption
  <1> QED BY <1>2, <1>4, Zenon

\* The newest row of a set, as ORDER BY ... LIMIT 1 picks it, is one of the
\* set.
LEMMA MaxIn ==
    ASSUME NEW S \in SUBSET Ids, S # {}
    PROVE  Max(S) \in S /\ \A i \in S : i <= Max(S)
  <1>1. S \in SUBSET (0..MaxReqs)
    BY MaxReqsAssumption DEF Ids
  <1>2. \E x \in S : \A y \in S : x >= y
    BY <1>1, Largest, Zenon
  <1>3. Max(S) \in S /\ \A y \in S : Max(S) >= y
    BY <1>2, Zenon DEF Max
  <1> QED BY <1>1, <1>3, Zenon

\* A transaction that adds no row and leaves the others their version.
Shrinks(t, u) ==
    \A i \in Present(u) : i \in Present(t) /\ u[i].up = t[i].up /\ u[i].key = t[i].key

\* A change of state adds no row.
LEMMA ShrinksSetState ==
    ASSUME NEW t, NEW S, S \subseteq Present(t), NEW s
    PROVE  Shrinks(t, SetState(t, S, s))
  BY Zenon DEF Shrinks, Present, SetState, WithState

\* A deletion adds no row, and the deleted ones are gone.
LEMMA ShrinksRemove ==
    ASSUME NEW t, NEW S
    PROVE  Shrinks(t, Remove(t, S)) /\ \A i \in S : i \notin Present(Remove(t, S))
  BY Zenon DEF Shrinks, Present, Remove, NoRow

\* Nor do two such transactions.
LEMMA ShrinksTwice ==
    ASSUME NEW t, NEW u, NEW w, Shrinks(t, u), Shrinks(u, w)
    PROVE  Shrinks(t, w)
  BY Zenon DEF Shrinks

\* Removing a version, with the promotion that may follow, adds no row.
LEMMA ShrinksVersion ==
    ASSUME NEW t, NEW k
    PROVE  Shrinks(t, DeleteObjectVersion(t, k)) /\ k \notin Present(DeleteObjectVersion(t, k))
  <1> DEFINE u == Remove(t, {k})
             w == promoteLatestObjectVersion(u)
  <1>1. Shrinks(t, u) /\ k \notin Present(u)
    BY ShrinksRemove, Zenon
  <1>2. Shrinks(u, w)
    <2> HIDE DEF u
    <2>1. CASE w = u
      BY <2>1, Zenon DEF Shrinks
    <2>2. CASE w # u
      <3>1. Present(u) # {} /\ w = SetState(u, {Max(Present(u))}, "live")
        BY <2>2, Zenon DEF promoteLatestObjectVersion
      <3>2. Present(u) \in SUBSET Ids
        BY Zenon DEF Present
      <3>3. Max(Present(u)) \in Present(u)
        BY <3>1, <3>2, MaxIn, Zenon
      <3> QED BY <3>1, <3>3, ShrinksSetState, Zenon
    <2> QED BY <2>1, <2>2, Zenon
  <1> HIDE DEF w, u
  <1>3. Shrinks(t, w) /\ k \notin Present(w)
    BY <1>1, <1>2, ShrinksTwice, Zenon DEF Shrinks
  <1> QED BY <1>3, Zenon DEF DeleteObjectVersion, w, u

\* A process goes on: an upload keeps its version or ends, what is to be
\* removed is no upload's, and a key it removed is handed over.
Moves(q) ==
    /\ Pending(q)' => /\ Pending(q) /\ proc'[q].up = proc[q].up
                      /\ proc'[q].pc = "row" <=> proc[q].pc = "row"
    /\ Fit(proc'[q], rows', reqs', lastId', old')
    /\ \A p \in Procs : Pending(p)' => \A v \in proc'[q].todo : v[2] # proc[p].up
    /\ \A k \in proc[q].gone :
          k \in proc'[q].gone \/ k \in stray' \/ \A i \in Present(rows') : rows'[i].key # k
    /\ q \in Sweepers /\ proc'[q].pc = "blobs" => proc'[q].todo # {}

\* An idle process has nothing in hand.
LEMMA IdleFits ==
    ASSUME NEW t, NEW n, NEW l, NEW o
    PROVE  Fit(Idle, t, n, l, o)
  BY Zenon DEF Fit, Idle

\* The processes, the counters and the storage keep their shape.
LEMMA ShapeKept ==
    ASSUME Shape, NEW p \in Procs, NEW r, DOMAIN r = Fields,
           proc' = [proc EXCEPT ![p] = r], reqs' \in 0..MaxReqs, lastId' \in Nat,
           DOMAIN blob' = Keys
    PROVE  Shape'
  BY Zenon DEF Shape

\* What Shape says of one process, for citing.
LEMMA ShapeOf ==
    ASSUME Shape, NEW p \in Procs
    PROVE  /\ DOMAIN Idle = Fields /\ DOMAIN proc[p] = Fields
           /\ reqs \in 0..MaxReqs /\ lastId \in Nat /\ DOMAIN blob = Keys
           /\ \A k : DOMAIN StoreDelete(k) = Keys
           /\ \A k, v : DOMAIN StorePut(k, v) = Keys
  BY Zenon DEF Shape, Idle, Fields, StoreDelete, StorePut

\* Starting a request or a sweep keeps the shape.
LEMMA ShapeStart ==
    ASSUME Shape, NEW p \in Procs,
           \/ PutStart(p) \/ SoftDeleteStart(p) \/ HardDeleteStart(p)
           \/ \E i \in Ids : DeleteVersionStart(p, i)
           \/ RestoreStart(p) \/ Sweep(p)
    PROVE  Shape'
  <1>1. ASSUME NEW r, DOMAIN r = DOMAIN Idle, Start(p, r), UNCHANGED state,
               reqs' = reqs \/ NewRequest
        PROVE  Shape'
    <2>1. proc' = [proc EXCEPT ![p] = r] /\ lastId' = lastId /\ blob' = blob
      BY <1>1, Zenon DEF Start, state
    <2>2. reqs' \in 0..MaxReqs
      BY <1>1, MaxReqsAssumption DEF Shape, NewRequest
    <2> QED BY <1>1, <2>1, <2>2, ShapeKept, ShapeOf, Zenon
  <1>2. ASSUME NEW r, DOMAIN r = DOMAIN Idle, Take(p, r)
        PROVE  Shape'
    BY <1>1, <1>2, Zenon DEF Take
  <1>3. CASE PutStart(p)
    BY <1>1, <1>3, Zenon DEF PutStart
  <1>4. CASE SoftDeleteStart(p)
    BY <1>1, <1>4, Zenon DEF SoftDeleteStart
  <1>5. CASE HardDeleteStart(p)
    BY <1>1, <1>5, Zenon DEF HardDeleteStart
  <1>6. CASE \E i \in Ids : DeleteVersionStart(p, i)
    BY <1>1, <1>6, Zenon DEF DeleteVersionStart
  <1>7. CASE RestoreStart(p)
    BY <1>1, <1>7, Zenon DEF RestoreStart
  <1>8. CASE Sweep(p)
    <2>1. ASSUME NEW i, TakeVersion(p, i) PROVE Shape'
      BY <1>2, <2>1, Zenon DEF TakeVersion
    <2>2. CASE Purge(p)
      BY <1>2, <2>2, Zenon DEF Purge
    <2>3. CASE ExpireHard(p) \/ PurgeNonCurrent(p)
      BY <2>1, <2>3, Zenon DEF ExpireHard, PurgeNonCurrent
    <2>4. CASE ExpireSoft(p)
      BY <1>2, <2>4, Zenon DEF ExpireSoft
    <2>5. CASE OrphanRow(p)
      BY <1>2, <2>5, Zenon DEF OrphanRow
    <2>6. CASE CollectReferenced(p)
      BY <1>2, <2>6, Zenon DEF CollectReferenced
    <2> QED BY <1>8, <2>2, <2>3, <2>4, <2>5, <2>6, Zenon DEF Sweep
  <1> QED BY <1>3, <1>4, <1>5, <1>6, <1>7, <1>8, Zenon

\* So does going on with one.
LEMMA ShapeGoto ==
    ASSUME Shape, NEW p \in Procs,
           \/ PutUsage(p) \/ PutBlob(p) \/ PutHold(p) \/ SoftDelete(p)
           \/ HardDeleteList(p) \/ DeleteBlob(p) \/ HardDeleteRows(p)
           \/ DeleteVersionRow(p) \/ RestoreRow(p) \/ Account(p) \/ Abandon(p)
           \/ Recheck(p) \/ SweepBlob(p) \/ PurgeRows(p) \/ ExpireRow(p)
           \/ ListBlobs(p) \/ DeleteOrphan(p)
    PROVE  Shape'
  <1>0. reqs' = reqs
    BY Zenon DEF PutUsage, PutBlob, PutHold, SoftDelete, HardDeleteList, DeleteBlob,
           HardDeleteRows, DeleteVersionRow, RestoreRow, Account, Abandon, Recheck,
           SweepBlob, PurgeRows, ExpireRow, ListBlobs, DeleteOrphan, Goto, Stop, Removed
  <1>1. lastId' = lastId
    BY Zenon DEF PutUsage, PutBlob, PutHold, SoftDelete, HardDeleteList, DeleteBlob,
           HardDeleteRows, DeleteVersionRow, RestoreRow, Account, Abandon, Recheck,
           SweepBlob, PurgeRows, ExpireRow, ListBlobs, DeleteOrphan, state
  <1>2. blob' = blob \/ (\E k : blob' = StoreDelete(k)) \/ \E k, v : blob' = StorePut(k, v)
    BY Zenon DEF PutUsage, PutBlob, PutHold, SoftDelete, HardDeleteList, DeleteBlob,
           HardDeleteRows, DeleteVersionRow, RestoreRow, Account, Abandon, Recheck,
           SweepBlob, PurgeRows, ExpireRow, ListBlobs, DeleteOrphan, state
  <1>3. \E r : DOMAIN r = Fields /\ proc' = [proc EXCEPT ![p] = r]
    <2> DEFINE Kept == \E r : DOMAIN r = Fields /\ proc' = [proc EXCEPT ![p] = r]
    <2> SUFFICES Kept
      BY Zenon
    <2>1. ASSUME Stop(p) \/ Goto(p, Idle) \/ Abandon(p) PROVE Kept
      BY <2>1, ShapeOf, Zenon DEF Stop, Goto, Abandon
    <2>2. ASSUME NEW r, DOMAIN r = DOMAIN proc[p], Goto(p, r) PROVE Kept
      BY <2>2, ShapeOf, Zenon DEF Goto
    <2>3. ASSUME Removed(p) \/ DeleteVersionRow(p) PROVE Kept
      <3>1. \/ proc' = [proc EXCEPT ![p] = [proc[p] EXCEPT !.pc = "account", !.gone = {}]]
            \/ Stop(p)
        BY <2>3, ShapeOf, Zenon DEF Removed, DeleteVersionRow, Shape
      <3> QED BY <2>1, <3>1, ShapeOf, Zenon
    <2> HIDE DEF Kept
    <2>4. CASE PutUsage(p)
      BY <2>4, <2>1, <2>2, Zenon DEF PutUsage
    <2>5. CASE PutBlob(p)
      BY <2>5, <2>1, <2>2, Zenon DEF PutBlob
    <2>6. CASE PutHold(p)
      BY <2>6, <2>1, <2>2, Zenon DEF PutHold
    <2>7. CASE SoftDelete(p)
      BY <2>7, <2>1, <2>2, Zenon DEF SoftDelete
    <2>8. CASE HardDeleteList(p)
      BY <2>8, <2>1, <2>2, Zenon DEF HardDeleteList
    <2>9. CASE DeleteBlob(p)
      BY <2>9, <2>1, <2>2, Zenon DEF DeleteBlob
    <2>10. CASE RestoreRow(p)
      BY <2>10, <2>1, <2>2, Zenon DEF RestoreRow
    <2>11. CASE Recheck(p)
      BY <2>11, <2>1, <2>2, Zenon DEF Recheck
    <2>12. CASE SweepBlob(p)
      BY <2>12, <2>1, <2>2, Zenon DEF SweepBlob
    <2>13. CASE ListBlobs(p)
      BY <2>13, <2>1, <2>2, Zenon DEF ListBlobs
    <2>14. CASE DeleteOrphan(p)
      BY <2>14, <2>1, <2>2, Zenon DEF DeleteOrphan
    <2>15. CASE HardDeleteRows(p) \/ PurgeRows(p) \/ ExpireRow(p)
      BY <2>15, <2>1, <2>3, Zenon DEF HardDeleteRows, PurgeRows, ExpireRow
    <2>16. CASE Account(p)
      BY <2>16, <2>1, Zenon DEF Account
    <2> QED BY <2>1, <2>3, <2>4, <2>5, <2>6, <2>7, <2>8, <2>9, <2>10, <2>11, <2>12, <2>13, <2>14, <2>15, <2>16, Zenon DEF Kept
  <1>4. DOMAIN blob' = Keys
    BY <1>2, ShapeOf, Zenon
  <1> QED BY <1>0, <1>1, <1>3, <1>4, ShapeKept, ShapeOf, Zenon

\* So do the steps that write rows, holds and the age of blobs.
LEMMA ShapeRest ==
    ASSUME Shape,
           \/ \E p \in Procs : PutRow(p) \/ CreateDeleteMarker(p)
           \/ \E i \in Ids : PutLegalHold(i) \/ RemoveLegalHold(i)
           \/ \E k \in Keys : GracePasses(k)
           \/ UNCHANGED vars
    PROVE  Shape'
  <1>1. ASSUME NEW p \in Procs, PutRow(p) PROVE Shape'
    <2>1. PICK pc : proc' = [proc EXCEPT ![p] = [@ EXCEPT !.pc = pc,
                 !.id = IF versioned \/ Live(rows) = {} THEN lastId + 1
                        ELSE CHOOSE i \in Live(rows) : TRUE]]
      BY <1>1, Zenon DEF PutRow
    <2>2. PICK r : DOMAIN r = Fields /\ proc' = [proc EXCEPT ![p] = r]
      BY <2>1, ShapeOf, Zenon DEF Shape
    <2>3. blob' = blob /\ reqs' = reqs
      BY <1>1, Zenon DEF PutRow
    <2>4. lastId' \in Nat
      <3>1. PICK c : c = CHOOSE i \in Live(rows) : TRUE
        BY Zenon
      <3>2. \/ lastId' \in {lastId, lastId + 1}
            \/ Live(rows) # {} /\ lastId' \in {lastId, c}
        BY <1>1, <3>1, Zenon DEF PutRow
      <3>3. Live(rows) # {} => c \in Nat
        BY <3>1 DEF Live, InState, Ids
      <3>4. lastId \in Nat
        BY Zenon DEF Shape
      <3> QED BY <3>2, <3>3, <3>4
    <2> QED BY <2>2, <2>3, <2>4, ShapeKept, ShapeOf, Zenon
  <1>2. ASSUME NEW p \in Procs, CreateDeleteMarker(p) PROVE Shape'
    <2>1. /\ proc' = proc /\ blob' = blob /\ lastId' = lastId + 1
          /\ reqs < MaxReqs /\ reqs' = reqs + 1
      BY <1>2, Zenon DEF CreateDeleteMarker, NewRequest
    <2> QED BY <2>1, MaxReqsAssumption DEF Shape
  <1>3. CASE UNCHANGED <<proc, blob, lastId, reqs>>
    BY <1>3, Zenon DEF Shape
  <1>4. ASSUME NEW i, PutLegalHold(i) \/ RemoveLegalHold(i)
        PROVE  UNCHANGED <<proc, blob, lastId, reqs>>
    BY <1>4, Zenon DEF PutLegalHold, RemoveLegalHold
  <1>5. ASSUME NEW k, GracePasses(k) PROVE UNCHANGED <<proc, blob, lastId, reqs>>
    BY <1>5, Zenon DEF GracePasses
  <1>6. CASE UNCHANGED vars
    BY <1>3, <1>6, Zenon DEF vars, state
  <1> QED BY <1>1, <1>2, <1>3, <1>4, <1>5, <1>6, Zenon

\* Every step keeps the shape.
LEMMA ShapeStep ==
    ASSUME Shape, [Next]_vars
    PROVE  Shape'
  <1>1. ASSUME NEW c \in Clients, Request(c) \/ Step(c) \/ Abandon(c) PROVE Shape'
    <2>1. c \in Procs
      BY Zenon DEF Procs
    <2> QED BY <1>1, <2>1, ShapeStart, ShapeGoto, ShapeRest, Zenon DEF Request, Step
  <1>2. ASSUME NEW s \in Sweepers, Sweep(s) \/ SweepStep(s) \/ Abandon(s) PROVE Shape'
    <2>1. s \in Procs
      BY Zenon DEF Procs
    <2> QED BY <1>2, <2>1, ShapeStart, ShapeGoto, Zenon DEF SweepStep
  <1> QED BY <1>1, <1>2, ShapeRest, Zenon DEF Next, ClientNext

\* In a versioned bucket every step keeps the versions apart and their blobs
\* in place. The named steps come first: the numbering, then one per kind of
\* step.
LEMMA VersionsStep ==
    Shape /\ VInv /\ versioned /\ IsTable(rows) /\ [Next]_vars => VInv'
  \* A set of versions to be removed has a newest one: NextKey, NextVersion.
  <1>NewestIn.
    ASSUME NEW T, T # {}, \A v \in T : v[1] \in 0..MaxReqs
    PROVE  (CHOOSE v \in T : \A w \in T : w[1] <= v[1]) \in T
    <2> USE <1>NewestIn
    <2>1. PICK x \in {v[1] : v \in T} : \A y \in {v[1] : v \in T} : x >= y
      <3> DEFINE S == {v[1] : v \in T}
      <3>1. S \in SUBSET (0..MaxReqs) /\ S # {}
        BY Zenon
      <3>2. \E x \in S : \A y \in S : x >= y
        <4> HIDE DEF S
        <4> QED BY <3>1, Largest, Zenon
      <3> QED BY <3>2, Zenon
    <2>2. PICK v \in T : v[1] = x
      BY Zenon
    <2>3. \A w \in T : w[1] <= v[1]
      <3> SUFFICES ASSUME NEW w \in T PROVE w[1] <= v[1]
        BY Zenon
      <3>1. w[1] \in {u[1] : u \in T}
        BY Zenon
      <3>2. x >= w[1] /\ x \in Int /\ w[1] \in Int
        BY <2>1, <2>2, <3>1
      <3> QED BY <2>2, <3>2, Zenon
    <2> QED BY <2>3, Zenon
  <1>ShrinksHolds.
    ASSUME NEW t, IsTable(t), NEW k, NEW H
    PROVE  Shrinks(t, [t EXCEPT ![k] = WithHolds(t[k], H)])
    BY <1>ShrinksHolds, Zenon DEF Shrinks, Present, WithHolds, IsTable
  \* What is in hand stays right when rows go, requests come and blobs get young.
  <1>FitKept.
    ASSUME NEW r, NEW t, NEW u, NEW n \in Int, NEW m \in Int, NEW l, NEW o, NEW q,
           Fit(r, t, n, l, o), Shrinks(t, u), n <= m, q \subseteq o
    PROVE  Fit(r, u, m, l, q)
    <2> USE <1>FitKept
    <2>1. \A v \in r.todo : v[1] \in 0..MaxReqs /\ v[2] \in Int /\ v[2] <= m
      BY DEF Fit
    <2>2. r.op = "expire" /\ r.pc # "account" /\ r.id \in Present(u) =>
              /\ r.gone \subseteq {u[r.id].key} \ {NoKey}
              /\ \A v \in r.todo : v[2] = u[r.id].key
      BY Zenon DEF Fit, Shrinks
    <2>3. r.op = "scan" /\ r.pc = "list" =>
            \A i \in Present(u) :
               u[i].key = NoKey \/ <<0, u[i].key>> \in r.todo \/ u[i].key \notin q
      BY Zenon DEF Fit, Shrinks
    <2>4. r.pc = "delete" =>
            \A i \in Present(u) : u[i].key = NoKey \/ \A v \in r.todo : v[2] # u[i].key
      BY Zenon DEF Fit, Shrinks
    <2> QED BY <2>1, <2>2, <2>3, <2>4, Zenon DEF Fit
  \* A step that adds no upload, no row and no blob, and deletes no blob of an
  \* upload, or of a row unless its process says so.
  <1>Calm.
    ASSUME Shape, VInv, versioned, versioned' = versioned,
           Shrinks(rows, rows'), lastId' = lastId, reqs' \in reqs..MaxReqs,
           \A k \in Keys :
               \/ blob'[k] = blob[k]
               \/ /\ blob'[k] = 0 /\ \A q \in Procs : Pending(q)' => proc[q].up # k
                  /\ \/ \E q \in Procs : k \in proc'[q].gone
                     \/ \A i \in Present(rows) : rows[i].key # k,
           old' \subseteq old, stray \subseteq stray',
           \A q \in Procs : proc'[q] = proc[q] \/ Moves(q)
    PROVE  VInv'
    <2> USE <1>Calm
    <2> USE DEF VInv
    <2>1. reqs \in Int /\ reqs' \in Int /\ reqs <= reqs' /\ lastId \in Int /\ reqs' <= MaxReqs /\ reqs >= 0
      BY MaxReqsAssumption DEF Shape
    <2>2. \A q \in Procs :
              Pending(q)' => /\ Pending(q) /\ proc'[q].up = proc[q].up
                             /\ (proc'[q].pc = "row" <=> proc[q].pc = "row")
      BY Zenon DEF Moves, Pending
    <2>3. Fits'
      <3> SUFFICES ASSUME NEW q \in Procs PROVE Fit(proc'[q], rows', reqs', lastId', old')
        <4>1. \A s \in Sweepers : proc'[s].pc = "blobs" => proc'[s].todo # {}
          BY Zenon DEF Fits, Moves, Procs
        <4> QED BY <4>1, Zenon DEF Fits
      <3>1. CASE Moves(q)
        BY <3>1, Zenon DEF Moves
      <3>2. CASE proc'[q] = proc[q]
        <4>1. Fit(proc[q], rows, reqs, lastId, old)
          BY Zenon DEF Fits
        <4>2. Fit(proc[q], rows', reqs', lastId, old')
          BY <2>1, <4>1, <1>FitKept, Zenon
        <4> QED BY <3>2, <4>2, Zenon
      <3> QED BY <3>1, <3>2, Zenon
    <2>4. \A i \in Present(rows') : /\ i \in Present(rows) /\ rows'[i].up = rows[i].up
                                    /\ rows'[i].key = rows[i].key
      BY Zenon DEF Shrinks
    <2>5. Numbered'
      <3>1. \A i \in Present(rows') :
               /\ i <= lastId' /\ rows'[i].up \in 1..reqs'
               /\ rows'[i].key \in {NoKey, rows'[i].up}
        BY <2>1, <2>4 DEF Numbered
      <3>2. \A i, j \in Present(rows') : rows'[i].up = rows'[j].up => i = j
        BY <2>4, ZenonT(40) DEF Numbered
      <3>3. \A k \in Keys : k > reqs' => blob'[k] = 0
        BY <2>1 DEF Numbered, Keys, SharedKey
      <3> QED BY <3>1, <3>2, <3>3, Zenon DEF Numbered
    <2>6. Uploading'
      <3> SUFFICES ASSUME NEW p \in Procs, Pending(p)'
                   PROVE  /\ proc'[p].up \in 1..reqs'
                          /\ \A i \in Present(rows') : rows'[i].up # proc'[p].up
                          /\ \A q \in Procs : Pending(q)' /\ proc'[q].up = proc'[p].up => q = p
                          /\ \A q \in Procs : \A v \in proc'[q].todo : v[2] # proc'[p].up
                          /\ proc'[p].pc = "row" => /\ blob'[proc'[p].up] = proc'[p].up
                                                    /\ proc'[p].up \notin old'
                          /\ proc'[p].pc # "row" => blob'[proc'[p].up] = 0
        BY Zenon DEF Uploading
      <3>1. /\ Pending(p) /\ proc'[p].up = proc[p].up
            /\ (proc'[p].pc = "row" <=> proc[p].pc = "row")
        BY <2>2, Zenon
      <3>2. proc[p].up \in 1..reqs /\ \A i \in Present(rows) : rows[i].up # proc[p].up
        BY <3>1, Zenon DEF Uploading
      <3>3. \A q \in Procs : Pending(q)' /\ proc'[q].up = proc'[p].up => q = p
        BY <2>2, <3>1, Zenon DEF Uploading
      <3>4. \A q \in Procs : \A v \in proc'[q].todo : v[2] # proc[p].up
        <4> SUFFICES ASSUME NEW q \in Procs PROVE \A v \in proc'[q].todo : v[2] # proc[p].up
          BY Zenon
        <4>1. CASE proc'[q] = proc[q]
          BY <3>1, <4>1 DEF Uploading
        <4>2. CASE Moves(q)
          BY <4>2, Zenon DEF Moves
        <4> QED BY <4>1, <4>2, Zenon
      <3>5. proc[p].up \in Keys
        BY <2>1, <3>2, MaxReqsAssumption DEF Keys, SharedKey
      <3>6. blob'[proc[p].up] = blob[proc[p].up]
        BY <3>5, Zenon
      <3>7. /\ proc[p].pc = "row" => blob[proc[p].up] = proc[p].up /\ proc[p].up \notin old
            /\ proc[p].pc # "row" => blob[proc[p].up] = 0
        BY <3>1, Zenon DEF Uploading
      <3> QED BY <2>1, <2>4, <3>1, <3>2, <3>3, <3>4, <3>6, <3>7
    <2>7. RowsBacked'
      <3> SUFFICES ASSUME NEW i \in Present(rows')
                   PROVE  \/ IsDeleteMarker(rows'[i]) \/ blob'[rows'[i].key] = rows'[i].up
                          \/ rows'[i].key \in stray'
                          \/ \E q \in Procs : rows'[i].key \in proc'[q].gone
        BY Zenon DEF RowsBacked
      <3>1. i \in Present(rows) /\ rows'[i].up = rows[i].up /\ rows'[i].key = rows[i].key
        BY <2>4, Zenon
      <3>2. CASE rows[i].key = NoKey
        BY <3>1, <3>2, Zenon DEF IsDeleteMarker
      <3>3. CASE rows[i].key # NoKey /\ blob[rows[i].key] = rows[i].up
        <4>1. rows[i].key \in Keys
          BY <2>1, <3>1, <3>3, MaxReqsAssumption DEF Numbered, Keys, SharedKey
        <4> QED BY <3>1, <3>3, <4>1, Zenon
      <3>4. CASE rows[i].key \in stray
        BY <3>1, <3>4, Zenon
      <3>5. ASSUME NEW q \in Procs, rows[i].key \in proc[q].gone
            PROVE  \/ rows'[i].key \in stray'
                   \/ rows'[i].key \in proc'[q].gone
        <4>1. CASE proc'[q] = proc[q]
          BY <3>1, <3>5, <4>1, Zenon
        <4>2. CASE Moves(q)
          BY <3>1, <3>5, <4>2, Zenon DEF Moves
        <4> QED BY <4>1, <4>2, Zenon
      <3> QED BY <3>1, <3>2, <3>3, <3>4, <3>5, Zenon DEF RowsBacked, IsDeleteMarker
    <2> QED BY <2>3, <2>5, <2>6, <2>7, Zenon
  \* No upload's key is one of a row, or of what somebody removes.
  <1>NotPending.
    ASSUME Numbered, Uploading, NEW p \in Procs, Pending(p)
    PROVE  /\ \A i \in Present(rows) : rows[i].key # proc[p].up
           /\ \A q \in Procs : \A v \in proc[q].todo : v[2] # proc[p].up
    BY <1>NotPending DEF Numbered, Uploading, NoKey
  <1>RowKeys.
    ASSUME Shape, Numbered, NEW i \in Present(rows)
    PROVE  rows[i].key \in Int /\ rows[i].key <= reqs /\ rows[i].up \in Nat /\ i \in Ids
    BY <1>RowKeys DEF Shape, Numbered, NoKey, Present
  \* An operation ends, by itself or not; an upload may have taken back its blob.
  <1>EndKeeps.
    ASSUME Shape, VInv, versioned, versioned' = versioned, NEW p \in Procs,
           proc' = [proc EXCEPT ![p] = Idle], stray \cup proc[p].gone \subseteq stray',
           rows' = rows, lastId' = lastId, reqs' = reqs, old' \subseteq old,
           blob' = blob \/ (Pending(p) /\ blob' = StoreDelete(proc[p].up))
    PROVE  VInv'
    <2> USE <1>EndKeeps
    <2>1. reqs \in Int /\ reqs' \in reqs..MaxReqs /\ proc'[p] = Idle
          /\ \A q \in Procs : q # p => proc'[q] = proc[q]
      BY DEF Shape
    <2>2. Shrinks(rows, rows')
      BY Zenon DEF Shrinks
    <2>3. ~Pending(p)'
      BY <2>1 DEF Pending, Idle
    <2>4. ASSUME NEW k \in Keys, blob'[k] # blob[k]
          PROVE  /\ blob'[k] = 0 /\ \A q \in Procs : Pending(q)' => proc[q].up # k
                 /\ \A i \in Present(rows) : rows[i].key # k
      <3>1. Pending(p) /\ k = proc[p].up /\ blob'[k] = 0
        BY <2>4, Zenon DEF StoreDelete
      <3>2. ASSUME NEW q \in Procs, Pending(q)' PROVE proc[q].up # k
        <4>1. q # p /\ Pending(q)
          BY <2>1, <2>3, <3>2, Zenon DEF Pending
        <4> QED BY <3>1, <4>1, Zenon DEF VInv, Uploading
      <3> QED BY <3>1, <3>2, <1>NotPending, Zenon DEF VInv
    <2>5. Moves(p)
      BY <2>1, <2>3, IdleFits DEF Moves, Idle
    <2> QED BY <2>1, <2>2, <2>4, <2>5, <1>Calm, Zenon
  \* Process p goes on to r and deletes at most blobs it was to delete.
  <1>GoesOn.
    ASSUME Shape, VInv, versioned, versioned' = versioned, NEW p \in Procs, NEW r,
           proc' = [proc EXCEPT ![p] = r],
           Shrinks(rows, rows'), lastId' = lastId, reqs' \in reqs..MaxReqs,
           old' \subseteq old, stray \subseteq stray',
           \/ r.pc \notin {"usage", "blob", "row"}
           \/ r.pc # "row" /\ proc[p].pc \in {"usage", "blob"} /\ r.up = proc[p].up,
           Fit(r, rows', reqs', lastId, old'),
           \A v \in r.todo : \/ \E w \in proc[p].todo : v[2] = w[2]
                             \/ \E i \in Present(rows) : v[2] = rows[i].key
                             \/ \A q \in Procs : Pending(q) => v[2] # proc[q].up,
           \A k \in proc[p].gone : \/ k \in r.gone
                                   \/ \A i \in Present(rows') : rows'[i].key # k,
           p \in Sweepers /\ r.pc = "blobs" => r.todo # {},
           \A k \in Keys : \/ blob'[k] = blob[k]
                           \/ /\ blob'[k] = 0 /\ \E w \in proc[p].todo : w[2] = k
                              /\ k \in r.gone \/ \A i \in Present(rows) : rows[i].key # k
    PROVE  VInv'
    <2> USE <1>GoesOn
    <2>1. proc'[p] = r /\ \A q \in Procs : q # p => proc'[q] = proc[q]
      BY Zenon DEF Shape
    <2>2. \A q \in Procs : Pending(q)' => Pending(q)
      BY <2>1, Zenon DEF Pending
    <2>3. ASSUME NEW q \in Procs, Pending(q)
          PROVE  /\ \A v \in r.todo : v[2] # proc[q].up
                 /\ \A w \in proc[p].todo : w[2] # proc[q].up
      BY <2>3, <1>NotPending DEF VInv
    <2>4. Moves(p)
      BY <2>1, <2>2, <2>3, Zenon DEF Moves, Pending
    <2>5. ASSUME NEW k \in Keys, blob'[k] # blob[k]
          PROVE  /\ blob'[k] = 0 /\ \A q \in Procs : Pending(q)' => proc[q].up # k
                 /\ \/ \E q \in Procs : k \in proc'[q].gone
                    \/ \A i \in Present(rows) : rows[i].key # k
      BY <2>1, <2>2, <2>3, <2>5
    <2> QED BY <2>1, <2>4, <2>5, <1>Calm, Zenon
  \* What p has in hand, at the steps that are no removal's.
  <1>FitOf.
    ASSUME Shape, VInv, NEW p \in Procs
    PROVE  /\ Fit(proc[p], rows, reqs, lastId, old) /\ DOMAIN proc[p] = Fields
           /\ reqs \in Int /\ reqs \in reqs..MaxReqs
           /\ Shrinks(rows, rows)
    BY <1>FitOf DEF Shape, VInv, Fits, Shrinks
  \* A step of p that touches neither blobs nor what p removes.
  <1>StepsOn.
    ASSUME Shape, VInv, versioned, versioned' = versioned, NEW p \in Procs, NEW r,
           proc' = [proc EXCEPT ![p] = r],
           Shrinks(rows, rows'), lastId' = lastId, reqs' = reqs, blob' = blob, old' = old,
           stray' = stray,
           proc[p].pc \notin {"blobs", "recheck", "delete"},
           proc[p].op = "scan" => proc[p].pc # "list",
           r.op = proc[p].op, r.up = proc[p].up, r.todo = proc[p].todo, r.gone = proc[p].gone,
           \/ r.pc \in {"hold", "account"}
           \/ r.pc = "blobs" /\ p \notin Sweepers
           \/ r.pc = "blob" /\ proc[p].pc = "usage",
           proc[p].pc # "account"
    PROVE  VInv'
    <2> USE <1>StepsOn
    <2>1. Fit(proc[p], rows, reqs, lastId, old) /\ reqs \in Int
      BY <1>FitOf, Zenon
    <2>2. Fit(proc[p], rows', reqs, lastId, old)
      BY <2>1, <1>FitKept
    <2>3. proc[p].gone = {} /\ proc[p].op \notin {"version", "expire"}
      BY <2>1, Zenon DEF Fit
    <2>4. Fit(r, rows', reqs, lastId, old)
      BY <2>2, <2>3, Zenon DEF Fit
    <2> QED BY <2>3, <2>4, <1>GoesOn, <1>FitOf, Zenon
  <1>PlainSteps.
    ASSUME Shape, VInv, versioned, IsTable(rows), NEW p \in Procs,
           \/ PutUsage(p) \/ PutHold(p) \/ SoftDelete(p) \/ RestoreRow(p)
           \/ Account(p) \/ Abandon(p)
    PROVE  VInv'
    <2> USE <1>PlainSteps
    <2>1. DOMAIN proc[p] = Fields /\ versioned' = versioned
      BY <1>FitOf, Zenon DEF PutUsage, PutHold, SoftDelete, RestoreRow, Account, Abandon, state
    <2>2. ASSUME Stop(p) \/ Abandon(p), UNCHANGED <<versioned, rows, lastId, blob, old>>
          PROVE  VInv'
      <3>1. proc' = [proc EXCEPT ![p] = Idle] /\ stray' = stray \cup proc[p].gone /\ reqs' = reqs
        BY <2>2, Zenon DEF Stop, Abandon
      <3>2. /\ rows' = rows /\ lastId' = lastId /\ blob' = blob /\ old' \subseteq old
            /\ stray \cup proc[p].gone \subseteq stray'
        BY <2>2, <3>1, Zenon
      <3> QED BY <2>1, <3>1, <3>2, <1>EndKeeps, Zenon
    <2>3. CASE PutUsage(p)
      <3>1. UNCHANGED <<versioned, rows, lastId, blob, old>> /\ proc[p].pc = "usage"
        BY <2>3, Zenon DEF PutUsage, state
      <3>2. CASE Stop(p)
        BY <2>2, <3>1, <3>2, Zenon
      <3>3. ASSUME NEW d, Goto(p, [proc[p] EXCEPT !.pc = "blob", !.owed = d]) PROVE VInv'
        <4> DEFINE r == [proc[p] EXCEPT !.pc = "blob", !.owed = d]
        <4>1. r.pc = "blob" /\ r.op = proc[p].op /\ r.up = proc[p].up /\ r.todo = proc[p].todo
              /\ r.gone = proc[p].gone
          BY <2>1, Zenon DEF Fields
        <4>2. proc' = [proc EXCEPT ![p] = r] /\ reqs' = reqs /\ stray' = stray
          BY <3>3, Zenon DEF Goto
        <4> HIDE DEF r
        <4> QED BY <2>1, <3>1, <4>1, <4>2, <1>StepsOn, <1>FitOf, Zenon
      <3> QED BY <2>3, <3>2, <3>3, Zenon DEF PutUsage
    <2>4. ASSUME proc[p].pc \in {"hold", "soft", "restore"}, Shrinks(rows, rows'),
                 UNCHANGED <<versioned, lastId, blob, old>>,
                 Goto(p, [proc[p] EXCEPT !.pc = "account"])
          PROVE  VInv'
      <3> DEFINE r == [proc[p] EXCEPT !.pc = "account"]
      <3>1. r.pc = "account" /\ r.op = proc[p].op /\ r.up = proc[p].up /\ r.todo = proc[p].todo
            /\ r.gone = proc[p].gone
        BY <2>1, Zenon DEF Fields
      <3>2. proc' = [proc EXCEPT ![p] = r] /\ reqs' = reqs /\ stray' = stray
        BY <2>4, Zenon DEF Goto
      <3>3. lastId' = lastId /\ blob' = blob /\ old' = old
        BY <2>4, Zenon
      <3> HIDE DEF r
      <3> QED BY <2>1, <2>4, <3>1, <3>2, <3>3, <1>StepsOn, Zenon
    <2>5. CASE PutHold(p)
      <3>1. CASE Stop(p) /\ rows' = rows
        BY <2>2, <2>5, <3>1, Zenon DEF PutHold
      <3>2. CASE ~(Stop(p) /\ rows' = rows)
        <4>1. /\ rows' = [rows EXCEPT ![proc[p].id] =
                      WithHolds(rows[proc[p].id], rows[proc[p].id].holds \cup {proc[p].up})]
              /\ Goto(p, [proc[p] EXCEPT !.pc = "account"])
              /\ UNCHANGED <<versioned, lastId, blob, old>> /\ proc[p].pc = "hold"
          BY <2>5, <3>2, Zenon DEF PutHold
        <4> QED BY <2>4, <4>1, <1>ShrinksHolds, Zenon
      <3> QED BY <3>1, <3>2, Zenon
    <2>6. CASE SoftDelete(p)
      <3>1. CASE Stop(p) /\ rows' = rows
        BY <2>2, <2>6, <3>1, Zenon DEF SoftDelete
      <3>2. CASE ~(Stop(p) /\ rows' = rows)
        <4>1. /\ rows' = SetState(rows, Live(rows), "deleted")
              /\ Goto(p, [proc[p] EXCEPT !.pc = "account"])
              /\ UNCHANGED <<versioned, lastId, blob, old>> /\ proc[p].pc = "soft"
          BY <2>6, <3>2, Zenon DEF SoftDelete, SoftDeleteObject
        <4>2. Live(rows) \subseteq Present(rows)
          BY Zenon DEF Live, InState, Present
        <4> QED BY <2>4, <4>1, <4>2, ShrinksSetState, Zenon
      <3> QED BY <3>1, <3>2, Zenon
    <2>7. CASE RestoreRow(p)
      <3>1. CASE Stop(p) /\ rows' = rows
        BY <2>2, <2>7, <3>1, Zenon DEF RestoreRow
      <3>2. CASE ~(Stop(p) /\ rows' = rows)
        <4> DEFINE D == InState(rows, "deleted")
        <4>1. /\ rows' = SetState(rows, {Max(D)}, "live") /\ D # {}
              /\ Goto(p, [proc[p] EXCEPT !.pc = "account"])
              /\ UNCHANGED <<versioned, lastId, blob, old>> /\ proc[p].pc = "restore"
          BY <2>7, <3>2, Zenon DEF RestoreRow, RestoreObject
        <4>2. D \subseteq Present(rows) /\ D \in SUBSET Ids
          BY Zenon DEF InState, Present
        <4> HIDE DEF D
        <4>3. {Max(D)} \subseteq Present(rows)
          BY <4>1, <4>2, MaxIn, Zenon
        <4> QED BY <2>4, <4>1, <4>3, ShrinksSetState, Zenon
      <3> QED BY <3>1, <3>2, Zenon
    <2>8. CASE Account(p)
      <3>1. /\ proc' = [proc EXCEPT ![p] = Idle] /\ stray' = stray /\ reqs' = reqs
            /\ UNCHANGED <<versioned, rows, lastId, blob, old>> /\ proc[p].pc = "account"
        BY <2>8, Zenon DEF Account, Goto
      <3>2. proc[p].gone = {}
        BY <3>1, <1>FitOf, Zenon DEF Fit
      <3>3. /\ rows' = rows /\ lastId' = lastId /\ blob' = blob /\ old' \subseteq old
            /\ stray \cup proc[p].gone \subseteq stray'
        BY <3>1, <3>2, Zenon
      <3> QED BY <2>1, <3>1, <3>3, <1>EndKeeps, Zenon
    <2>9. CASE Abandon(p)
      BY <2>2, <2>9, Zenon DEF Abandon, state
    <2> QED BY <2>3, <2>5, <2>6, <2>7, <2>8, <2>9, Zenon
  \* p ends where it is, by an error.
  <1>StopKeeps.
    ASSUME Shape, VInv, versioned, NEW p \in Procs, Stop(p),
           UNCHANGED <<versioned, rows, lastId, blob, old>>
    PROVE  VInv'
    <2> USE <1>StopKeeps
    <2>1. proc' = [proc EXCEPT ![p] = Idle] /\ stray' = stray \cup proc[p].gone /\ reqs' = reqs
      BY Zenon DEF Stop
    <2>2. /\ rows' = rows /\ lastId' = lastId /\ blob' = blob /\ old' \subseteq old
          /\ stray \cup proc[p].gone \subseteq stray' /\ versioned' = versioned
      BY <2>1, Zenon
    <2> QED BY <2>1, <2>2, <1>EndKeeps, Zenon
  \* The versions of the key are rows'.
  <1>VersionsFit.
    ASSUME Shape, VInv, NEW v \in Versions
    PROVE  /\ v[1] \in 0..MaxReqs /\ v[2] \in Int /\ v[2] <= reqs
           /\ \E i \in Present(rows) : v[2] = rows[i].key
    <2> USE <1>VersionsFit
    <2>1. PICK i \in Present(rows) : v = <<i, rows[i].key>>
      BY Zenon DEF Versions
    <2>2. rows[i].key \in Int /\ rows[i].key <= reqs /\ i \in Ids
      BY <1>RowKeys, Zenon DEF VInv
    <2>3. v[1] = i /\ v[2] = rows[i].key
      BY <2>1, Zenon
    <2> QED BY <2>2, <2>3, MaxReqsAssumption DEF Ids
  <1>HardDeleteListKeeps.
    ASSUME Shape, VInv, versioned, NEW p \in Procs, p \notin Sweepers, HardDeleteList(p)
    PROVE  VInv'
    <2> USE <1>HardDeleteListKeeps
    <2>1. UNCHANGED <<versioned, rows, lastId, blob, old>> /\ proc[p].pc = "list"
      BY Zenon DEF HardDeleteList, state
    <2>2. CASE Stop(p)
      BY <2>1, <2>2, <1>StopKeeps, Zenon
    <2>3. ASSUME NEW T, NEW d, T = proc[p].todo \/ T = Versions,
                 Goto(p, [proc[p] EXCEPT !.pc = "blobs", !.todo = T, !.owed = d])
          PROVE  VInv'
      <3>1. PICK r : r = [proc[p] EXCEPT !.pc = "blobs", !.todo = T, !.owed = d]
        BY Zenon
      <3>2. r.pc = "blobs" /\ r.op = proc[p].op /\ r.todo = T /\ r.gone = proc[p].gone
        BY <3>1, <1>FitOf, Zenon DEF Fields
      <3>3. proc' = [proc EXCEPT ![p] = r] /\ reqs' = reqs /\ stray' = stray
        BY <2>3, <3>1, Zenon DEF Goto
      <3>4. Fit(proc[p], rows, reqs, lastId, old)
        BY <1>FitOf, Zenon
      <3>5. ASSUME NEW v \in T
            PROVE  /\ v[1] \in 0..MaxReqs /\ v[2] \in Int /\ v[2] <= reqs
                   /\ \/ \E w \in proc[p].todo : v[2] = w[2]
                      \/ \E i \in Present(rows) : v[2] = rows[i].key
        BY <2>3, <3>4, <3>5, <1>VersionsFit, Zenon DEF Fit
      <3>6. Fit(r, rows, reqs, lastId, old)
        BY <2>1, <3>2, <3>4, <3>5, Zenon DEF Fit
      <3>7. proc[p].gone = {}
        BY <2>1, <3>4, Zenon DEF Fit
      <3>8. /\ Shrinks(rows, rows') /\ reqs' \in reqs..MaxReqs
            /\ old' \subseteq old /\ stray \subseteq stray'
            /\ lastId' = lastId /\ versioned' = versioned
        BY <2>1, <3>3, <1>FitOf, Zenon
      <3>9. Fit(r, rows', reqs', lastId, old')
        BY <2>1, <3>3, <3>6, Zenon
      <3>10. /\ \A v \in r.todo : (\E w \in proc[p].todo : v[2] = w[2])
                                   \/ (\E i \in Present(rows) : v[2] = rows[i].key)
             /\ \A k \in proc[p].gone : k \in r.gone
             /\ r.pc = "blobs" /\ proc' = [proc EXCEPT ![p] = r]
        BY <3>2, <3>3, <3>5, Zenon
      <3>11. \A k \in Keys : blob'[k] = blob[k]
        BY <2>1, Zenon
      <3> QED BY <3>8, <3>9, <3>10, <3>11, <1>GoesOn, Zenon
    <2>4. CASE Goto(p, [proc[p] EXCEPT !.pc = "blobs"])
      <3>1. [proc[p] EXCEPT !.pc = "blobs"]
              = [proc[p] EXCEPT !.pc = "blobs", !.todo = proc[p].todo, !.owed = proc[p].owed]
        BY <1>FitOf, Zenon DEF Fields
      <3> QED BY <2>3, <2>4, <3>1, Zenon
    <2> QED BY <2>2, <2>3, <2>4, Zenon DEF HardDeleteList
  <1>DeleteBlobKeeps.
    ASSUME Shape, VInv, versioned, NEW p \in Procs, p \notin Sweepers, DeleteBlob(p)
    PROVE  VInv'
    <2> USE <1>DeleteBlobKeeps
    <2>0. Fit(proc[p], rows, reqs, lastId, old) /\ reqs \in Int
      BY <1>FitOf, Zenon
    <2>1. PICK w \in proc[p].todo : w = CHOOSE v \in proc[p].todo : \A u \in proc[p].todo : u[1] <= v[1]
      <3>1. proc[p].todo # {} /\ \A v \in proc[p].todo : v[1] \in 0..MaxReqs
        BY <2>0, Zenon DEF DeleteBlob, Fit
      <3>2. (CHOOSE v \in proc[p].todo : \A u \in proc[p].todo : u[1] <= v[1]) \in proc[p].todo
        BY <3>1, <1>NewestIn, Zenon
      <3> QED BY <3>2, Zenon
    <2>2. PICK k : k = w[2]
      BY Zenon
    <2>3. PICK r : r = [proc[p] EXCEPT !.todo = {v \in @ : v[2] # k}, !.gone = @ \cup ({k} \ {NoKey})]
      BY Zenon
    <2>4. /\ proc[p].pc = "blobs" /\ blob' = StoreDelete(k)
          /\ proc' = [proc EXCEPT ![p] = r] /\ reqs' = reqs /\ stray' = stray
          /\ UNCHANGED <<versioned, rows, lastId, old>>
      <3>1. k = NextKey(p)
        BY <2>1, <2>2, Zenon DEF NextKey
      <3> QED BY <2>3, <3>1, Zenon DEF DeleteBlob, Goto
    <2>5. /\ r.pc = proc[p].pc /\ r.op = proc[p].op /\ r.up = proc[p].up /\ r.id = proc[p].id
          /\ r.todo = {v \in proc[p].todo : v[2] # k} /\ r.gone = proc[p].gone \cup ({k} \ {NoKey})
      BY <2>3, <1>FitOf, Zenon DEF Fields
    <2>6. r.op # "expire"
      BY <2>5, Zenon DEF DeleteBlob
    <2>7. Fit(r, rows, reqs, lastId, old)
      <3>1. \A v \in r.todo : v[1] \in 0..MaxReqs /\ v[2] \in Int /\ v[2] <= reqs
        BY <2>0, <2>5, Zenon DEF Fit
      <3>2. r.op = "version" => r.gone \subseteq {r.up} /\ \A v \in r.todo : v[2] \in {NoKey, r.up}
        BY <2>0, <2>1, <2>2, <2>5, Zenon DEF Fit
      <3> QED BY <2>4, <2>5, <2>6, <3>1, <3>2, Zenon DEF Fit
    <2>8. ASSUME NEW j \in Keys, blob'[j] # blob[j]
          PROVE  blob'[j] = 0 /\ (\E v \in proc[p].todo : v[2] = j) /\ j \in r.gone
      <3>1. j = k /\ blob'[j] = 0
        BY <2>4, <2>8, Zenon DEF StoreDelete
      <3>2. k # NoKey
        BY <3>1 DEF Keys, NoKey, SharedKey
      <3> QED BY <2>2, <2>5, <3>1, <3>2, Zenon
    <2>9. /\ Shrinks(rows, rows') /\ reqs' \in reqs..MaxReqs
          /\ old' \subseteq old /\ stray \subseteq stray' /\ versioned' = versioned
          /\ lastId' = lastId /\ proc' = [proc EXCEPT ![p] = r]
      BY <2>4, <1>FitOf, Zenon
    <2>10. Fit(r, rows', reqs', lastId, old')
      BY <2>4, <2>7, Zenon
    <2>11. /\ \A v \in r.todo : \E u \in proc[p].todo : v[2] = u[2]
           /\ \A j \in proc[p].gone : j \in r.gone
           /\ r.pc = "blobs"
      BY <2>4, <2>5, Zenon
    <2> QED BY <2>8, <2>9, <2>10, <2>11, <1>GoesOn, ZenonT(40)
  \* p has removed its rows: none of those left has a key that p deleted.
  <1>RemovedKeeps.
    ASSUME Shape, VInv, versioned, NEW p \in Procs,
           proc[p].pc \in {"blobs", "recheck"}, proc[p].todo = {},
           proc' = [proc EXCEPT ![p] = [@ EXCEPT !.pc = "account", !.gone = {}]],
           Shrinks(rows, rows'),
           \A k \in proc[p].gone : \A i \in Present(rows') : rows'[i].key # k,
           UNCHANGED <<versioned, lastId, blob, old, reqs, stray>>
    PROVE  VInv'
    <2> USE <1>RemovedKeeps
    <2>1. PICK r : r = [proc[p] EXCEPT !.pc = "account", !.gone = {}]
      BY Zenon
    <2>2. /\ r.pc = "account" /\ r.op = proc[p].op /\ r.up = proc[p].up /\ r.id = proc[p].id
          /\ r.todo = {} /\ r.gone = {}
      BY <2>1, <1>FitOf, Zenon DEF Fields
    <2>3. Fit(proc[p], rows, reqs, lastId, old)
      BY <1>FitOf, Zenon
    <2>4. Fit(r, rows', reqs', lastId, old')
      BY <2>2, <2>3, Zenon DEF Fit
    <2>5. /\ reqs' \in reqs..MaxReqs /\ lastId' = lastId
          /\ old' \subseteq old /\ stray \subseteq stray' /\ versioned' = versioned
          /\ proc' = [proc EXCEPT ![p] = r]
      BY <2>1, <1>FitOf, Zenon DEF Shape
    <2>6. \A k \in Keys : blob'[k] = blob[k]
      BY Zenon
    <2> QED BY <2>2, <2>4, <2>5, <2>6, <1>GoesOn, Zenon
  <1>HardDeletesKeep.
    ASSUME Shape, VInv, versioned, NEW p \in Procs, HardDeleteRows(p) \/ PurgeRows(p)
    PROVE  VInv'
    <2> USE <1>HardDeletesKeep
    <2>1. CASE Stop(p) /\ rows' = rows
      <3>1. UNCHANGED <<versioned, rows, lastId, blob, old>>
        BY <2>1, Zenon DEF HardDeleteRows, PurgeRows
      <3> QED BY <2>1, <3>1, <1>StopKeeps, Zenon
    <2>2. CASE ~(Stop(p) /\ rows' = rows)
      <3>1. /\ rows' = Remove(rows, Ids) /\ Removed(p) /\ proc[p].todo = {}
            /\ UNCHANGED <<versioned, lastId, blob, old>>
            /\ proc[p].pc = "blobs" \/ proc[p].pc = "recheck"
        BY <2>2, Zenon DEF HardDeleteRows, PurgeRows
      <3>2. /\ proc' = [proc EXCEPT ![p] = [@ EXCEPT !.pc = "account", !.gone = {}]]
            /\ reqs' = reqs /\ stray' = stray
        BY <3>1, Zenon DEF Removed
      <3>3. Shrinks(rows, rows') /\ \A i \in Present(rows') : FALSE
        BY <3>1, ShrinksRemove DEF Present
      <3> QED BY <3>1, <3>2, <3>3, <1>RemovedKeeps, Zenon
    <2> QED BY <2>1, <2>2, Zenon
  <1>ExpireRowKeeps.
    ASSUME Shape, VInv, versioned, NEW p \in Procs, ExpireRow(p)
    PROVE  VInv'
    <2> USE <1>ExpireRowKeeps
    <2>1. CASE Stop(p) /\ rows' = rows
      <3>1. UNCHANGED <<versioned, rows, lastId, blob, old>>
        BY <2>1, Zenon DEF ExpireRow
      <3> QED BY <2>1, <3>1, <1>StopKeeps, Zenon
    <2>2. CASE ~(Stop(p) /\ rows' = rows)
      <3> DEFINE j == proc[p].id
      <3>1. /\ rows' = Remove(rows, {j}) /\ Removed(p) /\ proc[p].todo = {} /\ j \in Present(rows)
            /\ UNCHANGED <<versioned, lastId, blob, old>>
            /\ proc[p].pc = "recheck" /\ proc[p].op = "expire"
        BY <2>2, Zenon DEF ExpireRow
      <3>2. /\ proc' = [proc EXCEPT ![p] = [@ EXCEPT !.pc = "account", !.gone = {}]]
            /\ reqs' = reqs /\ stray' = stray
        BY <3>1, Zenon DEF Removed
      <3>3. Shrinks(rows, rows') /\ j \notin Present(rows')
        BY <3>1, ShrinksRemove, Zenon
      <3>4. proc[p].gone \subseteq {rows[j].key} \ {NoKey}
        BY <3>1, <1>FitOf, Zenon DEF Fit
      <3>5. ASSUME NEW k \in proc[p].gone, NEW i \in Present(rows') PROVE rows'[i].key # k
        <4>1. i # j /\ i \in Present(rows) /\ rows'[i].key = rows[i].key
          BY <3>3, Zenon DEF Shrinks
        <4>2. k = rows[j].key /\ k # NoKey
          BY <3>4, Zenon
        <4> QED BY <3>1, <4>1, <4>2, ZenonT(40) DEF VInv, Numbered
      <3> HIDE DEF j
      <3> QED BY <3>1, <3>2, <3>3, <3>5, <1>RemovedKeeps, Zenon
    <2> QED BY <2>1, <2>2, Zenon
  <1>DeleteVersionRowKeeps.
    ASSUME Shape, VInv, versioned, NEW p \in Procs, DeleteVersionRow(p)
    PROVE  VInv'
    <2> USE <1>DeleteVersionRowKeeps
    <2>1. CASE Stop(p) /\ rows' = rows
      <3>1. UNCHANGED <<versioned, rows, lastId, blob, old>>
        BY <2>1, Zenon DEF DeleteVersionRow
      <3> QED BY <2>1, <3>1, <1>StopKeeps, Zenon
    <2>2. CASE ~(Stop(p) /\ rows' = rows)
      <3>0. PICK j : j = CHOOSE i \in GetObjectVersion(rows, proc[p].up) : TRUE
        BY Zenon
      <3>1. /\ GetObjectVersion(rows, proc[p].up) # {}
            /\ rows' = DeleteObjectVersion(rows, j) /\ proc[p].todo = {}
            /\ proc' = [proc EXCEPT ![p] = [@ EXCEPT !.pc = "account", !.gone = {}]]
            /\ UNCHANGED <<versioned, lastId, blob, old, reqs, stray>>
            /\ proc[p].pc = "blobs" /\ proc[p].op = "version"
        BY <2>2, <3>0, Zenon DEF DeleteVersionRow
      <3>2. j \in Present(rows) /\ rows[j].up = proc[p].up
        BY <3>0, <3>1, Zenon DEF GetObjectVersion
      <3>3. Shrinks(rows, rows') /\ j \notin Present(rows')
        BY <3>1, ShrinksVersion, Zenon
      <3>4. proc[p].gone \subseteq {proc[p].up}
        BY <3>1, <1>FitOf, Zenon DEF Fit
      <3>5. ASSUME NEW k \in proc[p].gone, NEW i \in Present(rows') PROVE rows'[i].key # k
        <4>1. i # j /\ i \in Present(rows) /\ rows'[i].key = rows[i].key
          BY <3>3, Zenon DEF Shrinks
        <4>2. k = rows[j].up /\ k # NoKey
          BY <3>2, <3>4 DEF VInv, Numbered, NoKey
        <4> QED BY <3>2, <4>1, <4>2, Zenon DEF VInv, Numbered
      <3> QED BY <3>1, <3>3, <3>5, <1>RemovedKeeps, Zenon
    <2> QED BY <2>1, <2>2, Zenon
  <1>RecheckKeeps.
    ASSUME Shape, VInv, versioned, NEW p \in Procs, Recheck(p)
    PROVE  VInv'
    <2> USE <1>RecheckKeeps
    <2>1. /\ UNCHANGED <<versioned, rows, lastId, blob, old>>
          /\ proc[p].pc = "recheck" /\ proc[p].todo # {}
      BY Zenon DEF Recheck, state
    <2>2. CASE Stop(p)
      BY <2>1, <2>2, <1>StopKeeps, Zenon
    <2>3. CASE Goto(p, [proc[p] EXCEPT !.pc = "blobs"])
      <3>1. PICK r : r = [proc[p] EXCEPT !.pc = "blobs"]
        BY Zenon
      <3>2. /\ r.pc = "blobs" /\ r.op = proc[p].op /\ r.up = proc[p].up /\ r.id = proc[p].id
            /\ r.todo = proc[p].todo /\ r.gone = proc[p].gone
        BY <3>1, <1>FitOf, Zenon DEF Fields
      <3>3. proc' = [proc EXCEPT ![p] = r] /\ reqs' = reqs /\ stray' = stray
        BY <2>3, <3>1, Zenon DEF Goto
      <3>4. Fit(proc[p], rows, reqs, lastId, old)
        BY <1>FitOf, Zenon
      <3>5. Fit(r, rows, reqs, lastId, old)
        BY <2>1, <3>2, <3>4, Zenon DEF Fit
      <3>6. /\ Shrinks(rows, rows') /\ reqs' \in reqs..MaxReqs
            /\ old' \subseteq old /\ stray \subseteq stray'
            /\ lastId' = lastId /\ versioned' = versioned /\ proc' = [proc EXCEPT ![p] = r]
        BY <2>1, <3>3, <1>FitOf, Zenon
      <3>7. Fit(r, rows', reqs', lastId, old')
        BY <2>1, <3>3, <3>5, Zenon
      <3>8. \A k \in Keys : blob'[k] = blob[k]
        BY <2>1, Zenon
      <3>9. /\ \A v \in r.todo : \E u \in proc[p].todo : v[2] = u[2]
            /\ \A k \in proc[p].gone : k \in r.gone
            /\ r.todo # {} /\ r.pc = "blobs"
        BY <2>1, <3>2, Zenon
      <3> QED BY <3>6, <3>7, <3>8, <3>9, <1>GoesOn, Zenon
    <2> QED BY <2>2, <2>3, Zenon DEF Recheck
  <1>SweepBlobKeeps.
    ASSUME Shape, VInv, versioned, NEW p \in Procs, p \in Sweepers, SweepBlob(p)
    PROVE  VInv'
    <2> USE <1>SweepBlobKeeps
    <2>0. Fit(proc[p], rows, reqs, lastId, old) /\ reqs \in Int
      BY <1>FitOf, Zenon
    <2>1. PICK w \in proc[p].todo : w = NextVersion(p)
      <3>1. proc[p].todo # {} /\ \A v \in proc[p].todo : v[1] \in 0..MaxReqs
        BY <2>0, Zenon DEF SweepBlob, Fit, VInv, Fits
      <3>2. (CHOOSE v \in proc[p].todo : \A u \in proc[p].todo : u[1] <= v[1]) \in proc[p].todo
        BY <3>1, <1>NewestIn, Zenon
      <3> QED BY <3>2, Zenon DEF NextVersion
    <2>2. PICK k : k = w[2]
      BY Zenon
    <2>3. PICK r : r = [proc[p] EXCEPT !.pc = "recheck", !.todo = @ \ {w},
                                       !.gone = @ \cup ({k} \ {NoKey})]
      BY Zenon
    <2>4. /\ proc[p].pc = "blobs" /\ blob' = StoreDelete(k)
          /\ proc' = [proc EXCEPT ![p] = r] /\ reqs' = reqs /\ stray' = stray
          /\ UNCHANGED <<versioned, rows, lastId, old>>
      BY <2>1, <2>2, <2>3, Zenon DEF SweepBlob, Goto
    <2>5. /\ r.pc = "recheck" /\ r.op = proc[p].op /\ r.up = proc[p].up /\ r.id = proc[p].id
          /\ r.todo = proc[p].todo \ {w} /\ r.gone = proc[p].gone \cup ({k} \ {NoKey})
      BY <2>3, <1>FitOf, Zenon DEF Fields
    <2>7. Fit(r, rows, reqs, lastId, old)
      <3>1. \A v \in r.todo : v[1] \in 0..MaxReqs /\ v[2] \in Int /\ v[2] <= reqs
        BY <2>0, <2>5, Zenon DEF Fit
      <3>2. r.op = "version" => r.gone \subseteq {r.up} /\ \A v \in r.todo : v[2] \in {NoKey, r.up}
        BY <2>0, <2>1, <2>2, <2>5, Zenon DEF Fit
      <3>3. r.op = "expire" =>
              /\ r.id \in Ids /\ r.id <= lastId
              /\ r.id \in Present(rows) =>
                    /\ r.gone \subseteq {rows[r.id].key} \ {NoKey}
                    /\ \A v \in r.todo : v[2] = rows[r.id].key
        BY <2>0, <2>1, <2>2, <2>4, <2>5, ZenonT(40) DEF Fit
      <3> QED BY <2>5, <3>1, <3>2, <3>3, Zenon DEF Fit
    <2>8. ASSUME NEW j \in Keys, blob'[j] # blob[j]
          PROVE  blob'[j] = 0 /\ (\E v \in proc[p].todo : v[2] = j) /\ j \in r.gone
      <3>1. j = k /\ blob'[j] = 0
        BY <2>4, <2>8, Zenon DEF StoreDelete
      <3>2. k # NoKey
        BY <3>1 DEF Keys, NoKey, SharedKey
      <3> QED BY <2>2, <2>5, <3>1, <3>2, Zenon
    <2>9. /\ Shrinks(rows, rows') /\ reqs' \in reqs..MaxReqs
          /\ old' \subseteq old /\ stray \subseteq stray' /\ versioned' = versioned
          /\ lastId' = lastId /\ proc' = [proc EXCEPT ![p] = r]
      BY <2>4, <1>FitOf, Zenon
    <2>10. Fit(r, rows', reqs', lastId, old')
      BY <2>4, <2>7, Zenon
    <2>11. /\ \A v \in r.todo : \E u \in proc[p].todo : v[2] = u[2]
           /\ \A j \in proc[p].gone : j \in r.gone
           /\ r.pc = "recheck"
      BY <2>5, Zenon
    <2> QED BY <2>8, <2>9, <2>10, <2>11, <1>GoesOn, Zenon
  <1>ListBlobsKeeps.
    ASSUME Shape, VInv, versioned, NEW p \in Procs, ListBlobs(p)
    PROVE  VInv'
    <2> USE <1>ListBlobsKeeps
    <2>0. Fit(proc[p], rows, reqs, lastId, old) /\ reqs \in Int
      BY <1>FitOf, Zenon
    <2>1. PICK T : T = {v \in ({0} \X Keys) \ proc[p].todo : Stale(v[2])}
      BY Zenon
    <2>2. PICK r : r = [proc[p] EXCEPT !.pc = "delete", !.todo = T]
      BY Zenon
    <2>3. /\ proc[p].pc = "list" /\ proc[p].op = "scan"
          /\ proc' = [proc EXCEPT ![p] = r] /\ reqs' = reqs /\ stray' = stray
          /\ UNCHANGED <<versioned, rows, lastId, blob, old>>
      BY <2>1, <2>2, Zenon DEF ListBlobs, Goto, state
    <2>4. r.pc = "delete" /\ r.op = "scan" /\ r.todo = T /\ r.gone = {} /\ proc[p].gone = {}
      BY <2>0, <2>2, <2>3, <1>FitOf, Zenon DEF Fields, Fit
    <2>5. ASSUME NEW v \in T
          PROVE  /\ v[1] \in 0..MaxReqs /\ v[2] \in Int /\ v[2] <= reqs
                 /\ v = <<0, v[2]>> /\ v \notin proc[p].todo
                 /\ blob[v[2]] # 0 /\ v[2] \in old
      <3>1. v \in {0} \X Keys /\ v \notin proc[p].todo /\ blob[v[2]] # 0 /\ v[2] \in old
        BY <2>1, Zenon DEF Stale
      <3>2. v[1] = 0 /\ v[2] \in Keys /\ v = <<0, v[2]>>
        BY <3>1
      <3>3. v[2] \in Int
        BY <3>2, MaxReqsAssumption DEF Keys, SharedKey
      <3>4. ~(v[2] > reqs)
        BY <3>1, <3>2, Zenon DEF VInv, Numbered
      <3> QED BY <2>0, <3>1, <3>2, <3>3, <3>4, MaxReqsAssumption
    <2>6. ASSUME NEW i \in Present(rows), NEW v \in T, rows[i].key # NoKey
          PROVE  v[2] # rows[i].key
      <3>1. <<0, rows[i].key>> \in proc[p].todo \/ rows[i].key \notin old
        BY <2>0, <2>3, <2>6, Zenon DEF Fit
      <3> QED BY <2>5, <3>1, Zenon
    <2>7. ASSUME NEW v \in T, NEW q \in Procs, Pending(q) PROVE v[2] # proc[q].up
      BY <2>5, <2>7, Zenon DEF VInv, Uploading
    <2>8. Fit(r, rows, reqs, lastId, old)
      <3>1. \A v \in r.todo : v[1] \in 0..MaxReqs /\ v[2] \in Int /\ v[2] <= reqs
        BY <2>4, <2>5, Zenon
      <3>2. \A i \in Present(rows) : rows[i].key = NoKey \/ \A v \in r.todo : v[2] # rows[i].key
        BY <2>4, <2>6, Zenon
      <3> QED BY <2>4, <3>1, <3>2, Zenon DEF Fit
    <2>9. /\ Shrinks(rows, rows') /\ reqs' \in reqs..MaxReqs
          /\ old' \subseteq old /\ stray \subseteq stray' /\ versioned' = versioned
          /\ lastId' = lastId /\ proc' = [proc EXCEPT ![p] = r]
      BY <2>3, <1>FitOf, Zenon
    <2>10. Fit(r, rows', reqs', lastId, old')
      BY <2>3, <2>8, Zenon
    <2>11. /\ \A v \in r.todo : (\E w \in proc[p].todo : v[2] = w[2])
                                   \/ (\E i \in Present(rows) : v[2] = rows[i].key)
                                   \/ (\A q \in Procs : Pending(q) => v[2] # proc[q].up)
           /\ p \in Sweepers /\ r.pc = "blobs" => r.todo # {}
           /\ \A k \in proc[p].gone : k \in r.gone
           /\ r.pc = "delete"
      BY <2>4, <2>7, Zenon
    <2>12. \A k \in Keys : blob'[k] = blob[k]
      BY <2>3, Zenon
    <2> QED BY <2>9, <2>10, <2>11, <2>12, <1>GoesOn, Zenon
  <1>DeleteOrphanKeeps.
    ASSUME Shape, VInv, versioned, NEW p \in Procs, DeleteOrphan(p)
    PROVE  VInv'
    <2> USE <1>DeleteOrphanKeeps
    <2>0. Fit(proc[p], rows, reqs, lastId, old) /\ reqs \in Int
      BY <1>FitOf, Zenon
    <2>1. UNCHANGED <<versioned, rows, lastId, old>> /\ proc[p].pc = "delete"
      BY Zenon DEF DeleteOrphan
    <2>2. proc[p].gone = {}
      BY <2>0, <2>1, Zenon DEF Fit
    <2>3. CASE Goto(p, Idle) /\ blob' = blob
      <3>1. proc' = [proc EXCEPT ![p] = Idle] /\ stray' = stray /\ reqs' = reqs
        BY <2>3, Zenon DEF Goto
      <3>2. /\ rows' = rows /\ lastId' = lastId /\ blob' = blob /\ old' \subseteq old
            /\ stray \cup proc[p].gone \subseteq stray' /\ versioned' = versioned
        BY <2>1, <2>2, <2>3, <3>1, Zenon
      <3> QED BY <3>1, <3>2, <1>EndKeeps, Zenon
    <2>4. ASSUME NEW w \in proc[p].todo, blob' = StoreDelete(w[2]),
                 Goto(p, [proc[p] EXCEPT !.todo = @ \ {w}])
          PROVE  VInv'
      <3>1. PICK r : r = [proc[p] EXCEPT !.todo = @ \ {w}]
        BY Zenon
      <3>2. /\ proc' = [proc EXCEPT ![p] = r] /\ reqs' = reqs /\ stray' = stray
        BY <2>4, <3>1, Zenon DEF Goto
      <3>3. /\ r.pc = "delete" /\ r.op = proc[p].op /\ r.todo = proc[p].todo \ {w} /\ r.gone = {}
        BY <2>1, <2>2, <3>1, <1>FitOf, Zenon DEF Fields
      <3>4. Fit(r, rows, reqs, lastId, old)
        BY <2>0, <2>1, <3>3, Zenon DEF Fit
      <3>5. ASSUME NEW j \in Keys, blob'[j] # blob[j]
            PROVE  /\ blob'[j] = 0 /\ \E v \in proc[p].todo : v[2] = j
                   /\ \A i \in Present(rows) : rows[i].key # j
        <4>1. j = w[2] /\ blob'[j] = 0
          BY <2>4, <3>5, Zenon DEF StoreDelete
        <4>2. j # NoKey
          BY DEF Keys, NoKey, SharedKey
        <4> QED BY <2>0, <2>1, <4>1, <4>2, Zenon DEF Fit
      <3>6. /\ Shrinks(rows, rows') /\ reqs' \in reqs..MaxReqs
            /\ old' \subseteq old /\ stray \subseteq stray' /\ versioned' = versioned
            /\ lastId' = lastId /\ proc' = [proc EXCEPT ![p] = r]
        BY <2>1, <3>2, <1>FitOf, Zenon
      <3>7. Fit(r, rows', reqs', lastId, old')
        BY <2>1, <3>2, <3>4, Zenon
      <3>8. /\ \A v \in r.todo : \E u \in proc[p].todo : v[2] = u[2]
            /\ \A k \in proc[p].gone : k \in r.gone
            /\ r.pc = "delete"
        BY <2>2, <3>3, Zenon
      <3> QED BY <3>5, <3>6, <3>7, <3>8, <1>GoesOn, Zenon
    <2> QED BY <2>3, <2>4, Zenon DEF DeleteOrphan
  \* An operation other than an upload starts; what it is to remove are versions
  \* of rows.
  <1>StartKeeps.
    ASSUME Shape, VInv, versioned, NEW p \in Procs, proc[p].pc = "idle", NEW r,
           Start(p, r), UNCHANGED state, reqs' = reqs \/ NewRequest,
           r.pc \notin {"usage", "blob", "row"}, p \in Sweepers => r.pc # "blobs",
           Fit(r, rows, reqs, lastId, old),
           \A v \in r.todo : \E i \in Present(rows) : v[2] = rows[i].key
    PROVE  VInv'
    <2> USE <1>StartKeeps
    <2>1. /\ proc' = [proc EXCEPT ![p] = r] /\ stray' = stray
          /\ UNCHANGED <<versioned, rows, lastId, blob, old>>
      BY Zenon DEF Start, state
    <2>2. reqs \in Int /\ reqs' \in reqs..MaxReqs /\ reqs' \in Int /\ reqs <= reqs'
      BY MaxReqsAssumption DEF Shape, NewRequest
    <2>3. Fit(r, rows, reqs', lastId, old)
      BY <2>2, <1>FitKept, <1>FitOf, Zenon
    <2>4. Fit(r, rows', reqs', lastId, old')
      BY <2>1, <2>3, Zenon
    <2>5. proc[p].gone = {}
      BY <1>FitOf, Zenon DEF Fit
    <2>6. /\ \A v \in r.todo : (\E w \in proc[p].todo : v[2] = w[2])
                                   \/ (\E i \in Present(rows) : v[2] = rows[i].key)
                                   \/ (\A q \in Procs : Pending(q) => v[2] # proc[q].up)
          /\ p \in Sweepers /\ r.pc = "blobs" => r.todo # {}
          /\ \A k \in proc[p].gone : k \in r.gone
      BY <2>5, Zenon
    <2>7. /\ Shrinks(rows, rows') /\ old' \subseteq old /\ stray \subseteq stray'
          /\ versioned' = versioned /\ lastId' = lastId /\ proc' = [proc EXCEPT ![p] = r]
          /\ reqs' \in reqs..MaxReqs
      BY <2>1, <2>2, <1>FitOf, Zenon
    <2>8. \A k \in Keys : blob'[k] = blob[k]
      BY <2>1, Zenon
    <2> QED BY <2>4, <2>6, <2>7, <2>8, <1>GoesOn, ZenonT(40)
  \* The fields of a new operation that say what it removes.
  <1>OneVersion.
    ASSUME Shape, VInv, NEW i \in Present(rows)
    PROVE  /\ \A v \in {<<i, rows[i].key>>} :
                 v[1] \in 0..MaxReqs /\ v[2] \in Int /\ v[2] <= reqs /\ v[2] = rows[i].key
           /\ i \in Ids /\ i <= lastId /\ rows[i].key \in {NoKey, rows[i].up}
    <2> USE <1>OneVersion
    <2>1. rows[i].key \in Int /\ rows[i].key <= reqs /\ i \in Ids
      BY <1>RowKeys, Zenon DEF VInv
    <2> QED BY <2>1, MaxReqsAssumption DEF Ids, VInv, Numbered
  <1>RequestsStart.
    ASSUME Shape, VInv, versioned, NEW p \in Procs, p \notin Sweepers,
           \/ SoftDeleteStart(p) \/ HardDeleteStart(p)
           \/ \E i \in Ids : DeleteVersionStart(p, i)
           \/ RestoreStart(p)
    PROVE  VInv'
    <2> USE <1>RequestsStart
    <2>1. ASSUME NEW r, r.todo = {}, r.gone = {}, r.op \in {"soft", "restore"},
                 r.pc \in {"soft", "restore"}, proc[p].pc = "idle",
                 Start(p, r), UNCHANGED state, NewRequest
          PROVE  VInv'
      <3>1. Fit(r, rows, reqs, lastId, old)
        BY <2>1, Zenon DEF Fit
      <3> QED BY <2>1, <3>1, <1>StartKeeps, Zenon
    <2>2. CASE SoftDeleteStart(p)
      <3>1. PICK r : r = [Idle EXCEPT !.op = "soft", !.pc = "soft",
                                      !.owed = -Usage(rows, Live(rows))]
        BY Zenon
      <3>2. r.todo = {} /\ r.gone = {} /\ r.op = "soft" /\ r.pc = "soft"
        BY <3>1, Zenon DEF Idle
      <3>3. proc[p].pc = "idle" /\ Start(p, r) /\ UNCHANGED state /\ NewRequest
        BY <2>2, <3>1, Zenon DEF SoftDeleteStart
      <3> QED BY <2>1, <3>2, <3>3, Zenon
    <2>3. CASE RestoreStart(p)
      <3>1. PICK r : r = [Idle EXCEPT !.op = "restore", !.pc = "restore",
                                      !.owed = rows[Max(InState(rows, "deleted"))].up]
        BY Zenon
      <3>2. r.todo = {} /\ r.gone = {} /\ r.op = "restore" /\ r.pc = "restore"
        BY <3>1, Zenon DEF Idle
      <3>3. proc[p].pc = "idle" /\ Start(p, r) /\ UNCHANGED state /\ NewRequest
        BY <2>3, <3>1, Zenon DEF RestoreStart
      <3> QED BY <2>1, <3>2, <3>3, Zenon
    <2>4. CASE HardDeleteStart(p)
      <3>1. PICK r : r = [Idle EXCEPT
                      !.op = "hard", !.pc = "list",
                      !.todo = {<<i, rows[i].key>> : i \in Live(rows)},
                      !.owed = -Usage(rows, Live(rows))]
        BY Zenon
      <3>2. r.todo = {<<i, rows[i].key>> : i \in Live(rows)} /\ r.gone = {} /\ r.op = "hard"
            /\ r.pc = "list"
        BY <3>1, Zenon DEF Idle
      <3>3. proc[p].pc = "idle" /\ Start(p, r) /\ UNCHANGED state /\ NewRequest
        BY <2>4, <3>1, Zenon DEF HardDeleteStart
      <3>4. r.todo \subseteq Versions
        BY <3>2, Zenon DEF Versions, Live, InState, Present
      <3>5. \A v \in r.todo : /\ v[1] \in 0..MaxReqs /\ v[2] \in Int /\ v[2] <= reqs
                              /\ \E i \in Present(rows) : v[2] = rows[i].key
        BY <3>4, <1>VersionsFit, Zenon
      <3>6. Fit(r, rows, reqs, lastId, old)
        BY <3>2, <3>5, Zenon DEF Fit
      <3> QED BY <3>2, <3>3, <3>5, <3>6, <1>StartKeeps, Zenon
    <2>5. ASSUME NEW i \in Ids, DeleteVersionStart(p, i) PROVE VInv'
      <3>1. PICK r : r = [Idle EXCEPT !.op = "version", !.pc = "blobs",
                               !.up = rows[i].up,
                               !.todo = {<<i, rows[i].key>>},
                               !.owed = -Usage(rows, {i})]
        BY Zenon
      <3>2. r.todo = {<<i, rows[i].key>>} /\ r.gone = {} /\ r.op = "version"
            /\ r.pc = "blobs" /\ r.up = rows[i].up
        BY <3>1, Zenon DEF Idle
      <3>3. /\ proc[p].pc = "idle" /\ Start(p, r) /\ UNCHANGED state /\ NewRequest
            /\ i \in Present(rows)
        BY <2>5, <3>1, Zenon DEF DeleteVersionStart
      <3>4. \A v \in r.todo : /\ v[1] \in 0..MaxReqs /\ v[2] \in Int /\ v[2] <= reqs
                              /\ v[2] = rows[i].key
        BY <3>2, <3>3, <1>OneVersion, Zenon
      <3>5. Fit(r, rows, reqs, lastId, old)
        BY <3>2, <3>3, <3>4, <1>OneVersion, Zenon DEF Fit
      <3>6. \A v \in r.todo : \E j \in Present(rows) : v[2] = rows[j].key
        BY <3>3, <3>4, Zenon
      <3>7. r.pc = "blobs"
        BY <3>2, Zenon
      <3> QED BY <3>3, <3>5, <3>6, <3>7, <1>StartKeeps, Zenon
    <2> QED BY <2>2, <2>3, <2>4, <2>5, Zenon
  <1>SweepsKeep.
    ASSUME Shape, VInv, versioned, NEW p \in Procs, Sweep(p)
    PROVE  VInv'
    <2> USE <1>SweepsKeep
    <2>0. ASSUME NEW r, Take(p, r), r.pc \in {"recheck", "soft", "list"},
                 Fit(r, rows, reqs, lastId, old),
                 \A v \in r.todo : \E i \in Present(rows) : v[2] = rows[i].key
          PROVE  VInv'
      <3>1. proc[p].pc = "idle" /\ Start(p, r) /\ UNCHANGED state /\ reqs' = reqs
        BY <2>0, Zenon DEF Take
      <3>2. r.pc \notin {"usage", "blob", "row"} /\ r.pc # "blobs"
        BY <2>0, Zenon
      <3> QED BY <2>0, <3>1, <3>2, <1>StartKeeps, Zenon
    <2>1. CASE Purge(p)
      <3>1. PICK r : r = [Idle EXCEPT !.op = "purge", !.pc = "recheck",
                              !.todo = Versions,
                              !.owed = -Usage(rows, Present(rows))]
        BY Zenon
      <3>2. r.todo = Versions /\ r.op = "purge" /\ r.pc = "recheck"
        BY <3>1, Zenon DEF Idle
      <3>3. Take(p, r)
        BY <2>1, <3>1, Zenon DEF Purge
      <3>4. \A v \in r.todo : /\ v[1] \in 0..MaxReqs /\ v[2] \in Int /\ v[2] <= reqs
                              /\ \E i \in Present(rows) : v[2] = rows[i].key
        BY <3>2, <1>VersionsFit, Zenon
      <3>5. Fit(r, rows, reqs, lastId, old)
        BY <3>2, <3>4, Zenon DEF Fit
      <3> QED BY <2>0, <3>2, <3>3, <3>4, <3>5, Zenon
    <2>2. ASSUME NEW i \in Present(rows), TakeVersion(p, i) PROVE VInv'
      <3>1. PICK r : r = [Idle EXCEPT !.op = "expire", !.pc = "recheck", !.id = i,
                              !.todo = {<<i, rows[i].key>>},
                              !.owed = -Usage(rows, {i})]
        BY Zenon
      <3>2. /\ r.todo = {<<i, rows[i].key>>} /\ r.op = "expire" /\ r.pc = "recheck" /\ r.id = i
            /\ r.gone = {}
        BY <3>1, Zenon DEF Idle
      <3>3. Take(p, r)
        BY <2>2, <3>1, Zenon DEF TakeVersion
      <3>4. \A v \in r.todo : /\ v[1] \in 0..MaxReqs /\ v[2] \in Int /\ v[2] <= reqs
                              /\ v[2] = rows[i].key
        BY <3>2, <1>OneVersion, Zenon
      <3>5. Fit(r, rows, reqs, lastId, old)
        BY <3>2, <3>4, <1>OneVersion, Zenon DEF Fit
      <3> QED BY <2>0, <3>2, <3>3, <3>4, <3>5, Zenon
    <2>3. CASE ExpireHard(p) \/ PurgeNonCurrent(p)
      <3>1. PICK i \in Live(rows) \cup InState(rows, "tombstone") : TakeVersion(p, i)
        BY <2>3, Zenon DEF ExpireHard, PurgeNonCurrent
      <3>2. i \in Present(rows)
        BY Zenon DEF Live, InState, Present
      <3> QED BY <2>2, <3>1, <3>2, Zenon
    <2>4. ASSUME NEW r, Take(p, r), r.pc = "soft", r.todo = {}, r.gone = {},
                 r.op \in {"expireSoft", "orphanRow"}
          PROVE  VInv'
      <3>1. Fit(r, rows, reqs, lastId, old)
        BY <2>4, Zenon DEF Fit
      <3> QED BY <2>0, <2>4, <3>1, Zenon
    <2>5. CASE ExpireSoft(p)
      <3>1. PICK r : r = [Idle EXCEPT !.op = "expireSoft", !.pc = "soft",
                                      !.owed = -Usage(rows, Live(rows))]
        BY Zenon
      <3>2. r.pc = "soft" /\ r.todo = {} /\ r.gone = {} /\ r.op = "expireSoft"
        BY <3>1, Zenon DEF Idle
      <3>3. Take(p, r)
        BY <2>5, <3>1, Zenon DEF ExpireSoft
      <3> QED BY <2>4, <3>2, <3>3, Zenon
    <2>6. CASE OrphanRow(p)
      <3>1. PICK r : r = [Idle EXCEPT !.op = "orphanRow", !.pc = "soft",
                                      !.owed = -Usage(rows, Live(rows))]
        BY Zenon
      <3>2. r.pc = "soft" /\ r.todo = {} /\ r.gone = {} /\ r.op = "orphanRow"
        BY <3>1, Zenon DEF Idle
      <3>3. Take(p, r)
        BY <2>6, <3>1, Zenon DEF OrphanRow
      <3> QED BY <2>4, <3>2, <3>3, Zenon
    <2>7. CASE CollectReferenced(p)
      <3>1. PICK r : r = [Idle EXCEPT !.op = "scan", !.pc = "list", !.todo = {0} \X ReferencedKeys]
        BY Zenon
      <3>2. r.pc = "list" /\ r.todo = {0} \X ReferencedKeys /\ r.gone = {} /\ r.op = "scan"
        BY <3>1, Zenon DEF Idle
      <3>3. Take(p, r)
        BY <2>7, <3>1, Zenon DEF CollectReferenced
      <3>4. ASSUME NEW v \in r.todo
            PROVE  /\ v[1] \in 0..MaxReqs /\ v[2] \in Int /\ v[2] <= reqs
                   /\ \E i \in Present(rows) : v[2] = rows[i].key
        <4>1. v[1] = 0 /\ v[2] \in ReferencedKeys
          BY <3>2
        <4>2. PICK i \in Present(rows) : v[2] = rows[i].key
          BY <4>1, Zenon DEF ReferencedKeys
        <4>3. rows[i].key \in Int /\ rows[i].key <= reqs
          BY <1>RowKeys, Zenon DEF VInv
        <4> QED BY <4>1, <4>2, <4>3, MaxReqsAssumption
      <3>5. ASSUME NEW i \in Present(rows), rows[i].key # NoKey
            PROVE  <<0, rows[i].key>> \in r.todo
        <4>1. rows[i].key \in ReferencedKeys
          BY <3>5, Zenon DEF ReferencedKeys
        <4> QED BY <3>2, <4>1, Zenon
      <3>6. Fit(r, rows, reqs, lastId, old)
        <4>1. \A v \in r.todo : v[1] \in 0..MaxReqs /\ v[2] \in Int /\ v[2] <= reqs
          BY <3>4, Zenon
        <4>2. \A i \in Present(rows) : rows[i].key = NoKey \/ <<0, rows[i].key>> \in r.todo
          BY <3>5, Zenon
        <4>3. r.pc = "list" /\ r.gone = {} /\ r.op = "scan"
          BY <3>2, Zenon
        <4> QED BY <4>1, <4>2, <4>3, Zenon DEF Fit
      <3>7. r.pc = "list" /\ \A v \in r.todo : \E i \in Present(rows) : v[2] = rows[i].key
        BY <3>2, <3>4, Zenon
      <3> QED BY <2>0, <3>3, <3>6, <3>7, Zenon
    <2> QED BY <2>1, <2>3, <2>5, <2>6, <2>7, Zenon DEF Sweep
  <1>HoldsKeep.
    ASSUME Shape, VInv, versioned, IsTable(rows), NEW i \in Ids,
           PutLegalHold(i) \/ RemoveLegalHold(i)
    PROVE  VInv'
    <2> USE <1>HoldsKeep
    <2>1. PICK H : rows' = [rows EXCEPT ![i] = WithHolds(rows[i], H)]
      BY Zenon DEF PutLegalHold, RemoveLegalHold
    <2>2. UNCHANGED <<versioned, lastId, blob, old, reqs, proc, stray>>
      BY Zenon DEF PutLegalHold, RemoveLegalHold
    <2>3. Shrinks(rows, rows')
      BY <2>1, <1>ShrinksHolds, Zenon
    <2>4. /\ versioned' = versioned /\ lastId' = lastId /\ reqs' \in reqs..MaxReqs
          /\ old' \subseteq old /\ stray \subseteq stray'
          /\ \A q \in Procs : proc'[q] = proc[q]
      BY <2>2 DEF Shape
    <2>5. \A k \in Keys : blob'[k] = blob[k]
      BY <2>2, Zenon
    <2> QED BY <2>3, <2>4, <2>5, <1>Calm, Zenon
  <1>StutterKeeps.
    ASSUME Shape, VInv, versioned, UNCHANGED vars
    PROVE  VInv'
    BY <1>StutterKeeps, ZenonT(40) DEF vars, state, VInv, Numbered, Uploading, Fits, RowsBacked, Pending
  \* A blob gets old: not one of an upload, and no scan is under way.
  <1>GraceKeeps.
    ASSUME Shape, VInv, versioned, NEW k \in Keys, GracePasses(k)
    PROVE  VInv'
    <2> USE <1>GraceKeeps
    <2>1. /\ UNCHANGED <<versioned, rows, lastId, blob, reqs, proc, stray>>
          /\ old' = old \cup {k}
      BY Zenon DEF GracePasses
    <2>2. \A q \in Procs : proc[q].op # "scan" /\ (proc[q].pc = "row" => proc[q].up # k)
      BY Zenon DEF GracePasses, StorageKey
    <2>3. Numbered' /\ RowsBacked'
      BY <2>1, Zenon DEF VInv, Numbered, RowsBacked
    <2>4. Uploading'
      BY <2>1, <2>2, ZenonT(40) DEF VInv, Uploading, Pending
    <2>5. Fits'
      <3>1. ASSUME NEW q \in Procs PROVE Fit(proc[q], rows, reqs, lastId, old')
        <4>1. Fit(proc[q], rows, reqs, lastId, old)
          BY <1>FitOf, Zenon
        <4> QED BY <2>2, <4>1, Zenon DEF Fit
      <3> QED BY <2>1, <3>1, Zenon DEF VInv, Fits
    <2> QED BY <2>3, <2>4, <2>5, Zenon DEF VInv
  \* A new upload has a version nobody else has.
  <1>PutStartKeeps.
    ASSUME Shape, VInv, versioned, NEW p \in Procs, PutStart(p)
    PROVE  VInv'
    <2> USE <1>PutStartKeeps
    <2>1. PICK r : r = [Idle EXCEPT !.op = "put", !.pc = "usage", !.up = reqs + 1]
      BY Zenon
    <2>2. /\ r.op = "put" /\ r.pc = "usage" /\ r.up = reqs + 1 /\ r.todo = {} /\ r.gone = {}
      BY <2>1, Zenon DEF Idle
    <2>3. /\ proc' = [proc EXCEPT ![p] = r] /\ stray' = stray /\ reqs < MaxReqs /\ reqs' = reqs + 1
          /\ UNCHANGED <<versioned, rows, lastId, blob, old>> /\ proc[p].pc = "idle"
      BY <2>1, Zenon DEF PutStart, Start, state, NewRequest
    <2>4. /\ proc'[p] = r /\ \A q \in Procs : q # p => proc'[q] = proc[q]
          /\ reqs \in Nat /\ MaxReqs \in Nat
      BY <2>3, MaxReqsAssumption DEF Shape
    <2>5. Numbered'
      BY <2>3, <2>4 DEF VInv, Numbered, Keys, SharedKey
    <2>6. Fits'
      <3>1. ASSUME NEW q \in Procs PROVE Fit(proc'[q], rows, reqs', lastId, old)
        <4>1. CASE q = p
          BY <2>2, <2>4, <4>1, Zenon DEF Fit
        <4>2. CASE q # p
          <5>1. Fit(proc[q], rows, reqs, lastId, old) /\ Shrinks(rows, rows) /\ reqs \in Int
                /\ reqs' \in Int /\ reqs <= reqs'
            BY <2>3, <2>4, <1>FitOf
          <5> QED BY <2>4, <4>2, <5>1, <1>FitKept, Zenon
        <4> QED BY <4>1, <4>2, Zenon
      <3>2. \A s \in Sweepers : proc'[s].pc = "blobs" => proc'[s].todo # {}
        BY <2>2, <2>4, Zenon DEF VInv, Fits, Procs
      <3> QED BY <2>3, <3>1, <3>2, Zenon DEF Fits
    <2>7. RowsBacked'
      <3> SUFFICES ASSUME NEW i \in Present(rows)
                   PROVE  \/ IsDeleteMarker(rows[i]) \/ blob[rows[i].key] = rows[i].up
                          \/ rows[i].key \in stray
                          \/ \E q \in Procs : rows[i].key \in proc'[q].gone
        BY <2>3, Zenon DEF RowsBacked
      <3>1. proc[p].gone = {}
        BY <2>3, <1>FitOf, Zenon DEF Fit
      <3> QED BY <2>4, <3>1, Zenon DEF VInv, RowsBacked
    <2>8. Uploading'
      <3> SUFFICES ASSUME NEW q \in Procs, Pending(q)'
                   PROVE  /\ proc'[q].up \in 1..reqs'
                          /\ \A i \in Present(rows) : rows[i].up # proc'[q].up
                          /\ \A u \in Procs : Pending(u)' /\ proc'[u].up = proc'[q].up => u = q
                          /\ \A u \in Procs : \A v \in proc'[u].todo : v[2] # proc'[q].up
                          /\ proc'[q].pc = "row" => /\ blob[proc'[q].up] = proc'[q].up
                                                    /\ proc'[q].up \notin old
                          /\ proc'[q].pc # "row" => blob[proc'[q].up] = 0
        BY <2>3, Zenon DEF Uploading
      <3>1. ASSUME NEW u \in Procs, u # p, Pending(u)'
            PROVE  /\ proc'[u] = proc[u] /\ Pending(u) /\ proc[u].up \in 1..reqs
                   /\ proc[u].up # reqs + 1
        BY <2>4, <3>1 DEF Pending, VInv, Uploading
      <3>2. CASE q = p
        <4>1. \A i \in Present(rows) : rows[i].up # reqs + 1
          BY <2>4 DEF VInv, Numbered
        <4>2. ASSUME NEW u \in Procs, NEW v \in proc'[u].todo PROVE v[2] # reqs + 1
          <5>1. CASE u = p
            BY <2>2, <2>4, <5>1, Zenon
          <5>2. CASE u # p
            <6>1. v[2] \in Int /\ v[2] <= reqs
              BY <2>4, <5>2, <1>FitOf, Zenon DEF Fit
            <6> QED BY <2>4, <6>1
          <5> QED BY <5>1, <5>2, Zenon
        <4>3. blob[reqs + 1] = 0
          <5>1. reqs + 1 \in Keys /\ reqs + 1 > reqs
            BY <2>3, <2>4 DEF Keys, SharedKey
          <5> QED BY <5>1, Zenon DEF VInv, Numbered
        <4> QED BY <2>2, <2>3, <2>4, <3>1, <3>2, <4>1, <4>2, <4>3
      <3>3. CASE q # p
        <4>1. proc'[q] = proc[q] /\ Pending(q) /\ proc[q].up \in 1..reqs
          BY <3>1, <3>3, Zenon
        <4>2. \A u \in Procs : Pending(u)' /\ proc'[u].up = proc'[q].up => u = q
          BY <2>2, <2>4, <3>1, <4>1 DEF VInv, Uploading
        <4>3. \A u \in Procs : \A v \in proc'[u].todo : v[2] # proc[q].up
          BY <2>2, <2>4, <4>1 DEF VInv, Uploading
        <4> QED BY <2>3, <2>4, <4>1, <4>2, <4>3 DEF VInv, Uploading
      <3> QED BY <3>2, <3>3, Zenon
    <2> QED BY <2>5, <2>6, <2>7, <2>8, Zenon DEF VInv
  \* An upload writes its blob, or takes it back.
  <1>PutBlobKeeps.
    ASSUME Shape, VInv, versioned, NEW p \in Procs, PutBlob(p)
    PROVE  VInv'
    <2> USE <1>PutBlobKeeps
    <2> DEFINE k == proc[p].up
    <2>1. /\ UNCHANGED <<versioned, rows, lastId>> /\ old' = old \ {k} /\ proc[p].pc = "blob"
          /\ \/ blob' = StorePut(k, k) /\ Goto(p, [proc[p] EXCEPT !.pc = "row"])
             \/ blob' = StoreDelete(k) /\ Stop(p)
      BY Zenon DEF PutBlob, StorageKey
    <2>2. Pending(p)
      BY <2>1, Zenon DEF Pending
    <2>3. CASE blob' = StoreDelete(k) /\ Stop(p)
      <3>1. proc' = [proc EXCEPT ![p] = Idle] /\ stray' = stray \cup proc[p].gone /\ reqs' = reqs
        BY <2>3, Zenon DEF Stop
      <3>2. /\ rows' = rows /\ lastId' = lastId /\ old' \subseteq old
            /\ stray \cup proc[p].gone \subseteq stray' /\ versioned' = versioned
        BY <2>1, <3>1, Zenon
      <3> QED BY <2>2, <2>3, <3>1, <3>2, <1>EndKeeps, Zenon
    <2>4. CASE blob' = StorePut(k, k) /\ Goto(p, [proc[p] EXCEPT !.pc = "row"])
      <3>1. PICK r : r = [proc[p] EXCEPT !.pc = "row"]
        BY Zenon
      <3>2. /\ r.pc = "row" /\ r.up = k /\ r.todo = proc[p].todo /\ r.gone = proc[p].gone
            /\ r.op = proc[p].op
        BY <3>1, <1>FitOf, Zenon DEF Fields
      <3>3. proc' = [proc EXCEPT ![p] = r] /\ reqs' = reqs /\ stray' = stray
        BY <2>4, <3>1, Zenon DEF Goto
      <3>4. /\ proc'[p] = r /\ \A q \in Procs : q # p => proc'[q] = proc[q]
            /\ reqs \in Nat /\ MaxReqs \in Nat /\ reqs <= MaxReqs /\ DOMAIN blob = Keys
        BY <3>3, MaxReqsAssumption DEF Shape
      <3>5. k \in 1..reqs /\ k \in Keys
        BY <2>2, <3>4 DEF VInv, Uploading, Keys, SharedKey
      <3>6. blob'[k] = k /\ \A j \in Keys : j # k => blob'[j] = blob[j]
        BY <2>4, <3>4, <3>5, Zenon DEF StorePut
      <3>7. \A q \in Procs : /\ Pending(q)' <=> Pending(q)
                             /\ proc'[q].up = proc[q].up /\ proc'[q].todo = proc[q].todo
                             /\ proc'[q].gone = proc[q].gone
        BY <2>1, <3>2, <3>4, Zenon DEF Pending
      <3> HIDE DEF k
      <3>8. Numbered'
        BY <2>1, <3>3, <3>4, <3>5, <3>6 DEF VInv, Numbered, Keys, SharedKey
      <3>9. Fits'
        <4>1. ASSUME NEW q \in Procs PROVE Fit(proc'[q], rows, reqs, lastId, old')
          <5>1. Fit(proc[q], rows, reqs, lastId, old) /\ Shrinks(rows, rows) /\ reqs \in Int
                /\ old' \subseteq old
            BY <2>1, <1>FitOf, Zenon
          <5>2. Fit(proc[q], rows, reqs, lastId, old')
            BY <5>1, <1>FitKept
          <5>3. CASE q # p
            BY <3>4, <5>2, <5>3, Zenon
          <5>4. CASE q = p
            BY <2>1, <3>2, <3>4, <5>2, <5>4, Zenon DEF Fit
          <5> QED BY <5>3, <5>4, Zenon
        <4>2. \A s \in Sweepers : proc'[s].pc = "blobs" => proc'[s].todo # {}
          BY <3>2, <3>4, Zenon DEF VInv, Fits, Procs
        <4> QED BY <2>1, <3>3, <4>1, <4>2, Zenon DEF Fits
      <3>10. RowsBacked'
        <4> SUFFICES ASSUME NEW i \in Present(rows)
                     PROVE  \/ IsDeleteMarker(rows[i]) \/ blob'[rows[i].key] = rows[i].up
                            \/ rows[i].key \in stray
                            \/ \E q \in Procs : rows[i].key \in proc'[q].gone
          BY <2>1, <3>3, Zenon DEF RowsBacked
        <4>1. rows[i].key # k
          BY <2>2, <1>NotPending, Zenon DEF VInv, k
        <4>2. rows[i].key = NoKey \/ rows[i].key \in Keys
          BY <3>4 DEF VInv, Numbered, Keys, SharedKey
        <4> QED BY <3>6, <3>7, <4>1, <4>2, Zenon DEF VInv, RowsBacked, IsDeleteMarker
      <3>11. Uploading'
        <4> SUFFICES ASSUME NEW q \in Procs, Pending(q)
                     PROVE  /\ proc[q].up \in 1..reqs
                            /\ \A i \in Present(rows) : rows[i].up # proc[q].up
                            /\ \A u \in Procs : Pending(u) /\ proc[u].up = proc[q].up => u = q
                            /\ \A u \in Procs : \A v \in proc[u].todo : v[2] # proc[q].up
                            /\ proc'[q].pc = "row" => /\ blob'[proc[q].up] = proc[q].up
                                                      /\ proc[q].up \notin old'
                            /\ proc'[q].pc # "row" => blob'[proc[q].up] = 0
          BY <2>1, <3>3, <3>7 DEF Uploading
        <4>1. CASE q = p
          BY <2>1, <3>2, <3>4, <3>6, <4>1, Zenon DEF VInv, Uploading, k
        <4>2. CASE q # p
          <5>1. proc[q].up # k
            BY <2>2, <4>2, Zenon DEF VInv, Uploading, k
          <5>2. proc[q].up \in Keys
            BY <3>4 DEF VInv, Uploading, Keys, SharedKey
          <5> QED BY <2>1, <3>4, <3>6, <4>2, <5>1, <5>2, ZenonT(40) DEF VInv, Uploading
        <4> QED BY <4>1, <4>2, Zenon
      <3> QED BY <3>8, <3>9, <3>10, <3>11, Zenon DEF VInv
    <2> QED BY <2>1, <2>3, <2>4, Zenon
  \* The rows after a new version is inserted.
  <1>InsertedRows.
    ASSUME NEW t, NEW k, NEW r
    PROVE  \A i \in Present(InsertVersion(t, k, r)) :
               \/ i = k /\ InsertVersion(t, k, r)[i] = r
               \/ /\ i # k /\ i \in Present(t)
                  /\ InsertVersion(t, k, r)[i].up = t[i].up
                  /\ InsertVersion(t, k, r)[i].key = t[i].key
    <2> USE <1>InsertedRows
    <2> DEFINE u == InsertVersion(t, k, r)
    <2> SUFFICES ASSUME NEW i \in Present(u)
                 PROVE  \/ i = k /\ u[i] = r
                        \/ i # k /\ i \in Present(t) /\ u[i].up = t[i].up /\ u[i].key = t[i].key
      BY Zenon
    <2>1. i \in Ids /\ u[i].st # "none"
      BY Zenon DEF Present
    <2>2. u[i] = IF i = k THEN r ELSE SetState(t, Live(t), "tombstone")[i]
      BY <2>1, Zenon DEF InsertVersion, SetState
    <2>3. CASE i = k
      BY <2>2, <2>3, Zenon
    <2>4. CASE i # k
      <3>1. u[i] = IF i \in Live(t) THEN WithState(t[i], "tombstone") ELSE t[i]
        BY <2>1, <2>2, <2>4, Zenon DEF SetState
      <3>2. CASE i \in Live(t)
        BY <2>1, <2>4, <3>1, <3>2 DEF Live, InState, Present, WithState
      <3>3. CASE i \notin Live(t)
        BY <2>1, <2>4, <3>1, <3>3, Zenon DEF Present
      <3> QED BY <3>2, <3>3, Zenon
    <2> QED BY <2>3, <2>4, Zenon
  \* A version is inserted: an upload's, whose blob is there, or a delete marker.
  <1>InsertKeeps.
    ASSUME Shape, VInv, versioned, versioned' = versioned, NEW r,
           rows' = InsertVersion(rows, lastId + 1, r), lastId' = lastId + 1,
           reqs' \in reqs..MaxReqs, r.up \in 1..reqs', r.key \in {NoKey, r.up},
           \A i \in Present(rows) : rows[i].up # r.up,
           \A q \in Procs : Pending(q)' => proc[q].up # r.up,
           \/ r.key = NoKey
           \/ /\ blob[r.key] = r.up /\ r.key \notin old
              /\ \A q \in Procs : \A v \in proc[q].todo : v[2] # r.key,
           blob' = blob, old' = old, stray' = stray,
           \A q \in Procs :
               /\ Pending(q)' => Pending(q) /\ proc'[q] = proc[q]
               /\ proc'[q].todo = proc[q].todo /\ proc'[q].gone = proc[q].gone
               /\ \/ proc'[q] = proc[q]
                  \/ /\ proc[q].pc = "row" /\ proc'[q].op = proc[q].op
                     /\ proc'[q].pc \in {"hold", "account"}
    PROVE  VInv'
    <2> USE <1>InsertKeeps
    <2> DEFINE n == lastId + 1
    <2>0. reqs \in Nat /\ reqs' \in Nat /\ reqs <= reqs' /\ lastId \in Nat /\ MaxReqs \in Nat
          /\ reqs' <= MaxReqs
      BY MaxReqsAssumption DEF Shape
    <2>1. \A i \in Present(rows') :
                 \/ i = n /\ rows'[i] = r
                 \/ /\ i # n /\ i \in Present(rows)
                    /\ rows'[i].up = rows[i].up /\ rows'[i].key = rows[i].key
      BY <1>InsertedRows
    <2>2. \A i \in Present(rows) : i # n
      BY <2>0 DEF VInv, Numbered
    <2>3. Numbered'
      <3>1. \A i \in Present(rows') :
               /\ i <= lastId' /\ rows'[i].up \in 1..reqs'
               /\ rows'[i].key \in {NoKey, rows'[i].up}
        <4> SUFFICES ASSUME NEW i \in Present(rows')
                     PROVE  /\ i <= lastId' /\ rows'[i].up \in 1..reqs'
                            /\ rows'[i].key \in {NoKey, rows'[i].up}
          BY Zenon
        <4>1. CASE i = n /\ rows'[i] = r
          BY <2>0, <4>1
        <4>2. CASE i # n /\ i \in Present(rows) /\ rows'[i].up = rows[i].up /\ rows'[i].key = rows[i].key
          <5>1. i \in Int /\ i <= lastId
            BY <4>2 DEF VInv, Numbered, Present, Ids
          <5> QED BY <2>0, <4>2, <5>1 DEF VInv, Numbered
        <4> QED BY <2>1, <4>1, <4>2, Zenon
      <3>2. \A i, j \in Present(rows') : rows'[i].up = rows'[j].up => i = j
        BY <2>1 DEF VInv, Numbered
      <3>3. \A k \in Keys : k > reqs' => blob'[k] = 0
        BY <2>0 DEF VInv, Numbered, Keys, SharedKey
      <3> QED BY <3>1, <3>2, <3>3, Zenon DEF Numbered
    <2>4. Uploading'
      <3> SUFFICES ASSUME NEW p \in Procs, Pending(p)'
                   PROVE  /\ proc'[p].up \in 1..reqs'
                          /\ \A i \in Present(rows') : rows'[i].up # proc'[p].up
                          /\ \A q \in Procs : Pending(q)' /\ proc'[q].up = proc'[p].up => q = p
                          /\ \A q \in Procs : \A v \in proc'[q].todo : v[2] # proc'[p].up
                          /\ proc'[p].pc = "row" => /\ blob'[proc'[p].up] = proc'[p].up
                                                    /\ proc'[p].up \notin old'
                          /\ proc'[p].pc # "row" => blob'[proc'[p].up] = 0
        BY Zenon DEF Uploading
      <3>1. Pending(p) /\ proc'[p] = proc[p] /\ proc[p].up # r.up
        BY Zenon
      <3>2. \A i \in Present(rows') : rows'[i].up # proc[p].up
        BY <2>1, <3>1 DEF VInv, Uploading
      <3>3. \A q \in Procs : Pending(q)' /\ proc'[q].up = proc'[p].up => q = p
        BY <3>1 DEF VInv, Uploading
      <3>4. \A q \in Procs : \A v \in proc'[q].todo : v[2] # proc[p].up
        BY <3>1 DEF VInv, Uploading
      <3>5. proc[p].up \in 1..reqs'
        BY <2>0, <3>1 DEF VInv, Uploading
      <3> QED BY <3>1, <3>2, <3>3, <3>4, <3>5, ZenonT(40) DEF VInv, Uploading
    <2>5. RowsBacked'
      <3> SUFFICES ASSUME NEW i \in Present(rows')
                   PROVE  \/ IsDeleteMarker(rows'[i]) \/ blob'[rows'[i].key] = rows'[i].up
                          \/ rows'[i].key \in stray'
                          \/ \E q \in Procs : rows'[i].key \in proc'[q].gone
        BY Zenon DEF RowsBacked
      <3>1. CASE rows'[i] = r
        BY <3>1, Zenon DEF IsDeleteMarker
      <3>2. CASE i \in Present(rows) /\ rows'[i].up = rows[i].up /\ rows'[i].key = rows[i].key
        BY <3>2, Zenon DEF VInv, RowsBacked, IsDeleteMarker
      <3> QED BY <2>1, <3>1, <3>2, Zenon
    <2>6. Fits'
      <3>1. ASSUME NEW q \in Procs PROVE Fit(proc'[q], rows', reqs', n, old)
        <4>0. PICK s : s = proc'[q]
          BY Zenon
        <4>1. Fit(proc[q], rows, reqs, lastId, old)
          BY <1>FitOf, Zenon
        <4>2. CASE s = proc[q]
          <5>1. \A v \in s.todo : v[1] \in 0..MaxReqs /\ v[2] \in Int /\ v[2] <= reqs'
            BY <2>0, <4>1, <4>2 DEF Fit
          <5>2. s.op = "expire" =>
                   /\ s.id \in Ids /\ s.id <= n
                   /\ s.pc # "account" /\ s.id \in Present(rows') =>
                         /\ s.gone \subseteq {rows'[s.id].key} \ {NoKey}
                         /\ \A v \in s.todo : v[2] = rows'[s.id].key
            <6> SUFFICES ASSUME s.op = "expire"
                         PROVE  /\ s.id \in Ids /\ s.id <= n
                                /\ s.pc # "account" /\ s.id \in Present(rows') =>
                                      /\ s.gone \subseteq {rows'[s.id].key} \ {NoKey}
                                      /\ \A v \in s.todo : v[2] = rows'[s.id].key
              BY Zenon
            <6>1. s.id \in Ids /\ s.id <= lastId
              BY <4>1, <4>2, Zenon DEF Fit
            <6>2. s.id # n /\ s.id <= n
              BY <2>0, <6>1 DEF Ids
            <6>3. s.id \in Present(rows') => s.id \in Present(rows) /\ rows'[s.id].key = rows[s.id].key
              BY <2>1, <6>2, Zenon
            <6> QED BY <4>1, <4>2, <6>1, <6>2, <6>3, Zenon DEF Fit
          <5>3. s.op = "scan" /\ s.pc = "list" =>
                   \A i \in Present(rows') :
                      rows'[i].key = NoKey \/ <<0, rows'[i].key>> \in s.todo \/ rows'[i].key \notin old
            BY <2>1, <4>1, <4>2, ZenonT(40) DEF Fit
          <5>4. s.pc = "delete" =>
                   \A i \in Present(rows') :
                      rows'[i].key = NoKey \/ \A v \in s.todo : v[2] # rows'[i].key
            BY <2>1, <4>1, <4>2 DEF Fit
          <5>5. Fit(s, rows', reqs', n, old)
            BY <4>1, <4>2, <5>1, <5>2, <5>3, <5>4, Zenon DEF Fit
          <5> QED BY <4>0, <5>5, Zenon
        <4>3. CASE /\ proc[q].pc = "row" /\ s.op = proc[q].op /\ s.pc \in {"hold", "account"}
                   /\ s.todo = proc[q].todo /\ s.gone = proc[q].gone
          <5>1. \A v \in s.todo : v[1] \in 0..MaxReqs /\ v[2] \in Int /\ v[2] <= reqs'
            BY <2>0, <4>1, <4>3 DEF Fit
          <5>2. Fit(s, rows', reqs', n, old)
            BY <4>1, <4>3, <5>1, Zenon DEF Fit
          <5> QED BY <4>0, <5>2, Zenon
        <4> QED BY <4>0, <4>2, <4>3, Zenon
      <3>2. \A s \in Sweepers : proc'[s].pc = "blobs" => proc'[s].todo # {}
        <4>1. \A s \in Sweepers : s \in Procs
          BY Zenon DEF Procs
        <4> QED BY <4>1, Zenon DEF VInv, Fits
      <3> QED BY <3>1, <3>2, Zenon DEF Fits
    <2> QED BY <2>3, <2>4, <2>5, <2>6, Zenon DEF VInv
  <1>PutRowKeeps.
    ASSUME Shape, VInv, versioned, NEW p \in Procs, PutRow(p)
    PROVE  VInv'
    <2> USE <1>PutRowKeeps
    <2> DEFINE v == proc[p].up
               n == lastId + 1
    <2>1. PICK r : r = [st |-> "live", up |-> v, key |-> v, holds |-> {}]
      BY Zenon
    <2>2. PICK pc \in {"hold", "account"} :
              proc' = [proc EXCEPT ![p] = [@ EXCEPT !.pc = pc, !.id = n]]
      BY Zenon DEF PutRow
    <2>3. /\ rows' = InsertVersion(rows, n, r)
          /\ lastId' = IF n > lastId THEN n ELSE lastId
          /\ proc[p].pc = "row"
          /\ UNCHANGED <<reqs, stray, versioned, blob, old>>
      BY <2>1, Zenon DEF PutRow, StorageKey
    <2>4. lastId' = lastId + 1 /\ reqs \in Nat /\ reqs' \in reqs..MaxReqs
      BY <2>3, <1>FitOf DEF Shape
    <2>5. /\ proc'[p].pc = pc /\ proc'[p].op = proc[p].op
          /\ proc'[p].todo = proc[p].todo /\ proc'[p].gone = proc[p].gone
          /\ \A q \in Procs : q # p => proc'[q] = proc[q]
      BY <2>2, Zenon DEF Shape, Fields
    <2>6. Pending(p) /\ ~Pending(p)'
      BY <2>2, <2>3, <2>5, Zenon DEF Pending
    <2>7. /\ v \in 1..reqs /\ blob[v] = v /\ v \notin old
          /\ \A i \in Present(rows) : rows[i].up # v
          /\ \A q \in Procs : Pending(q) /\ proc[q].up = v => q = p
          /\ \A q \in Procs : \A w \in proc[q].todo : w[2] # v
      BY <2>3, <2>6, Zenon DEF VInv, Uploading
    <2>8. \A q \in Procs :
              /\ Pending(q)' => Pending(q) /\ proc'[q] = proc[q]
              /\ proc'[q].todo = proc[q].todo /\ proc'[q].gone = proc[q].gone
              /\ \/ proc'[q] = proc[q]
                 \/ /\ proc[q].pc = "row" /\ proc'[q].op = proc[q].op
                    /\ proc'[q].pc \in {"hold", "account"}
      BY <2>3, <2>5, <2>6, Zenon DEF Pending
    <2>9. \A q \in Procs : Pending(q)' => proc[q].up # v
      BY <2>6, <2>7, <2>8, Zenon
    <2>10. r.up = v /\ r.key = v /\ reqs' = reqs
      BY <2>1, <2>3, Zenon
    <2> HIDE DEF v, n
    <2>11. /\ r.up \in 1..reqs' /\ r.key \in {NoKey, r.up}
           /\ \A i \in Present(rows) : rows[i].up # r.up
           /\ \A q \in Procs : Pending(q)' => proc[q].up # r.up
           /\ blob[r.key] = r.up /\ r.key \notin old
           /\ \A q \in Procs : \A w \in proc[q].todo : w[2] # r.key
      BY <2>7, <2>9, <2>10, Zenon
    <2>12. /\ versioned' = versioned /\ rows' = InsertVersion(rows, lastId + 1, r)
           /\ blob' = blob /\ old' = old /\ stray' = stray
      BY <2>3, Zenon DEF n
    <2> QED BY <2>4, <2>8, <2>11, <2>12, <1>InsertKeeps, Zenon
  <1>CreateDeleteMarkerKeeps.
    ASSUME Shape, VInv, versioned, NEW p \in Procs, CreateDeleteMarker(p)
    PROVE  VInv'
    <2> USE <1>CreateDeleteMarkerKeeps
    <2>1. PICK r : r = [st |-> "deleted", up |-> reqs + 1, key |-> NoKey, holds |-> {}]
      BY Zenon
    <2>2. /\ rows' = InsertVersion(rows, lastId + 1, r) /\ lastId' = lastId + 1
          /\ UNCHANGED <<versioned, blob, old, proc, stray>>
          /\ reqs < MaxReqs /\ reqs' = reqs + 1
      BY <2>1, Zenon DEF CreateDeleteMarker, NewRequest
    <2>3. reqs \in Nat /\ reqs' \in reqs..MaxReqs /\ reqs' = reqs + 1
      BY <2>2, MaxReqsAssumption DEF Shape
    <2>4. r.up = reqs + 1 /\ r.key = NoKey
      BY <2>1, Zenon
    <2>5. /\ r.up \in 1..reqs' /\ r.key = NoKey
          /\ \A i \in Present(rows) : rows[i].up # r.up
          /\ \A q \in Procs : Pending(q) => proc[q].up # r.up
      BY <2>3, <2>4 DEF VInv, Numbered, Uploading
    <2>6. \A q \in Procs : (Pending(q)' <=> Pending(q)) /\ proc'[q] = proc[q]
      BY <2>2, Zenon DEF Pending
    <2>7. \A q \in Procs :
              /\ Pending(q)' => Pending(q) /\ proc'[q] = proc[q]
              /\ proc'[q].todo = proc[q].todo /\ proc'[q].gone = proc[q].gone
              /\ \/ proc'[q] = proc[q]
                 \/ /\ proc[q].pc = "row" /\ proc'[q].op = proc[q].op
                    /\ proc'[q].pc \in {"hold", "account"}
      BY <2>6, Zenon
    <2>8. /\ versioned' = versioned /\ rows' = InsertVersion(rows, lastId + 1, r)
          /\ lastId' = lastId + 1 /\ reqs' \in reqs..MaxReqs
          /\ blob' = blob /\ old' = old /\ stray' = stray
          /\ r.up \in 1..reqs' /\ r.key = NoKey
          /\ \A i \in Present(rows) : rows[i].up # r.up
          /\ \A q \in Procs : Pending(q)' => proc[q].up # r.up
      BY <2>2, <2>3, <2>5, <2>6, Zenon
    <2> QED BY <2>7, <2>8, <1>InsertKeeps, Zenon
  <1> SUFFICES ASSUME Shape, VInv, versioned, IsTable(rows), [Next]_vars PROVE VInv'
    BY Zenon
  <1>1. ASSUME NEW c \in Clients, Request(c) \/ Step(c) \/ Abandon(c) PROVE VInv'
    <2>1. c \in Procs /\ c \notin Sweepers
      BY FileServiceAssumption, Zenon DEF Procs
    <2>2. CASE Request(c)
      BY <2>1, <2>2, <1>PutStartKeeps, <1>RequestsStart, <1>CreateDeleteMarkerKeeps, Zenon DEF Request
    <2>3. CASE Step(c)
      BY <2>1, <2>3, <1>PlainSteps, <1>PutBlobKeeps, <1>PutRowKeeps, <1>HardDeleteListKeeps,
         <1>DeleteBlobKeeps, <1>HardDeletesKeep, <1>DeleteVersionRowKeeps, Zenon DEF Step
    <2> QED BY <1>1, <2>1, <2>2, <2>3, <1>PlainSteps, Zenon
  <1>2. ASSUME NEW s \in Sweepers, Sweep(s) \/ SweepStep(s) \/ Abandon(s) PROVE VInv'
    <2>1. s \in Procs
      BY Zenon DEF Procs
    <2> QED BY <1>2, <2>1, <1>SweepsKeep, <1>PlainSteps, <1>RecheckKeeps, <1>SweepBlobKeeps,
               <1>HardDeletesKeep, <1>ExpireRowKeeps, <1>ListBlobsKeeps, <1>DeleteOrphanKeeps,
               Zenon DEF SweepStep
  <1> QED BY <1>1, <1>2, <1>HoldsKeep, <1>GraceKeeps, <1>StutterKeeps, Zenon DEF Next, ClientNext

\* Over any interleaving of requests and sweeps, with holds and half-way
\* stops, BInv holds.
LEMMA BackedInvariance == Spec => []BInv
  <1>1. Init => BInv
    <2> SUFFICES ASSUME Init PROVE Shape /\ VInv
      BY Zenon DEF BInv
    <2>1. /\ rows = [i \in Ids |-> NoRow] /\ lastId = 0 /\ blob = [k \in Keys |-> 0] /\ reqs = 0
          /\ proc = [p \in Procs |-> Idle]
      BY Zenon DEF Init
    <2>2. Shape
      BY <2>1, MaxReqsAssumption DEF Shape, Idle, Fields
    <2>3. Present(rows) = {}
      BY <2>1, Zenon DEF Present, NoRow
    <2>4. \A p \in Procs : proc[p] = Idle /\ ~Pending(p)
      BY <2>1, Zenon DEF Idle, Pending
    <2>5. Numbered /\ RowsBacked
      BY <2>1, <2>3, Zenon DEF Numbered, RowsBacked
    <2>6. Uploading
      BY <2>4, Zenon DEF Uploading
    <2>7. Fits
      <3>1. \A p \in Procs : Fit(proc[p], rows, reqs, lastId, old)
        BY <2>4, IdleFits, Zenon
      <3>2. \A s \in Sweepers : proc[s].pc = "idle"
        BY <2>4 DEF Procs, Idle
      <3> QED BY <3>1, <3>2, Zenon DEF Fits
    <2> QED BY <2>2, <2>5, <2>6, <2>7, Zenon DEF VInv
  <1>2. BInv /\ Good(rows) /\ [Next]_vars => BInv'
    <2> SUFFICES ASSUME BInv, Good(rows), [Next]_vars PROVE BInv'
      BY Zenon
    <2>1. Shape'
      BY ShapeStep, Zenon DEF BInv
    <2>2. ASSUME versioned' PROVE VInv'
      <3>1. versioned
        <4>1. versioned' = versioned
          BY ZenonT(40) DEF Next, vars, state, ClientNext, Request, Step, Sweep, SweepStep,
             PutStart, SoftDeleteStart, HardDeleteStart, DeleteVersionStart,
             CreateDeleteMarker, RestoreStart, PutUsage, PutBlob, PutRow, PutHold,
             SoftDelete, HardDeleteList, DeleteBlob, HardDeleteRows, DeleteVersionRow,
             RestoreRow, Account, Abandon, PutLegalHold, RemoveLegalHold, Purge,
             ExpireHard, ExpireSoft, PurgeNonCurrent, OrphanRow, CollectReferenced,
             TakeVersion, Take, Recheck, SweepBlob, PurgeRows, ExpireRow, ListBlobs,
             DeleteOrphan, GracePasses
        <4> QED BY <2>2, <4>1, Zenon
      <3> QED BY <3>1, VersionsStep, Zenon DEF BInv, Good
    <2> QED BY <2>1, <2>2, Zenon DEF BInv
  <1> QED BY <1>1, <1>2, GoodAlways, PTL DEF Spec

\* In a versioned bucket a row's blob is never taken by somebody else's
\* upload, removal, retention sweep or orphan scan, for any number of
\* requests and sweeps and any interleaving, crash or fault.
THEOREM BackedAlways == Spec => []RowsBacked
  <1>1. BInv => RowsBacked
    BY Zenon DEF BInv, VInv, RowsBacked
  <1> QED BY <1>1, BackedInvariance, PTL
=============================================================================
