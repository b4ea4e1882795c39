---------------------------- MODULE UsageProofs ----------------------------
(***************************************************************************)
(* The usage counter of a tenant (UsageExact), in buckets of both kinds:   *)
(* while no two requests and sweeps have overlapped, and no crash or blob  *)
(* fault cut one short, the counter is the sum of the sizes of the rows    *)
(* that count, but for what the one operation at work has still to add or  *)
(* subtract.                                                               *)
(***************************************************************************)
EXTENDS MaintenanceProofs, Sums

-----------------------------------------------------------------------------
(* Usage as a sum *)

Sizes(t) == [i \in Ids |-> Size(t[i])]

\* The versions, hence the sizes, of a table are numbers.
Sized(t) ==
    \A i \in Ids : t[i].up \in Nat /\ t[i].st \in {"none", "live", "tombstone", "deleted"}

\* There are finitely many rows.
LEMMA IdsFinite == IsFiniteSet(Ids)
  <1>1. 1 \in Int /\ MaxReqs \in Int
    BY MaxReqsAssumption
  <1> QED BY <1>1, FS_Interval, Zenon DEF Ids

SizeSum(t, C) == MapThenSumSet(LAMBDA i : Size(t[i]), C)

\* The fold over the counted rows is a sum in the sense of Sums.
LEMMA FoldIsSum ==
    ASSUME NEW t, NEW C \in SUBSET Ids
    PROVE  \E g : IsSum(g, Sizes(t), C) /\ g[C] = SizeSum(t, C)
  <1> DEFINE Eq(f) == f = [s \in SUBSET C |->
                             IF s = {} THEN 0
                             ELSE LET x == CHOOSE x \in s : TRUE IN Size(t[x]) + f[s \ {x}]]
             it == CHOOSE f : Eq(f)
  <1>0. IsFiniteSet(C)
    BY IdsFinite, FS_Subset, Zenon
  <1>1. PICK w : w = Sizes(t)
    BY Zenon
  <1>2. PICK g : IsSum(g, w, C)
    BY <1>0, SumExists, Zenon
  <1>3. ASSUME NEW s \in SUBSET C, s # {} PROVE w[Pick(s)] = Size(t[Pick(s)])
    BY <1>1, <1>3, PickIn, Zenon DEF Sizes
  <1>4. ASSUME NEW f PROVE IsSum(f, w, C) <=> Eq(f)
    <2>1. ASSUME NEW s \in SUBSET C
          PROVE  (IF s = {} THEN 0 ELSE w[Pick(s)] + f[s \ {Pick(s)}])
                   = (IF s = {} THEN 0
                      ELSE LET x == CHOOSE x \in s : TRUE IN Size(t[x]) + f[s \ {x}])
      <3>1. CASE s = {}
        BY <3>1, Zenon
      <3>2. CASE s # {}
        <4>1. w[Pick(s)] = Size(t[Pick(s)])
          BY <1>3, <3>2, Zenon
        <4> QED BY <3>2, <4>1, Zenon DEF Pick
      <3> QED BY <3>1, <3>2, Zenon
    <2> QED BY <2>1, Zenon DEF IsSum
  <1>5. Eq(it)
    <2>1. Eq(g)
      BY <1>2, <1>4, Zenon
    <2> HIDE DEF Eq
    <2> QED BY <2>1, Zenon
  <1>6. SizeSum(t, C) = it[C]
    BY Zenon DEF SizeSum, MapThenSumSet, MapThenFoldSet
  <1> HIDE DEF it
  <1>7. IsSum(it, w, C)
    BY <1>4, <1>5, Zenon
  <1> QED BY <1>1, <1>6, <1>7, Zenon

\* Usage is one sum, taken over the rows of a set that count.
LEMMA UsageSum ==
    ASSUME NEW t
    PROVE  \E g : IsSum(g, Sizes(t), Ids) /\ \A S \in SUBSET Ids : Usage(t, S) = g[Counted(t, S)]
  <1>1. PICK g : IsSum(g, Sizes(t), Ids)
    BY IdsFinite, SumExists, Zenon
  <1>2. ASSUME NEW S \in SUBSET Ids PROVE Usage(t, S) = g[Counted(t, S)]
    <2> DEFINE C == Counted(t, S)
    <2>1. C \in SUBSET Ids
      BY Zenon DEF Counted
    <2>2. Usage(t, S) = SizeSum(t, C)
      BY Zenon DEF Usage, SizeSum
    <2> HIDE DEF C
    <2>3. PICK h : IsSum(h, Sizes(t), C) /\ h[C] = SizeSum(t, C)
      BY <2>1, FoldIsSum, Zenon
    <2>4. IsFiniteSet(C)
      BY <2>1, IdsFinite, FS_Subset, Zenon
    <2>5. h[C] = g[C]
      BY <1>1, <2>1, <2>3, <2>4, SumAgree
    <2> QED BY <2>2, <2>3, <2>5, Zenon DEF C
  <1> QED BY <1>1, <1>2, Zenon

\* What the row adds to the usage.
Weight(r) == IF r.st \in {"live", "tombstone"} THEN Size(r) ELSE 0

\* The usage is a number; it depends on what the rows add to it only, row by
\* row.
LEMMA UsageNat ==
    ASSUME NEW t, Sized(t), NEW S \in SUBSET Ids
    PROVE  Usage(t, S) \in Nat
  <1>1. PICK g : IsSum(g, Sizes(t), Ids) /\ \A R \in SUBSET Ids : Usage(t, R) = g[Counted(t, R)]
    BY UsageSum, Zenon
  <1>2. \A x \in Ids : Sizes(t)[x] \in Nat
    BY Zenon DEF Sizes, Sized, Size
  <1>3. \A s \in SUBSET Ids : g[s] \in Nat
    BY <1>1, <1>2, IdsFinite, SumNat, Zenon
  <1>4. Counted(t, S) \in SUBSET Ids
    BY Zenon DEF Counted
  <1> QED BY <1>1, <1>3, <1>4, Zenon

\* Rows that do not count add nothing.
LEMMA UsageNone ==
    ASSUME NEW t, NEW S \in SUBSET Ids, Counted(t, S) = {}
    PROVE  Usage(t, S) = 0
  <1>1. PICK g : IsSum(g, Sizes(t), Ids) /\ \A R \in SUBSET Ids : Usage(t, R) = g[Counted(t, R)]
    BY UsageSum, Zenon
  <1>2. g[{}] = 0
    BY <1>1, SumEq, Zenon
  <1> QED BY <1>1, <1>2, Zenon

\* Tables with the same counted rows of the same sizes have the same usage.
LEMMA UsageSame ==
    ASSUME NEW t, NEW u, NEW S \in SUBSET Ids, Counted(t, S) = Counted(u, S),
           \A i \in Counted(t, S) : Size(t[i]) = Size(u[i])
    PROVE  Usage(t, S) = Usage(u, S)
  <1>1. PICK g : IsSum(g, Sizes(t), Ids) /\ \A R \in SUBSET Ids : Usage(t, R) = g[Counted(t, R)]
    BY UsageSum, Zenon
  <1>2. PICK h : IsSum(h, Sizes(u), Ids) /\ \A R \in SUBSET Ids : Usage(u, R) = h[Counted(u, R)]
    BY UsageSum, Zenon
  <1> DEFINE C == Counted(t, S)
  <1>3. C \in SUBSET Ids
    BY Zenon DEF Counted
  <1>4. \A i \in C : Sizes(t)[i] = Sizes(u)[i]
    BY <1>3, Zenon DEF Sizes
  <1> HIDE DEF C
  <1>5. IsFiniteSet(C)
    BY <1>3, IdsFinite, FS_Subset, Zenon
  <1>6. PICK f : IsSum(f, Sizes(t), C)
    BY <1>5, SumExists, Zenon
  <1>7. f[C] = g[C]
    BY <1>1, <1>3, <1>5, <1>6, SumAgree
  <1>8. f[C] = h[C]
    BY <1>2, <1>3, <1>4, <1>5, <1>6, SumAgree
  <1> QED BY <1>1, <1>2, <1>7, <1>8, Zenon DEF C

\* A row adds its weight.
LEMMA UsageSplit ==
    ASSUME NEW t, Sized(t), NEW S \in SUBSET Ids, NEW k \in S
    PROVE  Usage(t, S) = Weight(t[k]) + Usage(t, S \ {k})
  <1>1. PICK g : IsSum(g, Sizes(t), Ids) /\ \A R \in SUBSET Ids : Usage(t, R) = g[Counted(t, R)]
    BY UsageSum, Zenon
  <1>2. \A x \in Ids : Sizes(t)[x] \in Nat
    BY Zenon DEF Sizes, Sized, Size
  <1>3. ASSUME NEW s \in SUBSET Ids, NEW x \in s PROVE g[s] = Sizes(t)[x] + g[s \ {x}]
    <2>1. PICK w : w = Sizes(t)
      BY Zenon
    <2>2. IsSum(g, w, Ids) /\ \A y \in Ids : w[y] \in Nat
      BY <1>1, <1>2, <2>1, Zenon
    <2>3. PICK D : D = Ids
      BY Zenon
    <2>4. IsSum(g, w, D) /\ IsFiniteSet(D) /\ s \in SUBSET D
      BY <2>2, <2>3, IdsFinite, Zenon
    <2>5. \A y \in D : w[y] \in Nat
      BY <2>2, <2>3, Zenon
    <2>6. g[s] = w[x] + g[s \ {x}]
      BY <2>4, <2>5, <1>3, SumRemove
    <2> QED BY <2>1, <2>6, Zenon
  <1>4. CASE k \in Counted(t, S)
    <2>1. Counted(t, S \ {k}) = Counted(t, S) \ {k} /\ Counted(t, S) \in SUBSET Ids
      BY Zenon DEF Counted
    <2>2. Weight(t[k]) = Sizes(t)[k]
      BY <1>4, Zenon DEF Counted, Weight, Sizes
    <2>3. g[Counted(t, S)] = Sizes(t)[k] + g[Counted(t, S) \ {k}]
      BY <1>3, <1>4, <2>1, Zenon
    <2>4. Usage(t, S) = g[Counted(t, S)] /\ Usage(t, S \ {k}) = g[Counted(t, S) \ {k}]
      BY <1>1, <2>1, Zenon
    <2> QED BY <2>2, <2>3, <2>4, Zenon
  <1>5. CASE k \notin Counted(t, S)
    <2>1. Counted(t, S \ {k}) = Counted(t, S)
      BY <1>5, Zenon DEF Counted
    <2>2. Weight(t[k]) = 0
      BY <1>5, Zenon DEF Counted, Weight
    <2>3. Usage(t, S) \in Nat /\ Usage(t, S) = Usage(t, S \ {k})
      BY <1>1, <2>1, UsageNat, Zenon
    <2> QED BY <2>2, <2>3
  <1> QED BY <1>4, <1>5, Zenon

\* The rows of S count in u for what they count in t.
SameCount(t, u, S) ==
    \A i \in S :
        /\ t[i].st \in {"live", "tombstone"} <=> u[i].st \in {"live", "tombstone"}
        /\ t[i].st \in {"live", "tombstone"} => Size(t[i]) = Size(u[i])

\* The same, row by row.
LEMMA UsageEqual ==
    ASSUME NEW t, NEW u, NEW S \in SUBSET Ids, SameCount(t, u, S)
    PROVE  Usage(t, S) = Usage(u, S)
  <1>1. Counted(t, S) = Counted(u, S)
    BY Zenon DEF SameCount, Counted
  <1>2. \A i \in Counted(t, S) : Size(t[i]) = Size(u[i])
    BY Zenon DEF SameCount, Counted
  <1> QED BY <1>1, <1>2, UsageSame, Zenon

\* A row's weight is a number.
LEMMA WeightNat ==
    ASSUME NEW t, Sized(t), NEW k \in Ids
    PROVE  Weight(t[k]) \in Nat
  BY Zenon DEF Sized, Weight, Size

\* One row's usage is its weight.
LEMMA UsageOne ==
    ASSUME NEW t, Sized(t), NEW k \in Ids
    PROVE  Usage(t, {k}) = Weight(t[k])
  <1>1. Usage(t, {k}) = Weight(t[k]) + Usage(t, {k} \ {k})
    <2>1. {k} \in SUBSET Ids /\ k \in {k}
      BY Zenon
    <2> QED BY <2>1, UsageSplit, Zenon
  <1>2. Counted(t, {k} \ {k}) = {} /\ {k} \ {k} \in SUBSET Ids
    BY Zenon DEF Counted
  <1>3. Usage(t, {k} \ {k}) = 0
    BY <1>2, UsageNone, Zenon
  <1> QED BY <1>1, <1>3, WeightNat

\* One row changes.
LEMMA UsageChange ==
    ASSUME NEW t, NEW u, Sized(t), Sized(u), NEW k \in Ids, SameCount(t, u, Ids \ {k})
    PROVE  Usage(u, Ids) = Usage(t, Ids) - Weight(t[k]) + Weight(u[k])
  <1>1. Ids \in SUBSET Ids /\ Ids \ {k} \in SUBSET Ids
    BY Zenon
  <1>2. Usage(t, Ids) = Weight(t[k]) + Usage(t, Ids \ {k})
    BY <1>1, UsageSplit
  <1>3. Usage(u, Ids) = Weight(u[k]) + Usage(u, Ids \ {k})
    BY <1>1, UsageSplit, ZenonT(40)
  <1>4. Usage(t, Ids \ {k}) = Usage(u, Ids \ {k})
    BY <1>1, UsageEqual, Zenon
  <1>5. Usage(t, Ids \ {k}) \in Nat
    BY <1>1, UsageNat, Zenon
  <1>6. Weight(t[k]) \in Nat /\ Weight(u[k]) \in Nat
    BY WeightNat, Zenon
  <1> QED BY <1>2, <1>3, <1>4, <1>5, <1>6

\* The live row's usage, which the deletions subtract and an overwrite
\* replaces.
LEMMA UsageLive ==
    ASSUME NEW t, Sized(t), AtMostOneLive(t)
    PROVE  /\ Live(t) = {} => Usage(t, Live(t)) = 0
           /\ \A j \in Live(t) : Usage(t, Live(t)) = Weight(t[j])
  <1>1. ASSUME Live(t) = {} PROVE Usage(t, Live(t)) = 0
    <2>1. Counted(t, Live(t)) = {} /\ Live(t) \in SUBSET Ids
      BY <1>1, Zenon DEF Counted
    <2> QED BY <2>1, UsageNone, Zenon
  <1>2. ASSUME NEW j \in Live(t) PROVE Usage(t, Live(t)) = Weight(t[j])
    <2>1. Live(t) = {j} /\ j \in Ids
      BY Zenon DEF AtMostOneLive, Live, InState
    <2> QED BY <2>1, UsageOne, Zenon
  <1> QED BY <1>1, <1>2, Zenon

\* Absent rows add nothing.
LEMMA UsagePresent ==
    ASSUME NEW t
    PROVE  Usage(t, Present(t)) = Usage(t, Ids)
  <1>1. PICK g : \A R \in SUBSET Ids : Usage(t, R) = g[Counted(t, R)]
    BY UsageSum, Zenon
  <1>2. Counted(t, Present(t)) = Counted(t, Ids)
    BY Zenon DEF Counted, Present
  <1>3. Present(t) \in SUBSET Ids /\ Ids \in SUBSET Ids
    BY Zenon DEF Present
  <1> QED BY <1>1, <1>2, <1>3, Zenon

\* A new version or a delete marker in an unused row.
LEMMA InsertUsage ==
    ASSUME NEW t, Sized(t), NEW k \in Ids, t[k].st = "none",
           NEW r, r.up \in Nat, r.st \in {"live", "deleted"}
    PROVE  /\ Sized(InsertVersion(t, k, r))
           /\ Usage(InsertVersion(t, k, r), Ids) = Usage(t, Ids) + Weight(r)
  <1> DEFINE u == InsertVersion(t, k, r)
  <1>1. /\ u[k] = r
        /\ \A i \in Ids : i # k =>
              /\ u[i].up = t[i].up /\ u[i].key = t[i].key
              /\ u[i].st = IF t[i].st = "live" THEN "tombstone" ELSE t[i].st
    BY Zenon DEF InsertVersion, SetState, WithState, Live, InState
  <1> HIDE DEF u
  <1>2. Sized(u)
    BY <1>1, Zenon DEF Sized
  <1>3. SameCount(t, u, Ids \ {k})
    BY <1>1, Zenon DEF SameCount, Size, IsDeleteMarker
  <1>4. Weight(t[k]) = 0
    BY Zenon DEF Weight
  <1>5. Usage(u, Ids) = Usage(t, Ids) - Weight(t[k]) + Weight(u[k])
    BY <1>2, <1>3, UsageChange, Zenon
  <1>6. Usage(t, Ids) \in Nat /\ Weight(u[k]) \in Nat
    BY <1>2, WeightNat, UsageNat, Zenon
  <1> QED BY <1>1, <1>2, <1>4, <1>5, <1>6 DEF u

\* An upload into an unversioned bucket.
LEMMA UpsertUsage ==
    ASSUME NEW t, Sized(t), IsTable(t), AtMostOneLive(t), NEW k \in Ids, t[k].st = "none",
           NEW r, r.up \in Nat, r.st = "live"
    PROVE  /\ Sized(UpsertObject(t, k, r))
           /\ Usage(UpsertObject(t, k, r), Ids)
                = Usage(t, Ids) - Usage(t, Live(t)) + Size(r)
  <1> DEFINE u == UpsertObject(t, k, r)
  <1>0. Weight(r) = Size(r) /\ Usage(t, Ids) \in Nat /\ Size(r) \in Nat
    BY UsageNat, Zenon DEF Weight, Size
  <1>1. CASE Live(t) = {}
    <2>1. u[k] = r /\ \A i \in Ids : i # k => u[i] = t[i]
      BY <1>1, Zenon DEF UpsertObject, IsTable
    <2> HIDE DEF u
    <2>2. Sized(u) /\ SameCount(t, u, Ids \ {k})
      BY <2>1, Zenon DEF Sized, SameCount
    <2>3. Weight(t[k]) = 0 /\ Usage(t, Live(t)) = 0
      BY <1>1, UsageLive, Zenon DEF Weight
    <2>4. Usage(u, Ids) = Usage(t, Ids) - Weight(t[k]) + Weight(u[k])
      BY <2>2, UsageChange, Zenon
    <2> QED BY <1>0, <2>1, <2>2, <2>3, <2>4, Zenon DEF u
  <1>2. CASE Live(t) # {}
    <2>1. PICK j \in Live(t) : TRUE
      BY <1>2, Zenon
    <2>2. j \in Ids /\ \A i \in Live(t) : i = j
      BY <2>1, Zenon DEF AtMostOneLive, Live, InState
    <2>3. u[j] = Overwritten(t[j], r) /\ \A i \in Ids : i # j => u[i] = t[i]
      BY <1>2, <2>2, Zenon DEF UpsertObject
    <2> HIDE DEF u
    <2>4. Sized(u) /\ SameCount(t, u, Ids \ {j})
      BY <2>2, <2>3 DEF Sized, SameCount, Overwritten
    <2>5. Weight(u[j]) = Size(r)
      BY <2>1, <2>3 DEF Weight, Overwritten, Size, IsDeleteMarker, Live, InState
    <2>6. Usage(u, Ids) = Usage(t, Ids) - Weight(t[j]) + Weight(u[j])
      BY <2>2, <2>4, UsageChange, Zenon
    <2>7. Usage(t, Live(t)) = Weight(t[j])
      BY <2>1, UsageLive, Zenon
    <2> QED BY <2>4, <2>5, <2>6, <2>7, Zenon DEF u
  <1> QED BY <1>1, <1>2, Zenon

\* SoftDeleteObject takes the live row out of the count.
LEMMA SoftDeleteUsage ==
    ASSUME NEW t, Sized(t), AtMostOneLive(t)
    PROVE  /\ Sized(SoftDeleteObject(t))
           /\ Usage(SoftDeleteObject(t), Ids) = Usage(t, Ids) - Usage(t, Live(t))
  <1> DEFINE u == SoftDeleteObject(t)
  <1>1. \A i \in Ids :
           /\ i \notin Live(t) => u[i] = t[i]
           /\ i \in Live(t) => u[i].up = t[i].up /\ u[i].st = "deleted"
    BY Zenon DEF SoftDeleteObject, SetState, WithState
  <1> HIDE DEF u
  <1>2. Sized(u)
    BY <1>1, Zenon DEF Sized
  <1>3. Usage(t, Ids) \in Nat
    BY UsageNat, Zenon
  <1>4. CASE Live(t) = {}
    <2>1. SameCount(t, u, Ids)
      BY <1>1, <1>4, Zenon DEF SameCount
    <2>2. Usage(t, Ids) = Usage(u, Ids)
      BY <2>1, UsageEqual, Zenon
    <2>3. Usage(t, Live(t)) = 0
      BY <1>4, UsageLive, Zenon
    <2> QED BY <1>2, <1>3, <2>2, <2>3 DEF u
  <1>5. CASE Live(t) # {}
    <2>1. PICK j \in Live(t) : TRUE
      BY <1>5, Zenon
    <2>2. j \in Ids /\ \A i \in Live(t) : i = j
      BY <2>1, Zenon DEF AtMostOneLive, Live, InState
    <2>3. SameCount(t, u, Ids \ {j})
      BY <1>1, <2>2, Zenon DEF SameCount
    <2>4. Weight(u[j]) = 0
      BY <1>1, <2>1, <2>2, Zenon DEF Weight
    <2>5. Usage(u, Ids) = Usage(t, Ids) - Weight(t[j]) + Weight(u[j])
      BY <1>2, <2>2, <2>3, UsageChange, Zenon
    <2>6. Usage(t, Live(t)) = Weight(t[j]) /\ Weight(t[j]) \in Nat
      BY <2>1, <2>2, UsageLive, WeightNat, Zenon
    <2> QED BY <1>2, <1>3, <2>4, <2>5, <2>6 DEF u
  <1> QED BY <1>4, <1>5, Zenon

\* A user-deleted row comes back.
LEMMA ReviveUsage ==
    ASSUME NEW t, Sized(t), NEW k \in Ids, t[k].st = "deleted"
    PROVE  /\ Sized(SetState(t, {k}, "live"))
           /\ Usage(SetState(t, {k}, "live"), Ids) = Usage(t, Ids) + Size(t[k])
  <1> DEFINE u == SetState(t, {k}, "live")
  <1>1. u[k] = WithState(t[k], "live") /\ \A i \in Ids : i # k => u[i] = t[i]
    BY Zenon DEF SetState
  <1> HIDE DEF u
  <1>2. Sized(u) /\ SameCount(t, u, Ids \ {k})
    BY <1>1 DEF Sized, WithState, SameCount
  <1>3. Weight(t[k]) = 0 /\ Weight(u[k]) = Size(t[k])
    BY <1>1 DEF Weight, WithState, Size, IsDeleteMarker
  <1>4. Usage(u, Ids) = Usage(t, Ids) - Weight(t[k]) + Weight(u[k])
    BY <1>2, UsageChange, Zenon
  <1>5. Usage(t, Ids) \in Nat /\ Weight(u[k]) \in Nat
    BY <1>2, UsageNat, WeightNat, Zenon
  <1> QED BY <1>2, <1>3, <1>4, <1>5 DEF u

\* Deleting a row takes it out of the count.
LEMMA RemoveUsage ==
    ASSUME NEW t, Sized(t), NEW k \in Ids
    PROVE  /\ Sized(Remove(t, {k}))
           /\ Usage(Remove(t, {k}), Ids) = Usage(t, Ids) - Usage(t, {k})
  <1> DEFINE u == Remove(t, {k})
  <1>1. u[k] = NoRow /\ \A i \in Ids : i # k => u[i] = t[i]
    BY Zenon DEF Remove
  <1> HIDE DEF u
  <1>2. Sized(u) /\ SameCount(t, u, Ids \ {k})
    BY <1>1 DEF Sized, NoRow, SameCount
  <1>3. Weight(u[k]) = 0
    BY <1>1 DEF Weight, NoRow
  <1>4. Usage(u, Ids) = Usage(t, Ids) - Weight(t[k]) + Weight(u[k])
    BY <1>2, UsageChange, Zenon
  <1>5. Usage(t, Ids) \in Nat /\ Weight(t[k]) \in Nat /\ Usage(t, {k}) = Weight(t[k])
    BY UsageNat, WeightNat, UsageOne, Zenon
  <1> QED BY <1>2, <1>3, <1>4, <1>5 DEF u

\* Deleting all rows leaves nothing to count.
LEMMA RemoveAllUsage ==
    ASSUME NEW t
    PROVE  Sized(Remove(t, Ids)) /\ Usage(Remove(t, Ids), Ids) = 0
  <1> DEFINE u == Remove(t, Ids)
  <1>1. \A i \in Ids : u[i] = NoRow
    BY Zenon DEF Remove
  <1> HIDE DEF u
  <1>2. Sized(u) /\ Counted(u, Ids) = {}
    BY <1>1 DEF Sized, NoRow, Counted
  <1>3. Usage(u, Ids) = 0
    BY <1>2, UsageNone, Zenon
  <1> QED BY <1>2, <1>3, Zenon DEF u

\* The promotion that goes with the removal of a version changes nothing,
\* unless it brings a user-deleted row back.
LEMMA DeleteVersionUsage ==
    ASSUME NEW t, Sized(t), NEW k \in Ids, ~Revived(t, DeleteObjectVersion(t, k))
    PROVE  /\ Sized(DeleteObjectVersion(t, k))
           /\ Usage(DeleteObjectVersion(t, k), Ids) = Usage(t, Ids) - Usage(t, {k})
  <1> DEFINE u == Remove(t, {k})
             w == promoteLatestObjectVersion(u)
  <1>0. \A i \in Ids : u[i].st # "none" => i # k /\ u[i] = t[i]
    BY Zenon DEF Remove, NoRow
  <1>1. Sized(u) /\ Usage(u, Ids) = Usage(t, Ids) - Usage(t, {k})
    BY RemoveUsage, Zenon
  <1>2. ~Revived(t, w)
    BY Zenon DEF DeleteObjectVersion
  <1> HIDE DEF u
  <1>3. Sized(w) /\ SameCount(u, w, Ids)
    <2>1. CASE w = u
      BY <1>1, <2>1, Zenon DEF SameCount
    <2>2. CASE w # u
      <3>1. Present(u) # {} /\ Live(u) = {} /\ w = SetState(u, {Max(Present(u))}, "live")
        BY <2>2, Zenon DEF promoteLatestObjectVersion
      <3>2. Present(u) \in SUBSET Ids
        BY Zenon DEF Present
      <3>3. PICK m : m = Max(Present(u))
        BY Zenon
      <3>4. m \in Present(u)
        BY <3>1, <3>2, <3>3, MaxIn, Zenon
      <3> HIDE DEF w
      <3>5. m \in Ids /\ w[m] = WithState(u[m], "live") /\ \A i \in Ids : i # m => w[i] = u[i]
        BY <3>1, <3>3, <3>4, Zenon DEF SetState, Present
      <3>6. u[m].st # "none" /\ u[m].st # "live"
        BY <3>1, <3>4, Zenon DEF Present, Live, InState
      <3>7. u[m].st # "deleted"
        BY <1>0, <1>2, <3>5, <3>6 DEF Revived, WithState
      <3>8. u[m].st = "tombstone"
        BY <1>1, <3>5, <3>6, <3>7, Zenon DEF Sized
      <3> QED BY <1>1, <3>5, <3>8 DEF Sized, SameCount, WithState, Size, IsDeleteMarker
    <2> QED BY <2>1, <2>2, Zenon
  <1> HIDE DEF w
  <1>4. Usage(u, Ids) = Usage(w, Ids)
    BY <1>3, UsageEqual, Zenon
  <1> QED BY <1>1, <1>3, <1>4, Zenon DEF DeleteObjectVersion, u, w

-----------------------------------------------------------------------------
(* One operation at a time *)

WithinBytes(u) == MaxBytes > 0 => u <= MaxBytes

\* The counter u is what the rows of t add up to.
Settled(t, u) == u = Usage(t, Ids) /\ WithinBytes(u)

\* The rows of t are numbered upwards, by n requests, up to row l.
Ordered(t, n, l) ==
    /\ Sized(t) /\ l <= n
    /\ \A i \in Present(t) : i <= l /\ t[i].up <= n
    /\ \A i, j \in Present(t) : t[i].up = t[j].up => i = j

\* What an operation in state r owes is what it does to the rows of t, or
\* has done to them.
Planned(r, t, n, l, u, w) ==
    /\ r.owed \in Int
    /\ r.pc \in {"hold", "account"} => Settled(t, u + r.owed)
    /\ r.pc \notin {"hold", "account"} => Settled(t, u)
    /\ r.pc \in {"usage", "blob", "row"} =>
          l < n /\ r.up = n /\ \A i \in Present(t) : t[i].up < n
    /\ r.pc \in {"blob", "row"} =>
          /\ r.owed = IF w THEN r.up ELSE r.up - Usage(t, Live(t))
          /\ WithinBytes(u + r.owed)
    /\ r.pc = "hold" => r.id \in Present(t)
    /\ r.pc = "soft" => r.owed = -Usage(t, Live(t))
    /\ r.pc = "restore" =>
          /\ InState(t, "deleted") # {}
          /\ t[Max(InState(t, "deleted"))].key # NoKey
          /\ r.owed = t[Max(InState(t, "deleted"))].up
          /\ WithinBytes(u + r.owed)
    /\ r.pc = "list" => r.op \in {"hard", "scan"}
    /\ r.pc \in {"recheck", "blobs"} =>
          /\ r.op = "hard" => Present(t) = {} \/ r.owed = -Usage(t, Present(t))
          /\ r.op = "purge" => r.owed = -Usage(t, Present(t))
          /\ r.op = "version" => \A i \in GetObjectVersion(t, r.up) : r.owed = -Usage(t, {i})
          /\ r.op = "expire" => r.id \in Ids /\ r.owed = -Usage(t, {r.id})

Serial ==
    /\ Ordered(rows, reqs, lastId)
    /\ \A p, q \in Active : p = q
    /\ Quiet => Settled(rows, used)
    /\ \A p \in Active : Planned(proc[p], rows, reqs, lastId, used, versioned)

SInv == ~disturbed => Serial

\* The operation of p is the only one and goes on with r, or ends.
LEMMA SerialMoves ==
    ASSUME Shape, NEW p \in Procs, NEW r, proc' = [proc EXCEPT ![p] = r],
           \A q \in Active : q = p, Ordered(rows', reqs', lastId'),
           r.pc = "idle" => Settled(rows', used'),
           r.pc # "idle" => Planned(r, rows', reqs', lastId', used', versioned')
    PROVE  Serial'
  <1>1. proc'[p] = r /\ \A q \in Procs : q # p => proc'[q] = proc[q] /\ proc'[q].pc = "idle"
    BY Zenon DEF Shape, Active
  <1>2. \A q \in Active' : q = p
    BY <1>1, Zenon DEF Active
  <1>3. Quiet' => Settled(rows', used')
    BY <1>1, Zenon DEF Quiet, Active
  <1>4. \A q \in Active' : Planned(proc'[q], rows', reqs', lastId', used', versioned')
    BY <1>1, <1>2, Zenon DEF Active
  <1>5. Ordered(rows, reqs, lastId)'
    BY Zenon DEF Ordered
  <1> QED BY <1>2, <1>3, <1>4, <1>5, Zenon DEF Serial

\* An operation starts.
LEMMA SerialStarts ==
    ASSUME Shape, Serial, NEW p \in Procs, NEW r, Start(p, r), ~disturbed',
           rows' = rows, lastId' = lastId, used' = used, versioned' = versioned,
           reqs' \in {reqs, reqs + 1}, r.pc # "idle",
           Settled(rows, used) => Planned(r, rows, reqs', lastId, used, versioned)
    PROVE  Serial'
  <1>1. Quiet /\ proc' = [proc EXCEPT ![p] = r]
    BY Zenon DEF Start
  <1>2. Settled(rows, used) /\ \A q \in Active : q = p
    BY <1>1, Zenon DEF Serial, Quiet
  <1>3. Ordered(rows, reqs', lastId)
    <2>1. reqs \in Nat /\ lastId \in Nat /\ Ordered(rows, reqs, lastId)
      BY DEF Shape, Serial
    <2>2. \A i \in Present(rows) : rows[i].up \in Nat
      BY <2>1, Zenon DEF Ordered, Sized, Present
    <2> QED BY <2>1, <2>2 DEF Ordered
  <1>4. Planned(r, rows', reqs', lastId', used', versioned') /\ Ordered(rows', reqs', lastId')
    BY <1>2, <1>3, Zenon
  <1> QED BY <1>1, <1>2, <1>4, SerialMoves, Zenon

\* The only operation goes on, or ends, with the rows as they were.
LEMMA SerialStays ==
    ASSUME Shape, Serial, NEW p \in Procs, proc[p].pc # "idle", NEW r,
           proc' = [proc EXCEPT ![p] = r],
           rows' = rows, lastId' = lastId, reqs' = reqs, used' = used, versioned' = versioned,
           Planned(proc[p], rows, reqs, lastId, used, versioned) =>
               IF r.pc = "idle" THEN Settled(rows, used)
               ELSE Planned(r, rows, reqs, lastId, used, versioned)
    PROVE  Serial'
  <1>1. p \in Active
    BY Zenon DEF Active
  <1>2. \A q \in Active : q = p
    BY <1>1, Zenon DEF Serial
  <1>3. Planned(proc[p], rows, reqs, lastId, used, versioned) /\ Ordered(rows, reqs, lastId)
    BY <1>1, Zenon DEF Serial
  <1>4. /\ Ordered(rows', reqs', lastId')
        /\ r.pc = "idle" => Settled(rows', used')
        /\ r.pc # "idle" => Planned(r, rows', reqs', lastId', used', versioned')
    BY <1>3, Zenon
  <1> QED BY <1>2, <1>4, SerialMoves, Zenon

\* The only operation goes on with other rows.
LEMMA SerialChanges ==
    ASSUME Shape, Serial, NEW p \in Procs, proc[p].pc # "idle", NEW r,
           proc' = [proc EXCEPT ![p] = r], Ordered(rows', reqs', lastId'),
           r.pc # "idle", Planned(r, rows', reqs', lastId', used', versioned')
    PROVE  Serial'
  <1>1. p \in Active
    BY Zenon DEF Active
  <1>2. \A q \in Active : q = p
    BY <1>1, Zenon DEF Serial
  <1> QED BY <1>2, SerialMoves, Zenon

\* What Shape and Serial say about numbers, for citing.
LEMMA Numbers ==
    ASSUME Shape, Serial
    PROVE  /\ reqs \in Nat /\ lastId \in Nat /\ lastId <= reqs /\ Sized(rows)
           /\ \A S \in SUBSET Ids : Usage(rows, S) \in Nat
           /\ \A i \in Present(rows) : i \in Ids /\ rows[i].up \in Nat
  <1>1. reqs \in Nat /\ lastId \in Nat /\ lastId <= reqs /\ Sized(rows)
    BY DEF Shape, Serial, Ordered
  <1>2. \A S \in SUBSET Ids : Usage(rows, S) \in Nat
    BY <1>1, UsageNat, Zenon
  <1>3. \A i \in Present(rows) : i \in Ids /\ rows[i].up \in Nat
    BY <1>1, Zenon DEF Present, Sized
  <1> QED BY <1>1, <1>2, <1>3, Zenon

\* An upload starts.
LEMMA PutStartSerial ==
    ASSUME Shape, Serial, NEW p \in Procs, PutStart(p), ~disturbed'
    PROVE  Serial'
  <1>1. PICK r : r = [Idle EXCEPT !.op = "put", !.pc = "usage", !.up = reqs + 1]
    BY Zenon
  <1>2. r.pc = "usage" /\ r.up = reqs + 1 /\ r.owed = 0
    BY <1>1, Zenon DEF Idle
  <1>3. /\ Start(p, r) /\ rows' = rows /\ lastId' = lastId /\ used' = used
        /\ versioned' = versioned /\ reqs' = reqs + 1
    BY <1>1, Zenon DEF PutStart, NewRequest, state
  <1>4. ASSUME Settled(rows, used) PROVE Planned(r, rows, reqs + 1, lastId, used, versioned)
    <2>1. lastId < reqs + 1 /\ \A i \in Present(rows) : rows[i].up < reqs + 1
      BY Numbers DEF Serial, Ordered
    <2> QED BY <1>2, <1>4, <2>1 DEF Planned
  <1>5. Settled(rows, used) => Planned(r, rows, reqs', lastId, used, versioned)
    BY <1>3, <1>4, Zenon
  <1> HIDE DEF Start
  <1> QED BY <1>2, <1>3, <1>5, SerialStarts, Zenon

\* A soft deletion, by a request or by lifecycle, starts with the live row's
\* size to subtract.
LEMMA SoftDeleteStartSerial ==
    ASSUME Shape, Serial, NEW p \in Procs, ~disturbed',
           NEW o, Start(p, [Idle EXCEPT !.op = o, !.pc = "soft", !.owed = -Usage(rows, Live(rows))]),
           rows' = rows, lastId' = lastId, used' = used, versioned' = versioned,
           reqs' \in {reqs, reqs + 1}
    PROVE  Serial'
  <1>1. PICK r : r = [Idle EXCEPT !.op = o, !.pc = "soft", !.owed = -Usage(rows, Live(rows))]
    BY Zenon
  <1>2. r.pc = "soft" /\ r.owed = -Usage(rows, Live(rows))
    BY <1>1, Zenon DEF Idle
  <1>3. Start(p, r)
    BY <1>1, Zenon
  <1>4. r.owed \in Int
    <2>1. Live(rows) \in SUBSET Ids
      BY Zenon DEF Live, InState
    <2> QED BY <1>2, <2>1, Numbers
  <1>5. Settled(rows, used) => Planned(r, rows, reqs', lastId, used, versioned)
    BY <1>2, <1>4, Zenon DEF Planned
  <1> QED BY <1>2, <1>3, <1>5, SerialStarts, Zenon

\* A hard deletion starts with the live row's size to subtract.
LEMMA HardDeleteStartSerial ==
    ASSUME Shape, Serial, NEW p \in Procs, HardDeleteStart(p), ~disturbed'
    PROVE  Serial'
  <1>1. PICK r : r = [Idle EXCEPT !.op = "hard", !.pc = "list",
                          !.todo = {<<i, rows[i].key>> : i \in Live(rows)},
                          !.owed = -Usage(rows, Live(rows))]
    BY Zenon
  <1>2. r.pc = "list" /\ r.op = "hard" /\ r.owed = -Usage(rows, Live(rows))
    BY <1>1, Zenon DEF Idle
  <1>3. /\ Start(p, r) /\ rows' = rows /\ lastId' = lastId /\ used' = used
        /\ versioned' = versioned /\ reqs' \in {reqs, reqs + 1}
    BY <1>1, Zenon DEF HardDeleteStart, NewRequest, state
  <1>4. r.owed \in Int
    <2>1. Live(rows) \in SUBSET Ids
      BY Zenon DEF Live, InState
    <2> QED BY <1>2, <2>1, Numbers
  <1>5. Settled(rows, used) => Planned(r, rows, reqs', lastId, used, versioned)
    BY <1>2, <1>4, Zenon DEF Planned
  <1> QED BY <1>2, <1>3, <1>5, SerialStarts, Zenon

\* The removal of a version starts with that version's size to subtract.
LEMMA DeleteVersionStartSerial ==
    ASSUME Shape, Serial, NEW p \in Procs, NEW i \in Ids, DeleteVersionStart(p, i), ~disturbed'
    PROVE  Serial'
  <1>1. PICK r : r = [Idle EXCEPT !.op = "version", !.pc = "blobs", !.up = rows[i].up,
                          !.todo = {<<i, rows[i].key>>}, !.owed = -Usage(rows, {i})]
    BY Zenon
  <1>2. r.pc = "blobs" /\ r.op = "version" /\ r.up = rows[i].up /\ r.owed = -Usage(rows, {i})
    BY <1>1, Zenon DEF Idle
  <1>3. /\ Start(p, r) /\ rows' = rows /\ lastId' = lastId /\ used' = used
        /\ versioned' = versioned /\ reqs' \in {reqs, reqs + 1} /\ i \in Present(rows)
    BY <1>1, Zenon DEF DeleteVersionStart, NewRequest, state
  <1>4. r.owed \in Int
    BY <1>2, Numbers
  <1>5. \A j \in GetObjectVersion(rows, r.up) : r.owed = -Usage(rows, {j})
    <2> SUFFICES ASSUME NEW j \in GetObjectVersion(rows, r.up) PROVE j = i
      BY <1>2, Zenon
    <2> QED BY <1>2, <1>3, Zenon DEF GetObjectVersion, Serial, Ordered
  <1>6. Settled(rows, used) => Planned(r, rows, reqs', lastId, used, versioned)
    BY <1>2, <1>4, <1>5, Zenon DEF Planned
  <1> QED BY <1>2, <1>3, <1>6, SerialStarts, Zenon

\* A restore starts with the size of the row it is going to bring back.
LEMMA RestoreStartSerial ==
    ASSUME Shape, Serial, NEW p \in Procs, RestoreStart(p), ~disturbed'
    PROVE  Serial'
  <1>1. PICK m : m = Max(InState(rows, "deleted"))
    BY Zenon
  <1>2. PICK r : r = [Idle EXCEPT !.op = "restore", !.pc = "restore", !.owed = rows[m].up]
    BY Zenon
  <1>3. r.pc = "restore" /\ r.owed = rows[m].up
    BY <1>2, Zenon DEF Idle
  <1>4. /\ Start(p, r) /\ rows' = rows /\ lastId' = lastId /\ used' = used
        /\ versioned' = versioned /\ reqs' \in {reqs, reqs + 1}
        /\ InState(rows, "deleted") # {} /\ ~IsDeleteMarker(rows[m]) /\ WithinQuota(rows[m].up)
    BY <1>1, <1>2, Zenon DEF RestoreStart, NewRequest, state
  <1>5. r.owed \in Nat
    <2>1. InState(rows, "deleted") \in SUBSET Ids
      BY Zenon DEF InState
    <2>2. m \in Ids
      BY <1>1, <1>4, <2>1, MaxIn, Zenon
    <2> QED BY <1>3, <2>2, Numbers, Zenon DEF Sized
  <1>6. ASSUME Settled(rows, used) PROVE Planned(r, rows, reqs', lastId, used, versioned)
    <2>1. used \in Nat /\ WithinBytes(used)
      BY <1>6, Numbers, Zenon DEF Settled
    <2>2. WithinBytes(used + r.owed)
      BY <1>3, <1>4, <1>5, <2>1, FileServiceAssumption DEF WithinBytes, WithinQuota
    <2> QED BY <1>1, <1>3, <1>4, <1>5, <1>6, <2>2 DEF Planned, IsDeleteMarker
  <1> QED BY <1>3, <1>4, <1>6, SerialStarts, Zenon

\* A sweep selects its rows.
LEMMA SweepSerial ==
    ASSUME Shape, Serial, NEW s \in Procs, Sweep(s), ~disturbed'
    PROVE  Serial'
  <1>1. ASSUME NEW r, Take(s, r)
        PROVE  /\ Start(s, r) /\ rows' = rows /\ lastId' = lastId /\ used' = used
               /\ versioned' = versioned /\ reqs' \in {reqs, reqs + 1}
    BY <1>1, Zenon DEF Take, state
  <1>2. CASE Purge(s)
    <2>1. PICK r : r = [Idle EXCEPT !.op = "purge", !.pc = "recheck", !.todo = Versions,
                            !.owed = -Usage(rows, Present(rows))]
      BY Zenon
    <2>2. r.op = "purge" /\ r.pc = "recheck" /\ r.owed = -Usage(rows, Present(rows))
      BY <2>1, Zenon DEF Idle
    <2>3. Take(s, r)
      BY <1>2, <2>1, Zenon DEF Purge
    <2>4. r.owed \in Int
      <3>1. Present(rows) \in SUBSET Ids
        BY Zenon DEF Present
      <3> QED BY <2>2, <3>1, Numbers
    <2>5. Settled(rows, used) => Planned(r, rows, reqs', lastId, used, versioned)
      BY <2>2, <2>4, Zenon DEF Planned
    <2> QED BY <1>1, <2>2, <2>3, <2>5, SerialStarts, Zenon
  <1>3. ASSUME NEW i \in Ids, TakeVersion(s, i) PROVE Serial'
    <2>1. PICK r : r = [Idle EXCEPT !.op = "expire", !.pc = "recheck", !.id = i,
                            !.todo = {<<i, rows[i].key>>}, !.owed = -Usage(rows, {i})]
      BY Zenon
    <2>2. r.op = "expire" /\ r.pc = "recheck" /\ r.id = i /\ r.owed = -Usage(rows, {i})
      BY <2>1, Zenon DEF Idle
    <2>3. Take(s, r)
      BY <1>3, <2>1, Zenon DEF TakeVersion
    <2>4. r.owed \in Int
      BY <2>2, Numbers
    <2>5. Settled(rows, used) => Planned(r, rows, reqs', lastId, used, versioned)
      BY <2>2, <2>4, Zenon DEF Planned
    <2> QED BY <1>1, <2>2, <2>3, <2>5, SerialStarts, Zenon
  <1>4. CASE ExpireSoft(s) \/ OrphanRow(s)
    <2>1. PICK o : Take(s, [Idle EXCEPT !.op = o, !.pc = "soft",
                                        !.owed = -Usage(rows, Live(rows))])
      BY <1>4, Zenon DEF ExpireSoft, OrphanRow
    <2> QED BY <1>1, <2>1, SoftDeleteStartSerial, Zenon
  <1>5. CASE CollectReferenced(s)
    <2>1. PICK r : r = [Idle EXCEPT !.op = "scan", !.pc = "list", !.todo = {0} \X ReferencedKeys]
      BY Zenon
    <2>2. r.pc = "list" /\ r.op = "scan" /\ r.owed = 0
      BY <2>1, Zenon DEF Idle
    <2>3. Take(s, r)
      BY <1>5, <2>1, Zenon DEF CollectReferenced
    <2>4. Settled(rows, used) => Planned(r, rows, reqs', lastId, used, versioned)
      BY <2>2 DEF Planned
    <2> QED BY <1>1, <2>2, <2>3, <2>4, SerialStarts, Zenon
  <1>6. ASSUME NEW i, i \in Live(rows) \/ i \in InState(rows, "tombstone") PROVE i \in Ids
    BY <1>6, Zenon DEF Live, InState
  <1> QED BY <1>2, <1>3, <1>4, <1>5, <1>6, Zenon DEF Sweep, ExpireHard, PurgeNonCurrent

\* Row k is written, by version v; the others stay or go.
Writes(t, u, k, v) ==
    /\ u[k].up = v
    /\ \A i \in Present(u) : i # k => i \in Present(t) /\ u[i].up = t[i].up

\* A row for the newest version keeps the rows in order.
LEMMA OrderedWrite ==
    ASSUME NEW t, NEW u, NEW n \in Nat, NEW m \in Nat, NEW l \in Nat, NEW g \in Nat,
           NEW k \in Ids, NEW v \in Nat, Ordered(t, n, l), Sized(u), Writes(t, u, k, v),
           \A i \in Present(t) : t[i].up < v, v <= m, k <= g, l <= g, g <= m
    PROVE  Ordered(u, m, g)
  <1>1. \A i \in Present(u) : i \in Int /\ u[i].up \in Int
    BY DEF Present, Ids, Sized
  <1>2. \A i \in Present(t) : i <= l /\ i \in Int
    BY DEF Ordered, Present, Ids
  <1>3. \A i \in Present(u) : i # k => i <= l /\ u[i].up < v
    BY <1>2, Zenon DEF Writes
  <1>4. \A i \in Present(u) : i <= g /\ u[i].up <= m
    BY <1>1, <1>3 DEF Ids, Writes
  <1>5. ASSUME NEW i \in Present(u), NEW j \in Present(u), u[i].up = u[j].up
        PROVE  i = j
    <2>1. CASE i # k /\ j # k
      BY <1>5, <2>1, Zenon DEF Ordered, Writes
    <2>2. CASE i = k \/ j = k
      BY <1>1, <1>3, <1>5, <2>2 DEF Writes
    <2> QED BY <2>1, <2>2, Zenon
  <1> QED BY <1>4, <1>5, Zenon DEF Ordered

\* A transaction that adds no row keeps the rows in order.
LEMMA OrderedShrinks ==
    ASSUME NEW t, NEW u, NEW n, NEW l, Ordered(t, n, l), Sized(u), Shrinks(t, u)
    PROVE  Ordered(u, n, l)
  BY Zenon DEF Ordered, Shrinks

\* The rows an inserted version leaves.
LEMMA InsertRest ==
    ASSUME NEW t, NEW k \in Ids, NEW r
    PROVE  Writes(t, InsertVersion(t, k, r), k, r.up)
  <1> DEFINE u == InsertVersion(t, k, r)
  <1>1. u[k] = r
    BY Zenon DEF InsertVersion, SetState
  <1>2. ASSUME NEW i \in Ids, i # k
        PROVE  u[i].up = t[i].up /\ (u[i].st # "none" => t[i].st # "none")
    BY <1>2, Zenon DEF InsertVersion, SetState, WithState, Live, InState
  <1> HIDE DEF u
  <1>3. \A i \in Present(u) : i # k => i \in Present(t) /\ u[i].up = t[i].up
    BY <1>2, Zenon DEF Present
  <1> QED BY <1>1, <1>3, Zenon DEF Writes, u

\* What writing the row of an upload does to a table of at most one live row.
LEMMA UpsertRest ==
    ASSUME NEW t, IsTable(t), AtMostOneLive(t), NEW k \in Ids, NEW r, r.st = "live"
    PROVE  /\ Live(t) = {} => Writes(t, UpsertObject(t, k, r), k, r.up)
                              /\ k \in Present(UpsertObject(t, k, r))
           /\ \A j \in Live(t) : Writes(t, UpsertObject(t, k, r), j, r.up)
                                 /\ j \in Present(UpsertObject(t, k, r))
  <1> DEFINE u == UpsertObject(t, k, r)
  <1>1. ASSUME Live(t) = {} PROVE Writes(t, u, k, r.up) /\ k \in Present(u)
    <2>1. u[k] = r /\ \A i \in Ids : i # k => u[i] = t[i]
      BY <1>1, Zenon DEF UpsertObject, IsTable
    <2> HIDE DEF u
    <2> QED BY <2>1, Zenon DEF Writes, Present
  <1>2. ASSUME NEW j \in Live(t) PROVE Writes(t, u, j, r.up) /\ j \in Present(u)
    <2>1. \A i \in Live(t) : i = j
      BY Zenon DEF AtMostOneLive
    <2>2. j \in Ids /\ t[j].st = "live" /\ Live(t) # {}
      BY Zenon DEF Live, InState
    <2>3. u[j].up = r.up /\ u[j].st = "live" /\ \A i \in Ids : i # j => u[i] = t[i]
      BY <2>1, <2>2, Zenon DEF UpsertObject, Overwritten
    <2> HIDE DEF u
    <2> QED BY <2>2, <2>3, Zenon DEF Writes, Present
  <1> QED BY <1>1, <1>2, Zenon

\* writePutObject inserts a version or overwrites the live row: what the
\* upload owes is what the rows gained.
LEMMA PutRowSerial ==
    ASSUME Shape, Good(rows), Serial, NEW p \in Procs, PutRow(p)
    PROVE  Serial'
  <1>0. proc[p].pc = "row" /\ reqs' = reqs /\ used' = used /\ versioned' = versioned
    BY Zenon DEF PutRow
  <1>1. p \in Active
    BY <1>0, Zenon DEF Active
  <1>2. Planned(proc[p], rows, reqs, lastId, used, versioned) /\ Ordered(rows, reqs, lastId)
    BY <1>1, Zenon DEF Serial
  <1>3. PICK v : v = proc[p].up
    BY Zenon
  <1>4. PICK r : r = [st |-> "live", up |-> v, key |-> StorageKey(v), holds |-> {}]
    BY Zenon
  <1>5. PICK saved : saved = IF versioned \/ Live(rows) = {} THEN lastId + 1
                             ELSE CHOOSE i \in Live(rows) : TRUE
    BY Zenon
  <1>6. /\ rows' = IF versioned THEN InsertVersion(rows, lastId + 1, r)
                   ELSE UpsertObject(rows, lastId + 1, r)
        /\ lastId' = IF saved > lastId THEN saved ELSE lastId
        /\ \E pc \in {"hold", "account"} :
              proc' = [proc EXCEPT ![p] = [@ EXCEPT !.pc = pc, !.id = saved]]
    BY <1>3, <1>4, <1>5, Zenon DEF PutRow
  <1>7. PICK q : /\ q.pc \in {"hold", "account"} /\ q.id = saved /\ q.owed = proc[p].owed
                 /\ proc' = [proc EXCEPT ![p] = q]
    <2>1. PICK pc \in {"hold", "account"} :
                  proc' = [proc EXCEPT ![p] = [@ EXCEPT !.pc = pc, !.id = saved]]
      BY <1>6, Zenon
    <2>2. PICK q : q = [proc[p] EXCEPT !.pc = pc, !.id = saved]
      BY Zenon
    <2>3. q.pc = pc /\ q.id = saved /\ q.owed = proc[p].owed
      BY <2>2, Zenon DEF Shape, Fields
    <2>4. proc' = [proc EXCEPT ![p] = q]
      BY <2>1, <2>2, Zenon
    <2> QED BY <2>1, <2>3, <2>4, Zenon
  <1>8. /\ v = reqs /\ lastId < reqs /\ \A i \in Present(rows) : rows[i].up < v
        /\ q.owed = (IF versioned THEN v ELSE v - Usage(rows, Live(rows)))
        /\ WithinBytes(used + q.owed) /\ used = Usage(rows, Ids) /\ q.owed \in Int
    BY <1>0, <1>2, <1>3, <1>7, Zenon DEF Planned, Settled
  <1>9. r.st = "live" /\ r.up = v /\ Size(r) = v /\ Weight(r) = v
    <2>1. StorageKey(v) # NoKey
      BY <1>8, Numbers DEF StorageKey, SharedKey, NoKey
    <2> QED BY <1>4, <2>1, Zenon DEF Size, IsDeleteMarker, Weight
  <1>10. PICK k : k = lastId + 1
    BY Zenon
  <1>11. k \in Ids /\ rows[k].st = "none" /\ k \in Nat /\ k <= reqs
    <2>0. reqs \in Nat /\ lastId \in Nat /\ reqs <= MaxReqs
      BY MaxReqsAssumption DEF Shape
    <2>1. k \in Ids
      BY <1>8, <1>10, <2>0, MaxReqsAssumption DEF Ids
    <2>2. k \notin Present(rows)
      <3>1. \A i \in Present(rows) : i <= lastId
        BY <1>2, Zenon DEF Ordered
      <3> QED BY <1>10, <2>0, <3>1
    <2>3. rows[k].st = "none"
      BY <2>1, <2>2, Zenon DEF Present
    <2> QED BY <1>8, <1>10, <2>0, <2>1, <2>3
  <1>12. Usage(rows, Live(rows)) \in Nat /\ Usage(rows, Ids) \in Nat
    BY Numbers, Zenon DEF Live, InState
  <1>13. /\ Sized(rows') /\ Usage(rows', Ids) = used + q.owed
         /\ Writes(rows, rows', saved, v) /\ saved \in Present(rows')
         /\ saved \in Ids /\ saved <= lastId' /\ lastId <= lastId' /\ lastId' <= reqs
         /\ lastId' \in Nat
    <2>1. CASE versioned
      <3>1. rows' = InsertVersion(rows, k, r) /\ saved = k /\ lastId' = k
        BY <1>5, <1>6, <1>10, <2>1, Numbers
      <3>2. /\ Sized(InsertVersion(rows, k, r))
            /\ Usage(InsertVersion(rows, k, r), Ids) = Usage(rows, Ids) + v
        BY <1>8, <1>9, <1>11, Numbers, InsertUsage, Zenon
      <3>3. Writes(rows, InsertVersion(rows, k, r), k, v)
        BY <1>9, <1>11, InsertRest, Zenon
      <3>4. k \in Present(InsertVersion(rows, k, r))
        BY <1>9, <1>11, Zenon DEF InsertVersion, SetState, Present
      <3>5. lastId <= k
        BY <1>10, Numbers
      <3> QED BY <1>8, <1>11, <1>12, <2>1, <3>1, <3>2, <3>3, <3>4, <3>5
    <2>2. CASE ~versioned
      <3>0. PICK u : u = UpsertObject(rows, k, r)
        BY Zenon
      <3>1. rows' = u
        BY <1>6, <1>10, <2>2, <3>0, Zenon
      <3>2. Sized(u) /\ Usage(u, Ids) = Usage(rows, Ids) - Usage(rows, Live(rows)) + v
        BY <1>8, <1>9, <1>11, <3>0, Numbers, UpsertUsage, Zenon DEF Good
      <3>3. Usage(u, Ids) = used + q.owed
        BY <1>8, <1>12, <2>2, <3>2, Numbers
      <3>4. CASE Live(rows) = {}
        <4>1. saved = k /\ lastId' = k /\ lastId <= k
          BY <1>5, <1>6, <1>10, <3>4, Numbers
        <4>2. Writes(rows, u, k, v) /\ k \in Present(u)
          BY <1>9, <1>11, <3>0, <3>4, UpsertRest, Zenon DEF Good
        <4> QED BY <1>11, <3>1, <3>2, <3>3, <4>1, <4>2
      <3>5. CASE Live(rows) # {}
        <4>1. saved \in Live(rows)
          BY <1>5, <2>2, <3>5, Zenon
        <4>2. Writes(rows, u, saved, v) /\ saved \in Present(u)
          BY <1>9, <1>11, <3>0, <4>1, UpsertRest, Zenon DEF Good
        <4>3. saved \in Ids /\ saved <= lastId /\ saved \in Int
          BY <1>2, <4>1 DEF Ordered, Present, Live, InState, Ids
        <4>4. lastId' = lastId
          BY <1>6, <4>3, Numbers
        <4> QED BY <1>8, <3>1, <3>2, <3>3, <4>2, <4>3, <4>4, Numbers
      <3> QED BY <3>4, <3>5, Zenon
    <2> QED BY <2>1, <2>2, Zenon
  <1>14. Ordered(rows', reqs, lastId')
    <2>1. v \in Nat /\ reqs \in Nat /\ lastId \in Nat /\ v <= reqs
      BY <1>8, Numbers
    <2> QED BY <1>2, <1>8, <1>13, <2>1, OrderedWrite, Zenon
  <1>15. Settled(rows', used + q.owed)
    BY <1>8, <1>13, Zenon DEF Settled
  <1>16. Planned(q, rows', reqs, lastId', used, versioned)
    BY <1>7, <1>8, <1>13, <1>15, Zenon DEF Planned
  <1>17. Planned(q, rows', reqs', lastId', used', versioned') /\ Ordered(rows', reqs', lastId')
    BY <1>0, <1>14, <1>16, Zenon
  <1>18. proc[p].pc # "idle" /\ q.pc # "idle"
    BY <1>0, <1>7, Zenon
  <1> QED BY <1>7, <1>17, <1>18, SerialChanges, Zenon

\* A delete marker hides the live row, which goes on counting.
LEMMA CreateDeleteMarkerSerial ==
    ASSUME Shape, Serial, NEW p \in Procs, CreateDeleteMarker(p), ~disturbed'
    PROVE  Serial'
  <1>1. Quiet /\ proc' = proc
    BY Zenon DEF CreateDeleteMarker
  <1>2. PICK r : r = [st |-> "deleted", up |-> reqs + 1, key |-> NoKey, holds |-> {}]
    BY Zenon
  <1>3. r.st = "deleted" /\ r.up = reqs + 1 /\ r.key = NoKey
    BY <1>2, Zenon
  <1>4. /\ rows' = InsertVersion(rows, lastId + 1, r) /\ lastId' = lastId + 1
        /\ reqs < MaxReqs /\ reqs' = reqs + 1 /\ used' = used
    BY <1>2, Zenon DEF CreateDeleteMarker, NewRequest
  <1>5. lastId + 1 \in Ids /\ rows[lastId + 1].st = "none" /\ r.up \in Nat
    <2>1. lastId + 1 \in Ids
      BY <1>4, Numbers, MaxReqsAssumption DEF Ids
    <2>2. lastId + 1 \notin Present(rows)
      BY Numbers DEF Serial, Ordered
    <2> QED BY <1>3, <2>1, <2>2, Numbers DEF Present
  <1>6. Sized(rows') /\ Usage(rows', Ids) = Usage(rows, Ids) + Weight(r)
    BY <1>3, <1>4, <1>5, Numbers, InsertUsage, Zenon
  <1>7. Weight(r) = 0
    BY <1>3, Zenon DEF Weight
  <1>8. Ordered(rows', reqs', lastId')
    <2>1. PICK k, m : k = lastId + 1 /\ m = reqs + 1
      BY Zenon
    <2>2. Writes(rows, rows', k, m)
      <3>1. Writes(rows, InsertVersion(rows, k, r), k, r.up)
        BY <1>5, <2>1, InsertRest, Zenon
      <3> QED BY <1>3, <1>4, <2>1, <3>1, Zenon
    <2>3. \A i \in Present(rows) : rows[i].up < m
      BY <2>1, Numbers DEF Serial, Ordered
    <2>4. Ordered(rows, reqs, lastId)
      BY Zenon DEF Serial
    <2>5. m \in Nat /\ k \in Nat /\ lastId <= k /\ k <= m /\ m <= m /\ k <= k /\ k \in Ids
      BY <1>5, <2>1, Numbers
    <2>6. Ordered(rows', m, k)
      BY <1>6, <2>2, <2>3, <2>4, <2>5, Numbers, OrderedWrite, Zenon
    <2> QED BY <1>4, <2>1, <2>6, Zenon
  <1>9. Settled(rows', used')
    BY <1>1, <1>4, <1>6, <1>7, Numbers DEF Serial, Settled
  <1>10. Active' = {} /\ Ordered(rows, reqs, lastId)'
    BY <1>1, <1>8, Zenon DEF Quiet, Active, Ordered
  <1> QED BY <1>9, <1>10, Zenon DEF Serial

\* A step that leaves rows and counter alone.
Aside == /\ rows' = rows /\ lastId' = lastId /\ reqs' = reqs
         /\ used' = used /\ versioned' = versioned

\* An operation that has changed no row may stop.
LEMMA StopSerial ==
    ASSUME Shape, Serial, NEW p \in Procs, proc[p].pc \notin {"idle", "hold", "account"},
           proc' = [proc EXCEPT ![p] = Idle], Aside
    PROVE  Serial'
  <1>1. Planned(proc[p], rows, reqs, lastId, used, versioned) => Settled(rows, used)
    BY Zenon DEF Planned
  <1>2. Idle.pc = "idle"
    BY Zenon DEF Idle
  <1> QED BY <1>1, <1>2, SerialStays, Zenon DEF Aside

\* The next step of a removal or a scan that has nothing new to account for.
LEMMA OnwardSerial ==
    ASSUME Shape, Serial, NEW p \in Procs, NEW r, proc' = [proc EXCEPT ![p] = r], Aside,
           r.op = proc[p].op, r.up = proc[p].up, r.id = proc[p].id, r.owed = proc[p].owed,
           \/ proc[p].pc \in {"recheck", "blobs"} /\ r.pc \in {"recheck", "blobs"}
           \/ proc[p].pc \in {"list", "delete"} /\ r.pc = "delete"
           \/ proc[p].pc = "blob" /\ r.pc = "row"
    PROVE  Serial'
  <1>1. ASSUME Planned(proc[p], rows, reqs, lastId, used, versioned)
        PROVE  Planned(r, rows, reqs, lastId, used, versioned)
    <2>1. CASE proc[p].pc \in {"recheck", "blobs"} /\ r.pc \in {"recheck", "blobs"}
      BY <1>1, <2>1, Zenon DEF Planned
    <2>2. CASE proc[p].pc \in {"list", "delete"} /\ r.pc = "delete"
      BY <1>1, <2>2, Zenon DEF Planned
    <2>3. CASE proc[p].pc = "blob" /\ r.pc = "row"
      BY <1>1, <2>3, Zenon DEF Planned
    <2> QED BY <2>1, <2>2, <2>3, Zenon
  <1>2. proc[p].pc # "idle" /\ r.pc # "idle"
    BY Zenon
  <1> QED BY <1>1, <1>2, SerialStays, Zenon DEF Aside

\* checkQuota works out what the upload owes, and refuses what would exceed
\* the quota.
LEMMA PutUsageSerial ==
    ASSUME Shape, Serial, NEW p \in Procs, PutUsage(p)
    PROVE  Serial'
  <1>0. proc[p].pc = "usage" /\ Aside
    BY Zenon DEF PutUsage, Goto, Stop, Aside, state
  <1>1. PICK d : d = PutDelta(proc[p].up)
    BY Zenon
  <1>2. \/ WithinQuota(d) /\ proc' = [proc EXCEPT ![p] = [proc[p] EXCEPT !.pc = "blob", !.owed = d]]
        \/ proc' = [proc EXCEPT ![p] = Idle]
    BY <1>1, Zenon DEF PutUsage, Goto, Stop
  <1>3. CASE proc' = [proc EXCEPT ![p] = Idle]
    BY <1>0, <1>3, StopSerial, Zenon
  <1>4. CASE WithinQuota(d) /\ proc' = [proc EXCEPT ![p] = [proc[p] EXCEPT !.pc = "blob", !.owed = d]]
    <2>1. PICK r : r = [proc[p] EXCEPT !.pc = "blob", !.owed = d]
      BY Zenon
    <2>2. r.pc = "blob" /\ r.owed = d /\ r.up = proc[p].up
      BY <2>1, Zenon DEF Shape, Fields
    <2>3. ASSUME Planned(proc[p], rows, reqs, lastId, used, versioned)
          PROVE  Planned(r, rows, reqs, lastId, used, versioned)
      <3>1. /\ proc[p].up = reqs /\ lastId < reqs /\ Settled(rows, used)
            /\ \A i \in Present(rows) : rows[i].up < reqs
        BY <1>0, <2>3, Zenon DEF Planned
      <3>2. Live(rows) \in SUBSET Ids
        BY Zenon DEF Live, InState
      <3>3. d = (IF versioned THEN r.up ELSE r.up - Usage(rows, Live(rows))) /\ d \in Int
        BY <1>1, <2>2, <3>1, <3>2, Numbers DEF PutDelta
      <3>4. used \in Nat /\ WithinBytes(used)
        BY <3>1, Numbers, Zenon DEF Settled
      <3>5. WithinBytes(used + d)
        BY <1>4, <3>3, <3>4, FileServiceAssumption DEF WithinBytes, WithinQuota
      <3> QED BY <2>2, <3>1, <3>3, <3>5, Zenon DEF Planned
    <2>4. proc' = [proc EXCEPT ![p] = r]
      BY <1>4, <2>1, Zenon
    <2> QED BY <1>0, <2>2, <2>3, <2>4, SerialStays, Zenon DEF Aside
  <1> QED BY <1>2, <1>3, <1>4, Zenon

\* The upload's blob is written.
LEMMA PutBlobSerial ==
    ASSUME Shape, Serial, NEW p \in Procs, PutBlob(p)
    PROVE  Serial'
  <1>0. proc[p].pc = "blob" /\ Aside
    BY Zenon DEF PutBlob, Goto, Stop, Aside
  <1>1. PICK r : r = [proc[p] EXCEPT !.pc = "row"]
    BY Zenon
  <1>2. proc' = [proc EXCEPT ![p] = r] \/ proc' = [proc EXCEPT ![p] = Idle]
    BY <1>1, Zenon DEF PutBlob, Goto, Stop
  <1>3. r.op = proc[p].op /\ r.up = proc[p].up /\ r.id = proc[p].id /\ r.owed = proc[p].owed
        /\ r.pc = "row"
    BY <1>1, Zenon DEF Shape, Fields
  <1>4. CASE proc' = [proc EXCEPT ![p] = r]
    BY <1>0, <1>3, <1>4, OnwardSerial, Zenon
  <1>5. CASE proc' = [proc EXCEPT ![p] = Idle]
    BY <1>0, <1>5, StopSerial, Zenon
  <1> QED BY <1>2, <1>4, <1>5, Zenon

\* A removal or a sweep deletes a blob.
LEMMA DeleteBlobSerial ==
    ASSUME Shape, Serial, NEW p \in Procs, DeleteBlob(p) \/ SweepBlob(p)
    PROVE  Serial'
  <1>0. proc[p].pc = "blobs" /\ Aside
    BY Zenon DEF DeleteBlob, SweepBlob, Goto, Aside
  <1>1. PICK T, G, x : /\ x \in {"recheck", "blobs"}
                       /\ proc' = [proc EXCEPT ![p] = [proc[p] EXCEPT !.pc = x, !.todo = T, !.gone = G]]
    <2>1. CASE DeleteBlob(p)
      <3>1. PICK T, G : proc' = [proc EXCEPT ![p] = [proc[p] EXCEPT !.todo = T, !.gone = G]]
        BY <2>1, Zenon DEF DeleteBlob, Goto
      <3>2. [proc[p] EXCEPT !.todo = T, !.gone = G]
              = [proc[p] EXCEPT !.pc = "blobs", !.todo = T, !.gone = G]
        BY <1>0, Zenon DEF Shape, Fields
      <3> QED BY <3>1, <3>2, Zenon
    <2>2. CASE SweepBlob(p)
      <3>1. PICK T, G : proc' = [proc EXCEPT ![p] = [proc[p] EXCEPT !.pc = "recheck", !.todo = T, !.gone = G]]
        BY <2>2, Zenon DEF SweepBlob, Goto
      <3> QED BY <3>1, Zenon
    <2> QED BY <2>1, <2>2, Zenon
  <1>2. PICK r : r = [proc[p] EXCEPT !.pc = x, !.todo = T, !.gone = G]
    BY Zenon
  <1>3. /\ r.op = proc[p].op /\ r.up = proc[p].up /\ r.id = proc[p].id /\ r.owed = proc[p].owed
        /\ r.pc = x
    BY <1>2, Zenon DEF Shape, Fields
  <1>4. proc' = [proc EXCEPT ![p] = r]
    BY <1>1, <1>2, Zenon
  <1> QED BY <1>0, <1>1, <1>3, <1>4, OnwardSerial, Zenon

\* A sweep checks protection again.
LEMMA RecheckSerial ==
    ASSUME Shape, Serial, NEW p \in Procs, Recheck(p)
    PROVE  Serial'
  <1>0. proc[p].pc = "recheck" /\ Aside
    BY Zenon DEF Recheck, Goto, Stop, Aside, state
  <1>1. PICK r : r = [proc[p] EXCEPT !.pc = "blobs"]
    BY Zenon
  <1>2. proc' = [proc EXCEPT ![p] = r] \/ proc' = [proc EXCEPT ![p] = Idle]
    BY <1>1, Zenon DEF Recheck, Goto, Stop
  <1>3. r.op = proc[p].op /\ r.up = proc[p].up /\ r.id = proc[p].id /\ r.owed = proc[p].owed
        /\ r.pc = "blobs"
    BY <1>1, Zenon DEF Shape, Fields
  <1>4. CASE proc' = [proc EXCEPT ![p] = r]
    BY <1>0, <1>3, <1>4, OnwardSerial, Zenon
  <1>5. CASE proc' = [proc EXCEPT ![p] = Idle]
    BY <1>0, <1>5, StopSerial, Zenon
  <1> QED BY <1>2, <1>4, <1>5, Zenon

\* The orphan scan lists and deletes blobs: no row changes.
LEMMA ScanSerial ==
    ASSUME Shape, Serial, NEW p \in Procs, ListBlobs(p) \/ DeleteOrphan(p)
    PROVE  Serial'
  <1>0. proc[p].pc \in {"list", "delete"} /\ Aside
    BY Zenon DEF ListBlobs, DeleteOrphan, Goto, Aside, state
  <1>1. \/ \E T : proc' = [proc EXCEPT ![p] = [proc[p] EXCEPT !.pc = "delete", !.todo = T]]
        \/ proc' = [proc EXCEPT ![p] = Idle]
    <2>1. CASE ListBlobs(p)
      BY <2>1, Zenon DEF ListBlobs, Goto
    <2>2. CASE DeleteOrphan(p)
      <3>1. \/ \E T : proc' = [proc EXCEPT ![p] = [proc[p] EXCEPT !.todo = T]]
            \/ proc' = [proc EXCEPT ![p] = Idle]
        BY <2>2, Zenon DEF DeleteOrphan, Goto
      <3>2. \A T : [proc[p] EXCEPT !.todo = T] = [proc[p] EXCEPT !.pc = "delete", !.todo = T]
        <4>1. proc[p].pc = "delete"
          BY <2>2, Zenon DEF DeleteOrphan
        <4> QED BY <4>1, Zenon DEF Shape, Fields
      <3> QED BY <3>1, <3>2, Zenon
    <2> QED BY <2>1, <2>2, Zenon
  <1>2. ASSUME NEW T, proc' = [proc EXCEPT ![p] = [proc[p] EXCEPT !.pc = "delete", !.todo = T]]
        PROVE  Serial'
    <2>1. PICK r : r = [proc[p] EXCEPT !.pc = "delete", !.todo = T]
      BY Zenon
    <2>2. r.op = proc[p].op /\ r.up = proc[p].up /\ r.id = proc[p].id /\ r.owed = proc[p].owed
          /\ r.pc = "delete"
      BY <2>1, Zenon DEF Shape, Fields
    <2>3. proc' = [proc EXCEPT ![p] = r]
      BY <1>2, <2>1, Zenon
    <2> QED BY <1>0, <2>2, <2>3, OnwardSerial, Zenon
  <1>3. CASE proc' = [proc EXCEPT ![p] = Idle]
    BY <1>0, <1>3, StopSerial, Zenon
  <1> QED BY <1>1, <1>2, <1>3, Zenon

\* A hard deletion reads the versions it is going to remove.
LEMMA HardDeleteListSerial ==
    ASSUME Shape, Serial, NEW p \in Procs, HardDeleteList(p)
    PROVE  Serial'
  <1>0. proc[p].pc = "list" /\ Aside
    BY Zenon DEF HardDeleteList, Goto, Stop, Aside, state
  <1>1. PICK T : T = Versions
    BY Zenon
  <1>2. \/ proc' = [proc EXCEPT ![p] = Idle]
        \/ Present(rows) = {} /\ proc' = [proc EXCEPT ![p] = [proc[p] EXCEPT !.pc = "blobs"]]
        \/ proc' = [proc EXCEPT ![p] = [proc[p] EXCEPT !.pc = "blobs", !.todo = T,
                                                       !.owed = -Usage(rows, Present(rows))]]
    BY <1>1, Zenon DEF HardDeleteList, Goto, Stop
  <1>3. CASE proc' = [proc EXCEPT ![p] = Idle]
    BY <1>0, <1>3, StopSerial, Zenon
  <1>4. Present(rows) \in SUBSET Ids /\ -Usage(rows, Present(rows)) \in Int
    <2>1. Present(rows) \in SUBSET Ids
      BY Zenon DEF Present
    <2> QED BY <2>1, Numbers
  <1>5. ASSUME NEW r, r.pc = "blobs", r.owed = proc[p].owed \/ r.owed \in Int, r.op = proc[p].op,
               Present(rows) = {} \/ r.owed = -Usage(rows, Present(rows)),
               proc' = [proc EXCEPT ![p] = r]
        PROVE  Serial'
    <2>1. Planned(proc[p], rows, reqs, lastId, used, versioned)
            => Planned(r, rows, reqs, lastId, used, versioned)
      BY <1>0, <1>5, Zenon DEF Planned
    <2> QED BY <1>0, <1>5, <2>1, SerialStays, Zenon DEF Aside
  <1>6. CASE Present(rows) = {} /\ proc' = [proc EXCEPT ![p] = [proc[p] EXCEPT !.pc = "blobs"]]
    <2>1. PICK r : r = [proc[p] EXCEPT !.pc = "blobs"]
      BY Zenon
    <2>2. r.pc = "blobs" /\ r.owed = proc[p].owed /\ r.op = proc[p].op
      BY <2>1, Zenon DEF Shape, Fields
    <2>3. proc' = [proc EXCEPT ![p] = r]
      BY <1>6, <2>1, Zenon
    <2> QED BY <1>5, <1>6, <2>2, <2>3, Zenon
  <1>7. CASE proc' = [proc EXCEPT ![p] = [proc[p] EXCEPT !.pc = "blobs", !.todo = T,
                                                          !.owed = -Usage(rows, Present(rows))]]
    <2>1. PICK r : r = [proc[p] EXCEPT !.pc = "blobs", !.todo = T, !.owed = -Usage(rows, Present(rows))]
      BY Zenon
    <2>2. r.pc = "blobs" /\ r.owed = -Usage(rows, Present(rows)) /\ r.op = proc[p].op
      BY <2>1, Zenon DEF Shape, Fields
    <2>3. proc' = [proc EXCEPT ![p] = r]
      BY <1>7, <2>1, Zenon
    <2> QED BY <1>4, <1>5, <2>2, <2>3, Zenon
  <1> QED BY <1>2, <1>3, <1>6, <1>7, Zenon

\* The rows have changed as planned; what is left is the accounting.
LEMMA DoneSerial ==
    ASSUME Shape, Serial, NEW p \in Procs, proc[p].pc \notin {"idle", "hold", "account"}, NEW r,
           proc' = [proc EXCEPT ![p] = r], r.pc = "account", r.owed = proc[p].owed,
           NEW u, rows' = u, Sized(u), Shrinks(rows, u),
           Planned(proc[p], rows, reqs, lastId, used, versioned) =>
               /\ Usage(u, Ids) = Usage(rows, Ids) + proc[p].owed
               /\ proc[p].owed <= 0 \/ WithinBytes(used + proc[p].owed),
           reqs' = reqs, lastId' = lastId, used' = used
    PROVE  Serial'
  <1>1. p \in Active
    BY Zenon DEF Active
  <1>2. Planned(proc[p], rows, reqs, lastId, used, versioned)
    BY <1>1, Zenon DEF Serial
  <1>3. Settled(rows, used) /\ r.owed \in Int
    BY <1>2, Zenon DEF Planned
  <1>4. /\ Usage(u, Ids) = Usage(rows, Ids) + r.owed
        /\ r.owed <= 0 \/ WithinBytes(used + r.owed)
    BY <1>2, Zenon
  <1>5. Settled(u, used + r.owed)
    <2>1. Usage(rows, Ids) \in Nat
      BY Numbers, Zenon
    <2> QED BY <1>3, <1>4, <2>1, FileServiceAssumption DEF Settled, WithinBytes
  <1>6. Ordered(u, reqs, lastId)
    BY OrderedShrinks, Zenon DEF Serial
  <1>7. Ordered(rows', reqs', lastId') /\ Settled(rows', used' + r.owed)
    BY <1>5, <1>6, Zenon
  <1>8. Planned(r, rows', reqs', lastId', used', versioned')
    BY <1>3, <1>7, Zenon DEF Planned
  <1> QED BY <1>7, <1>8, SerialChanges, Zenon

\* The row is soft-deleted.
LEMMA SoftDeleteSerial ==
    ASSUME Shape, Good(rows), Serial, NEW p \in Procs, SoftDelete(p)
    PROVE  Serial'
  <1>0. proc[p].pc = "soft" /\ lastId' = lastId /\ reqs' = reqs /\ used' = used /\ versioned' = versioned
    BY Zenon DEF SoftDelete, Goto, Stop
  <1>1. PICK r : r = [proc[p] EXCEPT !.pc = "account"]
    BY Zenon
  <1>2. r.pc = "account" /\ r.owed = proc[p].owed
    BY <1>1, Zenon DEF Shape, Fields
  <1>3. \/ rows' = SoftDeleteObject(rows) /\ proc' = [proc EXCEPT ![p] = r]
        \/ rows' = rows /\ proc' = [proc EXCEPT ![p] = Idle]
    BY <1>1, Zenon DEF SoftDelete, Goto, Stop
  <1>4. CASE rows' = rows /\ proc' = [proc EXCEPT ![p] = Idle]
    BY <1>0, <1>4, StopSerial, Zenon DEF Aside
  <1>5. CASE rows' = SoftDeleteObject(rows) /\ proc' = [proc EXCEPT ![p] = r]
    <2>1. Live(rows) \in SUBSET Ids /\ Live(rows) \subseteq Present(rows)
      BY Zenon DEF Live, InState, Present
    <2>2. PICK u : u = SoftDeleteObject(rows)
      BY Zenon
    <2>3. Sized(u) /\ Usage(u, Ids) = Usage(rows, Ids) - Usage(rows, Live(rows))
      BY <2>2, Numbers, SoftDeleteUsage, Zenon DEF Good
    <2>4. Shrinks(rows, u)
      BY <2>1, <2>2, ShrinksSetState, Zenon DEF SoftDeleteObject
    <2>5. ASSUME Planned(proc[p], rows, reqs, lastId, used, versioned)
          PROVE  Usage(u, Ids) = Usage(rows, Ids) + proc[p].owed /\ proc[p].owed <= 0
      <3>1. proc[p].owed = -Usage(rows, Live(rows))
        BY <1>0, <2>5, Zenon DEF Planned
      <3> QED BY <2>1, <2>3, <3>1, Numbers
    <2>6. rows' = u /\ proc[p].pc \notin {"idle", "hold", "account"}
      BY <1>0, <1>5, <2>2, Zenon
    <2> QED BY <1>0, <1>2, <1>5, <2>3, <2>4, <2>5, <2>6, DoneSerial, Zenon
  <1> QED BY <1>3, <1>4, <1>5, Zenon

\* The restored row counts again.
LEMMA RestoreRowSerial ==
    ASSUME Shape, Serial, NEW p \in Procs, RestoreRow(p)
    PROVE  Serial'
  <1>0. proc[p].pc = "restore" /\ lastId' = lastId /\ reqs' = reqs /\ used' = used /\ versioned' = versioned
    BY Zenon DEF RestoreRow, Goto, Stop
  <1>1. PICK r : r = [proc[p] EXCEPT !.pc = "account"]
    BY Zenon
  <1>2. r.pc = "account" /\ r.owed = proc[p].owed
    BY <1>1, Zenon DEF Shape, Fields
  <1>3. \/ /\ rows' = RestoreObject(rows) /\ proc' = [proc EXCEPT ![p] = r]
           /\ InState(rows, "deleted") # {}
        \/ rows' = rows /\ proc' = [proc EXCEPT ![p] = Idle]
    BY <1>1, Zenon DEF RestoreRow, Goto, Stop
  <1>4. CASE rows' = rows /\ proc' = [proc EXCEPT ![p] = Idle]
    BY <1>0, <1>4, StopSerial, Zenon DEF Aside
  <1>5. CASE /\ rows' = RestoreObject(rows) /\ proc' = [proc EXCEPT ![p] = r]
             /\ InState(rows, "deleted") # {}
    <2>1. PICK k : k = Max(InState(rows, "deleted"))
      BY Zenon
    <2>2. k \in Ids /\ rows[k].st = "deleted" /\ {k} \subseteq Present(rows)
      <3>1. InState(rows, "deleted") \in SUBSET Ids
        BY Zenon DEF InState
      <3>2. k \in InState(rows, "deleted")
        BY <1>5, <2>1, <3>1, MaxIn, Zenon
      <3> QED BY <3>2, Zenon DEF InState, Present
    <2>3. PICK u : u = SetState(rows, {k}, "live")
      BY Zenon
    <2>4. Sized(u) /\ Usage(u, Ids) = Usage(rows, Ids) + Size(rows[k])
      BY <2>2, <2>3, Numbers, ReviveUsage, Zenon
    <2>5. Shrinks(rows, u)
      BY <2>2, <2>3, ShrinksSetState, Zenon
    <2>6. ASSUME Planned(proc[p], rows, reqs, lastId, used, versioned)
          PROVE  proc[p].owed = Size(rows[k]) /\ WithinBytes(used + proc[p].owed)
      BY <1>0, <2>1, <2>6, Zenon DEF Planned, Size, IsDeleteMarker
    <2>7. rows' = u /\ proc[p].pc \notin {"idle", "hold", "account"}
      BY <1>0, <1>5, <2>1, <2>3, Zenon DEF RestoreObject
    <2> QED BY <1>0, <1>2, <1>5, <2>4, <2>5, <2>6, <2>7, DoneSerial, Zenon
  <1> QED BY <1>3, <1>4, <1>5, Zenon

\* HardDeleteRows and PurgeRows: all rows go.
LEMMA RemoveAllSerial ==
    ASSUME Shape, Serial, NEW p \in Procs, HardDeleteRows(p) \/ PurgeRows(p)
    PROVE  Serial'
  <1>0. /\ proc[p].pc \in {"blobs", "recheck"}
        /\ proc[p].op = "purge" \/ (proc[p].op = "hard" /\ (rows' # rows => Present(rows) # {}))
        /\ lastId' = lastId /\ reqs' = reqs /\ used' = used /\ versioned' = versioned
    BY Zenon DEF HardDeleteRows, PurgeRows, Removed, Stop
  <1>1. PICK r : r = [proc[p] EXCEPT !.pc = "account", !.gone = {}]
    BY Zenon
  <1>2. r.pc = "account" /\ r.owed = proc[p].owed
    BY <1>1, Zenon DEF Shape, Fields
  <1>3. \/ /\ rows' = Remove(rows, Ids) /\ proc' = [proc EXCEPT ![p] = r]
           /\ proc[p].op = "purge" \/ (proc[p].op = "hard" /\ Present(rows) # {})
        \/ rows' = rows /\ proc' = [proc EXCEPT ![p] = Idle]
    BY <1>1, Zenon DEF HardDeleteRows, PurgeRows, Removed, Stop
  <1>4. CASE rows' = rows /\ proc' = [proc EXCEPT ![p] = Idle]
    BY <1>0, <1>4, StopSerial, Zenon DEF Aside
  <1>5. CASE /\ rows' = Remove(rows, Ids) /\ proc' = [proc EXCEPT ![p] = r]
             /\ proc[p].op = "purge" \/ (proc[p].op = "hard" /\ Present(rows) # {})
    <2>1. PICK u : u = Remove(rows, Ids)
      BY Zenon
    <2>2. Sized(u) /\ Usage(u, Ids) = 0 /\ Shrinks(rows, u)
      BY <2>1, RemoveAllUsage, ShrinksRemove, Zenon
    <2>3. ASSUME Planned(proc[p], rows, reqs, lastId, used, versioned)
          PROVE  Usage(u, Ids) = Usage(rows, Ids) + proc[p].owed /\ proc[p].owed <= 0
      <3>1. proc[p].owed = -Usage(rows, Present(rows))
        BY <1>0, <1>5, <2>3, Zenon DEF Planned
      <3>2. Usage(rows, Present(rows)) = Usage(rows, Ids)
        BY UsagePresent, Zenon
      <3> QED BY <2>2, <3>1, <3>2, Numbers
    <2>4. rows' = u /\ proc[p].pc \notin {"idle", "hold", "account"}
      BY <1>0, <1>5, <2>1, Zenon
    <2> QED BY <1>0, <1>2, <1>5, <2>2, <2>3, <2>4, DoneSerial, Zenon
  <1> QED BY <1>3, <1>4, <1>5, Zenon

\* Lifecycle removes the row it selected.
LEMMA ExpireRowSerial ==
    ASSUME Shape, Serial, NEW p \in Procs, ExpireRow(p)
    PROVE  Serial'
  <1>0. /\ proc[p].pc = "recheck" /\ proc[p].op = "expire"
        /\ lastId' = lastId /\ reqs' = reqs /\ used' = used /\ versioned' = versioned
    BY Zenon DEF ExpireRow, Removed, Stop
  <1>1. PICK r : r = [proc[p] EXCEPT !.pc = "account", !.gone = {}]
    BY Zenon
  <1>2. r.pc = "account" /\ r.owed = proc[p].owed
    BY <1>1, Zenon DEF Shape, Fields
  <1>3. \/ /\ rows' = Remove(rows, {proc[p].id}) /\ proc' = [proc EXCEPT ![p] = r]
           /\ proc[p].id \in Present(rows)
        \/ rows' = rows /\ proc' = [proc EXCEPT ![p] = Idle]
    BY <1>1, Zenon DEF ExpireRow, Removed, Stop
  <1>4. CASE rows' = rows /\ proc' = [proc EXCEPT ![p] = Idle]
    BY <1>0, <1>4, StopSerial, Zenon DEF Aside
  <1>5. CASE /\ rows' = Remove(rows, {proc[p].id}) /\ proc' = [proc EXCEPT ![p] = r]
             /\ proc[p].id \in Present(rows)
    <2>1. PICK k : k = proc[p].id
      BY Zenon
    <2>2. PICK u : u = Remove(rows, {k})
      BY Zenon
    <2>3. k \in Ids
      BY <1>5, <2>1, Zenon DEF Present
    <2>4. Sized(u) /\ Usage(u, Ids) = Usage(rows, Ids) - Usage(rows, {k}) /\ Shrinks(rows, u)
      BY <2>2, <2>3, Numbers, RemoveUsage, ShrinksRemove, Zenon
    <2>5. ASSUME Planned(proc[p], rows, reqs, lastId, used, versioned)
          PROVE  Usage(u, Ids) = Usage(rows, Ids) + proc[p].owed /\ proc[p].owed <= 0
      <3>1. proc[p].owed = -Usage(rows, {k})
        BY <1>0, <2>1, <2>5, Zenon DEF Planned
      <3> QED BY <2>3, <2>4, <3>1, Numbers
    <2>6. rows' = u /\ proc[p].pc \notin {"idle", "hold", "account"}
      BY <1>0, <1>5, <2>1, <2>2, Zenon
    <2> QED BY <1>0, <1>2, <1>5, <2>4, <2>5, <2>6, DoneSerial, Zenon
  <1> QED BY <1>3, <1>4, <1>5, Zenon

\* The version's row is removed, and the newest one left may become live.
LEMMA DeleteVersionRowSerial ==
    ASSUME Shape, Serial, NEW p \in Procs, DeleteVersionRow(p), ~disturbed'
    PROVE  Serial'
  <1>0. /\ proc[p].pc = "blobs" /\ proc[p].op = "version"
        /\ lastId' = lastId /\ reqs' = reqs /\ used' = used /\ versioned' = versioned
    BY Zenon DEF DeleteVersionRow, Stop
  <1>1. PICK r : r = [proc[p] EXCEPT !.pc = "account", !.gone = {}]
    BY Zenon
  <1>2. r.pc = "account" /\ r.owed = proc[p].owed
    BY <1>1, Zenon DEF Shape, Fields
  <1>3. PICK S : S = GetObjectVersion(rows, proc[p].up)
    BY Zenon
  <1>4. PICK k : k = CHOOSE i \in S : TRUE
    BY Zenon
  <1>5. \/ /\ rows' = DeleteObjectVersion(rows, k) /\ proc' = [proc EXCEPT ![p] = r]
           /\ S # {} /\ ~Revived(rows, rows')
        \/ rows' = rows /\ proc' = [proc EXCEPT ![p] = Idle]
    BY <1>1, <1>3, <1>4, Zenon DEF DeleteVersionRow, Stop
  <1>6. CASE rows' = rows /\ proc' = [proc EXCEPT ![p] = Idle]
    BY <1>0, <1>6, StopSerial, Zenon DEF Aside
  <1>7. CASE /\ rows' = DeleteObjectVersion(rows, k) /\ proc' = [proc EXCEPT ![p] = r]
             /\ S # {} /\ ~Revived(rows, rows')
    <2>1. k \in S /\ k \in Ids
      BY <1>3, <1>4, <1>7, Zenon DEF GetObjectVersion, Present
    <2>2. PICK u : u = DeleteObjectVersion(rows, k)
      BY Zenon
    <2>3. ~Revived(rows, u)
      BY <1>7, <2>2, Zenon
    <2>4. Sized(u) /\ Usage(u, Ids) = Usage(rows, Ids) - Usage(rows, {k})
      BY <2>1, <2>2, <2>3, Numbers, DeleteVersionUsage, Zenon
    <2>5. Shrinks(rows, u)
      BY <2>2, ShrinksVersion, Zenon
    <2>6. ASSUME Planned(proc[p], rows, reqs, lastId, used, versioned)
          PROVE  Usage(u, Ids) = Usage(rows, Ids) + proc[p].owed /\ proc[p].owed <= 0
      <3>1. proc[p].owed = -Usage(rows, {k})
        BY <1>0, <1>3, <2>1, <2>6, Zenon DEF Planned
      <3> QED BY <2>1, <2>4, <3>1, Numbers
    <2>7. rows' = u /\ proc[p].pc \notin {"idle", "hold", "account"}
      BY <1>0, <1>7, <2>2, Zenon
    <2> QED BY <1>0, <1>2, <1>7, <2>4, <2>5, <2>6, <2>7, DoneSerial, Zenon
  <1> QED BY <1>5, <1>6, <1>7, Zenon

\* The same rows, but for their holds.
Alike(t, u) ==
    \A i \in Ids : u[i].st = t[i].st /\ u[i].up = t[i].up /\ u[i].key = t[i].key

\* Holds change no set of rows and no usage.
LEMMA AlikeSets ==
    ASSUME NEW t, NEW u, Alike(t, u)
    PROVE  /\ Present(u) = Present(t) /\ Live(u) = Live(t)
           /\ InState(u, "deleted") = InState(t, "deleted")
           /\ \A v : GetObjectVersion(u, v) = GetObjectVersion(t, v)
           /\ \A S \in SUBSET Ids : Usage(u, S) = Usage(t, S)
  <1>1. Present(u) = Present(t) /\ Live(u) = Live(t) /\ InState(u, "deleted") = InState(t, "deleted")
    BY Zenon DEF Alike, Present, Live, InState
  <1>2. \A v : GetObjectVersion(u, v) = GetObjectVersion(t, v)
    BY <1>1, Zenon DEF Alike, GetObjectVersion, Present
  <1>3. ASSUME NEW S \in SUBSET Ids PROVE Usage(u, S) = Usage(t, S)
    <2>1. SameCount(u, t, S)
      BY Zenon DEF SameCount, Alike, Size, IsDeleteMarker
    <2> QED BY <2>1, UsageEqual, Zenon
  <1> QED BY <1>1, <1>2, <1>3, Zenon

\* Nor the order of the rows.
LEMMA AlikeOrdered ==
    ASSUME NEW t, NEW u, Alike(t, u), NEW n, NEW l, Ordered(t, n, l)
    PROVE  Ordered(u, n, l)
  <1>1. Sized(u)
    BY Zenon DEF Alike, Ordered, Sized
  <1>2. Shrinks(t, u)
    BY Zenon DEF Alike, Shrinks, Present
  <1> QED BY <1>1, <1>2, OrderedShrinks, Zenon

\* Nor whether the counter is settled.
LEMMA AlikeSettled ==
    ASSUME NEW t, NEW u, Alike(t, u), NEW c, Settled(t, c)
    PROVE  Settled(u, c)
  BY AlikeSets, Zenon DEF Settled

\* Nor what an operation owes.
LEMMA AlikePlanned ==
    ASSUME NEW t, NEW u, Alike(t, u), NEW r, NEW n, NEW l, NEW c, NEW w, Planned(r, t, n, l, c, w)
    PROVE  Planned(r, u, n, l, c, w)
  <1>1. /\ r.pc \in {"hold", "account"} => Settled(u, c + r.owed)
        /\ r.pc \notin {"hold", "account"} => Settled(u, c)
    BY AlikeSettled, Zenon DEF Planned
  <1>2. /\ r.pc \in {"usage", "blob", "row"} =>
              l < n /\ r.up = n /\ \A i \in Present(u) : u[i].up < n
        /\ r.pc = "hold" => r.id \in Present(u)
    BY AlikeSets, Zenon DEF Planned, Alike, Present
  <1>3. Live(t) \in SUBSET Ids /\ Present(t) \in SUBSET Ids
    BY Zenon DEF Live, InState, Present
  <1>4. /\ r.pc \in {"blob", "row"} =>
              /\ r.owed = IF w THEN r.up ELSE r.up - Usage(u, Live(u))
              /\ WithinBytes(c + r.owed)
        /\ r.pc = "soft" => r.owed = -Usage(u, Live(u))
    BY <1>3, AlikeSets, Zenon DEF Planned
  <1>5. r.pc = "restore" =>
          /\ InState(u, "deleted") # {}
          /\ u[Max(InState(u, "deleted"))].key # NoKey
          /\ r.owed = u[Max(InState(u, "deleted"))].up
          /\ WithinBytes(c + r.owed)
    <2> SUFFICES ASSUME r.pc = "restore"
                 PROVE  /\ InState(u, "deleted") # {}
                        /\ u[Max(InState(u, "deleted"))].key # NoKey
                        /\ r.owed = u[Max(InState(u, "deleted"))].up
                        /\ WithinBytes(c + r.owed)
      BY Zenon
    <2>1. PICK D : D = InState(t, "deleted")
      BY Zenon
    <2>2. D \in SUBSET Ids /\ D # {} /\ D = InState(u, "deleted")
      BY <2>1, AlikeSets DEF Planned, InState
    <2>3. Max(D) \in Ids
      BY <2>2, MaxIn, Zenon
    <2>4. t[Max(D)].key # NoKey /\ r.owed = t[Max(D)].up /\ WithinBytes(c + r.owed)
      BY <2>1, Zenon DEF Planned
    <2>5. u[Max(D)].key # NoKey /\ r.owed = u[Max(D)].up
      BY <2>3, <2>4, Zenon DEF Alike
    <2> QED BY <2>2, <2>4, <2>5, Zenon
  <1>6. r.pc \in {"recheck", "blobs"} =>
          /\ r.op = "hard" => Present(u) = {} \/ r.owed = -Usage(u, Present(u))
          /\ r.op = "purge" => r.owed = -Usage(u, Present(u))
    BY <1>3, AlikeSets, Zenon DEF Planned
  <1>7. r.pc \in {"recheck", "blobs"} =>
          /\ r.op = "version" => \A i \in GetObjectVersion(u, r.up) : r.owed = -Usage(u, {i})
          /\ r.op = "expire" => r.id \in Ids /\ r.owed = -Usage(u, {r.id})
    <2>1. \A i \in Ids : Usage(u, {i}) = Usage(t, {i})
      BY AlikeSets, Zenon
    <2>2. \A v : GetObjectVersion(u, v) \subseteq GetObjectVersion(t, v) \cap Ids
      BY AlikeSets, Zenon DEF GetObjectVersion, Present
    <2> QED BY <2>1, <2>2, Zenon DEF Planned
  <1>8. r.owed \in Int /\ (r.pc = "list" => r.op \in {"hard", "scan"})
    BY Zenon DEF Planned
  <1> QED BY <1>1, <1>2, <1>4, <1>5, <1>6, <1>7, <1>8, Zenon DEF Planned

\* Writing a row's holds changes nothing else of it.
LEMMA AlikeHolds ==
    ASSUME NEW t, IsTable(t), NEW k, NEW H
    PROVE  Alike(t, [t EXCEPT ![k] = WithHolds(t[k], H)])
  BY Zenon DEF Alike, IsTable, WithHolds

\* Holds come and go at any time.
LEMMA HoldsSerial ==
    ASSUME Shape, Good(rows), Serial, NEW i \in Ids, PutLegalHold(i) \/ RemoveLegalHold(i)
    PROVE  Serial'
  <1>1. /\ proc' = proc /\ lastId' = lastId /\ reqs' = reqs /\ used' = used /\ versioned' = versioned
        /\ \E H : rows' = [rows EXCEPT ![i] = WithHolds(rows[i], H)]
    BY Zenon DEF PutLegalHold, RemoveLegalHold
  <1>2. Alike(rows, rows')
    <2>1. PICK H : rows' = [rows EXCEPT ![i] = WithHolds(rows[i], H)]
      BY <1>1, Zenon
    <2>2. Alike(rows, [rows EXCEPT ![i] = WithHolds(rows[i], H)])
      BY AlikeHolds, Zenon DEF Good
    <2> QED BY <2>1, <2>2, Zenon
  <1>3. Ordered(rows', reqs, lastId)
    BY <1>2, AlikeOrdered, Zenon DEF Serial
  <1>4. Quiet => Settled(rows', used)
    BY <1>2, AlikeSettled, Zenon DEF Serial
  <1>5. \A p \in Active : Planned(proc[p], rows', reqs, lastId, used, versioned)
    BY <1>2, AlikePlanned, Zenon DEF Serial
  <1>6. Active' = Active /\ (Quiet' <=> Quiet)
    BY <1>1, Zenon DEF Active, Quiet
  <1>7. \A p \in Active' : Planned(proc'[p], rows', reqs', lastId', used', versioned')
    BY <1>1, <1>5, <1>6, Zenon
  <1>8. Ordered(rows', reqs', lastId') /\ (Quiet' => Settled(rows', used'))
    BY <1>1, <1>3, <1>4, <1>6, Zenon
  <1>9. \A p, q \in Active' : p = q
    BY <1>6, Zenon DEF Serial
  <1> QED BY <1>7, <1>8, <1>9, Zenon DEF Serial

\* The legal hold an upload asks for is written.
LEMMA PutHoldSerial ==
    ASSUME Shape, Good(rows), Serial, NEW p \in Procs, PutHold(p)
    PROVE  Serial'
  <1>0. proc[p].pc = "hold" /\ lastId' = lastId /\ reqs' = reqs /\ used' = used /\ versioned' = versioned
    BY Zenon DEF PutHold, Goto, Stop
  <1>1. PICK r : r = [proc[p] EXCEPT !.pc = "account"]
    BY Zenon
  <1>2. r.pc = "account" /\ r.owed = proc[p].owed
    BY <1>1, Zenon DEF Shape, Fields
  <1>3. p \in Active
    BY <1>0, Zenon DEF Active
  <1>4. Planned(proc[p], rows, reqs, lastId, used, versioned)
    BY <1>3, Zenon DEF Serial
  <1>5. PICK k : k = proc[p].id
    BY Zenon
  <1>6. k \in Present(rows) /\ Settled(rows, used + r.owed) /\ r.owed \in Int
    BY <1>0, <1>2, <1>4, <1>5, Zenon DEF Planned
  <1>7. PICK H : rows' = [rows EXCEPT ![k] = WithHolds(rows[k], H)] /\ proc' = [proc EXCEPT ![p] = r]
    BY <1>1, <1>5, <1>6, Zenon DEF PutHold, Goto
  <1>8. Alike(rows, rows')
    <2>1. Alike(rows, [rows EXCEPT ![k] = WithHolds(rows[k], H)])
      BY AlikeHolds, Zenon DEF Good
    <2> QED BY <1>7, <2>1, Zenon
  <1>9. Ordered(rows', reqs, lastId) /\ Settled(rows', used + r.owed)
    BY <1>6, <1>8, AlikeOrdered, AlikeSettled, Zenon DEF Serial
  <1>10. Ordered(rows', reqs', lastId') /\ Settled(rows', used' + r.owed)
    BY <1>0, <1>9, Zenon
  <1>11. Planned(r, rows', reqs', lastId', used', versioned')
    BY <1>2, <1>6, <1>10, Zenon DEF Planned
  <1>12. proc[p].pc # "idle" /\ r.pc # "idle"
    BY <1>0, <1>2, Zenon
  <1> QED BY <1>7, <1>10, <1>11, <1>12, SerialChanges, Zenon

\* The counter is adjusted by what the operation owes.
LEMMA AccountSerial ==
    ASSUME Shape, Serial, NEW p \in Procs, Account(p)
    PROVE  Serial'
  <1>0. /\ proc[p].pc = "account" /\ proc' = [proc EXCEPT ![p] = Idle]
        /\ rows' = rows /\ lastId' = lastId /\ reqs' = reqs /\ used' = AddTenantUsage(proc[p].owed)
    BY Zenon DEF Account, Goto
  <1>1. p \in Active
    BY <1>0, Zenon DEF Active
  <1>2. Planned(proc[p], rows, reqs, lastId, used, versioned) /\ \A q \in Active : q = p
    BY <1>1, Zenon DEF Serial
  <1>3. Settled(rows, used + proc[p].owed)
    BY <1>0, <1>2, Zenon DEF Planned
  <1>4. used' = used + proc[p].owed
    <2>1. used + proc[p].owed \in Nat
      BY <1>3, Numbers, Zenon DEF Settled
    <2> QED BY <1>0, <2>1 DEF AddTenantUsage
  <1>5. Settled(rows', used') /\ Ordered(rows', reqs', lastId')
    BY <1>0, <1>3, <1>4, Zenon DEF Serial
  <1>6. Idle.pc = "idle"
    BY Zenon DEF Idle
  <1> QED BY <1>0, <1>2, <1>5, <1>6, SerialMoves, Zenon

\* A request starts.
LEMMA RequestSerial ==
    ASSUME Shape, Serial, NEW p \in Procs, Request(p), ~disturbed'
    PROVE  Serial'
  <1>1. CASE SoftDeleteStart(p)
    <2>1. /\ Start(p, [Idle EXCEPT !.op = "soft", !.pc = "soft", !.owed = -Usage(rows, Live(rows))])
          /\ rows' = rows /\ lastId' = lastId /\ used' = used /\ versioned' = versioned
          /\ reqs' = reqs + 1
      BY <1>1, Zenon DEF SoftDeleteStart, NewRequest, state
    <2>2. reqs' \in {reqs, reqs + 1}
      BY <2>1, Zenon
    <2> QED BY <2>1, <2>2, SoftDeleteStartSerial, Zenon
  <1> QED BY <1>1, PutStartSerial, HardDeleteStartSerial, DeleteVersionStartSerial,
             CreateDeleteMarkerSerial, RestoreStartSerial, Zenon DEF Request

\* A request goes on.
LEMMA StepSerial ==
    ASSUME Shape, Good(rows), Serial, NEW p \in Procs, Step(p), ~disturbed'
    PROVE  Serial'
  BY PutUsageSerial, PutBlobSerial, PutRowSerial, PutHoldSerial, SoftDeleteSerial,
     HardDeleteListSerial, DeleteBlobSerial, RemoveAllSerial, DeleteVersionRowSerial,
     RestoreRowSerial, AccountSerial, Zenon DEF Step

\* A sweep goes on.
LEMMA SweepStepSerial ==
    ASSUME Shape, Good(rows), Serial, NEW p \in Procs, SweepStep(p)
    PROVE  Serial'
  BY RecheckSerial, DeleteBlobSerial, RemoveAllSerial, ExpireRowSerial, SoftDeleteSerial,
     AccountSerial, ScanSerial, Zenon DEF SweepStep

\* Blobs grow old, or nothing happens.
LEMMA SameSerial ==
    ASSUME Serial, (\E k : GracePasses(k)) \/ UNCHANGED vars
    PROVE  Serial'
  <1>1. /\ rows' = rows /\ lastId' = lastId /\ reqs' = reqs /\ used' = used /\ proc' = proc
        /\ versioned' = versioned
    BY Zenon DEF GracePasses, vars, state
  <1>2. Active' = Active /\ (Quiet' <=> Quiet)
    BY <1>1, Zenon DEF Active, Quiet
  <1>3. \A q \in Active' : Planned(proc'[q], rows', reqs', lastId', used', versioned')
    BY <1>1, <1>2, Zenon DEF Serial
  <1>4. Ordered(rows', reqs', lastId') /\ (Quiet' => Settled(rows', used'))
    BY <1>1, <1>2, Zenon DEF Serial
  <1>5. \A q, s \in Active' : q = s
    BY <1>2, Zenon DEF Serial
  <1> QED BY <1>3, <1>4, <1>5, Zenon DEF Serial

\* Once requests have overlapped or stopped half-way, that stays so.
LEMMA DisturbedStays ==
    ASSUME [Next]_vars, disturbed PROVE disturbed'
  <1>1. ASSUME NEW p, NEW r, Start(p, r) \/ Goto(p, r) \/ Stop(p) \/ Take(p, r) \/ Removed(p)
        PROVE  disturbed'
    BY <1>1, Zenon DEF Start, Goto, Stop, Take, Removed
  <1>2. ASSUME NEW p, Request(p) PROVE disturbed'
    BY <1>1, <1>2, Zenon DEF Request, PutStart, SoftDeleteStart, HardDeleteStart,
       DeleteVersionStart, CreateDeleteMarker, RestoreStart
  <1>3. ASSUME NEW p, Step(p) PROVE disturbed'
    BY <1>1, <1>3, Zenon DEF Step, PutUsage, PutBlob, PutRow, PutHold, SoftDelete, HardDeleteList,
       DeleteBlob, HardDeleteRows, DeleteVersionRow, RestoreRow, Account
  <1>4. ASSUME NEW p, Sweep(p) PROVE disturbed'
    BY <1>1, <1>4, Zenon DEF Sweep, Purge, ExpireHard, ExpireSoft, PurgeNonCurrent, OrphanRow,
       CollectReferenced, TakeVersion
  <1>5. ASSUME NEW p, SweepStep(p) PROVE disturbed'
    BY <1>1, <1>5, Zenon DEF SweepStep, Recheck, SweepBlob, PurgeRows, ExpireRow, SoftDelete, Account,
       ListBlobs, DeleteOrphan
  <1>6. ASSUME NEW p, Abandon(p) \/ PutLegalHold(p) \/ RemoveLegalHold(p) \/ GracePasses(p)
        PROVE  disturbed'
    BY <1>6, Zenon DEF Abandon, PutLegalHold, RemoveLegalHold, GracePasses
  <1> QED BY <1>2, <1>3, <1>4, <1>5, <1>6, Zenon DEF Next, ClientNext, vars

\* Every step keeps SInv.
LEMMA SerialStep ==
    ASSUME Shape, Good(rows), SInv, [Next]_vars
    PROVE  SInv'
  <1> SUFFICES ASSUME ~disturbed' PROVE Serial'
    BY Zenon DEF SInv
  <1>1. Serial
    BY DisturbedStays, Zenon DEF SInv
  <1>2. ASSUME NEW p, Abandon(p) PROVE FALSE
    BY <1>2, Zenon DEF Abandon
  <1>3. \A p \in Clients \cup Sweepers : p \in Procs
    BY Zenon DEF Procs
  <1>4. ASSUME NEW c \in Clients, Request(c) \/ Step(c) PROVE Serial'
    BY <1>1, <1>3, <1>4, RequestSerial, StepSerial, Zenon
  <1>5. ASSUME NEW s \in Sweepers, Sweep(s) \/ SweepStep(s) PROVE Serial'
    BY <1>1, <1>3, <1>5, SweepSerial, SweepStepSerial, Zenon
  <1>6. ASSUME NEW i \in Ids, PutLegalHold(i) \/ RemoveLegalHold(i) PROVE Serial'
    BY <1>1, <1>6, HoldsSerial, Zenon
  <1> QED BY <1>1, <1>2, <1>4, <1>5, <1>6, SameSerial, Zenon DEF Next, ClientNext

\* SInv holds in every state.
LEMMA SerialAlways == Spec => [](Shape /\ SInv)
  <1>1. Init => Shape /\ SInv
    <2> SUFFICES ASSUME Init PROVE Shape /\ Serial
      BY Zenon DEF SInv
    <2>1. /\ rows = [i \in Ids |-> NoRow] /\ lastId = 0 /\ blob = [k \in Keys |-> 0] /\ reqs = 0
          /\ proc = [p \in Procs |-> Idle] /\ used = 0
      BY Zenon DEF Init
    <2>2. Shape
      BY <2>1, MaxReqsAssumption DEF Shape, Idle, Fields
    <2>3. Present(rows) = {} /\ Sized(rows) /\ Counted(rows, Ids) = {}
      BY <2>1, Zenon DEF Present, NoRow, Sized, Counted
    <2>4. Active = {}
      BY <2>1, Zenon DEF Active, Idle
    <2>5. Settled(rows, used)
      BY <2>1, <2>3, UsageNone, FileServiceAssumption DEF Settled, WithinBytes
    <2>6. Ordered(rows, reqs, lastId)
      BY <2>1, <2>3 DEF Ordered
    <2> QED BY <2>2, <2>4, <2>5, <2>6, Zenon DEF Serial
  <1>2. Shape /\ SInv /\ Good(rows) /\ [Next]_vars => (Shape /\ SInv)'
    BY ShapeStep, SerialStep, Zenon
  <1> QED BY <1>1, <1>2, GoodAlways, PTL DEF Spec

\* Over any sequence of uploads, deletions, restores and sweeps that do not
\* overlap, used_bytes is the size of the rows that count and within the
\* quota.
THEOREM UsageExactAlways == Spec => []UsageExact
  <1>1. Shape /\ SInv => UsageExact
    BY Zenon DEF SInv, Serial, UsageExact, Settled, WithinBytes
  <1> QED BY <1>1, SerialAlways, PTL
============================================================================
