-------------------------------- MODULE Sums --------------------------------
(***************************************************************************)
(* Sums over finite sets, as MapThenSumSet computes them, for the proofs   *)
(* about usage and sizes.  What a sum is for every finite set is shown by  *)
(* induction on the subsets: a set of counterexamples has a smallest one,  *)
(* which is not empty, and without one of its elements it is none.         *)
(***************************************************************************)
EXTENDS Integers, FiniteSets, FiniteSetTheorems, WellFoundedInduction, TLAPS

\* The element that a fold of the library takes first.
Pick(s) == CHOOSE x \in s : TRUE

\* g[s] is the sum of w over s, for every s \subseteq S, taken in the order
\* in which the fold of the library takes it.
IsSum(g, w, S) ==
    g = [s \in SUBSET S |->
            IF s = {} THEN 0 ELSE w[Pick(s)] + g[s \ {Pick(s)}]]

\* Among subsets of a finite set there is one that contains no other: the
\* strict-subset order is well-founded on them.
LEMMA Smallest ==
    ASSUME NEW S, IsFiniteSet(S), NEW B \in SUBSET (SUBSET S), B # {}
    PROVE  \E s \in B : \A u \in B : u \subseteq s => u = s
  <1>1. IsWellFoundedOn(StrictSubsetOrdering(S), FiniteSubsetsOf(S))
    BY FS_StrictSubsetOrderingWellFounded, Zenon
  <1>2. B \subseteq FiniteSubsetsOf(S)
    BY FS_FiniteSubsetsOfFinite, Zenon
  <1>3. PICK s \in B : \A u \in B : ~ (<<u, s>> \in StrictSubsetOrdering(S))
    <2> DEFINE R == StrictSubsetOrdering(S)
               F == FiniteSubsetsOf(S)
    <2>1. IsWellFoundedOn(R, F) /\ B \subseteq F
      BY <1>1, <1>2, Zenon
    <2> HIDE DEF R, F
    <2>2. \E s \in B : \A u \in B : ~ (<<u, s>> \in R)
      BY <2>1, WFMin, Zenon
    <2> QED BY <2>2, Zenon DEF R
  <1>4. ASSUME NEW u \in B, u \subseteq s PROVE u = s
    BY <1>3, <1>4, Zenon DEF StrictSubsetOrdering
  <1> QED BY <1>4, Zenon

\* Pick takes an element of the set.
LEMMA PickIn == ASSUME NEW s, s # {} PROVE Pick(s) \in s
  BY Zenon DEF Pick

\* The equations of a sum.
LEMMA SumEq ==
    ASSUME NEW g, NEW w, NEW S, IsSum(g, w, S)
    PROVE  /\ g[{}] = 0
           /\ \A s \in SUBSET S : s # {} =>
                g[s] = w[Pick(s)] + g[s \ {Pick(s)}]
  BY Zenon DEF IsSum

\* A sum of natural numbers is one.
LEMMA SumNat ==
    ASSUME NEW g, NEW w, NEW S, IsFiniteSet(S), IsSum(g, w, S),
           \A x \in S : w[x] \in Nat
    PROVE  \A s \in SUBSET S : g[s] \in Nat
  <1> DEFINE B == {s \in SUBSET S : g[s] \notin Nat}
  <1> SUFFICES ASSUME B # {} PROVE FALSE
    BY Zenon
  <1>0. B \in SUBSET (SUBSET S)
    BY Zenon
  <1>1. PICK s \in B : \A u \in B : u \subseteq s => u = s
    <2> HIDE DEF B
    <2> QED BY <1>0, Smallest
  <1>2. s # {}
    BY SumEq
  <1> DEFINE x == Pick(s)
  <1>3. x \in s /\ g[s] = w[x] + g[s \ {x}]
    BY <1>2, PickIn, SumEq
  <1> HIDE DEF x
  <1>4. s \ {x} \notin B
    BY <1>1, <1>3, Zenon
  <1> QED BY <1>3, <1>4

\* Two sums with the same weights on S agree on the subsets of S.
LEMMA SumAgree ==
    ASSUME NEW g, NEW w, NEW S, IsSum(g, w, S),
           NEW h, NEW v, NEW T, IsSum(h, v, T),
           IsFiniteSet(S), S \subseteq T, \A x \in S : w[x] = v[x]
    PROVE  \A s \in SUBSET S : g[s] = h[s]
  <1> DEFINE B == {s \in SUBSET S : g[s] # h[s]}
  <1> SUFFICES ASSUME B # {} PROVE FALSE
    BY Zenon
  <1>0. B \in SUBSET (SUBSET S)
    BY Zenon
  <1>1. PICK s \in B : \A u \in B : u \subseteq s => u = s
    <2> HIDE DEF B
    <2> QED BY <1>0, Smallest
  <1>2. s # {}
    BY SumEq, Zenon
  <1> DEFINE x == Pick(s)
  <1>3. x \in s /\ g[s] = w[x] + g[s \ {x}] /\ h[s] = v[x] + h[s \ {x}]
    BY <1>2, PickIn, SumEq
  <1> HIDE DEF x
  <1>4. s \ {x} \notin B
    BY <1>1, <1>3, Zenon
  <1> QED BY <1>3, <1>4, Zenon

\* A sum may be taken in any order: any element can go first.
LEMMA SumRemove ==
    ASSUME NEW g, NEW w, NEW S, IsFiniteSet(S), IsSum(g, w, S),
           \A x \in S : w[x] \in Nat
    PROVE  \A s \in SUBSET S : \A x \in s : g[s] = w[x] + g[s \ {x}]
  <1> DEFINE B == {s \in SUBSET S : \E x \in s : g[s] # w[x] + g[s \ {x}]}
  <1> SUFFICES ASSUME B # {} PROVE FALSE
    BY Zenon
  <1>0. B \in SUBSET (SUBSET S)
    BY Zenon
  <1>1. PICK s \in B : \A u \in B : u \subseteq s => u = s
    <2> HIDE DEF B
    <2> QED BY <1>0, Smallest
  <1>2. PICK x \in s : g[s] # w[x] + g[s \ {x}]
    BY Zenon
  <1> DEFINE c == Pick(s)
  <1>3. c \in s /\ g[s] = w[c] + g[s \ {c}]
    BY <1>2, PickIn, SumEq
  <1> HIDE DEF c
  <1>4. c # x
    BY <1>2, <1>3, Zenon
  <1>5. g[s \ {c}] = w[x] + g[(s \ {c}) \ {x}]
    <2>1. s \ {c} \notin B /\ x \in s \ {c}
      BY <1>1, <1>3, <1>4, Zenon
    <2> QED BY <2>1, Zenon
  <1>6. g[s \ {x}] = w[c] + g[(s \ {x}) \ {c}]
    <2>1. s \ {x} \notin B /\ c \in s \ {x}
      BY <1>1, <1>3, <1>4, Zenon
    <2> QED BY <2>1, Zenon
  <1>7. (s \ {c}) \ {x} = (s \ {x}) \ {c}
    BY Zenon
  <1>8. /\ w[x] \in Nat /\ w[c] \in Nat
        /\ g[(s \ {c}) \ {x}] \in Nat /\ g[s \ {x}] \in Nat
        /\ g[s \ {c}] \in Nat
    BY <1>3, SumNat, Zenon
  <1> DEFINE r == g[(s \ {c}) \ {x}]
  <1>9. g[s \ {c}] = w[x] + r /\ g[s \ {x}] = w[c] + r /\ r \in Nat
    BY <1>5, <1>6, <1>7, <1>8, Zenon
  <1> HIDE DEF B, r
  <1>10. g[s] = w[c] + (w[x] + r) /\ w[x] + (w[c] + r) # g[s]
    BY <1>2, <1>3, <1>9, Zenon
  <1>11. ASSUME NEW a \in Nat, NEW b \in Nat, NEW d \in Nat
         PROVE  a + (b + d) = b + (a + d)
    OBVIOUS
  <1>12. w[c] + (w[x] + r) = w[x] + (w[c] + r)
    BY <1>8, <1>9, <1>11, ZenonT(40)
  <1> QED BY <1>10, <1>12, Zenon

\* The sum of w over the subsets of S.
SumOver(w, S) == CHOOSE g : IsSum(g, w, S)

\* There is such a sum: the recursion is well-founded.
LEMMA SumExists ==
    ASSUME NEW S, IsFiniteSet(S), NEW w
    PROVE  IsSum(SumOver(w, S), w, S)
  <1> DEFINE B == {s \in SUBSET S : ~IsSum(SumOver(w, s), w, s)}
  <1> SUFFICES ASSUME B # {} PROVE FALSE
    <2>1. S \in SUBSET S
      BY Zenon
    <2> QED BY <2>1, Zenon
  <1>0. B \in SUBSET (SUBSET S)
    BY Zenon
  <1>1. PICK s \in B : \A u \in B : u \subseteq s => u = s
    <2> HIDE DEF B
    <2> QED BY <1>0, Smallest
  <1>2. s \in SUBSET S /\ ~IsSum(SumOver(w, s), w, s)
    BY Zenon
  <1>3. ASSUME NEW u \in SUBSET s, u # s
        PROVE  IsSum(SumOver(w, u), w, u)
    BY <1>1, <1>2, <1>3, Zenon
  <1> HIDE DEF B
  <1> DEFINE G == [u \in SUBSET s |->
                     IF u = {} THEN 0
                     ELSE w[Pick(u)] + SumOver(w, u \ {Pick(u)})[u \ {Pick(u)}]]
  <1>4. ASSUME NEW u \in SUBSET s, u # s PROVE G[u] = SumOver(w, u)[u]
    <2>1. IsSum(SumOver(w, u), w, u)
      BY <1>3, <1>4, Zenon
    <2>2. CASE u = {}
      BY <2>1, <2>2, SumEq, Zenon
    <2>3. CASE u # {}
      <3> DEFINE x == Pick(u)
                 v == u \ {x}
                 g == SumOver(w, u)
                 h == SumOver(w, v)
      <3>1. x \in u
        BY <2>3, PickIn, Zenon
      <3>2. G[u] = w[x] + h[v]
        BY <2>3, Zenon
      <3>3. g[u] = w[x] + g[v]
        BY <2>1, <2>3, SumEq
      <3>4. v \in SUBSET s /\ v # s /\ v \subseteq u
        BY <3>1, Zenon
      <3>5. IsSum(h, w, v)
        BY <1>3, <3>4, Zenon
      <3>6. IsFiniteSet(v)
        BY <1>2, <3>4, FS_Subset, Zenon
      <3> HIDE DEF x, v, g, h, G
      <3>7. \A y \in SUBSET v : h[y] = g[y]
        BY <2>1, <3>4, <3>5, <3>6, SumAgree DEF g
      <3>8. h[v] = g[v]
        BY <3>7, Zenon
      <3> QED BY <3>2, <3>3, <3>8, Zenon DEF g
    <2> QED BY <2>2, <2>3, Zenon
  <1>5. IsSum(G, w, s)
    <2>1. ASSUME NEW u \in SUBSET s, u # {}
          PROVE  G[u] = w[Pick(u)] + G[u \ {Pick(u)}]
      <3> DEFINE v == u \ {Pick(u)}
      <3>1. Pick(u) \in u
        BY <2>1, PickIn, Zenon
      <3>2. v \in SUBSET s /\ v # s
        BY <3>1, Zenon
      <3>3. G[u] = w[Pick(u)] + SumOver(w, v)[v]
        BY <2>1, Zenon
      <3> HIDE DEF G, v
      <3>4. G[v] = SumOver(w, v)[v]
        BY <1>4, <3>2, Zenon
      <3> QED BY <3>3, <3>4, Zenon DEF v
    <2>2. G = [u \in SUBSET s |-> G[u]] /\ G[{}] = 0
      BY Zenon
    <2> HIDE DEF G
    <2>3. \A u \in SUBSET s :
            G[u] = IF u = {} THEN 0 ELSE w[Pick(u)] + G[u \ {Pick(u)}]
      BY <2>1, <2>2, Zenon
    <2> QED BY <2>2, <2>3, Zenon DEF IsSum
  <1>6. IsSum(SumOver(w, s), w, s)
    <2> HIDE DEF G
    <2> QED BY <1>5, Zenon DEF SumOver
  <1> QED BY <1>2, <1>6, Zenon
=============================================================================
