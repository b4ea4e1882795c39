------------------------------- MODULE Ranking -------------------------------
(***************************************************************************)
(* The pure parts of indexing and search (internal/ai): the chunker, the    *)
(* in-memory BM25 index's bookkeeping, the fusion and the reranking of hit  *)
(* lists, the Luhn test of the PII scan and the cost of a model call.  Each *)
(* is checked against what it should compute.                               *)
(***************************************************************************)
EXTENDS Integers, Sequences, FiniteSets, SequencesExt

CONSTANTS
    Terms,      \* tokens
    MaxInt,     \* the largest signed integer; an unsigned one is 2*MaxInt+1
    Scale,      \* prices are per Scale tokens (1000 in the code)
    RRFK        \* the constant of reciprocal rank fusion (60 in the code)

-----------------------------------------------------------------------------
(* The chunker.  A text is its number of runes n; a chunk is <<start, end>>, *)
(* the runes start+1..end.  Trimming is left out: no rune is a space.       *)

EffectiveOverlap(window, overlap) ==
    IF overlap < 0 \/ overlap >= window THEN window \div 8 ELSE overlap

\* Mutant of ChunkStep: chunks that only touch.
StepWindow(window, overlap) == window

ChunkStep(window, overlap) ==
    IF window - EffectiveOverlap(window, overlap) <= 0 THEN window
    ELSE window - EffectiveOverlap(window, overlap)

Clipped(e, n) == IF e > n THEN n ELSE e

RECURSIVE ChunkFrom(_, _, _, _)
ChunkFrom(start, n, window, step) ==
    IF start >= n THEN << >>
    ELSE LET end == Clipped(start + window, n) IN
         IF end = n THEN << <<start, end>> >>
         ELSE << <<start, end>> >> \o ChunkFrom(start + step, n, window, step)

Chunk(n, window, overlap) == ChunkFrom(0, n, window, ChunkStep(window, overlap))

\* The chunks cover the text from its first to its last rune, each is one
\* window long but the last, and neighbours share exactly the overlap.
ChunksCover(n, window, overlap) ==
    LET c == Chunk(n, window, overlap)
    IN  /\ (n = 0) = (c = << >>)
        /\ n > 0 => c[1][1] = 0 /\ c[Len(c)][2] = n
        /\ \A i \in 1..(Len(c) - 1) :
              /\ c[i][2] - c[i][1] = window
              /\ c[i][2] - c[i + 1][1] = EffectiveOverlap(window, overlap)

-----------------------------------------------------------------------------
(* BM25.  A chunk is [id, obj, tenant, toks]; an index keeps the documents, *)
(* the document frequencies, the documents per object and two totals.       *)

EmptyIndex == [docs |-> {}, df |-> [t \in Terms |-> 0], totalDoc |-> 0,
               totalLen |-> 0]

insertDocLocked(b, c) ==
    [docs |-> {d \in b.docs : d.id # c.id} \cup {c},
     df |-> [t \in Terms |-> b.df[t] + IF t \in ToSet(c.toks) THEN 1 ELSE 0],
     totalDoc |-> b.totalDoc + 1,
     totalLen |-> b.totalLen + Len(c.toks)]

\* Mutant of RemoveDoc: one occurrence, not one document, leaves df.
RemoveDocByToken(b, d) ==
    [docs |-> b.docs \ {d},
     df |-> [t \in Terms |->
        b.df[t] - Cardinality({i \in DOMAIN d.toks : d.toks[i] = t})],
     totalDoc |-> b.totalDoc - 1,
     totalLen |-> b.totalLen - Len(d.toks)]

\* A term leaves the frequency map when its count would reach zero.
RemoveDoc(b, d) ==
    [docs |-> b.docs \ {d},
     df |-> [t \in Terms |-> IF t \notin ToSet(d.toks) THEN b.df[t]
                             ELSE IF b.df[t] <= 1 THEN 0 ELSE b.df[t] - 1],
     totalDoc |-> b.totalDoc - 1,
     totalLen |-> b.totalLen - Len(d.toks)]

removeObjectLocked(b, obj) ==
    FoldSeq(LAMBDA d, acc : RemoveDoc(acc, d), b,
            SetToSeq({d \in b.docs : d.obj = obj}))

removeTenantLocked(b, tenant) ==
    FoldSeq(LAMBDA o, acc : removeObjectLocked(acc, o), b,
            SetToSeq({d.obj : d \in {e \in b.docs : e.tenant = tenant}}))

InsertAll(b, cs) == FoldSeq(LAMBDA c, acc : insertDocLocked(acc, c), b, cs)

\* validateScopedChunksLocked: all chunks are the object's, ids are distinct
\* and none belongs to another object.
ValidScoped(b, obj, cs) ==
    /\ \A i, j \in DOMAIN cs : cs[i].id = cs[j].id => i = j
    /\ \A i \in DOMAIN cs : cs[i].obj = obj
    /\ \A i \in DOMAIN cs : \A d \in b.docs : d.id = cs[i].id => d.obj = obj

UpsertScopedObjectChunks(b, obj, cs) ==
    IF ValidScoped(b, obj, cs) THEN InsertAll(removeObjectLocked(b, obj), cs)
    ELSE b

BuildFromRepo(b, tenant, cs) == InsertAll(removeTenantLocked(b, tenant), cs)

Operate(b, op) ==
    CASE op.op = "upsert" -> UpsertScopedObjectChunks(b, op.obj, op.chunks)
      [] op.op = "delete" -> removeObjectLocked(b, op.obj)
      [] op.op = "build"  -> BuildFromRepo(b, op.tenant, op.chunks)

\* After any sequence of upserts, deletions and rebuilds the frequencies and
\* totals are those of the documents the index holds: they are kept up by
\* increments, and a document missed once would bias every later score.
IndexExact(ops) ==
    LET b == FoldLeft(LAMBDA acc, op : Operate(acc, op), EmptyIndex, ops)
    IN  /\ \A t \in Terms :
              b.df[t] = Cardinality({d \in b.docs : t \in ToSet(d.toks)})
        /\ b.totalDoc = Cardinality(b.docs)
        /\ b.totalLen = FoldSeq(LAMBDA d, n : n + Len(d.toks), 0, SetToSeq(b.docs))

-----------------------------------------------------------------------------
(* Fusion.  A hit list is a sequence of chunk ids.  Scores are sums of       *)
(* 1/(RRFK + rank), compared here over their common denominator.            *)

Common == (RRFK + 1) * (RRFK + 2) * (RRFK + 3)

Contribution(list, id) ==
    FoldSeq(LAMBDA i, n : n + Common \div (RRFK + i), 0,
            SetToSeq({i \in DOMAIN list : list[i] = id}))

Fused(vec, lex, id) == Contribution(vec, id) + Contribution(lex, id)

\* One round of the insertion sort: the element at j moves to the front past
\* every smaller score; ties go by chunk id.
RECURSIVE Sink(_, _, _)
Sink(h, score, j) ==
    IF /\ j > 1
       /\ \/ score[h[j]] > score[h[j - 1]]
          \/ score[h[j]] = score[h[j - 1]] /\ h[j] < h[j - 1]
    THEN Sink([h EXCEPT ![j] = h[j - 1], ![j - 1] = h[j]], score, j - 1)
    ELSE h

sortHitsDesc(h, score) ==
    FoldLeft(LAMBDA acc, i : Sink(acc, score, i), h, [i \in DOMAIN h |-> i])

\* The accumulator is a Go map: the list to sort starts in any order.
rrfMerge(vec, lex, order) ==
    sortHitsDesc(order, [id \in ToSet(order) |-> Fused(vec, lex, id)])

\* The fused list does not depend on the order in which Go iterates the map,
\* holds every hit of either list once, and is sorted by score.
FusionDetermined(vec, lex) ==
    LET ids == ToSet(vec) \cup ToSet(lex)
        merged == {rrfMerge(vec, lex, o) : o \in SetToSeqs(ids)}
    IN  /\ Cardinality(merged) = 1
        /\ \A m \in merged :
              /\ Len(m) = Cardinality(ids) /\ ToSet(m) = ids
              /\ \A i \in 1..(Len(m) - 1) :
                    Fused(vec, lex, m[i]) >= Fused(vec, lex, m[i + 1])

-----------------------------------------------------------------------------
(* HTTPReranker.parseRerankResponse: the indexes the service answers, any   *)
(* integers in any number, pick from the hits.                              *)

RerankTop(k, n) == IF k <= 0 \/ k > n THEN n ELSE k

parseRerankResponse(n, answer, k) ==
    IF answer = << >> THEN [i \in 1..RerankTop(k, n) |-> i]
    ELSE LET picked == SelectSeq([i \in DOMAIN answer |-> answer[i] + 1],
                                 LAMBDA i : i \in 1..n)
         IN  SubSeq(picked, 1, Clipped(RerankTop(k, n), Len(picked)))

\* guardReranked refuses a list that names a hit twice.
guardReranked(list) == \A i, j \in DOMAIN list : list[i] = list[j] => i = j

\* What passes both is a list of at most k distinct hits of the input.
RerankGuarded(n, answer, k) ==
    LET out == parseRerankResponse(n, answer, k)
    IN  guardReranked(out) => /\ ToSet(out) \subseteq 1..n
                              /\ Len(out) = Cardinality(ToSet(out))
                              /\ Len(out) <= RerankTop(k, n)

-----------------------------------------------------------------------------
(* The Luhn test, from the left with the parity of the length.              *)

Doubled(d) == IF 2 * d > 9 THEN 2 * d - 9 ELSE 2 * d

LuhnSum(digits) ==
    FoldLeft(LAMBDA s, i : s + IF (i - 1) % 2 = Len(digits) % 2
                               THEN Doubled(digits[i]) ELSE digits[i],
             0, [i \in DOMAIN digits |-> i])

luhn(digits, shortest) == Len(digits) >= shortest /\ LuhnSum(digits) % 10 = 0

\* It detects every single wrong digit and counts from the right end.
LuhnDetects(digits) ==
    luhn(digits, 1) =>
        /\ \A i \in DOMAIN digits : \A d \in 0..9 \ {digits[i]} :
              ~luhn([digits EXCEPT ![i] = d], 1)
        /\ luhn(<<0>> \o digits, 1)

-----------------------------------------------------------------------------
(* The cost of a call, in micros, in 64-bit arithmetic.                     *)

UMod == 2 * MaxInt + 2

\* bits.Mul64 and bits.Div64 on the double-width product.
costPerThousand(tokens, price) ==
    LET product == tokens * price
        hi == product \div UMod
    IN  IF hi >= Scale \/ product \div Scale > MaxInt
        THEN [whole |-> 0, rem |-> 0, ok |-> FALSE]
        ELSE [whole |-> product \div Scale, rem |-> product % Scale, ok |-> TRUE]

\* Mutant of costMicros: each part is rounded down on its own.
CostNoCarry(p, c, pp, cp) ==
    LET x == costPerThousand(p, pp)
        y == costPerThousand(c, cp)
    IN  IF p < 0 \/ c < 0 \/ ~x.ok \/ ~y.ok \/ x.whole > MaxInt - y.whole THEN 0
        ELSE x.whole + y.whole

costMicros(p, c, pp, cp) ==
    LET x == costPerThousand(p, pp)
        y == costPerThousand(c, cp)
        carry == (x.rem + y.rem) \div Scale
    IN  IF p < 0 \/ c < 0 \/ ~x.ok \/ ~y.ok \/ x.whole > MaxInt - y.whole THEN 0
        ELSE IF x.whole + y.whole > MaxInt - carry THEN 0
        ELSE x.whole + y.whole + carry

\* The cost is exact, rounded down once, whenever it can be represented, and
\* zero when it cannot; no intermediate result wraps around.
CostExact(p, c, pp, cp) ==
    LET exact == (p * pp + c * cp) \div Scale
    IN  costMicros(p, c, pp, cp) = IF exact > MaxInt THEN 0 ELSE exact

=============================================================================
