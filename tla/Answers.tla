------------------------------- MODULE Answers -------------------------------
(***************************************************************************)
(* Search queries and chat answers over the index (internal/ai/search*.go, *)
(* chat*.go, result_cache.go).  The index is not trusted: every hit is      *)
(* matched against the object row and its chunk rows, and against the       *)
(* caller's read permission, again and again on its way to the caller.      *)
(*                                                                         *)
(* A query is the script of the checks it still has to pass, one step per   *)
(* read of the database; between two steps an object may be rewritten or    *)
(* deleted, its chunks replaced, the caller's grant withdrawn and the       *)
(* bucket bound to a space.  None of these is undone, so that "it was       *)
(* allowed at an instant" is "it was allowed at every earlier instant".     *)
(***************************************************************************)
EXTENDS Integers, Sequences, FiniteSets, SequencesExt

CONSTANTS
    Docs,         \* indexed objects, one chunk each
    Asks,         \* queries and chats, run one after another
    Kind,         \* what an ask is: "search", "chat" or "stream"
    K,            \* hits asked for
    Reranking,    \* whether a reranker is configured
    Caching,      \* whether the result cache is enabled
    Pieces,       \* bound: pieces of a streamed answer
    MaxChanges    \* bound: changes of the world

VARIABLES
    object,   \* Docs -> revision of the current object, 0 once deleted
    chunk,    \* Docs -> revision of the chunk row, 0 once deleted
    index,    \* Docs -> the revision the index (a sink) has, 0 if none
    granted,  \* the objects the caller may read
    bound,    \* the bucket is bound to a space the caller cannot use
    cached,   \* the hits under the query's key in the result cache, or NoHits
    ask,      \* the asks
    changes

answerVars == <<object, chunk, index, granted, bound, cached, ask, changes>>

NoHits == {[doc |-> 0, rev |-> 0]}
World == [object |-> object, chunk |-> chunk, granted |-> granted,
          bound |-> bound]

\* A hit is [doc, rev].  A world admits it when the hit is the chunk of the
\* current object, the caller may read it and the bucket is not bound.
Admits(w, h) == /\ w.object[h.doc] # 0
                /\ w.chunk[h.doc] = h.rev
                /\ h.doc \in w.granted
                /\ ~w.bound

Init ==
    /\ object = [d \in Docs |-> 1]
    /\ chunk = [d \in Docs |-> 1]
    /\ index = [d \in Docs |-> 1]
    /\ granted \in {Docs} \cup {Docs \ {d} : d \in Docs}
    /\ bound = FALSE
    /\ cached = NoHits
    /\ ask = [a \in Asks |-> [pc |-> "new"]]
    /\ changes = 0

-----------------------------------------------------------------------------
(* The world changes.                                                       *)

Changed == changes < MaxChanges /\ changes' = changes + 1

Rewrite == /\ Changed
           /\ \E d \in Docs : /\ object[d] = 1
                              /\ object' = [object EXCEPT ![d] = 2]
           /\ UNCHANGED <<chunk, index, granted, bound, cached, ask>>

Delete == /\ Changed
          /\ \E d \in Docs : /\ object[d] # 0
                             /\ object' = [object EXCEPT ![d] = 0]
          /\ UNCHANGED <<chunk, index, granted, bound, cached, ask>>

\* The indexer replaces or drops the chunk row; the sink follows later.
Reindex == /\ Changed
           /\ \E d \in Docs : /\ chunk[d] \in {1} /\ object[d] # 1
                              /\ chunk' = [chunk EXCEPT ![d] = object[d]]
           /\ UNCHANGED <<object, index, granted, bound, cached, ask>>

Push == /\ \E d \in Docs : /\ index[d] # chunk[d]
                           /\ index' = [index EXCEPT ![d] = chunk[d]]
        /\ UNCHANGED <<object, chunk, granted, bound, cached, ask, changes>>

Revoke == /\ Changed
          /\ \E d \in granted : granted' = granted \ {d}
          /\ UNCHANGED <<object, chunk, index, bound, cached, ask>>

Bind == /\ Changed
        /\ ~bound /\ bound' = TRUE
        /\ UNCHANGED <<object, chunk, index, granted, cached, ask>>

CacheExpires == /\ cached # NoHits /\ cached' = NoHits
                /\ UNCHANGED <<object, chunk, index, granted, bound, ask, changes>>

-----------------------------------------------------------------------------
(* The scripts.  A step is [op, doc]: the reads of resolve() for each hit,  *)
(* in the order of the code, then the steps of the callers.                 *)

Do(op) == <<[op |-> op, doc |-> 0]>>
ForEach(hits, ops) ==
    FlattenSeq([i \in 1..Len(hits) |->
        [j \in 1..Len(ops) |-> [op |-> ops[j], doc |-> hits[i].doc]]])

\* canonicalResolver.object: the row by id, the current row, the chunk rows,
\* the current row again.
canonicalSteps(hits) == ForEach(hits, <<"byID", "current", "list", "current">>)

\* admitHits: canonicalize, authorize each hit, canonicalize what is left.
\* The last part is planned once the denied hits are known.
admitSteps(hits) == canonicalSteps(hits) \o ForEach(hits, <<"auth">>) \o Do("again")

\* rerankOrTrim, and the boundary check of deliverFresh after it.
deliverSteps(hits) ==
    admitSteps(hits) \o Do(IF Reranking THEN "rerank" ELSE "trim") \o Do("P1")

\* revalidateHits: what a chat does before each piece of its answer.
revalidateSteps(hits) == Do("P0") \o admitSteps(hits) \o Do("P1")

-----------------------------------------------------------------------------
(* The steps.                                                               *)

\* Asks run one after another; at most one is open.
Open(a) == ask[a].pc \notin {"new", "done", "failed"}
Set(a, r) == ask' = [ask EXCEPT ![a] = r]

\* The hits of ask a, and whether the world admitted them when the checks
\* they have just passed began.
Sent(a) == {[hit |-> h, admitted |-> Admits(ask[a].since, h)] :
                h \in ToSet(ask[a].hits)}

Failed(a) == [pc |-> "failed", sent |-> ask[a].sent]

\* The ask goes on with its script, or fails as a whole.
Pass(a) == Set(a, [ask[a] EXCEPT !.script = Tail(@)])
Check(a, ok) == IF ok THEN Pass(a) ELSE Set(a, Failed(a))

Head1(a, op) == /\ ask[a].pc = "run"
                /\ ask[a].script # << >>
                /\ Head(ask[a].script).op = op
Doc(a) == Head(ask[a].script).doc
HitOf(a) == CHOOSE h \in ToSet(ask[a].hits) : h.doc = Doc(a)
World0 == UNCHANGED <<object, chunk, index, granted, bound, changes>>

\* The order of the hits is the index's: fixed here by the document.
Retrieved(a) == SetToSortSeq({[doc |-> d, rev |-> index[d]] :
                                 d \in {e \in Docs : index[e] # 0}},
                             LAMBDA x, y : x.doc < y.doc)

\* Query: the boundary check P0, then the cache.  `since` is the world when
\* the current series of checks began, and `sent` what left the server for
\* the reranker, the model or the caller, with the `since` of that moment.
Query(a) ==
    /\ ask[a].pc = "new"
    /\ \A b \in Asks : ~Open(b) /\ (b < a => ask[b].pc # "new")
    /\ Set(a, IF bound THEN [pc |-> "failed", sent |-> {}]
              ELSE [pc |-> "lookup", sent |-> {}])
    /\ World0 /\ UNCHANGED cached

Begin(a, hits, script, fresh) ==
    Set(a, [pc |-> "run", since |-> World, sent |-> ask[a].sent,
            hits |-> hits, ranked |-> << >>, seen |-> 0, fresh |-> fresh,
            retrieved |-> hits, script |-> script, stage |-> "search",
            pieces |-> 0])

\* Mutant of CacheHit: the cached hits are delivered as they are.
CacheTrusted(a) ==
    /\ ask[a].pc = "lookup"
    /\ Caching /\ cached # NoHits
    /\ LET hits == SetToSortSeq(cached, LAMBDA x, y : x.doc < y.doc)
       IN  Begin(a, hits, Do("trim") \o Do("P1"), FALSE)
    /\ World0 /\ UNCHANGED cached

\* deliverCached admits the cached hits as if they had just been retrieved.
CacheHit(a) ==
    /\ ask[a].pc = "lookup"
    /\ Caching /\ cached # NoHits
    /\ LET hits == SetToSortSeq(cached, LAMBDA x, y : x.doc < y.doc)
       IN  Begin(a, hits, deliverSteps(hits), FALSE)
    /\ World0 /\ UNCHANGED cached

\* searchAndMerge, validateRetrieved, and deliverFresh.
queryFresh(a) ==
    /\ ask[a].pc = "lookup"
    /\ ~Caching \/ cached = NoHits
    /\ LET hits == Retrieved(a)
       IN  Begin(a, hits, canonicalSteps(hits) \o deliverSteps(hits), TRUE)
    /\ World0 /\ UNCHANGED cached

\* GetObjectByID finds the row, deleted or not; the check refuses a deleted
\* one and the observation is kept for the comparisons that follow.
GetObjectByID(a) ==
    /\ Head1(a, "byID")
    /\ IF object[Doc(a)] = 0 THEN Set(a, Failed(a))
       ELSE Set(a, [ask[a] EXCEPT !.script = Tail(@), !.seen = object[Doc(a)]])
    /\ World0 /\ UNCHANGED cached

currentCanonicalObject(a) ==
    /\ Head1(a, "current")
    /\ Check(a, object[Doc(a)] # 0 /\ object[Doc(a)] = ask[a].seen)
    /\ World0 /\ UNCHANGED cached

\* matchHitToCanonical: the chunk row is there with the hit's content.
ListChunksForObject(a) ==
    /\ Head1(a, "list")
    /\ Check(a, chunk[Doc(a)] = HitOf(a).rev)
    /\ World0 /\ UNCHANGED cached

\* filterAuthorizedHits drops a denied hit.
CanReadObject(a) ==
    /\ Head1(a, "auth")
    /\ Set(a, [ask[a] EXCEPT
                  !.script = Tail(@),
                  !.hits = SelectSeq(@, LAMBDA h : h.doc # Doc(a)
                                                   \/ h.doc \in granted)])
    /\ World0 /\ UNCHANGED cached

\* The second canonicalization of admitHits.
Again(a) ==
    /\ Head1(a, "again")
    /\ Set(a, [ask[a] EXCEPT !.script = canonicalSteps(ask[a].hits) \o Tail(@)])
    /\ World0 /\ UNCHANGED cached

\* trimHits; an ask with no hits left has nothing to rerank.
Trim(a) ==
    /\ \/ Head1(a, "trim")
       \/ Head1(a, "rerank") /\ ask[a].hits = << >>
    /\ Set(a, [ask[a] EXCEPT !.script = Tail(@),
                             !.hits = SubSeq(@, 1, IF Len(@) > K THEN K ELSE Len(@))])
    /\ World0 /\ UNCHANGED cached

\* rerankOrTrim with hits: the boundary, another admission, a snapshot; the
\* reranker; one more admission, whose survivors keep the reranked order.
rerankOrTrim(a) ==
    /\ Head1(a, "rerank") /\ ask[a].hits # << >>
    /\ Set(a, [ask[a] EXCEPT
                  !.script = Do("P1") \o admitSteps(ask[a].hits) \o Do("snapshot")
                             \o Tail(@)])
    /\ World0 /\ UNCHANGED cached

Snapshot(a) ==
    /\ Head1(a, "snapshot")
    /\ Set(a, [ask[a] EXCEPT !.script = canonicalSteps(ask[a].hits) \o Do("rank")
                                        \o Tail(@)])
    /\ World0 /\ UNCHANGED cached

\* The reranker, external, sees the texts and answers any order of some of
\* them; guardReranked refuses a hit it was not given.  Its failure leaves
\* the order as it was.
Rerank(a) ==
    /\ Head1(a, "rank")
    /\ \E S \in SUBSET ToSet(ask[a].hits) :
          \E order \in SetToSeqs(S) \cup {ask[a].hits} :
              Set(a, [ask[a] EXCEPT
                        !.sent = @ \cup Sent(a), !.since = World,
                        !.ranked = order,
                        !.script = admitSteps(ask[a].hits) \o Do("retain")
                                   \o Tail(@)])
    /\ World0 /\ UNCHANGED cached

\* Mutant of retainAdmittedHits: the reranked list is kept as it is.
RetainAll(a) ==
    /\ Head1(a, "retain")
    /\ Set(a, [ask[a] EXCEPT
                  !.script = Do("trim") \o Tail(@),
                  !.hits = ask[a].ranked])
    /\ World0 /\ UNCHANGED cached

retainAdmittedHits(a) ==
    /\ Head1(a, "retain")
    /\ Set(a, [ask[a] EXCEPT
                  !.script = Do("trim") \o Tail(@),
                  !.hits = SelectSeq(ask[a].ranked,
                                     LAMBDA h : h \in ToSet(ask[a].hits))])
    /\ World0 /\ UNCHANGED cached

Boundary(a) ==
    /\ Head1(a, "P0") \/ Head1(a, "P1")
    /\ Check(a, ~bound)
    /\ World0 /\ UNCHANGED cached

-----------------------------------------------------------------------------
(* The end of a script: a query delivers, a chat talks to the model.        *)

Over(a, stage) == /\ ask[a].pc = "run"
                  /\ ask[a].script = << >>
                  /\ ask[a].stage = stage

\* queryFresh puts the hits as they were retrieved into the cache, before
\* any filter; a search is answered, a chat first revalidates its context.
Deliver(a) ==
    /\ Over(a, "search")
    /\ cached' = IF Caching /\ ask[a].fresh THEN ToSet(ask[a].retrieved) ELSE cached
    /\ IF Kind[a] = "search"
       THEN Set(a, [pc |-> "done", sent |-> ask[a].sent \cup Sent(a)])
       ELSE Set(a, [ask[a] EXCEPT !.stage = "prompt", !.since = World,
                                  !.retrieved = ask[a].hits,
                                  !.script = revalidateSteps(ask[a].hits)])
    /\ World0

\* chatResourceGuard: a hit that is no longer admitted revokes the chat.
Revoked(a) == ask[a].hits # ask[a].retrieved

GuardFails(a) ==
    /\ \E s \in {"prompt", "piece", "finish"} : Over(a, s)
    /\ Revoked(a)
    /\ Set(a, Failed(a))
    /\ World0 /\ UNCHANGED cached

Refresh(a, stage) ==
    Set(a, [ask[a] EXCEPT !.stage = stage, !.since = World,
                          !.sent = @ \cup Sent(a),
                          !.script = revalidateSteps(ask[a].hits)])

\* The context goes to the model; a streamed piece, or the whole answer,
\* comes back and is held until the guard has refreshed.
Prompt(a) ==
    /\ Over(a, "prompt") /\ ~Revoked(a)
    /\ Refresh(a, IF Kind[a] = "stream" THEN "piece" ELSE "finish")
    /\ World0 /\ UNCHANGED cached

\* wrap's callback: the piece is written, the model goes on or stops.
Piece(a) ==
    /\ Over(a, "piece") /\ ~Revoked(a)
    /\ \E more \in BOOLEAN :
          /\ more => ask[a].pieces < Pieces
          /\ Set(a, [ask[a] EXCEPT !.stage = IF more THEN "piece" ELSE "finish",
                                   !.sent = @ \cup Sent(a), !.since = World,
                                   !.pieces = IF more THEN @ + 1 ELSE @,
                                   !.script = revalidateSteps(ask[a].hits)])
    /\ World0 /\ UNCHANGED cached

\* finish: the answer and its citations.
finish(a) ==
    /\ Over(a, "finish") /\ ~Revoked(a)
    /\ Set(a, [pc |-> "done", sent |-> ask[a].sent \cup Sent(a)])
    /\ World0 /\ UNCHANGED cached

Step(a) ==
    \/ Query(a) \/ CacheHit(a) \/ queryFresh(a) \/ GetObjectByID(a)
    \/ currentCanonicalObject(a) \/ ListChunksForObject(a) \/ CanReadObject(a)
    \/ Again(a) \/ Trim(a) \/ rerankOrTrim(a) \/ Snapshot(a) \/ Rerank(a)
    \/ retainAdmittedHits(a) \/ Boundary(a) \/ Deliver(a) \/ GuardFails(a)
    \/ Prompt(a) \/ Piece(a) \/ finish(a)

Next == \/ Rewrite \/ Delete \/ Reindex \/ Push \/ Revoke \/ Bind \/ CacheExpires
        \/ \E a \in Asks : Step(a)

Spec == Init /\ [][Next]_answerVars

-----------------------------------------------------------------------------
TypeOK ==
    /\ object \in [Docs -> 0..2]
    /\ chunk \in [Docs -> 0..2]
    /\ index \in [Docs -> 0..2]
    /\ granted \subseteq Docs
    /\ bound \in BOOLEAN
    /\ changes \in 0..MaxChanges
    /\ \A a \in Asks : ask[a].pc \in {"new", "lookup", "run", "done", "failed"}

\* Whatever leaves the server -- the texts shown to the reranker, a chat's
\* context, each streamed piece built from it, the answer and its citations
\* -- was the chunk of the current object, readable by the caller and in no
\* foreign space, when the last series of checks before it began: after the
\* retrieval or the cache lookup, after the reranker's answer, after the
\* model's last piece.  No cached result and no slow model outlives a
\* revoked grant, a deleted object or a rewritten chunk.
SentAdmitted ==
    \A a \in Asks : ask[a].pc \in {"run", "done", "failed"} =>
        \A s \in ask[a].sent : s.admitted

=============================================================================
