-------------------------- MODULE MultipartProofs --------------------------
(***************************************************************************)
(* The proof that a multipart upload becomes at most one object, that the  *)
(* idempotency key lets one request at a time finish it, that what a retry *)
(* is answered from is true, that the object has the content its parts     *)
(* list names and that the tenant's usage covers it, for any number of     *)
(* requests, parts, faults and restarts.                                   *)
(***************************************************************************)
EXTENDS Multipart, Sums, TLAPS

Fields == {"op", "pc", "part", "write", "mixed", "manifest", "blob"}

\* The request has the session's upload in hand, and no row yet.
Assembling(c) == proc[c].op = "complete" /\ proc[c].pc \in {"merge", "save"}

\* The request has written its row, and its event is still to be sent.
Saved(c) == proc[c].op = "complete" /\ proc[c].pc \in {"persist", "drop"}

Shape ==
    /\ DOMAIN proc = Clients /\ \A c \in Clients : DOMAIN proc[c] = Fields
    /\ DOMAIN key = {"complete", "abort"}
    /\ session \in BOOLEAN /\ begun \in BOOLEAN
    /\ emitted \in Nat /\ Len(objects) \in Nat

\* A request that executes a completion or an abort has its claim, which nobody
\* else can get before it ends; InitMultipart runs once.
Claimed ==
    /\ \A c \in Clients : proc[c].op \in {"none", "init", "part", "complete", "abort"}
    /\ \A c \in Clients : proc[c].op \in {"complete", "abort"} => key[proc[c].op] # "free"
    /\ ~begun => ~session /\ objects = <<>> /\ \A c \in Clients : proc[c].op = "none"

\* The session is what becomes the object: it is in memory, or with the one
\* completion that took it, or the object is there, or it is lost.
OneToken ==
    /\ session => objects = <<>> /\ \A c \in Clients : ~Assembling(c)
    /\ \A c \in Clients : Assembling(c) => objects = <<>>
    /\ \A c \in Clients : Saved(c) => Len(objects) = 1 /\ emitted = 0

IInv == Shape /\ Claimed /\ ClaimExclusive /\ OneToken /\ AtMostOnce /\ ReplayTruthful

\* A step that starts no claim, takes no session and writes no row: claims are
\* given up only by who has them, and an answer is recorded, and the event
\* sent, only when the object is there.
LEMMA Quiet ==
    ASSUME IInv,
           DOMAIN proc' = Clients, DOMAIN key' = {"complete", "abort"},
           \A d \in Clients :
               /\ DOMAIN proc'[d] = Fields
               /\ \/ proc'[d].op = proc[d].op \/ proc'[d].op = "none"
                  \/ begun /\ proc'[d].op = "part"
               /\ Assembling(d)' => Assembling(d)
               /\ Saved(d)' => Saved(d),
           session' = session \/ session' = FALSE,
           UNCHANGED <<objects, begun>>,
           \A op \in {"complete", "abort"} :
               key'[op] = "free" => key[op] = "free" \/ \A d \in Clients : proc'[d].op # op,
           key'["complete"] = "completed" => key["complete"] = "completed" \/ objects # <<>>,
           \/ emitted' = emitted
           \/ emitted' = 1 /\ Len(objects) = 1 /\ \A d \in Clients : ~Saved(d)'
    PROVE  IInv'
  <1>1. Shape'
    BY Zenon DEF IInv, Shape
  <1>2. Claimed'
    BY DEF IInv, Claimed, Shape
  <1>3. ClaimExclusive'
    BY Zenon DEF IInv, ClaimExclusive
  <1>4. OneToken'
    <2>1. session' => session
      BY Zenon DEF IInv, Shape
    <2>2. session' => objects' = <<>> /\ \A c \in Clients : ~Assembling(c)'
      BY <2>1, Zenon DEF IInv, OneToken
    <2>3. \A c \in Clients : Assembling(c)' => objects' = <<>>
      BY Zenon DEF IInv, OneToken
    <2>4. \A c \in Clients : Saved(c)' => Len(objects') = 1 /\ emitted' = 0
      BY DEF IInv, OneToken
    <2> QED BY <2>2, <2>3, <2>4, Zenon DEF OneToken
  <1>5. AtMostOnce'
    BY Zenon DEF IInv, AtMostOnce
  <1>6. ReplayTruthful'
    BY Zenon DEF IInv, ReplayTruthful
  <1> QED BY <1>1, <1>2, <1>3, <1>4, <1>5, <1>6, Zenon DEF IInv

\* InitMultipart opens the only session there will be.
LEMMA InitStoreStep ==
    ASSUME IInv, NEW c \in Clients, InitStore(c)
    PROVE  IInv'
  <1>1. /\ ~begun /\ begun' /\ session' = TRUE /\ objects = <<>>
        /\ \A d \in Clients : proc[d].op = "none"
        /\ UNCHANGED <<key, objects, emitted>>
    BY Zenon DEF InitStore, IInv, Claimed, tables
  <1>2. /\ DOMAIN proc' = Clients
        /\ \A d \in Clients \ {c} : proc'[d] = proc[d]
        /\ proc'[c].op = "init" /\ proc'[c].pc = "row" /\ DOMAIN proc'[c] = Fields
    BY Zenon DEF InitStore, IInv, Shape, Idle, Fields
  <1>3. \A d \in Clients : ~Assembling(d)' /\ ~Saved(d)'
    BY <1>1, <1>2, Zenon DEF Assembling, Saved
  <1>4. Shape' /\ Claimed'
    BY <1>1, <1>2, Zenon DEF InitStore, IInv, Shape, Claimed
  <1>5. ClaimExclusive' /\ OneToken' /\ AtMostOnce' /\ ReplayTruthful'
    BY <1>1, <1>2, <1>3 DEF IInv, ClaimExclusive, OneToken, AtMostOnce, ReplayTruthful
  <1> QED BY <1>4, <1>5, Zenon DEF IInv

\* A claim is granted to a request only while no other has it.
LEMMA ClaimStep ==
    ASSUME IInv, NEW c \in Clients, NEW op \in {"complete", "abort"}, Claim(c, op)
    PROVE  IInv'
  <1>1. /\ begun /\ key[op] = "free" /\ UNCHANGED <<session, begun, objects, emitted>>
        /\ key' = [key EXCEPT ![op] = "in_progress"]
    BY Zenon DEF Claim, Claimable, storage
  <1>2. /\ DOMAIN proc' = Clients
        /\ \A d \in Clients \ {c} : proc'[d] = proc[d]
        /\ proc'[c].op = op /\ proc'[c].pc = "load" /\ DOMAIN proc'[c] = Fields
    BY Zenon DEF Claim, IInv, Shape, Idle, Fields
  <1>3. \A d \in Clients : proc[d].op # op
    BY <1>1, Zenon DEF IInv, Claimed
  <1>4. \A d \in Clients : (Assembling(d)' => Assembling(d)) /\ (Saved(d)' => Saved(d))
    BY <1>2, Zenon DEF Assembling, Saved
  <1>5. Shape' /\ Claimed'
    BY <1>1, <1>2, Zenon DEF IInv, Shape, Claimed
  <1>6. ClaimExclusive'
    BY <1>2, <1>3 DEF IInv, ClaimExclusive
  <1>7. OneToken' /\ AtMostOnce'
    BY <1>1, <1>4, Zenon DEF IInv, OneToken, AtMostOnce
  <1>8. ReplayTruthful'
    BY <1>1, Zenon DEF IInv, ReplayTruthful, Shape
  <1> QED BY <1>5, <1>6, <1>7, <1>8, Zenon DEF IInv

\* What Goto and End do to the requests.
LEMMA Moves ==
    ASSUME IInv, NEW c \in Clients
    PROVE  /\ \A pc : Goto(c, pc) =>
                 /\ DOMAIN proc' = Clients /\ \A d \in Clients : DOMAIN proc'[d] = Fields
                 /\ \A d \in Clients \ {c} : proc'[d] = proc[d]
                 /\ proc'[c].op = proc[c].op /\ proc'[c].pc = pc
           /\ End(c) =>
                 /\ DOMAIN proc' = Clients /\ \A d \in Clients : DOMAIN proc'[d] = Fields
                 /\ \A d \in Clients \ {c} : proc'[d] = proc[d]
                 /\ proc'[c].op = "none"
  BY DEF IInv, Shape, Goto, End, Idle, Fields

\* The completion that takes the session is the only one with anything to assemble.
LEMMA ConsumeStep ==
    ASSUME IInv, NEW c \in Clients, CompleteConsume(c)
    PROVE  IInv'
  <1>1. UNCHANGED <<key, objects, emitted, begun>> /\ proc[c].op = "complete"
    BY Zenon DEF CompleteConsume, Quietly, tables, At
  <1>2. CASE session
    <2>1. session' = FALSE /\ Goto(c, "merge")
      BY <1>2, Zenon DEF CompleteConsume, Leftover
    <2>2. /\ DOMAIN proc' = Clients /\ \A d \in Clients : DOMAIN proc'[d] = Fields
          /\ \A d \in Clients \ {c} : proc'[d] = proc[d]
          /\ proc'[c].op = "complete" /\ proc'[c].pc = "merge"
      BY <1>1, <2>1, Moves, Zenon
    <2>3. objects = <<>> /\ \A d \in Clients : Saved(d)' => Saved(d)
      BY <1>2, <2>2, Zenon DEF IInv, OneToken, Saved
    <2>4. Shape' /\ Claimed'
      BY <1>1, <2>1, <2>2, Zenon DEF IInv, Shape, Claimed
    <2>5. ClaimExclusive' /\ OneToken' /\ AtMostOnce' /\ ReplayTruthful'
      BY <1>1, <2>1, <2>2, <2>3 DEF IInv, ClaimExclusive, OneToken, AtMostOnce, ReplayTruthful
    <2> QED BY <2>4, <2>5, Zenon DEF IInv
  <1>3. CASE ~session
    <2>1. session' = session /\ Goto(c, "release")
      BY <1>3, Zenon DEF CompleteConsume
    <2>2. /\ DOMAIN proc' = Clients /\ \A d \in Clients : DOMAIN proc'[d] = Fields
          /\ \A d \in Clients \ {c} : proc'[d] = proc[d]
          /\ proc'[c].op = "complete" /\ proc'[c].pc = "release"
      BY <1>1, <2>1, Moves, Zenon
    <2>3. \A d \in Clients : (Assembling(d)' => Assembling(d)) /\ (Saved(d)' => Saved(d))
      BY <2>2, Zenon DEF Assembling, Saved
    <2>4. DOMAIN key' = {"complete", "abort"}
      BY <1>1, Zenon DEF IInv, Shape
    <2> QED BY <1>1, <2>1, <2>2, <2>3, <2>4, Quiet, Zenon
  <1> QED BY <1>2, <1>3, Zenon

\* The row is written by who took the session, so it is the first.
LEMMA SaveStep ==
    ASSUME IInv, NEW c \in Clients, CompleteSave(c)
    PROVE  IInv'
  <1>1. UNCHANGED <<key, session, emitted, begun>> /\ proc[c].op = "complete" /\ Assembling(c)
    BY Zenon DEF CompleteSave, Quietly, storage, At, Assembling
  <1>2. objects = <<>> /\ ~session
    BY <1>1, Zenon DEF IInv, OneToken
  <1>3. emitted = 0
    BY <1>2 DEF IInv, AtMostOnce, Shape
  <1>4. Len(objects') = 1 /\ objects' # <<>>
    BY <1>2 DEF CompleteSave
  <1>5. PICK pc \in {"persist", "release"} : Goto(c, pc)
    BY Zenon DEF CompleteSave
  <1>6. /\ DOMAIN proc' = Clients /\ \A d \in Clients : DOMAIN proc'[d] = Fields
        /\ \A d \in Clients \ {c} : proc'[d] = proc[d]
        /\ proc'[c].op = "complete" /\ proc'[c].pc = pc
    BY <1>1, <1>5, Moves, Zenon
  <1>7. \A d \in Clients \ {c} : proc[d].op # "complete"
    BY <1>1, Zenon DEF IInv, ClaimExclusive
  <1>8. \A d \in Clients : ~Assembling(d)'
    BY <1>6, <1>7, Zenon DEF Assembling
  <1>9. begun
    BY <1>1, Zenon DEF IInv, Claimed
  <1>10. Shape' /\ Claimed'
    BY <1>1, <1>4, <1>6, <1>9 DEF IInv, Shape, Claimed
  <1>11. ClaimExclusive'
    BY <1>1, <1>6 DEF IInv, ClaimExclusive
  <1>12. OneToken' /\ AtMostOnce' /\ ReplayTruthful'
    BY <1>1, <1>2, <1>3, <1>4, <1>8 DEF OneToken, AtMostOnce, ReplayTruthful
  <1> QED BY <1>10, <1>11, <1>12, Zenon DEF IInv

\* A request that moves on to pc, or ends, without any of this changing.
LEMMA QuietMove ==
    ASSUME IInv, NEW c \in Clients, NEW pc,
           \/ End(c)
           \/ /\ Goto(c, pc)
              /\ pc \in {"merge", "save"} /\ proc[c].op = "complete" => Assembling(c)
              /\ pc \in {"persist", "drop"} /\ proc[c].op = "complete" => Saved(c),
           session' = session \/ session' = FALSE,
           UNCHANGED <<key, objects, emitted, begun>>
    PROVE  IInv'
  <1>1. /\ DOMAIN proc' = Clients /\ \A d \in Clients : DOMAIN proc'[d] = Fields
        /\ \A d \in Clients \ {c} : proc'[d] = proc[d]
        /\ \/ proc'[c].op = "none"
           \/ proc'[c].op = proc[c].op /\ proc'[c].pc = pc
              /\ (pc \in {"merge", "save"} /\ proc[c].op = "complete" => Assembling(c))
              /\ (pc \in {"persist", "drop"} /\ proc[c].op = "complete" => Saved(c))
    BY Moves, Zenon
  <1>2. \A d \in Clients : (Assembling(d)' => Assembling(d)) /\ (Saved(d)' => Saved(d))
    BY <1>1, Zenon DEF Assembling, Saved
  <1>3. DOMAIN key' = {"complete", "abort"}
    BY Zenon DEF IInv, Shape
  <1> QED BY <1>1, <1>2, <1>3, Quiet, Zenon

\* Uploads of parts touch no claim, no session and no row.
LEMMA PartSteps ==
    ASSUME IInv, NEW c \in Clients,
           \/ \E n \in Parts : PartStart(c, n)
           \/ PartCreate(c) \/ PartWrite(c) \/ PartRecord(c) \/ PartFails(c)
    PROVE  IInv'
  <1>0. UNCHANGED <<key, objects, emitted, begun, session>> /\ DOMAIN key = {"complete", "abort"}
    BY Zenon DEF PartStart, PartCreate, PartWrite, PartRecord, PartFails, Quietly, tables, storage,
           IInv, Shape
  <1>1. ASSUME NEW n \in Parts, PartStart(c, n) PROVE IInv'
    <2>1. begun
      BY <1>1, Zenon DEF PartStart, IInv, Claimed
    <2>2. /\ DOMAIN proc' = Clients /\ \A d \in Clients : DOMAIN proc'[d] = Fields
          /\ \A d \in Clients \ {c} : proc'[d] = proc[d]
          /\ proc'[c].op = "part"
      BY <1>1, Zenon DEF PartStart, IInv, Shape, Idle, Fields
    <2>3. \A d \in Clients : (Assembling(d)' => Assembling(d)) /\ (Saved(d)' => Saved(d))
      BY <2>2, Zenon DEF Assembling, Saved
    <2> QED BY <1>0, <2>1, <2>2, <2>3, Quiet, Zenon
  <1>2. CASE PartCreate(c)
    <2>1. CASE End(c)
      BY <1>0, <2>1, QuietMove, Zenon
    <2>2. CASE ~End(c)
      <3>0. PICK others :
                proc' = [d \in Clients |->
                     IF d = c THEN [proc[d] EXCEPT !.pc = "write", !.mixed = others # {}]
                     ELSE IF d \in others THEN [proc[d] EXCEPT !.mixed = TRUE]
                     ELSE proc[d]]
        BY <1>2, <2>2, Zenon DEF PartCreate
      <3>1. /\ DOMAIN proc' = Clients /\ \A d \in Clients : DOMAIN proc'[d] = Fields
            /\ \A d \in Clients : proc'[d].op = proc[d].op
            /\ \A d \in Clients \ {c} : proc'[d].pc = proc[d].pc
            /\ proc[c].op = "part"
        BY <1>2, <3>0, Zenon DEF PartCreate, At, IInv, Shape, Fields
      <3>2. \A d \in Clients : (Assembling(d)' => Assembling(d)) /\ (Saved(d)' => Saved(d))
        BY <3>1, Zenon DEF Assembling, Saved
      <3> QED BY <1>0, <3>1, <3>2, Quiet, Zenon
    <2> QED BY <2>1, <2>2, Zenon
  <1>3. CASE PartWrite(c)
    <2>1. Goto(c, "record")
      BY <1>3, Zenon DEF PartWrite
    <2> QED BY <1>0, <2>1, QuietMove
  <1>4. CASE PartRecord(c) \/ PartFails(c)
    <2>1. End(c)
      BY <1>4, Zenon DEF PartRecord, PartFails
    <2> QED BY <1>0, <2>1, QuietMove, Zenon
  <1> QED BY <1>1, <1>2, <1>3, <1>4, Zenon

\* The steps of a completion that neither take the session nor write the row.
LEMMA CompleteSteps ==
    ASSUME IInv, NEW c \in Clients,
           \/ CompleteLoad(c) \/ CompleteAccount(c) \/ CompleteMerge(c)
           \/ CompletePersist(c) \/ CompleteDrop(c)
    PROVE  IInv'
  <1>0. UNCHANGED <<objects, begun, session>> /\ DOMAIN key = {"complete", "abort"} /\ proc[c].op = "complete"
    BY Zenon DEF CompleteLoad, CompleteAccount, CompleteMerge, CompletePersist, CompleteDrop,
           Quietly, tables, storage, IInv, Shape, At
  <1>1. CASE CompleteLoad(c)
    <2>0. UNCHANGED <<key, emitted>>
      BY <1>1, Zenon DEF CompleteLoad, Quietly, tables
    <2>1. CASE Goto(c, "release")
      BY <1>0, <2>0, <2>1, QuietMove
    <2>2. CASE ~Goto(c, "release")
      <3>0. PICK m : proc' = [proc EXCEPT ![c] = [@ EXCEPT !.pc = "account", !.manifest = m]]
        BY <1>1, <2>2, Zenon DEF CompleteLoad
      <3>1. /\ DOMAIN proc' = Clients /\ \A d \in Clients : DOMAIN proc'[d] = Fields
            /\ \A d \in Clients \ {c} : proc'[d] = proc[d]
            /\ proc'[c].op = proc[c].op /\ proc'[c].pc = "account"
        BY <3>0, Zenon DEF IInv, Shape, Fields
      <3>2. \A d \in Clients : (Assembling(d)' => Assembling(d)) /\ (Saved(d)' => Saved(d))
        BY <3>1, Zenon DEF Assembling, Saved
      <3> QED BY <1>0, <2>0, <3>1, <3>2, Quiet, Zenon
    <2> QED BY <2>1, <2>2, Zenon
  <1>2. CASE CompleteAccount(c)
    <2>1. UNCHANGED <<key, emitted>> /\ (Goto(c, "consume") \/ Goto(c, "release"))
      BY <1>2, Zenon DEF CompleteAccount, Quietly
    <2> QED BY <1>0, <2>1, QuietMove
  <1>3. CASE CompleteMerge(c)
    <2>0. UNCHANGED <<key, emitted>> /\ Assembling(c)
      BY <1>3, Zenon DEF CompleteMerge, Quietly, tables, Assembling, At
    <2>1. CASE Goto(c, "release")
      BY <1>0, <2>0, <2>1, QuietMove
    <2>2. CASE ~Goto(c, "release")
      <3>0. PICK b : proc' = [proc EXCEPT ![c] = [@ EXCEPT !.pc = "save", !.blob = b]]
        BY <1>3, <2>2, Zenon DEF CompleteMerge, AfterMerge
      <3>1. /\ DOMAIN proc' = Clients /\ \A d \in Clients : DOMAIN proc'[d] = Fields
            /\ \A d \in Clients \ {c} : proc'[d] = proc[d]
            /\ proc'[c].op = proc[c].op /\ proc'[c].pc = "save"
        BY <3>0, Zenon DEF IInv, Shape, Fields
      <3>2. \A d \in Clients : (Assembling(d)' => Assembling(d)) /\ (Saved(d)' => Saved(d))
        BY <2>0, <3>1, Zenon DEF Assembling, Saved
      <3> QED BY <1>0, <2>0, <3>1, <3>2, Quiet, Zenon
    <2> QED BY <2>1, <2>2, Zenon
  <1>4. CASE CompletePersist(c)
    <2>1. Goto(c, "drop") /\ emitted' = emitted /\ Saved(c)
      BY <1>4, Zenon DEF CompletePersist, Quietly, Saved, At
    <2>2. Len(objects) = 1
      BY <2>1, Zenon DEF IInv, OneToken
    <2>3. objects # <<>>
      BY <2>2
    <2>4. key' = key \/ key' = [key EXCEPT !["complete"] = "completed"]
      BY <1>4, Zenon DEF CompletePersist
    <2>5. DOMAIN key' = {"complete", "abort"} /\ \A op \in {"complete", "abort"} : key'[op] = "free" => key[op] = "free"
      BY <1>0, <2>4, Zenon
    <2>6. /\ DOMAIN proc' = Clients /\ \A d \in Clients : DOMAIN proc'[d] = Fields
          /\ \A d \in Clients \ {c} : proc'[d] = proc[d]
          /\ proc'[c].op = proc[c].op /\ proc'[c].pc = "drop"
      BY <2>1, Moves, Zenon
    <2>7. \A d \in Clients : (Assembling(d)' => Assembling(d)) /\ (Saved(d)' => Saved(d))
      BY <2>1, <2>6, Zenon DEF Assembling, Saved
    <2> QED BY <1>0, <2>1, <2>3, <2>5, <2>6, <2>7, Quiet, Zenon
  <1>5. CASE CompleteDrop(c)
    <2>1. End(c) /\ emitted' = emitted + 1 /\ key' = key /\ Saved(c)
      BY <1>5, Zenon DEF CompleteDrop, Saved, At
    <2>2. Len(objects) = 1 /\ emitted' = 1
      BY <2>1 DEF IInv, OneToken
    <2>3. /\ DOMAIN proc' = Clients /\ \A d \in Clients : DOMAIN proc'[d] = Fields
          /\ \A d \in Clients \ {c} : proc'[d] = proc[d]
          /\ proc'[c].op = "none"
      BY <2>1, Moves, Zenon
    <2>4. \A d \in Clients : (Assembling(d)' => Assembling(d)) /\ ~Saved(d)'
      BY <1>0, <2>3, Zenon DEF Assembling, Saved, IInv, ClaimExclusive
    <2> QED BY <1>0, <2>1, <2>2, <2>3, <2>4, Quiet, Zenon
  <1> QED BY <1>1, <1>2, <1>3, <1>4, <1>5, Zenon

\* Aborts and the ends of requests: a claim is given up by the request that has it.
LEMMA EndSteps ==
    ASSUME IInv, NEW c \in Clients,
           \/ InitRow(c) \/ AbortLoad(c) \/ AbortStore(c) \/ AbortPersist(c) \/ AbortDrop(c)
           \/ Release(c) \/ Fails(c) \/ Vanishes(c)
    PROVE  IInv'
  <1>0. /\ UNCHANGED <<objects, begun>> /\ (session' = session \/ session' = FALSE)
        /\ DOMAIN key = {"complete", "abort"}
    BY Zenon DEF InitRow, AbortLoad, AbortStore, AbortPersist, AbortDrop, Release, Fails, Vanishes,
           Clear, Quietly, tables, storage, IInv, Shape
  <1>1. CASE InitRow(c)
    BY <1>0, <1>1, QuietMove, Zenon DEF InitRow, Quietly
  <1>2. CASE AbortLoad(c) \/ AbortStore(c) \/ Fails(c)
    <2>1. /\ UNCHANGED <<key, emitted>>
          /\ \/ Goto(c, "release")
             \/ (Goto(c, "store") \/ Goto(c, "persist")) /\ proc[c].op = "abort"
      BY <1>2, Zenon DEF AbortLoad, AbortStore, Fails, Quietly, tables, At
    <2>2. CASE Goto(c, "release")
      <3>1. "release" \notin {"merge", "save"} /\ "release" \notin {"persist", "drop"}
        BY Zenon
      <3> QED BY <1>0, <2>1, <2>2, <3>1, QuietMove, Zenon
    <2>3. CASE (Goto(c, "store") \/ Goto(c, "persist")) /\ proc[c].op = "abort"
      <3>1. proc[c].op # "complete" /\ \E pc : Goto(c, pc)
        BY <2>3, Zenon
      <3> QED BY <1>0, <2>1, <3>1, QuietMove, Zenon
    <2> QED BY <2>1, <2>2, <2>3, Zenon
  <1>3. CASE AbortPersist(c)
    <2>1. /\ Goto(c, "drop") /\ emitted' = emitted /\ proc[c].op = "abort"
          /\ key' = [key EXCEPT !["abort"] = "completed"]
      BY <1>3, Zenon DEF AbortPersist, Quietly, At
    <2>2. /\ DOMAIN key' = {"complete", "abort"} /\ key'["complete"] = key["complete"]
          /\ \A op \in {"complete", "abort"} : key'[op] = "free" => key[op] = "free"
      BY <1>0, <2>1, Zenon
    <2>3. /\ DOMAIN proc' = Clients /\ \A d \in Clients : DOMAIN proc'[d] = Fields
          /\ \A d \in Clients \ {c} : proc'[d] = proc[d]
          /\ proc'[c].op = "abort"
      BY <2>1, Moves, Zenon
    <2>4. \A d \in Clients : (Assembling(d)' => Assembling(d)) /\ (Saved(d)' => Saved(d))
      BY <2>3, Zenon DEF Assembling, Saved
    <2> QED BY <1>0, <2>1, <2>2, <2>3, <2>4, Quiet, Zenon
  <1>4. CASE AbortDrop(c) \/ Release(c)
    <2>1. /\ End(c) /\ emitted' = emitted /\ proc[c].op \in {"complete", "abort"}
          /\ (key' = key \/ key' = [key EXCEPT ![proc[c].op] = "free"])
      BY <1>4, Zenon DEF AbortDrop, Release, Quietly, At
    <2>2. /\ DOMAIN key' = {"complete", "abort"}
          /\ key'["complete"] = "completed" => key["complete"] = "completed"
          /\ \A op \in {"complete", "abort"} : key'[op] = "free" => key[op] = "free" \/ op = proc[c].op
      BY <1>0, <2>1, Zenon
    <2>3. /\ DOMAIN proc' = Clients /\ \A d \in Clients : DOMAIN proc'[d] = Fields
          /\ \A d \in Clients \ {c} : proc'[d] = proc[d]
          /\ proc'[c].op = "none"
      BY <2>1, Moves, Zenon
    <2>4. \A d \in Clients : proc'[d].op # proc[c].op
      BY <2>1, <2>3, Zenon DEF IInv, ClaimExclusive
    <2>5. \A d \in Clients : (Assembling(d)' => Assembling(d)) /\ (Saved(d)' => Saved(d))
      BY <2>3, Zenon DEF Assembling, Saved
    <2> QED BY <1>0, <2>1, <2>2, <2>3, <2>4, <2>5, Quiet, Zenon
  <1>5. CASE Vanishes(c)
    <2>1. /\ End(c) /\ key' = key
          /\ emitted' = IF At(c, "complete", "persist") THEN emitted + 1 ELSE emitted
      BY <1>5, Zenon DEF Vanishes, tables
    <2>2. CASE ~At(c, "complete", "persist")
      BY <1>0, <2>1, <2>2, QuietMove, Zenon
    <2>3. CASE At(c, "complete", "persist")
      <3>1. Saved(c) /\ proc[c].op = "complete"
        BY <2>3, Zenon DEF At, Saved
      <3>2. Len(objects) = 1 /\ emitted' = 1
        <4>1. Len(objects) = 1 /\ emitted = 0
          BY <3>1, Zenon DEF IInv, OneToken
        <4> QED BY <2>1, <2>3, <4>1
      <3>3. /\ DOMAIN proc' = Clients /\ \A d \in Clients : DOMAIN proc'[d] = Fields
            /\ \A d \in Clients \ {c} : proc'[d] = proc[d]
            /\ proc'[c].op = "none"
        BY <2>1, Moves, Zenon
      <3>4. \A d \in Clients : (Assembling(d)' => Assembling(d)) /\ ~Saved(d)'
        BY <3>1, <3>3, Zenon DEF Assembling, Saved, IInv, ClaimExclusive
      <3> QED BY <1>0, <2>1, <3>2, <3>3, <3>4, Quiet, Zenon
    <2> QED BY <2>2, <2>3, Zenon
  <1> QED BY <1>1, <1>2, <1>3, <1>4, <1>5, Zenon

\* Every step of every request, collector, purge and restart keeps the invariant.
LEMMA IInvStep ==
    ASSUME IInv, [Next]_vars
    PROVE  IInv'
  <1>1. ASSUME NEW c \in Clients, Request(c) \/ Step(c) \/ PartFails(c) \/ Fails(c) \/ Vanishes(c)
        PROVE  IInv'
    BY <1>1, InitStoreStep, ClaimStep, ConsumeStep, SaveStep, PartSteps, CompleteSteps, EndSteps, Zenon
       DEF Request, Step
  <1>2. DOMAIN proc = Clients /\ DOMAIN key = {"complete", "abort"}
        /\ \A d \in Clients : DOMAIN proc[d] = Fields
    BY Zenon DEF IInv, Shape
  <1>3. CASE GC \/ UNCHANGED vars
    <2>1. UNCHANGED <<proc, key, objects, begun, emitted>> /\ (session' = session \/ session' = FALSE)
      BY <1>3, Zenon DEF GC, GCTake, GCClean, GCDelete, Clear, tables, storage, vars
    <2>2. \A d \in Clients : (Assembling(d)' <=> Assembling(d)) /\ (Saved(d)' <=> Saved(d))
      BY <2>1, Zenon DEF Assembling, Saved
    <2> QED BY <1>2, <2>1, <2>2, Quiet, Zenon
  <1>4. ASSUME NEW op \in {"complete", "abort"}, PurgeKey(op) PROVE IInv'
    <2>1. /\ UNCHANGED <<proc, objects, begun, emitted, session>>
          /\ key' = [key EXCEPT ![op] = "free"] /\ \A c \in Clients : proc[c].op # op
      BY <1>4, Zenon DEF PurgeKey, storage
    <2>2. \A d \in Clients : (Assembling(d)' <=> Assembling(d)) /\ (Saved(d)' <=> Saved(d))
      BY <2>1, Zenon DEF Assembling, Saved
    <2> QED BY <1>2, <2>1, <2>2, Quiet, Zenon
  <1>5. CASE Restart
    <2>1. /\ UNCHANGED <<key, objects, begun, emitted>> /\ session' = FALSE
          /\ DOMAIN proc' = Clients
          /\ \A d \in Clients : DOMAIN proc'[d] = Fields /\ proc'[d].op = "none"
      BY <1>5, Zenon DEF Restart, tables, Idle, Fields
    <2>2. \A d \in Clients : ~Assembling(d)' /\ ~Saved(d)'
      BY <2>1, Zenon DEF Assembling, Saved
    <2> QED BY <1>2, <2>1, <2>2, Quiet, Zenon
  <1> QED BY <1>1, <1>3, <1>4, <1>5, Zenon DEF Next

\* The invariant holds in every behaviour: any number of requests and parts, of
\* faults and restarts.
THEOREM Invariance == Spec => []IInv
  <1>1. Init => IInv
    <2> SUFFICES ASSUME Init PROVE IInv
      BY Zenon
    <2>1. Shape /\ Claimed
      BY Zenon DEF Init, Shape, Claimed, Idle, Fields
    <2>2. ClaimExclusive /\ OneToken
      BY Zenon DEF Init, ClaimExclusive, OneToken, Assembling, Saved, Idle
    <2>3. AtMostOnce /\ ReplayTruthful
      BY DEF Init, AtMostOnce, ReplayTruthful
    <2> QED BY <2>1, <2>2, <2>3, Zenon DEF IInv
  <1>2. IInv /\ [Next]_vars => IInv'
    BY IInvStep, Zenon
  <1> QED BY <1>1, <1>2, PTL DEF Spec

\* However completions are retried, the upload becomes at most one object and
\* sends at most one created event.
THEOREM OneObject == Spec => []AtMostOnce
  <1>1. IInv => AtMostOnce
    BY Zenon DEF IInv
  <1> QED BY <1>1, Invariance, PTL

\* The idempotency key lets one request at a time complete or abort the upload.
THEOREM OneExecutor == Spec => []ClaimExclusive
  <1>1. IInv => ClaimExclusive
    BY Zenon DEF IInv
  <1> QED BY <1>1, Invariance, PTL

\* A completion that retries are answered from has its object.
THEOREM TruthfulReplay == Spec => []ReplayTruthful
  <1>1. IInv => ReplayTruthful
    BY Zenon DEF IInv
  <1> QED BY <1>1, Invariance, PTL

-----------------------------------------------------------------------------
(* The content of the object and the usage *)

Uploads(c, n) == proc[c].op = "part" /\ proc[c].part = n

\* The completion has its parts list.
Listed(c) ==
    /\ proc[c].op = "complete"
    /\ proc[c].pc \in {"account", "consume", "merge", "save"}

Files ==
    /\ DOMAIN file = Parts /\ DOMAIN recorded = Parts /\ dir \in BOOLEAN
    /\ ~dir => file = Empty
    /\ ~begun \/ ~row => recorded = Empty

\* A part whose uploads never overlap each other or a completion, and never
\* break off, has one writer, whose content is in the file when it records it.
Writers ==
    /\ \A c \in Clients : proc[c].op = "part" =>
          /\ proc[c].part \in Parts
          /\ proc[c].mixed => proc[c].part \in racy
    /\ \A c, d \in Clients :
          /\ proc[c].op = "part" /\ c # d
          /\ proc[d].op = "complete" \/ Uploads(d, proc[c].part)
          => proc[c].part \in racy
    /\ \A c \in Clients : At(c, "part", "record") =>
          proc[c].part \in racy \/ file[proc[c].part] \in {0, proc[c].write}

\* As long as the storage has the session, a recorded part has its file.
RecordedTrue ==
    session => \A n \in Parts \ racy :
        \/ recorded[n] = 0 \/ file[n] \in {0, recorded[n]}
        \/ \E c \in Clients : Uploads(c, n)

\* And so has a listed part, until it is assembled.
ListedTrue ==
    /\ \A c \in Clients : Listed(c) => DOMAIN proc[c].manifest \subseteq Parts
    /\ \A c \in Clients :
          Listed(c) /\ proc[c].pc # "save" /\ (session \/ proc[c].pc = "merge") =>
             \A n \in DOMAIN proc[c].manifest \ racy :
                file[n] \in {0, proc[c].manifest[n]}
    /\ \A c \in Clients : At(c, "complete", "save") =>
          /\ DOMAIN proc[c].blob = DOMAIN proc[c].manifest
          /\ \A n \in DOMAIN proc[c].manifest \ racy :
                proc[c].blob[n] = proc[c].manifest[n]

\* The usage has every object, and the one a completion is going to write.
Accounted ==
    /\ used \in Nat
    /\ \A c \in Clients :
          Listed(c) /\ proc[c].pc # "account" => Size(DOMAIN proc[c].manifest) <= used
    /\ DOMAIN objects = 1 .. Len(objects)
    /\ \A i \in DOMAIN objects :
          /\ DOMAIN objects[i].manifest \subseteq Parts
          /\ Size(DOMAIN objects[i].manifest) <= used

JInv == Files /\ Writers /\ RecordedTrue /\ ListedTrue /\ Accounted /\ ManifestAssembled

-----------------------------------------------------------------------------
(* Sums of part numbers *)

\* The size of a set of parts is a number.
LEMMA SizeNat == ASSUME NEW M \in SUBSET Parts PROVE Size(M) \in Nat
  <1> DEFINE w == [n \in Parts |-> n]
             g == SumOver(w, M)
             Eq(f) == f = [s \in SUBSET M |->
                             IF s = {} THEN 0
                             ELSE LET x == CHOOSE x \in s : TRUE IN x + f[s \ {x}]]
             it == CHOOSE f : Eq(f)
  <1>1. IsFiniteSet(M)
    <2>1. 1 \in Int /\ NParts \in Int
      BY MultipartAssumption
    <2>2. IsFiniteSet(Parts)
      BY <2>1, FS_Interval, Zenon DEF Parts
    <2> QED BY <2>2, FS_Subset, Zenon
  <1>2. IsSum(g, w, M)
    BY <1>1, SumExists, Zenon
  <1>3. Eq(g)
    <2>1. ASSUME NEW s \in SUBSET M, s # {} PROVE w[Pick(s)] = Pick(s)
      BY <2>1, PickIn, Zenon
    <2>2. g = [s \in SUBSET M |-> g[s]]
      BY <1>2, Zenon DEF IsSum
    <2> HIDE DEF g, w
    <2>3. ASSUME NEW s \in SUBSET M
          PROVE  g[s] = IF s = {} THEN 0 ELSE Pick(s) + g[s \ {Pick(s)}]
      <3>1. g[{}] = 0 /\ (s # {} => g[s] = w[Pick(s)] + g[s \ {Pick(s)}])
        BY <1>2, SumEq
      <3> QED BY <2>1, <3>1, Zenon
    <2> QED BY <2>2, <2>3, Zenon DEF Pick
  <1>4. Eq(it)
    <2> HIDE DEF g
    <2> QED BY <1>3, Zenon
  <1>5. Size(M) = it[M]
    BY Zenon DEF Size, MapThenSumSet, MapThenFoldSet
  <1> HIDE DEF it
  <1>6. IsSum(it, w, M)
    <2>1. ASSUME NEW s \in SUBSET M, s # {} PROVE w[Pick(s)] = Pick(s)
      BY <2>1, PickIn, Zenon
    <2> HIDE DEF w
    <2>2. it = [s \in SUBSET M |-> it[s]]
      BY <1>4, Zenon
    <2>3. ASSUME NEW s \in SUBSET M
          PROVE  it[s] = IF s = {} THEN 0 ELSE w[Pick(s)] + it[s \ {Pick(s)}]
      BY <1>4, <2>1, Zenon DEF Pick
    <2> QED BY <2>2, <2>3, Zenon DEF IsSum
  <1>7. \A x \in M : w[x] \in Nat
    BY MultipartAssumption DEF Parts
  <1> HIDE DEF w
  <1>8. \A s \in SUBSET M : it[s] \in Nat
    BY <1>1, <1>6, <1>7, SumNat, Zenon
  <1> QED BY <1>5, <1>8, Zenon

\* The size of all objects is a sum of their sizes.
LEMMA SizeOfAllIsSum ==
    ASSUME NEW o, IsFiniteSet(DOMAIN o)
    PROVE  \E g : /\ IsSum(g, [i \in DOMAIN o |-> Size(DOMAIN o[i].manifest)], DOMAIN o)
                  /\ g[DOMAIN o] = SizeOfAll(o)
  <1> DEFINE Eq(f) == f = [s \in SUBSET DOMAIN o |->
                             IF s = {} THEN 0
                             ELSE LET x == CHOOSE x \in s : TRUE
                                  IN Size(DOMAIN o[x].manifest) + f[s \ {x}]]
             it == CHOOSE f : Eq(f)
  <1>1. PICK w : w = [i \in DOMAIN o |-> Size(DOMAIN o[i].manifest)]
    BY Zenon
  <1>2. PICK g : IsSum(g, w, DOMAIN o)
    BY SumExists, Zenon
  <1>3. ASSUME NEW s \in SUBSET DOMAIN o, s # {}
        PROVE  w[Pick(s)] = Size(DOMAIN o[Pick(s)].manifest)
    BY <1>1, <1>3, PickIn, Zenon
  <1>4. Eq(g)
    <2>0. /\ g[{}] = 0
          /\ \A s \in SUBSET DOMAIN o : s # {} => g[s] = w[Pick(s)] + g[s \ {Pick(s)}]
      BY <1>2, SumEq, Zenon
    <2>1. g = [s \in SUBSET DOMAIN o |-> g[s]]
      BY <1>2, Zenon DEF IsSum
    <2>2. ASSUME NEW s \in SUBSET DOMAIN o
          PROVE  g[s] = IF s = {} THEN 0
                        ELSE Size(DOMAIN o[Pick(s)].manifest) + g[s \ {Pick(s)}]
      <3>1. g[{}] = 0 /\ (s # {} => g[s] = w[Pick(s)] + g[s \ {Pick(s)}])
        BY <2>0, Zenon
      <3> QED BY <1>3, <3>1, Zenon
    <2> QED BY <2>1, <2>2, Zenon DEF Pick
  <1>5. Eq(it)
    BY <1>4, Zenon
  <1>6. SizeOfAll(o) = it[DOMAIN o]
    BY Zenon DEF SizeOfAll, MapThenSumSet, MapThenFoldSet
  <1> HIDE DEF it
  <1>7. IsSum(it, w, DOMAIN o)
    <2>1. it = [s \in SUBSET DOMAIN o |-> it[s]]
      BY <1>5, Zenon
    <2>2. ASSUME NEW s \in SUBSET DOMAIN o
          PROVE  it[s] = IF s = {} THEN 0 ELSE w[Pick(s)] + it[s \ {Pick(s)}]
      BY <1>3, <1>5, Zenon DEF Pick
    <2> QED BY <2>1, <2>2, Zenon DEF IsSum
  <1> QED BY <1>1, <1>6, <1>7, Zenon

\* With at most one object the usage has all of them.
LEMMA CoversOne ==
    ASSUME Accounted, Len(objects) \in Nat, Len(objects) <= 1
    PROVE  UsageCovers
  <1>1. /\ used \in Nat /\ DOMAIN objects = 1 .. Len(objects)
        /\ \A i \in DOMAIN objects :
              /\ DOMAIN objects[i].manifest \in SUBSET Parts
              /\ Size(DOMAIN objects[i].manifest) <= used
    BY Zenon DEF Accounted
  <1>2. DOMAIN objects = {} \/ DOMAIN objects = {1}
    BY <1>1
  <1>3. IsFiniteSet(DOMAIN objects)
    <2>1. 1 \in Int /\ Len(objects) \in Int
      OBVIOUS
    <2> QED BY <1>1, <2>1, FS_Interval, Zenon
  <1>4. \A i \in DOMAIN objects : Size(DOMAIN objects[i].manifest) \in Nat
    BY <1>1, SizeNat, Zenon
  <1> DEFINE sum == SizeOfAll(objects)
             w == [i \in DOMAIN objects |-> Size(DOMAIN objects[i].manifest)]
  <1>5. PICK g : IsSum(g, w, DOMAIN objects) /\ g[DOMAIN objects] = sum
    BY <1>3, SizeOfAllIsSum, Zenon
  <1>6. /\ g[{}] = 0
        /\ \A s \in SUBSET DOMAIN objects : s # {} => g[s] = w[Pick(s)] + g[s \ {Pick(s)}]
    BY <1>5, SumEq, Zenon
  <1> HIDE DEF sum
  <1>7. sum <= used
    <2>1. CASE DOMAIN objects = {}
      BY <1>1, <1>5, <1>6, <2>1
    <2>2. CASE DOMAIN objects = {1}
      <3>1. Pick({1}) = 1 /\ {1} \ {1} = {}
        BY PickIn, Zenon
      <3>2. g[{1}] = w[1] + g[{}]
        BY <1>6, <2>2, <3>1, Zenon
      <3>3. w[1] = Size(DOMAIN objects[1].manifest)
        BY <2>2, Zenon
      <3>4. sum = w[1] + 0
        BY <1>5, <1>6, <2>2, <3>2, Zenon
      <3> HIDE DEF w
      <3> QED BY <1>1, <1>4, <2>2, <3>3, <3>4
    <2> QED BY <1>2, <2>1, <2>2, Zenon
  <1>8. used >= sum
    <2>1. ASSUME NEW a, NEW b, a <= b PROVE b >= a
      BY <2>1, Zenon
    <2> QED BY <1>7, <2>1, Zenon
  <1> QED BY <1>8, Zenon DEF UsageCovers, sum

-----------------------------------------------------------------------------
(* The steps *)

\* Two uploads of a part, or an upload and a completion, mark the part.
LEMMA WritersApart ==
    ASSUME Writers, NEW d \in Clients, NEW e \in Clients, d # e, proc[d].op = "part",
           \/ proc[e].op = "complete"
           \/ proc[e].op = "part" /\ proc[e].part = proc[d].part
    PROVE  proc[d].part \in racy
  BY Zenon DEF Writers, Uploads

\* An upload about to record its part has written the file, unless it is marked.
LEMMA WriterWrote ==
    ASSUME Writers, NEW d \in Clients, proc[d].op = "part", proc[d].pc = "record"
    PROVE  proc[d].part \in racy \/ file[proc[d].part] \in {0, proc[d].write}
  BY Zenon DEF Writers, At

\* A step that starts no upload, no completion and no file leaves the uploads
\* as they were towards each other.
LEMMA WritersKept ==
    ASSUME Writers, racy \subseteq racy',
           \A d \in Clients : proc'[d].op = "part" => proc'[d] = proc[d],
           \A d \in Clients : proc'[d].op = "complete" => proc[d].op = "complete",
           \A n \in Parts : file'[n] \in {0, file[n]}
    PROVE  Writers'
  <1>1. ASSUME NEW d \in Clients, proc'[d].op = "part"
        PROVE  proc'[d].part \in Parts /\ (proc'[d].mixed => proc'[d].part \in racy')
    BY <1>1, Zenon DEF Writers
  <1>2. ASSUME NEW d \in Clients, NEW e \in Clients, proc'[d].op = "part", d # e,
               proc'[e].op = "complete" \/ Uploads(e, proc[d].part)'
        PROVE  proc'[d].part \in racy'
    <2>1. proc'[d] = proc[d] /\ proc[d].op = "part"
      BY <1>2, Zenon
    <2>2. proc[e].op = "complete" \/ Uploads(e, proc[d].part)
      BY <1>2, <2>1, Zenon DEF Uploads
    <2> QED BY <1>2, <2>1, <2>2, Zenon DEF Writers
  <1>3. ASSUME NEW d \in Clients, At(d, "part", "record")'
        PROVE  proc'[d].part \in racy' \/ file'[proc'[d].part] \in {0, proc'[d].write}
    <2>1. proc'[d] = proc[d] /\ At(d, "part", "record") /\ proc[d].op = "part"
      BY <1>3, Zenon DEF At
    <2>2. PICK n \in Parts : n = proc[d].part
      BY <2>1, Zenon DEF Writers
    <2>3. n \in racy \/ file[n] \in {0, proc[d].write}
      BY <2>1, <2>2, Zenon DEF Writers
    <2>4. file'[n] \in {0, file[n]}
      BY Zenon
    <2> QED BY <2>1, <2>2, <2>3, <2>4, Zenon
  <1> QED BY <1>1, <1>2, <1>3, Zenon DEF Writers

\* A step that writes no part file or record, and lists, accounts and
\* assembles nothing: a file or a record stays or goes, and a writer ends
\* only with its part marked, without its file or without a session.
LEMMA Kept ==
    ASSUME JInv, racy \subseteq racy', objects' = objects, begun => begun',
           DOMAIN file' = Parts, DOMAIN recorded' = Parts, dir' \in BOOLEAN,
           ~dir' => file' = Empty,
           \A n \in Parts : file'[n] \in {0, file[n]} /\ recorded'[n] \in {0, recorded[n]},
           begun' \/ recorded' = recorded, ~row' => recorded' = Empty,
           session' => session, used' = used,
           \A d \in Clients :
               \/ proc'[d] = proc[d]
               \/ /\ proc'[d].op \notin {"part", "complete"}
                  /\ \/ proc[d].op # "part" \/ ~session'
                     \/ proc[d].part \in racy' \/ file'[proc[d].part] = 0
               \/ /\ proc'[d].op = "complete" /\ proc[d].op = "complete"
                  /\ proc'[d].pc \notin {"account", "consume", "merge", "save"}
    PROVE  JInv'
  <1>1. Files'
    BY Zenon DEF JInv, Files
  <1>2. Writers'
    <2>1. \A c \in Clients : proc'[c].op = "part" => proc'[c] = proc[c]
      BY Zenon
    <2>2. \A c \in Clients : proc'[c].op = "complete" => proc[c].op = "complete"
      BY Zenon
    <2>3. Writers
      BY Zenon DEF JInv
    <2> QED BY <2>1, <2>2, <2>3, WritersKept, Zenon
  <1>3. RecordedTrue'
    <2> SUFFICES ASSUME session', NEW n \in Parts \ racy'
                 PROVE  \/ recorded'[n] = 0 \/ file'[n] \in {0, recorded'[n]}
                        \/ \E d \in Clients : Uploads(d, n)'
      BY Zenon DEF RecordedTrue
    <2>1. \/ recorded[n] = 0 \/ file[n] \in {0, recorded[n]}
          \/ \E d \in Clients : Uploads(d, n)
      BY Zenon DEF JInv, RecordedTrue
    <2>2. ASSUME NEW d \in Clients, Uploads(d, n) PROVE Uploads(d, n)' \/ file'[n] = 0
      BY <2>2, Zenon DEF Uploads
    <2> QED BY <2>1, <2>2, Zenon
  <1>4. ListedTrue'
    <2>1. \A c \in Clients : Listed(c)' => proc'[c] = proc[c] /\ Listed(c)
      BY Zenon DEF Listed
    <2>2. \A c \in Clients : At(c, "complete", "save")' => proc'[c] = proc[c] /\ At(c, "complete", "save")
      BY Zenon DEF At
    <2>3. \A c \in Clients : Listed(c) => DOMAIN proc[c].manifest \subseteq Parts
      BY Zenon DEF JInv, ListedTrue
    <2>4. \A c \in Clients :
             Listed(c)' /\ proc'[c].pc # "save" /\ (session' \/ proc'[c].pc = "merge") =>
                \A n \in DOMAIN proc'[c].manifest \ racy' :
                   file'[n] \in {0, proc'[c].manifest[n]}
      BY <2>1, <2>3, Zenon DEF JInv, ListedTrue
    <2>5. \A c \in Clients : At(c, "complete", "save")' =>
             /\ DOMAIN proc'[c].blob = DOMAIN proc'[c].manifest
             /\ \A n \in DOMAIN proc'[c].manifest \ racy' :
                   proc'[c].blob[n] = proc'[c].manifest[n]
      <3> SUFFICES ASSUME NEW c \in Clients, At(c, "complete", "save")'
                   PROVE  /\ DOMAIN proc'[c].blob = DOMAIN proc'[c].manifest
                          /\ \A n \in DOMAIN proc'[c].manifest \ racy' :
                                proc'[c].blob[n] = proc'[c].manifest[n]
        BY Zenon
      <3>1. proc'[c] = proc[c] /\ At(c, "complete", "save")
        BY <2>2, Zenon
      <3>2. /\ DOMAIN proc[c].blob = DOMAIN proc[c].manifest
            /\ \A n \in DOMAIN proc[c].manifest \ racy :
                  proc[c].blob[n] = proc[c].manifest[n]
        BY <3>1, Zenon DEF JInv, ListedTrue
      <3> QED BY <3>1, <3>2, Zenon
    <2>6. \A c \in Clients : Listed(c)' => DOMAIN proc'[c].manifest \subseteq Parts
      BY <2>1, <2>3, Zenon
    <2> QED BY <2>4, <2>5, <2>6, Zenon DEF ListedTrue
  <1>5. Accounted'
    <2>1. \A c \in Clients : Listed(c)' => proc'[c] = proc[c] /\ Listed(c)
      BY Zenon DEF Listed
    <2> QED BY <2>1, Zenon DEF JInv, Accounted
  <1>6. ManifestAssembled'
    BY DEF JInv, ManifestAssembled
  <1> QED BY <1>1, <1>2, <1>3, <1>4, <1>5, <1>6, Zenon DEF JInv

\* Claims for an abort, aborts, and what follows the row or a failure.
LEMMA KeptSteps ==
    ASSUME IInv, JInv, NEW c \in Clients,
           \/ InitRow(c) \/ Claim(c, "abort") \/ Release(c) \/ Fails(c) \/ Vanishes(c)
           \/ CompletePersist(c) \/ CompleteDrop(c)
           \/ AbortLoad(c) \/ AbortStore(c) \/ AbortPersist(c) \/ AbortDrop(c)
    PROVE  JInv'
  <1>1. DOMAIN file = Parts /\ DOMAIN recorded = Parts /\ dir \in BOOLEAN
        /\ (~dir => file = Empty) /\ DOMAIN Empty = Parts /\ (\A n \in Parts : Empty[n] = 0)
    BY Zenon DEF JInv, Files, Empty
  <1>2. /\ racy' = racy /\ objects' = objects /\ begun' = begun /\ used' = used
        /\ \/ UNCHANGED <<session, dir, file>>
           \/ session' = FALSE /\ dir' = FALSE /\ file' = Empty
    BY Zenon DEF InitRow, Claim, Release, Fails, Vanishes, CompletePersist, CompleteDrop,
           AbortLoad, AbortStore, AbortPersist, AbortDrop, Clear, Quietly, tables, storage,
           UsageReleased
  <1>3. recorded' = recorded \/ (recorded' = Empty /\ proc[c].op # "none")
    BY Zenon DEF InitRow, Claim, Release, Fails, Vanishes, CompletePersist, CompleteDrop,
           AbortLoad, AbortStore, AbortPersist, AbortDrop, tables, At
  <1>4. proc[c].op # "part"
    BY DEF InitRow, Claim, Release, Fails, Vanishes, CompletePersist, CompleteDrop,
           AbortLoad, AbortStore, AbortPersist, AbortDrop, At, Idle
  <1>5. \/ End(c) \/ Claim(c, "abort")
        \/ (Goto(c, "release") \/ Goto(c, "drop")) /\ proc[c].op \in {"complete", "abort"}
        \/ (Goto(c, "store") \/ Goto(c, "persist")) /\ proc[c].op = "abort"
    BY Zenon DEF InitRow, Claim, Release, Fails, Vanishes, CompletePersist, CompleteDrop,
           AbortLoad, AbortStore, AbortPersist, AbortDrop, At
  <1>6. /\ \A d \in Clients \ {c} : proc'[d] = proc[d]
        /\ \/ proc'[c].op \in {"none", "abort"}
           \/ /\ proc'[c].op = "complete" /\ proc[c].op = "complete"
              /\ proc'[c].pc \in {"release", "drop"}
    <2>1. CASE Claim(c, "abort")
      BY <2>1, Zenon DEF Claim, IInv, Shape, Idle
    <2>2. CASE ~Claim(c, "abort")
      BY <1>5, <2>2, Moves, Zenon
    <2> QED BY <2>1, <2>2, Zenon
  <1>7. (begun \/ recorded' = recorded) /\ (~row' => recorded' = Empty)
    <2>1. row' = row \/ row' = TRUE \/ recorded' = Empty
      BY Zenon DEF InitRow, Claim, Release, Fails, Vanishes, CompletePersist, CompleteDrop,
             AbortLoad, AbortStore, AbortPersist, AbortDrop, tables
    <2>2. ~row => recorded = Empty
      BY Zenon DEF JInv, Files
    <2>3. begun \/ recorded' = recorded
      BY <1>3, Zenon DEF IInv, Claimed
    <2>4. (row' = TRUE => row') /\ (row' = row => (row' <=> row))
      OBVIOUS
    <2>5. ~row' => recorded' = Empty
      BY <1>3, <2>1, <2>2, <2>4, Zenon
    <2> QED BY <2>3, <2>5, Zenon
  <1>8. session' => session
    BY <1>2, Zenon
  <1>9. \A n \in Parts : file'[n] \in {0, file[n]} /\ recorded'[n] \in {0, recorded[n]}
    BY <1>1, <1>2, <1>3, Zenon
  <1>10. DOMAIN file' = Parts /\ DOMAIN recorded' = Parts /\ dir' \in BOOLEAN
         /\ (~dir' => file' = Empty)
    BY <1>1, <1>2, <1>3, Zenon
  <1>11. \A d \in Clients :
             \/ proc'[d] = proc[d]
             \/ /\ proc'[d].op \notin {"part", "complete"}
                /\ \/ proc[d].op # "part" \/ ~session'
                   \/ proc[d].part \in racy' \/ file'[proc[d].part] = 0
             \/ /\ proc'[d].op = "complete" /\ proc[d].op = "complete"
                /\ proc'[d].pc \notin {"account", "consume", "merge", "save"}
    BY <1>4, <1>6, Zenon
  <1> QED BY <1>2, <1>7, <1>8, <1>9, <1>10, <1>11, Kept, Zenon

\* The collectors, purged keys and restarts.
LEMMA KeptOthers ==
    ASSUME IInv, JInv,
           \/ GC \/ (\E op \in {"complete", "abort"} : PurgeKey(op)) \/ Restart
           \/ UNCHANGED vars
    PROVE  JInv'
  <1>1. DOMAIN file = Parts /\ DOMAIN recorded = Parts /\ dir \in BOOLEAN
        /\ (~dir => file = Empty) /\ DOMAIN Empty = Parts /\ (\A n \in Parts : Empty[n] = 0)
    BY Zenon DEF JInv, Files, Empty
  <1>2. /\ racy' = racy /\ objects' = objects /\ begun' = begun /\ used' = used
        /\ \/ UNCHANGED <<session, dir, file>>
           \/ session' = FALSE /\ dir' = FALSE /\ file' = Empty
           \/ session' = FALSE /\ UNCHANGED <<dir, file>>
    BY Zenon DEF GC, GCTake, GCClean, GCDelete, PurgeKey, Restart, Clear, tables, storage, vars
  <1>3. recorded' = recorded \/ recorded' = Empty
    BY Zenon DEF GC, GCTake, GCClean, GCDelete, PurgeKey, Restart, tables, vars
  <1>4. \A d \in Clients : proc'[d] = proc[d] \/ (proc'[d].op = "none" /\ ~session')
    BY DEF GC, GCTake, GCClean, GCDelete, PurgeKey, Restart, vars, Idle
  <1>5. (begun \/ recorded' = recorded) /\ (~row' => recorded' = Empty)
    <2>1. row' = row \/ recorded' = Empty
      BY Zenon DEF GC, GCTake, GCClean, GCDelete, PurgeKey, Restart, tables, vars
    <2> QED BY <1>1, <1>3, <2>1, Zenon DEF JInv, Files
  <1>6. session' => session
    BY <1>2, Zenon
  <1>7. \A n \in Parts : file'[n] \in {0, file[n]} /\ recorded'[n] \in {0, recorded[n]}
    BY <1>1, <1>2, <1>3, Zenon
  <1>8. DOMAIN file' = Parts /\ DOMAIN recorded' = Parts /\ dir' \in BOOLEAN
         /\ (~dir' => file' = Empty)
    BY <1>1, <1>2, <1>3, Zenon
  <1>9. \A d \in Clients :
             \/ proc'[d] = proc[d]
             \/ /\ proc'[d].op \notin {"part", "complete"}
                /\ \/ proc[d].op # "part" \/ ~session'
                   \/ proc[d].part \in racy' \/ file'[proc[d].part] = 0
             \/ /\ proc'[d].op = "complete" /\ proc[d].op = "complete"
                /\ proc'[d].pc \notin {"account", "consume", "merge", "save"}
    BY <1>4, Zenon
  <1> QED BY <1>2, <1>5, <1>6, <1>7, <1>8, <1>9, Kept, Zenon

\* A step of a part upload leaves completions alone: a file it changes is of
\* a marked part, or nobody completes.
LEMMA CompletionsKept ==
    ASSUME JInv, racy \subseteq racy', objects' = objects, used' = used, session' = session,
           \A d \in Clients : proc'[d].op = "complete" =>
               \/ proc'[d] = proc[d]
               \/ proc'[d].pc \notin {"account", "consume", "merge", "save"},
           \A n \in Parts :
               file'[n] = file[n] \/ n \in racy \/ \A d \in Clients : proc[d].op # "complete"
    PROVE  ListedTrue' /\ Accounted' /\ ManifestAssembled'
  <1>1. \A c \in Clients : Listed(c)' => proc'[c] = proc[c] /\ Listed(c)
    BY Zenon DEF Listed
  <1>2. \A c \in Clients :
           At(c, "complete", "save")' => proc'[c] = proc[c] /\ At(c, "complete", "save")
    BY Zenon DEF At
  <1>3. \A c \in Clients : Listed(c) => DOMAIN proc[c].manifest \subseteq Parts
    BY Zenon DEF JInv, ListedTrue
  <1>4. ListedTrue'
    <2>1. \A c \in Clients :
             Listed(c)' /\ proc'[c].pc # "save" /\ (session' \/ proc'[c].pc = "merge") =>
                \A n \in DOMAIN proc'[c].manifest \ racy' :
                   file'[n] \in {0, proc'[c].manifest[n]}
      <3> SUFFICES ASSUME NEW c \in Clients, Listed(c)', proc'[c].pc # "save",
                          session' \/ proc'[c].pc = "merge",
                          NEW n \in DOMAIN proc'[c].manifest \ racy'
                   PROVE  file'[n] \in {0, proc'[c].manifest[n]}
        BY Zenon
      <3>1. proc'[c] = proc[c] /\ Listed(c) /\ n \in Parts /\ proc[c].op = "complete"
        BY <1>1, <1>3, Zenon DEF Listed
      <3>2. file'[n] = file[n]
        BY <3>1, Zenon
      <3>3. n \in DOMAIN proc[c].manifest \ racy
        BY <3>1, Zenon
      <3>4. file[n] \in {0, proc[c].manifest[n]}
        BY <3>1, <3>3, Zenon DEF JInv, ListedTrue
      <3> QED BY <3>1, <3>2, <3>4, Zenon
    <2>2. \A c \in Clients : At(c, "complete", "save")' =>
             /\ DOMAIN proc'[c].blob = DOMAIN proc'[c].manifest
             /\ \A n \in DOMAIN proc'[c].manifest \ racy' :
                   proc'[c].blob[n] = proc'[c].manifest[n]
      <3> SUFFICES ASSUME NEW c \in Clients, At(c, "complete", "save")'
                   PROVE  /\ DOMAIN proc'[c].blob = DOMAIN proc'[c].manifest
                          /\ \A n \in DOMAIN proc'[c].manifest \ racy' :
                                proc'[c].blob[n] = proc'[c].manifest[n]
        BY Zenon
      <3>1. proc'[c] = proc[c] /\ At(c, "complete", "save")
        BY <1>2, Zenon
      <3>2. /\ DOMAIN proc[c].blob = DOMAIN proc[c].manifest
            /\ \A n \in DOMAIN proc[c].manifest \ racy :
                  proc[c].blob[n] = proc[c].manifest[n]
        BY <3>1, Zenon DEF JInv, ListedTrue
      <3> QED BY <3>1, <3>2, Zenon
    <2>3. \A c \in Clients : Listed(c)' => DOMAIN proc'[c].manifest \subseteq Parts
      BY <1>1, <1>3, Zenon
    <2> QED BY <2>1, <2>2, <2>3, Zenon DEF ListedTrue
  <1>5. Accounted'
    BY <1>1, Zenon DEF JInv, Accounted
  <1>6. ManifestAssembled'
    BY Zenon DEF JInv, ManifestAssembled
  <1> QED BY <1>4, <1>5, <1>6, Zenon

\* InitMultipart: nothing is recorded yet.
LEMMA InitStoreKeeps ==
    ASSUME IInv, JInv, NEW c \in Clients, InitStore(c)
    PROVE  JInv'
  <1>1. /\ ~begun /\ begun' = TRUE /\ dir' = TRUE /\ recorded = Empty
        /\ UNCHANGED <<file, row, recorded, objects, used, racy>>
        /\ \A d \in Clients : proc[d].op = "none"
    BY Zenon DEF InitStore, IInv, Claimed, JInv, Files, tables
  <1>2. \A d \in Clients : proc'[d].op \in {"none", "init"}
    BY <1>1, Zenon DEF InitStore, IInv, Shape, Idle
  <1>3. Files' /\ Writers'
    BY <1>1, <1>2, Zenon DEF JInv, Files, Writers, Uploads, At
  <1>4. RecordedTrue'
    BY <1>1, Zenon DEF RecordedTrue, Empty
  <1>5. ListedTrue' /\ Accounted'
    BY <1>1, <1>2, Zenon DEF JInv, ListedTrue, Accounted, Listed, At
  <1>6. ManifestAssembled'
    BY <1>1, Zenon DEF JInv, ManifestAssembled
  <1> QED BY <1>3, <1>4, <1>5, <1>6, Zenon DEF JInv

\* A new upload of a part marks the part if another one or a completion runs.
LEMMA PartStartKeeps ==
    ASSUME IInv, JInv, NEW c \in Clients, NEW n \in Parts, PartStart(c, n)
    PROVE  JInv'
  <1>1. /\ proc[c].op = "none" /\ racy \subseteq racy'
        /\ UNCHANGED <<file, row, recorded, dir, session, begun, objects, used>>
    BY DEF PartStart, Idle, tables, storage
  <1>2. /\ \A d \in Clients \ {c} : proc'[d] = proc[d]
        /\ proc'[c].op = "part" /\ proc'[c].pc = "create" /\ proc'[c].part = n
        /\ proc'[c].mixed = FALSE
    BY Zenon DEF PartStart, IInv, Shape, Idle
  <1>3. \A d \in Clients : Uploads(d, n) \/ proc[d].op = "complete" => n \in racy'
    BY Zenon DEF PartStart, Writing, Completing, Uploads
  <1>4. Files'
    BY <1>1, Zenon DEF JInv, Files
  <1>5. Writers'
    <2>1. \A d \in Clients : proc'[d].op = "part" =>
             /\ proc'[d].part \in Parts
             /\ proc'[d].mixed => proc'[d].part \in racy'
      BY <1>1, <1>2, Zenon DEF JInv, Writers
    <2>2. ASSUME NEW d \in Clients, NEW e \in Clients, proc'[d].op = "part", d # e,
                 \/ proc'[e].op = "complete"
                 \/ proc'[e].op = "part" /\ proc'[e].part = proc'[d].part
          PROVE  proc'[d].part \in racy'
      <3>1. CASE d = c
        BY <1>2, <1>3, <2>2, <3>1, Zenon DEF Uploads
      <3>2. CASE e = c
        BY <1>2, <1>3, <2>2, <3>2, Zenon DEF Uploads
      <3>3. CASE d # c /\ e # c
        BY <1>1, <1>2, <2>2, <3>3, SMTT(20) DEF JInv, Writers, Uploads
      <3> QED BY <3>1, <3>2, <3>3, Zenon
    <2>3. \A d \in Clients : At(d, "part", "record")' =>
             proc'[d].part \in racy' \/ file'[proc'[d].part] \in {0, proc'[d].write}
      BY <1>1, <1>2, Zenon DEF JInv, Writers, At
    <2> QED BY <2>1, <2>2, <2>3, Zenon DEF Writers, Uploads
  <1>6. RecordedTrue'
    BY <1>1, <1>2 DEF JInv, RecordedTrue, Uploads
  <1>7. ListedTrue' /\ Accounted' /\ ManifestAssembled'
    BY <1>1, <1>2, CompletionsKept, Zenon
  <1> QED BY <1>4, <1>5, <1>6, <1>7, Zenon DEF JInv

\* os.Create: writers it gets in the way of make the part a marked one.
LEMMA PartCreateKeeps ==
    ASSUME IInv, JInv, NEW c \in Clients, PartCreate(c)
    PROVE  JInv'
  <1> DEFINE n == proc[c].part
             others == {d \in Writing(n) : proc[d].pc = "write"}
  <1>1. /\ proc[c].op = "part" /\ proc[c].pc = "create"
        /\ UNCHANGED <<row, recorded, dir, session, begun, objects, used, racy>>
    BY Zenon DEF PartCreate, Quietly, At, tables
  <1>2. n \in Parts
    BY <1>1, Zenon DEF JInv, Writers
  <1>3. DOMAIN file = Parts /\ dir \in BOOLEAN /\ (~dir => file = Empty)
        /\ DOMAIN recorded = Parts /\ (~begun \/ ~row => recorded = Empty)
    BY Zenon DEF JInv, Files
  <1>4. CASE ~dir
    <2>1. file' = file /\ End(c)
      BY <1>4, Zenon DEF PartCreate
    <2>2. file[n] = 0
      BY <1>2, <1>3, <1>4, Zenon DEF Empty
    <2>3. /\ \A d \in Clients \ {c} : proc'[d] = proc[d]
          /\ proc'[c].op = "none"
      BY <2>1, Moves, Zenon
    <2> QED BY <1>1, <1>3, <2>1, <2>2, <2>3, Kept, Zenon
  <1>5. CASE dir
    <2>1. others \subseteq Clients \ {c} /\ (others # {} => n \in racy)
      <3>1. \A d \in others : d \in Clients /\ d # c /\ Uploads(d, n)
        BY <1>1, Zenon DEF Writing, Uploads
      <3> QED BY <1>1, <3>1, Zenon DEF JInv, Writers
    <2>2. \A d \in others : proc[d].op = "part" /\ proc[d].part = n /\ proc[d].pc = "write"
      BY Zenon DEF Writing
    <2>3. PICK O, mixed :
             /\ O = others /\ (mixed => O # {})
             /\ file' = [file EXCEPT ![n] = Torn]
             /\ proc' = [d \in Clients |->
                   IF d = c THEN [proc[d] EXCEPT !.pc = "write", !.mixed = mixed]
                   ELSE IF d \in O THEN [proc[d] EXCEPT !.mixed = TRUE]
                   ELSE proc[d]]
      <3> DEFINE m == (others # {})
      <3>1. /\ file' = [file EXCEPT ![n] = Torn]
            /\ proc' = [d \in Clients |->
                   IF d = c THEN [proc[d] EXCEPT !.pc = "write", !.mixed = m]
                   ELSE IF d \in others THEN [proc[d] EXCEPT !.mixed = TRUE]
                   ELSE proc[d]]
        BY <1>5, Zenon DEF PartCreate
      <3>2. m => others # {}
        BY Zenon
      <3> HIDE DEF m, others, n
      <3> QED BY <3>1, <3>2, Zenon
    <2> HIDE DEF others, n
    <2>4. /\ \A d \in Clients : proc'[d].op = proc[d].op /\ proc'[d].part = proc[d].part
          /\ \A d \in Clients \ (others \cup {c}) : proc'[d] = proc[d]
          /\ \A d \in others : proc'[d].pc = "write"
          /\ proc'[c].pc = "write" /\ (proc'[c].mixed => n \in racy)
      <3>1. \A d \in Clients : DOMAIN proc[d] = Fields
        BY Zenon DEF IInv, Shape
      <3>2. proc'[c] = [proc[c] EXCEPT !.pc = "write", !.mixed = mixed]
        BY <2>3, Zenon
      <3>3. \A d \in others : proc'[d] = [proc[d] EXCEPT !.mixed = TRUE]
        BY <2>1, <2>3, Zenon
      <3>4. \A d \in Clients \ (others \cup {c}) : proc'[d] = proc[d]
        BY <2>3, Zenon
      <3>5. /\ proc'[c].op = proc[c].op /\ proc'[c].part = proc[c].part
            /\ proc'[c].pc = "write" /\ proc'[c].mixed = mixed
        BY <3>1, <3>2, Zenon DEF Fields
      <3>6. \A d \in others :
               proc'[d].op = proc[d].op /\ proc'[d].part = proc[d].part /\ proc'[d].pc = proc[d].pc
        BY <2>1, <3>1, <3>3, Zenon DEF Fields
      <3> QED BY <2>1, <2>2, <2>3, <3>4, <3>5, <3>6, Zenon
    <2>5. DOMAIN file' = Parts /\ file'[n] = Torn /\ \A m \in Parts \ {n} : file'[m] = file[m]
      BY <1>2, <1>3, <2>3, Zenon
    <2>6. Files'
      BY <1>1, <1>3, <1>5, <2>5, Zenon DEF Files
    <2>7. Writers'
      <3>1. ASSUME NEW d \in Clients, proc'[d].op = "part"
            PROVE  proc'[d].part \in Parts /\ (proc'[d].mixed => proc'[d].part \in racy')
        <4>1. CASE d = c
          BY <1>1, <1>2, <2>4, <4>1, Zenon DEF n
        <4>2. CASE d \in others
          BY <1>1, <1>2, <2>1, <2>2, <2>4, <4>2, SMTT(20)
        <4>3. CASE d \notin others \cup {c}
          BY <1>1, <2>4, <3>1, <4>3, Zenon DEF JInv, Writers
        <4> QED BY <4>1, <4>2, <4>3, Zenon
      <3>2. ASSUME NEW d \in Clients, NEW e \in Clients, proc'[d].op = "part", d # e,
                   \/ proc'[e].op = "complete"
                   \/ proc'[e].op = "part" /\ proc'[e].part = proc'[d].part
            PROVE  proc'[d].part \in racy'
        <4>1. /\ proc[d].op = "part" /\ proc'[d].part = proc[d].part
              /\ \/ proc[e].op = "complete"
                 \/ proc[e].op = "part" /\ proc[e].part = proc[d].part
          BY <2>4, <3>2, Zenon
        <4>2. Writers
          BY Zenon DEF JInv
        <4>3. proc[d].part \in racy
          BY <3>2, <4>1, <4>2, WritersApart, Zenon
        <4> QED BY <1>1, <4>1, <4>3, Zenon
      <3>3. ASSUME NEW d \in Clients, At(d, "part", "record")'
            PROVE  proc'[d].part \in racy' \/ file'[proc'[d].part] \in {0, proc'[d].write}
        <4>1. d \notin others \cup {c} /\ proc'[d] = proc[d]
          BY <2>4, <3>3, Zenon DEF At
        <4>2. CASE proc[d].part = n
          BY <1>1, <3>3, <4>1, <4>2, Zenon DEF JInv, Writers, Uploads, At, n
        <4>3. CASE proc[d].part # n
          BY <1>1, <2>5, <3>3, <4>1, <4>3, ZenonT(40) DEF JInv, Writers, At
        <4> QED BY <4>2, <4>3, Zenon
      <3> QED BY <3>1, <3>2, <3>3, Zenon DEF Writers, Uploads
    <2>8. RecordedTrue'
      <3> SUFFICES ASSUME session', NEW m \in Parts \ racy'
                   PROVE  \/ recorded'[m] = 0 \/ file'[m] \in {0, recorded'[m]}
                          \/ \E d \in Clients : Uploads(d, m)'
        BY Zenon DEF RecordedTrue
      <3>1. CASE m = n
        BY <1>1, <2>4, <3>1, Zenon DEF Uploads, n
      <3>2. CASE m # n
        BY <1>1, <2>4, <2>5, <3>2 DEF JInv, RecordedTrue, Uploads
      <3> QED BY <3>1, <3>2, Zenon
    <2>9. ListedTrue' /\ Accounted' /\ ManifestAssembled'
      <3>1. \A d \in Clients : proc'[d].op = "complete" => proc'[d] = proc[d]
        BY <1>1, <2>1, <2>2, <2>4, Zenon
      <3>2. \A m \in Parts :
               file'[m] = file[m] \/ m \in racy \/ \A d \in Clients : proc[d].op # "complete"
        BY <1>1, <2>5, Zenon DEF JInv, Writers, n
      <3> QED BY <1>1, <3>1, <3>2, CompletionsKept, Zenon
    <2> QED BY <2>6, <2>7, <2>8, <2>9, Zenon DEF JInv
  <1> QED BY <1>3, <1>4, <1>5, Zenon

\* The file gets the writer's content, unless the part is a marked one.
LEMMA PartWriteKeeps ==
    ASSUME IInv, JInv, NEW c \in Clients, PartWrite(c)
    PROVE  JInv'
  <1>1. /\ proc[c].op = "part" /\ Goto(c, "record")
        /\ UNCHANGED <<row, recorded, dir, session, begun, objects, used, racy>>
    BY Zenon DEF PartWrite, Quietly, At, tables
  <1>2. PICK n \in Parts : n = proc[c].part /\ (proc[c].mixed => n \in racy)
    BY <1>1, Zenon DEF JInv, Writers
  <1>3. DOMAIN file = Parts /\ dir \in BOOLEAN /\ (~dir => file = Empty)
        /\ DOMAIN recorded = Parts /\ (~begun \/ ~row => recorded = Empty)
    BY Zenon DEF JInv, Files
  <1>4. /\ \A d \in Clients \ {c} : proc'[d] = proc[d]
        /\ proc'[c].op = "part" /\ proc'[c].part = n /\ proc'[c].write = proc[c].write
        /\ proc'[c].mixed = proc[c].mixed
    BY <1>1, <1>2, Zenon DEF Goto, IInv, Shape, Fields
  <1>5. /\ DOMAIN file' = Parts /\ \A m \in Parts \ {n} : file'[m] = file[m]
        /\ n \in racy \/ file'[n] \in {0, proc[c].write}
        /\ ~dir => file' = file
    <2>1. CASE dir
      <3>1. PICK v \in {proc[c].write} \cup (IF proc[c].mixed THEN {Torn} ELSE {}) :
               file' = [file EXCEPT ![n] = v]
        BY <1>2, <2>1, Zenon DEF PartWrite
      <3>2. v = proc[c].write \/ n \in racy
        BY <1>2, Zenon
      <3> QED BY <1>3, <2>1, <3>1, <3>2, Zenon
    <2>2. CASE ~dir
      BY <1>2, <1>3, <2>2 DEF PartWrite, Empty
    <2> QED BY <1>3, <2>1, <2>2, Zenon
  <1>6. Files'
    BY <1>1, <1>3, <1>5, Zenon DEF Files
  <1>7. Writers'
    <2>1. \A d \in Clients : proc'[d].op = "part" =>
             proc'[d].part \in Parts /\ (proc'[d].mixed => proc'[d].part \in racy')
      BY <1>1, <1>2, <1>4, Zenon DEF JInv, Writers
    <2>2. ASSUME NEW d \in Clients, NEW e \in Clients, proc'[d].op = "part", d # e,
                 \/ proc'[e].op = "complete"
                 \/ proc'[e].op = "part" /\ proc'[e].part = proc'[d].part
          PROVE  proc'[d].part \in racy'
      <3>1. /\ proc[d].op = "part" /\ proc'[d].part = proc[d].part
            /\ \/ proc[e].op = "complete"
               \/ proc[e].op = "part" /\ proc[e].part = proc[d].part
        BY <1>1, <1>2, <1>4, <2>2, Zenon
      <3>2. Writers
        BY Zenon DEF JInv
      <3>3. proc[d].part \in racy
        BY <2>2, <3>1, <3>2, WritersApart, Zenon
      <3> QED BY <1>1, <3>1, <3>3, Zenon
    <2>3. ASSUME NEW d \in Clients, At(d, "part", "record")'
          PROVE  proc'[d].part \in racy' \/ file'[proc'[d].part] \in {0, proc'[d].write}
      <3>1. CASE d = c
        BY <1>1, <1>4, <1>5, <3>1, Zenon
      <3>2. CASE d # c /\ proc[d].part = n
        BY <1>1, <1>2, <1>4, <2>2, <2>3, <3>2, Zenon DEF JInv, Writers, Uploads, At
      <3>3. CASE d # c /\ proc[d].part # n
        <4>1. proc'[d] = proc[d] /\ proc[d].op = "part" /\ proc[d].pc = "record"
          BY <1>4, <2>3, <3>3, Zenon DEF At
        <4>2. Writers
          BY Zenon DEF JInv
        <4>3. proc[d].part \in racy \/ file[proc[d].part] \in {0, proc[d].write}
          BY <4>1, <4>2, WriterWrote, Zenon
        <4>4. proc[d].part \in Parts
          BY <4>1, <4>2, Zenon DEF Writers
        <4>5. file'[proc[d].part] = file[proc[d].part]
          BY <1>5, <3>3, <4>4, Zenon
        <4> QED BY <1>1, <4>1, <4>3, <4>5, Zenon
      <3> QED BY <3>1, <3>2, <3>3, Zenon
    <2> QED BY <2>1, <2>2, <2>3, Zenon DEF Writers, Uploads
  <1>8. RecordedTrue'
    <2> SUFFICES ASSUME session', NEW m \in Parts \ racy'
                 PROVE  \/ recorded'[m] = 0 \/ file'[m] \in {0, recorded'[m]}
                        \/ \E d \in Clients : Uploads(d, m)'
      BY Zenon DEF RecordedTrue
    <2>1. CASE m = n
      BY <1>4, <2>1, Zenon DEF Uploads
    <2>2. CASE m # n
      <3>1. \/ recorded[m] = 0 \/ file[m] \in {0, recorded[m]}
            \/ \E d \in Clients : Uploads(d, m)
        BY <1>1, Zenon DEF JInv, RecordedTrue
      <3>2. file'[m] = file[m]
        BY <1>5, <2>2, Zenon
      <3>3. \A d \in Clients : Uploads(d, m) => Uploads(d, m)'
        BY <1>2, <1>4, <2>2, Zenon DEF Uploads
      <3> QED BY <1>1, <3>1, <3>2, <3>3, Zenon
    <2> QED BY <2>1, <2>2, Zenon
  <1>9. ListedTrue' /\ Accounted' /\ ManifestAssembled'
    <2>1. \A d \in Clients : proc'[d].op = "complete" => proc'[d] = proc[d]
      BY <1>4, Zenon
    <2>2. \A m \in Parts :
             file'[m] = file[m] \/ m \in racy \/ \A d \in Clients : proc[d].op # "complete"
      BY <1>1, <1>2, <1>5, Zenon DEF JInv, Writers
    <2> QED BY <1>1, <2>1, <2>2, CompletionsKept, Zenon
  <1> QED BY <1>6, <1>7, <1>8, <1>9, Zenon DEF JInv

\* RecordPart: the file has the recorded content, unless the part is marked.
LEMMA PartRecordKeeps ==
    ASSUME IInv, JInv, NEW c \in Clients, PartRecord(c)
    PROVE  JInv'
  <1>1. /\ proc[c].op = "part" /\ End(c) /\ At(c, "part", "record")
        /\ UNCHANGED <<row, file, dir, session, begun, objects, used, racy>>
    BY Zenon DEF PartRecord, Quietly, At, storage
  <1>2. PICK n \in Parts :
           n = proc[c].part /\ (n \in racy \/ file[n] \in {0, proc[c].write})
    BY <1>1, Zenon DEF JInv, Writers
  <1>3. DOMAIN file = Parts /\ dir \in BOOLEAN /\ (~dir => file = Empty)
        /\ DOMAIN recorded = Parts /\ (~begun \/ ~row => recorded = Empty)
    BY Zenon DEF JInv, Files
  <1>4. /\ \A d \in Clients \ {c} : proc'[d] = proc[d]
        /\ proc'[c].op = "none"
    BY <1>1, Moves, Zenon
  <1>5. /\ DOMAIN recorded' = Parts /\ \A m \in Parts \ {n} : recorded'[m] = recorded[m]
        /\ row => recorded'[n] = proc[c].write
        /\ ~row => recorded' = Empty
    BY <1>2, <1>3, Zenon DEF PartRecord
  <1>6. begun
    BY <1>1, Zenon DEF IInv, Claimed
  <1>7. Files'
    BY <1>1, <1>3, <1>5, <1>6, Zenon DEF Files
  <1>8. Writers'
    <2>1. Writers
      BY Zenon DEF JInv
    <2>2. /\ \A d \in Clients : proc'[d].op = "part" => proc'[d] = proc[d]
          /\ \A d \in Clients : proc'[d].op = "complete" => proc[d].op = "complete"
      BY <1>4, Zenon
    <2> QED BY <1>1, <2>1, <2>2, WritersKept, Zenon
  <1>9. RecordedTrue'
    <2> SUFFICES ASSUME session', NEW m \in Parts \ racy'
                 PROVE  \/ recorded'[m] = 0 \/ file'[m] \in {0, recorded'[m]}
                        \/ \E d \in Clients : Uploads(d, m)'
      BY Zenon DEF RecordedTrue
    <2>1. CASE ~row
      BY <1>5, <2>1, Zenon DEF Empty
    <2>2. CASE row /\ m = n
      BY <1>1, <1>2, <1>5, <2>2, Zenon
    <2>3. CASE row /\ m # n
      <3>1. \/ recorded[m] = 0 \/ file[m] \in {0, recorded[m]}
            \/ \E d \in Clients : Uploads(d, m)
        BY <1>1, Zenon DEF JInv, RecordedTrue
      <3>2. \A d \in Clients : Uploads(d, m) => Uploads(d, m)'
        BY <1>2, <1>4, <2>3, Zenon DEF Uploads
      <3>3. recorded'[m] = recorded[m] /\ file'[m] = file[m]
        BY <1>1, <1>5, <2>3, Zenon
      <3> QED BY <3>1, <3>2, <3>3, Zenon
    <2> QED BY <2>1, <2>2, <2>3, Zenon
  <1>10. ListedTrue' /\ Accounted' /\ ManifestAssembled'
    <2>1. \A d \in Clients : proc'[d].op = "complete" => proc'[d] = proc[d]
      BY <1>4, Zenon
    <2> QED BY <1>1, <2>1, CompletionsKept, Zenon
  <1> QED BY <1>7, <1>8, <1>9, <1>10, Zenon DEF JInv

\* A broken-off upload marks its part, a completion the parts being written.
LEMMA PartFailsKeeps ==
    ASSUME IInv, JInv, NEW c \in Clients, PartFails(c)
    PROVE  JInv'
  <1>1. /\ End(c) /\ racy' = racy \cup {proc[c].part}
        /\ UNCHANGED <<row, recorded, file, dir, session, begun, objects, used>>
    BY Zenon DEF PartFails, tables, storage
  <1>2. DOMAIN file = Parts /\ dir \in BOOLEAN /\ (~dir => file = Empty)
        /\ DOMAIN recorded = Parts /\ (~begun \/ ~row => recorded = Empty)
    BY Zenon DEF JInv, Files
  <1>3. /\ \A d \in Clients \ {c} : proc'[d] = proc[d]
        /\ proc'[c].op = "none"
    BY <1>1, Moves, Zenon
  <1> QED BY <1>1, <1>2, <1>3, Kept, Zenon

\* Claiming a session for completion.
LEMMA ClaimKeeps ==
    ASSUME IInv, JInv, NEW c \in Clients, Claim(c, "complete")
    PROVE  JInv'
  <1>1. /\ proc[c].op = "none" /\ racy' = racy \cup {n \in Parts : Writing(n) # {}}
        /\ UNCHANGED <<row, recorded, file, dir, session, begun, objects, used>>
    BY DEF Claim, Idle, storage
  <1>2. /\ \A d \in Clients \ {c} : proc'[d] = proc[d]
        /\ proc'[c].op = "complete" /\ proc'[c].pc = "load"
    BY Zenon DEF Claim, IInv, Shape, Idle
  <1>3. \A d \in Clients : proc[d].op = "part" => proc[d].part \in racy'
    BY <1>1, Zenon DEF JInv, Writers, Writing
  <1>4. Files'
    BY <1>1, Zenon DEF JInv, Files
  <1>5. Writers'
    BY <1>1, <1>2, <1>3, Zenon DEF JInv, Writers, Uploads, At
  <1>6. RecordedTrue'
    BY <1>1, <1>2 DEF JInv, RecordedTrue, Uploads
  <1>7. ListedTrue' /\ Accounted' /\ ManifestAssembled'
    BY <1>1, <1>2, CompletionsKept, Zenon
  <1> QED BY <1>4, <1>5, <1>6, <1>7, Zenon DEF JInv

\* A step of the one completion, which writes no part.
LEMMA CompleterKeeps ==
    ASSUME IInv, JInv, NEW c \in Clients, proc[c].op = "complete",
           \A d \in Clients \ {c} : proc'[d] = proc[d], proc'[c].op = "complete",
           UNCHANGED <<row, recorded, begun, racy>>, session' => session,
           \/ UNCHANGED <<dir, file>>
           \/ dir' = FALSE /\ file' = Empty
    PROVE  /\ Files' /\ Writers' /\ RecordedTrue'
           /\ \A d \in Clients \ {c} : proc'[d].op # "complete"
  <1>1. DOMAIN file = Parts /\ DOMAIN recorded = Parts /\ dir \in BOOLEAN
        /\ (~dir => file = Empty) /\ DOMAIN Empty = Parts /\ (\A n \in Parts : Empty[n] = 0)
        /\ (~begun \/ ~row => recorded = Empty)
    BY Zenon DEF JInv, Files, Empty
  <1>2. DOMAIN file' = Parts /\ \A n \in Parts : file'[n] \in {0, file[n]}
    BY <1>1, Zenon
  <1>3. \A d \in Clients : proc'[d].op = "part" => proc'[d] = proc[d]
    BY Zenon
  <1>4. \A d \in Clients : proc[d].op = "part" => proc'[d] = proc[d] /\ proc[d].part \in Parts
    BY Zenon DEF JInv, Writers
  <1>5. Files'
    BY <1>1, Zenon DEF Files
  <1>6. Writers'
    <2>1. Writers
      BY Zenon DEF JInv
    <2>2. \A d \in Clients : proc'[d].op = "complete" => proc[d].op = "complete"
      BY Zenon
    <2> QED BY <1>2, <1>3, <2>1, <2>2, WritersKept, Zenon
  <1>7. RecordedTrue'
    <2> SUFFICES ASSUME session', NEW n \in Parts \ racy'
                 PROVE  \/ recorded'[n] = 0 \/ file'[n] \in {0, recorded'[n]}
                        \/ \E d \in Clients : Uploads(d, n)'
      BY Zenon DEF RecordedTrue
    <2>1. \/ recorded[n] = 0 \/ file[n] \in {0, recorded[n]}
          \/ \E d \in Clients : Uploads(d, n)
      BY Zenon DEF JInv, RecordedTrue
    <2>2. \A d \in Clients : Uploads(d, n) => Uploads(d, n)'
      BY <1>4, Zenon DEF Uploads
    <2> QED BY <1>2, <2>1, <2>2, Zenon
  <1>8. \A d \in Clients \ {c} : proc'[d].op # "complete"
    BY Zenon DEF IInv, ClaimExclusive
  <1> QED BY <1>5, <1>6, <1>7, <1>8, Zenon

\* What is listed is recorded, and has its files while there is a session:
\* only marked parts have writers.
LEMMA LoadKeeps ==
    ASSUME IInv, JInv, NEW c \in Clients, CompleteLoad(c)
    PROVE  JInv'
  <1>1. /\ proc[c].op = "complete"
        /\ UNCHANGED <<row, recorded, file, dir, session, begun, objects, used, racy>>
    BY Zenon DEF CompleteLoad, Quietly, At, tables, storage
  <1>2. CASE Goto(c, "release")
    <2>1. /\ \A d \in Clients \ {c} : proc'[d] = proc[d]
          /\ proc'[c].op = "complete" /\ proc'[c].pc = "release"
      BY <1>1, <1>2, Moves, Zenon
    <2>2. Files' /\ Writers' /\ RecordedTrue'
      BY <1>1, <2>1, CompleterKeeps, Zenon
    <2>3. ListedTrue' /\ Accounted' /\ ManifestAssembled'
      BY <1>1, <2>1, CompletionsKept, Zenon
    <2> QED BY <2>2, <2>3, Zenon DEF JInv
  <1>3. CASE ~Goto(c, "release")
    <2>1. PICK M \in SUBSET Parts :
             /\ \A n \in M : recorded[n] # 0
             /\ proc' = [proc EXCEPT ![c] = [@ EXCEPT
                            !.pc = "account", !.manifest = [n \in M |-> recorded[n]]]]
      BY <1>3, Zenon DEF CompleteLoad
    <2>2. /\ \A d \in Clients \ {c} : proc'[d] = proc[d]
          /\ proc'[c].op = "complete" /\ proc'[c].pc = "account"
          /\ proc'[c].manifest = [n \in M |-> recorded[n]]
      BY <1>1, <2>1, Zenon DEF IInv, Shape, Fields
    <2>3. /\ Files' /\ Writers' /\ RecordedTrue'
          /\ \A d \in Clients \ {c} : proc'[d].op # "complete"
      BY <1>1, <2>2, CompleterKeeps, Zenon
    <2>4. ASSUME session, NEW n \in M \ racy PROVE file[n] \in {0, recorded[n]}
      <3>1. \A d \in Clients : ~Uploads(d, n)
        BY <1>1, <2>4, Zenon DEF JInv, Writers, Uploads
      <3> QED BY <2>1, <2>4, <3>1, Zenon DEF JInv, RecordedTrue
    <2>5. ListedTrue'
      <3>1. \A d \in Clients : Listed(d)' => d = c
        BY <2>3, Zenon DEF Listed
      <3>2. \A d \in Clients : ~At(d, "complete", "save")'
        BY <2>2, <2>3, Zenon DEF At
      <3>3. DOMAIN proc'[c].manifest = M /\ \A n \in M : proc'[c].manifest[n] = recorded[n]
        BY <2>2, Zenon
      <3>4. ASSUME NEW d \in Clients, Listed(d)'
            PROVE  /\ DOMAIN proc'[d].manifest \subseteq Parts
                   /\ session' => \A n \in DOMAIN proc'[d].manifest \ racy' :
                                     file'[n] \in {0, proc'[d].manifest[n]}
        <4>1. d = c
          BY <3>1, <3>4, Zenon
        <4>2. M \subseteq Parts
          BY Zenon
        <4>3. session => \A n \in M \ racy : file[n] \in {0, recorded[n]}
          BY <2>4, Zenon
        <4> QED BY <1>1, <3>3, <4>1, <4>2, <4>3, Zenon
      <3>5. \A d \in Clients : Listed(d)' => proc'[d].pc # "merge"
        BY <2>2, <3>1, Zenon
      <3> QED BY <3>2, <3>4, <3>5, Zenon DEF ListedTrue
    <2>6. Accounted'
      BY <1>1, <2>2, <2>3, Zenon DEF JInv, Accounted, Listed
    <2>7. ManifestAssembled'
      BY <1>1, Zenon DEF JInv, ManifestAssembled
    <2> QED BY <2>3, <2>5, <2>6, <2>7, Zenon DEF JInv
  <1> QED BY <1>2, <1>3, Zenon

\* The usage grows by the listed parts.
LEMMA AccountKeeps ==
    ASSUME IInv, JInv, NEW c \in Clients, CompleteAccount(c)
    PROVE  JInv'
  <1>1. /\ proc[c].op = "complete" /\ proc[c].pc = "account"
        /\ UNCHANGED <<row, recorded, file, dir, session, begun, objects, racy>>
    BY Zenon DEF CompleteAccount, Quietly, At, storage
  <1>2. PICK size : size = Size(DOMAIN proc[c].manifest)
    BY Zenon
  <1>3. /\ \/ used' = used + size /\ Goto(c, "consume")
           \/ used' = used /\ Goto(c, "release")
    BY <1>2, Zenon DEF CompleteAccount
  <1>4. PICK pc \in {"consume", "release"} :
           Goto(c, pc) /\ (used' = used \/ used' = used + size) /\ (pc = "consume" => used' = used + size)
    BY <1>3, Zenon
  <1>5. /\ \A d \in Clients \ {c} : proc'[d] = proc[d]
        /\ proc'[c].op = "complete" /\ proc'[c].pc = pc /\ proc'[c].manifest = proc[c].manifest
    BY <1>1, <1>4, Zenon DEF Goto, IInv, Shape, Fields
  <1>6. /\ Files' /\ Writers' /\ RecordedTrue'
        /\ \A d \in Clients \ {c} : proc'[d].op # "complete"
    BY <1>1, <1>5, CompleterKeeps, Zenon
  <1>7. Listed(c) /\ DOMAIN proc[c].manifest \in SUBSET Parts
    BY <1>1, Zenon DEF JInv, ListedTrue, Listed
  <1>8. size \in Nat
    BY <1>2, <1>7, SizeNat, Zenon
  <1>9. ListedTrue'
    <2>1. \A d \in Clients : Listed(d)' => d = c
      BY <1>6, Zenon DEF Listed
    <2>2. \A d \in Clients : ~At(d, "complete", "save")'
      BY <1>5, <1>6, Zenon DEF At
    <2>3. session => \A n \in DOMAIN proc[c].manifest \ racy : file[n] \in {0, proc[c].manifest[n]}
      BY <1>1, <1>7, Zenon DEF JInv, ListedTrue
    <2> QED BY <1>1, <1>5, <1>7, <2>1, <2>2, <2>3, Zenon DEF ListedTrue
  <1>10. Accounted'
    <2>1. used \in Nat /\ used' \in Nat /\ used <= used' /\ (pc = "consume" => size <= used')
      BY <1>4, <1>8 DEF JInv, Accounted
    <2>2. \A d \in Clients : Listed(d)' => d = c /\ pc = "consume"
      BY <1>5, <1>6, Zenon DEF Listed
    <2>3. \A i \in DOMAIN objects : Size(DOMAIN objects[i].manifest) <= used'
      <3> SUFFICES ASSUME NEW i \in DOMAIN objects
                   PROVE  Size(DOMAIN objects[i].manifest) <= used'
        BY Zenon
      <3>1. DOMAIN objects[i].manifest \in SUBSET Parts /\ Size(DOMAIN objects[i].manifest) <= used
        BY Zenon DEF JInv, Accounted
      <3>2. PICK s \in Nat : s = Size(DOMAIN objects[i].manifest)
        BY <3>1, SizeNat, Zenon
      <3> QED BY <2>1, <3>1, <3>2
    <2> QED BY <1>1, <1>2, <1>5, <2>1, <2>2, <2>3, Zenon DEF JInv, Accounted
  <1>11. ManifestAssembled'
    BY <1>1, Zenon DEF JInv, ManifestAssembled
  <1> QED BY <1>6, <1>9, <1>10, <1>11, Zenon DEF JInv

\* The storage takes the session and with it the right to the files.
LEMMA ConsumeKeeps ==
    ASSUME IInv, JInv, NEW c \in Clients, CompleteConsume(c)
    PROVE  JInv'
  <1>1. /\ proc[c].op = "complete" /\ proc[c].pc = "consume"
        /\ UNCHANGED <<row, recorded, file, dir, begun, objects, used, racy>>
    BY Zenon DEF CompleteConsume, Quietly, At, tables
  <1>2. PICK pc \in {"merge", "release"} :
           Goto(c, pc) /\ (pc = "merge" => session) /\ (session' => session)
    BY Zenon DEF CompleteConsume, Leftover
  <1>3. /\ \A d \in Clients \ {c} : proc'[d] = proc[d]
        /\ proc'[c].op = "complete" /\ proc'[c].pc = pc /\ proc'[c].manifest = proc[c].manifest
    BY <1>1, <1>2, Zenon DEF Goto, IInv, Shape, Fields
  <1>4. /\ Files' /\ Writers' /\ RecordedTrue'
        /\ \A d \in Clients \ {c} : proc'[d].op # "complete"
    BY <1>1, <1>2, <1>3, CompleterKeeps, Zenon
  <1>5. \A d \in Clients : Listed(d)' => d = c /\ pc = "merge"
    BY <1>3, <1>4, Zenon DEF Listed
  <1>6. Listed(c)
    BY <1>1, Zenon DEF Listed
  <1>7. ListedTrue'
    <2>1. \A d \in Clients : ~At(d, "complete", "save")'
      BY <1>3, <1>4, Zenon DEF At
    <2>2. DOMAIN proc[c].manifest \subseteq Parts
          /\ (session => \A n \in DOMAIN proc[c].manifest \ racy : file[n] \in {0, proc[c].manifest[n]})
      BY <1>1, <1>6, Zenon DEF JInv, ListedTrue
    <2> QED BY <1>1, <1>2, <1>3, <1>5, <2>1, <2>2, Zenon DEF ListedTrue
  <1>8. Accounted'
    BY <1>1, <1>3, <1>5, <1>6, Zenon DEF JInv, Accounted
  <1>9. ManifestAssembled'
    BY <1>1, Zenon DEF JInv, ManifestAssembled
  <1> QED BY <1>4, <1>7, <1>8, <1>9, Zenon DEF JInv

\* What is assembled is what the files of the listed parts have.
LEMMA MergeKeeps ==
    ASSUME IInv, JInv, NEW c \in Clients, CompleteMerge(c)
    PROVE  JInv'
  <1>1. /\ proc[c].op = "complete" /\ proc[c].pc = "merge"
        /\ UNCHANGED <<row, recorded, session, begun, objects, used, racy>>
        /\ dir' = FALSE /\ file' = Empty
    BY Zenon DEF CompleteMerge, Quietly, At, tables, Leftover
  <1>2. Listed(c)
    BY <1>1, Zenon DEF Listed
  <1>3. DOMAIN proc[c].manifest \subseteq Parts
        /\ \A n \in DOMAIN proc[c].manifest \ racy : file[n] \in {0, proc[c].manifest[n]}
    BY <1>1, <1>2, Zenon DEF JInv, ListedTrue
  <1>4. CASE Goto(c, "release")
    <2>1. /\ \A d \in Clients \ {c} : proc'[d] = proc[d]
          /\ proc'[c].op = "complete" /\ proc'[c].pc = "release"
      BY <1>1, <1>4, Moves, Zenon
    <2>2. /\ Files' /\ Writers' /\ RecordedTrue'
          /\ \A d \in Clients \ {c} : proc'[d].op # "complete"
      BY <1>1, <2>1, CompleterKeeps, Zenon
    <2>3. \A d \in Clients : ~Listed(d)' /\ ~At(d, "complete", "save")'
      BY <2>1, <2>2, Zenon DEF Listed, At
    <2>4. ListedTrue' /\ Accounted' /\ ManifestAssembled'
      <3>1. ListedTrue'
        BY <2>3, Zenon DEF ListedTrue
      <3>2. Accounted'
        BY <1>1, <2>3, Zenon DEF JInv, Accounted
      <3>3. ManifestAssembled'
        BY <1>1, Zenon DEF JInv, ManifestAssembled
      <3> QED BY <3>1, <3>2, <3>3, Zenon
    <2> QED BY <2>2, <2>4, Zenon DEF JInv
  <1>5. CASE ~Goto(c, "release")
    <2> DEFINE M == DOMAIN proc[c].manifest
    <2>1. /\ \A n \in M : file[n] # 0
          /\ proc' = [proc EXCEPT ![c] = [@ EXCEPT !.pc = "save", !.blob = [n \in M |-> file[n]]]]
      BY <1>5, Zenon DEF CompleteMerge, Assembled, AfterMerge
    <2>2. /\ \A d \in Clients \ {c} : proc'[d] = proc[d]
          /\ proc'[c].op = "complete" /\ proc'[c].pc = "save"
          /\ proc'[c].manifest = proc[c].manifest /\ proc'[c].blob = [n \in M |-> file[n]]
      BY <1>1, <2>1, Zenon DEF IInv, Shape, Fields
    <2>3. /\ Files' /\ Writers' /\ RecordedTrue'
          /\ \A d \in Clients \ {c} : proc'[d].op # "complete"
      BY <1>1, <2>2, CompleterKeeps, Zenon
    <2>4. \A d \in Clients : (Listed(d)' => d = c) /\ (At(d, "complete", "save")' => d = c)
      BY <2>3, Zenon DEF Listed, At
    <2>5. DOMAIN proc'[c].blob = M /\ \A n \in M \ racy : proc'[c].blob[n] = proc[c].manifest[n]
      BY <1>3, <2>1, <2>2, ZenonT(40)
    <2>6. ListedTrue'
      BY <1>1, <1>3, <2>2, <2>4, <2>5, Zenon DEF ListedTrue
    <2>7. Accounted'
      BY <1>1, <1>2, <2>2, <2>4, Zenon DEF JInv, Accounted
    <2>8. ManifestAssembled'
      BY <1>1, Zenon DEF JInv, ManifestAssembled
    <2> QED BY <2>3, <2>6, <2>7, <2>8, Zenon DEF JInv
  <1> QED BY <1>4, <1>5, Zenon

\* The object gets what was assembled; its size is in the usage.
LEMMA SaveKeeps ==
    ASSUME IInv, JInv, NEW c \in Clients, CompleteSave(c)
    PROVE  JInv'
  <1>1. /\ proc[c].op = "complete" /\ proc[c].pc = "save"
        /\ UNCHANGED <<row, recorded, file, dir, session, begun, used, racy>>
    BY Zenon DEF CompleteSave, Quietly, At, storage
  <1>2. PICK pc \in {"persist", "release"} : Goto(c, pc)
    BY Zenon DEF CompleteSave
  <1>3. /\ \A d \in Clients \ {c} : proc'[d] = proc[d]
        /\ proc'[c].op = "complete" /\ proc'[c].pc = pc
    BY <1>1, <1>2, Moves, Zenon
  <1>4. /\ Files' /\ Writers' /\ RecordedTrue'
        /\ \A d \in Clients \ {c} : proc'[d].op # "complete"
    BY <1>1, <1>3, CompleterKeeps, Zenon
  <1>5. \A d \in Clients : ~Listed(d)' /\ ~At(d, "complete", "save")'
    BY <1>3, <1>4, Zenon DEF Listed, At
  <1>6. Listed(c) /\ At(c, "complete", "save")
    BY <1>1, Zenon DEF Listed, At
  <1>7. objects = <<>>
    BY <1>1, Zenon DEF IInv, OneToken, Assembling
  <1>8. /\ objects' = <<[manifest |-> proc[c].manifest, blob |-> proc[c].blob]>>
        /\ DOMAIN objects' = 1 .. Len(objects') /\ DOMAIN objects' = {1}
        /\ objects'[1].manifest = proc[c].manifest /\ objects'[1].blob = proc[c].blob
    BY <1>7 DEF CompleteSave
  <1>9. ListedTrue'
    BY <1>5, Zenon DEF ListedTrue
  <1>10. Accounted'
    <2>1. DOMAIN proc[c].manifest \subseteq Parts /\ Size(DOMAIN proc[c].manifest) <= used
          /\ used \in Nat
      BY <1>1, <1>6, Zenon DEF JInv, ListedTrue, Accounted
    <2> QED BY <1>1, <1>5, <1>8, <2>1, Zenon DEF Accounted
  <1>11. ManifestAssembled'
    <2>1. DOMAIN proc[c].blob = DOMAIN proc[c].manifest
          /\ \A n \in DOMAIN proc[c].manifest \ racy : proc[c].blob[n] = proc[c].manifest[n]
      BY <1>6, Zenon DEF JInv, ListedTrue
    <2> SUFFICES ASSUME NEW i \in DOMAIN objects'
                 PROVE  /\ DOMAIN objects'[i].blob = DOMAIN objects'[i].manifest
                        /\ \A n \in DOMAIN objects'[i].manifest \ racy' :
                              objects'[i].blob[n] = objects'[i].manifest[n]
      BY Zenon DEF ManifestAssembled
    <2>2. i = 1
      BY <1>8, Zenon
    <2> QED BY <1>1, <1>8, <2>1, <2>2, Zenon
  <1> QED BY <1>4, <1>9, <1>10, <1>11, Zenon DEF JInv

\* Every step keeps the files and the usage true.
LEMMA JInvStep ==
    ASSUME IInv, JInv, [Next]_vars
    PROVE  JInv'
  <1>1. ASSUME NEW c \in Clients, Request(c) PROVE JInv'
    BY <1>1, InitStoreKeeps, PartStartKeeps, ClaimKeeps, KeptSteps, Zenon DEF Request
  <1>2. ASSUME NEW c \in Clients, Step(c) PROVE JInv'
    BY <1>2, PartCreateKeeps, PartWriteKeeps, PartRecordKeeps, LoadKeeps, AccountKeeps,
       ConsumeKeeps, MergeKeeps, SaveKeeps, KeptSteps, Zenon DEF Step
  <1>3. ASSUME NEW c \in Clients, PartFails(c) \/ Fails(c) \/ Vanishes(c) PROVE JInv'
    BY <1>3, PartFailsKeeps, KeptSteps, Zenon
  <1>4. CASE GC \/ (\E op \in {"complete", "abort"} : PurgeKey(op)) \/ Restart \/ UNCHANGED vars
    BY <1>4, KeptOthers, Zenon
  <1> QED BY <1>1, <1>2, <1>3, <1>4, Zenon DEF Next

\* Both invariants together hold in every behaviour.
THEOREM DataInvariance == Spec => [](IInv /\ JInv)
  <1>1. Init => JInv
    <2> SUFFICES ASSUME Init PROVE JInv
      BY Zenon
    <2>1. Files /\ RecordedTrue
      BY Zenon DEF Init, Files, RecordedTrue, Empty
    <2>2. Writers /\ ListedTrue
      BY Zenon DEF Init, Writers, ListedTrue, Uploads, Listed, At, Idle
    <2>3. Accounted /\ ManifestAssembled
      <3>1. /\ used = 0 /\ objects = <<>> /\ \A c \in Clients : proc[c].op = "none"
        BY Zenon DEF Init, Idle
      <3>2. DOMAIN objects = {} /\ \A c \in Clients : ~Listed(c)
        BY <3>1 DEF Listed
      <3> QED BY <3>1, <3>2, SMTT(20) DEF Accounted, ManifestAssembled
    <2> QED BY <2>1, <2>2, <2>3, Zenon DEF JInv
  <1>2. IInv /\ JInv /\ [Next]_vars => JInv'
    BY JInvStep, Zenon
  <1> QED BY <1>1, <1>2, Invariance, PTL DEF Spec

\* The tenant's usage has every object the upload became, whatever failed on
\* the way (finishMultipartCompletion accounts before it writes the row).
THEOREM UsageCovered == Spec => []UsageCovers
  <1>1. IInv /\ JInv => UsageCovers
    BY CoversOne, Zenon DEF IInv, JInv, Shape, AtMostOnce
  <1> QED BY <1>1, DataInvariance, PTL

\* The object has the listed parts, each with the content its ETag named,
\* unless uploads of that part overlapped each other or the completion, or
\* broke off (selectMultipartParts, mergeParts).
THEOREM ManifestTrue == Spec => []ManifestAssembled
  <1>1. JInv => ManifestAssembled
    BY Zenon DEF JInv
  <1> QED BY <1>1, DataInvariance, PTL
=============================================================================
