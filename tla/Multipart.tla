----------------------------- MODULE Multipart -----------------------------
(***************************************************************************)
(* One multipart upload, from InitMultipart to its end: part uploads,      *)
(* completion, abort, the garbage collectors of old uploads and old        *)
(* idempotency keys, failing statements and restarts of the process.       *)
(*                                                                         *)
(* The upload lives in four places with no transaction across them: its    *)
(* row and the rows of its parts, the part files, the session LocalStorage *)
(* keeps in memory, and the idempotency keys by which completion and abort *)
(* are claimed.  Every write of a part has a number, which stands for its  *)
(* content and its ETag; all contents of part n have size n.               *)
(*                                                                         *)
(* A request refused without any effect (an unknown upload, a claim that   *)
(* is taken, a replayed answer) is no step of the model.  The object goes  *)
(* to a versioned bucket: its usage is its size.                           *)
(***************************************************************************)
EXTENDS Integers, Sequences, FiniteSetsExt

CONSTANTS
    Clients,   \* requests that run at the same time
    NParts,    \* part numbers are 1..NParts
    MaxBytes,  \* the tenant's quota; 0 is none
    MaxWrites, \* bound: part uploads
    MaxFaults  \* bound: statements that fail, requests that vanish, restarts

ASSUME MultipartAssumption ==
    /\ NParts \in Nat \ {0}
    /\ MaxBytes \in Nat /\ MaxWrites \in Nat /\ MaxFaults \in Nat

VARIABLES
    row,      \* the upload has its row in multipart_uploads
    recorded, \* multipart_parts: the write of each part, 0 for none
    session,  \* LocalStorage.uploads has the upload
    dir,      \* the upload's directory exists
    file,     \* the part files: a write, Torn, or 0 for no file
    key,      \* the idempotency records of completion and abort
    used,     \* tenant_quotas.used_bytes
    objects,  \* the object rows the upload has produced, in order
    emitted,  \* created events
    proc,     \* what each request is doing
    gc,       \* what the upload GC is doing
    begun,    \* InitMultipart was called
    writes,   \* part uploads so far
    faults,   \* mishaps so far
    racy      \* history: parts with overlapping or broken-off writes

storage == <<session, dir, file>>
tables == <<row, recorded, key, used, objects>>
vars == <<tables, storage, emitted, proc, gc, begun, writes, faults, racy>>

Parts == 1..NParts
Torn == -1
Empty == [n \in Parts |-> 0]
Size(M) == MapThenSumSet(LAMBDA n : n, M)
SizeOfAll(o) == MapThenSumSet(LAMBDA i : Size(DOMAIN o[i].manifest), DOMAIN o)

\* part, write  what a part upload writes       mixed  others write it too
\* manifest     the parts to be assembled       blob   what was assembled
Idle == [op |-> "none", pc |-> "idle", part |-> 0, write |-> 0,
         mixed |-> FALSE, manifest |-> <<>>, blob |-> <<>>]

Init ==
    /\ row = FALSE /\ recorded = Empty
    /\ session = FALSE /\ dir = FALSE /\ file = Empty
    /\ key = [op \in {"complete", "abort"} |-> "free"]
    /\ used = 0 /\ objects = <<>> /\ emitted = 0
    /\ proc = [c \in Clients |-> Idle] /\ gc = "idle"
    /\ begun = FALSE /\ writes = 0 /\ faults = 0 /\ racy = {}

At(c, op, pc) == proc[c].op = op /\ proc[c].pc = pc
Goto(c, pc) == proc' = [proc EXCEPT ![c] = [@ EXCEPT !.pc = pc]]
End(c) == proc' = [proc EXCEPT ![c] = Idle]

Fault == faults < MaxFaults /\ faults' = faults + 1
Quietly == UNCHANGED <<emitted, gc, begun, writes, racy>>

\* The directory, the files and the session go.
Clear == session' = FALSE /\ dir' = FALSE /\ file' = Empty

-----------------------------------------------------------------------------
(* InitMultipart *)

InitStore(c) ==
    /\ proc[c] = Idle /\ ~begun
    /\ begun' = TRUE /\ session' = TRUE /\ dir' = TRUE
    /\ proc' = [proc EXCEPT ![c] = [Idle EXCEPT !.op = "init", !.pc = "row"]]
    /\ UNCHANGED <<tables, file, emitted, gc, writes, faults, racy>>

\* CreateUpload; its failure aborts the upload in the storage.
InitRow(c) ==
    /\ At(c, "init", "row") /\ End(c) /\ Quietly
    /\ \/ row' = TRUE /\ UNCHANGED <<storage, faults>>
       \/ Fault /\ Clear /\ UNCHANGED row
    /\ UNCHANGED <<recorded, key, used, objects>>

-----------------------------------------------------------------------------
(* UploadPart *)

Writing(n) == {c \in Clients : proc[c].op = "part" /\ proc[c].part = n}
Completing == {c \in Clients : proc[c].op = "complete"}

\* The upload's row and its session are found.  The session goes before the
\* row does, so finding it implies the row.
PartStart(c, n) ==
    /\ proc[c] = Idle /\ row /\ session /\ writes < MaxWrites
    /\ writes' = writes + 1
    /\ proc' = [proc EXCEPT ![c] = [Idle EXCEPT
                   !.op = "part", !.pc = "create", !.part = n,
                   !.write = writes + 1]]
    /\ racy' = IF Writing(n) \cup Completing = {} THEN racy
               ELSE racy \cup {n}
    /\ UNCHANGED <<tables, storage, emitted, gc, begun, faults>>

\* os.Create truncates the file, also under another writer.
PartCreate(c) ==
    /\ At(c, "part", "create") /\ Quietly
    /\ LET n == proc[c].part
           others == {d \in Writing(n) : proc[d].pc = "write"}
       IN IF dir
          THEN /\ file' = [file EXCEPT ![n] = Torn]
               /\ proc' = [d \in Clients |->
                     IF d = c THEN [proc[d] EXCEPT !.pc = "write",
                                                   !.mixed = others # {}]
                     ELSE IF d \in others THEN [proc[d] EXCEPT !.mixed = TRUE]
                     ELSE proc[d]]
          ELSE UNCHANGED file /\ End(c)
    /\ UNCHANGED <<tables, session, dir, faults>>

\* The file is written; two writers may leave a mixture.
PartWrite(c) ==
    /\ At(c, "part", "write") /\ Goto(c, "record") /\ Quietly
    /\ LET n == proc[c].part
       IN IF dir
          THEN \E v \in {proc[c].write} \cup
                        (IF proc[c].mixed THEN {Torn} ELSE {}) :
                  file' = [file EXCEPT ![n] = v]
          ELSE UNCHANGED file
    /\ UNCHANGED <<tables, session, dir, faults>>

\* RecordPart; the foreign key refuses the part of an upload that is gone.
PartRecord(c) ==
    /\ At(c, "part", "record") /\ End(c) /\ Quietly
    /\ recorded' = IF row
                   THEN [recorded EXCEPT ![proc[c].part] = proc[c].write]
                   ELSE recorded
    /\ UNCHANGED <<row, key, used, objects, storage, faults>>

\* The part's size is not the announced one, or a statement fails: what was
\* written to the file stays.
PartFails(c) ==
    /\ proc[c].op = "part" /\ Fault /\ End(c)
    /\ racy' = racy \cup {proc[c].part}
    /\ UNCHANGED <<tables, storage, emitted, gc, begun, writes>>

-----------------------------------------------------------------------------
(* Claims *)

\* Mutant: the claim is granted over an existing record.
ClaimableAlways(op) == TRUE

\* ClaimIdempotencyKey: INSERT ... ON CONFLICT DO NOTHING.
Claimable(op) == key[op] = "free"

Claim(c, op) ==
    /\ proc[c] = Idle /\ begun /\ Claimable(op)
    /\ key' = [key EXCEPT ![op] = "in_progress"]
    /\ proc' = [proc EXCEPT ![c] = [Idle EXCEPT !.op = op, !.pc = "load"]]
    /\ racy' = IF op = "abort" THEN racy
               ELSE racy \cup {n \in Parts : Writing(n) # {}}
    /\ UNCHANGED <<row, recorded, used, objects, storage, emitted, gc, begun,
                   writes, faults>>

\* Mutant: a failed completion gives its size back, accounted or not.
UsageRefundedBlindly(c) == used - Size(DOMAIN proc[c].manifest)

\* Mutant: a completion whose object could not be saved gives its size back.
UsageRefunded(c) == used - Size(DOMAIN proc[c].blob)

\* releaseMultipartCompletion deletes the claim and leaves the usage.
UsageReleased(c) == used

Release(c) ==
    /\ proc[c].op \in {"complete", "abort"} /\ proc[c].pc = "release"
    /\ \/ key' = [key EXCEPT ![proc[c].op] = "free"] /\ UNCHANGED faults
       \/ Fault /\ UNCHANGED key
    /\ used' = UsageReleased(c)
    /\ End(c) /\ Quietly
    /\ UNCHANGED <<row, recorded, objects, storage>>

\* A statement of the request fails before its outcome is persisted.
Fails(c) ==
    /\ \/ proc[c].op = "complete" /\ proc[c].pc \in {"load", "account", "save"}
       \/ proc[c].op = "abort" /\ proc[c].pc \in {"load", "store", "persist"}
    /\ Fault /\ Goto(c, "release") /\ Quietly
    /\ UNCHANGED <<tables, storage>>

\* The client is gone: with the request's context every later statement
\* fails, the release of the claim included.  A completion that has its row
\* still sends the event.
Vanishes(c) ==
    /\ \/ proc[c].op = "complete"
          /\ proc[c].pc \in {"load", "account", "save", "persist"}
       \/ proc[c].op = "abort" /\ proc[c].pc \in {"load", "persist", "drop"}
    /\ Fault /\ End(c)
    /\ emitted' = IF At(c, "complete", "persist") THEN emitted + 1 ELSE emitted
    /\ UNCHANGED <<tables, storage, gc, begun, writes, racy>>

-----------------------------------------------------------------------------
(* CompleteMultipart *)

\* loadMultipartUpload and multipartCompletionParts: all recorded parts, or
\* the ones the client lists with their ETags.
CompleteLoad(c) ==
    /\ At(c, "complete", "load") /\ Quietly
    /\ LET uploaded == {n \in Parts : recorded[n] # 0}
       IN IF row /\ uploaded # {}
          THEN \E M \in SUBSET uploaded \ {{}} :
                  proc' = [proc EXCEPT ![c] = [@ EXCEPT
                             !.pc = "account",
                             !.manifest = [n \in M |-> recorded[n]]]]
          ELSE Goto(c, "release")
    /\ UNCHANGED <<tables, storage, faults>>

\* prepareMultipartCompletion and accountObjectUsage.
CompleteAccount(c) ==
    /\ At(c, "complete", "account") /\ Quietly
    /\ LET size == Size(DOMAIN proc[c].manifest)
       IN IF MaxBytes = 0 \/ used + size <= MaxBytes
          THEN used' = used + size /\ Goto(c, "consume")
          ELSE UNCHANGED used /\ Goto(c, "release")
    /\ UNCHANGED <<row, recorded, key, objects, storage, faults>>

\* Mutant: the storage keeps an upload it has assembled.
LeftoverKept(x) == x

\* What the storage keeps of an upload it assembles.
Leftover(x) == FALSE

\* LocalStorage.CompleteMultipart takes the session under its lock.
CompleteConsume(c) ==
    /\ At(c, "complete", "consume") /\ Quietly
    /\ IF session THEN session' = Leftover(session) /\ Goto(c, "merge")
       ELSE UNCHANGED session /\ Goto(c, "release")
    /\ UNCHANGED <<tables, dir, file, faults>>

\* Mutant: whatever files the directory has are assembled.
AssembledAll(M) == {n \in Parts : file[n] # 0}

\* mergeParts reads the files of the listed parts.
Assembled(M) == M

\* Mutant: the answer is recorded before the row is written.
AfterMergePersist == "persist"

\* finishMultipartCompletion: after the storage, the row.
AfterMerge == "save"

\* mergeParts fails when a part has no file (the upload GC removed it) or by
\* an error; the directory goes in any case.
CompleteMerge(c) ==
    /\ At(c, "complete", "merge") /\ Quietly
    /\ LET M == Assembled(DOMAIN proc[c].manifest)
       IN \/ /\ \A n \in M : file[n] # 0
             /\ proc' = [proc EXCEPT ![c] = [@ EXCEPT
                            !.pc = AfterMerge, !.blob = [n \in M |-> file[n]]]]
             /\ UNCHANGED faults
          \/ /\ \/ (\E n \in M : file[n] = 0) /\ UNCHANGED faults
                \/ Fault
             /\ Goto(c, "release")
    /\ dir' = Leftover(dir)
    /\ file' = IF dir' THEN file ELSE Empty
    /\ UNCHANGED <<tables, session>>

\* saveMultipartObject: InsertObjectVersion, then the ACL and the hold, whose
\* failure releases the claim although the row is there.
CompleteSave(c) ==
    /\ At(c, "complete", "save") /\ Quietly
    /\ objects' = Append(objects, [manifest |-> proc[c].manifest,
                                   blob |-> proc[c].blob])
    /\ \/ Goto(c, "persist") /\ UNCHANGED faults
       \/ Fault /\ Goto(c, "release")
    /\ UNCHANGED <<row, recorded, key, used, storage>>

\* CompleteIdempotencyKey; a failure is only logged.
CompletePersist(c) ==
    /\ At(c, "complete", "persist") /\ Goto(c, "drop") /\ Quietly
    /\ \/ key' = [key EXCEPT !["complete"] = "completed"] /\ UNCHANGED faults
       \/ Fault /\ UNCHANGED key
    /\ UNCHANGED <<row, recorded, used, objects, storage>>

\* DeleteUpload, whose failure is only logged, and the created event.
CompleteDrop(c) ==
    /\ At(c, "complete", "drop") /\ End(c)
    /\ \/ row' = FALSE /\ recorded' = Empty /\ UNCHANGED faults
       \/ Fault /\ UNCHANGED <<row, recorded>>
    /\ emitted' = emitted + 1
    /\ UNCHANGED <<key, used, objects, storage, gc, begun, writes, racy>>

-----------------------------------------------------------------------------
(* AbortMultipart *)

AbortLoad(c) ==
    /\ At(c, "abort", "load") /\ Goto(c, IF row THEN "store" ELSE "release")
    /\ Quietly /\ UNCHANGED <<tables, storage, faults>>

\* LocalStorage.AbortMultipart: nothing to do without the session.
AbortStore(c) ==
    /\ At(c, "abort", "store") /\ Goto(c, "persist") /\ Quietly
    /\ IF session THEN Clear ELSE UNCHANGED storage
    /\ UNCHANGED <<tables, faults>>

AbortPersist(c) ==
    /\ At(c, "abort", "persist") /\ Goto(c, "drop") /\ Quietly
    /\ key' = [key EXCEPT !["abort"] = "completed"]
    /\ UNCHANGED <<row, recorded, used, objects, storage, faults>>

\* DeleteUpload; its failure takes the recorded answer back.
AbortDrop(c) ==
    /\ At(c, "abort", "drop") /\ End(c) /\ Quietly
    /\ \/ row' = FALSE /\ recorded' = Empty /\ UNCHANGED <<key, faults>>
       \/ /\ Fault /\ key' = [key EXCEPT !["abort"] = "free"]
          /\ UNCHANGED <<row, recorded>>
    /\ UNCHANGED <<used, objects, storage>>

-----------------------------------------------------------------------------
(* Garbage collection and restarts *)

\* Mutant: only uploads with parts are found.
ExpiredZombies == row /\ \E n \in Parts : recorded[n] # 0

\* ListExpiredUploads, which includes what ListZombieUploads finds.  When the
\* upload's TTL passes is left open, also in the middle of its completion.
Expired == row

GCTake ==
    /\ gc = "idle" /\ Expired /\ gc' = "clean"
    /\ UNCHANGED <<tables, storage, emitted, proc, begun, writes, faults, racy>>

\* purgeUpload: CleanupParts, or an error that leaves the upload to the next
\* sweep.
GCClean ==
    /\ gc = "clean"
    /\ \/ /\ IF dir THEN Clear ELSE UNCHANGED storage
          /\ gc' = "delete" /\ UNCHANGED faults
       \/ Fault /\ gc' = "idle" /\ UNCHANGED storage
    /\ UNCHANGED <<tables, emitted, proc, begun, writes, racy>>

\* DeleteUploadCascade, if the row is still there.
GCDelete ==
    /\ gc = "delete" /\ gc' = "idle"
    /\ row' = FALSE /\ recorded' = Empty
    /\ UNCHANGED <<key, used, objects, storage, emitted, proc, begun, writes,
                   faults, racy>>

\* DeleteIdempotencyKeysBefore.  A request takes less than the keys' TTL.
PurgeKey(op) ==
    /\ key[op] # "free" /\ \A c \in Clients : proc[c].op # op
    /\ key' = [key EXCEPT ![op] = "free"]
    /\ UNCHANGED <<row, recorded, used, objects, storage, emitted, proc, gc,
                   begun, writes, faults, racy>>

\* The process restarts: LocalStorage's sessions were in memory.
Restart ==
    /\ Fault
    /\ session' = FALSE /\ gc' = "idle" /\ proc' = [c \in Clients |-> Idle]
    /\ UNCHANGED <<tables, dir, file, emitted, begun, writes, racy>>

-----------------------------------------------------------------------------

Request(c) ==
    \/ InitStore(c) \/ (\E n \in Parts : PartStart(c, n))
    \/ Claim(c, "complete") \/ Claim(c, "abort")

Step(c) ==
    \/ InitRow(c) \/ PartCreate(c) \/ PartWrite(c) \/ PartRecord(c)
    \/ CompleteLoad(c) \/ CompleteAccount(c) \/ CompleteConsume(c)
    \/ CompleteMerge(c) \/ CompleteSave(c) \/ CompletePersist(c)
    \/ CompleteDrop(c) \/ AbortLoad(c) \/ AbortStore(c) \/ AbortPersist(c)
    \/ AbortDrop(c) \/ Release(c)

GC == GCTake \/ GCClean \/ GCDelete

Next ==
    \/ \E c \in Clients :
          Request(c) \/ Step(c) \/ PartFails(c) \/ Fails(c) \/ Vanishes(c)
    \/ GC \/ (\E op \in {"complete", "abort"} : PurgeKey(op)) \/ Restart

\* The upload GC is a ticker loop.
Spec == Init /\ [][Next]_vars /\ WF_vars(GC)

-----------------------------------------------------------------------------
(* Properties *)

\* The rows, sessions, part files, claims and processes have their types.
TypeOK ==
    /\ row \in BOOLEAN /\ session \in BOOLEAN /\ dir \in BOOLEAN
    /\ recorded \in [Parts -> 0..MaxWrites]
    /\ file \in [Parts -> Torn..MaxWrites]
    /\ key \in [{"complete", "abort"} -> {"free", "in_progress", "completed"}]
    /\ used \in Nat /\ emitted \in Nat /\ begun \in BOOLEAN
    /\ gc \in {"idle", "clean", "delete"} /\ racy \subseteq Parts
    /\ \A c \in Clients : DOMAIN proc[c].manifest \subseteq Parts

\* However often a completion is retried, after failures, vanished clients,
\* purged keys and restarts, the upload becomes at most one object and the
\* created event is sent at most once, for an object that is there
\* (completeMultipart).
AtMostOnce == Len(objects) <= 1 /\ emitted <= Len(objects)

\* At most one request executes the completion, and one the abort, at a time
\* (ClaimIdempotencyKey and its release).
ClaimExclusive ==
    \A c, d \in Clients :
        c # d /\ proc[c].op = proc[d].op => proc[c].op \in {"none", "part"}

\* The tenant's usage never falls short of the objects it has: a completion
\* accounts before it writes the row, and no failure takes that back
\* (finishMultipartCompletion).
UsageCovers == used >= SizeOfAll(objects)

\* An object has the parts its completion listed, no others, each with the
\* content its ETag named, unless uploads of that part overlapped each other
\* or the completion, or broke off (selectMultipartParts, mergeParts).
ManifestAssembled ==
    \A i \in DOMAIN objects :
        LET o == objects[i]
        IN /\ DOMAIN o.blob = DOMAIN o.manifest
           /\ \A n \in DOMAIN o.blob \ racy : o.blob[n] = o.manifest[n]

\* A recorded completion, which every retry is answered from, has its object
\* (persistMultipartCompletion, replayMultipartCompletion).
ReplayTruthful == key["complete"] = "completed" => objects # <<>>

\* No upload stays open for ever, whatever its client does and wherever its
\* completion or abort stopped: the upload GC removes it (UploadGCJob).
UploadEnds == row ~> ~row
=============================================================================
