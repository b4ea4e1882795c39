----------------------------- MODULE LocalStore -----------------------------
(***************************************************************************)
(* The local storage backend (storage/local*.go, storage/rewrap.go): every *)
(* object is two files, a body and a sidecar, replaced one after the other *)
(* under generationMu, a lock of one process.  Get takes no lock; the      *)
(* generation-bound read does.  Servers may share a root; each restarts    *)
(* with the next configuration, and a boot may start the rewrap sweep.     *)
(***************************************************************************)
EXTENDS Sealing, Sequences

CONSTANTS StoreServers, \* processes over one root
          StoreKeys,    \* storage keys, ordered: 1..n
          StoreCfgs,    \* the configurations of successive boots
          SweepPage,    \* the listing limit of RewrapStale (500)
          StoreReads,   \* read requests: [server, key]
          MaxPuts, MaxCopies, MaxSidecarFaults

VARIABLES body,    \* per key: [put, dek], put 0 for no file
          side,    \* per key: [gen, put, env], gen 0 for no sidecar
          boots,   \* per server: index of its configuration
          window,  \* per server: what the holder of generationMu still has to do
          sweep,   \* per server: RewrapStale
          reads,   \* per request
          torn,    \* keys a crash or a failed sidecar write left as half a pair
          crossed, \* keys on which two servers' critical sections overlapped
          late,    \* keys whose envelope a sweep may have missed
          minted, copies, faults

storeVars == <<body, side, boots, window, sweep, reads, torn, crossed, late,
               minted, copies, faults>>

Bodies == [put : 0..MaxPuts, dek : 0..MaxPuts]
NoBody == [put |-> 0, dek |-> 0]
NoSide == [gen |-> 0, put |-> 0, env |-> NoEnvelope]
Free == [op |-> "free", key |-> 0, side |-> NoSide]
NoSweep == [pc |-> "off", marker |-> 0, page |-> << >>, more |-> TRUE, failed |-> 0]

Enc(s) == NewLocal(StoreCfgs[boots[s]])
Up(s) == Starts(StoreCfgs[boots[s]])
Opened(s) == {t \in StoreServers : window[t].key = s}

Init ==
  /\ body = [k \in StoreKeys |-> NoBody] /\ side = [k \in StoreKeys |-> NoSide]
  /\ boots = [s \in StoreServers |-> 1] /\ window = [s \in StoreServers |-> Free]
  /\ sweep = [s \in StoreServers |-> NoSweep]
  /\ reads = [r \in DOMAIN StoreReads |->
                [pc |-> "new", bound |-> FALSE, customer |-> NoKey, info |-> NoSide,
                 file |-> NoBody, clear |-> TRUE, mixed |-> FALSE]]
  /\ torn = {} /\ crossed = {} /\ late = {}
  /\ minted = 0 /\ copies = 0 /\ faults = 0

(***************************************************************************)
(* Entering the critical section on key k: a whole replacement that no     *)
(* other server overlaps heals the pair.                                   *)
(***************************************************************************)
Enters(k, replaces) ==
  IF Opened(k) = {}
  THEN /\ crossed' = IF replaces THEN crossed \ {k} ELSE crossed
       /\ torn' = IF replaces THEN torn \ {k} ELSE torn
  ELSE crossed' = crossed \cup {k} /\ UNCHANGED torn

\* Readers of k that are under way see the change.
Disturbs(k) ==
  reads' = [r \in DOMAIN reads |->
              IF StoreReads[r].key = k /\ reads[r].pc \in {"statted", "opened"}
              THEN [reads[r] EXCEPT !.mixed = TRUE] ELSE reads[r]]

(***************************************************************************)
(* Put: the body is renamed into place, then the sidecar.                  *)
(***************************************************************************)
writeObject(s, k, customer) ==
  LET enc  == WriteEncrypter(Enc(s), customer)
      n    == minted + 1
      seal == Encrypts(enc)
  IN  /\ Up(s) /\ window[s] = Free /\ minted < MaxPuts
      /\ seal => EncryptAllowed(enc)
      /\ minted' = n
      /\ body' = [body EXCEPT ![k] = [put |-> n, dek |-> IF seal THEN n ELSE 0]]
      /\ window' = [window EXCEPT ![s] =
            [op |-> "put", key |-> k,
             side |-> [gen |-> n, put |-> n, env |-> IF seal THEN encrypt(enc, n) ELSE NoEnvelope]]]
      /\ Enters(k, TRUE) /\ Disturbs(k)
      /\ UNCHANGED <<side, boots, sweep, late, copies, faults>>

\* Copy carries body and envelope over as they are, under a new generation.
CopyBody(s, src, dst) ==
  /\ Up(s) /\ window[s] = Free /\ copies < MaxCopies /\ src # dst
  /\ side[src] # NoSide /\ body[src] # NoBody
  /\ copies' = copies + 1
  /\ body' = [body EXCEPT ![dst] = body[src]]
  /\ window' = [window EXCEPT ![s] =
        [op |-> "copy", key |-> dst, side |-> [side[src] EXCEPT !.gen = MaxPuts + copies']]]
  /\ IF src \in torn \cup crossed \/ Opened(src) # {}
     THEN crossed' = crossed \cup {dst} /\ UNCHANGED torn
     ELSE Enters(dst, TRUE)
  /\ Disturbs(dst)
  /\ UNCHANGED <<side, boots, sweep, late, minted, faults>>

\* The second half of Put, Copy and RewrapObject.
writeMeta(s) ==
  LET w == window[s]
  IN  /\ w.op \in {"put", "copy", "rewrap"}
      /\ side' = [side EXCEPT ![w.key] = w.side]
      /\ window' = [window EXCEPT ![s] = Free]
      /\ sweep' = IF w.op = "rewrap" THEN [sweep EXCEPT ![s].page = Tail(@)] ELSE sweep
      /\ late' = IF w.op = "copy" \/ \E t \in StoreServers : Enc(t) # Enc(s)
                 THEN late \cup {w.key} ELSE late \ {w.key}
      /\ Disturbs(w.key)
      /\ UNCHANGED <<body, boots, torn, crossed, minted, copies, faults>>

\* Put and Copy remove the body when the sidecar cannot be written; the sidecar
\* of the object they replaced stays.  RewrapObject leaves everything and fails.
writeMetaFails(s) ==
  LET w == window[s]
  IN  /\ w.op \in {"put", "copy", "rewrap"} /\ faults < MaxSidecarFaults
      /\ faults' = faults + 1
      /\ window' = [window EXCEPT ![s] = Free]
      /\ IF w.op = "rewrap"
         THEN /\ sweep' = [sweep EXCEPT ![s].page = Tail(@), ![s].failed = @ + 1]
              /\ UNCHANGED <<body, torn, reads>>
         ELSE /\ body' = [body EXCEPT ![w.key] = NoBody]
              /\ torn' = torn \cup {w.key} /\ Disturbs(w.key) /\ UNCHANGED sweep
      /\ UNCHANGED <<side, boots, crossed, late, minted, copies>>

\* Delete removes the sidecar first, then the body.
DeleteMeta(s, k) ==
  /\ Up(s) /\ window[s] = Free /\ side[k] # NoSide
  /\ side' = [side EXCEPT ![k] = NoSide]
  /\ window' = [window EXCEPT ![s] = [op |-> "delete", key |-> k, side |-> NoSide]]
  /\ Enters(k, TRUE) /\ Disturbs(k)
  /\ UNCHANGED <<body, boots, sweep, late, minted, copies, faults>>

DeleteBody(s) ==
  LET k == window[s].key
  IN  /\ window[s].op = "delete"
      /\ body' = [body EXCEPT ![k] = NoBody]
      /\ window' = [window EXCEPT ![s] = Free]
      /\ Disturbs(k)
      /\ UNCHANGED <<side, boots, sweep, torn, crossed, late, minted, copies, faults>>

(***************************************************************************)
(* RewrapStale at boot: pages of keys after the marker, one object at a    *)
(* time.  The walk lists bodies, whatever their sidecar.                   *)
(***************************************************************************)
maybeRewrapSSE(s) ==
  /\ Up(s) /\ sweep[s].pc = "off"
  /\ sweep' = [sweep EXCEPT ![s] = [NoSweep EXCEPT !.pc = "list"]]
  /\ late' = IF \A t \in StoreServers : window[t] = Free /\ sweep[t].pc = "off"
             THEN {} ELSE late
  /\ UNCHANGED <<body, side, boots, window, reads, torn, crossed, minted, copies, faults>>

RECURSIVE Ordered(_)
Ordered(keys) ==
  IF keys = {} THEN << >>
  ELSE LET least == CHOOSE k \in keys : \A j \in keys : k <= j
       IN  <<least>> \o Ordered(keys \ {least})

collectObjects(marker) == {k \in StoreKeys : k > marker /\ body[k] # NoBody}

ListStops(marker, limit) ==
  LET all == Ordered(collectObjects(marker))
  IN  [page |-> IF Len(all) > limit THEN SubSeq(all, 1, limit) ELSE all, more |-> FALSE]

List(marker, limit) ==
  LET all == Ordered(collectObjects(marker))
  IN  [page |-> IF Len(all) > limit THEN SubSeq(all, 1, limit) ELSE all,
       more |-> Len(all) > limit]

RewrapStale(s) ==
  LET res == List(sweep[s].marker, SweepPage)
  IN  /\ sweep[s].pc = "list" /\ sweep[s].page = << >>
      /\ sweep' = [sweep EXCEPT ![s] =
            IF ~sweep[s].more THEN [@ EXCEPT !.pc = "done"]
            ELSE [@ EXCEPT !.page = res.page, !.more = res.more,
                           !.marker = IF res.more THEN res.page[Len(res.page)] ELSE @]]
      /\ UNCHANGED <<body, side, boots, window, reads, torn, crossed, late,
                     minted, copies, faults>>

RewrapRead(s) ==
  LET k == Head(sweep[s].page)
      v == rewrapVerdict(Enc(s), side[k].env)
      passed(failed) == [sweep EXCEPT ![s].page = Tail(@), ![s].failed = @ + failed]
  IN  /\ sweep[s].page # << >> /\ window[s] = Free
      /\ UNCHANGED <<body, side, boots, reads, late, minted, copies, faults>>
      /\ \/ /\ ~Encrypts(Enc(s)) \/ (side[k] # NoSide /\ v = "same")
            /\ sweep' = passed(0) /\ UNCHANGED <<window, torn, crossed>>
         \/ /\ Encrypts(Enc(s)) /\ (side[k] = NoSide \/ v = "error")
            /\ sweep' = passed(1) /\ UNCHANGED <<window, torn, crossed>>
         \/ /\ Encrypts(Enc(s)) /\ v = "changed"
            /\ window' = [window EXCEPT ![s] =
                 [op |-> "rewrap", key |-> k,
                  side |-> [side[k] EXCEPT !.env = rewrapObject(Enc(s), @)]]]
            /\ Enters(k, FALSE) /\ UNCHANGED sweep

\* A crash: what the server held is lost, and it comes back with the next
\* configuration.
Restart(s) ==
  LET w == window[s]
  IN  /\ boots[s] < Len(StoreCfgs)
      /\ boots' = [boots EXCEPT ![s] = @ + 1]
      /\ torn' = IF w.op \in {"put", "copy", "delete"} THEN torn \cup {w.key} ELSE torn
      /\ window' = [window EXCEPT ![s] = Free]
      /\ sweep' = [sweep EXCEPT ![s] = NoSweep]
      /\ reads' = [r \in DOMAIN reads |->
                     IF StoreReads[r].server = s /\ reads[r].pc \in {"statted", "opened"}
                     THEN [reads[r] EXCEPT !.pc = "lost"] ELSE reads[r]]
      /\ UNCHANGED <<body, side, crossed, late, minted, copies, faults>>

\* A wrapper-only encrypter has no provider to ask: the goroutine's panic ends
\* the process.
RewrapPanics(s) ==
  /\ sweep[s].page # << >> /\ window[s] = Free /\ Encrypts(Enc(s))
  /\ rewrapVerdict(Enc(s), side[Head(sweep[s].page)].env) = "panic"
  /\ Restart(s)

(***************************************************************************)
(* Reads.  Get: stat, open, read the sidecar again, decrypt - no lock.     *)
(***************************************************************************)
statObject(r, bound, customer) ==
  LET q == StoreReads[r]
      k == q.key
      found == side[k] # NoSide \/ body[k] # NoBody
      allowed == bound \/ side[k].env = NoEnvelope
                   \/ readEncrypter(Enc(q.server), side[k].env, customer)
  IN  /\ Up(q.server) /\ reads[r].pc = "new"
      /\ reads' = [reads EXCEPT ![r].pc = IF found /\ allowed THEN "statted" ELSE "failed",
                                ![r].info = side[k],
                                ![r].bound = bound, ![r].customer = customer,
                                ![r].mixed = Opened(k) # {} \/ k \in torn \cup crossed]
      /\ UNCHANGED <<body, side, boots, window, sweep, torn, crossed, late,
                     minted, copies, faults>>

OpenBody(r) ==
  LET q == StoreReads[r]
  IN  /\ reads[r].pc = "statted" /\ ~reads[r].bound
      /\ reads' = [reads EXCEPT ![r].pc = IF body[q.key] = NoBody THEN "failed" ELSE "opened",
                                ![r].file = body[q.key]]
      /\ UNCHANGED <<body, side, boots, window, sweep, torn, crossed, late,
                     minted, copies, faults>>

Delivers(s, customer, file, env) ==
  /\ readEncrypter(Enc(s), env, customer)
  /\ decrypts(Opener(Enc(s), env, customer), file, env)

GetWithOptions(r) ==
  LET q   == StoreReads[r]
      env == side[q.key].env
  IN  /\ reads[r].pc = "opened"
      /\ reads' = [reads EXCEPT
            ![r].pc = IF env = NoEnvelope \/ Delivers(q.server, reads[r].customer, reads[r].file, env) THEN "served" ELSE "failed",
            ![r].clear = env # NoEnvelope \/ reads[r].file.dek = 0]
      /\ UNCHANGED <<body, side, boots, window, sweep, torn, crossed, late,
                     minted, copies, faults>>

boundInfoMatches(got, expected) ==
  expected.gen # 0 /\ got.gen = expected.gen /\ got.put = expected.put

BoundRead(r, unlocked) ==
  LET q   == StoreReads[r]
      k   == q.key
      env == side[k].env
  IN  /\ reads[r].pc = "statted" /\ reads[r].bound
      /\ unlocked
      /\ reads' = [reads EXCEPT
            ![r].pc = IF /\ body[k] # NoBody
                         /\ boundInfoMatches(side[k], reads[r].info)
                         /\ env = NoEnvelope \/ Delivers(q.server, NoKey, body[k], env)
                      THEN "served" ELSE "failed",
            ![r].file = body[k],
            ![r].clear = env # NoEnvelope \/ body[k].dek = 0,
            ![r].mixed = k \in torn \cup crossed \/ Opened(k) \ {q.server} # {}]
      /\ UNCHANGED <<body, side, boots, window, sweep, torn, crossed, late,
                     minted, copies, faults>>

BoundUnlocked(r) == BoundRead(r, TRUE)

\* The read lock is held from the first stat to the last byte.
GetGenerationBound(r) == BoundRead(r, window[StoreReads[r].server] = Free)

Next ==
  \/ \E s \in StoreServers :
       \/ \E k \in StoreKeys : \/ \E c \in {NoKey, "c"} : writeObject(s, k, c)
                               \/ DeleteMeta(s, k)
                               \/ \E dst \in StoreKeys : CopyBody(s, k, dst)
       \/ writeMeta(s) \/ writeMetaFails(s) \/ DeleteBody(s)
       \/ maybeRewrapSSE(s) \/ RewrapStale(s) \/ RewrapRead(s)
       \/ Restart(s) \/ RewrapPanics(s)
  \/ \E r \in DOMAIN StoreReads :
       \/ statObject(r, TRUE, NoKey)
       \/ \E c \in {NoKey, "c"} : statObject(r, FALSE, c)
       \/ OpenBody(r) \/ GetWithOptions(r) \/ GetGenerationBound(r)

Spec == Init /\ [][Next]_storeVars

-----------------------------------------------------------------------------
Sides == [gen : 0..(MaxPuts + MaxCopies), put : 0..MaxPuts,
          env : [wrap : {"", "kms", "plain"}, kid : STRING, by : STRING, dek : 0..(MaxPuts + 1)]]

TypeOK ==
  /\ \A k \in StoreKeys : body[k] \in Bodies /\ side[k] \in Sides
  /\ \A s \in StoreServers :
       /\ boots[s] \in DOMAIN StoreCfgs /\ window[s].side \in Sides
       /\ sweep[s].pc \in {"off", "list", "done"}
  /\ torn \cup crossed \cup late \subseteq StoreKeys
  /\ \A r \in DOMAIN StoreReads :
       reads[r].pc \in {"new", "statted", "opened", "served", "failed", "lost"}

\* The two files of a key belong together (storage/local_write.go Put and
\* Delete, local_copy.go Copy, rewrap.go RewrapObject): outside a critical
\* section the sidecar names the body's content and its envelope holds the
\* body's data key, unless a crash or a failed sidecar write cut a replacement in
\* two, or two processes over one root replaced the key at the same time.
PairIntact ==
  \A k \in StoreKeys \ (torn \cup crossed) : Opened(k) = {} =>
    /\ side[k] = NoSide <=> body[k] = NoBody
    /\ side[k].put = body[k].put /\ side[k].env.dek = body[k].dek

\* Bytes are served under the description they were stored with
\* (storage/local_read.go): a generation-bound read never returns another
\* content than the one it was asked for, nor bytes still sealed, and a plain
\* Get does so only when a replacement of the key ran during it; the exceptions
\* are pairs a crash or a second process left broken.
ServedAsDescribed ==
  \A r \in DOMAIN StoreReads :
    (reads[r].pc = "served" /\ ~reads[r].mixed) =>
      reads[r].file.put = reads[r].info.put /\ reads[r].clear

\* docs/configuration.md:80 promises that after the boot sweep "retired keys can
\* be removed from the ring": when RewrapStale ends with no failure, every
\* locally wrapped envelope is under the primary key of that server, except those
\* Copy carried behind the sweep's marker and those a server with another
\* configuration wrote meanwhile.
SweptUnderPrimary ==
  \A s \in StoreServers : (sweep[s].pc = "done" /\ sweep[s].failed = 0 /\ Encrypts(Enc(s))) =>
    \A k \in StoreKeys \ (late \cup torn \cup crossed) :
      (Opened(k) = {} /\ side[k].env.wrap = "") => side[k].env.kid \in {Enc(s).provider.current, ssecKeyID}
=============================================================================
