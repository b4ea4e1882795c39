------------------------------ MODULE Sealing ------------------------------
(***************************************************************************)
(* Server-side encryption of the local backend: key providers              *)
(* (storage/secret.go), the envelope beside every sealed body              *)
(* (storage/encrypt.go), and the service's choice of algorithm             *)
(* (service/ssec.go, service/server_side_encryption.go).  A data key is a  *)
(* number, a master key a name; wrapping pairs the two, and unwrapping     *)
(* succeeds exactly with the key that wrapped (AES-GCM).                   *)
(***************************************************************************)
EXTENDS Naturals, FiniteSets, TLC

NoKey == "nokey"
ssecKeyID == "__ssec__"
NoEnvelope == [wrap |-> "plain", kid |-> "", by |-> NoKey, dek |-> 0]
NoProvider == [current |-> "none", keys |-> << >>]
NoDoc == [primary |-> "", keys |-> << >>]

\* len(key) = masterKeyLen.  "short" stands for a key of any other length.
FullLength(key) == key \notin {NoKey, "short"}

(***************************************************************************)
(* Providers: the id that new envelopes carry and the keys resolvable by   *)
(* id.  The id "" is the unversioned slot.                                 *)
(***************************************************************************)
envProvider(pass) == [current |-> "", keys |-> "" :> pass]

ssecProvider(key) == [current |-> ssecKeyID, keys |-> ssecKeyID :> key]

ValidRing(doc) ==
  /\ DOMAIN doc.keys # {} /\ doc.primary # "" /\ doc.primary \in DOMAIN doc.keys
  /\ "" \notin DOMAIN doc.keys
  /\ \A id \in DOMAIN doc.keys : doc.keys[id] # NoKey

newKeyRing(doc, legacy) ==
  [current |-> doc.primary,
   keys |-> IF legacy = NoKey THEN doc.keys ELSE doc.keys @@ ("" :> legacy)]

newSecretProvider(cfg) ==
  IF cfg.doc # NoDoc THEN newKeyRing(cfg.doc, cfg.pass)
  ELSE IF cfg.pass # NoKey THEN envProvider(cfg.pass) ELSE NoProvider

Resolve(provider, id) ==
  IF id \in DOMAIN provider.keys THEN provider.keys[id] ELSE NoKey

(***************************************************************************)
(* NewLocal: a remote wrapper excludes the local provider.                 *)
(***************************************************************************)
Starts(cfg) == cfg.kms # NoKey \/ cfg.doc = NoDoc \/ ValidRing(cfg.doc)

NewLocal(cfg) ==
  IF cfg.kms # NoKey THEN [wrapper |-> cfg.kms, provider |-> NoProvider]
  ELSE [wrapper |-> NoKey, provider |-> newSecretProvider(cfg)]

Encrypts(enc) == enc.wrapper # NoKey \/ enc.provider # NoProvider

CustomerEncrypter(key) == [wrapper |-> NoKey, provider |-> ssecProvider(key)]

(***************************************************************************)
(* Envelopes.                                                              *)
(***************************************************************************)
encrypt(enc, dek) ==
  IF enc.wrapper # NoKey
  THEN [wrap |-> "kms", kid |-> enc.wrapper, by |-> enc.wrapper, dek |-> dek]
  ELSE [wrap |-> "", kid |-> enc.provider.current,
        by |-> Resolve(enc.provider, enc.provider.current), dek |-> dek]

EncryptAllowed(enc) ==
  enc.wrapper # NoKey \/ FullLength(Resolve(enc.provider, enc.provider.current))

\* The master key found for an envelope; NoKey when the mechanism that wrapped
\* it is not configured or the key id is unknown.
unwrapDataKey(enc, env) ==
  LET master == CASE env.wrap = "kms" -> IF enc.wrapper = NoKey THEN NoKey ELSE env.kid
                  [] env.wrap = ""    -> Resolve(enc.provider, env.kid)
                  [] OTHER            -> NoKey
  IN  IF FullLength(master) /\ master = env.by THEN env.dek ELSE 0

validateEnvelope(enc, env) == unwrapDataKey(enc, env) # 0

\* gcm.Open fails on bytes sealed with another data key, or not sealed at all.
decrypts(enc, body, env) ==
  unwrapDataKey(enc, env) # 0 /\ unwrapDataKey(enc, env) = body.dek

resolveOldKey(enc, env) == Resolve(enc.provider, env.kid)

rewrapFresh(enc, env) ==
  [wrap |-> "", kid |-> enc.provider.current,
   by |-> Resolve(enc.provider, enc.provider.current), dek |-> env.dek + 1]

rewrapObject(enc, env) ==
  [wrap |-> "", kid |-> enc.provider.current,
   by |-> Resolve(enc.provider, enc.provider.current), dek |-> env.dek]

\* rewrap's outcomes: "same", "changed", "error", and "panic" where a
\* wrapper-only encrypter dereferences its absent provider.
rewrapVerdict(enc, env) ==
  CASE env.wrap # ""                     -> "same"
    [] enc.wrapper # NoKey               -> "panic"
    [] env.kid = enc.provider.current    -> "same"
    [] ~FullLength(resolveOldKey(enc, env)) -> "error"
    [] ~FullLength(Resolve(enc.provider, enc.provider.current)) -> "error"
    [] resolveOldKey(enc, env) # env.by  -> "error"
    [] OTHER                             -> "changed"

(***************************************************************************)
(* readEncrypter: which encrypter opens an envelope, for a request that    *)
(* carries a customer key or NoKey.                                        *)
(***************************************************************************)
Opener(enc, env, customer) ==
  IF env.kid = ssecKeyID THEN CustomerEncrypter(customer) ELSE enc

readEncrypter(enc, env, customer) ==
  IF env.kid = ssecKeyID
  THEN /\ FullLength(customer)
       /\ validateEnvelope(CustomerEncrypter(customer), env)
  ELSE /\ customer = NoKey
       /\ Encrypts(enc)
       /\ validateEnvelope(enc, env)

WriteEncrypter(enc, customer) ==
  IF FullLength(customer) THEN CustomerEncrypter(customer) ELSE enc

(***************************************************************************)
(* What the backend and the service accept.  A request is a record         *)
(* [alg, key, customer, md5]: the algorithm asked for, the KMS key, the    *)
(* customer key, and the key whose MD5 was sent (NoKey for none).          *)
(***************************************************************************)
SupportsServerSideEncryption(enc, kmsKey, alg, key) ==
  \/ alg = "AES256" /\ key = "" /\ enc.provider # NoProvider
  \/ alg = "aws:kms" /\ enc.wrapper # NoKey /\ (key = "" \/ kmsKey = "" \/ key = kmsKey)

validateServerSideEncryption(enc, kmsKey, opts) ==
  IF opts.alg = "" THEN opts.key = ""
  ELSE opts.customer = NoKey /\ SupportsServerSideEncryption(enc, kmsKey, opts.alg, opts.key)

prepareSSECWrite(opts) ==
  IF opts.customer = NoKey THEN opts.md5 = NoKey
  ELSE FullLength(opts.customer) /\ opts.md5 \in {NoKey, opts.customer}

ChosenLax(opts, bucket) ==
  IF opts.alg = "" THEN [opts EXCEPT !.alg = bucket.alg, !.key = bucket.key] ELSE opts

\* prepareServerSideEncryption with the bucket's default filled in.
ChosenSSE(opts, bucket) ==
  IF opts.customer # NoKey THEN opts
  ELSE IF opts.alg = "" THEN [opts EXCEPT !.alg = bucket.alg, !.key = bucket.key]
  ELSE IF opts.alg = "aws:kms" /\ opts.key = "" /\ bucket.alg = "aws:kms"
       THEN [opts EXCEPT !.key = bucket.key]
  ELSE opts

prepareServerSideEncryption(enc, kmsKey, opts, bucket) ==
  LET chosen == ChosenSSE(opts, bucket)
  IN  IF opts.customer # NoKey THEN opts.alg = "" /\ opts.key = ""
      ELSE /\ ~(opts.alg = "" /\ opts.key # "")
           /\ \/ chosen.alg = ""
              \/ /\ chosen.alg \in {"AES256", "aws:kms"}
                 /\ ~(chosen.alg = "AES256" /\ chosen.key # "")
                 /\ SupportsServerSideEncryption(enc, kmsKey, chosen.alg, chosen.key)

\* The row's encryption metadata: SSE-C's fingerprint or the managed algorithm.
RowMetadata(opts, bucket) ==
  LET chosen == ChosenSSE(opts, bucket)
  IN  [alg |-> IF opts.customer = NoKey THEN chosen.alg ELSE "", fingerprint |-> opts.customer]

validateSSECRead(row, customer, md5) ==
  IF row.fingerprint = NoKey THEN customer = NoKey /\ md5 = NoKey
  ELSE FullLength(customer) /\ md5 \in {NoKey, customer} /\ customer = row.fingerprint

(***************************************************************************)
(* Properties of the operators, over bounded inputs.                       *)
(***************************************************************************)
\* Rewrapping an envelope of an earlier configuration (storage/encrypt.go
\* rewrap) keeps its data key: when it reports a change, the new envelope opens
\* under the primary key alone, and the envelope could be opened before; when it
\* refuses or leaves the envelope alone it never turns an envelope that opened
\* into one that does not.
RewrapKeeps(before, now, dek) ==
  LET env   == encrypt(before, dek)
      alone == [wrapper |-> NoKey,
                provider |-> [current |-> now.provider.current,
                              keys |-> now.provider.current :> Resolve(now.provider, now.provider.current)]]
  IN  (EncryptAllowed(before) /\ rewrapVerdict(now, env) = "changed") =>
        /\ unwrapDataKey(now, env) = dek
        /\ unwrapDataKey(alone, rewrapObject(now, env)) = dek
        /\ ~validateEnvelope(alone, env)

\* Whatever write the service admits, the backend seals as the row says
\* (prepareSSECWrite and prepareServerSideEncryption against LocalStorage.Put):
\* it is not refused below, an AES256 row has a locally wrapped envelope, an
\* aws:kms row a remotely wrapped one, a customer-key row opens with that key and
\* with no other, and every reader the service admits can open the envelope.
SealedAsRecorded(cfg, opts, bucket, reader, md5) ==
  LET enc  == NewLocal(cfg)
      sent == ChosenSSE(opts, bucket)
      row  == RowMetadata(opts, bucket)
      by   == WriteEncrypter(enc, opts.customer)
      env  == IF Encrypts(by) THEN encrypt(by, 1) ELSE NoEnvelope
  IN  (/\ Starts(cfg) /\ prepareSSECWrite(opts)
       /\ prepareServerSideEncryption(enc, cfg.kms, opts, bucket)) =>
        /\ validateServerSideEncryption(enc, cfg.kms, sent)
        /\ row.alg = "AES256" => env.wrap = "" /\ env.kid # ssecKeyID
        /\ row.alg = "aws:kms" => env.wrap = "kms"
        /\ row.fingerprint # NoKey <=> env.kid = ssecKeyID
        /\ (env # NoEnvelope /\ EncryptAllowed(by) /\ validateSSECRead(row, reader, md5)) =>
              readEncrypter(enc, env, reader)
=============================================================================
