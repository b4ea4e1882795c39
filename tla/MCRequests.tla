----------------------------- MODULE MCRequests -----------------------------
(***************************************************************************)
(* The components a request goes through, for TLC.  They share no state,   *)
(* so each behaviour is one of a single component, the subject, and the    *)
(* components share the slots v1 to v12: a component's variables are the   *)
(* first of them, the others stay 0.  The algorithms without state are the *)
(* subjects "algorithms", "ranges" and "rules".                            *)
(***************************************************************************)
EXTENDS Integers, Sequences, FiniteSets, TLC

CONSTANT NoOne  \* stands for nobody, no record, no key

VARIABLES
    subject,  \* the component a behaviour is about
    v1, v2, v3, v4, v5, v6, v7, v8, v9, v10, v11, v12  \* its variables, in the order its module declares them

requestVars == <<subject, v1, v2, v3, v4, v5, v6, v7, v8, v9, v10, v11, v12>>

-----------------------------------------------------------------------------
(* The algorithms that are functions of their arguments, each checked       *)
(* against its reference definition on every input of a small set.  A state *)
(* is one input of one kind, and there is no other.                         *)

kind == v1  \* which statement the input is for
input == v2  \* its arguments

Auth == INSTANCE Auth
Rank == INSTANCE Ranking WITH Terms <- {"x", "y"}, MaxInt <- 15, Scale <- 4, RRFK <- 60
List == INSTANCE Listing WITH Scan <- 2
Bound == INSTANCE Boundary
Facts == INSTANCE EventFacts
Seal == INSTANCE Sealing
Settings == INSTANCE BucketSettings

UpTo(S, n) == UNION {[1..k -> S] : k \in 0..n}

-----------------------------------------------------------------------------
(* Bucket policies: patterns and values of up to four characters, documents *)
(* of up to two statements, every condition operator.                       *)

Statements == [effect : {"Allow", "Deny"}, principal : {"star", "mapNamed", "mapOther"},
               actions : {{"g"}, {"*"}}, resources : {{}, {<<"a", Auth!Star>>}},
               cond : {"none", "in", "out", "bad"}]

PolicyInputs ==
    \/ kind = "match" /\ input \in [p : UpTo({"a", Auth!Star, Auth!Any1}, 4),
                                    v : UpTo({"a", "b"}, 4)]
    \/ kind = "policy" /\ input \in [doc : UpTo(Statements, 2), ip : {"inside", "outside"}]
    \/ kind = "condition" /\ input \in [op : DOMAIN Auth!Negated, v : -1..2, cv : -1..2]

PoliciesAgree ==
    CASE kind = "match" -> Auth!MatchersAgree(input.p, input.v)
      [] kind = "policy" ->
           /\ Auth!VerdictByEffect(input.doc, "g", <<"b">>, input.ip)
           /\ Auth!VerdictByEffect(input.doc, "g", <<"a", "b">>, input.ip)
           /\ Auth!ParsedDenyIsScoped(input.doc, input.ip)
      [] kind = "condition" -> Auth!NegationComplements(input.op, input.v, input.cv)
      [] OTHER -> TRUE

-----------------------------------------------------------------------------
(* Credentials: requests with every combination of vouchers, presigned      *)
(* forms of every lifetime, chunk streams of up to four chunks.             *)

Presigned(op, path) == Auth!sign(op, path, "t", 2, 0)
Queries == {<<>>} \cup {Presigned("PUT", p) : p \in {"object", "open"}}
    \cup {Presigned("GET", p) : p \in {"object", "other"}}
    \cup {[Presigned("PUT", "object") EXCEPT !.tenant = "u"],
          [Presigned("GET", "object") EXCEPT !.op = ""]}
Table == <<[s |-> [tenant |-> "t", scopes |-> {"read"}]],
           [s |-> [tenant |-> "u", scopes |-> {"admin"}],
            w |-> [tenant |-> "*", scopes |-> {"write"}]]>>
Signatures == {<<>>} \cup
    [known : {TRUE}, scopeOK : {TRUE}, hostSigned : {TRUE}, over : BOOLEAN,
     at : {0, 3}, ttl : {0, 2}, key : {[tenant |-> "t", scopes |-> {"read"}]}]
Posts == [method : {"GET", "PUT"}, path : {"object", "share", "open", "other"},
          header : {"", "t", "u"}, query : Queries, signed : Signatures,
          token : {"", "s", "w", "x"}]
Payload == <<1, 2>>
Chunks == {Auth!SignedStream(Payload)[i] : i \in 1..3}
    \cup {[data |-> 0, sig |-> <<8, 0>>], [data |-> 2, sig |-> <<8, 1, 2>>]}

CredentialInputs ==
    \/ kind = "vouch" /\ input \in [r : Posts, anon : BOOLEAN, now : {1, 3}]
    \/ kind = "presign" /\ input \in [m : {"PUT", "GET"}, e : 0..4, l : 1..6]
    \/ kind = "stream" /\ input \in [w : UpTo(Chunks, 4)]

CredentialsAgree ==
    CASE kind = "vouch" -> Auth!AdmittedAsVouched(input.r, Table, input.anon, TRUE, input.now)
      [] kind = "presign" -> Auth!PresignRoundTrip(input.m, "object", "t", input.e, 1, input.l)
      [] kind = "stream" -> Auth!StreamFaithful(Payload, input.w)
      [] OTHER -> TRUE

-----------------------------------------------------------------------------
(* Retrieval: texts of up to twelve words, three index operations, two      *)
(* ranked lists, a reranker's scores, card numbers, token prices.           *)

Chunk(i, o, toks) == [id |-> i, obj |-> o, tenant |-> IF o = 1 THEN "a" ELSE "b", toks |-> toks]
Upsert(o, chunks) == [op |-> "upsert", obj |-> o, chunks |-> chunks]
Texts == {<<>>, <<"x">>, <<"x", "x">>, <<"x", "y">>}
IndexOps == {Upsert(o, <<Chunk(i, o, t)>>) : i \in 1..2, o \in 1..2, t \in Texts}
    \cup {Upsert(1, <<Chunk(1, 1, <<"x">>), Chunk(3, 1, t)>>) : t \in Texts}
    \cup {[op |-> "delete", obj |-> o] : o \in 1..2}
    \cup {[op |-> "build", tenant |-> "a", chunks |-> <<Chunk(3, 1, <<"x", "x">>)>>]}
Ranked == {s \in UpTo(1..4, 3) : \A i, j \in DOMAIN s : s[i] = s[j] => i = j}

RankingInputs ==
    \/ kind = "chunk" /\ input \in [n : 0..12, w : 1..5, o : -1..5]
    \/ kind = "index" /\ input \in {<<x, y, z>> : x, y, z \in IndexOps}
    \/ kind = "fuse" /\ input \in [a : Ranked, b : Ranked]
    \/ kind = "rerank" /\ input \in [n : 1..3, s : UpTo(-1..3, 3), k : 0..4]
    \/ kind = "luhn" /\ input \in UpTo(0..9, 3) \ {<<>>}
    \/ kind = "cost" /\ input \in [p : {0, 1, 2, 3, 5, 7, 15}, c : (0..3) \cup {15},
                                   pp : {0, 1, 2, 3, 7, 15}, cp : {0, 1, 3, 15}]

RankingAgrees ==
    CASE kind = "chunk" -> Rank!ChunksCover(input.n, input.w, input.o)
      [] kind = "index" -> Rank!IndexExact(input)
      [] kind = "fuse" -> Rank!FusionDetermined(input.a, input.b)
      [] kind = "rerank" -> Rank!RerankGuarded(input.n, input.s, input.k)
      [] kind = "luhn" -> Rank!LuhnDetects(input)
      [] kind = "cost" -> Rank!CostExact(input.p, input.c, input.pp, input.cp)
      [] OTHER -> TRUE

-----------------------------------------------------------------------------
(* Listings: every bucket over seven names, with deleted, tagged, readable  *)
(* and foreign ones, in pages of one and two; versions, uploads, parts.     *)

Names == {<<2>>, <<2, 1>>, <<2, 1, 2>>, <<2, 1, 3>>, <<2, 3>>, <<3, 1, 2>>, <<3, 2>>}
Trash == {<<2, 1>>, <<3, 3>>}
Mixed == [names : SUBSET Names, deleted : {Trash}, tagged : {{<<2>>, <<2, 1, 3>>, <<3, 2>>}},
          readable : {{<<2, 1, 2>>, <<2, 1, 3>>, <<3, 2>>}}, mine : {Names \cup Trash, Names \ {<<2, 3>>}},
          prefix : {<<>>, <<2>>}, kind : {"all", "tag", "deleted"}, guarded : {TRUE},
          delimited : BOOLEAN]
Plain == {[names |-> n, deleted |-> {}, tagged |-> {}, readable |-> n, mine |-> n, prefix |-> p,
           kind |-> "all", guarded |-> FALSE, delimited |-> d] :
             n \in SUBSET Names, p \in {<<>>, <<2>>, <<2, 1>>}, d \in BOOLEAN}
Rows(ids) == SUBSET [key : {<<2>>, <<2, 3>>, <<3>>}, id : ids]

ListingInputs ==
    \/ kind = "keys" /\ input \in [q : Mixed \cup Plain, limit : 1..2]
    \/ /\ kind = "folders"
       /\ input \in [q : {x \in Mixed \cup Plain : ~x.delimited /\ x.kind = "all"}, limit : 1..2]
    \/ kind = "versions" /\ input \in [rows : Rows(1..3), prefix : {<<>>, <<2>>}, limit : 1..3]
    \/ kind = "uploads" /\ input \in [rows : Rows(1..2), prefix : {<<>>, <<2>>}, limit : 1..2]
    \/ kind = "parts" /\ input \in [parts : SUBSET (1..4), limit : 1..2]

ListingsAgree ==
    CASE kind = "keys" -> List!KeysExact(input.q, input.limit)
      [] kind = "folders" -> List!FoldersExact(input.q, input.limit)
      [] kind = "versions" -> List!VersionsExact(input.rows, input.prefix, input.limit)
      [] kind = "uploads" -> List!UploadsExact(input.rows, input.prefix, input.limit)
      [] kind = "parts" -> List!PartsExact(input.parts, input.limit)
      [] OTHER -> TRUE

-----------------------------------------------------------------------------
(* The boundary probes: databases of two tenants and up to four spaces,     *)
(* rows as a driver may return them, every combination of joined errors.    *)

SpaceSets == {S \in SUBSET [tenant : {"t", "u"}, bucket : {"b", "c"}, id : {"1", "2"}, revision : {1}] :
                 \A x, y \in S : x # y /\ x.tenant = y.tenant => x.bucket # y.bucket /\ x.id # y.id}
Databases == {d \in [tenants : UNION {[D -> {"active", "off"}] : D \in SUBSET {"t", "u"}},
                     spaces : SpaceSets] : \A s \in d.spaces : s.tenant \in DOMAIN d.tenants}
Scopes == {[kind |-> "tenant", tenant |-> "t"], [kind |-> "global", tenant |-> ""]}
ProbeRows == [tenant : {"t", "u", Bound!Null}, status : {"active", "off", Bound!Null},
              spTenant : {"t", "u", Bound!Null}, spBucket : {"b", "c", Bound!Null},
              id : {"1", Bound!Null, "malformed"}, revision : {0, 1}]
LikelyRows == {x \in ProbeRows : x.status # "off" /\ x.spBucket # "c" /\ x.id # "malformed"
                                    /\ x.spTenant # "u"}
Errors == {"fault", "denied", "spaceBound", "tenantUnavailable", "deadline", "notFound",
           "invalidArgs", "locked", "persistence", "forbidden"}

BoundaryInputs ==
    \/ kind = "probe" /\ input \in [db : Databases, scope : Scopes]
    \/ /\ kind = "proberows"
       /\ input \in [rows : UpTo(ProbeRows, 1) \cup {<<r, q>> : r, q \in LikelyRows}, scope : Scopes]
    \/ kind = "errors" /\ input \in SUBSET Errors

BoundaryAgrees ==
    CASE kind = "probe" -> Bound!ProbesExact(input.db, "t", "b", input.scope)
      [] kind = "proberows" -> Bound!FailsClosed(input.rows, "t", "b", input.scope)
      [] kind = "errors" -> Bound!LayersKeepKind(input)
      [] OTHER -> TRUE

-----------------------------------------------------------------------------
(* Events: the facts of one deletion and every change of one of their       *)
(* fields, events and the rows that may be read back for them, two          *)
(* notification rules, and the backoffs.                                    *)

Gone == [id |-> 1, tenant |-> "t", bucket |-> "b", key |-> "k", version |-> "v", size |-> 1]
Written == {Facts!deleteFactsWithRefs(Gone, "t", 0)[i] :
               i \in DOMAIN Facts!deleteFactsWithRefs(Gone, "t", 0)}
Record == Facts!BuildNotifyFact(Gone, "t", "fresh").records[1]
Tampered == Written
    \cup {[f EXCEPT !.payload = Facts!Garbage] : f \in Written}
    \cup {[f EXCEPT !.tenant = x] : f \in Written, x \in {"u", "", " "}}
    \cup {[f EXCEPT !.origin = x] : f \in Written, x \in {0, 2}}
    \cup {[f EXCEPT !.payload.tenant = x] : f \in Written, x \in {"u", ""}}
    \cup {[f EXCEPT !.payload.bucket = x] : f \in Written, x \in {"c", "", "*"}}
    \cup {[f EXCEPT !.payload.key = x] : f \in Written, x \in {"l", ""}}
    \cup {[f EXCEPT !.payload.size = 2] : f \in Written}
    \cup {[f EXCEPT !.payload.version = "w"] : f \in Written}
    \cup {[f EXCEPT !.payload.records = x] : f \in {g \in Written : g.type = Facts!NOTIFY},
             x \in {<<>>} \cup {<<[Record EXCEPT ![n] = "z"]>> :
                                  n \in {"name", "principal", "bucket", "key", "version"}}}
    \cup {[f EXCEPT !.payload.objectID = x] : f \in {g \in Written : g.type = Facts!DELETED},
             x \in {0, 2}}
Published == [id : {0}, type : {"created", "deleted"}, tenant : {"t", ""}, bucket : {"b"},
              key : {"k"}, object : {0, 1}, payload : {"nil", "empty", "some"}, created : BOOLEAN]
ReadBack == [id : {1, 2}, type : {"created"}, tenant : {"t", "u", "default"}, bucket : {"b", "c"},
             key : {"k"}, object : {0, 1}, payload : {"nil", "some"}, created : {TRUE}]
EventNames == {<<"s3:ObjectRemoved", "Delete">>, <<"s3:ObjectRemoved", "*">>,
               <<"s3:ObjectCreated", "*">>, <<"s3:ObjectCreated", "Put">>}
NotifyRules == [events : {{}} \cup {{n} : n \in EventNames}, filter : {<<>>, <<"a">>},
                targets : SUBSET {"endpoint", "sqs"}]

EventInputs ==
    \/ kind = "fact" /\ input \in Tampered
    \/ kind = "event" /\ input \in [e : Published, other : ReadBack]
    \/ kind = "targets" /\ input \in [rules : {<<r, q>> : r, q \in NotifyRules},
                                      key : {<<"a", "b">>, <<"b">>}, fails : {{}, {"sqs"}}]
    \/ kind = "backoff" /\ input \in [a : 0..12, percent : {0, 17, 50, 99, 100},
                                      first : {1, 2, 5}, max : {5, 7, 60, 500}]

EventsAgree ==
    CASE kind = "fact" -> Facts!FactsExact(Gone, "t", input)
      [] kind = "event" -> Facts!IdentityKept(input.e, {}, input.other)
      [] kind = "targets" -> Facts!SameTargets(input.rules, input.key, input.fails)
      [] kind = "backoff" -> Facts!BackoffsBounded(input.a, input.percent, input.first, input.max)
      [] OTHER -> TRUE

-----------------------------------------------------------------------------
(* The guards of stored rows: worlds with up to two objects, chunks and an  *)
(* event, of the tenant's two buckets or of another tenant.                 *)

ObjectRow(i, t, b, v) == [object |-> i, tenant |-> t, bucket |-> b, key |-> "k", version |-> v,
                          storage |-> "s", marker |-> FALSE]
ChunkRow(i, o, t, b) == [id |-> i, object |-> o, tenant |-> t, bucket |-> b, key |-> "k"]
EventRow(i, type, b) == [id |-> i, type |-> type, tenant |-> "t", bucket |-> b, key |-> "k", object |-> 1]
ObjectSets == {{}, {ObjectRow(1, "t", "b", "v")}, {ObjectRow(1, "t", "c", "v")},
    {ObjectRow(1, "u", "b", "v")}, {ObjectRow(1, "t", "b", "v"), ObjectRow(2, "t", "b", "w")},
    {ObjectRow(1, "t", "b", "v"), ObjectRow(2, "t", "c", "w")}}
ChunkSets == {{}, {ChunkRow(1, 1, "t", "b")}, {ChunkRow(1, 1, "t", "c")}, {ChunkRow(1, 1, "u", "b")},
    {ChunkRow(1, 1, "t", "b"), ChunkRow(2, 1, "t", "c")}, {ChunkRow(1, 2, "t", "b")}}
EventSets == {{}, {EventRow(1, "deleted", "b")}, {EventRow(1, "created", "b")}, {EventRow(2, "deleted", "c")}}
BoundSets == {{}, {<<"t", "b">>}, {<<"t", "c">>}, {<<"u", "b">>}}
World(o, c, e) == [objects : o, chunks : c, events : e, bound : BoundSets]
JobPayloads == [schema : {0}, tenant : {""}, bucket : {""}, key : {""}, event : {0}, object : {0, 1}]
    \cup [schema : {2}, tenant : {"t", "u"}, bucket : {"b", "c"}, key : {"k"}, event : {1}, object : {1}]
RetryJobs ==
    [type : {"index_object", "delete_chunks"}, tenant : {"t", "u"}, wellFormed : {TRUE},
     payload : JobPayloads, state : {"present"}]
    \cup [type : {"delete_chunks"}, tenant : {"t"}, wellFormed : BOOLEAN,
          payload : {q \in JobPayloads : q.object = 1}, state : {"missing", "torn"}]
Usage(i, os, cs) == [id |-> i, tenant |-> "t", objects |-> os, chunks |-> cs]
UsageLists == {<<>>, <<Usage(1, <<1>>, <<1>>)>>, <<Usage(1, <<1, 2>>, <<1, 2>>)>>,
               <<Usage(1, <<1>>, <<>>), Usage(2, <<1, 2>>, <<1>>)>>, <<Usage(1, <<2>>, <<>>)>>}
AnyObject == UNION ObjectSets
NoGuard == [tenant |-> "t", buckets |-> {}, objects |-> {}, invalid |-> FALSE]
SomeGuards == {Bound!addList(NoGuard, "t", b, rs) :
                  b \in {"b", "c"}, rs \in {r \in SUBSET AnyObject : Cardinality(r) <= 2}}

GuardInputs ==
    \/ kind = "retry" /\ input \in [w : World(ObjectSets, ChunkSets, EventSets), j : RetryJobs]
    \/ kind = "lineage" /\ input \in [w : World(ObjectSets, ChunkSets, {{}}), b : BoundSets, u : UsageLists]
    \/ kind = "sweep" /\ input \in [w : World(ObjectSets, {{}}, {{}}), a : AnyObject, l : UpTo(AnyObject, 2)]
    \/ kind = "page" /\ input \in
          [p : [keys : {<<>>, <<1>>, <<2>>, <<1, 2>>, <<2, 1>>, <<2, 3>>}, more : BOOLEAN, next : 0..3],
           m : 0..2]
    \/ kind = "guard" /\ input \in [w : World(ObjectSets, {{}}, {{}}), objects : {{}, AnyObject},
                                    g : SomeGuards]

GuardsAgree ==
    CASE kind = "retry" -> Bound!RetryAdmitted(input.w, input.j)
      [] kind = "lineage" -> Bound!LineageAdmitted(input.w, [input.w EXCEPT !.bound = input.b],
                                                    "t", 1, input.u)
      [] kind = "sweep" -> Bound!SweepScoped(input.w, input.a, input.l)
      [] kind = "page" -> Bound!PagesAdvance(input.p, input.m)
      [] kind = "guard" -> Bound!GuardSticky(input.w, [objects |-> input.objects, bound |-> {}], input.g)
      [] OTHER -> TRUE

-----------------------------------------------------------------------------
(* Encryption: every configuration of passphrase, key document and KMS that *)
(* starts, before and after a change of it; the options of a write.         *)

KeyDocs == {Seal!NoDoc, [primary |-> "A", keys |-> "A" :> "p"], [primary |-> "A", keys |-> "A" :> "q"],
    [primary |-> "B", keys |-> ("A" :> "p") @@ ("B" :> "q")], [primary |-> "B", keys |-> "B" :> "q"],
    [primary |-> "C", keys |-> "A" :> "p"],
    [primary |-> "A", keys |-> ("A" :> "q") @@ ("B" :> Seal!NoKey)]}
Configs == [kms : {Seal!NoKey, "k"}, doc : KeyDocs, pass : {Seal!NoKey, "p"}]
Encrypters == {e \in {Seal!NewLocal(c) : c \in {x \in Configs : Seal!Starts(x)}} : Seal!Encrypts(e)}
WriteOpts == [alg : {"", "AES256", "aws:kms", "x"}, key : {"", "k", "j"},
              customer : {Seal!NoKey, "short", "c"}, md5 : {Seal!NoKey, "c", "d"}]
Defaults == {[alg |-> "", key |-> ""], [alg |-> "AES256", key |-> ""], [alg |-> "aws:kms", key |-> "k"]}

SealingInputs ==
    \/ kind = "rewrap" /\ input \in [before : Encrypters \cup {Seal!CustomerEncrypter("c")}, now : Encrypters]
    \/ kind = "seal" /\ input \in [c : {x \in Configs : x.doc.keys # "A" :> "q"}, o : WriteOpts, b : Defaults,
                                   r : {Seal!NoKey, "c", "d"}, m : {Seal!NoKey, "c"}]

SealingAgrees ==
    CASE kind = "rewrap" -> Seal!RewrapKeeps(input.before, input.now, 7)
      [] kind = "seal" -> Seal!SealedAsRecorded(input.c, input.o, input.b, input.r, input.m)
      [] OTHER -> TRUE

-----------------------------------------------------------------------------
(* The settings of a bucket through both doors. *)

SSERules == [alg : {"", "AES256", "aws:kms", "x"}, key : {"", "k"}]
Offers == SUBSET {[alg |-> "AES256", key |-> ""], [alg |-> "aws:kms", key |-> "k"]}
Grants == [who : {"owner", "all", "auth"}, perm : {"READ", "WRITE", "FULL_CONTROL"}]
BucketRules == [id : {"1"}, queue : {"", "q"}, topic : {"", "t"}, lambda : {"", "l"}, key : {"", "p"}]

SettingsInputs ==
    \/ kind = "sse" /\ input \in [rule : SSERules, supports : Offers]
    \/ kind = "acl" /\ input \in [acl : Settings!Canned, grants : SUBSET Grants]
    \/ kind = "lock" /\ input \in [days : 0..3, seconds : {0, 1, 86399, 86400, 86401, 172800, 200000}]
    \/ kind = "site" /\ input \in [index : {"", "i"}, error : {"", "e"}]
    \/ kind = "tags" /\ input \in UpTo([k : {"a", "b"}, v : {"1", "2"}], 3)
    \/ kind = "logging" /\ input \in [doc : [target : {"", "t"}, prefix : {"", "p"}],
                                      status : {"", "Enabled", "Suspended", "x"}]
    \/ kind = "notify" /\ input \in UpTo(BucketRules, 2)
    \/ kind = "documents" /\ input \in [rules : UpTo([origins : {"a", "b"}, methods : {"G", "P"}], 2),
                                        text : {"", "x"}, parses : BOOLEAN,
                                        status : {"", "Enabled", "Suspended"}]

SettingsAgree ==
    CASE kind = "sse" -> Settings!EncryptionKept(input.rule, input.supports)
      [] kind = "acl" -> Settings!ACLKept(input.acl, input.grants)
      [] kind = "lock" -> Settings!LockKept(input.days, input.seconds)
      [] kind = "site" -> Settings!WebsiteKept(input)
      [] kind = "tags" -> Settings!TagsKept(input)
      [] kind = "logging" -> Settings!LoggingKept(input.doc, input.status)
      [] kind = "notify" -> Settings!NotificationsKept(input)
      [] kind = "documents" -> Settings!DocumentsKept(input.rules, input.text, input.parses, input.status)
      [] OTHER -> TRUE

-----------------------------------------------------------------------------
AlgorithmInputs ==
    \/ PolicyInputs \/ CredentialInputs \/ RankingInputs \/ ListingInputs \/ BoundaryInputs
    \/ EventInputs \/ GuardInputs \/ SealingInputs \/ SettingsInputs

AlgorithmsAgree ==
    /\ PoliciesAgree /\ CredentialsAgree /\ RankingAgrees /\ ListingsAgree /\ BoundaryAgrees
    /\ EventsAgree /\ GuardsAgree /\ SealingAgrees /\ SettingsAgree

-----------------------------------------------------------------------------
(* What the instances of the other components are given. *)

\* Entitlement: a bounded grant, then its end.
MCGrants == <<[active |-> TRUE, hard |-> 1, unlimited |-> FALSE],
              [active |-> FALSE, hard |-> 2, unlimited |-> FALSE]>>

\* Access: a user and a tenant administrator; what three requests ask together.
Principal(s, r, sc) == [subject |-> s, kind |-> "user", tenant |-> "t", roles |-> r, groups |-> {},
                        scopes |-> sc]
MCPrincipals == {Principal("ann", {}, {"share", "publish", "vault.file.delete"}),
                 Principal("root", {"vault.tenant_admin", "vault.file.delete"}, {"admin"})}
Target(sort, key, pt, pid, a) == [bucket |-> "b1", kind |-> sort, key |-> key, ptype |-> pt,
                                  pid |-> pid, action |-> a]
MCTargets == {Target("folder", "f", "department", "d1", "*"), Target("object", "k", "user", "ann", "read")}
Three(a, b, c, e) == [ops |-> <<a, b, c>>, env |-> e]
MCAccessPlans == {Three("share", "delete", "put", {}), Three("share", "open", "open", {"expiry"}),
    Three("share", "open", "revoke", {"status"}), Three("putacl", "putacl", "delacl", {}),
    Three("putacl", "delete", "put", {"directory"}), Three("publish", "publish", "unpublish", {}),
    Three("publish", "asset", "delete", {"status"})}

\* Idempotency: two uploads and a deletion under one key.
MCWants == <<[op |-> "put", body |-> 1], [op |-> "put", body |-> 1], [op |-> "delete", body |-> 0]>>

\* Spaces: a creation, a second administrator, and both leaving.
Mutation(id, a, act, tg, role, sort) == [id |-> id, actor |-> a, space |-> "s", action |-> act,
                                        target |-> tg, role |-> role, kind |-> sort]
MCCommands == <<Mutation("m1", 1, "create", 1, "", "personal"), Mutation("m2", 1, "add", 2, "admin", ""),
                Mutation("m3", 1, "revoke", 1, "", ""), Mutation("m4", 2, "revoke", 2, "", "")>>

\* Rings: requests of two tenants, with and without an Origin.
Flight(t, m, o) == [tenant |-> t, method |-> m, origin |-> o, authOK |-> TRUE]
MCFlights == <<Flight("a", "GET", ""), Flight("a", "PUT", "x"), Flight("a", "GET", "x"),
               Flight("default", "PUT", "")>>

\* Reads: conditional and ranged reads by both gateways.
Tags(v, w) == [star |-> FALSE, bad |-> FALSE, tags |-> {[of |-> v, weak |-> w]}]
AnyTag == [star |-> TRUE, bad |-> FALSE, tags |-> {}]
Malformed == [star |-> FALSE, bad |-> TRUE, tags |-> {}]
Bytes(s, e) == [dash |-> TRUE, start |-> s, end |-> e]
Ask(gw, op, ver, m, n, mo, un, r, ir) ==
    [gw |-> gw, op |-> op, version |-> ver, match |-> m, nonematch |-> n, modified |-> mo,
     unmodified |-> un, range |-> r, ifrange |-> ir]
Match == {<<>>, <<Tags(1, FALSE)>>, <<Tags(2, FALSE), Tags(1, TRUE)>>, <<AnyTag>>}
NoneMatch == {<<>>, <<Tags(1, TRUE)>>, <<Tags(2, FALSE)>>, <<Malformed>>}
Ranges == {<<>>, <<Bytes(<<1>>, <<>>)>>, <<Bytes(<<>>, <<2>>)>>, <<Bytes(<<0>>, <<0>>)>>,
           <<Bytes(<<3>>, <<9>>)>>, <<[dash |-> FALSE, start |-> <<>>, end |-> <<>>]>>}
IfRange == {<<>>, <<[date |-> 1, tag |-> Malformed]>>, <<[date |-> 0, tag |-> Tags(2, FALSE)]>>,
            <<[date |-> 0, tag |-> Tags(1, TRUE)]>>}
Dates == {<<>>, <<1>>}
MCAsks ==
    {Ask(gw, "get", v, m, <<>>, <<>>, <<>>, r, <<>>) : gw \in {"rest", "s3"}, v \in {0, 1}, m \in Match, r \in Ranges}
    \cup {Ask("rest", "get", 0, <<>>, <<>>, mo, un, r, ir) : mo \in Dates, un \in Dates,
             r \in {<<Bytes(<<0>>, <<0>>)>>, <<Bytes(<<1>>, <<>>)>>}, ir \in IfRange}
    \cup {Ask("s3", "get", 0, <<>>, n, mo, un, <<>>, <<>>) : n \in NoneMatch, mo \in Dates, un \in Dates}
    \cup {Ask(gw, "head", 0, m, n, <<>>, <<>>, <<>>, <<>>) : gw \in {"rest", "s3"}, m \in Match, n \in NoneMatch}
Write(g, o, m, n) == [gw |-> g, op |-> o, match |-> m, nonematch |-> n]
MCPutPlans == {<<Write("rest", "put", <<>>, <<>>), Write("rest", "put", <<>>, <<>>)>>,
    <<Write("rest", "put", <<>>, <<>>), Write("rest", "delete", <<>>, <<>>)>>,
    <<Write("rest", "put", <<Tags(1, FALSE)>>, <<>>), Write("s3", "put", <<>>, <<AnyTag>>)>>}

\* LocalStore: a passphrase, a key ring, a KMS, and no encryption.
CfgA == [kms |-> Seal!NoKey, doc |-> Seal!NoDoc, pass |-> "p"]
CfgAB == [CfgA EXCEPT !.doc = [primary |-> "B", keys |-> "B" :> "q"]]
CfgP == [CfgA EXCEPT !.pass = Seal!NoKey]
CfgK == [CfgP EXCEPT !.kms = "k"]

\* Lifecycle: rules with and without transitions, one change of them.
ByREST(d, a, nc, tr) == [door |-> "rest", doc |-> [days |-> d, action |-> a, nc |-> nc, count |-> 0,
                                                   trans |-> tr, ncDays |-> 0, ncClass |-> ""]]
ToIA == <<[days |-> 1, class |-> "IA"]>>
MCRuleAsks == {[door |-> "delete", doc |-> <<>>], ByREST(1, "", 0, <<>>), ByREST(2, "", -1, <<>>)}
MCFirstRules == {ByREST(1, "hard_delete", 1, ToIA), ByREST(2, "", 0, ToIA), ByREST(1, "hard_delete", 0, <<>>)}

\* Buckets: what five requests ask together.
Wish(o, d, c) == [op |-> o, door |-> d, col |-> c]
Put == Wish("put", "rest", "")
Delete(door) == Wish("delete", door, "")
MCBucketPlans == {
    <<Put, Delete("rest"), Delete("rest"), Wish("create", "s3", "other"), Put>>,
    <<Put, Delete("s3"), Wish("hold", "s3", ""), Delete("rest"), Wish("trash", "rest", "")>>,
    <<Wish("set", "rest", "cors"), Wish("origin", "rest", ""), Wish("set", "s3", "cors"),
      Wish("origin", "rest", ""), Delete("rest")>>,
    <<Put, Wish("trash", "rest", ""), Delete("rest"), Delete("s3"), Wish("origin", "rest", "")>>,
    <<Wish("set", "s3", "other"), Wish("unset", "rest", "cors"), Wish("set", "rest", "cors"),
      Wish("origin", "s3", ""), Delete("s3")>>}

\* Settings of an object, and writes of its metadata around the scrubber.
Retain(v, u, m) == [op |-> "retain", id |-> v, until |-> u, mode |-> m]
Hold(v, s) == [op |-> "hold", id |-> v, status |-> s]
MCScrubAsks == {Retain(0, 1, "COMPLIANCE"), [op |-> "putMeta", user |-> {}]}
MCSettingAsks ==
    MCScrubAsks \cup {Retain(1, 2, "GOVERNANCE"), Hold(0, "ON"), Hold(1, "OFF"), [op |-> "tags", tags |-> 1],
        [op |-> "acl", acl |-> "public-read"], [op |-> "patchMeta", key |-> "a"],
        [op |-> "deleteKey", key |-> "a"]}

\* Range fields with a size, and lifecycle documents of up to two rules.
MCRanges == [f : [dash : BOOLEAN, start : UNION {[1..n -> {0, 1, 3, 10}] : n \in 0..2},
                  end : UNION {[1..n -> {0, 2, 9}] : n \in 0..3}], size : 0..4]
MCRules == [on : BOOLEAN, days : {0, 1}, trans : {0, 2}, class : {"IA"}, nc : {0, 1}, ncDays : {0, 1},
            ncClass : {"", "IA"}]
MCDocuments == UNION {[1..n -> MCRules] : n \in 0..2}

-----------------------------------------------------------------------------
Ent == INSTANCE Entitlement WITH
        Projectors <- {1, 2}, Requests <- {3, 4}, Grants <- MCGrants, Nobody <- NoOne, MaxUsed <- 3,
        revision <- v1, entitlement <- v2, max <- v3, used <- v4, lease <- v5, projector <- v6,
        request <- v7, lax <- v8
Tok == INSTANCE TokenSource WITH
        Callers <- 1..3, NoCaller <- NoOne, MaxTokens <- 3,
        cached <- v1, fresh <- v2, lock <- v3, caller <- v4, issued <- v5, unauthorized <- v6,
        lapsed <- v7
Brk == INSTANCE Breaker WITH
        Calls <- 1..4, FailureThreshold <- 2, HalfOpenMaxRequests <- 2, MaxLost <- 1,
        circuit <- v1, failures <- v2, halfAllowed <- v3, waited <- v4, call <- v5, lost <- v6,
        stale <- v7, losses <- v8
Thu == INSTANCE Thumbnails WITH
        Requests <- 1..3, TenantOf <- <<"a", "a", "b">>, Conditional <- {2}, MaxVersion <- 2,
        Budget <- 1, PerTenant <- 1, DecodeSlots <- 1, MaxPendingFlights <- 1,
        live <- v1, blob <- v2, entries <- v3, flights <- v4, landed <- v5, active <- v6,
        used <- v7, req <- v8
Acc == INSTANCE Access WITH
        Principals <- MCPrincipals, Tenant <- "t", Buckets <- {"b1", "b2"}, Keys <- {"k"},
        FoldersOf <- [k |-> {"f"}], BoundBuckets <- {}, ParentOf <- [d1 |-> "none", d2 |-> "d1"],
        NoDept <- "none", Joiners <- {"ann"}, Targets <- MCTargets, Slugs <- {"s"}, MaxUses <- 1,
        MaxBirths <- 2, Requests <- 1..3, Plans <- MCAccessPlans, DefaultPolicy <- "tenant",
        DeleteFailOpen <- FALSE, AccessEnabled <- TRUE,
        objs <- v1, births <- v2, status <- v3, depts <- v4, members <- v5, acls <- v6,
        shares <- v7, assets <- v8, req <- v9, plan <- v10
Ide == INSTANCE Idempotency WITH
        Requests <- 1..3, Wants <- MCWants, HashBody <- TRUE, MaxPurges <- 1, MaxFlips <- 2,
        NoRecord <- NoOne,
        rec <- v1, live <- v2, nextID <- v3, policy <- v4, grant <- v5, req <- v6,
        purges <- v7, flips <- v8
Spa == INSTANCE Spaces WITH
        SpaceIds <- {"s"}, Subjects <- 1..3, Users <- {1, 2}, Clients <- 1..4, Command <- MCCommands,
        MaxTries <- <<1, 2, 2, 1>>, PageLimit <- 2, NoMember <- NoOne,
        tenant <- v1, spaces <- v2, buckets <- v3, members <- v4, history <- v5, client <- v6,
        pager <- v7, lister <- v8, bystander <- v9
Key == INSTANCE Keys WITH
        Replicas <- {1, 2}, Lookups <- {1, 2}, Changes <- {1}, KeyLife <- <<2, 0>>, TTL <- 1,
        MaxTime <- 3, NoKey <- NoOne,
        now <- v1, row <- v2, gone <- v3, cache <- v4, bus <- v5, lookup <- v6, change <- v7
Rin == INSTANCE Rings WITH
        Flights <- 1..4, FlightOf <- MCFlights, Tenants <- {"a", "default"},
        Statuses <- [t \in {"a", "default"} |-> "active"], CORSRules <- [a |-> {"x"}, default |-> {}],
        GlobalOrigins <- {}, GlobalMax <- 3, PerTenantMax <- 2, Rps <- 1, Burst <- 1, IdleTTL <- 1,
        MaxBuckets <- 1, LastTick <- 2, NoBucket <- NoOne,
        tick <- v1, buckets <- v2, inflight <- v3, sem <- v4, flight <- v5, granted <- v6
Ind == INSTANCE Indexing WITH
        Blank <- {2}, Runners <- {1, 2}, MaxWrites <- 3, MaxFaults <- 1,
        versioned <- v1, row <- v2, text <- v3, events <- v4, todo <- v5, worker <- v6,
        chunks <- v7, sink <- v8, writes <- v9, faults <- v10, excused <- v11
Ans == INSTANCE Answers WITH
        Docs <- {1, 2}, Asks <- {1, 2}, Kind <- <<"search", "stream">>, K <- 2, Reranking <- TRUE,
        Caching <- TRUE, Pieces <- 1, MaxChanges <- 1,
        object <- v1, chunk <- v2, index <- v3, granted <- v4, bound <- v5, cached <- v6,
        ask <- v7, changes <- v8
Rea == INSTANCE Reads WITH
        Sizes <- <<3, 2, 3>>, Seconds <- <<1, 1, 2>>, Asks <- MCAsks, Writers <- {1, 2},
        PutPlans <- MCPutPlans, MaxRange <- 37, Verify <- TRUE,
        versioned <- v1, current <- v2, stored <- v3, ask <- v4, rd <- v5, wr <- v6
Str == INSTANCE EventStream WITH
        Publishers <- {1, 2}, PublishedAt <- <<1, 2>>, TenantAt <- <<"a", "a">>, Streamer <- 1,
        StreamTenant <- "a", Stored <- 2, Cursors <- {0, 1}, StreamBuffer <- 1, ReplayPage <- 2,
        MaxLosses <- 1,
        pub <- v1, nextID <- v2, commits <- v3, wire <- v4, closed <- v5, stream <- v6,
        buf <- v7, casts <- v8, dropped <- v9, sent <- v10, losses <- v11
Not == INSTANCE Notifications WITH
        MaxDeletes <- 4, MaxLapses <- 1,
        row <- v1, deletes <- v2, facts <- v3, events <- v4, posts <- v5, excused <- v6,
        shadowed <- v7, lapses <- v8
Sto1 == INSTANCE LocalStore WITH
        StoreServers <- {1}, StoreKeys <- {1, 2}, StoreCfgs <- <<CfgA, CfgAB, CfgK>>, StoreReads <- <<>>,
        SweepPage <- 1, MaxPuts <- 2, MaxCopies <- 1, MaxSidecarFaults <- 0,
        body <- v1, side <- v2, boots <- v3, window <- v4, sweep <- v5, reads <- v6,
        torn <- v7, crossed <- v8, late <- v9, minted <- v10, copies <- v11, faults <- v12
Sto2 == INSTANCE LocalStore WITH
        StoreServers <- {1}, StoreKeys <- {1}, StoreCfgs <- <<CfgP, CfgA>>,
        StoreReads <- <<[server |-> 1, key |-> 1]>>, SweepPage <- 1, MaxPuts <- 2, MaxCopies <- 0,
        MaxSidecarFaults <- 1,
        body <- v1, side <- v2, boots <- v3, window <- v4, sweep <- v5, reads <- v6,
        torn <- v7, crossed <- v8, late <- v9, minted <- v10, copies <- v11, faults <- v12
Sto3 == INSTANCE LocalStore WITH
        StoreServers <- {1, 2}, StoreKeys <- {1}, StoreCfgs <- <<CfgA, CfgAB>>, StoreReads <- <<>>,
        SweepPage <- 1, MaxPuts <- 2, MaxCopies <- 0, MaxSidecarFaults <- 0,
        body <- v1, side <- v2, boots <- v3, window <- v4, sweep <- v5, reads <- v6,
        torn <- v7, crossed <- v8, late <- v9, minted <- v10, copies <- v11, faults <- v12
Lif == INSTANCE Lifecycle WITH
        AgedIds <- 1..3, OldVersions <- {3}, LockedTo <- <<3, 0, 0>>, RuleAsks <- MCRuleAsks,
        FirstRules <- MCFirstRules, SweepLimit <- 2, ScanBatch <- 1, KeepDays <- 1, MaxDay <- 5,
        MaxRuleAsks <- 1, MaxTouches <- 1,
        day <- v1, rules <- v2, objs <- v3, job <- v4, asked <- v5, touches <- v6
Buc == INSTANCE Buckets WITH
        BucketCallers <- 1..5, BucketPlans <- MCBucketPlans, Elsewhere <- 1, MaxExpiries <- 1,
        row <- v1, rows <- v2, trashed <- v3, held <- v4, blobs <- v5, usage <- v6,
        cache <- v7, plan <- v8, call <- v9, expiries <- v10, log <- v11
Set1 == INSTANCE ObjectSettings WITH
        Clients <- {1, 2}, Asks <- MCSettingAsks, UserKeys <- {"a"}, MaxRows <- 2, MaxUntil <- 2,
        MaxRequests <- 2, MaxDamage <- 0, MaxPasses <- 0,
        rows <- v1, live <- v2, rot <- v3, held <- v4, req <- v5, scrub <- v6, want <- v7,
        stale <- v8, misled <- v9, known <- v10, spent <- v11
Set2 == INSTANCE ObjectSettings WITH
        Clients <- {1, 2}, Asks <- MCScrubAsks, UserKeys <- {}, MaxRows <- 2, MaxUntil <- 1,
        MaxRequests <- 2, MaxDamage <- 1, MaxPasses <- 2,
        rows <- v1, live <- v2, rot <- v3, held <- v4, req <- v5, scrub <- v6, want <- v7,
        stale <- v8, misled <- v9, known <- v10, spent <- v11

-----------------------------------------------------------------------------
\* The slots from the k-th on, which a component does not use, and their value.
Idle7 == <<v7, v8, v9, v10, v11, v12>>
Idle8 == <<v8, v9, v10, v11, v12>>
Idle9 == <<v9, v10, v11, v12>>
Idle10 == <<v10, v11, v12>>
Idle11 == <<v11, v12>>
Idle12 == <<v12>>
Zero12 == v12 = 0
Zero11 == v11 = 0 /\ Zero12
Zero10 == v10 = 0 /\ Zero11
Zero9 == v9 = 0 /\ Zero10
Zero8 == v8 = 0 /\ Zero9
Zero7 == v7 = 0 /\ Zero8
Zero6 == v6 = 0 /\ Zero7
Zero5 == v5 = 0 /\ Zero6
Zero4 == v4 = 0 /\ Zero5
Zero3 == v3 = 0 /\ Zero4
Zero2 == v2 = 0 /\ Zero3

Init ==
    \/ subject = "entitlement" /\ Ent!Init /\ Zero9
    \/ subject = "token" /\ Tok!Init /\ Zero8
    \/ subject = "breaker" /\ Brk!Init /\ Zero9
    \/ subject = "thumbnails" /\ Thu!Init /\ Zero9
    \/ subject = "access" /\ Acc!Init /\ Zero11
    \/ subject = "idempotency" /\ Ide!Init /\ Zero9
    \/ subject = "spaces" /\ Spa!Init /\ Zero10
    \/ subject = "keys" /\ Key!Init /\ Zero8
    \/ subject = "rings" /\ Rin!Init /\ Zero7
    \/ subject = "indexing" /\ Ind!Init /\ Zero12
    \/ subject = "answers" /\ Ans!Init /\ Zero9
    \/ subject = "reads" /\ Rea!Init /\ Zero7
    \/ subject = "stream" /\ Str!Init /\ Zero12
    \/ subject = "notifications" /\ Not!Init /\ Zero9
    \/ subject = "store" /\ Sto1!Init
    \/ subject = "storeread" /\ Sto2!Init
    \/ subject = "storepair" /\ Sto3!Init
    \/ subject = "lifecycle" /\ Lif!Init /\ Zero7
    \/ subject = "buckets" /\ Buc!Init /\ Zero12
    \/ subject = "settings" /\ Set1!Init /\ Zero12
    \/ subject = "scrub" /\ Set2!Init /\ Zero12
    \/ subject = "algorithms" /\ AlgorithmInputs /\ Zero3
    \/ subject = "ranges" /\ v1 \in MCRanges /\ Zero2
    \/ subject = "rules" /\ v1 \in MCDocuments /\ Zero2

Next ==
    /\ UNCHANGED subject
    /\ \/ subject = "entitlement" /\ Ent!Next /\ UNCHANGED Idle9
       \/ subject = "token" /\ Tok!Next /\ UNCHANGED Idle8
       \/ subject = "breaker" /\ Brk!Next /\ UNCHANGED Idle9
       \/ subject = "thumbnails" /\ Thu!Next /\ UNCHANGED Idle9
       \/ subject = "access" /\ Acc!Next /\ UNCHANGED Idle11
       \/ subject = "idempotency" /\ Ide!Next /\ UNCHANGED Idle9
       \/ subject = "spaces" /\ Spa!Next /\ UNCHANGED Idle10
       \/ subject = "keys" /\ Key!Next /\ UNCHANGED Idle8
       \/ subject = "rings" /\ Rin!Next /\ UNCHANGED Idle7
       \/ subject = "indexing" /\ Ind!Next /\ UNCHANGED Idle12
       \/ subject = "answers" /\ Ans!Next /\ UNCHANGED Idle9
       \/ subject = "reads" /\ Rea!Next /\ UNCHANGED Idle7
       \/ subject = "stream" /\ Str!Next /\ UNCHANGED Idle12
       \/ subject = "notifications" /\ Not!Next /\ UNCHANGED Idle9
       \/ subject = "store" /\ Sto1!Next
       \/ subject = "storeread" /\ Sto2!Next
       \/ subject = "storepair" /\ Sto3!Next
       \/ subject = "lifecycle" /\ Lif!Next /\ UNCHANGED Idle7
       \/ subject = "buckets" /\ Buc!Next /\ UNCHANGED Idle12
       \/ subject = "settings" /\ Set1!Next /\ UNCHANGED Idle12
       \/ subject = "scrub" /\ Set2!Next /\ UNCHANGED Idle12

Spec == Init /\ [][Next]_requestVars

-----------------------------------------------------------------------------
\* What limits the work of the server lets through what it promises, no more,
\* and loses no slot: the storage breaker's half-open probes, the thumbnail
\* admission and its single flights, the token source's one exchange per lapse,
\* the rate limiter and the concurrency rings, and the quota, which is what
\* the entitlement in force says and is overshot by at most the requests in
\* flight.
AdmissionBounded ==
    CASE subject = "breaker" -> Brk!SlotsAccounted
      [] subject = "thumbnails" -> Thu!NoMissedWakeup /\ Thu!FollowersLanded
      [] subject = "token" -> Tok!NoStampede
      [] subject = "rings" -> Rin!SlotsExact /\ Rin!RateBounded
      [] subject = "entitlement" -> Ent!QuotaProjected /\ Ent!OvershootBounded
      [] OTHER -> TRUE

\* What a client is told is what it gets, whatever writes in between: the
\* validator and version of a thumbnail or an object are those of the bytes, a
\* replayed answer is one the caller may still see and stands for one effect,
\* pages of members leave nobody out, hits and sources of an answer are
\* admitted when they are sent, an acknowledged bucket setting is written, and
\* cached CORS rules are the row's but for the explained delays.
AnswersTruthful ==
    CASE subject = "thumbnails" -> Thu!LabelsTruthful
      [] subject = "idempotency" -> Ide!EffectsBounded /\ Ide!ReplayAdmitted
      [] subject = "spaces" -> Spa!PagesComplete /\ Spa!ServedUnbound
      [] subject = "answers" -> Ans!SentAdmitted
      [] subject = "reads" -> Rea!RestTruthful /\ Rea!S3Truthful
      [] subject = "storeread" -> Sto2!ServedAsDescribed
      [] subject = "buckets" -> Buc!SettingsWritten /\ Buc!CacheExplained
      [] OTHER -> TRUE

\* Who may do what follows from the tables as they are, or were a bounded time
\* ago: a share serves its uses and no more and outlives its object only by an
\* overlap, departments resolve to existing ones, a denial wins, a space keeps
\* an administrator and a history that explains its members, a mutation is
\* applied once, and a revoked or expired key works at most a cache TTL longer.
AuthorityCurrent ==
    CASE subject = "access" -> /\ Acc!UsesBounded /\ Acc!LeftoversOverlap
                               /\ Acc!DepartmentsResolve /\ Acc!DenyWins
      [] subject = "spaces" -> Spa!LastAdminStays /\ Spa!HistoryExplains /\ Spa!AppliedOnce
      [] subject = "keys" -> Key!StaleWithinTTL /\ Key!ExpiredRefused
      [] OTHER -> TRUE

\* The background work leaves the stored data right: the index settles on the
\* live versions, a body and its sidecar fit and a key sweep reaches them all,
\* the deletion of a bucket spares what it must and accounts for the rest, and
\* lifecycle sweeps reach what is due in turn and in time; what is said of an
\* object stays said, and its corrupt flag speaks of its own blob.
DataKept ==
    CASE subject = "indexing" -> Ind!IndexSettles
      [] subject = "store" -> Sto1!PairIntact /\ Sto1!SweptUnderPrimary
      [] subject = "storeread" -> Sto2!PairIntact /\ Sto2!SweptUnderPrimary
      [] subject = "storepair" -> Sto3!PairIntact /\ Sto3!SweptUnderPrimary
      [] subject = "lifecycle" -> Lif!SweptInTurn /\ Lif!ExpiresInTime
      [] subject = "buckets" -> Buc!SparedStay /\ Buc!DeletionAccounted
      [] subject = "settings" -> Set1!SettingsKept /\ Set1!FlagExplained
      [] subject = "scrub" -> Set2!SettingsKept /\ Set2!FlagExplained
      [] OTHER -> TRUE

\* Events reach their listeners as they should: a stream sends in order and
\* misses only what is explained by a drop or a lost wire message, and a
\* delete is announced once, or by the bus alone when it has no outbox fact.
EventsAccounted ==
    CASE subject = "stream" -> Str!SentInOrder /\ Str!GapsExplained
      [] subject = "notifications" -> Not!AnnouncedOnce /\ Not!BareExplained
      [] OTHER -> TRUE

\* The algorithms compute what their reference definitions say: listings and
\* their pages, policies, credentials, retrieval, range fields, event facts,
\* boundary probes, row guards, sealing, lifecycle and bucket documents.
AgreesWithReference ==
    CASE subject = "algorithms" -> AlgorithmsAgree
      [] subject = "ranges" -> Rea!RangeExact(v1.f, v1.size)
      [] subject = "rules" -> Lif!RulesRoundTrip(v1) /\ Lif!DeleteKeepsTheRest(v1)
      [] OTHER -> TRUE

\* A projected entitlement is never replaced by an older one, and a token is
\* dropped only after the service refused that very token; a retention date is
\* brought forward only by a request that had not read it.
NeverBackwards ==
    [][/\ subject = "entitlement" => Ent!RevisionForward
       /\ subject = "token" => Tok!KeepsNewToken
       /\ subject = "settings" => Set1!RetentionForward
       /\ subject = "scrub" => Set2!RetentionForward]_requestVars
=============================================================================
