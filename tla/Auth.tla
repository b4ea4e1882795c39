-------------------------------- MODULE Auth --------------------------------
(***************************************************************************)
(* Who a request is from and what it may do (internal/auth), as operators, *)
(* with the definitions they are compared with.                            *)
(*                                                                         *)
(* Bucket policies, condition blocks and the two wildcard matchers         *)
(* (policy.go, condition.go, arn.go): text is a sequence of characters; a  *)
(* policy document is what its JSON decodes to.                            *)
(*                                                                         *)
(* Credentials (auth_middleware.go, presign_put.go, sigv4*.go, jwt.go,     *)
(* snaplink.go): a keyed hash is ideal, a signature is the record of what  *)
(* was signed, and is made only by the holder of the secret.               *)
(***************************************************************************)
EXTENDS Integers, Sequences, FiniteSets, SequencesExt

Star == "*"
Any1 == "?"

At(s, i) == s[i + 1]          \* Go's zero-based index

(* The pattern's tail after the value is used up: only stars match.        *)
OnlyStars(p, pi) == \A i \in pi .. Len(p) - 1 : At(p, i) = Star

RECURSIVE WildLoop(_, _, _, _, _, _)
RECURSIVE GlobLoop(_, _, _, _, _, _)
RECURSIVE Matches(_, _)

(* Mutant: a star that took too little is not retried further on.          *)
WildOnce(p, v, pi, vi, star, retry) ==
    IF vi >= Len(v) THEN OnlyStars(p, pi)
    ELSE IF pi < Len(p) /\ At(p, pi) = At(v, vi) THEN WildLoop(p, v, pi + 1, vi + 1, star, retry)
    ELSE pi < Len(p) /\ At(p, pi) = Star /\ WildLoop(p, v, pi + 1, vi, -1, vi)

(* wildcardMatch's loop, with its patternIndex, valueIndex, starIndex and  *)
(* retryIndex; an equal character is tried before a star.                  *)
WildLoop(p, v, pi, vi, star, retry) ==
    IF vi >= Len(v) THEN OnlyStars(p, pi)
    ELSE IF pi < Len(p) /\ At(p, pi) = At(v, vi) THEN WildLoop(p, v, pi + 1, vi + 1, star, retry)
    ELSE IF pi < Len(p) /\ At(p, pi) = Star THEN WildLoop(p, v, pi + 1, vi, pi, vi)
    ELSE star >= 0 /\ WildLoop(p, v, star + 1, retry + 1, star, retry + 1)

wildcardMatch(p, v) == WildLoop(p, v, 0, 0, -1, 0)


(* matchGlob, the same with "?".                                           *)
GlobLoop(p, v, px, sx, star, match) ==
    IF sx >= Len(v) THEN OnlyStars(p, px)
    ELSE IF px < Len(p) /\ At(p, px) \in {Any1, At(v, sx)}
         THEN GlobLoop(p, v, px + 1, sx + 1, star, match)
    ELSE IF px < Len(p) /\ At(p, px) = Star THEN GlobLoop(p, v, px + 1, sx, px, sx)
    ELSE star >= 0 /\ GlobLoop(p, v, star + 1, match + 1, star, match + 1)

matchGlob(p, v) == GlobLoop(p, v, 0, 0, -1, 0)

(* What a pattern denotes; globToRegex's anchored regular expression.      *)
Matches(p, v) ==
    IF p = <<>> THEN v = <<>>
    ELSE CASE Head(p) = Star -> \E i \in 0 .. Len(v) : Matches(Tail(p), SubSeq(v, i + 1, Len(v)))
           [] Head(p) = Any1 -> v # <<>> /\ Matches(Tail(p), Tail(v))
           [] OTHER -> v # <<>> /\ Head(v) = Head(p) /\ Matches(Tail(p), Tail(v))

globToRegex(p, v) == Matches(p, v)

(* MatchARN, MatchARNList on ARNs split at their colons.                   *)
MatchARN(p, a) ==
    /\ p.partition = a.partition
    /\ \A f \in {"service", "region", "account"} : p[f] \in {Star, a[f]}
    /\ matchGlob(p.resource, a.resource)

MatchARNList(ps, a) == \E i \in DOMAIN ps : MatchARN(ps[i], a)

-----------------------------------------------------------------------------

(* A statement as written: effect; principal "absent", "star" or "named"   *)
(* (strings), "mapStar", "mapNamed" or "mapOther" (a map whose values hold *)
(* no string); the actions and resources it names; cond "none", "in"       *)
(* (IpAddress of a CIDR), "out" (NotIpAddress) or "bad" (anything else).   *)

(* Statement.UnmarshalJSON: a string principal other than "*" leaves an    *)
(* empty map, as an absent one does.                                       *)
PrincipalMap(st) ==
    CASE st.principal \in {"absent", "named"} -> {}
      [] st.principal \in {"star", "mapStar"} -> {"*"}
      [] st.principal = "mapNamed" -> {"someone"}
      [] OTHER -> {"-"}

principalValues(st) == PrincipalMap(st) \ {"-"}

validatePrincipal(st) == principalValues(st) \subseteq {"*"}

validateConditions(st) == st.cond # "bad"

(* ParsePolicy: the first bad statement refuses the whole document; none   *)
(* at all is no policy.                                                    *)
ParsePolicy(doc) ==
    \A i \in DOMAIN doc : /\ doc[i].effect \in {"Allow", "Deny"}
                          /\ validateConditions(doc[i])
                          /\ validatePrincipal(doc[i])

matchesPrincipal(st) == PrincipalMap(st) = {} \/ "*" \in principalValues(st)

matchesAction(st, action) == "*" \in st.actions \/ action \in st.actions

matchesResource(st, resource) ==
    \/ resource = <<>>
    \/ st.resources = {}
    \/ \E p \in st.resources : wildcardMatch(p, resource)

(* matchesConditions; ip is "inside" or "outside" the statement's CIDR, or *)
(* "bad", an address that does not parse and is inside nothing.            *)
matchesConditions(st, ip) ==
    CASE st.cond = "none" -> TRUE
      [] st.cond = "in" -> ip = "inside"
      [] st.cond = "out" -> ip # "inside"
      [] OTHER -> FALSE

(* EvalResource, statement by statement; a matching Deny ends the walk.    *)
Denies(st, ip) ==
    \/ st.effect = "Deny" /\ (~matchesPrincipal(st) \/ ~validateConditions(st))
    \/ st.effect = "Deny" /\ matchesConditions(st, ip)
    \/ st.effect \notin {"Allow", "Deny"}

Grants(st, ip) ==
    st.effect = "Allow" /\ matchesPrincipal(st) /\ matchesConditions(st, ip)

(* Mutant: the statement visited last decides.                             *)
VisitLast(verdict, st, action, resource, ip) ==
    IF ~matchesAction(st, action) \/ ~matchesResource(st, resource) THEN verdict
    ELSE IF Denies(st, ip) THEN "Deny"
    ELSE IF Grants(st, ip) THEN "Allow"
    ELSE verdict

Visit(verdict, st, action, resource, ip) ==
    IF verdict = "Deny" \/ ~matchesAction(st, action) \/ ~matchesResource(st, resource)
    THEN verdict
    ELSE IF Denies(st, ip) THEN "Deny"
    ELSE IF Grants(st, ip) THEN "Allow"
    ELSE verdict


EvalResource(doc, action, resource, ip) ==
    FoldLeft(LAMBDA v, st : Visit(v, st, action, resource, ip), "ImplicitDeny", doc)

(* AllowedResource: no document is no restriction.                         *)
AllowedResource(doc, action, resource, ip) ==
    doc = <<>> \/ EvalResource(doc, action, resource, ip) = "Allow"

-----------------------------------------------------------------------------

(* condition.go.  A value is a number, or NaV for text that does not parse *)
(* as the operator's type.                                                 *)
NaV == -1

Negated == [StringEquals |-> "StringNotEquals", NumericEquals |-> "NumericNotEquals",
            DateEquals |-> "DateNotEquals", IpAddress |-> "NotIpAddress",
            ArnEquals |-> "ArnNotEquals"]

Typed(op) == op \in {"NumericEquals", "NumericNotEquals", "NumericLessThan",
                     "NumericLessThanEquals", "NumericGreaterThan",
                     "NumericGreaterThanEquals", "DateEquals", "DateNotEquals",
                     "DateLessThan", "DateGreaterThan"}

(* A typed operator with an unparsable operand does not compile.           *)
Compiles(op, value) == Typed(op) => value # NaV

(* compileNumericCondition, compileDateCondition: an unparsable context    *)
(* value satisfies only the negated operators.                             *)
compileOrdered(op, value, cv) ==
    CASE op \in {"NumericEquals", "DateEquals"} -> cv # NaV /\ cv = value
      [] op \in {"NumericNotEquals", "DateNotEquals"} -> cv = NaV \/ cv # value
      [] op \in {"NumericLessThan", "DateLessThan"} -> cv # NaV /\ cv < value
      [] op = "NumericLessThanEquals" -> cv # NaV /\ cv <= value
      [] op \in {"NumericGreaterThan", "DateGreaterThan"} -> cv # NaV /\ cv > value
      [] OTHER -> cv # NaV /\ cv >= value

(* compileIPMatch: an operand that is no address never matches.            *)
compileIPMatch(value, cv, inRange) ==
    value # NaV /\ (IF inRange THEN cv # NaV /\ cv = value ELSE cv = NaV \/ cv # value)

compileSingleCondition(op, value, cv) ==
    CASE Typed(op) -> compileOrdered(op, value, cv)
      [] op = "IpAddress" -> compileIPMatch(value, cv, TRUE)
      [] op = "NotIpAddress" -> compileIPMatch(value, cv, FALSE)
      [] op \in {"StringEquals", "ArnEquals"} -> cv = value
      [] OTHER -> cv # value

(* ConditionBlock.Compile: every key is present and one of its values      *)
(* holds; a context is a function from the keys it has.                    *)
CompileBlock(op, conditions, ctx) ==
    \A k \in DOMAIN conditions :
       k \in DOMAIN ctx /\ \E v \in conditions[k] : compileSingleCondition(op, v, ctx[k])

CompileConditionSet(set, ctx) == \A op \in DOMAIN set : CompileBlock(op, set[op], ctx)

-----------------------------------------------------------------------------

(* For a value without a literal star both matchers decide what the        *)
(* pattern denotes, and StringLike's regular expression with them.         *)
MatchersAgree(p, v) ==
    Star \notin ToSet(v) =>
       /\ matchGlob(p, v) = Matches(p, v)
       /\ (Any1 \notin ToSet(p) => wildcardMatch(p, v) = Matches(p, v))

(* The verdict does not depend on the order of the statements: an          *)
(* applicable Deny wins, then an applicable Allow, then nothing.           *)
VerdictByEffect(doc, action, resource, ip) ==
    LET on == {i \in DOMAIN doc : matchesAction(doc[i], action)
                                  /\ matchesResource(doc[i], resource)}
        verdict == IF \E i \in on : Denies(doc[i], ip) THEN "Deny"
                   ELSE IF \E i \in on : Grants(doc[i], ip) THEN "Allow"
                   ELSE "ImplicitDeny"
    IN  /\ EvalResource(doc, action, resource, ip) = verdict
        /\ EvalResource(Reverse(doc), action, resource, ip) = verdict

(* A document ParsePolicy accepts never needs the evaluation's fail-closed *)
(* Deny: a Deny in it applies only where its conditions match, unless its  *)
(* principal is a map that holds no string.                                *)
ParsedDenyIsScoped(doc, ip) ==
    ParsePolicy(doc) =>
       \A i \in DOMAIN doc :
          Denies(doc[i], ip) /\ doc[i].principal # "mapOther" =>
             doc[i].effect = "Deny" /\ matchesConditions(doc[i], ip)

(* For a single operand the negated operator is the complement, parsable   *)
(* context value or not.                                                   *)
NegationComplements(op, value, cv) ==
    op \in DOMAIN Negated /\ Compiles(op, value) /\ value # NaV =>
       compileSingleCondition(Negated[op], value, cv) = ~compileSingleCondition(op, value, cv)
-----------------------------------------------------------------------------
(* Credentials. *)

Refused == [pass |-> FALSE, tenant |-> "", scopes |-> {}, who |-> "none"]

Passed(tenant, scopes, who) ==
    [pass |-> TRUE, tenant |-> tenant, scopes |-> scopes, who |-> who]

(* Key.Has *)
Has(scopes, s) == "admin" \in scopes \/ s \in scopes

(* checkScope *)
RequiredScope(method) ==
    IF method \in {"GET", "HEAD", "OPTIONS", "PROPFIND"} THEN "read" ELSE "write"

(* A "*" key leaves the tenant header alone.                               *)
TenantOf(r, key) ==
    IF key.tenant # "*" THEN key.tenant
    ELSE IF r.header = "" THEN "default" ELSE r.header

(* Mutant: a key's tenant is taken over the header without comparing them. *)
AgreesAlways(r, key) == key.tenant # "" /\ r.header \in {r.header}

(* The tenant header may name the key's tenant or nothing.                 *)
TenantAgrees(r, key) == key.tenant = "*" \/ r.header \in {"", key.tenant}

-----------------------------------------------------------------------------

(* PutPresigner.  A signature is [method, path, tenant, expires].          *)
MaxPresignTTL == 3

sign(method, path, tenant, expiry, now) ==
    [op |-> IF method = "GET" THEN "get" ELSE "", tenant |-> tenant,
     expires |-> now + expiry, extra |-> FALSE,
     sig |-> [method |-> method, path |-> path, tenant |-> tenant, expires |-> now + expiry]]

Signable(tenant, expiry) == tenant # "" /\ expiry > 0 /\ expiry <= MaxPresignTTL

(* validatePresignQuery *)
validatePresignQuery(q, op) ==
    /\ ~q.extra
    /\ IF op = "get" THEN q.op = "get" ELSE q.op \in {"", "put"}

(* Mutant: the lifetime is not checked again.                              *)
VerifyNoExpiry(q, path, now, method) ==
    /\ q.tenant # "" /\ now >= 0
    /\ q.sig = [method |-> method, path |-> path, tenant |-> q.tenant, expires |-> q.expires]

(* The common part of VerifyPut and VerifyGet.                             *)
VerifyQuery(q, path, now, method) ==
    /\ q.tenant # ""
    /\ q.expires >= now /\ q.expires - now <= MaxPresignTTL
    /\ q.sig = [method |-> method, path |-> path, tenant |-> q.tenant, expires |-> q.expires]


IsPresignedPut(r) == r.query # <<>> /\ r.method = "PUT" /\ r.query.op # "get"
IsPresignedGet(r) == r.query # <<>> /\ r.method \in {"GET", "HEAD"} /\ r.query.op = "get"

VerifyPut(r, now) == validatePresignQuery(r.query, "put") /\ VerifyQuery(r.query, r.path, now, "PUT")
VerifyGet(r, now) == validatePresignQuery(r.query, "get") /\ VerifyQuery(r.query, r.path, now, "GET")

authenticatePresignedPut(r, now) ==
    IF VerifyPut(r, now) /\ r.header \in {"", r.query.tenant}
    THEN Passed(r.query.tenant, {"write"}, "presigned-put") ELSE Refused

(* ... and a presigned GET only for an object of the REST API, as a        *)
(* capability on that object.                                              *)
authenticatePresignedGet(r, now) ==
    IF VerifyGet(r, now) /\ r.header \in {"", r.query.tenant} /\ r.path = "object"
    THEN Passed(r.query.tenant, {"read"}, "presigned-get") ELSE Refused

-----------------------------------------------------------------------------

(* JWTVerifier.Verify and claimsToKey: [alg, signed, iss, exp, nbf, ten,   *)
(* scopes]; 0 is no bound.                                                 *)
VerifyJWT(c, now, issuer) ==
    /\ c.signed /\ c.alg = "HS256"
    /\ issuer \in {"", c.iss}
    /\ (c.exp > 0 => now <= c.exp)
    /\ (c.nbf > 0 => now >= c.nbf)
    /\ c.ten # ""
    /\ c.scopes # {}

(* SignWithPrincipal *)
SignJWT(ten, scopes, ttl, now, issuer) ==
    [alg |-> "HS256", signed |-> TRUE, iss |-> issuer,
     exp |-> IF ttl > 0 THEN now + ttl ELSE 0, nbf |-> now, ten |-> ten, scopes |-> scopes]

(* SnaplinkVerifier.resolveTenant, resolveScopes: configured clients are   *)
(* the only ones; unknown scopes are dropped and defaults fill an empty    *)
(* set.                                                                    *)
KnownScopes == {"read", "write", "admin", "file:delete"}

resolveTenant(cfg, c) ==
    IF DOMAIN cfg.clients # {}
    THEN IF c.client \in DOMAIN cfg.clients THEN cfg.clients[c.client] ELSE ""
    ELSE IF cfg.claim = "sub" THEN c.sub ELSE c.ten

resolveScopes(cfg, c) ==
    LET named == c.scopes \cap KnownScopes
    IN  IF named # {} THEN named ELSE cfg.defaults \cap KnownScopes

VerifySnaplink(cfg, c) ==
    /\ c.valid /\ (cfg.audience = "" \/ cfg.audience \in {c.aud, c.client})
    /\ resolveTenant(cfg, c) # "" /\ c.sub # "" /\ resolveScopes(cfg, c) # {}

-----------------------------------------------------------------------------

(* SigV4Verifier.  A signed request carries when and for how long it was   *)
(* signed and whether its signature is over this request; a header         *)
(* signature allows a skew either way, a presigned one its lifetime.       *)
MaxSkew == 1

validateHeaderTime(signedAt, now) == signedAt >= now - MaxSkew /\ signedAt <= now + MaxSkew

VerifySigV4(s, now) ==
    /\ s.known /\ s.scopeOK /\ s.hostSigned /\ s.over
    /\ IF s.ttl = 0 THEN validateHeaderTime(s.at, now)
       ELSE s.ttl <= MaxPresignTTL /\ s.at <= now + MaxSkew /\ now <= s.at + s.ttl

authenticateSigV4(r, now) ==
    IF /\ VerifySigV4(r.signed, now)
       /\ TenantAgrees(r, r.signed.key)
       /\ Has(r.signed.key.scopes, RequiredScope(r.method))
    THEN Passed(TenantOf(r, r.signed.key), r.signed.key.scopes, "sigv4") ELSE Refused

(* Registry.Lookup: static keys, then the store, then JWT, then Snaplink;  *)
(* the first that resolves the token wins.                                 *)
Lookup(token, tables) ==
    LET hit == SelectSeq(tables, LAMBDA t : token \in DOMAIN t)
    IN  IF hit = <<>> THEN <<>> ELSE <<hit[1][token]>>

isPublicCapabilityPath(r) == r.method \in {"GET", "HEAD"} /\ r.path = "share"
isObjectReadPath(r) == r.method \in {"GET", "HEAD"} /\ r.path = "object"

(* authenticateBearer *)
authenticateBearer(r, tables, anonRead) ==
    IF r.token = ""
    THEN IF isPublicCapabilityPath(r) \/ (anonRead /\ isObjectReadPath(r))
         THEN Passed(IF r.header = "" THEN "default" ELSE r.header, {}, "anonymous")
         ELSE Refused
    ELSE LET k == Lookup(r.token, tables)
         IN  IF /\ k # <<>>
                /\ TenantAgrees(r, k[1])
                /\ Has(k[1].scopes, RequiredScope(r.method))
             THEN Passed(TenantOf(r, k[1]), k[1].scopes, "key") ELSE Refused

(* Registry.Middleware: which of them a request meets.                     *)
Middleware(r, tables, anonRead, enabled, now) ==
    CASE IsPresignedPut(r) -> authenticatePresignedPut(r, now)
      [] IsPresignedGet(r) -> authenticatePresignedGet(r, now)
      [] OTHER ->
         IF ~enabled \/ r.path = "open" THEN Passed(r.header, {}, "nobody")
         ELSE IF r.signed # <<>> THEN authenticateSigV4(r, now)
         ELSE authenticateBearer(r, tables, anonRead)


(* Registry.Require(s) on the way to a handler.                            *)
Require(s, out, r, enabled) ==
    \/ ~enabled
    \/ s = "read" /\ out.who = "anonymous" /\ isObjectReadPath(r)
    \/ out.who \notin {"anonymous", "nobody"} /\ Has(out.scopes, s)

-----------------------------------------------------------------------------

(* verifiedChunkReader.  A chunk carries its data (0 for the closing empty *)
(* chunk) and a signature: the data chained to the request's own seed.     *)
Seed == <<9>>

streamingChunkSignature(previous, data) == Append(previous, data)

SignedStream(payload) ==
    [i \in 1 .. Len(payload) + 1 |->
        [data |-> IF i > Len(payload) THEN 0 ELSE payload[i],
         sig |-> Seed \o Append(SubSeq(payload, 1, i - 1), IF i > Len(payload) THEN 0 ELSE payload[i])]]

(* Mutant: every chunk is checked against the seed.                        *)
LoadUnchained(rd, c) ==
    IF rd.done \/ rd.failed THEN rd
    ELSE IF Last(c.sig) # c.data THEN [rd EXCEPT !.failed = TRUE]
    ELSE [prev |-> rd.prev, out |-> IF c.data = 0 THEN rd.out ELSE Append(rd.out, c.data),
          done |-> c.data = 0, failed |-> FALSE]

(* loadChunk on a reader [prev, out, done, failed].                        *)
loadChunk(rd, c) ==
    LET expected == streamingChunkSignature(rd.prev, c.data)
    IN  IF rd.done \/ rd.failed THEN rd
        ELSE IF c.sig # expected THEN [rd EXCEPT !.failed = TRUE]
        ELSE [prev |-> expected, out |-> IF c.data = 0 THEN rd.out ELSE Append(rd.out, c.data),
              done |-> c.data = 0, failed |-> FALSE]


(* Read until the wire is used up: without the closing chunk the reader    *)
(* ends in an error, not in EOF.                                           *)
ReadAll(wire) ==
    FoldLeft(loadChunk, [prev |-> Seed, out |-> <<>>, done |-> FALSE, failed |-> FALSE], wire)

-----------------------------------------------------------------------------

(* A request let by as a key's, a signature's or a presigned URL's runs    *)
(* under that credential's tenant (or, for a "*" key, the one it names),   *)
(* with a header that does not contradict it and the scope its method      *)
(* needs; a presigned URL admits only the method, path, tenant and         *)
(* lifetime it was signed for.                                             *)
AdmittedAsVouched(r, tables, anonRead, enabled, now) ==
    LET out == Middleware(r, tables, anonRead, enabled, now)
    IN  out.pass =>
          CASE out.who = "key" ->
                 LET k == Lookup(r.token, tables)[1]
                 IN  /\ out.tenant = k.tenant \/ k.tenant = "*"
                     /\ r.header # "" => r.header = out.tenant
                     /\ RequiredScope(r.method) \in k.scopes \/ "admin" \in k.scopes
            [] out.who \in {"presigned-put", "presigned-get"} ->
                 /\ r.query.sig.path = r.path /\ r.query.sig.tenant = out.tenant
                 /\ now <= r.query.sig.expires
                 /\ r.header \in {"", out.tenant}
                 /\ (r.query.sig.method = "PUT") = (r.method = "PUT")
            [] out.who = "anonymous" -> r.method \in {"GET", "HEAD"} /\ r.token = ""
            [] OTHER -> TRUE

(* A link signed now for up to the longest lifetime verifies until it      *)
(* expires and never after.                                                *)
PresignRoundTrip(method, path, tenant, expiry, now, later) ==
    Signable(tenant, expiry) /\ later >= now =>
       LET r == [method |-> method, path |-> path, header |-> "",
                 query |-> sign(method, path, tenant, expiry, now)]
       IN  (IF method = "PUT" THEN VerifyPut(r, later) ELSE VerifyGet(r, later))
              = (later <= now + expiry)

(* Whatever order, repetition, truncation or substitution the wire brings: *)
(* what the reader yields is a prefix of what was signed, and the reader   *)
(* reports the end only after all of it.                                   *)
StreamFaithful(payload, wire) ==
    LET rd == ReadAll(wire)
    IN  /\ IsPrefix(rd.out, payload)
        /\ rd.done => rd.out = payload
=============================================================================
