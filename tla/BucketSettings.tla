--------------------------- MODULE BucketSettings ---------------------------
(***************************************************************************)
(* The documents with which a bucket is configured and the columns they    *)
(* are kept in.  Every setting has one column, written and read through    *)
(* two doors: the S3 subresources, whose XML carries a setting in its own  *)
(* shape, and the REST handlers, whose JSON is near the column.  A put     *)
(* gives the new column or Refused; a get gives a document, or NotSet when *)
(* the server answers that there is no such configuration.                 *)
(* Names and texts are model values; "" is Go's empty string.  The bucket  *)
(* row itself, and requests that overlap, are in Buckets.                  *)
(***************************************************************************)
EXTENDS Integers, Sequences, FiniteSets, SequencesExt

Refused == [refused |-> TRUE]
NotSet == [notSet |-> TRUE]
Stores(v) == [column |-> v]
Ok(put) == "column" \in DOMAIN put

-----------------------------------------------------------------------------
(* Encryption: [alg, key] *)

NoSSE == [alg |-> "", key |-> ""]

\* FileService.SetBucketEncryption; `supports` is what the storage can do.
SetBucketEncryption(rule, supports) ==
    IF /\ rule.alg \in {"AES256", "aws:kms"}
       /\ rule.alg = "AES256" => rule.key = ""
       /\ rule \in supports
    THEN Stores(rule) ELSE Refused

\* S3 reads the first rule of the document, and no other.
putBucketEncryption(rules, supports) ==
    IF \/ rules = <<>>
       \/ rules[1].alg \notin {"AES256", "aws:kms"}
       \/ rules[1].alg = "aws:kms" /\ rules[1].key = ""
    THEN Refused ELSE SetBucketEncryption(rules[1], supports)

\* REST lets the empty algorithm through, for the service to refuse.
PutBucketEncryption(body, supports) ==
    IF \/ body.alg \notin {"", "AES256", "aws:kms"}
       \/ body.alg = "aws:kms" /\ body.key = ""
    THEN Refused ELSE SetBucketEncryption(body, supports)

getBucketEncryption(col) == IF col.alg = "" THEN NotSet ELSE <<col>>

\* A put through either door is shown by S3 as one rule, the one that was
\* put, and putting back what is shown changes nothing; both doors take the
\* same rules.
EncryptionKept(rule, supports) ==
    LET s3 == putBucketEncryption(<<rule>>, supports)
        rest == PutBucketEncryption(rule, supports)
    IN /\ s3 = rest
       /\ Ok(s3) => /\ getBucketEncryption(s3.column) = <<rule>>
                    /\ putBucketEncryption(getBucketEncryption(s3.column), supports) = s3
       /\ getBucketEncryption(NoSSE) = NotSet

-----------------------------------------------------------------------------
(* ACL: a canned name *)

Canned == {"private", "public-read", "public-read-write", "authenticated-read"}

cannedToPolicy(acl) ==
    {[who |-> "owner", perm |-> "FULL_CONTROL"]} \cup
    (CASE acl = "public-read" -> {[who |-> "all", perm |-> "READ"]}
       [] acl = "public-read-write" -> [who : {"all"}, perm : {"READ", "WRITE"}]
       [] acl = "authenticated-read" -> {[who |-> "auth", perm |-> "READ"]}
       [] OTHER -> {})

\* Mutant: writing alone is taken for reading and writing.
CannedByWrite(grants) ==
    LET Given(who, perms) == \E p \in perms : [who |-> who, perm |-> p] \in grants
    IN CASE Given("all", {"WRITE", "FULL_CONTROL"}) -> "public-read-write"
         [] Given("all", {"READ"}) -> "public-read"
         [] Given("auth", {"READ", "FULL_CONTROL"}) -> "authenticated-read"
         [] OTHER -> "private"

\* The nearest canned ACL of a list of grants.
policyToCanned(grants) ==
    LET Given(who, perms) == \E p \in perms : [who |-> who, perm |-> p] \in grants
        read == Given("all", {"READ", "FULL_CONTROL"})
        write == Given("all", {"WRITE", "FULL_CONTROL"})
    IN CASE read /\ write -> "public-read-write"
         [] read -> "public-read"
         [] ~read /\ Given("auth", {"READ", "FULL_CONTROL"}) -> "authenticated-read"
         [] OTHER -> "private"

SetBucketACL(acl) == IF acl \in Canned THEN Stores(acl) ELSE Refused

\* The header wins; without header and body the ACL is private.
putBucketACL(header, grants) ==
    SetBucketACL(IF header # "" THEN header ELSE policyToCanned(grants))

getBucketACL(col) == cannedToPolicy(IF col = "" THEN "private" ELSE col)

\* Every canned ACL survives being shown and put back.  A list of grants is
\* stored as a canned ACL that gives the two groups nothing the list did not
\* give them.
ACLKept(acl, grants) ==
    /\ putBucketACL("", getBucketACL(acl)) = Stores(acl)
    /\ LET got == putBucketACL("", grants).column
       IN \A g \in cannedToPolicy(got) :
             g.who # "owner" => \E h \in grants :
                 h.who = g.who /\ h.perm \in {g.perm, "FULL_CONTROL"}

-----------------------------------------------------------------------------
(* Default retention: seconds *)

Day == 86400

\* S3 says days, without a bound; REST says seconds.
putBucketObjectLock(rule) == Stores(IF rule = NotSet THEN 0 ELSE rule.days * Day)
PutBucketLock(seconds) == IF seconds < 0 THEN Refused ELSE Stores(seconds)

getBucketObjectLock(col) ==
    IF col <= 0 THEN NotSet
    ELSE [days |-> IF col \div Day < 1 THEN 1 ELSE col \div Day]

\* Whole days are kept exactly.  Seconds that REST stored are shown by S3 as
\* a retention exactly when there is one, and putting back what is shown
\* changes it by less than a day.
LockKept(days, seconds) ==
    /\ days > 0 => getBucketObjectLock(putBucketObjectLock([days |-> days]).column)
                     = [days |-> days]
    /\ seconds >= 0 =>
         LET shown == getBucketObjectLock(PutBucketLock(seconds).column)
             again == putBucketObjectLock(shown).column
         IN /\ (shown = NotSet) = (seconds = 0)
            /\ again - seconds < Day /\ seconds - again < Day
            /\ (again > 0) = (seconds > 0)

-----------------------------------------------------------------------------
(* Website: [index, error] *)

NoSite == [index |-> "", error |-> ""]
\* An absent element of the document is "".
putBucketWebsite(doc) == Stores(doc)
PutBucketWebsite(doc) == IF doc.index = "" THEN Refused ELSE Stores(doc)
getBucketWebsite(col) == IF col.index = "" /\ col.error = "" THEN NotSet ELSE col

\* What REST takes S3 shows unchanged; an S3 document is shown unless it says
\* nothing, which is what the deletion stores.
WebsiteKept(doc) ==
    /\ Ok(PutBucketWebsite(doc)) => getBucketWebsite(PutBucketWebsite(doc).column) = doc
    /\ (getBucketWebsite(putBucketWebsite(doc).column) = NotSet) = (doc = NoSite)

-----------------------------------------------------------------------------
(* Tags: a function; the document is a list *)

\* The last of several tags with one key is stored.
putBucketTagging(list) ==
    LET Final(k) == CHOOSE i \in DOMAIN list :
                      list[i].k = k /\ \A j \in DOMAIN list : list[j].k = k => j <= i
    IN Stores([k \in {list[i].k : i \in DOMAIN list} |-> list[Final(k)].v])

\* The order of the shown tags is the map's, which is any.
getBucketTagging(col) ==
    IF DOMAIN col = {} THEN NotSet ELSE {[k |-> k, v |-> col[k]] : k \in DOMAIN col}

\* Every key that was put is shown once, with the value it was given last,
\* whatever order the list is put back in.
TagsKept(list) ==
    LET col == putBucketTagging(list).column
        shown == getBucketTagging(col)
    IN IF list = <<>> THEN shown = NotSet
       ELSE /\ {t.k : t \in shown} = {list[i].k : i \in DOMAIN list}
            /\ list[Len(list)] \in shown
            /\ \A again \in SetToSeqs(shown) : putBucketTagging(again).column = col

-----------------------------------------------------------------------------
(* Logging: [target, prefix], and transfer acceleration *)

NoLogging == [target |-> "", prefix |-> ""]
\* A put without a target is the deletion, through both doors.
putBucketLogging(doc) == Stores(IF doc.target = "" THEN NoLogging ELSE doc)
PutBucketLogging(body) == Stores(IF body.target = "" THEN NoLogging ELSE body)
\* S3 leaves the element empty; the repository reports Enabled = target # "".
getBucketLogging(col) == IF col.target # "" THEN col ELSE NoLogging

putBucketAccelerate(status) ==
    IF status \in {"Enabled", "Suspended"} THEN Stores(status) ELSE Refused
getBucketAccelerate(col) == IF col = "" THEN "Suspended" ELSE col

\* Both doors store the same, and showing and putting back changes neither
\* the logging nor an acceleration that was ever set.
LoggingKept(doc, status) ==
    /\ putBucketLogging(doc) = PutBucketLogging(doc)
    /\ LET col == putBucketLogging(doc).column
       IN putBucketLogging(getBucketLogging(col)).column = col
    /\ Ok(putBucketAccelerate(status)) => getBucketAccelerate(status) = status
    /\ Ok(putBucketAccelerate(getBucketAccelerate("")))

-----------------------------------------------------------------------------
(* Notifications: a list of [id, queue, topic, lambda, key] *)

Rule(id, kind, arn, key) ==
    [id |-> id, queue |-> IF kind = "queue" THEN arn ELSE "",
     topic |-> IF kind = "topic" THEN arn ELSE "",
     lambda |-> IF kind = "lambda" THEN arn ELSE "", key |-> key]

\* The stored key is the value of the filter's rule, be the rule a prefix or
\* a suffix; it is shown as a prefix.
filterKey(filter) == IF filter = NotSet THEN "" ELSE filter.value
filterFromKey(key) == IF key = "" THEN NotSet ELSE [name |-> "prefix", value |-> key]

\* S3's document has three lists; they are stored topics first.
putBucketNotifications(doc) ==
    LET Of(kind) == [i \in DOMAIN doc[kind] |->
                       Rule(doc[kind][i].id, kind, doc[kind][i].arn, filterKey(doc[kind][i].filter))]
    IN Stores(Of("topic") \o Of("queue") \o Of("lambda"))

PutBucketNotifications(rules) == Stores(rules)

\* A rule is shown in the first list it has a target for, else nowhere.
getBucketNotifications(col) ==
    LET Kind(r) == CASE r.queue # "" -> "queue" [] r.topic # "" -> "topic"
                     [] r.lambda # "" -> "lambda" [] OTHER -> "none"
        Listed(kind) ==
            LET mine == SelectSeq(col, LAMBDA r : Kind(r) = kind)
            IN [i \in DOMAIN mine |-> [id |-> mine[i].id, arn |-> mine[i][kind],
                                       filter |-> filterFromKey(mine[i].key)]]
    IN [kind \in {"topic", "queue", "lambda"} |-> Listed(kind)]

\* Showing and putting back keeps every rule that names exactly one target,
\* with its filter, and adds none; the rules that S3 stored it keeps in order.
NotificationsKept(rules) ==
    LET again == putBucketNotifications(getBucketNotifications(rules)).column
        Targets(r) == {k \in {"queue", "topic", "lambda"} : r[k] # ""}
    IN /\ {r \in ToSet(rules) : Cardinality(Targets(r)) = 1}
            = ToSet(again) \cap ToSet(rules)
       /\ Len(again) = Len(SelectSeq(rules, LAMBDA r : Targets(r) # {}))
       /\ putBucketNotifications(getBucketNotifications(again)).column = again

-----------------------------------------------------------------------------
(* CORS, policy, versioning: the column is the document *)

\* The rules are copied field by field; a rule here is [origins, methods].
putBucketCORS(doc) == Stores([i \in DOMAIN doc |->
                         [origins |-> doc[i].origins, methods |-> doc[i].methods]])
getBucketCORS(col) == [i \in DOMAIN col |->
                         [origins |-> col[i].origins, methods |-> col[i].methods]]

\* "" clears the policy, and is what the deletion puts.
SetBucketPolicy(text, parses) == IF text # "" /\ ~parses THEN Refused ELSE Stores(text)
getBucketPolicy(col) == IF col = "" THEN NotSet ELSE [text |-> col]

putBucketVersioning(status) == Stores(status = "Enabled")
getBucketVersioning(col) == IF col THEN "Enabled" ELSE ""

\* What was put is what is shown: the rules in their order, a policy that
\* parses until it is cleared, and versioning, where everything but "Enabled"
\* is off.
DocumentsKept(rules, text, parses, status) ==
    /\ getBucketCORS(putBucketCORS(rules).column) = rules
    /\ LET put == SetBucketPolicy(text, parses)
       IN Ok(put) => getBucketPolicy(put.column) = IF text = "" THEN NotSet ELSE [text |-> text]
    /\ (getBucketVersioning(putBucketVersioning(status).column) = "Enabled")
          = (status = "Enabled")
=============================================================================
