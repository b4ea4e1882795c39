------------------------------- MODULE Access -------------------------------
(***************************************************************************)
(* Access control of one tenant: departments, ACL entries, share links and *)
(* public assets, the decision access.Manager takes from them, and the     *)
(* REST handlers that read one of these tables and write it later.         *)
(*                                                                         *)
(* A request is a process: every call it makes on the store is a step of   *)
(* its own, so what it read may be stale when it writes.  Identifiers that *)
(* the code draws at random are never drawn twice.  An object is known by  *)
(* its birth: a key that is deleted and uploaded again holds a new one.    *)
(* Passwords, names, cache headers and expiry times are left out; expiry   *)
(* is an event.                                                            *)
(***************************************************************************)
EXTENDS Naturals, FiniteSets, Sequences

CONSTANTS
    Principals,         \* records [subject, kind, tenant, roles, groups, scopes]
    Tenant,
    Buckets, Keys,
    FoldersOf,          \* key -> the folder keys that are prefixes of it
    BoundBuckets,       \* the buckets a space is bound to
    ParentOf,           \* department -> its parent, or NoDept
    NoDept, Joiners,    \* the subjects that join departments
    Targets,            \* the natural keys of ACL entries that requests use
    Slugs, MaxUses, MaxBirths,
    Requests,
    Plans,              \* [ops, env]: what the requests ask for, and what else happens
    DefaultPolicy, DeleteFailOpen, AccessEnabled

VARIABLES
    objs,      \* bucket, key -> [born, owner]; born = 0: no row
    births,    \* the births so far
    status,    \* tenants.status
    depts,     \* departments
    members,   \* department_members: <<department, subject>>
    acls,      \* resource_acls by their unique natural key
    shares,    \* shares by id, the id of the request that creates them
    assets,    \* public_assets by slug
    req,       \* the requests
    plan       \* the plan of this behaviour

accessVars == <<objs, births, status, depts, members, acls, shares, assets, req, plan>>

Objects == Buckets \X Keys
NoObject == [born |-> 0, owner |-> ""]
NoRow == [id |-> 0]
Exists(o) == objs[o].born > 0

-----------------------------------------------------------------------------
(* The decision.                                                           *)

CheckBucket(bucket) == bucket \notin BoundBuckets /\ status = "active"

tenantMatches(p) == p.tenant \in {"*", Tenant}
isDeleteAction(action) == action \in {"delete", "admin_delete"}
isAdministrator(p) ==
    \/ p.tenant = "*"
    \/ "admin" \in p.scopes
    \/ p.roles \cap {"vault.tenant_admin", "vault.file_admin"} # {}

actionMatches(granted, wanted) ==
    \/ granted \in {"*", wanted}
    \/ wanted = "admin_delete" /\ granted = "delete"
    \/ wanted \in {"preview", "download"} /\ granted = "read"

\* A department grants to its members and to those of the departments below.
Above[d \in DOMAIN ParentOf] == {d} \cup IF ParentOf[d] = NoDept THEN {} ELSE Above[ParentOf[d]]
ListSubjectDepartments(subject) == UNION {Above[m[1]] : m \in {n \in members : n[2] = subject}}

principalMatches(e, p) ==
    \/ e.ptype = "everyone"
    \/ e.ptype = "authenticated" /\ p.kind \notin {"anonymous", "public_asset", "share"}
    \/ e.ptype = "user" /\ e.pid = p.subject
    \/ e.ptype = "department" /\ e.pid \in ListSubjectDepartments(p.subject)
    \/ e.ptype = "group" /\ e.pid \in p.groups
    \/ e.ptype = "role" /\ e.pid \in p.roles

ListApplicableACL(bucket, key) ==
    {e \in DOMAIN acls :
        /\ e.bucket = bucket
        /\ \/ e.kind = "bucket"
           \/ e.kind = "object" /\ e.key = key
           \/ e.kind = "folder" /\ (e.key = key \/ (acls[e].inherit /\ e.key \in FoldersOf[key]))}

matchingEntries(entries, p, action) ==
    {e \in entries : actionMatches(e.action, action) /\ principalMatches(e, p)}
hasEffect(entries, effect) == \E e \in entries : acls[e].effect = effect

capabilityAllows(p, r, action) ==
    /\ p.kind \in {"share", "public_asset"}
    /\ <<p.bucket, p.key>> = <<r.bucket, r.key>>
    /\ \E granted \in p.actions : actionMatches(granted, action)

PermissionVaultFileDelete == "vault.file.delete"
hasExplicitDeleteGrant(p, matching, actions) ==
    \/ PermissionVaultFileDelete \in p.scopes \cup p.roles
    \/ \E e \in matching : acls[e].effect = "allow" /\ e.action \in actions

authorizeDelete(p, action, r, matching) ==
    /\ ~hasEffect(matching, "deny")
    /\ IF action = "admin_delete"
       THEN \/ capabilityAllows(p, r, action)
            \/ hasExplicitDeleteGrant(p, matching, {"delete", "admin_delete"})
            \/ isAdministrator(p)
       ELSE hasExplicitDeleteGrant(p, matching, {"delete"})

IsRead(action) == action \in {"list", "read", "preview", "download", "export"}
Publishers == {"vault.publisher", "vault.publisher_admin"}
scopeAllows(p, action) ==
    \/ "admin" \in p.scopes
    \/ action = "share" /\ "share" \in p.scopes
    \/ action = "publish" /\ ("publish" \in p.scopes \/ p.roles \cap Publishers # {})
    \/ /\ action \notin {"manage_acl", "share", "publish"}
       /\ \/ (IF IsRead(action) THEN "read" ELSE "write") \in p.scopes
          \/ IsRead(action) /\ "vault.member" \in p.roles
          \/ p.roles \cap Publishers # {}

authorizeDefault(p, action, entries) ==
    entries = {} /\ DefaultPolicy = "tenant" /\ scopeAllows(p, action)

authorizeMatching(p, action, r, entries, matching) ==
    IF isDeleteAction(action) THEN authorizeDelete(p, action, r, matching)
    ELSE /\ ~hasEffect(matching, "deny")
         /\ \/ hasEffect(matching, "allow")
            \/ capabilityAllows(p, r, action)
            \/ p.subject = r.owner
            \/ isAdministrator(p)
            \/ authorizeDefault(p, action, entries)

Authorize(p, action, r) ==
    /\ CheckBucket(r.bucket)
    /\ \/ p.kind = "system"
       \/ ~AccessEnabled /\ (isDeleteAction(action) => DeleteFailOpen)
       \/ /\ AccessEnabled /\ p.subject # "" /\ tenantMatches(p)
          /\ LET entries == ListApplicableACL(r.bucket, r.key)
             IN  authorizeMatching(p, action, r, entries, matchingEntries(entries, p, action))

ObjectOwner(o) == objs[o].owner
Resource(o, owner) == [bucket |-> o[1], key |-> o[2], owner |-> owner]
Stat(p, o) == Exists(o) /\ Authorize(p, "read", Resource(o, ObjectOwner(o)))

-----------------------------------------------------------------------------
(* Requests.  A request starts with its operation, caller and target; a    *)
(* failure ends it with no more to do.  "late" is history: the object it   *)
(* looked at was deleted while it ran.                                     *)

NoRequest == [at |-> "new"]
Start(q, op, p, on) ==
    /\ req[q] = NoRequest
    /\ req' = [req EXCEPT ![q] =
                 [op |-> op, at |-> "start", who |-> p, on |-> on,
                  born |-> 0, owner |-> "", seen |-> NoRow, late |-> FALSE]]
    /\ UNCHANGED <<objs, births, status, depts, members, acls, shares, assets>>

Begin(q) ==
    \E p \in Principals :
      LET op == plan.ops[q] IN
        \/ op \in {"put", "delete", "share"} /\ \E o \in Objects : Start(q, op, p, o)
        \/ op = "publish" /\ \E o \in Objects, s \in Slugs : Start(q, op, p, <<o[1], o[2], s>>)
        \/ op \in {"putacl", "delacl"} /\ \E t \in Targets : Start(q, op, p, t)
        \/ op \in {"open", "revoke"} /\ \E s \in DOMAIN shares : Start(q, op, p, s)
        \/ op \in {"asset", "unpublish"} /\ \E s \in DOMAIN assets : Start(q, op, p, s)

At(q, op, at) == req[q].at = at /\ req[q].op = op
Goto(q, at) == req' = [req EXCEPT ![q].at = at]
Fail(q) == Goto(q, "done") /\ UNCHANGED <<objs, births, status, depts, members, acls, shares, assets>>
Rows == <<objs, births, status, depts, members>>
Tables == <<acls, shares, assets>>
Require(q, action, r, next) ==
    IF Authorize(req[q].who, action, r) THEN Goto(q, next) /\ UNCHANGED <<Rows, Tables>> ELSE Fail(q)
Add(f, k, v) == [x \in DOMAIN f \cup {k} |-> IF x = k THEN v ELSE f[x]]
Without(f, S) == [x \in DOMAIN f \ S |-> f[x]]

\* Handler.CreateShare and Handler.PublishAsset look at the object first.
Target(q) == <<req[q].on[1], req[q].on[2]>>
HandlerStat(q) ==
    /\ At(q, "share", "start") \/ At(q, "publish", "start")
    /\ IF ~Stat(req[q].who, Target(q)) THEN Fail(q)
       ELSE /\ req' = [req EXCEPT ![q].at = "found", ![q].born = objs[Target(q)].born,
                                  ![q].owner = ObjectOwner(Target(q))]
            /\ UNCHANGED <<Rows, Tables>>

\* Manager.CreateShare: authorised for the owner found, then inserted.
CreateShare(q) ==
    At(q, "share", "found") /\ Require(q, "share", Resource(Target(q), req[q].owner), "granted")
InsertShare(q) ==
    /\ At(q, "share", "granted") /\ Goto(q, "done")
    /\ shares' = Add(shares, q,
                     [on |-> Target(q), by |-> req[q].who.subject, owner |-> req[q].owner, uses |-> 0,
                      live |-> TRUE, born |-> req[q].born, late |-> req[q].late, served |-> 0])
    /\ UNCHANGED <<Rows, acls, assets>>

\* Manager.PublishAsset keeps the id of a row the slug already has.
PublishAsset(q) ==
    At(q, "publish", "found") /\ Require(q, "publish", Resource(Target(q), req[q].owner), "granted")
reusePublicAssetID(q) ==
    LET slug == req[q].on[3] row == assets[slug] IN
    /\ At(q, "publish", "granted")
    /\ IF slug \notin DOMAIN assets THEN Goto(q, "write") /\ UNCHANGED <<Rows, Tables>>
       ELSE IF /\ CheckBucket(row.on[1])
               /\ \/ row.by = req[q].who.subject
                  \/ Authorize(req[q].who, "publish", Resource(row.on, row.owner))
       THEN /\ req' = [req EXCEPT ![q].at = "write", ![q].seen = [id |-> row.id]]
            /\ UNCHANGED <<Rows, Tables>>
       ELSE Fail(q)
\* An upsert on the id: an update keeps the row's bucket.  A row with the
\* slug and another id makes the insert fail.
PutPublicAsset(q) ==
    LET slug == req[q].on[3]
        mine == req[q].seen.id
        held == slug \in DOMAIN assets
        new == [id |-> IF mine = 0 THEN q ELSE mine, on |-> Target(q), by |-> req[q].who.subject,
                owner |-> req[q].owner, born |-> req[q].born, late |-> req[q].late]
    IN
    /\ At(q, "publish", "write")
    /\ IF held /\ assets[slug].id # mine THEN Fail(q)
       ELSE /\ Goto(q, "done")
            /\ assets' = Add(assets, slug,
                             IF held THEN [new EXCEPT !.on = <<assets[slug].on[1], Target(q)[2]>>] ELSE new)
            /\ UNCHANGED <<Rows, acls, shares>>

-----------------------------------------------------------------------------
(* ACL entries.                                                            *)

AclOwner(q) == IF req[q].on.kind = "object" /\ Stat(req[q].who, <<req[q].on.bucket, req[q].on.key>>)
               THEN ObjectOwner(<<req[q].on.bucket, req[q].on.key>>) ELSE ""
AclResource(t, owner) == [bucket |-> t.bucket, key |-> t.key, owner |-> owner]
validateACLPrincipal(t) == t.ptype = "department" => t.pid \in depts
authorizeACLWrite(q) ==
    /\ At(q, "putacl", "start")
    /\ IF validateACLPrincipal(req[q].on)
       THEN Require(q, "manage_acl", AclResource(req[q].on, AclOwner(q)), "granted") ELSE Fail(q)
findMatchingACL(q) ==
    /\ At(q, "putacl", "granted")
    /\ req' = [req EXCEPT ![q].at = "write",
                          ![q].seen = IF req[q].on \in DOMAIN acls THEN [id |-> acls[req[q].on].id] ELSE NoRow]
    /\ UNCHANGED <<Rows, Tables>>
\* An upsert on the id; another row with the natural key makes it fail.
PutACLEntry(q) ==
    LET t == req[q].on  mine == req[q].seen.id  held == t \in DOMAIN acls IN
    /\ At(q, "putacl", "write")
    /\ IF held /\ acls[t].id # mine THEN Fail(q)
       ELSE /\ Goto(q, "done")
            /\ \E effect \in {"allow", "deny"} :
                  acls' = Add(acls, t, [id |-> IF mine = 0 THEN q ELSE mine, effect |-> effect,
                                        inherit |-> TRUE, late |-> req[q].late,
                                        by |-> IF held THEN acls[t].by ELSE req[q].who.subject])
            /\ UNCHANGED <<Rows, shares, assets>>

\* DeleteACL, RevokeShare, UnpublishAsset: the row is read, its creator may
\* remove it, anyone else needs the permission.
MayRemove(q, row, action, r) ==
    CheckBucket(r.bucket) /\ (row.by = req[q].who.subject \/ Authorize(req[q].who, action, r))
Removes(q, op, held, row, action, r) ==
    /\ At(q, op, "start")
    /\ IF held /\ MayRemove(q, row, action, r)
       THEN req' = [req EXCEPT ![q].at = "granted", ![q].seen = [id |-> row.id]] /\ UNCHANGED <<Rows, Tables>>
       ELSE Fail(q)
GetACLEntry(q) ==
    LET t == req[q].on IN
    /\ req[q].op = "delacl"
    /\ Removes(q, "delacl", t \in DOMAIN acls, acls[t], "manage_acl", AclResource(t, ""))
DeleteACLEntry(q) ==
    LET t == req[q].on IN
    /\ At(q, "delacl", "granted") /\ Goto(q, "done")
    /\ acls' = IF t \in DOMAIN acls /\ acls[t].id = req[q].seen.id THEN Without(acls, {t}) ELSE acls
    /\ UNCHANGED <<Rows, shares, assets>>
GetShare(q) ==
    LET s == req[q].on row == shares[s] IN
    /\ req[q].op = "revoke"
    /\ Removes(q, "revoke", s \in DOMAIN shares,
               [id |-> s, by |-> row.by], "share", Resource(row.on, row.owner))
RevokeShare(q) ==
    LET s == req[q].on IN
    /\ At(q, "revoke", "granted") /\ Goto(q, "done")
    /\ shares' = IF s \in DOMAIN shares THEN [shares EXCEPT ![s].live = FALSE] ELSE shares
    /\ UNCHANGED <<Rows, acls, assets>>
GetPublicAsset(q) ==
    LET s == req[q].on row == assets[s] IN
    /\ req[q].op = "unpublish"
    /\ Removes(q, "unpublish", s \in DOMAIN assets, row, "publish", Resource(row.on, row.owner))
DeletePublicAsset(q) ==
    /\ At(q, "unpublish", "granted") /\ Goto(q, "done")
    /\ assets' = Without(assets, {req[q].on})
    /\ UNCHANGED <<Rows, acls, shares>>

-----------------------------------------------------------------------------
(* Opening a share link or a public asset: PublicAccessHandler.            *)

validateShare(s) == s \in DOMAIN shares /\ shares[s].live /\ shares[s].uses < MaxUses
CapabilityPrincipal(kind, id, on) ==
    [subject |-> <<kind, id>>, kind |-> kind, tenant |-> Tenant, roles |-> {}, groups |-> {}, scopes |-> {},
     bucket |-> on[1], key |-> on[2], actions |-> {"read", "preview", "download"}]
\* Without consuming, an unavailable tenant is left for the service to report.
checkCapabilityTarget(bucket) == bucket \notin BoundBuckets
ResolveShare(q) ==
    LET s == req[q].on IN
    /\ At(q, "open", "start")
    /\ IF validateShare(s) /\ checkCapabilityTarget(shares[s].on[1])
       THEN /\ req' = [req EXCEPT ![q].at = "resolved",
                                  ![q].who = CapabilityPrincipal("share", s, shares[s].on)]
            /\ UNCHANGED <<Rows, Tables>>
       ELSE Fail(q)
ResolvePublicAsset(q) ==
    LET s == req[q].on IN
    /\ At(q, "asset", "start")
    /\ IF s \in DOMAIN assets /\ checkCapabilityTarget(assets[s].on[1])
       THEN /\ req' = [req EXCEPT ![q].at = "resolved",
                                  ![q].who = CapabilityPrincipal("public_asset", s, assets[s].on)]
            /\ UNCHANGED <<Rows, Tables>>
       ELSE Fail(q)
Opened(q) == <<req[q].who.bucket, req[q].who.key>>
\* Stat as the capability; HEAD, 304 and a bad range end here.
serveObject(q) ==
    /\ req[q].at = "resolved"
    /\ IF Stat(req[q].who, Opened(q))
       THEN /\ \E next \in {"found", "done"} :
                  req' = [req EXCEPT ![q].at = IF next = "found" /\ req[q].op = "asset" THEN "consumed" ELSE next]
            /\ UNCHANGED <<Rows, Tables>>
       ELSE Fail(q)
\* beforeRead: the share is validated again and one use is taken.
ConsumeShare(q) ==
    LET s == req[q].on IN
    /\ At(q, "open", "found")
    /\ IF validateShare(s) /\ CheckBucket(shares[s].on[1])
       THEN /\ Goto(q, "consumed")
            /\ shares' = [shares EXCEPT ![s].uses = @ + 1]
            /\ UNCHANGED <<Rows, acls, assets>>
       ELSE Fail(q)
publicReader(q) ==
    LET s == req[q].on IN
    /\ req[q].at = "consumed" /\ Goto(q, "done")
    /\ shares' = IF req[q].op = "open" /\ s \in DOMAIN shares /\ Stat(req[q].who, Opened(q))
                 THEN [shares EXCEPT ![s].served = @ + 1] ELSE shares
    /\ UNCHANGED <<Rows, acls, assets>>

-----------------------------------------------------------------------------
(* Objects, departments, tenant status.                                    *)

\* preparePutAccess, then the row: the owner is the one decided before.
ownerForPrincipal(p) == IF p.kind \in {"user", "service"} THEN p.subject ELSE ""
preparePutAccess(q) ==
    LET o == req[q].on p == req[q].who IN
    /\ At(q, "put", "start")
    /\ IF Exists(o) /\ Authorize(p, "write", Resource(o, ObjectOwner(o)))
       THEN req' = [req EXCEPT ![q].at = "write", ![q].owner = ObjectOwner(o)] /\ UNCHANGED <<Rows, Tables>>
       ELSE IF ~Exists(o) /\ Authorize(p, "create", Resource(o, ""))
       THEN req' = [req EXCEPT ![q].at = "write", ![q].owner = ownerForPrincipal(p)] /\ UNCHANGED <<Rows, Tables>>
       ELSE Fail(q)
PutObject(q) ==
    LET o == req[q].on IN
    /\ At(q, "put", "write") /\ Goto(q, "done")
    /\ births < MaxBirths \/ Exists(o)
    /\ births' = IF Exists(o) THEN births ELSE births + 1
    /\ objs' = [objs EXCEPT ![o] = [born |-> IF Exists(o) THEN @.born ELSE births + 1, owner |-> req[q].owner]]
    /\ UNCHANGED <<status, depts, members, Tables>>

DeleteAllowed(q) ==
    /\ At(q, "delete", "start")
    /\ IF Exists(req[q].on)
       THEN Require(q, "delete", Resource(req[q].on, ObjectOwner(req[q].on)), "write") ELSE Fail(q)
\* deleteObjectAccessState, in the transaction of the delete.
KeptShares(o) == Without(shares, {s \in DOMAIN shares : shares[s].on = o})
SoftDeleteObject(q) ==
    LET o == req[q].on IN
    /\ At(q, "delete", "write")
    /\ IF ~Exists(o) THEN Fail(q)
       ELSE /\ objs' = [objs EXCEPT ![o] = NoObject]
            /\ shares' = KeptShares(o)
            /\ assets' = Without(assets, {s \in DOMAIN assets : assets[s].on = o})
            /\ acls' = Without(acls, {e \in DOMAIN acls :
                                         e.kind = "object" /\ <<e.bucket, e.key>> = o})
            /\ req' = [r \in Requests |->
                          IF r = q THEN [req[r] EXCEPT !.at = "done"]
                          ELSE IF req[r] = NoRequest \/ req[r].at = "done" THEN req[r]
                          ELSE [req[r] EXCEPT !.late = TRUE]]
            /\ UNCHANGED <<births, status, depts, members>>

DeleteDepartment(d) ==
    LET tree == {e \in depts : d \in Above[e]} IN
    /\ d \in depts
    /\ depts' = depts \ tree
    /\ members' = {m \in members : m[1] \notin tree}
    /\ acls' = Without(acls, {e \in DOMAIN acls : e.ptype = "department" /\ e.pid \in tree})
    /\ UNCHANGED <<objs, births, status, shares, assets, req>>
PutDepartmentMember(d, subject) ==
    /\ d \in depts
    /\ members' = members \cup {<<d, subject>>}
    /\ UNCHANGED <<objs, births, status, depts, Tables, req>>
DeleteDepartmentMember(m) ==
    /\ m \in members /\ members' = members \ {m}
    /\ UNCHANGED <<objs, births, status, depts, Tables, req>>
SetTenantStatus ==
    /\ status' = IF status = "active" THEN "disabled" ELSE "active"
    /\ UNCHANGED <<objs, births, depts, members, Tables, req>>
ShareExpires(s) ==
    /\ shares[s].live /\ shares' = [shares EXCEPT ![s].live = FALSE]
    /\ UNCHANGED <<Rows, acls, assets, req>>

-----------------------------------------------------------------------------
Init ==
    /\ births = 1 /\ status = "active"
    /\ \E o \in Objects, p \in Principals :
          objs = [x \in Objects |-> IF x = o THEN [born |-> 1, owner |-> ownerForPrincipal(p)] ELSE NoObject]
    /\ depts = DOMAIN ParentOf /\ members = {}
    /\ acls = [t \in {} |-> NoRow] /\ shares = [s \in {} |-> NoRow] /\ assets = [s \in {} |-> NoRow]
    /\ req = [q \in Requests |-> NoRequest]
    /\ plan \in Plans

Works(q) ==
    /\ req[q] # NoRequest
    /\ \/ HandlerStat(q) \/ CreateShare(q) \/ InsertShare(q)
       \/ PublishAsset(q) \/ reusePublicAssetID(q) \/ PutPublicAsset(q)
       \/ authorizeACLWrite(q) \/ findMatchingACL(q) \/ PutACLEntry(q)
       \/ GetACLEntry(q) \/ DeleteACLEntry(q) \/ GetShare(q) \/ RevokeShare(q)
       \/ GetPublicAsset(q) \/ DeletePublicAsset(q)
       \/ ResolveShare(q) \/ ResolvePublicAsset(q) \/ serveObject(q) \/ ConsumeShare(q) \/ publicReader(q)
       \/ preparePutAccess(q) \/ PutObject(q) \/ DeleteAllowed(q) \/ SoftDeleteObject(q)

Next ==
    /\ UNCHANGED plan
    /\ \/ \E q \in Requests : Begin(q) \/ Works(q)
       \/ /\ "directory" \in plan.env
          /\ \/ \E d \in DOMAIN ParentOf :
                  DeleteDepartment(d) \/ \E j \in Joiners : PutDepartmentMember(d, j)
             \/ \E m \in members : DeleteDepartmentMember(m)
       \/ "status" \in plan.env /\ SetTenantStatus
       \/ "expiry" \in plan.env /\ \E s \in DOMAIN shares : ShareExpires(s)

-----------------------------------------------------------------------------
TypeOK ==
    /\ births \in 1..MaxBirths /\ status \in {"active", "disabled"}
    /\ depts \subseteq DOMAIN ParentOf /\ members \subseteq depts \X Joiners
    /\ DOMAIN acls \subseteq Targets /\ DOMAIN shares \subseteq Requests /\ DOMAIN assets \subseteq Slugs
    /\ \A o \in Objects : objs[o].born \in 0..births

\* A use-limited link is never served more often than its limit, however
\* many visitors validate it at the same time: ConsumeShare.
UsesBounded == \A s \in DOMAIN shares : shares[s].served <= shares[s].uses /\ shares[s].uses <= MaxUses

\* A share outlives the object it was made for only when the request that
\* made it was already running when the object was deleted: the delete
\* removes every row there is in its own transaction.
LeftoversOverlap ==
    \A s \in DOMAIN shares : shares[s].born = objs[shares[s].on].born \/ shares[s].late

\* An entry for a department matches through departments that exist: a
\* delete takes the whole subtree, its memberships and its entries.
DepartmentsResolve == \A j \in Joiners : ListSubjectDepartments(j) \subseteq depts

\* A deny entry that applies beats ownership, roles, capabilities and the
\* tenant default; a plain delete needs a grant of its own.
DenyWins ==
    \A p \in Principals, o \in Objects, action \in {"read", "download", "delete", "admin_delete"} :
        LET matching == matchingEntries(ListApplicableACL(o[1], o[2]), p, action) IN
        Authorize(p, action, Resource(o, ObjectOwner(o))) =>
            /\ ~hasEffect(matching, "deny")
            /\ action = "delete" =>
                  \/ PermissionVaultFileDelete \in p.scopes \cup p.roles
                  \/ \E e \in matching : e.action = "delete"

\* docs/api.md:518-519: "an old capability can never expose a newly uploaded
\* object".
OldSharesGone == \A s \in DOMAIN shares : objs[shares[s].on].born \in {0, shares[s].born}

=============================================================================
