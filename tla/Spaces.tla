------------------------------- MODULE Spaces -------------------------------
(***************************************************************************)
(* Spaces, their members and their history (internal/repository/           *)
(* sql_spaces*.go, internal/spaces), and the boundary that keeps ordinary  *)
(* resource code out of a bucket that backs a space                        *)
(* (internal/access/resource_boundary.go, internal/service/                *)
(* space_boundary.go).                                                     *)
(*                                                                         *)
(* One tenant.  A client issues one command, and again after a commit      *)
(* whose outcome it could not learn; it reads the revision it expects      *)
(* before each attempt.  The row lock that the compare-and-swap on         *)
(* spaces.revision takes serialises the commands of a space, so a command  *)
(* is one step; the reads of a paged listing, and the two coverage checks  *)
(* around a tenant-wide listing, are steps of their own.                   *)
(***************************************************************************)
EXTENDS Naturals, Sequences, FiniteSets

CONSTANTS SpaceIds,     \* spaces; the bucket of space s is s itself
          Subjects,     \* 1 .. n: the order of the member listing
          Users,        \* the subjects of kind user; the others are services
          Clients,
          Command,      \* [Clients -> command]
          MaxTries,     \* [Clients -> Nat]: attempts
          PageLimit,    \* page size of the listings
          NoMember      \* no space_members row

VARIABLES tenant,    \* the tenant's status
          spaces,    \* [SpaceIds -> [revision, kind, owner]], revision 0: none
          buckets,   \* names in the bucket table
          members,   \* [SpaceIds -> [Subjects -> row or NoMember]]
          history,   \* [SpaceIds -> sequence of history rows]
          client,    \* [Clients -> [at, expects, tries]]
          pager,     \* a paged reading of members and history
          lister,    \* a tenant-wide listing between its coverage checks
          bystander  \* who acts beside the clients: one of Bystanders

spacesVars == <<tenant, spaces, buckets, members, history, client, pager, lister, bystander>>

Bystanders == {"operator", "pager", "lister"}

Exists(s) == spaces[s].revision > 0

Init ==
    /\ tenant = "active"
    /\ spaces = [s \in SpaceIds |-> [revision |-> 0, kind |-> "none", owner |-> 0]]
    /\ buckets = {}
    /\ members = [s \in SpaceIds |-> [u \in Subjects |-> NoMember]]
    /\ history = [s \in SpaceIds |-> <<>>]
    /\ client = [c \in Clients |-> [at |-> "read", expects |-> 0, tries |-> 0]]
    /\ pager = [space |-> CHOOSE s \in SpaceIds : TRUE, at |-> "members", seen |-> <<>>,
                floor |-> {}, log |-> <<>>]
    /\ lister = [at |-> "before", got |-> {}]
    /\ bystander \in Bystanders

-----------------------------------------------------------------------------

(* ValidateMemberCommand, ValidateCreate: a revoke names no role, the      *)
(* creator is a user.                                                      *)
ValidCommand(c) ==
    CASE c.action = "create" -> c.actor \in Users /\ c.kind \in {"personal", "team"}
      [] c.action = "revoke" -> c.role = ""
      [] OTHER -> c.role \in {"viewer", "editor", "admin"}

(* space_history_command_uq: a command id is recorded once per tenant.     *)
Recorded(id) == \E s \in SpaceIds : \E i \in 1 .. Len(history[s]) : history[s][i].id = id

HistoryRow(c, before, after, rev) ==
    [id |-> c.id, target |-> IF c.action = "create" THEN c.actor ELSE c.target,
     after |-> after, before |-> before, revision |-> rev]

Member(role, state, rev) == [role |-> role, state |-> state, changed |-> rev]

(* spaceCreateRows: bucket, root, first admin and history, one unit; a     *)
(* duplicate id, bucket, personal space or command rolls it all back.      *)
CreateAllowed(c) ==
    /\ ValidCommand(c)
    /\ tenant = "active"
    /\ c.space \notin buckets
    /\ ~Exists(c.space)
    /\ c.kind = "personal" =>
          \A s \in SpaceIds : ~(spaces[s].kind = "personal" /\ spaces[s].owner = c.actor)
    /\ ~Recorded(c.id)

CreateSpace(c) ==
    /\ spaces' = [spaces EXCEPT ![c.space] = [revision |-> 1, kind |-> c.kind, owner |-> c.actor]]
    /\ buckets' = buckets \cup {c.space}
    /\ members' = [members EXCEPT ![c.space][c.actor] = Member("admin", "active", 1)]
    /\ history' = [history EXCEPT ![c.space] =
                      <<HistoryRow(c, NoMember, Member("admin", "active", 1), 1)>>]

(* spaceMemberState: which actions the member's state admits.              *)
spaceMemberState(c, before) ==
    CASE c.action = "add" -> before = NoMember
      [] c.action = "reactivate" -> before # NoMember /\ before.state = "revoked"
      [] c.action = "revoke" -> before # NoMember /\ before.state = "active"
      [] OTHER -> before # NoMember /\ before.state = "active" /\ before.role # c.role

(* spaceMemberAfter *)
spaceMemberAfter(c, before, expected) ==
    IF c.action = "revoke" THEN Member(before.role, "revoked", expected + 1)
    ELSE Member(c.role, "active", expected + 1)

IsAdmin(u, m) == u \in Users /\ m # NoMember /\ m.state = "active" /\ m.role = "admin"

Admins(s) == {u \in Subjects : IsAdmin(u, members[s][u])}

(* Mutant: the protection counts every admin row, revoked ones and those   *)
(* of services included.                                                   *)
ProtectAnyAdmin(s, u, before, after) ==
    IsAdmin(u, before) /\ ~IsAdmin(u, after) =>
        Cardinality({v \in Subjects : members[s][v] # NoMember /\ members[s][v].role = "admin"}) > 1

(* spaceProtectAdmin: the last active user admin cannot step down; the     *)
(* count is taken in the command's transaction.                            *)
spaceProtectAdmin(s, u, before, after) ==
    IsAdmin(u, before) /\ ~IsAdmin(u, after) => Cardinality(Admins(s)) > 1

(* Mutant: the update does not compare the revision.                       *)
CASExists(c, expected) == Exists(c.space) /\ expected >= 0

spaceCAS(c, expected) == Exists(c.space) /\ spaces[c.space].revision = expected

(* spaceCAS and spaceChangeMemberRows.                                     *)
ChangeAllowed(c, expected) ==
    LET before == members[c.space][c.target]
        after  == spaceMemberAfter(c, before, expected)
    IN  /\ ValidCommand(c) /\ expected >= 1
        /\ spaceCAS(c, expected)
        /\ tenant = "active"
        /\ spaceMemberState(c, before)
        /\ spaceProtectAdmin(c.space, c.target, before, after)
        /\ ~Recorded(c.id)

ChangeSpaceMember(c, expected) ==
    LET before == members[c.space][c.target]
        after  == spaceMemberAfter(c, before, expected)
    IN  /\ spaces' = [spaces EXCEPT ![c.space].revision = @ + 1]
        /\ members' = [members EXCEPT ![c.space][c.target] = after]
        /\ history' = [history EXCEPT ![c.space] =
                          Append(@, HistoryRow(c, before, after, expected + 1))]
        /\ UNCHANGED buckets

-----------------------------------------------------------------------------

(* GetSpace: spaceRead refuses an inactive tenant.                         *)
GetSpace(k) ==
    /\ client[k].at = "read" /\ tenant = "active"
    /\ client' = [client EXCEPT ![k].at = "send", ![k].expects = spaces[Command[k].space].revision]
    /\ UNCHANGED <<tenant, spaces, buckets, members, history, pager, lister, bystander>>

Allowed(k) == IF Command[k].action = "create" THEN CreateAllowed(Command[k])
              ELSE ChangeAllowed(Command[k], client[k].expects)

Apply(k) == IF Command[k].action = "create" THEN CreateSpace(Command[k])
            ELSE ChangeSpaceMember(Command[k], client[k].expects)

(* The command commits and the client learns it.                           *)
Commit(k) ==
    /\ client[k].at = "send" /\ Allowed(k)
    /\ Apply(k)
    /\ client' = [client EXCEPT ![k].at = "ok", ![k].tries = @ + 1]
    /\ UNCHANGED <<tenant, pager, lister, bystander>>

(* The commit's answer is lost (outcome may be uncertain): the client      *)
(* tries again from a fresh revision.                                      *)
Retries(k) == [client EXCEPT ![k].at = IF client[k].tries + 1 < MaxTries[k] THEN "read" ELSE "unsure",
                             ![k].tries = @ + 1]

CommitUncertain(k) ==
    /\ client[k].at = "send" /\ Allowed(k)
    /\ Apply(k)
    /\ client' = Retries(k)
    /\ UNCHANGED <<tenant, pager, lister, bystander>>

(* The transaction rolls back: a connection or serialization failure       *)
(* (spaceSQLError: concurrent, persistence), which the client retries, or  *)
(* a domain error.                                                         *)
RolledBack(k) ==
    /\ client[k].at = "send"
    /\ client' = IF Allowed(k) THEN Retries(k)
                 ELSE [client EXCEPT ![k].at = "refused", ![k].tries = @ + 1]
    /\ UNCHANGED <<tenant, spaces, buckets, members, history, pager, lister, bystander>>

(* The operator disables or enables the tenant.                            *)
SetTenantStatus ==
    /\ tenant' = IF tenant = "active" THEN "disabled" ELSE "active"
    /\ UNCHANGED <<spaces, buckets, members, history, client, pager, lister, bystander>>

-----------------------------------------------------------------------------

Smallest(S) == CHOOSE u \in S : \A v \in S : u <= v

Present(s) == {u \in Subjects : members[s][u] # NoMember}

(* ListSpaceMembers: rows after the cursor, in subject order.              *)
PageAfter(s, cursor) ==
    LET rest == {u \in Present(s) : u > cursor}
    IN  IF rest = {} THEN <<>> ELSE <<Smallest(rest)>>

(* ListSpaceHistory: rows of a revision above the cursor, in order.        *)
HistoryAfter(s, cursor) ==
    SelectSeq(history[s], LAMBDA h : h.revision > cursor /\ h.revision <= cursor + PageLimit)

ListSpaceMembers ==
    /\ pager.at = "members" /\ tenant = "active" /\ Exists(pager.space)
    /\ LET cursor == IF pager.seen = <<>> THEN 0 ELSE pager.seen[Len(pager.seen)]
           page   == PageAfter(pager.space, cursor)
       IN  pager' = [pager EXCEPT !.seen = @ \o page,
                                  !.floor = IF pager.seen = <<>> THEN Present(pager.space) ELSE @,
                                  !.at = IF page = <<>> THEN "history" ELSE "members"]
    /\ UNCHANGED <<tenant, spaces, buckets, members, history, client, lister, bystander>>

ListSpaceHistory ==
    /\ pager.at = "history" /\ tenant = "active"
    /\ LET cursor == IF pager.log = <<>> THEN 0 ELSE pager.log[Len(pager.log)].revision
           page   == HistoryAfter(pager.space, cursor)
       IN  pager' = [pager EXCEPT !.log = @ \o page,
                                  !.at = IF page = <<>> THEN "done" ELSE "history"]
    /\ UNCHANGED <<tenant, spaces, buckets, members, history, client, lister, bystander>>

(* ProbeSpaceCoverage and CheckCoverage of the tenant: one statement that  *)
(* finds every binding, and denies on any.                                 *)
Bound == {s \in SpaceIds : Exists(s)}

CheckCoverage == Bound = {} /\ tenant = "active"

(* A tenant-wide listing (ListPublicAssets): coverage, rows, coverage.     *)
CoverageBefore ==
    /\ lister.at = "before"
    /\ lister' = [lister EXCEPT !.at = IF CheckCoverage THEN "rows" ELSE "denied"]
    /\ UNCHANGED <<tenant, spaces, buckets, members, history, client, pager, bystander>>

ReadRows ==
    /\ lister.at = "rows"
    /\ lister' = [at |-> "after", got |-> buckets]
    /\ UNCHANGED <<tenant, spaces, buckets, members, history, client, pager, bystander>>

(* Mutant: the listing is not checked again after its rows are read.       *)
CoverageSkipped ==
    /\ lister.at = "after"
    /\ lister' = [lister EXCEPT !.at = "served"]
    /\ UNCHANGED <<tenant, spaces, buckets, members, history, client, pager, bystander>>

CoverageAfter ==
    /\ lister.at = "after"
    /\ lister' = [lister EXCEPT !.at = IF CheckCoverage THEN "served" ELSE "denied"]
    /\ UNCHANGED <<tenant, spaces, buckets, members, history, client, pager, bystander>>

Next ==
    \/ \E k \in Clients : GetSpace(k) \/ Commit(k) \/ CommitUncertain(k) \/ RolledBack(k)
    \/ bystander = "operator" /\ SetTenantStatus
    \/ bystander = "pager" /\ (ListSpaceMembers \/ ListSpaceHistory)
    \/ bystander = "lister" /\ (CoverageBefore \/ ReadRows \/ CoverageAfter)

Spec == Init /\ [][Next]_spacesVars

-----------------------------------------------------------------------------

TypeOK ==
    /\ tenant \in {"active", "disabled"}
    /\ \A s \in SpaceIds : Exists(s) <=> s \in buckets
    /\ \A k \in Clients : client[k].at \in {"read", "send", "ok", "unsure", "refused"}
    /\ lister.at \in {"before", "rows", "after", "served", "denied"}

(* A space always keeps an active admin who is a user, whatever commands   *)
(* race and retry (spaceProtectAdmin counts after the compare-and-swap).   *)
LastAdminStays == \A s \in SpaceIds : Exists(s) => Admins(s) # {}

(* The history is the whole story: rows 1 .. revision without a gap, each  *)
(* starting from the state the last row about its member left, and the     *)
(* members table is where the last rows lead.                              *)
LastAbout(s, u, n) ==
    LET about == {i \in 1 .. n : history[s][i].target = u}
    IN  IF about = {} THEN NoMember
        ELSE history[s][CHOOSE i \in about : \A j \in about : j <= i].after

HistoryExplains ==
    \A s \in SpaceIds :
       /\ Len(history[s]) = spaces[s].revision
       /\ \A i \in 1 .. Len(history[s]) :
             /\ history[s][i].revision = i
             /\ history[s][i].before = LastAbout(s, history[s][i].target, i - 1)
       /\ \A u \in Subjects : members[s][u] = LastAbout(s, u, Len(history[s]))

(* A command takes effect once although its client repeats it after an     *)
(* uncertain commit, and one answered ok took effect.                      *)
AppliedOnce ==
    LET Rows(id) == {<<s, i>> \in SpaceIds \X (1 .. 8) :
                        i <= Len(history[s]) /\ history[s][i].id = id}
    IN  \A k \in Clients :
           /\ Cardinality(Rows(Command[k].id)) <= 1
           /\ client[k].at = "ok" => Rows(Command[k].id) # {}

(* A paged reading made while commands commit reports each member that was *)
(* there when it began exactly once, and a gapless history.                *)
PagesComplete ==
    /\ \A i, j \in 1 .. Len(pager.seen) : i < j => pager.seen[i] < pager.seen[j]
    /\ pager.at # "members" => \A u \in pager.floor : \E i \in 1 .. Len(pager.seen) : pager.seen[i] = u
    /\ \A i \in 1 .. Len(pager.log) : pager.log[i].revision = i

(* A tenant-wide listing that is served names no bucket that backed a      *)
(* space when its rows were read.                                          *)
ServedUnbound == lister.at = "served" => lister.got = {}
=============================================================================
