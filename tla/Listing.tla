------------------------------ MODULE Listing ------------------------------
(***************************************************************************)
(* The listings a client reads page by page, as functions: the keyset      *)
(* pages of internal/repository, the filtering of internal/service, the    *)
(* grouping by delimiter of internal/api/s3compat, and the pages of        *)
(* versions, multipart uploads and parts.  A name is a sequence of         *)
(* characters, characters are numbers, Slash is the delimiter; a database  *)
(* compares names as strings.  Scan is the size of the pages the gateways  *)
(* fetch internally (1000 in the code): small enough here that an          *)
(* internal page ends in the middle of a group.                            *)
(***************************************************************************)
EXTENDS Integers, Sequences, SequencesExt, FiniteSets

CONSTANT Scan        \* objectListScanPageSize, scanSize and the page of collectAuthorizedObjects

Slash == 1

NoPage == [objects |-> <<>>, more |-> FALSE, next |-> <<>>]

(* String order. *)
Before(s, t) ==
    \/ s # t /\ IsPrefix(s, t)
    \/ \E i \in DOMAIN s \cap DOMAIN t :
          /\ \A j \in 1..(i - 1) : s[j] = t[j]
          /\ s[i] < t[i]

Upto(s, n) == SubSeq(s, 1, IF n < Len(s) THEN n ELSE Len(s))

Sorted(names) == SetToSortSeq(names, Before)

(* ------------------------- objects, by key ----------------------------- *)

(* Mutant of KeyPage: the marker is the extra row. *)
KeyPageSkips(rows, limit) ==
    IF Len(rows) > limit THEN [objects |-> Upto(rows, limit), more |-> TRUE, next |-> rows[limit + 1]]
    ELSE [objects |-> rows, more |-> FALSE, next |-> <<>>]

(* limit + 1 rows are read to learn whether a page follows; the marker is  *)
(* the last key of the page.                                               *)
KeyPage(rows, limit) ==
    IF Len(rows) > limit THEN [objects |-> Upto(rows, limit), more |-> TRUE, next |-> rows[limit]]
    ELSE [objects |-> rows, more |-> FALSE, next |-> <<>>]

Selected(names, prefix, marker) == {k \in names : IsPrefix(prefix, k) /\ Before(marker, k)}

(* The recycle bin is the same page over the deleted rows. *)
ListDeletedObjects(q) == IF q.kind = "deleted" THEN q.deleted ELSE q.names

ListObjects(q, marker, limit) == KeyPage(Sorted(Selected(ListDeletedObjects(q), q.prefix, marker)), limit)

RECURSIVE TagMatches(_, _, _, _, _)
TagMatches(q, cursor, raw, limit, matches) ==
    LET more == Upto(matches \o SelectSeq(raw.objects, LAMBDA k : k \in q.tagged), limit + 1)
    IN  IF Len(more) > limit \/ ~raw.more \/ raw.next \in {<<>>, cursor} THEN more
        ELSE TagMatches(q, raw.next, ListObjects(q, raw.next, Scan), limit, more)

ListObjectsByTag(q, marker, limit) ==
    KeyPage(TagMatches(q, marker, ListObjects(q, marker, Scan), limit, <<>>), limit)

FetchRows(q, marker, limit) ==
    IF q.kind = "tag" THEN ListObjectsByTag(q, marker, limit) ELSE ListObjects(q, marker, limit)

(* The callback appends what the caller may read; any other error of the   *)
(* authorizer ends the listing and is not modelled here.                   *)
appendAuthorizedObject(q, objects, k) == IF k \in q.readable THEN Append(objects, k) ELSE objects

RECURSIVE collectAuthorizedObjects(_, _, _, _, _)
collectAuthorizedObjects(q, cursor, page, wanted, objects) ==
    LET more == FoldLeft(LAMBDA acc, k : IF Len(acc) = wanted \/ k \notin q.mine THEN acc
                                         ELSE appendAuthorizedObject(q, acc, k),
                         objects, page.objects)
    IN  IF Len(more) = wanted \/ ~page.more \/ page.next \in {<<>>, cursor} THEN more
        ELSE collectAuthorizedObjects(q, page.next, FetchRows(q, page.next, Scan), wanted, more)

listObjectsMatching(q, marker, limit) ==
    LET first == FetchRows(q, marker, IF q.guarded THEN Scan ELSE limit)
    IN  IF ~q.guarded THEN first
        ELSE KeyPage(collectAuthorizedObjects(q, marker, first, limit + 1, <<>>), limit)

(* ListWithOptions: the view "mine" filters by owner, with or without an   *)
(* authorizer.                                                             *)
ListWithOptions(q, marker, limit) ==
    listObjectsMatching([q EXCEPT !.guarded = @ \/ q.mine # q.names \cup q.deleted], marker, limit)

(* ------------------------- S3: delimiter ------------------------------- *)

SlashAt(k, prefix) == {i \in (Len(prefix) + 1)..Len(k) : k[i] = Slash}

collapseListKey(k, prefix) ==
    IF SlashAt(k, prefix) = {} THEN [value |-> k, grouped |-> FALSE]
    ELSE [value |-> SubSeq(k, 1, CHOOSE i \in SlashAt(k, prefix) : \A j \in SlashAt(k, prefix) : i =< j),
          grouped |-> TRUE]

NoBuilder == [entries |-> <<>>, next |-> <<>>, active |-> <<>>, last |-> <<>>, full |-> FALSE]

(* delimiterListBuilder.append: the marker of the page moves on with every *)
(* key of the group it ends with, so the next page starts behind the group *)
append(q, limit, marker, b, k) ==
    LET c == collapseListKey(k, q.prefix)
    IN  IF b.full THEN b
        ELSE IF c.grouped /\ c.value = b.active
             THEN [b EXCEPT !.next = IF c.value = b.last THEN k ELSE @]
        ELSE LET a == [b EXCEPT !.active = IF c.grouped THEN c.value ELSE <<>>]
             IN  IF c.grouped /\ ~Before(marker, c.value) THEN a
                 ELSE IF Len(b.entries) = limit THEN [a EXCEPT !.full = TRUE]
                 ELSE [a EXCEPT !.entries = Append(@, c.value), !.next = k,
                                !.last = IF c.grouped THEN c.value ELSE <<>>]

RECURSIVE loadDelimitedObjectListPage(_, _, _, _, _)
loadDelimitedObjectListPage(q, marker, limit, page, b) ==
    LET built == FoldLeft(LAMBDA acc, k : append(q, limit, marker, acc, k), b, page.objects)
    IN  IF built.full THEN [objects |-> built.entries, more |-> TRUE, next |-> built.next]
        ELSE IF ~page.more THEN [objects |-> built.entries, more |-> FALSE, next |-> <<>>]
        ELSE loadDelimitedObjectListPage(q, marker, limit, listObjectsMatching(q, page.next, Scan), built)

loadObjectListPage(q, marker, limit) ==
    LET first == listObjectsMatching(q, marker, IF q.delimited THEN Scan ELSE limit)
    IN  IF limit = 0 THEN NoPage
        ELSE IF ~q.delimited THEN first
        ELSE loadDelimitedObjectListPage(q, marker, limit, first, NoBuilder)

(* listObjectsV2: the continuation token is the marker, start-after only   *)
(* counts on the first page.                                               *)
listObjectsV2(q, token, startAfter, limit) ==
    loadObjectListPage(q, IF token # <<>> THEN token ELSE startAfter, limit)

listObjectsV1(q, marker, limit) == loadObjectListPage([q EXCEPT !.kind = "all"], marker, limit)

(* ------------------------- folders of the REST API --------------------- *)

(* One page of a folder: the names below the prefix, folders once.         *)
ListFolders(q, marker, limit) ==
    LET page  == ListWithOptions(q, marker, limit)
        below == SelectSeq(page.objects, LAMBDA k : k # q.prefix)
        names == [i \in DOMAIN below |-> collapseListKey(below[i], q.prefix).value]
    IN  [page EXCEPT !.objects =
            FoldLeft(LAMBDA acc, n : IF n \in Range(acc) THEN acc ELSE Append(acc, n), <<>>, names)]

(* DeleteFolder collects every page before it deletes anything. *)
RECURSIVE DeleteFolderKeys(_, _, _)
DeleteFolderKeys(q, page, found) ==
    IF page.more THEN DeleteFolderKeys(q, listObjectsMatching(q, page.next, Scan), found \o page.objects)
    ELSE found \o page.objects

(* BM25.collectBucketChunks: the warm-up walks the bucket and stops with   *)
(* an error when a chunk turns up twice.  chunksOf gives the chunks of a   *)
(* key.                                                                    *)
RECURSIVE collectBucketChunks(_, _, _, _)
collectBucketChunks(q, chunksOf, marker, seen) ==
    LET page  == ListObjects(q, marker, Scan)
        found == FlattenSeq([i \in DOMAIN page.objects |-> chunksOf[page.objects[i]]])
    IN  IF page.more THEN collectBucketChunks(q, chunksOf, page.next, seen \o found)
        ELSE seen \o found

(* ------------------------- versions ------------------------------------ *)

(* A version row is [key, id]; within a key the newest (greatest id) comes *)
(* first.  Marker 0 is no marker.                                          *)
ListObjectVersionsWithOpts(rows, key, marker, limit) ==
    LET ids  == {r.id : r \in {x \in rows : x.key = key /\ (marker = 0 \/ x.id < marker)}}
        desc == SetToSortSeq(ids, LAMBDA x, y : x > y)
    IN  KeyPage([i \in DOMAIN desc |-> [key |-> key, id |-> desc[i]]], limit)

ListObjectVersionKeys(rows, prefix, marker, limit) ==
    KeyPage(Sorted(Selected({r.key : r \in rows}, prefix, marker)), limit)

versionPageKeys(rows, prefix, keyMarker, versionMarker, limit) ==
    LET later == ListObjectVersionKeys(rows, prefix, keyMarker, limit)
    IN  [later EXCEPT !.objects =
            (IF versionMarker # 0 /\ IsPrefix(prefix, keyMarker) THEN <<keyMarker>> ELSE <<>>) \o @]

appendVersions(key, versions, startsAfter) ==
    [i \in DOMAIN versions |-> [key |-> key, id |-> versions[i].id, latest |-> i = 1 /\ ~startsAfter]]

RECURSIVE appendVersionPage(_, _, _, _, _, _)
appendVersionPage(rows, keys, i, versionMarker, remaining, out) ==
    IF i > Len(keys.objects) THEN [objects |-> out, more |-> FALSE, key |-> <<>>, id |-> 0]
    ELSE LET marker == IF i = 1 THEN versionMarker ELSE 0
             page   == ListObjectVersionsWithOpts(rows, keys.objects[i], marker, remaining)
             now    == out \o appendVersions(keys.objects[i], page.objects, marker # 0)
             left   == remaining - Len(page.objects)
         IN  IF page.more \/ (left = 0 /\ (i < Len(keys.objects) \/ keys.more))
             THEN [objects |-> now, more |-> TRUE, key |-> keys.objects[i],
                   id |-> IF page.objects = <<>> THEN marker ELSE Last(page.objects).id]
             ELSE appendVersionPage(rows, keys, i + 1, versionMarker, left, now)

listObjectVersions(rows, prefix, keyMarker, versionMarker, limit) ==
    appendVersionPage(rows, versionPageKeys(rows, prefix, keyMarker, versionMarker, limit),
                      1, versionMarker, limit, <<>>)

(* ------------------------- multipart uploads and parts ----------------- *)

(* Uploads are ordered by (key, id).  The page is filtered by what the     *)
(* caller may write after it was read.                                     *)
UploadBefore(x, y) == Before(x.key, y.key) \/ (x.key = y.key /\ x.id < y.id)

ListUploads(rows, keyMarker, idMarker, limit) ==
    LET after == {u \in rows : keyMarker = <<>> \/ UploadBefore([key |-> keyMarker, id |-> idMarker], u)}
    IN  Upto(SetToSortSeq(after, UploadBefore), limit)

ListMultipartUploads(rows, writable, keyMarker, idMarker, limit) ==
    SelectSeq(ListUploads(rows, keyMarker, idMarker, limit), LAMBDA u : u.key \in writable)

RECURSIVE multipartUploadPage(_, _, _, _, _, _, _)
multipartUploadPage(rows, writable, prefix, keyMarker, idMarker, limit, matched) ==
    LET page == ListMultipartUploads(rows, writable, keyMarker, idMarker, Scan)
        now  == matched \o SelectSeq(page, LAMBDA u : IsPrefix(prefix, u.key))
    IN  IF Len(now) > limit THEN [objects |-> Upto(now, limit), more |-> TRUE]
        ELSE IF Len(page) < Scan THEN [objects |-> now, more |-> FALSE]
        ELSE multipartUploadPage(rows, writable, prefix, Last(page).key, Last(page).id, limit, now)

(* listMultipartUploads: the next markers name the last upload of the page. *)
listMultipartUploads(rows, writable, prefix, keyMarker, idMarker, limit) ==
    IF limit = 0 THEN [objects |-> <<>>, more |-> FALSE]
    ELSE multipartUploadPage(rows, writable, prefix, keyMarker, idMarker, limit, <<>>)

(* Parts are numbered; the handler pages over the whole list. *)
listParts(parts, marker, limit) ==
    LET rest == SelectSeq(SetToSortSeq(parts, <), LAMBDA n : n > marker)
    IN  [objects |-> Upto(rest, limit), more |-> Len(rest) > limit,
         next |-> IF Len(rest) = 0 \/ limit = 0 THEN 0 ELSE Last(Upto(rest, limit))]

(* ------------------------- what a client ends up with ------------------ *)

(* The page in hand and all that follow it. *)
RECURSIVE AllKeys(_, _, _)
AllKeys(q, page, limit) ==
    page.objects \o IF page.more THEN AllKeys(q, listObjectsV2(q, page.next, <<>>, limit), limit) ELSE <<>>

RECURSIVE AllFolders(_, _, _)
AllFolders(q, page, limit) ==
    page.objects \o IF page.more THEN AllFolders(q, ListFolders(q, page.next, limit), limit) ELSE <<>>

RECURSIVE AllVersions(_, _, _, _)
AllVersions(rows, prefix, page, limit) ==
    page.objects \o IF page.more
                    THEN AllVersions(rows, prefix,
                                     listObjectVersions(rows, prefix, page.key, page.id, limit), limit)
                    ELSE <<>>

RECURSIVE AllUploads(_, _, _, _, _)
AllUploads(rows, prefix, key, id, limit) ==
    LET page == listMultipartUploads(rows, {u.key : u \in rows}, prefix, key, id, limit)
    IN  IF page.more
        THEN page.objects \o AllUploads(rows, prefix, Last(page.objects).key, Last(page.objects).id, limit)
        ELSE page.objects

RECURSIVE AllParts(_, _, _)
AllParts(parts, marker, limit) ==
    LET page == listParts(parts, marker, limit)
    IN  IF page.more THEN page.objects \o AllParts(parts, page.next, limit) ELSE page.objects

(* What the listing should hold: the rows of its kind under the prefix the *)
(* caller may see.                                                         *)
Visible(q) ==
    {k \in IF q.kind = "deleted" THEN q.deleted ELSE q.names :
        /\ IsPrefix(q.prefix, k) /\ k # <<>>
        /\ q.kind = "tag" => k \in q.tagged
        /\ q.guarded => k \in q.readable /\ k \in q.mine}

(* A client that follows the markers of the S3 listing (repository pages,  *)
(* filters of collectAuthorizedObjects and groups of                       *)
(* delimiterListBuilder.append) sees every visible key or its common       *)
(* prefix exactly once and in order, however small the pages and wherever  *)
(* the internal pages of objectListScanPageSize end.                       *)
KeysExact(q, limit) ==
    AllKeys(q, listObjectsV2(q, <<>>, <<>>, limit), limit) =
        Sorted(IF q.delimited THEN {collapseListKey(k, q.prefix).value : k \in Visible(q)} ELSE Visible(q))

(* The REST folder pages name every entry of the folder, and DeleteFolder  *)
(* (collected before the first delete) finds every key below it.           *)
FoldersExact(q, limit) ==
    /\ Range(AllFolders(q, ListFolders(q, <<>>, limit), limit)) =
          {collapseListKey(k, q.prefix).value : k \in Visible(q) \ {q.prefix}}
    /\ q.kind = "all" /\ q.mine = q.names \cup q.deleted =>
          DeleteFolderKeys(q, listObjectsMatching(q, <<>>, Scan), <<>>) = Sorted(Visible(q))

(* The versions listing of ListObjectVersions yields every version once,   *)
(* keys in order and the newest version of a key first, and marks exactly  *)
(* one version of a key as the latest, also when a key is split over pages *)
VersionsExact(rows, prefix, limit) ==
    LET all  == AllVersions(rows, prefix, listObjectVersions(rows, prefix, <<>>, 0, limit), limit)
        want == {r \in rows : IsPrefix(prefix, r.key)}
    IN  /\ Len(all) = Cardinality(want)
        /\ \A i \in DOMAIN all :
              /\ [key |-> all[i].key, id |-> all[i].id] \in want
              /\ all[i].latest <=> \A r \in rows : r.key = all[i].key => r.id =< all[i].id
        /\ \A i \in 2..Len(all) : \/ Before(all[i - 1].key, all[i].key)
                                  \/ all[i - 1].key = all[i].key /\ all[i - 1].id > all[i].id

(* The listings of uploads (for a caller who may write every key) and of   *)
(* the parts of an upload yield every row once and in order.               *)
UploadsExact(rows, prefix, limit) ==
    AllUploads(rows, prefix, <<>>, 0, limit) =
        SetToSortSeq({u \in rows : IsPrefix(prefix, u.key)}, UploadBefore)

PartsExact(parts, limit) == AllParts(parts, 0, limit) = SetToSortSeq(parts, <)
=============================================================================
