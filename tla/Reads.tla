------------------------------- MODULE Reads -------------------------------
(***************************************************************************)
(* A read of one key through the REST API and through the S3 gateway while *)
(* the key is being overwritten: preconditions are evaluated on a stat,    *)
(* the content is opened afterwards, and a range is computed from a row    *)
(* that may not be the row the bytes belong to.  Version v of the key has  *)
(* Sizes[v] bytes, the entity tag v and was updated in second Seconds[v];  *)
(* two versions may share a second.  In a versioned bucket every version   *)
(* has a blob of its own, otherwise the blob is replaced in place before   *)
(* the row is.                                                             *)
(***************************************************************************)
EXTENDS Integers, Sequences, SequencesExt, FiniteSets

CONSTANTS
    Sizes,       \* Sizes[v]: the length of version v
    Seconds,     \* Seconds[v]: Last-Modified of version v
    Asks,        \* the requests a reader may make
    Writers,     \* the concurrent writers of the key, one request each
    PutPlans,    \* the requests the writers may make together
    MaxRange,    \* math.MaxInt64 of parseRangeDecimal
    Verify       \* ReadVerifyConfig.Enabled

VARIABLES
    versioned,   \* the bucket's setting
    current,     \* the version of the live row, None when there is none
    stored,      \* the version whose bytes the key's blob holds (not versioned)
    ask,         \* the request being served
    rd,          \* the reader's progress
    wr           \* the writers' progress

readVars == <<versioned, current, stored, ask, rd, wr>>

None == 0
Versions == 1..Len(Sizes)

-----------------------------------------------------------------------------
(* Byte ranges.  A field is a record of two digit strings around the dash, *)
(* NoField stands for an absent header, Malformed for one without a dash.  *)

NoField == [dash |-> FALSE, start |-> <<>>, end |-> <<>>]

AddDigit(number, digit) == IF number > (MaxRange - digit) \div 10 THEN MaxRange ELSE number * 10 + digit

\* A digit string reads as its value, at most MaxRange; -1 is a parse error.
parseRangeDecimal(digits) ==
    IF digits = <<>> \/ \E i \in DOMAIN digits : digits[i] \notin 0..9 THEN -1
    ELSE FoldLeft(AddDigit, 0, digits)

BadSpec == [ok |-> FALSE, start |-> 0, end |-> 0]

\* A suffix range has a negative start; an open end is -1.
parseRangeSpec(f) ==
    LET start == parseRangeDecimal(f.start)
        end   == parseRangeDecimal(f.end)
    IN  IF ~f.dash THEN BadSpec
        ELSE IF f.start = <<>> THEN IF end =< 0 THEN BadSpec ELSE [ok |-> TRUE, start |-> -end, end |-> 0]
        ELSE IF start < 0 THEN BadSpec
        ELSE IF f.end = <<>> THEN [ok |-> TRUE, start |-> start, end |-> -1]
        ELSE [ok |-> end >= 0, start |-> start, end |-> end]

Unsatisfiable == [off |-> -1, len |-> 0]
Whole == [off |-> 0, len |-> -1]

Least(a, b) == IF a < b THEN a ELSE b

\* Mutant of clampRange: the end is cut to the size, not to the last position.
ClampUncut(start, end, size) ==
    IF start < 0 THEN IF size = 0 THEN Unsatisfiable ELSE [off |-> size - Least(-start, size), len |-> Least(-start, size)]
    ELSE IF start >= size THEN Unsatisfiable
    ELSE IF end < 0 THEN [off |-> start, len |-> size - start]
    ELSE IF end < start THEN Unsatisfiable
    ELSE [off |-> start, len |-> Least(end, size) - start + 1]

clampRange(start, end, size) ==
    IF start < 0 THEN IF size = 0 THEN Unsatisfiable ELSE [off |-> size - Least(-start, size), len |-> Least(-start, size)]
    ELSE IF start >= size THEN Unsatisfiable
    ELSE IF end < 0 THEN [off |-> start, len |-> size - start]
    ELSE IF Least(end, size - 1) < start THEN Unsatisfiable
    ELSE [off |-> start, len |-> Least(end, size - 1) - start + 1]

\* A header that is not understood is ignored: the whole object is served.
ParseByteRange(f, size) ==
    LET s == parseRangeSpec(f) IN IF s.ok THEN clampRange(s.start, s.end, size) ELSE Whole

-----------------------------------------------------------------------------
(* Conditions.  A condition is the sequence of the header's fields; an     *)
(* entity-tag field is Star, Bad or the set of its tags.                   *)

Star == [star |-> TRUE, bad |-> FALSE, tags |-> {}]
Bad  == [star |-> FALSE, bad |-> TRUE, tags |-> {}]
Tags(s) == [star |-> FALSE, bad |-> FALSE, tags |-> s]

\* readETagCondition joins the fields of a header: a star among others, or one
\* malformed field, makes the list malformed.
readETagCondition(fields) ==
    IF Len(fields) = 1 THEN fields[1]
    ELSE IF fields = <<>> \/ \E i \in DOMAIN fields : fields[i].bad \/ fields[i].star THEN Bad
    ELSE Tags(UNION {fields[i].tags : i \in DOMAIN fields})

\* etagListMatchesMode: strong comparison never matches a weak tag.
etagListMatchesMode(f, v, strong) ==
    f.star \/ (~f.bad /\ \E t \in f.tags : t.of = v /\ ~(strong /\ t.weak))

\* The S3 gateway strips the weakness mark from every token.
s3ETagListMatches(f, v) == f.star \/ \E t \in f.tags : t.of = v

singleReadCondition(fields) == IF Len(fields) = 1 THEN fields[1] ELSE None

readPreconditionFailedForETag(a, v) ==
    IF a.match # <<>> THEN ~etagListMatchesMode(readETagCondition(a.match), v, TRUE)
    ELSE singleReadCondition(a.unmodified) # None /\ Seconds[v] > singleReadCondition(a.unmodified)

dateNotModified(a, v) ==
    singleReadCondition(a.modified) # None /\ Seconds[v] =< singleReadCondition(a.modified)

notModified(a, v) ==
    IF a.nonematch # <<>> THEN etagListMatchesMode(readETagCondition(a.nonematch), v, FALSE)
    ELSE dateNotModified(a, v)

hasConditional(a) ==
    a.match # <<>> \/ a.unmodified # <<>> \/ a.nonematch # <<>> \/ a.modified # <<>> \/ a.range # <<>>

\* handleConditional: 412 before 304; 0 when the read goes on.
handleConditional(a, v) ==
    IF readPreconditionFailedForETag(a, v) THEN 412 ELSE IF notModified(a, v) THEN 304 ELSE 0

FirstField(fields) == IF fields = <<>> THEN Bad ELSE fields[1]

evalS3GetPreconditions(a, v) ==
    IF a.match # <<>> /\ ~s3ETagListMatches(FirstField(a.match), v) THEN 412
    ELSE IF a.match = <<>> /\ a.unmodified # <<>> /\ Seconds[v] > a.unmodified[1] THEN 412
    ELSE IF a.nonematch # <<>> THEN IF s3ETagListMatches(FirstField(a.nonematch), v) THEN 304 ELSE 0
    ELSE IF a.modified # <<>> /\ Seconds[v] =< a.modified[1] THEN 304 ELSE 0

hasS3GetConditional(a) ==
    a.match # <<>> \/ a.nonematch # <<>> \/ a.modified # <<>> \/ a.unmodified # <<>>

\* If-Range: one field, the exact second or one strong tag.
contentRangeAllowed(a, v) ==
    CASE a.ifrange = <<>> -> TRUE
      [] Len(a.ifrange) # 1 -> FALSE
      [] a.ifrange[1].date # None -> Seconds[v] = a.ifrange[1].date
      [] OTHER -> LET f == a.ifrange[1].tag IN
                  ~f.bad /\ Cardinality(f.tags) = 1 /\ etagListMatchesMode(f, v, TRUE)

RangeField(a) == IF Len(a.range) = 1 THEN a.range[1] ELSE NoField
S3RangeField(a) == IF a.range = <<>> THEN NoField ELSE a.range[1]

checkWritePreconditions(a, v) ==
    /\ a.match # <<>> => v # None /\ etagListMatchesMode(FirstField(a.match), v, TRUE)
    /\ a.nonematch # <<>> /\ v # None =>
          ~(FirstField(a.nonematch).star \/ etagListMatchesMode(FirstField(a.nonematch), v, FALSE))

checkS3WritePreconditions(a, v) ==
    /\ a.match # <<>> => v # None /\ s3ETagListMatches(FirstField(a.match), v)
    /\ a.nonematch # <<>> /\ v # None => ~s3ETagListMatches(FirstField(a.nonematch), v)

-----------------------------------------------------------------------------
(* The reader.                                                             *)

\* seen: the row of the last stat; row: the row that was opened; bytes: the
\* version whose bytes the open blob has; status, label, part: the answer.
Fresh == [at |-> "start", seen |-> None, row |-> None, bytes |-> None,
          status |-> 0, label |-> None, part |-> Whole, whole |-> FALSE]

Init ==
    /\ versioned \in BOOLEAN
    /\ current \in {None, 1} /\ stored = 1
    /\ ask \in Asks
    /\ rd = Fresh
    /\ wr \in {[w \in Writers |-> [at |-> "stat", ask |-> p[w], new |-> None]] : p \in PutPlans}

\* The row a request means: the current one, or the version it names (a version
\* only has a row of its own in a versioned bucket).
RowFor(a) ==
    IF a.version = None THEN current
    ELSE IF IF versioned THEN a.version = 1 \/ \E w \in Writers : wr[w].at = "done" /\ a.version = wr[w].new
            ELSE a.version = current
    THEN a.version ELSE None

Answer(status, label) ==
    rd' = [rd EXCEPT !.at = "done", !.status = status, !.label = label]

Goto(at) == rd' = [rd EXCEPT !.at = at]

\* REST Get: with a condition or a range, stat and evaluate before opening.
GetStat ==
    /\ ask.gw = "rest" /\ ask.op = "get" /\ rd.at = "start"
    /\ IF ~hasConditional(ask) THEN Goto("row")
       ELSE LET v == RowFor(ask) IN
            IF v = None THEN Answer(404, None)
            ELSE IF handleConditional(ask, v) # 0 THEN Answer(handleConditional(ask, v), v)
            ELSE Goto("row")
    /\ UNCHANGED <<versioned, current, stored, ask, wr>>

\* headFileContent, HeadObject: one stat.
HeadContent ==
    /\ ask.op = "head" /\ rd.at = "start"
    /\ LET v == RowFor(ask)
           code == IF ask.gw = "rest" THEN handleConditional(ask, v) ELSE evalS3GetPreconditions(ask, v)
       IN  IF v = None THEN Answer(404, None)
           ELSE Answer(IF code # 0 THEN code ELSE 200, v)
    /\ UNCHANGED <<versioned, current, stored, ask, wr>>

\* GetWithOptions reads the row and then opens the blob its storage key names.
GetRow ==
    /\ rd.at = "row"
    /\ IF RowFor(ask) = None THEN Answer(404, None)
       ELSE rd' = [rd EXCEPT !.at = "blob", !.row = RowFor(ask)]
    /\ UNCHANGED <<versioned, current, stored, ask, wr>>

openStorageWithOptions ==
    /\ rd.at = "blob"
    /\ rd' = [rd EXCEPT !.at = "serve", !.bytes = IF versioned THEN rd.row ELSE stored]
    /\ UNCHANGED <<versioned, current, stored, ask, wr>>

\* The verifier knows at the end of the content, or as soon as as many bytes as
\* the row promises were read, whether they are the row's.
VerifyComplete(read, eof) == eof \/ (Sizes[rd.row] > 0 /\ read = Sizes[rd.row])
verifyLocked(read, eof) == ~Verify \/ ~VerifyComplete(read, eof) \/ rd.bytes = rd.row

\* serveContentRange and serveOpenedContent: the part, the bytes copied, and
\* whether the answer ends as promised or is aborted.
serveOpenedContent(v) ==
    LET p    == IF contentRangeAllowed(ask, v) THEN ParseByteRange(RangeField(ask), Sizes[v]) ELSE Whole
        have == Sizes[rd.bytes]
    IN  IF p = Unsatisfiable THEN Answer(416, v)
        ELSE IF p = Whole
        THEN rd' = [rd EXCEPT !.at = "done", !.status = 200, !.label = v, !.part = p,
                              !.whole = have = Sizes[v] /\ verifyLocked(have, TRUE)]
        ELSE IF have < p.off THEN Answer(500, None)
        ELSE rd' = [rd EXCEPT !.at = "done", !.status = 206, !.label = v, !.part = p,
                              !.whole = /\ have >= p.off + p.len
                                        /\ verifyLocked(p.off + p.len, FALSE)]

\* Mutant of ServeOpened: the stat before the open is relied on.
ServeUnchecked(v) == serveOpenedContent(v)

\* The conditions are evaluated again on the row that was opened.
ServeOpened(v) ==
    IF handleConditional(ask, v) # 0 THEN Answer(handleConditional(ask, v), v)
    ELSE serveOpenedContent(v)

Get ==
    /\ ask.gw = "rest" /\ rd.at = "serve"
    /\ ServeOpened(rd.row)
    /\ UNCHANGED <<versioned, current, stored, ask, wr>>

\* GetObject: the conditions are evaluated once, on a stat whose error is left to
\* the read itself; a named version is answered from that stat.
GetObject ==
    /\ ask.gw = "s3" /\ ask.op = "get" /\ rd.at = "start"
    /\ LET v == RowFor(ask) IN
       IF v # None /\ evalS3GetPreconditions(ask, v) # 0 THEN Answer(evalS3GetPreconditions(ask, v), v)
       ELSE IF ask.version # None /\ v = None THEN Answer(404, None)
       ELSE Goto("range")
    /\ UNCHANGED <<versioned, current, stored, ask, wr>>

\* serveObjectContent, serveObjectVersion: the range is computed from a stat.
serveObjectContent ==
    /\ rd.at = "range"
    /\ LET v == RowFor(ask)
           p == IF v = None THEN Whole ELSE ParseByteRange(S3RangeField(ask), Sizes[v])
       IN  IF p = Unsatisfiable THEN Answer(416, v)
           ELSE rd' = [rd EXCEPT !.at = "row", !.seen = v, !.part = p]
    /\ UNCHANGED <<versioned, current, stored, ask, wr>>

\* A range is labelled with the row of the stat, the whole object with the row
\* that was opened; what the copy returns is not looked at.
ServeS3 ==
    /\ ask.gw = "s3" /\ rd.at = "serve"
    /\ LET have == Sizes[rd.bytes] IN
       IF rd.part = Whole
       THEN rd' = [rd EXCEPT !.at = "done", !.status = 200, !.label = rd.row, !.whole = have = Sizes[rd.row]]
       ELSE IF have < rd.part.off THEN Answer(500, None)
       ELSE rd' = [rd EXCEPT !.at = "done", !.status = 206, !.label = rd.seen,
                             !.whole = have >= rd.part.off + rd.part.len]
    /\ UNCHANGED <<versioned, current, stored, ask, wr>>

-----------------------------------------------------------------------------
(* The writers: a PUT checks its preconditions, stores the blob and then    *)
(* writes the row; a DELETE removes the row.                               *)

PutCheck(w) ==
    /\ wr[w].at = "stat" /\ wr[w].ask.op = "put"
    /\ LET a == wr[w].ask
           ok == IF a.gw = "rest" THEN checkWritePreconditions(a, current) ELSE checkS3WritePreconditions(a, current)
       IN  wr' = [wr EXCEPT ![w].at = IF ok THEN "blob" ELSE "refused"]
    /\ UNCHANGED <<versioned, current, stored, ask, rd>>

\* An unversioned key keeps its storage key: the blob is replaced at once.
PutBlob(w) ==
    /\ wr[w].at = "blob"
    /\ LET v == 1 + Cardinality({x \in Writers : wr[x].new # None} \cup {w}) IN
         /\ stored' = v /\ wr' = [wr EXCEPT ![w].at = "row", ![w].new = v]
    /\ UNCHANGED <<versioned, current, ask, rd>>

PutRow(w) ==
    /\ wr[w].at = "row"
    /\ current' = wr[w].new /\ wr' = [wr EXCEPT ![w].at = "done"]
    /\ UNCHANGED <<versioned, stored, ask, rd>>

Delete(w) ==
    /\ wr[w].at = "stat" /\ wr[w].ask.op = "delete"
    /\ current' = None /\ wr' = [wr EXCEPT ![w].at = "done"]
    /\ UNCHANGED <<versioned, stored, ask, rd>>

Next ==
    \/ GetStat \/ HeadContent \/ GetRow \/ openStorageWithOptions \/ Get
    \/ GetObject \/ serveObjectContent \/ ServeS3
    \/ \E w \in Writers : PutCheck(w) \/ PutBlob(w) \/ PutRow(w) \/ Delete(w)

Spec == Init /\ [][Next]_readVars

-----------------------------------------------------------------------------
(* Well-formed state. *)
TypeOK ==
    /\ current \in Versions \cup {None} /\ stored \in Versions
    /\ rd.row \in Versions \cup {None} /\ rd.bytes \in Versions \cup {None}
    /\ rd.status \in {0, 200, 206, 304, 404, 412, 416, 500}
    /\ \A w \in Writers : wr[w].at \in {"stat", "blob", "row", "refused", "done"}

Sent(statuses) == rd.at = "done" /\ rd.status \in statuses

\* The positions a range field asks for, among those of an object of this size.
Asked(f, size) ==
    LET s == parseRangeSpec(f)
    IN  {i \in 0..(size - 1) :
            IF s.start < 0 THEN i >= size + s.start ELSE i >= s.start /\ (s.end < 0 \/ i =< s.end)}

\* Whatever is overwritten between the stat, the second look at the row and the
\* open (handler.go Get, serveContentRange, ETagVerifier), a REST answer
\* with content satisfies the request's conditions for the very version it is
\* labelled with, its range is the range of that version, and when it ends as
\* promised its bytes are that version's: always in a versioned bucket, and
\* otherwise whenever verification has seen the end of the object.
RestTruthful ==
    ask.gw = "rest" /\ Sent({200, 206, 304, 412, 416}) =>
        LET v == rd.label IN
        /\ handleConditional(ask, v) = IF rd.status \in {304, 412} THEN rd.status ELSE 0
        /\ rd.status = 206 =>
              /\ contentRangeAllowed(ask, v)
              /\ rd.part.off .. (rd.part.off + rd.part.len - 1) = Asked(RangeField(ask), Sizes[v])
        /\ /\ ask.op = "get" /\ rd.status \in {200, 206} /\ rd.whole
           /\ versioned \/ (Verify /\ (rd.part = Whole \/ rd.part.off + rd.part.len = Sizes[v]))
           => rd.bytes = v

\* The S3 gateway labels a whole object with the row it opened and a version
\* read by name with that version; a range never claims bytes outside of the
\* object it is labelled with (serveObjectContent, writeVersionRange).
S3Truthful ==
    ask.gw = "s3" /\ ask.op = "get" /\ Sent({200, 206}) =>
        /\ versioned /\ (rd.status = 200 \/ ask.version # None) => rd.bytes = rd.label
        /\ rd.status = 206 =>
              rd.part.off .. (rd.part.off + rd.part.len - 1) = Asked(S3RangeField(ask), Sizes[rd.label])

\* ParseByteRange against the set of positions the field asks for: it is that
\* interval, and a range is unsatisfiable exactly when no position is asked for.
RangeExact(f, size) ==
    LET p == ParseByteRange(f, size) IN
    IF ~parseRangeSpec(f).ok THEN p = Whole
    ELSE IF Asked(f, size) = {} THEN p = Unsatisfiable
    ELSE p.off .. (p.off + p.len - 1) = Asked(f, size)
=============================================================================
