------------------------------ MODULE ScanWriter -----------------------------
(***************************************************************************)
(* The scan writer (scanner.go) as driven by SCAN (scan.go cmdScan),       *)
(* SEARCH (search.go cmdSearch), NEARBY (cmdNearby, with its KNN path      *)
(* nearestNeighbors) and WITHIN / INTERSECTS (cmdWithinOrIntersects), and  *)
(* a client that pages through a result with the cursor each reply carries.*)
(*                                                                         *)
(* A collection maps ids to objects [val, fld]: val stands for the object's *)
(* string value (SEARCH orders and globs on it), fld for the one field the *)
(* WHERE / WHEREIN / WHEREEVAL clauses test (absent fields read 0).  A     *)
(* clause is the set of field values it accepts, or NONE when the query    *)
(* has none.  A glob is [kind |-> "all"], [kind |-> "single", pat |-> v]   *)
(* (a pattern without wildcards) or [kind |-> "pattern", pat |-> S], S the *)
(* set of strings the pattern matches.  Output formats other than COUNT    *)
(* differ only in the text written per item and are represented by IDS.    *)
(*                                                                         *)
(* Geometry is abstracted: for NEARBY with a radius, WITHIN and INTERSECTS *)
(* an object is inside the query's area iff its val is in qq.area; for KNN *)
(* (NEARBY without a radius) val is its distance rank.  exp marks an id    *)
(* whose deadline has passed but that the expirer has not deleted yet      *)
(* (c.hasExpired).  The spatial index visits objects in a fixed order,     *)
(* sorder, which the model leaves open.  uint64 arithmetic is kept at a    *)
(* reduced word width, Width, with MaxCount = 2^Width - 1 for MaxUint64.   *)
(***************************************************************************)
EXTENDS Naturals, Sequences, SequencesExt, FiniteSets

CONSTANTS
  Ids,           \* object ids (naturals, in the collection's id order)
  Vals,          \* object string values (naturals, in string order)
  FieldVals,     \* values the tested field takes
  NONE,          \* no object / no clause
  LimitItems,    \* limitItems, the page size when LIMIT is not given
  Width,         \* bits of a uint64 / int word, reduced for TLC
  MaxCount,      \* math.MaxUint64, the COUNT limit when LIMIT is not given
  Collections,   \* collections a query may run on
  Queries,       \* queries clients send
  MaxPages       \* bound: pages a client requests

ASSUME MaxCount = 2^Width - 1 /\ LimitItems < 2^(Width - 1)

VARIABLES
  col,     \* the collection (unchanged while the client pages)
  q,       \* the query
  sorder,  \* the order the spatial index visits the collection's ids in
  cursor,  \* the cursor the client sends next
  seen,    \* ids returned so far, in order
  counts,  \* COUNT values returned so far
  pages,   \* pages requested
  done     \* the last reply carried cursor 0

vars == <<col, q, sorder, cursor, seen, counts, pages, done>>

Obj == [val : Vals, fld : FieldVals, exp : BOOLEAN]

\* getCol(key) is nil for a collection without objects.
Members(c) == {i \in Ids : c[i] # NONE}

-----------------------------------------------------------------------------
(* scanWriter.                                                             *)

\* newScanWriter: a zero LIMIT means limitItems, or no limit for COUNT;
\* globEverything for "*" or "", globSingle for a pattern without
\* wildcards.  SEARCH (matchValues) tests the glob on the object's value.
NewScanWriter(qq, matchValues) ==
  [output |-> qq.output, cursor |-> qq.cursor,
   limit |-> IF qq.limit # 0 THEN qq.limit
             ELSE IF qq.output = "count" THEN MaxCount ELSE LimitItems,
   glob |-> qq.glob, matchValues |-> matchValues,
   where |-> qq.where, wherein |-> qq.wherein, whereeval |-> qq.whereeval,
   count |-> 0, numberItems |-> 0, hitLimit |-> FALSE, items |-> <<>>]

\* globMatch: <<match, keepGoing>>.  A single (literal) pattern compares
\* equal and stops the scan after its match.
GlobMatch(sw, id, o) ==
  LET v == IF sw.matchValues THEN o.val ELSE id IN
  CASE sw.glob.kind = "all"    -> <<TRUE, TRUE>>
    [] sw.glob.kind = "single" -> IF sw.glob.pat = v THEN <<TRUE, FALSE>> ELSE <<FALSE, TRUE>>
    [] OTHER                   -> <<v \in sw.glob.pat, TRUE>>

\* fieldMatch: every WHERE, then every WHEREIN, then every WHEREEVAL.
Accepts(clause, v) == clause = NONE \/ v \in clause
FieldMatch(sw, o) ==
  Accepts(sw.where, o.fld) /\ Accepts(sw.wherein, o.fld) /\ Accepts(sw.whereeval, o.fld)

\* Mutant: the cursor test skips one record too few.
SkippedByCursorShort(sw, n) == n < sw.cursor

\* writeObject's cursor test: the first cursor matches are only counted.
SkippedByCursor(sw, n) == n <= sw.cursor

\* writeObject: the new writer and whether the scan goes on.  KNN passes
\* ignoreGlobMatch, nearestNeighbors having matched the glob already.
WriteObject(sw, id, o, ignoreGlob) ==
  LET g == IF ignoreGlob THEN <<TRUE, TRUE>> ELSE GlobMatch(sw, id, o)
      n == sw.count + 1
      c == [sw EXCEPT !.count = n]
      w == [c EXCEPT !.numberItems = @ + 1, !.items = Append(@, id),
                     !.hitLimit = (sw.numberItems + 1 = sw.limit)]
  IN CASE ~g[1]                  -> <<sw, TRUE>>
       [] ~FieldMatch(sw, o)     -> <<sw, TRUE>>
       [] SkippedByCursor(sw, n) -> <<c, TRUE>>
       [] sw.output = "count"    -> <<c, n < sw.limit>>
       [] OTHER                  -> <<w, ~w.hitLimit /\ g[2]>>

\* The iterator callbacks: call writeObject on each object in order until
\* it returns false.  The callbacks of NEARBY, WITHIN and INTERSECTS first
\* pass over the ids in skip (c.hasExpired); SCAN and SEARCH do not test it.
RECURSIVE Iterate(_, _, _, _, _)
Iterate(sw, c, order, skip, ignoreGlob) ==
  IF order = <<>> THEN sw
  ELSE IF Head(order) \in skip THEN Iterate(sw, c, Tail(order), skip, ignoreGlob)
  ELSE LET r == WriteObject(sw, Head(order), c[Head(order)], ignoreGlob) IN
       IF r[2] THEN Iterate(r[1], c, Tail(order), skip, ignoreGlob) ELSE r[1]

\* Collection.Scan / SearchValues: every object, in order.
ScanObjects(sw, c, order) == Iterate(sw, c, order, {}, FALSE)

\* c.hasExpired for the ids of a collection.
Expired(c) == {i \in Members(c) : c[i].exp}

\* Mutant: the reply cursor counts the matches skipped twice.
FootCursorFromCount(sw) ==
  IF sw.hitLimit THEN sw.count + sw.numberItems ELSE 0

\* Mutant: the reply cursor is not reset after the last page.
FootCursorNoReset(sw) == sw.cursor + sw.numberItems

\* writeFoot: after a full page the next cursor is cursor + numberItems,
\* otherwise 0.
FootCursor(sw) == IF sw.hitLimit THEN sw.cursor + sw.numberItems ELSE 0

\* The order SCAN visits ids in, and the order SEARCH visits values in
\* (by value, then id).
IdOrder(c) == SetToSortSeq(Members(c), <)
ValueOrder(c) ==
  SetToSortSeq(Members(c), LAMBDA a, b : c[a].val < c[b].val \/ (c[a].val = c[b].val /\ a < b))

\* The reply: [items, count, cursor].
Reply(sw) == [items |-> sw.items, count |-> sw.count, cursor |-> FootCursor(sw)]

\* cmdScan: COUNT without WHERE, WHEREIN and glob is Count() - cursor;
\* anything else scans.
CmdScan(c, qq) ==
  LET sw == NewScanWriter(qq, FALSE) IN
  CASE Members(c) = {} -> Reply(sw)
    [] qq.output = "count" /\ qq.where = NONE /\ qq.wherein = NONE
         /\ qq.glob.kind = "all" ->
         Reply([sw EXCEPT !.count = IF Cardinality(Members(c)) > qq.cursor
                                    THEN Cardinality(Members(c)) - qq.cursor ELSE 0])
    [] OTHER -> Reply(ScanObjects(sw, c, IdOrder(c)))

\* cmdSearch: COUNT without WHERE and glob is Count() - cursor; otherwise
\* SearchValues / SearchValuesRange, the latter (any pattern but "*")
\* clearing globSingle.
CmdSearch(c, qq) ==
  LET sw0 == NewScanWriter(qq, TRUE)
      sw  == IF sw0.glob.kind = "single"
               THEN [sw0 EXCEPT !.glob = [kind |-> "pattern", pat |-> {sw0.glob.pat}]]
               ELSE sw0
  IN CASE Members(c) = {} -> Reply(sw0)
       [] qq.output = "count" /\ qq.where = NONE /\ qq.glob.kind = "all" ->
            Reply([sw0 EXCEPT !.count = IF Cardinality(Members(c)) > qq.cursor
                                        THEN Cardinality(Members(c)) - qq.cursor ELSE 0])
       [] OTHER -> Reply(ScanObjects(sw, c, ValueOrder(c)))

\* cmdSearchArgs for a POINT without meters: a KNN search when LIMIT was
\* given (and not SPARSE), otherwise an invalid argument.
Knn(qq) == qq.cmd = "nearby" /\ qq.area = NONE /\ qq.ulimit
NearbyArgsOK(qq) == qq.cmd = "nearby" => (qq.area # NONE \/ Knn(qq))

\* The reply to a command that failed.
ErrorReply == [items |-> <<>>, count |-> 0, cursor |-> 0]

\* A uint64 value converted with int(): the same bits, read signed.
GoInt(x) == IF x >= 2^(Width - 1) THEN x - 2^Width ELSE x

\* The order Collection.NearestNeighbors yields ids in: ascending distance,
\* ties in the index's order.
KnnOrder(c, so) ==
  LET ranks == SetToSortSeq(Vals, <) IN
  FlattenSeq([k \in 1..Len(ranks) |-> SelectSeq(so, LAMBDA i : c[i].val = ranks[k])])

\* nearestNeighbors' candidate loop: the ids that pass fieldMatch and
\* globMatch, until the glob stops the scan or limit of them are
\* collected.  limit is int(sw.cursor + sw.limit), computed in uint64.
RECURSIVE Candidates(_, _, _, _, _)
Candidates(sw, c, order, limit, items) ==
  IF order = <<>> THEN items
  ELSE LET id == Head(order)
           g  == GlobMatch(sw, id, c[id])
           more == Append(items, id)
       IN CASE ~FieldMatch(sw, c[id]) \/ ~g[1] -> Candidates(sw, c, Tail(order), limit, items)
            [] ~g[2] \/ ~(Len(more) < limit)  -> more
            [] OTHER                          -> Candidates(sw, c, Tail(order), limit, more)

\* nearestNeighbors: collect the candidates, sort them by distance (they
\* arrive sorted; sort.Slice on so few items is an insertion sort and keeps
\* them), then hand each to the callback, which skips expired ids.
NearestNeighbors(sw, c, so) ==
  LET limit == GoInt((sw.cursor + sw.limit) % 2^Width) IN
  Iterate(sw, c, Candidates(sw, c, KnnOrder(c, so), limit, <<>>), Expired(c), TRUE)

\* Collection.Nearby / Within / Intersects: the objects inside the area,
\* in the index's order, each through the callback.
SpatialSearch(sw, c, so, qq) ==
  Iterate(sw, c, SelectSeq(so, LAMBDA i : c[i].val \in qq.area), Expired(c), FALSE)

\* cmdNearby: the KNN path or the radius search.
CmdNearby(c, qq, so) ==
  LET sw == NewScanWriter(qq, FALSE) IN
  CASE ~NearbyArgsOK(qq) -> ErrorReply
    [] Members(c) = {}   -> Reply(sw)
    [] Knn(qq)           -> Reply(NearestNeighbors(sw, c, so))
    [] OTHER             -> Reply(SpatialSearch(sw, c, so, qq))

\* cmdWithinOrIntersects: the two differ only in the geometric test.
CmdWithinOrIntersects(c, qq, so) ==
  LET sw == NewScanWriter(qq, FALSE) IN
  IF Members(c) = {} THEN Reply(sw) ELSE Reply(SpatialSearch(sw, c, so, qq))

Run(c, qq, so) ==
  CASE qq.cmd = "scan"   -> CmdScan(c, qq)
    [] qq.cmd = "search" -> CmdSearch(c, qq)
    [] qq.cmd = "nearby" -> CmdNearby(c, qq, so)
    [] OTHER             -> CmdWithinOrIntersects(c, qq, so)

Spatial(qq) == qq.cmd \in {"nearby", "within", "intersects"}

-----------------------------------------------------------------------------
(* A client paging through one query.                                      *)

Init ==
  /\ col \in Collections
  /\ q \in Queries
  /\ sorder \in IF Spatial(q) THEN SetToSeqs(Members(col)) ELSE {IdOrder(col)}
  /\ cursor = q.cursor
  /\ seen = <<>> /\ counts = <<>> /\ pages = 0 /\ done = FALSE

\* Send the query with the current cursor and take the reply.
Page ==
  /\ ~done /\ pages < MaxPages
  /\ LET r == Run(col, [q EXCEPT !.cursor = cursor], sorder) IN
       /\ seen' = seen \o r.items
       /\ counts' = Append(counts, r.count)
       /\ cursor' = r.cursor
       /\ done' = (r.cursor = 0)
  /\ pages' = pages + 1
  /\ UNCHANGED <<col, q, sorder>>

Next == Page

Spec == Init /\ [][Next]_vars /\ WF_vars(Page)

-----------------------------------------------------------------------------
(* Reference definitions and properties.                                   *)

\* The records a query selects, in the order the command visits them:
\* those its glob and every clause accept; for the spatial commands, those
\* inside the area (any, for KNN) and not expired, in the index's order or,
\* for KNN, by distance.
Selected(c, qq, so) ==
  LET order == CASE qq.cmd = "scan"   -> IdOrder(c)
                 [] qq.cmd = "search" -> ValueOrder(c)
                 [] Knn(qq)           -> KnnOrder(c, so)
                 [] OTHER             -> so
      key(i) == IF qq.cmd = "search" THEN c[i].val ELSE i
      globOK(i) == CASE qq.glob.kind = "all" -> TRUE
                     [] qq.glob.kind = "single" -> key(i) = qq.glob.pat
                     [] OTHER -> key(i) \in qq.glob.pat
      area(i) == ~Spatial(qq) \/ (~c[i].exp /\ (Knn(qq) \/ c[i].val \in qq.area))
      ok(i) == globOK(i) /\ area(i) /\ Accepts(qq.where, c[i].fld)
               /\ Accepts(qq.wherein, c[i].fld) /\ Accepts(qq.whereeval, c[i].fld)
  IN SelectSeq(order, ok)

TypeOK ==
  /\ col \in [Ids -> Obj \cup {NONE}]
  /\ cursor \in 0..Cardinality(Ids)
  /\ seen \in Seq(Ids) /\ counts \in Seq(Nat)
  /\ pages \in 0..MaxPages /\ done \in BOOLEAN
  /\ sorder \in Seq(Ids)

\* Spec 4.9 pagination: a client that starts at the query's cursor and
\* follows the returned cursor until it is 0 receives every selected record
\* after the first cursor ones, once each, in the command's order.  Relies
\* on writeObject skipping exactly cursor matches, writeFoot adding the
\* items of a full page to the cursor, and, for KNN, nearestNeighbors
\* collecting enough candidates for the callback to fill the page.
PagesListEachMatchOnce ==
  done /\ q.output # "count" /\ NearbyArgsOK(q) =>
    LET s == Selected(col, q, sorder) IN
    seen = IF q.cursor < Len(s) THEN SubSeq(s, q.cursor + 1, Len(s)) ELSE <<>>

\* Following the cursor ends: at most one page per object and a last one
\* carry a non-zero cursor, so a client is done after Cardinality(Ids) + 1
\* pages.  Relies on writeFoot answering 0 once a page is not full.
PagingEndsInBoundedPages == ~done => pages <= Cardinality(Ids)

\* COUNT answers the number of selected records after the cursor ones
\* (records failing a clause do not use up the cursor), whichever path,
\* fast or scanning, cmdScan / cmdSearch take.
CountIsMatchesAfterCursor ==
  q.output = "count" /\ pages > 0 /\ NearbyArgsOK(q) =>
    LET n == Len(Selected(col, q, sorder)) IN
    counts[1] = IF n > q.cursor THEN n - q.cursor ELSE 0

=============================================================================
