------------------------------- MODULE GeoJSON -------------------------------
(***************************************************************************)
(* The geometry objects of pkg/geojson that hold other objects:            *)
(* LineString (linestring.go), GeometryCollection (geometrycollection.go)  *)
(* and Feature (feature.go).                                               *)
(*                                                                         *)
(* Positions lie on a small integer grid; DistanceTo is abstracted to the  *)
(* squared Euclidean distance and meters to a radius compared by squares.  *)
(* A bounding box is a record [min, max] of positions.                     *)
(*                                                                         *)
(* The state is the object the parser (objectMap) has just built, `g`, and *)
(* the raw id and properties members of the JSON it was built from,       *)
(* `input`. Objects are built bottom-up, as objectMap recurses into the    *)
(* members: a collection's members and a feature's geometry are earlier   *)
(* results of the parser.                                                  *)
(*                                                                         *)
(* Bytes of a feature's idprops are integers in 0..ByteMax; ByteMax stands *)
(* for 0xFF at a reduced width, so the short form holds ids of up to       *)
(* ByteMax - 1 bytes, as 254 in the code.                                  *)
(***************************************************************************)
EXTENDS Integers, Sequences, SequencesExt

CONSTANTS
  Coord,          \* the grid coordinates, containing 0 (the zero Position)
  LineInputs,     \* coordinate sequences of LineString inputs
  BBoxInputs,     \* the "bbox" members an input may carry, NONE included
  Bytes,          \* the bytes of raw id and properties text
  Ws,             \* the whitespace bytes among them
  MaxStrLen,      \* bound on the length of raw id and properties text
  ByteMax,        \* the value of the byte 0xFF at the model's width
  MaxDepth,       \* bound on the nesting of objects
  NONE

ASSUME 0 \in Coord /\ Ws \subseteq Bytes /\ Bytes \subseteq 0..ByteMax

VARIABLES g, input
vars == <<g, input>>

Positions == Coord \X Coord
Rects == {r \in [min : Positions, max : Positions] :
            r.min[1] <= r.max[1] /\ r.min[2] <= r.max[2]}
Strs == BoundedSeq(Bytes, MaxStrLen)

\* The Go zero value of BBox: both corners at Position{0, 0}.
ZeroBBox == [min |-> <<0, 0>>, max |-> <<0, 0>>]

-----------------------------------------------------------------------------
(* Helpers of the geometry library that are not under src/.                *)

\* poly.Rect.InsideRect and IntersectsRect over closed rectangles.
RectInside(r, s) ==
  /\ s.min[1] <= r.min[1] /\ r.max[1] <= s.max[1]
  /\ s.min[2] <= r.min[2] /\ r.max[2] <= s.max[2]
RectsMeet(r, s) ==
  /\ r.min[1] <= s.max[1] /\ s.min[1] <= r.max[1]
  /\ r.min[2] <= s.max[2] /\ s.min[2] <= r.max[2]
PointIn(p, r) == RectInside([min |-> p, max |-> p], r)

\* BBox.union: the smallest box holding both.
Union(a, b) ==
  [min |-> <<IF a.min[1] < b.min[1] THEN a.min[1] ELSE b.min[1],
             IF a.min[2] < b.min[2] THEN a.min[2] ELSE b.min[2]>>,
   max |-> <<IF a.max[1] > b.max[1] THEN a.max[1] ELSE b.max[1],
             IF a.max[2] > b.max[2] THEN a.max[2] ELSE b.max[2]>>]

\* level2CalculatedBBox(coords, nil): the box of the positions.
Hull(cs) == FoldLeft(LAMBDA b, p : Union(b, [min |-> p, max |-> p]),
                     [min |-> cs[1], max |-> cs[1]], Tail(cs))

Cross(o, a, b) == (a[1] - o[1]) * (b[2] - o[2]) - (a[2] - o[2]) * (b[1] - o[1])
Sign(x) == IF x > 0 THEN 1 ELSE IF x < 0 THEN -1 ELSE 0
OnSeg(p, a, b) == PointIn(p, Union([min |-> a, max |-> a], [min |-> b, max |-> b]))
\* Closed segments ab and cd share a point.
SegsMeet(a, b, c, d) ==
  \/ /\ Sign(Cross(a, b, c)) * Sign(Cross(a, b, d)) < 0
     /\ Sign(Cross(c, d, a)) * Sign(Cross(c, d, b)) < 0
  \/ Cross(a, b, c) = 0 /\ OnSeg(c, a, b)
  \/ Cross(a, b, d) = 0 /\ OnSeg(d, a, b)
  \/ Cross(c, d, a) = 0 /\ OnSeg(a, c, d)
  \/ Cross(c, d, b) = 0 /\ OnSeg(b, c, d)
\* poly.Polygon.IntersectsRect for the positions of a line: a segment has a
\* point inside the rectangle or crosses one of its sides.
PolyIntersectsRect(cs, r) ==
  LET corners == <<r.min, <<r.max[1], r.min[2]>>, r.max, <<r.min[1], r.max[2]>>>>
  IN \E i \in 1..Len(cs) - 1 :
       \/ PointIn(cs[i], r) \/ PointIn(cs[i + 1], r)
       \/ \E k \in 1..4 : SegsMeet(cs[i], cs[i + 1], corners[k], corners[(k % 4) + 1])

Dist2(p, q) == (p[1] - q[1]) ^ 2 + (p[2] - q[2]) ^ 2
\* SegmentIntersectsCircle: the point of segment ab closest to the center
\* lies within the radius.
SegmentIntersectsCircle(a, b, c, r) ==
  LET d == <<b[1] - a[1], b[2] - a[2]>>
      w == <<c[1] - a[1], c[2] - a[2]>>
      t == w[1] * d[1] + w[2] * d[2]
      dd == d[1] ^ 2 + d[2] ^ 2
  IN CASE dd = 0 \/ t <= 0 -> Dist2(c, a) <= r ^ 2
       [] t >= dd          -> Dist2(c, b) <= r ^ 2
       [] OTHER            -> Dist2(c, a) * dd - t ^ 2 <= r ^ 2 * dd

\* stripWhitespace.
Strip(s) == SelectSeq(s, LAMBDA x : x \notin Ws)

-----------------------------------------------------------------------------
(* Objects. Every fill function sets BBox, to the "bbox" member or to the  *)
(* calculated box, so BBox is never nil once an object is built.           *)

Raw(m) == IF m = NONE THEN <<>> ELSE m

RECURSIVE Depth(_)
Depth(o) == CASE o.type = "LineString" -> 1
             [] o.type = "Feature" -> 1 + Depth(o.geom)
             [] OTHER -> 1 + FoldLeft(LAMBDA d, m : IF Depth(m) > d THEN Depth(m) ELSE d,
                                      0, o.geoms)

RECURSIVE IsObject(_)
IsObject(o) ==
  /\ o.bbox \in Rects /\ o.bboxDefined \in BOOLEAN
  /\ CASE o.type = "LineString" -> Len(o.coords) >= 2 /\ o.coords \in Seq(Positions)
       [] o.type = "GeometryCollection" ->
            \A i \in 1..Len(o.geoms) : o.geoms[i].type # "Feature" /\ IsObject(o.geoms[i])
       [] o.type = "Feature" -> o.geom.type # "Feature" /\ IsObject(o.geom)
                                /\ o.idprops \in Seq(0..ByteMax)
       [] OTHER -> FALSE

\* (Feature) CalculatedBBox: BBox is set, so it is returned.
CalculatedBBox(o) == o.bbox

FillLineStringAnyLen(cs, bb) ==
  [type |-> "LineString", coords |-> cs, bboxDefined |-> bb # NONE,
   bbox |-> IF bb = NONE THEN Hull(cs) ELSE bb]

\* fillLineString: at least two positions; the box is the "bbox" member or
\* the box of the positions.
FillLineStringOf(cs, bb) ==
  IF Len(cs) < 2 THEN NONE
  ELSE [type |-> "LineString", coords |-> cs, bboxDefined |-> bb # NONE,
        bbox |-> IF bb = NONE THEN Hull(cs) ELSE bb]

\* GeometryCollection.CalculatedBBox while BBox is still nil: the union of
\* the members' boxes, and the zero BBox when there are none.
CollCalculatedBBoxFirst(gs) ==
  IF gs = <<>> THEN ZeroBBox ELSE CalculatedBBox(gs[1])
CollCalculatedBBox(gs) ==
  IF gs = <<>> THEN ZeroBBox
  ELSE FoldLeft(LAMBDA b, m : Union(b, CalculatedBBox(m)), CalculatedBBox(gs[1]), Tail(gs))

\* fillGeometryCollectionMap: "geometries" must be an array (NONE when it
\* is not) of objects that parse (a member that does not is NONE).
FillGeometryCollectionOf(gs, bb) ==
  IF gs = NONE \/ \E i \in 1..Len(gs) : gs[i] = NONE THEN NONE
  ELSE [type |-> "GeometryCollection", geoms |-> gs, bboxDefined |-> bb # NONE,
        bbox |-> IF bb = NONE THEN CollCalculatedBBox(gs) ELSE bb]

\* binary.LittleEndian.PutUint64 and Uint64, in bytes of ByteMax + 1 values.
PutUint64(n) == [k \in 1..8 |-> (n \div (ByteMax + 1) ^ (k - 1)) % (ByteMax + 1)]
Uint64(bs) == FoldRight(LAMBDA x, acc : x + acc * (ByteMax + 1), bs, 0)

\* s[lo:hi] of Go, with NONE for the panic out of range.
GoSlice(s, lo, hi) == IF 0 <= lo /\ lo <= hi /\ hi <= Len(s) THEN SubSeq(s, lo + 1, hi) ELSE NONE

\* makeCompositeRaw: a length byte, or 0xFF and a uint64 length when the id
\* is longer than 0xFF - 1, then the id and the properties.
MakeCompositeRawLong(idRaw, propsRaw) ==
  LET i == Strip(idRaw)
      p == Strip(propsRaw)
  IN CASE i = <<>> /\ p = <<>> -> <<>>
       [] Len(i) > ByteMax -> <<ByteMax>> \o PutUint64(Len(i)) \o i \o p
       [] OTHER -> <<Len(i) % (ByteMax + 1)>> \o i \o p
MakeCompositeRaw(idRaw, propsRaw) ==
  LET i == Strip(idRaw)
      p == Strip(propsRaw)
  IN CASE i = <<>> /\ p = <<>> -> <<>>
       [] Len(i) > ByteMax - 1 -> <<ByteMax>> \o PutUint64(Len(i)) \o i \o p
       [] OTHER -> <<Len(i) % (ByteMax + 1)>> \o i \o p

\* getRaw: the id and the properties back from idprops.
GetRaw(ip) ==
  CASE ip = <<>> -> <<<<>>, <<>>>>
    [] ip[1] = ByteMax ->
         LET n == GoSlice(ip, 1, 9)
             lnp == IF n = NONE THEN -1 ELSE Uint64(n) + 9
         IN <<GoSlice(ip, 9, lnp), GoSlice(ip, lnp, Len(ip))>>
    [] OTHER -> LET lnp == ip[1] + 1
                IN <<GoSlice(ip, 1, lnp), GoSlice(ip, lnp, Len(ip))>>

\* fillFeatureMap: "geometry" must parse; idprops is made when "id" or
\* "properties" is present.
FillFeatureOf(geom, bb, id, props) ==
  IF geom = NONE THEN NONE
  ELSE [type |-> "Feature", geom |-> geom, bboxDefined |-> bb # NONE,
        bbox |-> IF bb = NONE THEN CalculatedBBox(geom) ELSE bb,
        idprops |-> IF id # NONE \/ props # NONE
                    THEN MakeCompositeRaw(Raw(id), Raw(props)) ELSE <<>>]

-----------------------------------------------------------------------------
(* The predicates. The interface methods dispatch on the object's type.    *)

RECURSIVE WithinBBox(_, _), IntersectsBBox(_, _),
          WithinCircle(_, _, _), IntersectsCircle(_, _, _)

\* LineString.WithinBBox / IntersectsBBox: the "bbox" member when defined,
\* else the positions.
LineWithinBBox(o, b) ==
  IF o.bboxDefined THEN RectInside(CalculatedBBox(o), b)
  ELSE \A i \in 1..Len(o.coords) : PointIn(o.coords[i], b)
LineIntersectsBBox(o, b) ==
  IF o.bboxDefined THEN RectsMeet(CalculatedBBox(o), b)
  ELSE PolyIntersectsRect(o.coords, b)

\* LineString.WithinCircle: no position at DistanceTo >= meters.
LineWithinCircle(o, c, r) ==
  Len(o.coords) # 0 /\ \A i \in 1..Len(o.coords) : Dist2(c, o.coords[i]) < r ^ 2
\* LineString.IntersectsCircle: some segment meets the circle.
LineIntersectsCircle(o, c, r) ==
  \E i \in 1..Len(o.coords) - 1 : SegmentIntersectsCircle(o.coords[i], o.coords[i + 1], c, r)

\* GeometryCollection.WithinBBox / IntersectsBBox: the "bbox" member when
\* defined, else all (and at least one) or any of the members.
CollWithinBBox(o, b) ==
  IF o.bboxDefined THEN RectInside(CalculatedBBox(o), b)
  ELSE o.geoms # <<>> /\ \A i \in 1..Len(o.geoms) : WithinBBox(o.geoms[i], b)
CollIntersectsBBox(o, b) ==
  IF o.bboxDefined THEN RectsMeet(CalculatedBBox(o), b)
  ELSE \E i \in 1..Len(o.geoms) : IntersectsBBox(o.geoms[i], b)

\* GeometryCollection.WithinCircle / IntersectsCircle: all (and at least
\* one) or any of the members; the "bbox" member is not consulted.
CollWithinCircleAll(o, c, r) ==
  \A i \in 1..Len(o.geoms) : WithinCircle(o.geoms[i], c, r)
CollWithinCircle(o, c, r) ==
  o.geoms # <<>> /\ \A i \in 1..Len(o.geoms) : WithinCircle(o.geoms[i], c, r)

CollIntersectsCircle(o, c, r) ==
  \E i \in 1..Len(o.geoms) : IntersectsCircle(o.geoms[i], c, r)

\* Feature: the "bbox" member when defined, else the geometry's answer.
FeatureWithinBBox(o, b) ==
  IF o.bboxDefined THEN RectInside(CalculatedBBox(o), b) ELSE WithinBBox(o.geom, b)
FeatureIntersectsBBox(o, b) ==
  IF o.bboxDefined THEN RectsMeet(CalculatedBBox(o), b) ELSE IntersectsBBox(o.geom, b)
FeatureWithinCircle(o, c, r) == WithinCircle(o.geom, c, r)
FeatureIntersectsCircle(o, c, r) == IntersectsCircle(o.geom, c, r)

WithinBBox(o, b) ==
  CASE o.type = "LineString" -> LineWithinBBox(o, b)
    [] o.type = "GeometryCollection" -> CollWithinBBox(o, b)
    [] OTHER -> FeatureWithinBBox(o, b)
IntersectsBBox(o, b) ==
  CASE o.type = "LineString" -> LineIntersectsBBox(o, b)
    [] o.type = "GeometryCollection" -> CollIntersectsBBox(o, b)
    [] OTHER -> FeatureIntersectsBBox(o, b)
WithinCircle(o, c, r) ==
  CASE o.type = "LineString" -> LineWithinCircle(o, c, r)
    [] o.type = "GeometryCollection" -> CollWithinCircle(o, c, r)
    [] OTHER -> FeatureWithinCircle(o, c, r)
IntersectsCircle(o, c, r) ==
  CASE o.type = "LineString" -> LineIntersectsCircle(o, c, r)
    [] o.type = "GeometryCollection" -> CollIntersectsCircle(o, c, r)
    [] OTHER -> FeatureIntersectsCircle(o, c, r)

-----------------------------------------------------------------------------
(* The parser. Each action parses one JSON object; its members are lines   *)
(* of LineInputs or the object parsed just before. objectMap is assumed    *)
(* to refuse a Feature as a collection member or as a feature's geometry, *)
(* as GeoJSON does.                                                        *)

Radii == 1..2
PropsInputs == BoundedSeq(Bytes, 1) \cup {NONE}
ParsedLines == {FillLineStringOf(cs, NONE) : cs \in LineInputs}
\* The previous result, when it can be a member of a new object.
Nested == IF g # NONE /\ g.type # "Feature" /\ Depth(g) < MaxDepth THEN {g} ELSE {}
MemberLists ==
  {NONE, <<>>} \cup {<<l>> : l \in ParsedLines \cup Nested}
    \cup {<<m, l>> : m \in Nested, l \in ParsedLines}
    \cup {<<l, m>> : m \in Nested, l \in ParsedLines}

FillLineString ==
  \E cs \in LineInputs, bb \in BBoxInputs :
    /\ g' = FillLineStringOf(cs, bb)
    /\ input' = NONE

FillGeometryCollection ==
  \E gs \in MemberLists, bb \in BBoxInputs :
    /\ g' = FillGeometryCollectionOf(gs, bb)
    /\ input' = NONE

FillFeature ==
  \E geom \in ParsedLines \cup Nested, bb \in BBoxInputs,
     id \in Strs \cup {NONE}, props \in PropsInputs :
    /\ g' = FillFeatureOf(geom, bb, id, props)
    /\ input' = IF g' = NONE THEN NONE ELSE <<id, props>>

Init == g = NONE /\ input = NONE

Next == FillLineString \/ FillGeometryCollection \/ FillFeature

Spec == Init /\ [][Next]_vars

-----------------------------------------------------------------------------

TypeOK ==
  /\ g = NONE \/ IsObject(g)
  /\ input \in {NONE} \cup ((Strs \cup {NONE}) \X PropsInputs)

\* CalculatedBBox is "exterior bbox containing the object": the index files
\* an object under it, so whatever WithinBBox or IntersectsBBox accepts must
\* lie inside, or meet, the query rectangle by that box too. This is about
\* the union of the members' boxes a collection computes when it is parsed,
\* and the "bbox" member that overrides it at every level of nesting.
PredicatesAgreeWithBBox ==
  g # NONE =>
    \A b \in Rects :
      /\ WithinBBox(g, b) => RectInside(CalculatedBBox(g), b)
      /\ IntersectsBBox(g, b) => RectsMeet(CalculatedBBox(g), b)

\* An object inside a rectangle or circle also intersects it, through every
\* level of features and collections, the empty collection included.
WithinImpliesIntersects ==
  g # NONE =>
    /\ \A b \in Rects : WithinBBox(g, b) => IntersectsBBox(g, b)
    /\ \A c \in Positions, r \in Radii : WithinCircle(g, c, r) => IntersectsCircle(g, c, r)

\* getRaw reads back from a feature's idprops exactly the id and properties
\* makeCompositeRaw packed, without whitespace, for ids on both sides of the
\* 0xFF - 1 limit of the one-byte length.
CompositeRawRoundTrip ==
  g # NONE /\ g.type = "Feature" =>
    GetRaw(g.idprops) = IF input = NONE THEN <<<<>>, <<>>>>
                        ELSE <<Strip(Raw(input[1])), Strip(Raw(input[2]))>>

=============================================================================
