----------------------------- MODULE MC_GeoJSON -----------------------------
(* Model values for GeoJSON: a 3x3 grid around the zero position, lines    *)
(* that cross, miss or touch the query rectangles, and a "bbox" member      *)
(* that does not cover every line.                                         *)
EXTENDS GeoJSON

MCCoord == -1..1
MCLineInputs ==
  { <<<<-1, -1>>, <<1, -1>>>>,
    <<<<-1, 1>>, <<1, -1>>>>,
    <<<<0, 1>>, <<1, 1>>>>,
    <<<<1, 0>>>> }
MCBBoxInputs == {NONE, [min |-> <<0, 0>>, max |-> <<1, 1>>]}
====
