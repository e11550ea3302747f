CONSTANTS
  Coord <- MCCoord
  LineInputs <- MCLineInputs
  BBoxInputs <- MCBBoxInputs
  Bytes = {0, 1}
  Ws = {0}
  MaxStrLen = 4
  ByteMax = 3
  MaxDepth = 3
  NONE = NONE
SPECIFICATION Spec
INVARIANT TypeOK
INVARIANT PredicatesAgreeWithBBox
INVARIANT WithinImpliesIntersects
INVARIANT CompositeRawRoundTrip
