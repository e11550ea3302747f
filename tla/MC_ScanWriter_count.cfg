CONSTANTS
  Ids <- MCIds
  Vals <- MCVals
  FieldVals <- MCFieldVals
  Collections <- MCCollections
  Queries <- MCCountQueries
  NONE = NONE
  LimitItems = 100
  Width = 8
  MaxCount = 255
  MaxPages = 5

SPECIFICATION Spec
INVARIANT CountIsMatchesAfterCursor
CHECK_DEADLOCK FALSE
