CONSTANTS
  Ids <- MCIds
  Vals <- MCVals
  FieldVals <- MCFieldVals
  Collections <- MCExpCollections
  Queries <- MCKnnExpiredQueries
  NONE = NONE
  LimitItems = 100
  Width = 8
  MaxCount = 255
  MaxPages = 5

SPECIFICATION Spec
INVARIANT PagesListEachMatchOnce
CHECK_DEADLOCK FALSE
