CONSTANTS
  Ids <- MCIds
  Vals <- MCVals
  FieldVals <- MCFieldVals
  Collections <- MCCollections
  Queries <- MCPagingQueries
  NONE = NONE
  LimitItems = 100
  Width = 8
  MaxCount = 255
  MaxPages = 5

SPECIFICATION Spec
INVARIANT TypeOK
INVARIANT PagesListEachMatchOnce
INVARIANT PagingEndsInBoundedPages
CHECK_DEADLOCK FALSE
