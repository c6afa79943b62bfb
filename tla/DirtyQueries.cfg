SPECIFICATION FairSpec
CONSTANTS
  RowUnset = 100
  ColumnUnset = 100
  Clients <- MCClients
  Volatiles <- MCVolatiles
  Requests <- MCRequests
INVARIANTS
  TypeOK
  AnswerIsDirtySet
  AnswerInOrder
  SortKnowsEveryRange
PROPERTIES
  QueryReturns
  ImplementsTracking
