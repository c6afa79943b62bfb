SPECIFICATION Spec
CONSTANTS
  RowUnset = 100
  ColumnUnset = 100
  Numbers <- MCNumbers
  Texts <- MCTexts
  NoText = ""
  SheetNames <- MCSheetNames
  Sizes <- MCSizes
  ExpressionNames <- MCExpressionNames
  Expressions <- MCExpressions
  InitialModels <- MCInitialModels
  Groups <- MCGroups
  CellResults <- MCCellResults
  GroupResults <- MCGroupResults
  MaxCalls = 3
  Threw = Threw
  Undefined = Undefined
  RichCalls = 1
INVARIANTS
  TypeOK
  ReadsWhatWasPut
  LookupsAgree
  RangeQueries
  IteratorsComplete
\* A behaviour ends after MaxCalls operations.
CHECK_DEADLOCK FALSE
