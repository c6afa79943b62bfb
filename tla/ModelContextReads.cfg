SPECIFICATION Spec
CONSTANTS
  RowUnset = 100
  ColumnUnset = 100
  Numbers <- MCNumbers
  Texts <- MCTexts
  NoText = ""
  SheetNames <- MCSheetNames
  Sizes <- MCSizes
  ExpressionNames <- MCExpressionNames
  Expressions <- MCExpressions
  InitialModels <- OnlyEmptyContext
  Groups <- MCGroups
  CellResults <- MCCellResults
  GroupResults <- MCGroupResults
  MaxCalls = 3
  Threw = Threw
  Undefined = Undefined
  RichCalls = 1
INVARIANT SomeReadAsDocumented
CHECK_DEADLOCK FALSE
