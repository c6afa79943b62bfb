SPECIFICATION DocSpec
CONSTANTS
  RowUnset = 100
  ColumnUnset = 100
  Clients = {}
  Volatiles = {}
  Requests = {}
  SheetSize <- MCSheetSize
  Positions <- MCPositions
  Values <- MCValues
  Blank = 0
  Formulas <- MCFormulas
  NoFormula = "none"
  FormulasAt <- AnyFormulas
  Tokens <- MCTokens
  Volatile <- MCVolatile
  Throws <- MCThrows
  Compute <- MCCompute
  Times = {0, 1}
  Nil <- NoResult
  Default <- DefaultResult
  Err <- RefError
  Unparsable = TRUE
  MaxPending = 2
INVARIANT
  EditsSucceed
\* After a call through a null pointer nothing is said of the program.
CHECK_DEADLOCK FALSE
