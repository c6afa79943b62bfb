SPECIFICATION Spec
CONSTANTS
  RowUnset = 60
  ColumnUnset = 60
  RowBound = 50
  ColumnBound = 30
  Letters <- MCLetters
  Digits <- MCDigits
  SheetNames <- MCSheetNames
  SheetSize <- MCSheetSize
  FunctionNames <- MCFunctionNames
  ErrorNames <- MCErrorNames
  Formulas <- MCFormulas
  References <- MCReferences
  NoTokens = NoTokens
INVARIANTS
  FormulasReadBack
  ReferencesReadBack
\* A behaviour ends when the formula has been read again, or could not be read.
CHECK_DEADLOCK FALSE
