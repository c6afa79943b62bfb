SPECIFICATION Spec
CONSTANTS
  Cells = {1, 2, 3}
  Results <- MCResults
  Errors <- MCErrors
  Empty = 0
  RefNotAvailable <- RefError
  Nil <- NoResult
  Formula <- MCFormula
  MaxReads = 3
  Jobs <- FreeJobs
INVARIANT ThreadsAsPromised
