SPECIFICATION FairSpec
CONSTANTS
  Cells = {1, 2, 3}
  Results <- MCResults
  Errors <- MCErrors
  Empty = 0
  RefNotAvailable <- RefError
  Nil <- NoResult
  Formula <- MCFormula
  MaxReads = 3
  Jobs <- AllJobs
INVARIANTS
  TypeOK
  WakeupPending
  WaitsOnEarlier
  ResultsAgree
  NothingOutlivesCall
  ReturnMeansAll
PROPERTIES
  ImplementsCalculation
  SettledForever
  QuietCallReturns
CHECK_DEADLOCK FALSE
