CONSTANTS
  LastSuite = 2
  Programs <- MCPrograms
  References <- MCReferences
  MaxRuns = 2
SPECIFICATION Spec
INVARIANT FailedRunIsReported
