CONSTANTS
  LastSuite = 2
  Programs <- MCPrograms
  References <- MCReferences
  MaxRuns = 2
SPECIFICATION Spec
INVARIANTS PassIsEarned DiffFindsDifferences FailureIsReal ReportMatchesExit ReportIsComplete
PROPERTY PipelineEnds
