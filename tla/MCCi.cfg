CONSTANTS
  Runs = {1}
  Commits <- AllCommits
  Dirty <- DirtyCommits
  Failing <- FailingCommits
  Misfit <- MisfitCommits
  MaxFaults = 2
SPECIFICATION Spec
INVARIANT ArtifactsAreThere
PROPERTY SummaryComes
