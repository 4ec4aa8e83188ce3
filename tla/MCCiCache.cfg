CONSTANTS
  Runs = {1, 2}
  Commits <- PatchCommits
  Dirty <- DirtyCommits
  Failing <- NoCommits
  Misfit <- NoCommits
  MaxFaults = 0
SPECIFICATION Spec
INVARIANTS TypeOK OpenblasIsCurrent KeptOpenblasIsAudited
CONSTRAINT OnlyBuilders
