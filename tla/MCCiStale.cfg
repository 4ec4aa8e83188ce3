CONSTANTS
  Runs = {1, 2}
  Commits <- UnhashedCommits
  Dirty <- NoCommits
  Failing <- NoCommits
  Misfit <- NoCommits
  MaxFaults = 0
SPECIFICATION Spec
INVARIANT PatchChangeInvalidates
CONSTRAINT OnlyBuilders
