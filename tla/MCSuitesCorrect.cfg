CONSTANTS
  MaxSizes = 2
  Programs <- AllPrograms
  MaxFaults = 0
SPECIFICATION Spec
INVARIANT CorrectLibraryPasses
