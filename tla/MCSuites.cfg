CONSTANTS
  MaxSizes = 2
  Programs <- AllPrograms
  MaxFaults = 2
SPECIFICATION Spec
INVARIANTS StatusIsTrue ErrorsAreWorst ProgramPassIsEarned FailureHasCause HeaderChecks IntrinsicsAgree
PROPERTIES ImplementsProgram Ends
