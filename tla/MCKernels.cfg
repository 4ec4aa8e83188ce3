CONSTANTS
  MaxM = 2
  MaxN = 9
  MaxLanes = 4
  Incs <- MCIncs
  VLMaxes <- MCVLMaxes
SPECIFICATION KernelsSpec
INVARIANTS EveryElementOnce PrefixUpdated ProductsCountedOnce PoisonNeedsShortStrip
PROPERTIES RowsStoredInOrder ElementwiseTerminates ReductionsTerminate
