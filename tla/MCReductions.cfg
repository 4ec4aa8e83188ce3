CONSTANTS
  MaxM = 2
  MaxN = 9
  MaxLanes = 4
  VLMaxes <- MCVLMaxes
SPECIFICATION Spec
INVARIANTS ProductsCountedOnce PoisonNeedsShortStrip
PROPERTIES RowsStoredInOrder Terminates
