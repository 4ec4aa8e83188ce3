CONSTANTS
  MaxM = 1
  MaxN = 4
  MaxLanes = 4
  Incs <- MCIncs
  VLMaxes <- MCVLMaxesOfOne
SPECIFICATION Spec
INVARIANT EdgeCaseDdotOfOne
