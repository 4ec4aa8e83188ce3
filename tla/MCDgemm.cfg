CONSTANTS
  MaxDim = 5
  MC = 2
  NC = 3
  KC = 2
  VLMaxes <- MCVLMaxes
  MayFail <- MCMayFail
SPECIFICATION DgemmSpec
INVARIANTS TypeOK BlocksReadWhatTheyPacked VectorTypeOK PanelsReadWhatTheyPacked
PROPERTIES ImplementsGemm ImplementsLossyGemm VectorTerminates ScalarTerminates
