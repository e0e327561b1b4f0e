SPECIFICATION FairSpec
CONSTANTS
  Workers = {w1, w2, w3}
  From = 1
  To = 4
  Existing <- FirstStored
INVARIANTS SuccessIsComplete CauseReported
PROPERTIES ImplementsBatch CallReturns
