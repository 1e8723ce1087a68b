SPECIFICATION Spec
CONSTANTS
  Files = {implements, workings}
  None = None
  MayFail <- CleanFailures
  RestoreInterrupted = FALSE
  MaxTransactions = 4
  MaxId = 5
INVARIANTS LedgerInv AcknowledgedSurvives LinkedTogether
