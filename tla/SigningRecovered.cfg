SPECIFICATION JobSpec
CONSTANTS
  a1 = a1
  a2 = a2
  c1 = c1
  job = job
  Agreements = {a1, a2}
  Callers = {c1}
  Reconciler = job
  MaxVersion = 1
  MaxTx = 2
  MaxMonth = 2
  MaxInterrupts = 1
INVARIANTS
  StateMatchesDocument
  SignedTxHasDocument
PROPERTIES
  LostCallbackRecovered
ACTION_CONSTRAINT Recovering
CHECK_DEADLOCK FALSE
