SPECIFICATION SweptSpec
CONSTANTS
  a1 = a1
  c1 = c1
  c2 = c2
  job = job
  Agreements = {a1}
  Callers = {c1, c2}
  Reconciler = job
  MaxVersion = 1
  MaxTx = 3
  MaxMonth = 1
  MaxInterrupts = 0
INVARIANTS
  OpenCeremonyIsVisible
PROPERTIES
  ImplementsLifecycle
  SigningEnds
CHECK_DEADLOCK FALSE
