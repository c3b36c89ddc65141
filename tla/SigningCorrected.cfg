SPECIFICATION Spec
CONSTANTS
  a1 = a1
  c1 = c1
  job = job
  Agreements = {a1}
  Callers = {c1}
  Reconciler = job
  MaxVersion = 2
  MaxTx = 2
  MaxMonth = 1
  MaxInterrupts = 0
INVARIANTS
  StateMatchesDocumentUnlessCrossed
  EveryDocumentFullySigned
  
PROPERTIES
  SignedIsFinal
SYMMETRY Symmetry
CHECK_DEADLOCK FALSE
