SPECIFICATION FairSpec
CONSTANTS
  a1 = a1
  nil = nil
  w1 = w1
  w2 = w2
  job = job
  Agreements = {a1}
  NIL = nil
  Writers = {w1, w2}
  Verifier = job
  MaxId = 3
  MaxEdits = 1
INVARIANTS
  ChainLinear
  DeadlocksExplained
PROPERTIES
  FalseAlarmExplained
  EditDetected
  NobodyWaitsForEver
CHECK_DEADLOCK FALSE
