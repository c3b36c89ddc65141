SPECIFICATION MCSpec
CONSTANTS
  Subject = "StampIntake"
  p1 = p1
  p2 = p2
  o1 = o1
  o2 = o2
  none = none
  certificate = certificate
  reference = reference
  s1 = s1
  s2 = s2
  garbled = garbled
  account = account
  Sheets = {p1, p2}
  Operators = {o1, o2}
  Kinds <- KindsInOrder
  Printed <- PrintedOn
  Misread <- TakenFor
  Account = account
  NONE = none
  MaxRows = 2
  a1 = a1
  a2 = a2
  Agreements = {a1, a2}
  Stamped = {a1}
  Handlers = {}
  Papers = {}
  NoScan = none
  Fields = {}
  MaxVersion = 1
INVARIANTS
  CaughtByAnyOneRight
  RefusedOnlyForCause
SYMMETRY Symmetry
CHECK_DEADLOCK FALSE
