SPECIFICATION MCSpec
CONSTANTS
  Subject = "Drafting"
  a1 = a1
  a2 = a2
  c1 = c1
  c2 = c2
  n1 = n1
  n2 = n2
  f1 = f1
  f2 = f2
  none = none
  Agreements = {a1, a2}
  Stamped = {a1}
  Handlers = {c1, c2}
  Papers = {n1, n2}
  NoScan = none
  Fields = {f1, f2}
  MaxVersion = 2
  p1 = p1
  p2 = p2
  certificate = certificate
  reference = reference
  s1 = s1
  s2 = s2
  garbled = garbled
  account = account
  Sheets = {p1, p2}
  Operators = {}
  Kinds <- KindsInOrder
  Printed <- PrintedOn
  Misread <- TakenFor
  Account = account
  NONE = none
  MaxRows = 0
INVARIANTS
  PaperServesOneAgreement
  OnItsOwnStamp
  DocumentIsTheRecord
SYMMETRY Symmetry
CONSTRAINT OneSigned
CHECK_DEADLOCK FALSE
