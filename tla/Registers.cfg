SPECIFICATION MCSpec
CONSTANTS
  u1 = u1
  nobody = nobody
  b1 = b1
  l1 = l1
  h1 = h1
  h2 = h2
  Agents = {u1}
  NOBODY = nobody
  Banks = {b1}
  Links = {l1}
  Handlers = {h1, h2}
  Base = 3
  Capacity = 3
  MaxYear = 2
  MaxAgreements = 3
  MaxVersion = 2
  s1 = s1
  s2 = s2
  plain = plain
  dotted = dotted
  number = number
  a1 = a1
  Staff = {s1, s2}
  Plain = {plain}
  Dotted = {dotted}
  SystemProvided = {number}
  Agreements = {a1}
  MaxTexts = 1
INVARIANTS
  ExecutedAsApproved
  RegisterGapFree
  NextReferenceIsFree
  NextTextCanBeStored
  OneSessionPerLink
SYMMETRY Symmetry
CHECK_DEADLOCK FALSE
