SPECIFICATION Spec
CONSTANTS
  a1 = a1
  a2 = a2
  Agreements = {a1, a2}
  Requestable <- ServiceActions
  MaxVersion = 2
INVARIANTS
  SignedInOrder
  WaitingHasDeadline
PROPERTIES
  TerminalStays
SYMMETRY Symmetry
CHECK_DEADLOCK FALSE
