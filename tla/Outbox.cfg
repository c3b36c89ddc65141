SPECIFICATION FairSpec
CONSTANTS
  a1 = a1
  p1 = p1
  p2 = p2
  Agreements = {a1}
  Followed <- RejectedAndCompleted
  Passes = {p1, p2}
  Limit = 1
  MaxAttempts = 2
  MaxRows = 2
  MaxVersion = 2
  MaxSlot = 4
  MaxInterrupts = 1
INVARIANTS
  MailsTellTheTruth
  DuplicatesExplained
  OneReminderPerDay
PROPERTY EveryMailSettles
CHECK_DEADLOCK FALSE
