SPECIFICATION MCSpec
CONSTANTS
  Subject = "Portal"
  b1 = b1
  b2 = b2
  agent = agent
  employee = employee
  md = md
  none = none
  Browsers = {b1, b2}
  People = {agent, employee, md}
  RolesOf <- Roles
  Named <- Names
  Linked = {"AGENT"}
  NONE = none
  MaxVersion = 2
  MaxHandlers = 1
  Users = {agent}
  Banks = {}
  Handlers = {}
  Grants = {}
  MaxScripts = 0
INVARIANTS
  SignedAsShown
  OffersWhatTheApiAccepts
  MilestonesTellTheTruth
SYMMETRY Symmetry
CONSTRAINTS StampedBeyondDraft OneCorrectedPage
CHECK_DEADLOCK FALSE
