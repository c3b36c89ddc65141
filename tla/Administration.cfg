SPECIFICATION MCSpec
CONSTANTS
  Subject = "Administration"
  u1 = u1
  u2 = u2
  b1 = b1
  none = none
  h1 = h1
  h2 = h2
  Users = {u1, u2}
  Banks = {b1}
  NONE = none
  Handlers = {h1, h2}
  Grants <- RoleSets
  MaxScripts = 1
  agent = agent
  employee = employee
  md = md
  Browsers = {}
  People = {agent, employee, md}
  RolesOf <- Roles
  Named <- Names
  Linked = {}
  MaxVersion = 1
  MaxHandlers = 0
INVARIANTS
  AdministratorRemains
  CountersignerFit
SYMMETRY Symmetry
CHECK_DEADLOCK FALSE
