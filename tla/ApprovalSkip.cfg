\* Level 3: a request for changes resets the ladder under an approval in flight.
SPECIFICATION Spec
SYMMETRY CallsSymmetry
CHECK_DEADLOCK FALSE
INVARIANTS FourEyes
CONSTANTS
  maker = maker
  mgr1 = mgr1
  mgr2 = mgr2
  mgr3 = mgr3
  super = super
  staff = staff
  c1 = c1
  c2 = c2
  sweep = sweep
  Admins = {maker, mgr1, super}
  Maker = maker
  RoleOf <- Staffing
  Delegates = {}
  Exposed = {}
  AllowedRoles = {"MANAGER", "SUPER_ADMIN"}
  RequiredLevel = 3
  PolicyQuorum = 1
  Calls = {c1, c2, sweep}
  Sweeper = sweep
  Kinds = {"SUBMIT", "APPROVE", "REQUEST_CHANGES", "CRASH"}
  MaxSteps = 2
  MaxVersion = 3
