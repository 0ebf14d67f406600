\* Two gate calls on one approval.
SPECIFICATION Spec
SYMMETRY CallsSymmetry
CHECK_DEADLOCK FALSE
INVARIANTS CountedOnce
CONSTANTS
  maker = maker
  mgr1 = mgr1
  mgr2 = mgr2
  mgr3 = mgr3
  super = super
  staff = staff
  c1 = c1
  c2 = c2
  sweep = sweep
  Admins = {maker, mgr1, super}
  Maker = maker
  RoleOf <- Staffing
  Delegates = {}
  Exposed = {}
  AllowedRoles = {"MANAGER", "SUPER_ADMIN"}
  RequiredLevel = 1
  PolicyQuorum = 1
  Calls = {c1, c2, sweep}
  Sweeper = sweep
  Kinds = {"SUBMIT", "APPROVE", "GATE"}
  MaxSteps = 2
  MaxVersion = 4
