\* Level 2, sent back for changes under an approval in flight and submitted again.
SPECIFICATION RoundsSpec
SYMMETRY CallsSymmetry
CHECK_DEADLOCK FALSE
INVARIANTS ApprovalsAreFresh
CONSTANTS
  maker = maker
  mgr1 = mgr1
  mgr2 = mgr2
  mgr3 = mgr3
  super = super
  staff = staff
  c1 = c1
  c2 = c2
  sweep = sweep
  Maker = maker
  RoleOf <- Staffing
  Delegates = {}
  AllowedRoles = {"MANAGER", "SUPER_ADMIN"}
  RequiredLevel = 2
  PolicyQuorum = 2
  Sweeper = sweep
  MaxSteps = 2
  Admins = {maker, mgr1, mgr2}
  Exposed = {}
  Calls = {c1, c2, sweep}
  Kinds = {"SUBMIT", "APPROVE", "REQUEST_CHANGES"}
  MaxVersion = 5
