\* Level 3, a manager then a Super Admin, with decisions and cancellation; level 2, with requests for changes, resubmission and deactivated
\* approvers; crashes in both; level 1, where a manager comes into conflict
\* with the record and out of it. Kinds, RequiredLevel and MaxVersion are those of the agenda.
SPECIFICATION PartsSpec
SYMMETRY PairSymmetry
CHECK_DEADLOCK FALSE
INVARIANTS TypeOK NoConflictedDecision FourEyes
PROPERTIES StatusFollowsTable
CONSTANTS
  maker = maker
  mgr1 = mgr1
  mgr2 = mgr2
  mgr3 = mgr3
  super = super
  staff = staff
  c1 = c1
  c2 = c2
  sweep = sweep
  Admins = {maker, mgr1, mgr2, mgr3, super}
  Maker = maker
  RoleOf <- Staffing
  Delegates = {}
  Exposed = {mgr3}
  AllowedRoles = {"MANAGER", "SUPER_ADMIN"}
  RequiredLevel = 3
  PolicyQuorum = 1
  Calls = {c1, c2, sweep}
  Sweeper = sweep
  Kinds = {"SUBMIT", "APPROVE", "REJECT", "CANCEL", "CRASH"}
  MaxSteps = 2
  MaxVersion = 3
