\* Level 1, a manager and a delegate: approvals, escalation, the gate, the execute route and the daily sweep once the deadline has passed.
\* One account, two requests, one hold, two handlers; one signature request, two signers.
\* A request comes to its end, so a behaviour may stop.
SPECIFICATION GovernanceSpec
CHECK_DEADLOCK FALSE
INVARIANTS FourEyes PerformedNeedsQuorum DelTypeOK HeldKept SignTypeOK SignedMeansAll
PROPERTIES LateRequestsClose DeletionCarriedOut RequestEnds
CONSTANTS
  maker = maker
  mgr1 = mgr1
  mgr2 = mgr2
  mgr3 = mgr3
  super = super
  staff = staff
  c1 = c1
  c2 = c2
  sweep = sweep
  d1 = d1
  d2 = d2
  h1 = h1
  ann = ann
  ben = ben
  Admins = {maker, mgr1, staff}
  Maker = maker
  RoleOf <- Staffing
  Delegates = {staff}
  Exposed = {}
  AllowedRoles = {"MANAGER", "SUPER_ADMIN"}
  RequiredLevel = 1
  PolicyQuorum = 1
  Calls = {c1, c2, sweep}
  Sweeper = sweep
  Kinds = {"SUBMIT", "APPROVE", "ESCALATE", "GATE", "EXECUTE", "DEADLINE"}
  MaxSteps = 2
  MaxVersion = 4
  Deletions = {d1, d2}
  Holds = {h1}
  Officers = {c1, c2}
  MaxDuties = 3
  MaxMishaps = 1
  Signers = {ann, ben}
  Clerks = {c1, c2}
  MaxDeaths = 1
