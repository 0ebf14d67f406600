\* An answer is written after an administrator closed the proposal.
SPECIFICATION Spec
SYMMETRY CallsSymmetry
CHECK_DEADLOCK FALSE
PROPERTIES EndedStaysEnded
CONSTANTS
  p1 = p1
  ann = ann
  bob = bob
  c1 = c1
  c2 = c2
  m1 = m1
  m2 = m2
  d1 = d1
  Proposals = {p1}
  Profiles = {ann, bob}
  ProfileOf <- Couples
  Opening <- NotCreated
  Meetings = {}
  Decisions = {}
  Calls = {c1, c2}
  Kinds = {"CREATE", "RESPOND", "PATCH"}
  PatchTargets = {"CLOSED"}
