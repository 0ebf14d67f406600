\* One handler at a time: staff asks again for a permission that was revoked.
SPECIFICATION Spec
SYMMETRY CallsSymmetry
CHECK_DEADLOCK FALSE
PROPERTIES ShareRespectsRevocation
CONSTANTS
  p1 = p1
  ann = ann
  bob = bob
  c1 = c1
  c2 = c2
  m1 = m1
  m2 = m2
  d1 = d1
  Proposals = {p1}
  Profiles = {ann, bob}
  ProfileOf <- Couples
  Opening <- Interested
  Meetings = {}
  Decisions = {}
  Calls = {c1}
  Kinds = {"REQUEST", "APPROVE", "REVOKE", "SHARE"}
  PatchTargets = {}
