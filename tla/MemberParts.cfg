\* The answers, the family's suggestions, the contact permissions and the meetings of a proposal, two handlers; one order, two refunds, two handlers and
\* crashes; one message, two attempts, two incidents. An order comes to its end, so a behaviour may stop.
SPECIFICATION MemberSpec
SYMMETRY CallsSymmetry
CHECK_DEADLOCK FALSE
INVARIANTS TypeOK InterestBacked ShareNeedsConsent NoLostPromotion MeetingBacked PayTypeOK RefundsBacked PaidBackOnce CancelledNeverPaid PaidIsServed MsgTypeOK SentOnce ReportedTruly
PROPERTIES KeepsPromise
CONSTANTS
  p1 = p1
  ann = ann
  bob = bob
  c1 = c1
  c2 = c2
  m1 = m1
  m2 = m2
  d1 = d1
  o1 = o1
  r1 = r1
  r2 = r2
  ada = ada
  ben = ben
  mail = mail
  Proposals = {p1}
  Profiles = {ann, bob}
  ProfileOf <- Couples
  Opening <- Interested
  Meetings = {m1, m2}
  Decisions = {d1}
  Calls = {c1, c2}
  Kinds = {"CREATE", "RESPOND", "ON_BEHALF", "SUGGEST", "CONFIRM", "CANCEL", "REQUEST", "APPROVE", "REVOKE", "SHARE", "OVERRIDE", "CONSENT", "PATCH", "MEET", "MEETING", "CRASH"}
  PatchTargets = {"ON_HOLD", "REJECTED"}
  Orders = {o1}
  Refunds = {r1, r2}
  Admins = {ada, ben}
  PayCalls = {c1, c2}
  PayKinds = {"CHECKOUT", "COUPON", "CONFIRM", "VERIFY", "REJECT", "CANCEL", "REFUND", "CRASH"}
  Price = 2
  Amounts = {1, 2, 3}
  UsageLimit = 1
  Messages = {mail}
  Couriers = {c1, c2}
  Reports = {"DELIVERED", "EXPIRED"}
  MaxAttempts = 2
  MaxIncidents = 2
