\* Two refunds of two thirds of one payment, one handler at a time: each is compared with the whole payment.
SPECIFICATION PaySpec
SYMMETRY HandlersSymmetry
CHECK_DEADLOCK FALSE
INVARIANTS RefundsWithinPayment
CONSTANTS
  o1 = o1
  o2 = o2
  r1 = r1
  r2 = r2
  ada = ada
  ben = ben
  c1 = c1
  c2 = c2
  c3 = c3
  Orders = {o1}
  Refunds = {r1, r2}
  Admins = {ada, ben}
  PayCalls = {c1}
  PayKinds = {"CHECKOUT", "CONFIRM", "VERIFY", "REFUND"}
  Price = 3
  Amounts = {2}
  UsageLimit = 1
