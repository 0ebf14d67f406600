-------------------------- MODULE SettlementProofs --------------------------
(***************************************************************************)
(* Proofs about Settlement, for any number of orders, refunds, calls and   *)
(* administrators, any price and any amounts.                              *)
(***************************************************************************)
EXTENDS Settlement, TLAPS

-----------------------------------------------------------------------------
(* The tables of status-transitions.ts, as far as the proofs ask them      *)

LEMMA PaymentTable ==
  ASSUME NEW s \in {NotYet} \cup PaymentStatus
  PROVE  /\ "PAID" \in PaymentTransitions(s) => s \in {"PROCESSING", "DISPUTED"}
         /\ "REFUNDED" \in PaymentTransitions(s) => s \in {"PAID", "PARTIALLY_REFUNDED", "DISPUTED"}
BY DEF PaymentStatus, PaymentTransitions, NotYet

LEMMA OrderTable ==
  ASSUME NEW s \in {NotYet} \cup OrderStatus
  PROVE  /\ "PAID" \in OrderTransitions(s) => s = "PAYMENT_PROCESSING"
         /\ "CANCELLED" \in OrderTransitions(s) => s \in {"DRAFT", "PENDING_PAYMENT"}
BY DEF OrderStatus, OrderTransitions, NotYet

(* Nothing a decision or an execution may do starts from a refund whose    *)
(* money is being or has been paid back, or from none.                     *)
LEMMA DecisionTable ==
  ASSUME NEW s \in {NotYet} \cup RefundStatus, NEW to \in {"APPROVED", "REJECTED", "PROCESSING"}, NEW own \in BOOLEAN,
         MayDecide(s, to, own)
  PROVE  /\ s \notin {NotYet, "PROCESSING", "COMPLETED"}
         /\ to = "PROCESSING" => s = "APPROVED"
         /\ to = "APPROVED" => ~own
BY DEF RefundStatus, RefundTransitions, MayDecide, MayApprove, NotYet

-----------------------------------------------------------------------------
(* Types, and what a step does to the handlers                             *)

Others(c) == \A d \in PayCalls \ {c} : payCall'[d] = payCall[d]

(* The handler goes on with what it has in its hands.                      *)
SameHands(c) ==
  /\ payCall'[c].order = payCall[c].order /\ payCall'[c].refund = payCall[c].refund
  /\ payCall'[c].admin = payCall[c].admin /\ payCall'[c].orderSeen = payCall[c].orderSeen
  /\ payCall'[c].refundSeen = payCall[c].refundSeen /\ payCall'[c].to = payCall[c].to

LEMMA IdleType == PayIdle \in PayCall /\ NoRefund \in Refund
<1>1. AnyOrder \in Orders /\ AnyRefund \in Refunds
  BY PayConstants DEF AnyOrder, AnyRefund
<1> QED
  BY <1>1 DEF PayIdle, NoRefund, PayCall, Refund, PayPCs

LEMMA GotoEffect ==
  ASSUME PayTypeOK, NEW c \in PayCalls, NEW pc \in PayPCs, PayGoto(c, pc)
  PROVE  payCall' \in [PayCalls -> PayCall] /\ Others(c) /\ payCall'[c].pc = pc /\ SameHands(c)
<1>1. payCall \in [PayCalls -> PayCall] /\ payCall[c] \in PayCall
  BY DEF PayTypeOK
<1>2. payCall' = [payCall EXCEPT ![c] = [payCall[c] EXCEPT !.pc = pc]]
  BY <1>1 DEF PayGoto
<1>3. [payCall[c] EXCEPT !.pc = pc] \in PayCall
  BY <1>1 DEF PayCall
<1>4. payCall'[c] = [payCall[c] EXCEPT !.pc = pc] /\ Others(c)
  BY <1>1, <1>2 DEF Others
<1> QED
  BY <1>1, <1>2, <1>3, <1>4 DEF PayCall, SameHands

LEMMA DoneEffect ==
  ASSUME PayTypeOK, NEW c \in PayCalls, PayDone(c)
  PROVE  payCall' \in [PayCalls -> PayCall] /\ Others(c) /\ payCall'[c].pc = "idle"
<1>1. payCall'[c] = PayIdle /\ Others(c) /\ payCall' \in [PayCalls -> PayCall]
  BY IdleType DEF PayTypeOK, PayDone, Others
<1> QED
  BY <1>1 DEF PayIdle

LEMMA BeginEffect ==
  ASSUME PayTypeOK, NEW c \in PayCalls, NEW kind, NEW begun, PayBegin(c, kind, begun)
  PROVE  /\ PayAt(c, "idle") /\ payCall'[c] = begun /\ Others(c) /\ UNCHANGED payRows
         /\ begun \in PayCall => payCall' \in [PayCalls -> PayCall]
BY DEF PayTypeOK, PayBegin, Others

(* A step that begins with the call typed leaves the types alone.          *)
LEMMA RowsType ==
  ASSUME PayTypeOK, UNCHANGED payRows, payCall' \in [PayCalls -> PayCall]
  PROVE  PayTypeOK'
BY DEF PayTypeOK, payRows, sale

LEMMA CheckoutEffect ==
  ASSUME PayTypeOK, NEW c \in PayCalls, NEW o \in Orders, NEW withCoupon \in BOOLEAN, BeginCheckout(c, o, withCoupon)
  PROVE  /\ PayAt(c, "idle") /\ Others(c) /\ UNCHANGED payRows /\ PayTypeOK'
         /\ payCall'[c].pc = "createOrder" /\ payCall'[c].order = o
         /\ order[o] = NotYet /\ ~Placing(o)
<1> DEFINE begun == [PayIdle EXCEPT !.pc = "createOrder", !.order = o, !.coupon = withCoupon]
<1>1. begun \in PayCall /\ begun.pc = "createOrder" /\ begun.order = o
  BY IdleType DEF PayCall, PayPCs
<1>2. PayBegin(c, "CHECKOUT", begun) /\ order[o] = NotYet /\ ~Placing(o)
  BY Zenon DEF BeginCheckout
<1> HIDE DEF begun
<1> QED
  BY <1>1, <1>2, BeginEffect, RowsType

LEMMA ConfirmEffect ==
  ASSUME PayTypeOK, NEW c \in PayCalls, NEW o \in Orders, BeginPayConfirm(c, o)
  PROVE  /\ PayAt(c, "idle") /\ Others(c) /\ UNCHANGED payRows /\ PayTypeOK'
         /\ payCall'[c].pc = "createDetail" /\ payCall'[c].order = o
         /\ payment[o] # NotYet
<1> DEFINE begun == [PayIdle EXCEPT !.pc = "createDetail", !.order = o]
<1>1. begun \in PayCall /\ begun.pc = "createDetail" /\ begun.order = o
  BY IdleType DEF PayCall, PayPCs
<1>2. PayBegin(c, "CONFIRM", begun) /\ payment[o] # NotYet
  BY Zenon DEF BeginPayConfirm
<1> HIDE DEF begun
<1> QED
  BY <1>1, <1>2, BeginEffect, RowsType

LEMMA VerifyEffect ==
  ASSUME PayTypeOK, NEW c \in PayCalls, NEW o \in Orders, BeginVerify(c, o)
  PROVE  /\ PayAt(c, "idle") /\ Others(c) /\ UNCHANGED payRows /\ PayTypeOK'
         /\ payCall'[c].pc = "settle" /\ payCall'[c].order = o
         /\ detail[o] = "PENDING_VERIFICATION" /\ payment[o] \in {"PROCESSING", "DISPUTED"}
         /\ order[o] \in {"PENDING_PAYMENT", "PAYMENT_PROCESSING"}
<1> DEFINE begun == [PayIdle EXCEPT !.pc = "settle", !.order = o]
<1>1. begun \in PayCall /\ begun.pc = "settle" /\ begun.order = o
  BY IdleType DEF PayCall, PayPCs
<1>2. /\ PayBegin(c, "VERIFY", begun) /\ detail[o] = "PENDING_VERIFICATION"
      /\ "PAID" \in PaymentTransitions(payment[o]) /\ "PAID" \in OrderTransitions(orderFrom(o))
  BY Zenon DEF BeginVerify
<1>3. payment[o] \in {"PROCESSING", "DISPUTED"}
  BY <1>2, PaymentTable DEF PayTypeOK
<1>4. orderFrom(o) = "PAYMENT_PROCESSING"
  <2>1. orderFrom(o) \in {NotYet} \cup OrderStatus
    BY DEF PayTypeOK, orderFrom, OrderStatus
  <2> QED
    BY <1>2, <2>1, OrderTable
<1>5. order[o] \in {"PENDING_PAYMENT", "PAYMENT_PROCESSING"}
  BY <1>4 DEF orderFrom
<1> HIDE DEF begun
<1> QED
  BY <1>1, <1>2, <1>3, <1>5, BeginEffect, RowsType

LEMMA RejectEffect ==
  ASSUME PayTypeOK, NEW c \in PayCalls, NEW o \in Orders, BeginReject(c, o)
  PROVE  /\ PayAt(c, "idle") /\ Others(c) /\ UNCHANGED payRows /\ PayTypeOK'
         /\ payCall'[c].pc = "reject" /\ payCall'[c].order = o
         /\ detail[o] = "PENDING_VERIFICATION"
<1> DEFINE begun == [PayIdle EXCEPT !.pc = "reject", !.order = o]
<1>1. begun \in PayCall /\ begun.pc = "reject" /\ begun.order = o
  BY IdleType DEF PayCall, PayPCs
<1>2. PayBegin(c, "REJECT", begun) /\ detail[o] = "PENDING_VERIFICATION"
  BY Zenon DEF BeginReject
<1> HIDE DEF begun
<1> QED
  BY <1>1, <1>2, BeginEffect, RowsType

LEMMA CancelEffect ==
  ASSUME PayTypeOK, NEW c \in PayCalls, NEW o \in Orders, BeginCancel(c, o)
  PROVE  /\ PayAt(c, "idle") /\ Others(c) /\ UNCHANGED payRows /\ PayTypeOK'
         /\ payCall'[c].pc = "cancel" /\ payCall'[c].order = o /\ payCall'[c].orderSeen = order[o]
         /\ order[o] \in {"DRAFT", "PENDING_PAYMENT"}
<1> DEFINE begun == [PayIdle EXCEPT !.pc = "cancel", !.order = o, !.orderSeen = order[o], !.paymentSeen = payment[o]]
<1>1. begun \in PayCall /\ begun.pc = "cancel" /\ begun.order = o /\ begun.orderSeen = order[o]
  <2>1. order[o] \in {NotYet} \cup OrderStatus /\ payment[o] \in {NotYet} \cup PaymentStatus
    BY DEF PayTypeOK
  <2> QED
    BY <2>1, IdleType DEF PayCall, PayPCs
<1>2. PayBegin(c, "CANCEL", begun) /\ "CANCELLED" \in OrderTransitions(order[o])
  BY Zenon DEF BeginCancel
<1>3. order[o] \in {"DRAFT", "PENDING_PAYMENT"}
  BY <1>2, OrderTable DEF PayTypeOK
<1> HIDE DEF begun
<1> QED
  BY <1>1, <1>2, <1>3, BeginEffect, RowsType

LEMMA RequestEffect ==
  ASSUME PayTypeOK, NEW c \in PayCalls, NEW r \in Refunds, NEW o \in Orders, NEW amount \in Amounts, NEW a \in Admins,
         BeginRequest(c, r, o, amount, a)
  PROVE  /\ PayAt(c, "idle") /\ Others(c) /\ UNCHANGED payRows /\ PayTypeOK'
         /\ payCall'[c].pc = "createRefund" /\ payCall'[c].refund = r /\ payCall'[c].order = o /\ payCall'[c].admin = a
         /\ payment[o] \in {"PAID", "PARTIALLY_REFUNDED"} /\ refund[r].status = NotYet /\ ~Requesting(r)
<1> DEFINE begun == [PayIdle EXCEPT !.pc = "createRefund", !.refund = r, !.order = o, !.amount = amount, !.admin = a]
<1>1. begun \in PayCall /\ begun.pc = "createRefund" /\ begun.refund = r /\ begun.order = o /\ begun.admin = a
  <2>1. amount \in Nat
    BY PayConstants
  <2> QED
    BY <2>1, IdleType DEF PayCall, PayPCs
<1>2. /\ PayBegin(c, "REFUND", begun) /\ payment[o] \in {"PAID", "PARTIALLY_REFUNDED"}
      /\ refund[r].status = NotYet /\ ~Requesting(r)
  BY Zenon DEF BeginRequest, Refundable
<1> HIDE DEF begun
<1> QED
  BY <1>1, <1>2, BeginEffect, RowsType

LEMMA RefundStepEffect ==
  ASSUME PayTypeOK, NEW c \in PayCalls, NEW r \in Refunds, NEW a \in Admins, NEW to \in {"APPROVED", "REJECTED", "PROCESSING"},
         BeginRefundStep(c, r, a, to)
  PROVE  /\ PayAt(c, "idle") /\ Others(c) /\ UNCHANGED payRows /\ PayTypeOK'
         /\ payCall'[c].pc = "claimRefund" /\ payCall'[c].refund = r /\ payCall'[c].admin = a
         /\ payCall'[c].refundSeen = refund[r].status /\ payCall'[c].to = to
         /\ refund[r].status \notin {NotYet, "PROCESSING", "COMPLETED"}
         /\ to = "PROCESSING" => refund[r].status = "APPROVED"
         /\ to = "APPROVED" => refund[r].requestedBy # a
<1> DEFINE begun == [PayIdle EXCEPT !.pc = "claimRefund", !.refund = r, !.admin = a,
                                     !.refundSeen = refund[r].status, !.to = to]
<1>1. refund[r].status \in {NotYet} \cup RefundStatus /\ to \in {NotYet} \cup RefundStatus
  BY DEF PayTypeOK, Refund, RefundStatus
<1>2. /\ begun \in PayCall /\ begun.pc = "claimRefund" /\ begun.refund = r /\ begun.admin = a
      /\ begun.refundSeen = refund[r].status /\ begun.to = to
  BY <1>1, IdleType DEF PayCall, PayPCs
<1>3. PayBegin(c, "REFUND", begun) /\ MayDecide(refund[r].status, to, refund[r].requestedBy = a)
  BY Zenon DEF BeginRefundStep
<1>4. /\ refund[r].status \notin {NotYet, "PROCESSING", "COMPLETED"}
      /\ to = "PROCESSING" => refund[r].status = "APPROVED"
      /\ to = "APPROVED" => refund[r].requestedBy # a
  <2>1. CASE refund[r].requestedBy = a
    <3>1. MayDecide(refund[r].status, to, TRUE)
      BY <1>3, <2>1 DEF MayDecide
    <3> QED
      BY <1>1, <3>1, DecisionTable
  <2>2. CASE refund[r].requestedBy # a
    <3>1. MayDecide(refund[r].status, to, FALSE)
      BY <1>3, <2>2 DEF MayDecide
    <3> QED
      BY <1>1, <2>2, <3>1, DecisionTable
  <2> QED
    BY <2>1, <2>2
<1> HIDE DEF begun
<1> QED
  BY <1>2, <1>3, <1>4, BeginEffect, RowsType

LEMMA ContinueType ==
  ASSUME PayTypeOK, NEW c \in PayCalls, PayContinue(c)
  PROVE  PayTypeOK'
<1>1. payCall[c] \in PayCall /\ payCall[c].order \in Orders /\ payCall[c].refund \in Refunds
  BY DEF PayTypeOK, PayCall
<1>2. \A pc \in PayPCs : PayGoto(c, pc) => payCall' \in [PayCalls -> PayCall]
  BY GotoEffect
<1>3. PayDone(c) => payCall' \in [PayCalls -> PayCall]
  BY DoneEffect
<1>4. CASE CreateOrder(c)
  BY <1>1, <1>2, <1>4 DEF CreateOrder, PayTypeOK, OrderStatus, PayPCs
<1>5. CASE RedeemCoupon(c)
  BY <1>1, <1>2, <1>5 DEF RedeemCoupon, PayTypeOK, CouponStatus, PayPCs
<1>6. CASE CreatePayment(c)
  BY <1>1, <1>2, <1>6 DEF CreatePayment, PayTypeOK, PaymentStatus, PayPCs
<1>7. CASE OpenPayment(c)
  BY <1>1, <1>3, <1>7 DEF OpenPayment, PayTypeOK, PaymentStatus
<1>8. CASE CreateDetail(c)
  BY <1>1, <1>2, <1>3, <1>8 DEF CreateDetail, PayTypeOK, DetailStatus, PayPCs
<1>9. CASE MoveToProcessing(c)
  BY <1>1, <1>3, <1>9 DEF MoveToProcessing, PayTypeOK, PaymentStatus, OrderStatus
<1>10. CASE SettlePayment(c)
  BY <1>1, <1>2, <1>3, <1>10 DEF SettlePayment, Settled, PayTypeOK, DetailStatus, PaymentStatus, OrderStatus, PayPCs
<1>11. CASE GenerateInvoice(c)
  BY <1>1, <1>2, <1>11 DEF GenerateInvoice, PayTypeOK, PayPCs
<1>12. CASE Activate(c)
  BY <1>1, <1>3, <1>12 DEF Activate, PayTypeOK
<1>13. CASE RejectPayment(c)
  BY <1>1, <1>3, <1>13 DEF RejectPayment, PayTypeOK, DetailStatus, PaymentStatus, OrderStatus
<1>14. CASE CancelOrder(c)
  BY <1>1, <1>3, <1>14 DEF CancelOrder, Cancelled, PayTypeOK, CouponStatus, PaymentStatus, OrderStatus
<1>15. CASE CreateRefund(c)
  <2> DEFINE row == [NoRefund EXCEPT !.status = "REQUESTED", !.order = payCall[c].order, !.amount = payCall[c].amount,
                                     !.requestedBy = payCall[c].admin]
  <2>1. row \in Refund
    BY <1>1, IdleType DEF PayCall, Refund, RefundStatus
  <2>2. refund' = [refund EXCEPT ![payCall[c].refund] = row] /\ PayDone(c) /\ UNCHANGED <<sale, paidBack>>
    BY <1>15, Zenon DEF CreateRefund
  <2> HIDE DEF row
  <2> QED
    BY <1>1, <1>3, <2>1, <2>2 DEF PayTypeOK, sale
<1>16. CASE claimRefundStatus(c)
  <2> DEFINE r == payCall[c].refund
             row == [refund[r] EXCEPT !.status = payCall[c].to,
                                      !.approvedBy = IF payCall[c].to = "APPROVED" THEN payCall[c].admin ELSE @]
  <2>1. refund[r] \in Refund /\ refund \in [Refunds -> Refund]
    BY <1>1 DEF PayTypeOK
  <2>2. row \in Refund
    BY <1>1, <2>1 DEF PayCall, Refund
  <2>3. Claimed(c) => refund' = [refund EXCEPT ![r] = row]
    BY <1>1, <2>1 DEF Claimed
  <2>4. Claimed(c) => payCall' \in [PayCalls -> PayCall]
    BY <1>2, <1>3 DEF Claimed, PayPCs
  <2>5. UNCHANGED <<sale, paidBack>> /\ (Claimed(c) \/ (PayDone(c) /\ UNCHANGED refund))
    BY <1>16, Zenon DEF claimRefundStatus
  <2> HIDE DEF row
  <2> QED
    BY <1>1, <1>3, <2>2, <2>3, <2>4, <2>5 DEF PayTypeOK, sale
<1>17. CASE refundPayment(c)
  BY <1>1, <1>2, <1>3, <1>17 DEF refundPayment, PayTypeOK, sale, PayPCs
<1>18. CASE CompleteRefund(c)
  <2>1. refund' \in [Refunds -> Refund]
    BY <1>1, <1>18 DEF CompleteRefund, PayTypeOK, Refund, RefundStatus
  <2>2. payment' \in [Orders -> {NotYet} \cup PaymentStatus]
    BY <1>1, <1>18 DEF CompleteRefund, PayTypeOK, PaymentStatus, NewPaymentStatus
  <2>3. payCall' \in [PayCalls -> PayCall] /\ UNCHANGED <<order, detail, coupon, invoice, members, paidBack, killed>>
    BY <1>2, <1>3, <1>18 DEF CompleteRefund, PayPCs
  <2> QED
    BY <2>1, <2>2, <2>3 DEF PayTypeOK
<1>19. CASE ReverseCoupon(c)
  <2>1. refund[payCall[c].refund].order \in Orders
    BY <1>1 DEF PayTypeOK, Refund
  <2> QED
    BY <1>1, <1>3, <1>19, <2>1 DEF ReverseCoupon, PayTypeOK, CouponStatus
<1> QED
  BY <1>4, <1>5, <1>6, <1>7, <1>8, <1>9, <1>10, <1>11, <1>12, <1>13, <1>14, <1>15, <1>16, <1>17, <1>18, <1>19
     DEF PayContinue

LEMMA CrashType ==
  ASSUME PayTypeOK, NEW c \in PayCalls, PayCrash(c)
  PROVE  PayTypeOK'
BY DoneEffect DEF PayCrash, PayTypeOK

LEMMA StartType ==
  ASSUME PayTypeOK, NEW c \in PayCalls, PayStart(c)
  PROVE  PayTypeOK'
<1>1. ASSUME NEW o \in Orders, NEW withCoupon \in BOOLEAN, BeginCheckout(c, o, withCoupon) PROVE PayTypeOK'
  BY <1>1, CheckoutEffect
<1>2. ASSUME NEW o \in Orders, BeginPayConfirm(c, o) \/ BeginVerify(c, o) \/ BeginReject(c, o) \/ BeginCancel(c, o) PROVE PayTypeOK'
  BY <1>2, ConfirmEffect, VerifyEffect, RejectEffect, CancelEffect
<1>3. ASSUME NEW o \in Orders, NEW r \in Refunds, NEW amount \in Amounts, NEW a \in Admins, BeginRequest(c, r, o, amount, a)
      PROVE  PayTypeOK'
  BY <1>3, RequestEffect
<1>4. ASSUME NEW r \in Refunds, NEW a \in Admins, NEW to \in {"APPROVED", "REJECTED", "PROCESSING"}, BeginRefundStep(c, r, a, to)
      PROVE  PayTypeOK'
  BY <1>4, RefundStepEffect
<1> QED
  BY <1>1, <1>2, <1>3, <1>4 DEF PayStart

LEMMA StepType == PayTypeOK /\ [PayNext]_payVars => PayTypeOK'
<1>1. PayTypeOK /\ UNCHANGED payVars => PayTypeOK'
  BY RowsType DEF payVars, payRows, sale, PayTypeOK
<1> QED
  BY <1>1, ContinueType, StartType, CrashType DEF PayNext

LEMMA InitType == PayInit => PayTypeOK
BY IdleType DEF PayInit, PayTypeOK, DetailStatus, CouponStatus

(* The rows of an order, its payment, its refunds and the locals of every  *)
(* handler keep the types of the schema, whatever the handlers interleave. *)
THEOREM TypeCorrect == PaySpec => []PayTypeOK
BY InitType, StepType, PTL DEF PaySpec

-----------------------------------------------------------------------------
(* The inductive invariant.  The handlers read and write the order, its    *)
(* payment and its reference separately; what makes that work is that a    *)
(* payment is only processed after its order has left the state in which   *)
(* it can be cancelled, and that the reference is claimed once.            *)

On(c, pc, o) == PayAt(c, pc) /\ payCall[c].order = o

OrderInv(o) ==
  /\ order[o] \in {NotYet, "PENDING_PAYMENT", "PAYMENT_PROCESSING", "PAID", "FAILED", "CANCELLED"}
  /\ payment[o] # "DISPUTED"
  /\ order[o] = NotYet => payment[o] = NotYet
  /\ payment[o] = "PROCESSING" => order[o] # "PENDING_PAYMENT"
  /\ payment[o] \in {"PAID", "PARTIALLY_REFUNDED", "REFUNDED"} => order[o] = "PAID"
  /\ detail[o] # "NONE" => payment[o] # NotYet
  /\ detail[o] = "VERIFIED" => order[o] = "PAID"
  /\ members[o] = 0 \/ (members[o] = 1 /\ order[o] = "PAID" /\ invoice[o] = TRUE)
  /\ order[o] = "PAID" => members[o] = 1 \/ o \in killed \/ \E c \in PayCalls : Serving(c, o)

(* What a handler at work on the order relies on from its earlier reads.   *)
OrderCallInv(c, o) ==
  /\ On(c, "createOrder", o) => order[o] = NotYet /\ \A d \in PayCalls : On(d, "createOrder", o) => d = c
  /\ On(c, "redeem", o) \/ On(c, "createPayment", o) \/ On(c, "openPayment", o) => order[o] # NotYet
  /\ On(c, "openPayment", o) \/ On(c, "createDetail", o) => payment[o] # NotYet
  /\ On(c, "process", o) \/ On(c, "settle", o) \/ On(c, "reject", o) => detail[o] # "NONE"
  /\ On(c, "settle", o) /\ detail[o] = "PENDING_VERIFICATION" => order[o] = "PAYMENT_PROCESSING"
  /\ On(c, "cancel", o) => payCall[c].orderSeen = "PENDING_PAYMENT"
  /\ Serving(c, o) => order[o] = "PAID" /\ members[o] = 0 /\ \A d \in PayCalls : Serving(d, o) => d = c
  /\ On(c, "activate", o) => invoice[o] = TRUE
  /\ On(c, "createRefund", o) => order[o] = "PAID"

For(c, pc, r) == PayAt(c, pc) /\ payCall[c].refund = r
Paying(c, r)  == (PayAt(c, "payBack") \/ PayAt(c, "complete")) /\ payCall[c].refund = r

RefundInv(r) ==
  /\ refund[r].status \notin {"PROCESSING", "COMPLETED"} => paidBack[r] = 0
  /\ paidBack[r] \in {0, 1}
  /\ refund[r].status \in {"APPROVED", "PROCESSING", "COMPLETED"} => refund[r].approvedBy \in Admins \ {refund[r].requestedBy}
  /\ refund[r].status # NotYet => order[refund[r].order] = "PAID"

RefundCallInv(c, r) ==
  /\ For(c, "createRefund", r) => refund[r].status = NotYet /\ \A d \in PayCalls : For(d, "createRefund", r) => d = c
  /\ For(c, "claimRefund", r) =>
       /\ refund[r].status # NotYet /\ payCall[c].refundSeen \notin {NotYet, "PROCESSING", "COMPLETED"}
       /\ payCall[c].to \in {"APPROVED", "REJECTED", "PROCESSING"}
       /\ payCall[c].to = "PROCESSING" => payCall[c].refundSeen = "APPROVED"
       /\ payCall[c].to = "APPROVED" => payCall[c].admin \in Admins \ {refund[r].requestedBy}
  /\ Paying(c, r) => refund[r].status = "PROCESSING" /\ \A d \in PayCalls : Paying(d, r) => d = c
  /\ For(c, "payBack", r) => paidBack[r] = 0
  /\ For(c, "reverse", r) => refund[r].status # NotYet

SalesInv   == \A o \in Orders : OrderInv(o) /\ \A c \in PayCalls : OrderCallInv(c, o)
RefundsInv == \A r \in Refunds : RefundInv(r) /\ \A c \in PayCalls : RefundCallInv(c, r)

SettlementInv == PayTypeOK /\ SalesInv /\ RefundsInv

RefundPCs == {"claimRefund", "payBack", "complete", "reverse"}

(* A step of a refund leaves the sales alone, and a step of a sale the     *)
(* refunds, as long as what was paid stays paid.                           *)
LEMMA SalesQuiet ==
  ASSUME SalesInv, NEW c \in PayCalls, Others(c), UNCHANGED <<order, payment, detail, invoice, members, killed>>,
         payCall[c].pc \notin {"invoice", "activate"}, payCall'[c].pc \in {"idle"} \cup RefundPCs
  PROVE  SalesInv'
<1> SUFFICES ASSUME NEW o \in Orders PROVE OrderInv(o)' /\ \A d \in PayCalls : OrderCallInv(d, o)'
  BY DEF SalesInv
<1>1. OrderInv(o) /\ \A d \in PayCalls : OrderCallInv(d, o)
  BY DEF SalesInv
<1>2. \A d \in PayCalls : Serving(d, o)' <=> Serving(d, o)
  BY DEF Others, Serving, PayAt, RefundPCs
<1>3. OrderInv(o)'
  BY <1>1, <1>2 DEF OrderInv
<1>4. ASSUME NEW d \in PayCalls PROVE OrderCallInv(d, o)'
  BY <1>1, <1>2 DEF OrderCallInv, On, PayAt, Others, RefundPCs
<1> QED
  BY <1>3, <1>4

LEMMA RefundsQuiet ==
  ASSUME PayTypeOK, RefundsInv, NEW c \in PayCalls, Others(c), UNCHANGED <<refund, paidBack>>,
         \A o \in Orders : order[o] = "PAID" => order'[o] = "PAID",
         payCall'[c].pc \notin {"createRefund"} \cup RefundPCs
  PROVE  RefundsInv'
<1> SUFFICES ASSUME NEW r \in Refunds PROVE RefundInv(r)' /\ \A d \in PayCalls : RefundCallInv(d, r)'
  BY DEF RefundsInv
<1>1. RefundInv(r) /\ (\A d \in PayCalls : RefundCallInv(d, r)) /\ refund[r].order \in Orders
  BY DEF RefundsInv, PayTypeOK, Refund
<1>2. RefundInv(r)'
  BY <1>1 DEF RefundInv
<1>3. ASSUME NEW d \in PayCalls PROVE RefundCallInv(d, r)'
  BY <1>1 DEF RefundCallInv, For, Paying, PayAt, Others, RefundPCs
<1> QED
  BY <1>2, <1>3

(* A handler that writes one order leaves every other one alone.           *)
LEMMA Elsewhere ==
  ASSUME SalesInv, NEW c \in PayCalls, Others(c), payCall[c].pc # "idle", payCall'[c].pc = "idle" \/ payCall'[c].order = payCall[c].order,
         NEW o \in Orders, o # payCall[c].order, killed' = killed,
         order'[o] = order[o], payment'[o] = payment[o], detail'[o] = detail[o],
         invoice'[o] = invoice[o], members'[o] = members[o]
  PROVE  OrderInv(o)' /\ \A d \in PayCalls : OrderCallInv(d, o)'
<1>1. OrderInv(o) /\ \A d \in PayCalls : OrderCallInv(d, o)
  BY DEF SalesInv
<1>2. \A d \in PayCalls : Serving(d, o)' <=> Serving(d, o)
  BY DEF Others, Serving, PayAt
<1>3. OrderInv(o)'
  BY <1>1, <1>2 DEF OrderInv
<1>4. ASSUME NEW d \in PayCalls PROVE OrderCallInv(d, o)'
  BY <1>1, <1>2 DEF OrderCallInv, On, PayAt, Others
<1> QED
  BY <1>3, <1>4

(* A handler that writes one order keeps the invariant if it keeps it      *)
(* there and what is paid stays paid.                                      *)
LEMMA SaleWritten ==
  ASSUME SettlementInv, NEW c \in PayCalls, Others(c), payCall[c].pc # "idle",
         payCall'[c].pc \notin {"createRefund"} \cup RefundPCs, payCall'[c].pc = "idle" \/ payCall'[c].order = payCall[c].order,
         NEW o \in Orders, o = payCall[c].order,
         \A x \in Orders \ {o} : /\ order'[x] = order[x] /\ payment'[x] = payment[x] /\ detail'[x] = detail[x]
                                 /\ invoice'[x] = invoice[x] /\ members'[x] = members[x],
         UNCHANGED <<refund, paidBack, killed>>,
         order[o] = "PAID" => order'[o] = "PAID",
         OrderInv(o)', \A d \in PayCalls : OrderCallInv(d, o)'
  PROVE  SalesInv' /\ RefundsInv'
<1>1. SalesInv'
  BY Elsewhere DEF SettlementInv, SalesInv
<1>2. RefundsInv'
  BY RefundsQuiet DEF SettlementInv
<1> QED
  BY <1>1, <1>2

LEMMA RedeemKeeps ==
  ASSUME SettlementInv, NEW c \in PayCalls, RedeemCoupon(c)
  PROVE  SalesInv' /\ RefundsInv'
<1>0. PayTypeOK /\ SalesInv
  BY DEF SettlementInv
<1>1. PICK o \in Orders : o = payCall[c].order
  BY <1>0 DEF PayTypeOK, PayCall
<1>2. On(c, "redeem", o) /\ Others(c) /\ payCall'[c].pc = "createPayment" /\ payCall'[c].order = payCall[c].order
  BY <1>0, <1>1, GotoEffect DEF RedeemCoupon, On, PayAt, PayPCs, SameHands
<1>3. /\ order'[o] = order[o] /\ payment'[o] = payment[o] /\ detail'[o] = detail[o] /\ invoice'[o] = invoice[o] /\ members'[o] = members[o]
      /\ \A x \in Orders \ {o} : /\ order'[x] = order[x] /\ payment'[x] = payment[x] /\ detail'[x] = detail[x]
                                 /\ invoice'[x] = invoice[x] /\ members'[x] = members[x]
      /\ UNCHANGED <<refund, paidBack, killed>>
  BY <1>0, <1>1 DEF RedeemCoupon, PayTypeOK
<1>4. OrderInv(o) /\ \A d \in PayCalls : OrderCallInv(d, o)
  BY <1>0 DEF SalesInv
<1>5. OrderInv(o)'
  BY <1>1, <1>2, <1>3, <1>4 DEF OrderInv, OrderCallInv, Serving, On, PayAt, Others, NotYet
<1>6. \A d \in PayCalls : OrderCallInv(d, o)'
  BY <1>1, <1>2, <1>3, <1>4 DEF OrderInv, OrderCallInv, Serving, On, PayAt, Others, NotYet
<1>7. order[o] = "PAID" => order'[o] = "PAID"
  BY <1>2, <1>3, <1>4 DEF OrderCallInv, OrderInv, NotYet
<1> QED
  BY <1>1, <1>2, <1>3, <1>5, <1>6, <1>7, SaleWritten DEF On, PayAt, RefundPCs

LEMMA CreatePaymentKeeps ==
  ASSUME SettlementInv, NEW c \in PayCalls, CreatePayment(c)
  PROVE  SalesInv' /\ RefundsInv'
<1>0. PayTypeOK /\ SalesInv
  BY DEF SettlementInv
<1>1. PICK o \in Orders : o = payCall[c].order
  BY <1>0 DEF PayTypeOK, PayCall
<1>2. On(c, "createPayment", o) /\ Others(c) /\ payCall'[c].pc = "openPayment" /\ payCall'[c].order = payCall[c].order
  BY <1>0, <1>1, GotoEffect DEF CreatePayment, On, PayAt, PayPCs, SameHands
<1>3. /\ payment'[o] = "CREATED" /\ order'[o] = order[o] /\ detail'[o] = detail[o] /\ invoice'[o] = invoice[o] /\ members'[o] = members[o]
      /\ \A x \in Orders \ {o} : /\ order'[x] = order[x] /\ payment'[x] = payment[x] /\ detail'[x] = detail[x]
                                 /\ invoice'[x] = invoice[x] /\ members'[x] = members[x]
      /\ UNCHANGED <<refund, paidBack, killed>>
  BY <1>0, <1>1 DEF CreatePayment, PayTypeOK
<1>4. OrderInv(o) /\ \A d \in PayCalls : OrderCallInv(d, o)
  BY <1>0 DEF SalesInv
<1>5. OrderInv(o)'
  BY <1>1, <1>2, <1>3, <1>4 DEF OrderInv, OrderCallInv, Serving, On, PayAt, Others, NotYet
<1>6. \A d \in PayCalls : OrderCallInv(d, o)'
  BY <1>1, <1>2, <1>3, <1>4 DEF OrderInv, OrderCallInv, Serving, On, PayAt, Others, NotYet
<1>7. order[o] = "PAID" => order'[o] = "PAID"
  BY <1>2, <1>3, <1>4 DEF OrderCallInv, OrderInv, NotYet
<1> QED
  BY <1>1, <1>2, <1>3, <1>5, <1>6, <1>7, SaleWritten DEF On, PayAt, RefundPCs

LEMMA OpenPaymentKeeps ==
  ASSUME SettlementInv, NEW c \in PayCalls, OpenPayment(c)
  PROVE  SalesInv' /\ RefundsInv'
<1>0. PayTypeOK /\ SalesInv
  BY DEF SettlementInv
<1>1. PICK o \in Orders : o = payCall[c].order
  BY <1>0 DEF PayTypeOK, PayCall
<1>2. On(c, "openPayment", o) /\ Others(c) /\ payCall'[c].pc = "idle"
  BY <1>0, <1>1, DoneEffect DEF OpenPayment, On, PayAt, PayPCs, SameHands
<1>3. /\ payment'[o] = "PENDING" /\ order'[o] = order[o] /\ detail'[o] = detail[o] /\ invoice'[o] = invoice[o] /\ members'[o] = members[o]
      /\ \A x \in Orders \ {o} : /\ order'[x] = order[x] /\ payment'[x] = payment[x] /\ detail'[x] = detail[x]
                                 /\ invoice'[x] = invoice[x] /\ members'[x] = members[x]
      /\ UNCHANGED <<refund, paidBack, killed>>
  BY <1>0, <1>1 DEF OpenPayment, PayTypeOK
<1>4. OrderInv(o) /\ \A d \in PayCalls : OrderCallInv(d, o)
  BY <1>0 DEF SalesInv
<1>5. OrderInv(o)'
  BY <1>1, <1>2, <1>3, <1>4 DEF OrderInv, OrderCallInv, Serving, On, PayAt, Others, NotYet
<1>6. \A d \in PayCalls : OrderCallInv(d, o)'
  BY <1>1, <1>2, <1>3, <1>4 DEF OrderInv, OrderCallInv, Serving, On, PayAt, Others, NotYet
<1>7. order[o] = "PAID" => order'[o] = "PAID"
  BY <1>2, <1>3, <1>4 DEF OrderCallInv, OrderInv, NotYet
<1> QED
  BY <1>1, <1>2, <1>3, <1>5, <1>6, <1>7, SaleWritten DEF On, PayAt, RefundPCs

LEMMA ProcessKeeps ==
  ASSUME SettlementInv, NEW c \in PayCalls, MoveToProcessing(c)
  PROVE  SalesInv' /\ RefundsInv'
<1>0. PayTypeOK /\ SalesInv
  BY DEF SettlementInv
<1>1. PICK o \in Orders : o = payCall[c].order
  BY <1>0 DEF PayTypeOK, PayCall
<1>2. On(c, "process", o) /\ Others(c) /\ payCall'[c].pc = "idle"
  BY <1>0, <1>1, DoneEffect DEF MoveToProcessing, On, PayAt, PayPCs, SameHands
<1>3. /\ payment'[o] = "PROCESSING" /\ detail'[o] = detail[o] /\ invoice'[o] = invoice[o] /\ members'[o] = members[o]
      /\ order'[o] = IF order[o] = "PENDING_PAYMENT" THEN "PAYMENT_PROCESSING" ELSE order[o]
      /\ \A x \in Orders \ {o} : /\ order'[x] = order[x] /\ payment'[x] = payment[x] /\ detail'[x] = detail[x]
                                 /\ invoice'[x] = invoice[x] /\ members'[x] = members[x]
      /\ UNCHANGED <<refund, paidBack, killed>>
  BY <1>0, <1>1 DEF MoveToProcessing, PayTypeOK
<1>4. OrderInv(o) /\ \A d \in PayCalls : OrderCallInv(d, o)
  BY <1>0 DEF SalesInv
<1>5. OrderInv(o)'
  BY <1>1, <1>2, <1>3, <1>4 DEF OrderInv, OrderCallInv, Serving, On, PayAt, Others, NotYet
<1>6. \A d \in PayCalls : OrderCallInv(d, o)'
  BY <1>1, <1>2, <1>3, <1>4 DEF OrderInv, OrderCallInv, Serving, On, PayAt, Others, NotYet
<1>7. order[o] = "PAID" => order'[o] = "PAID"
  BY <1>2, <1>3, <1>4 DEF OrderCallInv, OrderInv, NotYet
<1> QED
  BY <1>1, <1>2, <1>3, <1>5, <1>6, <1>7, SaleWritten DEF On, PayAt, RefundPCs

LEMMA InvoiceKeeps ==
  ASSUME SettlementInv, NEW c \in PayCalls, GenerateInvoice(c)
  PROVE  SalesInv' /\ RefundsInv'
<1>0. PayTypeOK /\ SalesInv
  BY DEF SettlementInv
<1>1. PICK o \in Orders : o = payCall[c].order
  BY <1>0 DEF PayTypeOK, PayCall
<1>2. On(c, "invoice", o) /\ Others(c) /\ payCall'[c].pc = "activate" /\ payCall'[c].order = payCall[c].order
  BY <1>0, <1>1, GotoEffect DEF GenerateInvoice, On, PayAt, PayPCs, SameHands
<1>3. /\ invoice'[o] = TRUE /\ order'[o] = order[o] /\ payment'[o] = payment[o] /\ detail'[o] = detail[o] /\ members'[o] = members[o]
      /\ \A x \in Orders \ {o} : /\ order'[x] = order[x] /\ payment'[x] = payment[x] /\ detail'[x] = detail[x]
                                 /\ invoice'[x] = invoice[x] /\ members'[x] = members[x]
      /\ UNCHANGED <<refund, paidBack, killed>>
  BY <1>0, <1>1 DEF GenerateInvoice, PayTypeOK
<1>4. OrderInv(o) /\ \A d \in PayCalls : OrderCallInv(d, o)
  BY <1>0 DEF SalesInv
<1>5. OrderInv(o)'
  BY <1>1, <1>2, <1>3, <1>4 DEF OrderInv, OrderCallInv, Serving, On, PayAt, Others, NotYet
<1>6. \A d \in PayCalls : OrderCallInv(d, o)'
  BY <1>1, <1>2, <1>3, <1>4 DEF OrderInv, OrderCallInv, Serving, On, PayAt, Others, NotYet
<1>7. order[o] = "PAID" => order'[o] = "PAID"
  BY <1>2, <1>3, <1>4 DEF OrderCallInv, OrderInv, NotYet
<1> QED
  BY <1>1, <1>2, <1>3, <1>5, <1>6, <1>7, SaleWritten DEF On, PayAt, RefundPCs

LEMMA ActivateKeeps ==
  ASSUME SettlementInv, NEW c \in PayCalls, Activate(c)
  PROVE  SalesInv' /\ RefundsInv'
<1>0. PayTypeOK /\ SalesInv
  BY DEF SettlementInv
<1>1. PICK o \in Orders : o = payCall[c].order
  BY <1>0 DEF PayTypeOK, PayCall
<1>2. On(c, "activate", o) /\ Others(c) /\ payCall'[c].pc = "idle"
  BY <1>0, <1>1, DoneEffect DEF Activate, On, PayAt, PayPCs, SameHands
<1>3. /\ members'[o] = members[o] + 1 /\ order'[o] = order[o] /\ payment'[o] = payment[o] /\ detail'[o] = detail[o] /\ invoice'[o] = invoice[o]
      /\ \A x \in Orders \ {o} : /\ order'[x] = order[x] /\ payment'[x] = payment[x] /\ detail'[x] = detail[x]
                                 /\ invoice'[x] = invoice[x] /\ members'[x] = members[x]
      /\ UNCHANGED <<refund, paidBack, killed>>
  BY <1>0, <1>1 DEF Activate, PayTypeOK
<1>4. OrderInv(o) /\ \A d \in PayCalls : OrderCallInv(d, o)
  BY <1>0 DEF SalesInv
<1>5. OrderInv(o)'
  BY <1>1, <1>2, <1>3, <1>4 DEF OrderInv, OrderCallInv, Serving, On, PayAt, Others, NotYet
<1>6. \A d \in PayCalls : OrderCallInv(d, o)'
  BY <1>1, <1>2, <1>3, <1>4 DEF OrderInv, OrderCallInv, Serving, On, PayAt, Others, NotYet
<1>7. order[o] = "PAID" => order'[o] = "PAID"
  BY <1>2, <1>3, <1>4 DEF OrderCallInv, OrderInv, NotYet
<1> QED
  BY <1>1, <1>2, <1>3, <1>5, <1>6, <1>7, SaleWritten DEF On, PayAt, RefundPCs

LEMMA RejectKeeps ==
  ASSUME SettlementInv, NEW c \in PayCalls, RejectPayment(c)
  PROVE  SalesInv' /\ RefundsInv'
<1>0. PayTypeOK /\ SalesInv
  BY DEF SettlementInv
<1>1. PICK o \in Orders : o = payCall[c].order
  BY <1>0 DEF PayTypeOK, PayCall
<1>2. On(c, "reject", o) /\ Others(c) /\ payCall'[c].pc = "idle"
  BY <1>0, <1>1, DoneEffect DEF RejectPayment, On, PayAt, PayPCs, SameHands
<1>3. /\ detail'[o] = "REJECTED" /\ payment'[o] = "FAILED" /\ invoice'[o] = invoice[o] /\ members'[o] = members[o]
      /\ order'[o] = IF order[o] \in {"PENDING_PAYMENT", "PAYMENT_PROCESSING"} THEN "FAILED" ELSE order[o]
      /\ \A x \in Orders \ {o} : /\ order'[x] = order[x] /\ payment'[x] = payment[x] /\ detail'[x] = detail[x]
                                 /\ invoice'[x] = invoice[x] /\ members'[x] = members[x]
      /\ UNCHANGED <<refund, paidBack, killed>>
  BY <1>0, <1>1 DEF RejectPayment, PayTypeOK
<1>4. OrderInv(o) /\ \A d \in PayCalls : OrderCallInv(d, o)
  BY <1>0 DEF SalesInv
<1>5. OrderInv(o)'
  BY <1>1, <1>2, <1>3, <1>4 DEF OrderInv, OrderCallInv, Serving, On, PayAt, Others, NotYet
<1>6. \A d \in PayCalls : OrderCallInv(d, o)'
  BY <1>1, <1>2, <1>3, <1>4 DEF OrderInv, OrderCallInv, Serving, On, PayAt, Others, NotYet
<1>7. order[o] = "PAID" => order'[o] = "PAID"
  BY <1>2, <1>3, <1>4 DEF OrderCallInv, OrderInv, NotYet
<1> QED
  BY <1>1, <1>2, <1>3, <1>5, <1>6, <1>7, SaleWritten DEF On, PayAt, RefundPCs

LEMMA CreateOrderKeeps ==
  ASSUME SettlementInv, NEW c \in PayCalls, CreateOrder(c)
  PROVE  SalesInv' /\ RefundsInv'
<1>0. PayTypeOK /\ SalesInv
  BY DEF SettlementInv
<1>1. PICK o \in Orders : o = payCall[c].order
  BY <1>0 DEF PayTypeOK, PayCall
<1>2. /\ On(c, "createOrder", o) /\ Others(c)
      /\ payCall'[c].pc \in {"redeem", "createPayment"} /\ (payCall'[c].pc = "idle" \/ payCall'[c].order = payCall[c].order)
  BY <1>0, <1>1, GotoEffect, DoneEffect DEF CreateOrder, On, PayAt, PayPCs, SameHands
<1>3. /\ \A x \in Orders \ {o} : /\ order'[x] = order[x] /\ payment'[x] = payment[x] /\ detail'[x] = detail[x]
                                 /\ invoice'[x] = invoice[x] /\ members'[x] = members[x]
      /\ UNCHANGED <<refund, paidBack, killed, invoice, members>>
  BY <1>0, <1>1 DEF CreateOrder, PayTypeOK
<1>4. order'[o] = "PENDING_PAYMENT" /\ payment'[o] = payment[o] /\ detail'[o] = detail[o]
  BY <1>0, <1>1, <1>2, DoneEffect, GotoEffect DEF CreateOrder, PayTypeOK, PayPCs
<1>5. OrderInv(o) /\ \A d \in PayCalls : OrderCallInv(d, o)
  BY <1>0 DEF SalesInv
<1>6. OrderInv(o)'
  BY <1>1, <1>2, <1>3, <1>4, <1>5 DEF OrderInv, OrderCallInv, Serving, On, PayAt, Others, NotYet
<1>7. \A d \in PayCalls : OrderCallInv(d, o)'
  BY <1>1, <1>2, <1>3, <1>4, <1>5 DEF OrderInv, OrderCallInv, Serving, On, PayAt, Others, NotYet
<1>8. order[o] = "PAID" => order'[o] = "PAID"
  BY <1>2, <1>4, <1>5 DEF OrderCallInv, OrderInv, On, PayAt, NotYet
<1> QED
  BY <1>1, <1>2, <1>3, <1>6, <1>7, <1>8, SaleWritten DEF On, PayAt, RefundPCs

LEMMA DetailKeeps ==
  ASSUME SettlementInv, NEW c \in PayCalls, CreateDetail(c)
  PROVE  SalesInv' /\ RefundsInv'
<1>0. PayTypeOK /\ SalesInv
  BY DEF SettlementInv
<1>1. PICK o \in Orders : o = payCall[c].order
  BY <1>0 DEF PayTypeOK, PayCall
<1>2. /\ On(c, "createDetail", o) /\ Others(c)
      /\ payCall'[c].pc \in {"idle", "process"} /\ (payCall'[c].pc = "idle" \/ payCall'[c].order = payCall[c].order)
  BY <1>0, <1>1, GotoEffect, DoneEffect DEF CreateDetail, On, PayAt, PayPCs, SameHands
<1>3. /\ \A x \in Orders \ {o} : /\ order'[x] = order[x] /\ payment'[x] = payment[x] /\ detail'[x] = detail[x]
                                 /\ invoice'[x] = invoice[x] /\ members'[x] = members[x]
      /\ UNCHANGED <<refund, paidBack, killed, invoice, members>>
  BY <1>0, <1>1 DEF CreateDetail, PayTypeOK
<1>4. /\ order'[o] = order[o] /\ payment'[o] = payment[o]
      /\ \/ detail[o] = "NONE" /\ detail'[o] = "PENDING_VERIFICATION"
         \/ detail[o] # "NONE" /\ detail'[o] = detail[o] /\ payCall'[c].pc = "idle"
  BY <1>0, <1>1, <1>2, DoneEffect, GotoEffect DEF CreateDetail, PayTypeOK, PayPCs
<1>5. OrderInv(o) /\ \A d \in PayCalls : OrderCallInv(d, o)
  BY <1>0 DEF SalesInv
<1>6. OrderInv(o)'
  BY <1>1, <1>2, <1>3, <1>4, <1>5 DEF OrderInv, OrderCallInv, Serving, On, PayAt, Others, NotYet
<1>7. \A d \in PayCalls : OrderCallInv(d, o)'
  BY <1>1, <1>2, <1>3, <1>4, <1>5 DEF OrderInv, OrderCallInv, Serving, On, PayAt, Others, NotYet
<1>8. order[o] = "PAID" => order'[o] = "PAID"
  BY <1>2, <1>4, <1>5 DEF OrderCallInv, OrderInv, On, PayAt, NotYet
<1> QED
  BY <1>1, <1>2, <1>3, <1>6, <1>7, <1>8, SaleWritten DEF On, PayAt, RefundPCs

LEMMA SettleKeeps ==
  ASSUME SettlementInv, NEW c \in PayCalls, SettlePayment(c)
  PROVE  SalesInv' /\ RefundsInv'
<1>0. PayTypeOK /\ SalesInv
  BY DEF SettlementInv
<1>1. PICK o \in Orders : o = payCall[c].order
  BY <1>0 DEF PayTypeOK, PayCall
<1>2. /\ On(c, "settle", o) /\ Others(c)
      /\ payCall'[c].pc \in {"idle", "invoice"} /\ (payCall'[c].pc = "idle" \/ payCall'[c].order = payCall[c].order)
  BY <1>0, <1>1, GotoEffect, DoneEffect DEF SettlePayment, Settled, On, PayAt, PayPCs, SameHands
<1>3. /\ \A x \in Orders \ {o} : /\ order'[x] = order[x] /\ payment'[x] = payment[x] /\ detail'[x] = detail[x]
                                 /\ invoice'[x] = invoice[x] /\ members'[x] = members[x]
      /\ UNCHANGED <<refund, paidBack, killed, invoice, members>>
  BY <1>0, <1>1 DEF SettlePayment, Settled, PayTypeOK
<1>4. \/ /\ detail[o] = "PENDING_VERIFICATION" /\ payCall'[c].pc = "invoice"
         /\ detail'[o] = "VERIFIED" /\ payment'[o] = "PAID" /\ order'[o] = "PAID"
      \/ /\ payCall'[c].pc = "idle"
         /\ detail'[o] = detail[o] /\ payment'[o] = payment[o] /\ order'[o] = order[o]
  BY <1>0, <1>1, <1>2, DoneEffect, GotoEffect DEF SettlePayment, Settled, PayTypeOK, PayPCs
<1>5. OrderInv(o) /\ \A d \in PayCalls : OrderCallInv(d, o)
  BY <1>0 DEF SalesInv
<1>6. OrderInv(o)'
  BY <1>1, <1>2, <1>3, <1>4, <1>5 DEF OrderInv, OrderCallInv, Serving, On, PayAt, Others, NotYet
<1>7. \A d \in PayCalls : OrderCallInv(d, o)'
  BY <1>1, <1>2, <1>3, <1>4, <1>5 DEF OrderInv, OrderCallInv, Serving, On, PayAt, Others, NotYet
<1>8. order[o] = "PAID" => order'[o] = "PAID"
  BY <1>2, <1>4, <1>5 DEF OrderCallInv, OrderInv, On, PayAt, NotYet
<1> QED
  BY <1>1, <1>2, <1>3, <1>6, <1>7, <1>8, SaleWritten DEF On, PayAt, RefundPCs

LEMMA CancelKeeps ==
  ASSUME SettlementInv, NEW c \in PayCalls, CancelOrder(c)
  PROVE  SalesInv' /\ RefundsInv'
<1>0. PayTypeOK /\ SalesInv
  BY DEF SettlementInv
<1>1. PICK o \in Orders : o = payCall[c].order
  BY <1>0 DEF PayTypeOK, PayCall
<1>2. /\ On(c, "cancel", o) /\ Others(c)
      /\ payCall'[c].pc \in {"idle"} /\ (payCall'[c].pc = "idle" \/ payCall'[c].order = payCall[c].order)
  BY <1>0, <1>1, GotoEffect, DoneEffect DEF CancelOrder, Cancelled, On, PayAt, PayPCs, SameHands
<1>3. /\ \A x \in Orders \ {o} : /\ order'[x] = order[x] /\ payment'[x] = payment[x] /\ detail'[x] = detail[x]
                                 /\ invoice'[x] = invoice[x] /\ members'[x] = members[x]
      /\ UNCHANGED <<refund, paidBack, killed, invoice, members>>
  BY <1>0, <1>1 DEF CancelOrder, Cancelled, PayTypeOK
<1>4. /\ payCall'[c].pc = "idle" /\ detail'[o] = detail[o]
      /\ \/ /\ order[o] = payCall[c].orderSeen /\ order'[o] = "CANCELLED"
            /\ payment'[o] = payment[o] \/ payment'[o] = "CANCELLED"
         \/ order'[o] = order[o] /\ payment'[o] = payment[o]
  BY <1>0, <1>1, <1>2, DoneEffect, GotoEffect DEF CancelOrder, Cancelled, PayTypeOK, PayPCs
<1>5. OrderInv(o) /\ \A d \in PayCalls : OrderCallInv(d, o)
  BY <1>0 DEF SalesInv
<1>6. OrderInv(o)'
  BY <1>1, <1>2, <1>3, <1>4, <1>5 DEF OrderInv, OrderCallInv, Serving, On, PayAt, Others, NotYet
<1>7. \A d \in PayCalls : OrderCallInv(d, o)'
  BY <1>1, <1>2, <1>3, <1>4, <1>5 DEF OrderInv, OrderCallInv, Serving, On, PayAt, Others, NotYet
<1>8. order[o] = "PAID" => order'[o] = "PAID"
  BY <1>2, <1>4, <1>5 DEF OrderCallInv, OrderInv, On, PayAt, NotYet
<1> QED
  BY <1>1, <1>2, <1>3, <1>6, <1>7, <1>8, SaleWritten DEF On, PayAt, RefundPCs

(* A handler that writes one refund leaves every other one alone.          *)
LEMMA RefundWritten ==
  ASSUME PayTypeOK, RefundsInv, NEW c \in PayCalls, Others(c), UNCHANGED order,
         payCall[c].pc # "idle", payCall'[c].pc = "idle" \/ payCall'[c].refund = payCall[c].refund,
         NEW r \in Refunds, r = payCall[c].refund,
         \A x \in Refunds \ {r} : refund'[x] = refund[x] /\ paidBack'[x] = paidBack[x],
         RefundInv(r)', \A d \in PayCalls : RefundCallInv(d, r)'
  PROVE  RefundsInv'
<1> SUFFICES ASSUME NEW x \in Refunds \ {r} PROVE RefundInv(x)' /\ \A d \in PayCalls : RefundCallInv(d, x)'
  BY DEF RefundsInv
<1>1. RefundInv(x) /\ \A d \in PayCalls : RefundCallInv(d, x)
  BY DEF RefundsInv
<1>2. RefundInv(x)'
  BY <1>1 DEF RefundInv
<1>3. ASSUME NEW d \in PayCalls PROVE RefundCallInv(d, x)'
  BY <1>1 DEF RefundCallInv, For, Paying, PayAt, Others
<1> QED
  BY <1>2, <1>3

LEMMA CreateRefundKeeps ==
  ASSUME SettlementInv, NEW c \in PayCalls, CreateRefund(c)
  PROVE  SalesInv' /\ RefundsInv'
<1>0. PayTypeOK /\ SalesInv /\ RefundsInv /\ payCall[c] \in PayCall
  BY DEF SettlementInv, PayTypeOK
<1>1. PICK r \in Refunds, o \in Orders : r = payCall[c].refund /\ o = payCall[c].order
  BY <1>0 DEF PayCall
<1>2. For(c, "createRefund", r) /\ On(c, "createRefund", o) /\ Others(c) /\ payCall'[c].pc = "idle"
  BY <1>0, <1>1, DoneEffect DEF CreateRefund, For, On, PayAt
<1>3. UNCHANGED <<sale, paidBack>>
  BY Zenon DEF CreateRefund
<1>4. /\ refund'[r].status = "REQUESTED" /\ refund'[r].order = o
      /\ \A x \in Refunds \ {r} : refund'[x] = refund[x]
  <2> DEFINE row == [NoRefund EXCEPT !.status = "REQUESTED", !.order = payCall[c].order, !.amount = payCall[c].amount,
                                     !.requestedBy = payCall[c].admin]
  <2>1. row.status = "REQUESTED" /\ row.order = o
    BY <1>1 DEF NoRefund
  <2>2. refund' = [refund EXCEPT ![r] = row]
    BY <1>1, Zenon DEF CreateRefund
  <2> HIDE DEF row
  <2> QED
    BY <1>0, <2>1, <2>2 DEF PayTypeOK
<1>5. order[o] = "PAID"
  BY <1>0, <1>2 DEF SalesInv, OrderCallInv
<1>6. RefundInv(r) /\ \A d \in PayCalls : RefundCallInv(d, r)
  BY <1>0 DEF RefundsInv
<1>7. RefundInv(r)'
  BY <1>2, <1>3, <1>4, <1>5, <1>6 DEF RefundInv, RefundCallInv, sale, NotYet
<1>8. \A d \in PayCalls : RefundCallInv(d, r)'
  BY <1>1, <1>2, <1>3, <1>6 DEF RefundCallInv, For, Paying, PayAt, Others, NotYet
<1>9. SalesInv'
  BY <1>0, <1>2, <1>3, SalesQuiet DEF sale, For, PayAt
<1> QED
  BY <1>0, <1>1, <1>2, <1>3, <1>4, <1>7, <1>8, <1>9, RefundWritten DEF sale, For, PayAt

LEMMA ClaimKeeps ==
  ASSUME SettlementInv, NEW c \in PayCalls, claimRefundStatus(c)
  PROVE  SalesInv' /\ RefundsInv'
<1>0. PayTypeOK /\ SalesInv /\ RefundsInv /\ payCall[c] \in PayCall
  BY DEF SettlementInv, PayTypeOK
<1>1. PICK r \in Refunds : r = payCall[c].refund
  BY <1>0 DEF PayCall
<1>2. For(c, "claimRefund", r) /\ UNCHANGED <<sale, paidBack>>
  BY <1>1, Zenon DEF claimRefundStatus, For
<1>3. refund[r] \in Refund /\ refund \in [Refunds -> Refund]
  BY <1>0 DEF PayTypeOK
<1>4. Others(c) /\ payCall'[c].pc \in {"idle", "payBack"} /\ (payCall'[c].pc = "idle" \/ payCall'[c].refund = r)
  BY <1>0, <1>1, DoneEffect, GotoEffect DEF claimRefundStatus, Claimed, PayPCs, SameHands
<1>5. RefundInv(r) /\ \A d \in PayCalls : RefundCallInv(d, r)
  BY <1>0 DEF RefundsInv
<1>6. RefundInv(r)' /\ (\A d \in PayCalls : RefundCallInv(d, r)') /\ \A x \in Refunds \ {r} : refund'[x] = refund[x]
  <2>1. CASE refund[r].status = payCall[c].refundSeen /\ Claimed(c)
    <3> DEFINE row == [refund[r] EXCEPT !.status = payCall[c].to,
                                        !.approvedBy = IF payCall[c].to = "APPROVED" THEN payCall[c].admin ELSE @]
    <3>1. row.status = payCall[c].to /\ row.order = refund[r].order /\ row.requestedBy = refund[r].requestedBy
      BY <1>3 DEF Refund
    <3>2. row.approvedBy = IF payCall[c].to = "APPROVED" THEN payCall[c].admin ELSE refund[r].approvedBy
      BY <1>3 DEF Refund
    <3>3. refund' = [refund EXCEPT ![r] = row]
      BY <1>1, <1>3, <2>1 DEF Claimed
    <3> HIDE DEF row
    <3>4. refund'[r] = row /\ \A x \in Refunds \ {r} : refund'[x] = refund[x]
      BY <1>3, <3>3
    <3>5. payCall'[c].pc = IF payCall[c].to = "PROCESSING" THEN "payBack" ELSE "idle"
      BY <1>0, <2>1, DoneEffect, GotoEffect DEF Claimed, PayPCs
    <3>6. /\ payCall[c].to \in {"APPROVED", "REJECTED", "PROCESSING"}
          /\ refund[r].status \notin {NotYet, "PROCESSING", "COMPLETED"}
          /\ payCall[c].to = "PROCESSING" => refund[r].status = "APPROVED"
          /\ payCall[c].to = "APPROVED" => payCall[c].admin \in Admins \ {refund[r].requestedBy}
      BY <1>2, <1>5, <2>1 DEF RefundCallInv
    <3>7. RefundInv(r)'
      BY <1>2, <1>5, <3>1, <3>2, <3>4, <3>6 DEF RefundInv, sale, NotYet
    <3>8. \A d \in PayCalls : RefundCallInv(d, r)'
      BY <1>1, <1>2, <1>4, <1>5, <3>1, <3>4, <3>5, <3>6 DEF RefundInv, RefundCallInv, For, Paying, PayAt, Others, NotYet
    <3> QED
      BY <3>4, <3>7, <3>8
  <2>2. CASE PayDone(c) /\ UNCHANGED refund
    <3>1. payCall'[c].pc = "idle"
      BY <1>0, <2>2, DoneEffect
    <3>2. RefundInv(r)'
      BY <1>2, <1>5, <2>2 DEF RefundInv, sale
    <3>3. \A d \in PayCalls : RefundCallInv(d, r)'
      BY <1>2, <1>4, <1>5, <2>2, <3>1 DEF RefundCallInv, For, Paying, PayAt, Others
    <3> QED
      BY <2>2, <3>2, <3>3
  <2> QED
    BY <1>1, <2>1, <2>2, Zenon DEF claimRefundStatus
<1>7. SalesInv'
  BY <1>0, <1>2, <1>4, SalesQuiet DEF sale, For, PayAt, RefundPCs
<1> QED
  BY <1>0, <1>1, <1>2, <1>4, <1>6, <1>7, RefundWritten DEF sale, For, PayAt

LEMMA PayBackKeeps ==
  ASSUME SettlementInv, NEW c \in PayCalls, refundPayment(c)
  PROVE  SalesInv' /\ RefundsInv'
<1>0. PayTypeOK /\ SalesInv /\ RefundsInv /\ payCall[c] \in PayCall
  BY DEF SettlementInv, PayTypeOK
<1>1. PICK r \in Refunds : r = payCall[c].refund
  BY <1>0 DEF PayCall
<1>2. For(c, "payBack", r) /\ UNCHANGED <<sale, refund>>
  BY <1>1, Zenon DEF refundPayment, For
<1>3. Others(c) /\ payCall'[c].pc \in {"idle", "complete"} /\ (payCall'[c].pc = "idle" \/ payCall'[c].refund = r)
  BY <1>0, <1>1, DoneEffect, GotoEffect DEF refundPayment, PayPCs, SameHands
<1>4. paidBack'[r] = paidBack[r] + 1 /\ \A x \in Refunds \ {r} : paidBack'[x] = paidBack[x]
  BY <1>0, <1>1 DEF refundPayment, PayTypeOK
<1>5. RefundInv(r) /\ \A d \in PayCalls : RefundCallInv(d, r)
  BY <1>0 DEF RefundsInv
<1>6. RefundInv(r)'
  BY <1>2, <1>4, <1>5 DEF RefundInv, RefundCallInv, Paying, For, sale
<1>7. \A d \in PayCalls : RefundCallInv(d, r)'
  BY <1>1, <1>2, <1>3, <1>5 DEF RefundCallInv, For, Paying, PayAt, Others
<1>8. SalesInv'
  BY <1>0, <1>2, <1>3, SalesQuiet DEF sale, For, PayAt, RefundPCs
<1> QED
  BY <1>0, <1>1, <1>2, <1>3, <1>4, <1>6, <1>7, <1>8, RefundWritten DEF sale, For, PayAt

LEMMA CompleteKeeps ==
  ASSUME SettlementInv, NEW c \in PayCalls, CompleteRefund(c)
  PROVE  SalesInv' /\ RefundsInv'
<1>0. PayTypeOK /\ SalesInv /\ RefundsInv /\ payCall[c] \in PayCall
  BY DEF SettlementInv, PayTypeOK
<1>1. PICK r \in Refunds : r = payCall[c].refund
  BY <1>0 DEF PayCall
<1>2. For(c, "complete", r) /\ UNCHANGED <<order, detail, invoice, members, paidBack, killed>>
  BY <1>1, Zenon DEF CompleteRefund, For
<1>3. Others(c) /\ payCall'[c].pc \in {"idle", "reverse"} /\ (payCall'[c].pc = "idle" \/ payCall'[c].refund = r)
  BY <1>0, <1>1, DoneEffect, GotoEffect DEF CompleteRefund, PayPCs, SameHands
<1>4. RefundInv(r) /\ (\A d \in PayCalls : RefundCallInv(d, r)) /\ refund[r] \in Refund
  BY <1>0 DEF RefundsInv, PayTypeOK
<1>5. refund[r].status = "PROCESSING" /\ order[refund[r].order] = "PAID" /\ refund[r].order \in Orders
  BY <1>2, <1>4 DEF RefundCallInv, RefundInv, Paying, For, Refund, NotYet
<1>6. /\ refund'[r].status = "COMPLETED" /\ refund'[r].order = refund[r].order
      /\ refund'[r].requestedBy = refund[r].requestedBy /\ refund'[r].approvedBy = refund[r].approvedBy
      /\ \A x \in Refunds \ {r} : refund'[x] = refund[x]
  BY <1>0, <1>1 DEF CompleteRefund, PayTypeOK, Refund
<1>7. RefundInv(r)'
  BY <1>2, <1>4, <1>5, <1>6 DEF RefundInv, NotYet
<1>8. \A d \in PayCalls : RefundCallInv(d, r)'
  BY <1>1, <1>2, <1>3, <1>4, <1>5, <1>6 DEF RefundCallInv, For, Paying, PayAt, Others, NotYet
<1>9. RefundsInv'
  BY <1>0, <1>1, <1>2, <1>3, <1>6, <1>7, <1>8, RefundWritten DEF For, PayAt
<1>10. SalesInv'
  <2> SUFFICES ASSUME NEW o \in Orders PROVE OrderInv(o)' /\ \A d \in PayCalls : OrderCallInv(d, o)'
    BY DEF SalesInv
  <2>1. payment'[o] = payment[o] \/ (order[o] = "PAID" /\ payment'[o] \in {"REFUNDED", "PARTIALLY_REFUNDED"})
    BY <1>0, <1>1, <1>5 DEF CompleteRefund, NewPaymentStatus, PayTypeOK
  <2>2. OrderInv(o) /\ \A d \in PayCalls : OrderCallInv(d, o)
    BY <1>0 DEF SalesInv
  <2>3. \A d \in PayCalls : Serving(d, o)' <=> Serving(d, o)
    BY <1>2, <1>3 DEF Others, Serving, For, PayAt
  <2>4. OrderInv(o)'
    BY <1>2, <2>1, <2>2, <2>3 DEF OrderInv, NotYet
  <2>5. ASSUME NEW d \in PayCalls PROVE OrderCallInv(d, o)'
    BY <1>2, <1>3, <2>1, <2>2, <2>3 DEF OrderCallInv, On, PayAt, Others, NotYet
  <2> QED
    BY <2>4, <2>5
<1> QED
  BY <1>9, <1>10

LEMMA ReverseKeeps ==
  ASSUME SettlementInv, NEW c \in PayCalls, ReverseCoupon(c)
  PROVE  SalesInv' /\ RefundsInv'
<1>1. /\ payCall[c].pc = "reverse"
      /\ UNCHANGED <<order, payment, detail, invoice, members, refund, paidBack, killed>> /\ PayDone(c)
  BY Zenon DEF ReverseCoupon, PayAt
<1>2. Others(c) /\ payCall'[c].pc = "idle"
  BY <1>1, DoneEffect DEF SettlementInv
<1> QED
  BY <1>1, <1>2, SalesQuiet, RefundsQuiet DEF SettlementInv, RefundPCs

LEMMA CrashKeeps ==
  ASSUME SettlementInv, NEW c \in PayCalls, PayCrash(c)
  PROVE  SalesInv' /\ RefundsInv'
<1>0. PayTypeOK /\ SalesInv
  BY DEF SettlementInv
<1>1. Others(c) /\ payCall'[c].pc = "idle"
  BY <1>0, DoneEffect DEF PayCrash
<1>2. /\ UNCHANGED <<order, payment, detail, invoice, members, refund, paidBack>>
      /\ killed' = killed \cup {o \in Orders : Serving(c, o)}
  BY DEF PayCrash
<1>3. ASSUME NEW o \in Orders PROVE OrderInv(o)' /\ \A d \in PayCalls : OrderCallInv(d, o)'
  <2>1. OrderInv(o) /\ \A d \in PayCalls : OrderCallInv(d, o)
    BY <1>0 DEF SalesInv
  <2>2. \A d \in PayCalls \ {c} : Serving(d, o)' <=> Serving(d, o)
    BY <1>1 DEF Others, Serving, PayAt
  <2>3. OrderInv(o)'
    BY <1>2, <2>1, <2>2 DEF OrderInv
  <2>4. ASSUME NEW d \in PayCalls PROVE OrderCallInv(d, o)'
    BY <1>1, <1>2, <2>1 DEF OrderCallInv, Serving, On, PayAt, Others
  <2> QED
    BY <2>3, <2>4
<1> QED
  BY <1>0, <1>1, <1>2, <1>3, RefundsQuiet DEF SettlementInv, SalesInv, RefundPCs

(* A handler that begins relies on what it has just read.                  *)
LEMMA SaleBegun ==
  ASSUME SettlementInv, NEW c \in PayCalls, NEW o \in Orders, Others(c), UNCHANGED payRows,
         PayAt(c, "idle"), payCall'[c].order = o, payCall'[c].pc \notin {"invoice", "activate"} \cup RefundPCs,
         OrderCallInv(c, o)', \A d \in PayCalls : ~On(d, "createOrder", o) \/ payCall'[c].pc # "createOrder"
  PROVE  SalesInv'
<1> SUFFICES ASSUME NEW x \in Orders PROVE OrderInv(x)' /\ \A d \in PayCalls : OrderCallInv(d, x)'
  BY DEF SalesInv
<1>1. OrderInv(x) /\ \A d \in PayCalls : OrderCallInv(d, x)
  BY DEF SettlementInv, SalesInv
<1>2. \A d \in PayCalls : Serving(d, x)' <=> Serving(d, x)
  BY DEF Others, Serving, PayAt
<1>3. OrderInv(x)'
  BY <1>1, <1>2 DEF OrderInv, payRows, sale
<1>4. ASSUME NEW d \in PayCalls, d # c PROVE OrderCallInv(d, x)'
  BY <1>1, <1>2, <1>4 DEF OrderCallInv, On, PayAt, Others, payRows, sale
<1>5. OrderCallInv(c, x)'
  <2>1. CASE x = o
    BY <2>1
  <2>2. CASE x # o
    BY <2>2 DEF OrderCallInv, On, Serving, PayAt
  <2> QED
    BY <2>1, <2>2
<1> QED
  BY <1>3, <1>4, <1>5

LEMMA StartKeeps ==
  ASSUME SettlementInv, NEW c \in PayCalls, PayStart(c)
  PROVE  SalesInv' /\ RefundsInv'
<1>0. PayTypeOK /\ SalesInv /\ RefundsInv
  BY DEF SettlementInv
<1>1. ASSUME NEW o \in Orders, NEW withCoupon \in BOOLEAN, BeginCheckout(c, o, withCoupon)
      PROVE  SalesInv' /\ RefundsInv'
  <2>1. /\ PayAt(c, "idle") /\ Others(c) /\ UNCHANGED payRows
        /\ payCall'[c].pc = "createOrder" /\ payCall'[c].order = o /\ order[o] = NotYet
        /\ \A d \in PayCalls : ~On(d, "createOrder", o)
    BY <1>0, <1>1, CheckoutEffect DEF Placing, On
  <2>2. OrderCallInv(c, o)'
    BY <2>1 DEF OrderCallInv, On, Serving, PayAt, Others, payRows, sale
  <2>3. SalesInv'
    BY <2>1, <2>2, SaleBegun DEF RefundPCs
  <2> QED
    BY <1>0, <2>1, <2>3, RefundsQuiet DEF payRows, sale, RefundPCs
<1>2. ASSUME NEW o \in Orders, BeginPayConfirm(c, o) \/ BeginVerify(c, o) \/ BeginReject(c, o) \/ BeginCancel(c, o)
      PROVE  SalesInv' /\ RefundsInv'
  <2>1. PayAt(c, "idle") /\ Others(c) /\ UNCHANGED payRows /\ payCall'[c].order = o
    BY <1>0, <1>2, ConfirmEffect, VerifyEffect, RejectEffect, CancelEffect
  <2>2. OrderInv(o)
    BY <1>0 DEF SalesInv
  <2>3. \/ payCall'[c].pc = "createDetail" /\ payment[o] # NotYet
        \/ payCall'[c].pc = "settle" /\ detail[o] = "PENDING_VERIFICATION" /\ order[o] = "PAYMENT_PROCESSING"
        \/ payCall'[c].pc = "reject" /\ detail[o] = "PENDING_VERIFICATION"
        \/ payCall'[c].pc = "cancel" /\ payCall'[c].orderSeen = "PENDING_PAYMENT"
    <3>1. CASE BeginPayConfirm(c, o)
      BY <1>0, <3>1, ConfirmEffect
    <3>2. CASE BeginVerify(c, o)
      BY <1>0, <2>2, <3>2, VerifyEffect DEF OrderInv
    <3>3. CASE BeginReject(c, o)
      BY <1>0, <3>3, RejectEffect
    <3>4. CASE BeginCancel(c, o)
      BY <1>0, <2>2, <3>4, CancelEffect DEF OrderInv, NotYet
    <3> QED
      BY <1>2, <3>1, <3>2, <3>3, <3>4
  <2>4. OrderCallInv(c, o)'
    BY <2>1, <2>2, <2>3 DEF OrderInv, OrderCallInv, On, Serving, PayAt, payRows, sale, NotYet
  <2>5. SalesInv'
    BY <2>1, <2>3, <2>4, SaleBegun DEF RefundPCs
  <2> QED
    BY <1>0, <2>1, <2>3, <2>5, RefundsQuiet DEF payRows, sale, RefundPCs
<1>3. ASSUME NEW o \in Orders, NEW r \in Refunds, NEW amount \in Amounts, NEW a \in Admins, BeginRequest(c, r, o, amount, a)
      PROVE  SalesInv' /\ RefundsInv'
  <2>1. /\ PayAt(c, "idle") /\ Others(c) /\ UNCHANGED payRows
        /\ payCall'[c].pc = "createRefund" /\ payCall'[c].refund = r /\ payCall'[c].order = o
        /\ payment[o] \in {"PAID", "PARTIALLY_REFUNDED"} /\ refund[r].status = NotYet
        /\ \A d \in PayCalls : ~For(d, "createRefund", r)
    BY <1>0, <1>3, RequestEffect DEF Requesting, For
  <2>2. order[o] = "PAID"
    BY <1>0, <2>1 DEF SalesInv, OrderInv
  <2>3. OrderCallInv(c, o)'
    BY <2>1, <2>2 DEF OrderCallInv, On, Serving, PayAt, payRows, sale
  <2>4. SalesInv'
    BY <2>1, <2>3, SaleBegun DEF RefundPCs
  <2>5. RefundsInv'
    <3> SUFFICES ASSUME NEW x \in Refunds PROVE RefundInv(x)' /\ \A d \in PayCalls : RefundCallInv(d, x)'
      BY DEF RefundsInv
    <3>1. RefundInv(x) /\ \A d \in PayCalls : RefundCallInv(d, x)
      BY <1>0 DEF RefundsInv
    <3>2. RefundInv(x)'
      BY <2>1, <3>1 DEF RefundInv, payRows, sale
    <3>3. ASSUME NEW d \in PayCalls PROVE RefundCallInv(d, x)'
      BY <2>1, <3>1 DEF RefundCallInv, For, Paying, PayAt, Others, payRows, sale
    <3> QED
      BY <3>2, <3>3
  <2> QED
    BY <2>4, <2>5
<1>4. ASSUME NEW r \in Refunds, NEW a \in Admins, NEW to \in {"APPROVED", "REJECTED", "PROCESSING"}, BeginRefundStep(c, r, a, to)
      PROVE  SalesInv' /\ RefundsInv'
  <2>1. /\ PayAt(c, "idle") /\ Others(c) /\ UNCHANGED payRows
        /\ payCall'[c].pc = "claimRefund" /\ payCall'[c].refund = r /\ payCall'[c].admin = a
        /\ payCall'[c].refundSeen = refund[r].status /\ payCall'[c].to = to
        /\ refund[r].status \notin {NotYet, "PROCESSING", "COMPLETED"}
        /\ to = "PROCESSING" => refund[r].status = "APPROVED"
        /\ to = "APPROVED" => refund[r].requestedBy # a
    BY <1>0, <1>4, RefundStepEffect
  <2>2. SalesInv'
    BY <1>0, <2>1, SalesQuiet DEF payRows, sale, PayAt, RefundPCs
  <2>3. RefundsInv'
    <3> SUFFICES ASSUME NEW x \in Refunds PROVE RefundInv(x)' /\ \A d \in PayCalls : RefundCallInv(d, x)'
      BY DEF RefundsInv
    <3>1. RefundInv(x) /\ \A d \in PayCalls : RefundCallInv(d, x)
      BY <1>0 DEF RefundsInv
    <3>2. RefundInv(x)'
      BY <2>1, <3>1 DEF RefundInv, payRows, sale
    <3>3. ASSUME NEW d \in PayCalls, d # c PROVE RefundCallInv(d, x)'
      BY <2>1, <3>1, <3>3 DEF RefundCallInv, For, Paying, PayAt, Others, payRows, sale
    <3>4. RefundCallInv(c, x)'
      BY <2>1 DEF RefundCallInv, For, Paying, PayAt, payRows, sale
    <3> QED
      BY <3>2, <3>3, <3>4
  <2> QED
    BY <2>2, <2>3
<1> QED
  BY <1>1, <1>2, <1>3, <1>4 DEF PayStart

LEMMA SettlementStep == SettlementInv /\ [PayNext]_payVars => SettlementInv'
<1> SUFFICES ASSUME SettlementInv, [PayNext]_payVars PROVE SalesInv' /\ RefundsInv'
  BY StepType DEF SettlementInv
<1>1. ASSUME NEW c \in PayCalls, PayContinue(c) PROVE SalesInv' /\ RefundsInv'
  BY <1>1, CreateOrderKeeps, RedeemKeeps, CreatePaymentKeeps, OpenPaymentKeeps, DetailKeeps, ProcessKeeps,
     SettleKeeps, InvoiceKeeps, ActivateKeeps, RejectKeeps, CancelKeeps, CreateRefundKeeps, ClaimKeeps,
     PayBackKeeps, CompleteKeeps, ReverseKeeps DEF PayContinue
<1>2. CASE UNCHANGED payVars
  <2>1. SalesInv'
    BY <1>2 DEF SettlementInv, SalesInv, OrderInv, OrderCallInv, On, Serving, PayAt, payVars
  <2>2. RefundsInv'
    BY <1>2 DEF SettlementInv, RefundsInv, RefundInv, RefundCallInv, For, Paying, PayAt, payVars
  <2> QED
    BY <2>1, <2>2
<1> QED
  BY <1>1, <1>2, StartKeeps, CrashKeeps DEF PayNext

LEMMA SettlementInit == PayInit => SettlementInv
<1> SUFFICES ASSUME PayInit PROVE SalesInv /\ RefundsInv
  BY InitType DEF SettlementInv
<1>1. \A c \in PayCalls : payCall[c].pc = "idle"
  BY DEF PayInit, PayIdle
<1>2. SalesInv
  BY <1>1 DEF PayInit, SalesInv, OrderInv, OrderCallInv, On, Serving, PayAt, NotYet
<1>3. \A r \in Refunds : refund[r].status = NotYet /\ paidBack[r] = 0
  BY DEF PayInit, NoRefund
<1>4. RefundsInv
  BY <1>1, <1>3 DEF RefundsInv, RefundInv, RefundCallInv, For, Paying, PayAt, NotYet
<1> QED
  BY <1>2, <1>4

LEMMA SettlementInvariant == PaySpec => []SettlementInv
BY SettlementInit, SettlementStep, PTL DEF PaySpec

-----------------------------------------------------------------------------
(* What follows from it                                                    *)

(* requestRefund, rejectManualPayment, cancelPendingOrder: every refund    *)
(* belongs to an order that was settled, although order, payment and       *)
(* refund are written by different handlers from earlier reads.            *)
THEOREM RefundsAreBacked == PaySpec => []RefundsBacked
<1>1. SettlementInv => RefundsBacked
  BY DEF SettlementInv, RefundsInv, RefundInv, RefundsBacked
<1> QED
  BY <1>1, SettlementInvariant, PTL

(* refund.ts:108-110 and 72-75: a refund is paid back at most once, and    *)
(* only one that was requested and approved by two administrators.         *)
THEOREM RefundsPaidOnce == PaySpec => []PaidBackOnce
<1>1. SettlementInv => PaidBackOnce
  BY DEF SettlementInv, RefundsInv, RefundInv, PaidBackOnce
<1> QED
  BY <1>1, SettlementInvariant, PTL

(* order-cancel.ts against the writes of confirm and verify: an order the  *)
(* customer has withdrawn is never paid and starts no membership.          *)
THEOREM WithdrawnNeverPaid == PaySpec => []CancelledNeverPaid
<1>1. SettlementInv => CancelledNeverPaid
  BY DEF SettlementInv, SalesInv, OrderInv, CancelledNeverPaid
<1> QED
  BY <1>1, SettlementInvariant, PTL

(* verifyManualPayment: whoever paid has the invoice and the membership,   *)
(* or a handler is about to give them, or one was killed half way.         *)
THEOREM PayersServed == PaySpec => []PaidIsServed
<1>1. SettlementInv => PaidIsServed
  BY DEF SettlementInv, SalesInv, OrderInv, PaidIsServed
<1> QED
  BY <1>1, SettlementInvariant, PTL

-----------------------------------------------------------------------------
(* The finance centre implements OrderPromise: every step is a step of the *)
(* promise about one order, or none of it.                                 *)

Phase == [o \in Orders |-> PhaseOf(order[o])]

LEMMA PhaseTable ==
  /\ PhaseOf(NotYet) = "none" /\ PhaseOf("PENDING_PAYMENT") = "owed"
  /\ PhaseOf("PAYMENT_PROCESSING") = "reported" /\ PhaseOf("PAID") = "settled"
  /\ PhaseOf("FAILED") = "refused" /\ PhaseOf("CANCELLED") = "withdrawn"
BY DEF PhaseOf, NotYet

(* A step that moves one order along an edge of the promise.               *)
LEMMA PhaseMove ==
  ASSUME NEW o \in Orders, NEW from, NEW to, PayTypeOK, PayTypeOK', \A x \in Orders \ {o} : order'[x] = order[x],
         PhaseOf(order[o]) \in from, PhaseOf(order'[o]) = to, members' = members
  PROVE  Promise!Move(o, from, to)
<1>1. Phase[o] \in from /\ Phase' = [Phase EXCEPT ![o] = to]
  BY DEF Phase
<1> QED
  BY <1>1 DEF Promise!Move, Phase

LEMMA PromiseStep ==
  ASSUME SettlementInv, [PayNext]_payVars
  PROVE  [Promise!PromiseNext]_<<Phase, members>>
<1>0. PayTypeOK /\ PayTypeOK' /\ SalesInv
  BY StepType DEF SettlementInv
<1>1. UNCHANGED <<order, members>> => UNCHANGED <<Phase, members>>
  BY DEF Phase
<1>2. ASSUME NEW c \in PayCalls, PayStart(c) PROVE UNCHANGED <<order, members>>
  BY <1>2 DEF PayStart, BeginCheckout, BeginPayConfirm, BeginVerify, BeginReject, BeginCancel, BeginRequest, BeginRefundStep,
              PayBegin, payRows, sale
<1>3. ASSUME NEW c \in PayCalls,
             \/ RedeemCoupon(c) \/ CreatePayment(c) \/ OpenPayment(c) \/ CreateDetail(c) \/ GenerateInvoice(c)
             \/ CreateRefund(c) \/ claimRefundStatus(c) \/ refundPayment(c) \/ CompleteRefund(c) \/ ReverseCoupon(c)
             \/ PayCrash(c)
      PROVE  UNCHANGED <<order, members>>
  BY <1>3, Zenon DEF RedeemCoupon, CreatePayment, OpenPayment, CreateDetail, GenerateInvoice, CreateRefund,
              claimRefundStatus, refundPayment, CompleteRefund, ReverseCoupon, PayCrash, sale
<1>4. ASSUME NEW c \in PayCalls,
             \/ CreateOrder(c) \/ MoveToProcessing(c) \/ SettlePayment(c) \/ Activate(c) \/ RejectPayment(c) \/ CancelOrder(c)
      PROVE  UNCHANGED <<order, members>> \/ \E o \in Orders :
               \/ Promise!Place(o) \/ Promise!Report(o) \/ Promise!Withdraw(o)
               \/ Promise!Settle(o) \/ Promise!Refuse(o) \/ Promise!Grant(o)
  <2>1. PICK o \in Orders : o = payCall[c].order
    BY <1>0 DEF PayTypeOK, PayCall
  <2>2. OrderInv(o) /\ OrderCallInv(c, o)
    BY <1>0 DEF SalesInv
  <2>3. CASE CreateOrder(c)
    <3>1. order[o] = NotYet /\ order'[o] = "PENDING_PAYMENT" /\ members' = members /\ \A x \in Orders \ {o} : order'[x] = order[x]
      BY <1>0, <2>1, <2>2, <2>3 DEF CreateOrder, PayTypeOK, OrderCallInv, On
    <3>2. Promise!Place(o)
      BY <1>0, <3>1, PhaseMove, PhaseTable DEF Promise!Place
    <3> QED
      BY <3>2
  <2>4. CASE MoveToProcessing(c)
    <3>1. /\ members' = members /\ \A x \in Orders \ {o} : order'[x] = order[x]
          /\ order'[o] = IF order[o] = "PENDING_PAYMENT" THEN "PAYMENT_PROCESSING" ELSE order[o]
      BY <1>0, <2>1, <2>4 DEF MoveToProcessing, PayTypeOK
    <3>2. CASE order[o] = "PENDING_PAYMENT"
      <4>1. Promise!Report(o)
        BY <1>0, <3>1, <3>2, PhaseMove, PhaseTable DEF Promise!Report
      <4> QED
        BY <4>1
    <3>3. CASE order[o] # "PENDING_PAYMENT"
      BY <1>0, <3>1, <3>3 DEF PayTypeOK
    <3> QED
      BY <3>2, <3>3
  <2>5. CASE SettlePayment(c)
    <3>1. CASE detail[o] = "PENDING_VERIFICATION" /\ Settled(o)
      <4>1. /\ order[o] = "PAYMENT_PROCESSING" /\ order'[o] = "PAID" /\ members' = members
            /\ \A x \in Orders \ {o} : order'[x] = order[x]
        BY <1>0, <2>1, <2>2, <2>5, <3>1 DEF SettlePayment, Settled, PayTypeOK, OrderCallInv, On
      <4>2. Promise!Settle(o)
        BY <1>0, <4>1, PhaseMove, PhaseTable DEF Promise!Settle
      <4> QED
        BY <4>2
    <3>2. CASE UNCHANGED order
      BY <2>5, <3>2 DEF SettlePayment
    <3> QED
      BY <2>1, <2>5, <3>1, <3>2, Zenon DEF SettlePayment
  <2>6. CASE Activate(c)
    <3>1. order[o] = "PAID" /\ members[o] = 0
      BY <2>1, <2>2, <2>6 DEF Activate, OrderCallInv, Serving
    <3>2. order' = order /\ members' = [members EXCEPT ![o] = members[o] + 1]
      BY <2>1, <2>6 DEF Activate
    <3>3. Promise!Grant(o)
      BY <3>1, <3>2, PhaseTable DEF Promise!Grant
    <3> QED
      BY <3>3
  <2>7. CASE RejectPayment(c)
    <3>1. /\ members' = members /\ \A x \in Orders \ {o} : order'[x] = order[x]
          /\ order'[o] = IF order[o] \in {"PENDING_PAYMENT", "PAYMENT_PROCESSING"} THEN "FAILED" ELSE order[o]
      BY <1>0, <2>1, <2>7 DEF RejectPayment, PayTypeOK
    <3>2. CASE order[o] \in {"PENDING_PAYMENT", "PAYMENT_PROCESSING"}
      <4>1. Promise!Refuse(o)
        BY <1>0, <3>1, <3>2, PhaseMove, PhaseTable DEF Promise!Refuse
      <4> QED
        BY <4>1
    <3>3. CASE order[o] \notin {"PENDING_PAYMENT", "PAYMENT_PROCESSING"}
      BY <1>0, <3>1, <3>3 DEF PayTypeOK
    <3> QED
      BY <3>2, <3>3
  <2>8. CASE CancelOrder(c)
    <3>1. CASE order[o] = payCall[c].orderSeen /\ Cancelled(o, payCall[c].paymentSeen)
      <4>1. /\ order[o] = "PENDING_PAYMENT" /\ order'[o] = "CANCELLED" /\ members' = members
            /\ \A x \in Orders \ {o} : order'[x] = order[x]
        BY <1>0, <2>1, <2>2, <2>8, <3>1 DEF CancelOrder, Cancelled, PayTypeOK, OrderCallInv, On
      <4>2. Promise!Withdraw(o)
        BY <1>0, <4>1, PhaseMove, PhaseTable DEF Promise!Withdraw
      <4> QED
        BY <4>2
    <3>2. CASE UNCHANGED order
      BY <2>8, <3>2 DEF CancelOrder
    <3> QED
      BY <2>1, <2>8, <3>1, <3>2, Zenon DEF CancelOrder
  <2> QED
    BY <1>4, <2>3, <2>4, <2>5, <2>6, <2>7, <2>8
<1>5. UNCHANGED payVars => UNCHANGED <<order, members>>
  BY DEF payVars
<1> QED
  BY <1>1, <1>2, <1>3, <1>4, <1>5 DEF PayNext, PayContinue, Promise!PromiseNext

LEMMA PromiseInitial == PayInit => Promise!PromiseInit
BY PhaseTable DEF PayInit, Promise!PromiseInit

(* order-cancel.ts, verify.ts, checkout: an order that is owed is          *)
(* withdrawn, refused or settled, each for good, and the membership it     *)
(* buys starts once, after it is settled: the promise of OrderPromise.     *)
THEOREM PromiseKept == PaySpec => KeepsPromise
<1>1. SettlementInv /\ [PayNext]_payVars => [Promise!PromiseNext]_<<Phase, members>>
  BY PromiseStep
<1>2. PaySpec => PayInit /\ [][PayNext]_payVars
  BY DEF PaySpec
<1>3. [Promise!PromiseNext]_<<Phase, members>> =>
        [Promise!PromiseNext]_<<[o \in Orders |-> PhaseOf(order[o])], members>>
  BY DEF Phase
<1> QED
  BY <1>1, <1>2, <1>3, SettlementInvariant, PromiseInitial, PTL DEF Promise!PromiseSpec, KeepsPromise
=============================================================================
