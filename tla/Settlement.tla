------------------------------ MODULE Settlement ------------------------------
(***************************************************************************)
(* The finance centre: an order, its one payment by bank transfer, the     *)
(* reference the customer submits, the administrator's verification or     *)
(* rejection, the customer's cancellation, the invoice and the membership  *)
(* a verified payment starts, the coupon spent on the order, and refunds.  *)
(*                                                                         *)
(* A handler is a "call"; each action is one prisma call or one            *)
(* transaction of it.  A transaction is atomic; what the handler read      *)
(* before it may be stale by then.  The manual provider, the only one that *)
(* can take a payment (finance/providers), answers COMPLETED to a refund.  *)
(***************************************************************************)
EXTENDS Naturals, FiniteSets

CONSTANTS
  Orders,        \* Order ids; an order's payment and coupon redemption go by its id
  Refunds,       \* bound: Refund ids
  Admins,        \* administrators who request and approve refunds
  PayCalls,      \* handler invocations that may be in flight together
  PayKinds,      \* the operations in play
  Price,         \* totalMinor of an order, hence amountMinor of its payment
  Amounts,       \* the refund amounts administrators ask for
  UsageLimit     \* usageLimit of the coupon

AllPayKinds == {"CHECKOUT", "COUPON", "CONFIRM", "VERIFY", "REJECT", "CANCEL", "REFUND", "CRASH"}

OrderStatus   == {"DRAFT", "PENDING_PAYMENT", "PAYMENT_PROCESSING", "PAID", "COMPLETED", "FAILED", "CANCELLED",
                  "REFUNDED", "PARTIALLY_REFUNDED"}
PaymentStatus == {"CREATED", "PENDING", "PROCESSING", "PAID", "FAILED", "CANCELLED", "REFUNDED",
                  "PARTIALLY_REFUNDED", "DISPUTED", "EXPIRED"}
RefundStatus  == {"REQUESTED", "PENDING_APPROVAL", "APPROVED", "PROCESSING", "COMPLETED", "FAILED", "REJECTED", "CANCELLED"}
DetailStatus  == {"NONE", "PENDING_VERIFICATION", "VERIFIED", "REJECTED"}
CouponStatus  == {"NONE", "REDEEMED", "RELEASED", "REVERSED"}

ASSUME PayConstants ==
  /\ Orders # {} /\ Refunds # {} /\ Admins # {}
  /\ PayKinds \subseteq AllPayKinds
  /\ Price \in Nat \ {0} /\ Amounts \subseteq Nat \ {0} /\ UsageLimit \in Nat

-----------------------------------------------------------------------------
(* status-transitions.ts: where each status may go *)

PaymentTransitions(s) ==
  CASE s = "CREATED"            -> {"PENDING", "PROCESSING", "CANCELLED", "EXPIRED"}
    [] s = "PENDING"            -> {"PROCESSING", "FAILED", "CANCELLED", "EXPIRED"}
    [] s = "PROCESSING"         -> {"PAID", "FAILED"}
    [] s = "PAID"               -> {"REFUNDED", "PARTIALLY_REFUNDED", "DISPUTED"}
    [] s = "FAILED"             -> {"PENDING", "PROCESSING"}
    [] s = "PARTIALLY_REFUNDED" -> {"REFUNDED"}
    [] s = "DISPUTED"           -> {"PAID", "REFUNDED"}
    [] OTHER                    -> {}

OrderTransitions(s) ==
  CASE s = "DRAFT"                          -> {"PENDING_PAYMENT", "CANCELLED"}
    [] s = "PENDING_PAYMENT"                -> {"PAYMENT_PROCESSING", "FAILED", "CANCELLED"}
    [] s = "PAYMENT_PROCESSING"             -> {"PAID", "FAILED"}
    [] s = "PAID"                           -> {"COMPLETED", "REFUNDED", "PARTIALLY_REFUNDED"}
    [] s = "FAILED"                         -> {"PENDING_PAYMENT"}
    [] s = "COMPLETED"                      -> {"REFUNDED", "PARTIALLY_REFUNDED"}
    [] s = "PARTIALLY_REFUNDED"             -> {"REFUNDED"}
    [] OTHER                                -> {}

RefundTransitions(s) ==
  CASE s = "REQUESTED"        -> {"PENDING_APPROVAL", "CANCELLED", "REJECTED"}
    [] s = "PENDING_APPROVAL" -> {"APPROVED", "REJECTED", "CANCELLED"}
    [] s = "APPROVED"         -> {"PROCESSING", "FAILED", "CANCELLED"}
    [] s = "PROCESSING"       -> {"COMPLETED", "FAILED"}
    [] s = "FAILED"           -> {"PENDING_APPROVAL"}
    [] OTHER                  -> {}

-----------------------------------------------------------------------------
VARIABLES
  order,      \* [Orders -> Order.status], "ABSENT" before the row exists
  payment,    \* [Orders -> Payment.status], "ABSENT" before the row exists
  detail,     \* [Orders -> ManualPaymentDetail.status], "NONE" where no row exists
  coupon,     \* [Orders -> CouponRedemption.status]
  invoice,    \* [Orders -> BOOLEAN]: the invoice exists
  members,    \* [Orders -> how many subscriptions the order has started]
  refund,     \* [Refunds -> the Refund row]
  paidBack,   \* [Refunds -> how often the provider was asked to pay it back]
  killed,     \* history: orders with a handler that was killed after settling them
  payCall     \* [PayCalls -> the state of the handler]

payVars == <<order, payment, detail, coupon, invoice, members, refund, paidBack, killed, payCall>>
sale == <<order, payment, detail, coupon, invoice, members, killed>>
payRows == <<sale, refund, paidBack>>

NotYet == "ABSENT"
Nobody == "NOBODY"
Refund == [status: {NotYet} \cup RefundStatus, order: Orders, amount: Nat,
           requestedBy: Admins \cup {Nobody}, approvedBy: Admins \cup {Nobody}]

PayPCs == {"idle", "createOrder", "redeem", "createPayment", "openPayment", "createDetail", "process", "settle",
        "invoice", "activate", "reject", "cancel", "createRefund", "claimRefund", "payBack", "complete", "reverse"}
PayCall == [pc: PayPCs, order: Orders, refund: Refunds, admin: Admins \cup {Nobody}, coupon: BOOLEAN, amount: Nat,
         orderSeen: {NotYet} \cup OrderStatus, paymentSeen: {NotYet} \cup PaymentStatus,
         refundSeen: {NotYet} \cup RefundStatus, to: {NotYet} \cup RefundStatus]

AnyOrder  == CHOOSE o \in Orders : TRUE
AnyRefund == CHOOSE r \in Refunds : TRUE
NoRefund  == [status |-> NotYet, order |-> AnyOrder, amount |-> 0, requestedBy |-> Nobody, approvedBy |-> Nobody]
PayIdle  == [pc |-> "idle", order |-> AnyOrder, refund |-> AnyRefund, admin |-> Nobody, coupon |-> FALSE, amount |-> 0,
              orderSeen |-> NotYet, paymentSeen |-> NotYet, refundSeen |-> NotYet, to |-> NotYet]

PayInit ==
  /\ order = [o \in Orders |-> NotYet] /\ payment = [o \in Orders |-> NotYet]
  /\ detail = [o \in Orders |-> "NONE"] /\ coupon = [o \in Orders |-> "NONE"]
  /\ invoice = [o \in Orders |-> FALSE] /\ members = [o \in Orders |-> 0]
  /\ refund = [r \in Refunds |-> NoRefund] /\ paidBack = [r \in Refunds |-> 0]
  /\ killed = {} /\ payCall = [c \in PayCalls |-> PayIdle]

-----------------------------------------------------------------------------
PayAt(c, pc)   == payCall[c].pc = pc
PayGoto(c, pc) == payCall' = [payCall EXCEPT ![c].pc = pc]
PayDone(c)     == payCall' = [payCall EXCEPT ![c] = PayIdle]

(* A handler starts: it has read what "begun" records and goes on with it. *)
PayBegin(c, kind, begun) ==
  /\ PayAt(c, "idle")
  /\ kind \in PayKinds
  /\ payCall' = [payCall EXCEPT ![c] = begun]
  /\ UNCHANGED payRows

Redeemed == {o \in Orders : coupon[o] = "REDEEMED"}

-----------------------------------------------------------------------------
(* startCheckout: the order, the coupon redemption, the payment *)

Placing(o) == \E c \in PayCalls : PayAt(c, "createOrder") /\ payCall[c].order = o

(* resolveCouponForOrder counts the redemptions before the order exists.   *)
BeginCheckout(c, o, withCoupon) ==
  /\ order[o] = NotYet /\ ~Placing(o)
  /\ withCoupon => "COUPON" \in PayKinds /\ Cardinality(Redeemed) < UsageLimit
  /\ PayBegin(c, "CHECKOUT", [PayIdle EXCEPT !.pc = "createOrder", !.order = o, !.coupon = withCoupon])

CreateOrder(c) ==
  /\ PayAt(c, "createOrder")
  /\ order' = [order EXCEPT ![payCall[c].order] = "PENDING_PAYMENT"]
  /\ PayGoto(c, IF payCall[c].coupon THEN "redeem" ELSE "createPayment")
  /\ UNCHANGED <<payment, detail, coupon, invoice, members, refund, paidBack, killed>>

RedeemCoupon(c) ==
  /\ PayAt(c, "redeem")
  /\ coupon' = [coupon EXCEPT ![payCall[c].order] = "REDEEMED"]
  /\ PayGoto(c, "createPayment")
  /\ UNCHANGED <<order, payment, detail, invoice, members, refund, paidBack, killed>>

CreatePayment(c) ==
  /\ PayAt(c, "createPayment")
  /\ payment' = [payment EXCEPT ![payCall[c].order] = "CREATED"]
  /\ PayGoto(c, "openPayment")
  /\ UNCHANGED <<order, detail, coupon, invoice, members, refund, paidBack, killed>>

OpenPayment(c) ==
  /\ PayAt(c, "openPayment")
  /\ payment' = [payment EXCEPT ![payCall[c].order] = "PENDING"]
  /\ PayDone(c)
  /\ UNCHANGED <<order, detail, coupon, invoice, members, refund, paidBack, killed>>

-----------------------------------------------------------------------------
(* POST my-billing/payments/[id]/confirm: the customer submits a reference *)

BeginPayConfirm(c, o) ==
  /\ payment[o] # NotYet
  /\ detail[o] = "NONE"
  /\ PayBegin(c, "CONFIRM", [PayIdle EXCEPT !.pc = "createDetail", !.order = o])

(* recordManualPayment; paymentId is unique, so a second row is refused.   *)
CreateDetail(c) ==
  LET o == payCall[c].order
  IN  /\ PayAt(c, "createDetail")
      /\ \/ /\ detail[o] = "NONE"
            /\ detail' = [detail EXCEPT ![o] = "PENDING_VERIFICATION"]
            /\ PayGoto(c, "process")
         \/ /\ detail[o] # "NONE"
            /\ PayDone(c)
            /\ UNCHANGED detail
      /\ UNCHANGED <<order, payment, coupon, invoice, members, refund, paidBack, killed>>

MoveToProcessing(c) ==
  LET o == payCall[c].order
  IN  /\ PayAt(c, "process")
      /\ payment' = [payment EXCEPT ![o] = "PROCESSING"]
      /\ order' = [order EXCEPT ![o] = IF @ = "PENDING_PAYMENT" THEN "PAYMENT_PROCESSING" ELSE @]
      /\ PayDone(c)
      /\ UNCHANGED <<detail, coupon, invoice, members, refund, paidBack, killed>>

-----------------------------------------------------------------------------
(* verifyManualPayment: checks, one transaction, then invoice and membership *)

(* An order still PENDING_PAYMENT is treated as PAYMENT_PROCESSING.        *)
orderFrom(o) == IF order[o] = "PENDING_PAYMENT" THEN "PAYMENT_PROCESSING" ELSE order[o]

BeginVerify(c, o) ==
  /\ detail[o] = "PENDING_VERIFICATION"
  /\ "PAID" \in PaymentTransitions(payment[o])
  /\ "PAID" \in OrderTransitions(orderFrom(o))
  /\ PayBegin(c, "VERIFY", [PayIdle EXCEPT !.pc = "settle", !.order = o])

(* Mutant: the reference takes the status of its payment. *)
SettledAlike(o) ==
  /\ detail' = [detail EXCEPT ![o] = "PAID"] /\ payment' = [payment EXCEPT ![o] = "PAID"]
  /\ order' = [order EXCEPT ![o] = "PAID"]

Settled(o) ==
  /\ detail' = [detail EXCEPT ![o] = "VERIFIED"]
  /\ payment' = [payment EXCEPT ![o] = "PAID"]
  /\ order' = [order EXCEPT ![o] = "PAID"]

(* Mutant: the conditional claim of the reference is a plain update. *)
SettleUnclaimed(c) ==
  /\ PayAt(c, "settle")
  /\ Settled(payCall[c].order) /\ PayGoto(c, "invoice")
  /\ UNCHANGED <<coupon, invoice, members, refund, paidBack, killed>>

SettlePayment(c) ==
  LET o == payCall[c].order
  IN  /\ PayAt(c, "settle")
      /\ \/ detail[o] = "PENDING_VERIFICATION" /\ Settled(o) /\ PayGoto(c, "invoice")
         \/ detail[o] # "PENDING_VERIFICATION" /\ PayDone(c) /\ UNCHANGED <<order, payment, detail>>
      /\ UNCHANGED <<coupon, invoice, members, refund, paidBack, killed>>

(* generateInvoice returns the invoice there is, or creates it.            *)
GenerateInvoice(c) ==
  /\ PayAt(c, "invoice")
  /\ invoice' = [invoice EXCEPT ![payCall[c].order] = TRUE]
  /\ PayGoto(c, "activate")
  /\ UNCHANGED <<order, payment, detail, coupon, members, refund, paidBack, killed>>

(* Mutant: the handler ends with the invoice. *)
ActivateForgotten(c) == PayAt(c, "activate") /\ PayDone(c) /\ UNCHANGED payRows

(* No code sets order.subscriptionId, so the payment starts a subscription *)
(* (activateSubscription); it never renews one.                            *)
Activate(c) ==
  /\ PayAt(c, "activate")
  /\ members' = [members EXCEPT ![payCall[c].order] = @ + 1]
  /\ PayDone(c)
  /\ UNCHANGED <<order, payment, detail, coupon, invoice, refund, paidBack, killed>>

-----------------------------------------------------------------------------
(* rejectManualPayment: one check, then an unconditional transaction *)

BeginReject(c, o) ==
  /\ detail[o] = "PENDING_VERIFICATION"
  /\ PayBegin(c, "REJECT", [PayIdle EXCEPT !.pc = "reject", !.order = o])

(* Mutant: the order fails whatever its status. *)
RejectBlind(c) ==
  LET o == payCall[c].order
  IN  /\ PayAt(c, "reject")
      /\ detail' = [detail EXCEPT ![o] = "REJECTED"]
      /\ payment' = [payment EXCEPT ![o] = "FAILED"]
      /\ order' = [order EXCEPT ![o] = "FAILED"]
      /\ PayDone(c)
      /\ UNCHANGED <<coupon, invoice, members, refund, paidBack, killed>>

RejectPayment(c) ==
  LET o == payCall[c].order
  IN  /\ PayAt(c, "reject")
      /\ detail' = [detail EXCEPT ![o] = "REJECTED"]
      /\ payment' = [payment EXCEPT ![o] = "FAILED"]
      /\ order' = [order EXCEPT ![o] = IF @ \in {"PENDING_PAYMENT", "PAYMENT_PROCESSING"} THEN "FAILED" ELSE @]
      /\ PayDone(c)
      /\ UNCHANGED <<coupon, invoice, members, refund, paidBack, killed>>

-----------------------------------------------------------------------------
(* cancelPendingOrder: checks, then a transaction that claims the order *)

BeginCancel(c, o) ==
  /\ "CANCELLED" \in OrderTransitions(order[o])
  /\ payment[o] # NotYet => detail[o] = "NONE" /\ "CANCELLED" \in PaymentTransitions(payment[o])
  /\ PayBegin(c, "CANCEL", [PayIdle EXCEPT !.pc = "cancel", !.order = o, !.orderSeen = order[o], !.paymentSeen = payment[o]])

Cancelled(o, seen) ==
  /\ order' = [order EXCEPT ![o] = "CANCELLED"]
  /\ payment' = [payment EXCEPT ![o] = IF @ = seen /\ @ # NotYet THEN "CANCELLED" ELSE @]
  /\ coupon' = [coupon EXCEPT ![o] = IF @ = "REDEEMED" THEN "RELEASED" ELSE @]

(* Mutant: the order is cancelled without comparing its status. *)
CancelUnclaimed(c) ==
  /\ PayAt(c, "cancel")
  /\ Cancelled(payCall[c].order, payCall[c].paymentSeen)
  /\ PayDone(c)
  /\ UNCHANGED <<detail, invoice, members, refund, paidBack, killed>>

CancelOrder(c) ==
  LET o == payCall[c].order
  IN  /\ PayAt(c, "cancel")
      /\ \/ order[o] = payCall[c].orderSeen /\ Cancelled(o, payCall[c].paymentSeen)
         \/ order[o] # payCall[c].orderSeen /\ UNCHANGED <<order, payment, coupon>>
      /\ PayDone(c)
      /\ UNCHANGED <<detail, invoice, members, refund, paidBack, killed>>

-----------------------------------------------------------------------------
(* refund.ts: request, decision, execution *)

Requesting(r) == \E c \in PayCalls : PayAt(c, "createRefund") /\ payCall[c].refund = r

Refundable(o, amount) == payment[o] \in {"PAID", "PARTIALLY_REFUNDED"} /\ amount <= Price

BeginRequest(c, r, o, amount, a) ==
  /\ Refundable(o, amount)
  /\ refund[r].status = NotYet /\ ~Requesting(r)
  /\ PayBegin(c, "REFUND", [PayIdle EXCEPT !.pc = "createRefund", !.refund = r, !.order = o, !.amount = amount, !.admin = a])

CreateRefund(c) ==
  /\ PayAt(c, "createRefund")
  /\ refund' = [refund EXCEPT ![payCall[c].refund] =
                  [NoRefund EXCEPT !.status = "REQUESTED", !.order = payCall[c].order, !.amount = payCall[c].amount,
                                   !.requestedBy = payCall[c].admin]]
  /\ PayDone(c)
  /\ UNCHANGED <<sale, paidBack>>

(* REQUESTED is approved along its two edges at once. *)
MayApprove(s) ==
  IF s = "REQUESTED"
    THEN "PENDING_APPROVAL" \in RefundTransitions(s) /\ "APPROVED" \in RefundTransitions("PENDING_APPROVAL")
    ELSE "APPROVED" \in RefundTransitions(s)

MayDecide(s, to, own) == IF to = "APPROVED" THEN MayApprove(s) /\ ~own ELSE to \in RefundTransitions(s)

(* approveRefund, rejectRefund and executeRefund read the refund first.    *)
BeginRefundStep(c, r, a, to) ==
  /\ MayDecide(refund[r].status, to, refund[r].requestedBy = a)
  /\ PayBegin(c, "REFUND", [PayIdle EXCEPT !.pc = "claimRefund", !.refund = r, !.admin = a,
                                         !.refundSeen = refund[r].status, !.to = to])

Claimed(c) ==
  LET to == payCall[c].to
  IN  /\ refund' = [refund EXCEPT ![payCall[c].refund].status = to,
                                  ![payCall[c].refund].approvedBy = IF to = "APPROVED" THEN payCall[c].admin ELSE @]
      /\ IF to = "PROCESSING" THEN PayGoto(c, "payBack") ELSE PayDone(c)

(* Mutant: the status read is not compared. *)
ClaimBlindly(c) == PayAt(c, "claimRefund") /\ Claimed(c) /\ UNCHANGED <<sale, paidBack>>

claimRefundStatus(c) ==
  /\ PayAt(c, "claimRefund")
  /\ \/ refund[payCall[c].refund].status = payCall[c].refundSeen /\ Claimed(c)
     \/ refund[payCall[c].refund].status # payCall[c].refundSeen /\ PayDone(c) /\ UNCHANGED refund
  /\ UNCHANGED <<sale, paidBack>>

(* The payment is read and the provider asked; an answer that the payment  *)
(* cannot take is an error after the money has been returned.              *)
NewPaymentStatus(r) == IF refund[r].amount >= Price THEN "REFUNDED" ELSE "PARTIALLY_REFUNDED"

refundPayment(c) ==
  LET r == payCall[c].refund
      o == refund[r].order
  IN  /\ PayAt(c, "payBack")
      /\ paidBack' = [paidBack EXCEPT ![r] = @ + 1]
      /\ IF NewPaymentStatus(r) \in PaymentTransitions(payment[o]) THEN PayGoto(c, "complete") ELSE PayDone(c)
      /\ UNCHANGED <<sale, refund>>

CompleteRefund(c) ==
  LET r == payCall[c].refund
  IN  /\ PayAt(c, "complete")
      /\ refund' = [refund EXCEPT ![r].status = "COMPLETED"]
      /\ payment' = [payment EXCEPT ![refund[r].order] = NewPaymentStatus(r)]
      /\ IF NewPaymentStatus(r) = "REFUNDED" THEN PayGoto(c, "reverse") ELSE PayDone(c)
      /\ UNCHANGED <<order, detail, coupon, invoice, members, paidBack, killed>>

(* reverseCoupon: a fully refunded order no longer counts as a use.        *)
ReverseCoupon(c) ==
  /\ PayAt(c, "reverse")
  /\ coupon' = [coupon EXCEPT ![refund[payCall[c].refund].order] = IF @ = "REDEEMED" THEN "REVERSED" ELSE @]
  /\ PayDone(c)
  /\ UNCHANGED <<order, payment, detail, invoice, members, refund, paidBack, killed>>

-----------------------------------------------------------------------------
Serving(c, o) == (PayAt(c, "invoice") \/ PayAt(c, "activate")) /\ payCall[c].order = o

PayCrash(c) ==
  /\ "CRASH" \in PayKinds
  /\ ~PayAt(c, "idle")
  /\ killed' = killed \cup {o \in Orders : Serving(c, o)}
  /\ PayDone(c)
  /\ UNCHANGED <<order, payment, detail, coupon, invoice, members, refund, paidBack>>

PayContinue(c) ==
  \/ CreateOrder(c) \/ RedeemCoupon(c) \/ CreatePayment(c) \/ OpenPayment(c)
  \/ CreateDetail(c) \/ MoveToProcessing(c)
  \/ SettlePayment(c) \/ GenerateInvoice(c) \/ Activate(c)
  \/ RejectPayment(c) \/ CancelOrder(c)
  \/ CreateRefund(c) \/ claimRefundStatus(c) \/ refundPayment(c) \/ CompleteRefund(c) \/ ReverseCoupon(c)

PayStart(c) ==
  \/ \E o \in Orders :
       \/ \E withCoupon \in BOOLEAN : BeginCheckout(c, o, withCoupon)
       \/ BeginPayConfirm(c, o) \/ BeginVerify(c, o) \/ BeginReject(c, o) \/ BeginCancel(c, o)
       \/ \E r \in Refunds, amount \in Amounts, a \in Admins : BeginRequest(c, r, o, amount, a)
  \/ \E r \in Refunds, a \in Admins, to \in {"APPROVED", "REJECTED", "PROCESSING"} : BeginRefundStep(c, r, a, to)

PayNext == \E c \in PayCalls : PayContinue(c) \/ PayStart(c) \/ PayCrash(c)

PaySpec == PayInit /\ [][PayNext]_payVars

-----------------------------------------------------------------------------
(* Properties *)

PayTypeOK ==
  /\ order \in [Orders -> {NotYet} \cup OrderStatus]
  /\ payment \in [Orders -> {NotYet} \cup PaymentStatus]
  /\ detail \in [Orders -> DetailStatus]
  /\ coupon \in [Orders -> CouponStatus]
  /\ invoice \in [Orders -> BOOLEAN]
  /\ members \in [Orders -> Nat]
  /\ refund \in [Refunds -> Refund]
  /\ paidBack \in [Refunds -> Nat]
  /\ killed \subseteq Orders
  /\ payCall \in [PayCalls -> PayCall]

(* Every refund belongs to an order that was settled, although the order,  *)
(* the payment and the refund are written by different handlers from what  *)
(* they read earlier (requestRefund, rejectManualPayment, cancelPendingOrder). *)
RefundsBacked == \A r \in Refunds : refund[r].status # NotYet => order[refund[r].order] = "PAID"

(* refund.ts:108-110: the money of one refund is asked back at most once,  *)
(* however many administrators execute it together, and only for a refund  *)
(* that one administrator requested and another approved (lines 72-75).    *)
PaidBackOnce ==
  \A r \in Refunds : paidBack[r] > 0 =>
    /\ paidBack[r] = 1 /\ refund[r].status \in {"PROCESSING", "COMPLETED"}
    /\ refund[r].approvedBy \in Admins \ {refund[r].requestedBy}

(* An order the customer has withdrawn is never paid: neither a reference  *)
(* submitted meanwhile nor a verification in flight settles it (the claim  *)
(* of cancelPendingOrder against the writes of confirm and verify).        *)
CancelledNeverPaid ==
  \A o \in Orders : order[o] = "CANCELLED" =>
    detail[o] # "VERIFIED" /\ payment[o] \notin {"PAID", "REFUNDED", "PARTIALLY_REFUNDED"} /\ members[o] = 0

(* verifyManualPayment: whoever paid gets the invoice and the membership,  *)
(* or a handler is still about to give them; only a function killed half   *)
(* way leaves a paid order without (rejections, cancellations and second   *)
(* verifications in flight do not).                                        *)
PaidIsServed ==
  \A o \in Orders : order[o] = "PAID" =>
    \/ invoice[o] /\ members[o] = 1
    \/ o \in killed \/ \E c \in PayCalls : Serving(c, o)

(* The finance centre keeps the promise of OrderPromise for every order.   *)
PhaseOf(s) ==
  CASE s = NotYet               -> "none"
    [] s = "PENDING_PAYMENT"    -> "owed"
    [] s = "PAYMENT_PROCESSING" -> "reported"
    [] s = "PAID"               -> "settled"
    [] s = "FAILED"             -> "refused"
    [] OTHER                    -> "withdrawn"

Promise == INSTANCE OrderPromise WITH phase <- [o \in Orders |-> PhaseOf(order[o])], granted <- members

KeepsPromise == Promise!PromiseSpec
=============================================================================
