---------------------------- MODULE ServicesProofs ----------------------------
(***************************************************************************)
(* What holds of signature requests and of messages to members for every   *)
(* number of signers, messages and handlers at once, proved from inductive *)
(* invariants.                                                             *)
(***************************************************************************)
EXTENDS MessageQueue, Signatures, TLAPS

-----------------------------------------------------------------------------
(* Signature requests.  "Everybody has signed" is decided from a count     *)
(* that may be old when it is written, so what the invariant says of the   *)
(* request it says already of a handler that has decided; it stays true,   *)
(* because who has signed is never forgotten, although a later view or     *)
(* refusal overwrites the recipient's row.                                 *)

SignInv ==
  /\ SignTypeOK
  /\ \A s \in Signers : signer[s] = "SIGNED" => s \in signed
  /\ \A k \in Clerks : clerk[k].to = "SIGNED" => signed = Signers
  /\ SignedMeansAll

LEMMA IdleClerk == ClerkIdle \in Clerk /\ ClerkIdle.to = "PARTIALLY_SIGNED"
<1>1. AnySigner \in Signers
  BY SignatureConstants DEF AnySigner
<1> QED
  BY <1>1 DEF ClerkIdle, Clerk, SignPCs

LEMMA TakeEffect ==
  ASSUME SignTypeOK, NEW k \in Clerks, NEW pc \in SignPCs, NEW s \in Signers, Take(k, pc, s)
  PROVE  /\ clerk' \in [Clerks -> Clerk]
         /\ clerk'[k].to = "PARTIALLY_SIGNED" /\ \A i \in Clerks \ {k} : clerk'[i] = clerk[i]
<1> DEFINE taken == [ClerkIdle EXCEPT !.pc = pc, !.who = s]
<1>1. taken \in Clerk /\ taken.to = "PARTIALLY_SIGNED"
  BY IdleClerk DEF Clerk
<1>2. clerk' = [clerk EXCEPT ![k] = taken]
  BY DEF Take
<1> HIDE DEF taken
<1> QED
  BY <1>1, <1>2 DEF SignTypeOK

LEMMA DoneClerk ==
  ASSUME SignTypeOK, NEW k \in Clerks, ClerkDone(k)
  PROVE  /\ clerk' \in [Clerks -> Clerk]
         /\ clerk'[k].to = "PARTIALLY_SIGNED" /\ \A i \in Clerks \ {k} : clerk'[i] = clerk[i]
BY IdleClerk DEF ClerkDone, SignTypeOK

LEMMA GoesClerk ==
  ASSUME SignTypeOK, NEW k \in Clerks, NEW pc \in SignPCs, ClerkGoes(k, pc)
  PROVE  /\ clerk' \in [Clerks -> Clerk]
         /\ clerk'[k].to = clerk[k].to /\ \A i \in Clerks \ {k} : clerk'[i] = clerk[i]
BY DEF ClerkGoes, SignTypeOK, Clerk

(* A step that decides nothing: no row becomes SIGNED, no handler has      *)
(* decided that the request is, and the request does not become SIGNED.    *)
LEMMA DecidesNothing ==
  ASSUME SignInv, NEW k \in Clerks,
         clerk' \in [Clerks -> Clerk], \A i \in Clerks \ {k} : clerk'[i] = clerk[i],
         clerk'[k].to = "PARTIALLY_SIGNED" \/ clerk'[k].to = clerk[k].to,
         signer' \in [Signers -> {NoRequest} \cup SignerStatus],
         \A s \in Signers : signer'[s] = "SIGNED" => signer[s] = "SIGNED",
         request' \in {NoRequest} \cup OpenRequest \cup ClosedRequest, request' = "SIGNED" => request = "SIGNED",
         UNCHANGED <<lapsed, signed>>, deaths' \in 0..MaxDeaths
  PROVE  SignInv'
BY DEF SignInv, SignTypeOK, SignedMeansAll

LEMMA SignStep == SignInv /\ [SignNext]_signVars => SignInv'
<1> SUFFICES ASSUME SignInv, [SignNext]_signVars PROVE SignInv'
  OBVIOUS
<1> USE DEF SignPCs, SignerStatus, OpenRequest, ClosedRequest, NoRequest
<1>0. SignTypeOK /\ AnySigner \in Signers /\ \A k \in Clerks : clerk[k] \in Clerk /\ clerk[k].who \in Signers
  BY SignatureConstants DEF SignInv, SignTypeOK, Clerk, AnySigner
<1>1. ASSUME NEW k \in Clerks, CreateRequest(k) PROVE SignInv'
  BY <1>0, <1>1, TakeEffect, DecidesNothing DEF CreateRequest, SignInv, SignTypeOK
<1>2. ASSUME NEW k \in Clerks, BeginVoid(k) PROVE SignInv'
  BY <1>0, <1>2, TakeEffect, DecidesNothing DEF BeginVoid, SignInv, SignTypeOK
<1>3. ASSUME NEW k \in Clerks, KillClerk(k) PROVE SignInv'
  <2>1. deaths' \in 0..MaxDeaths
    BY <1>0, <1>3, SignatureConstants DEF KillClerk, SignTypeOK
  <2> QED
    BY <1>0, <1>3, <2>1, DoneClerk, DecidesNothing DEF KillClerk, SignInv, SignTypeOK
<1>4. ASSUME NEW k \in Clerks, NEW s \in Signers, BeginView(k, s) \/ BeginSign(k, s) \/ BeginDecline(k, s) PROVE SignInv'
  BY <1>0, <1>4, TakeEffect, DecidesNothing DEF BeginView, BeginSign, BeginDecline, SignInv, SignTypeOK
<1>5. ASSUME NEW k \in Clerks, CreateRecipients(k) PROVE SignInv'
  BY <1>0, <1>5, DoneClerk, DecidesNothing DEF CreateRecipients, SignInv, SignTypeOK
<1>6. ASSUME NEW k \in Clerks, ViewRecipient(k) \/ DeclineRecipient(k) PROVE SignInv'
  BY <1>0, <1>6, GoesClerk, DecidesNothing DEF ViewRecipient, DeclineRecipient, SignInv, SignTypeOK
<1>7. ASSUME NEW k \in Clerks, ViewRequest(k) \/ DeclineRequest(k) \/ VoidRequest(k) PROVE SignInv'
  BY <1>0, <1>7, DoneClerk, DecidesNothing DEF ViewRequest, DeclineRequest, VoidRequest, SignInv, SignTypeOK
<1>8. ASSUME NEW k \in Clerks, FindRecipient(k) PROVE SignInv'
  BY <1>0, <1>8, DoneClerk, GoesClerk, DecidesNothing DEF FindRecipient, SignInv, SignTypeOK
<1>9. ASSUME NEW k \in Clerks, SignRecipient(k) PROVE SignInv'
  <2>1. clerk' \in [Clerks -> Clerk] /\ \A i \in Clerks : clerk'[i].to = clerk[i].to
    BY <1>0, <1>9, GoesClerk DEF SignRecipient
  <2> QED
    BY <1>0, <1>9, <2>1 DEF SignRecipient, SignInv, SignTypeOK, SignedMeansAll
<1>10. ASSUME NEW k \in Clerks, CountRemaining(k) PROVE SignInv'
  <2>1. /\ clerk' \in [Clerks -> Clerk] /\ \A i \in Clerks \ {k} : clerk'[i] = clerk[i]
        /\ clerk'[k].to = "SIGNED" => Remaining = {}
    BY <1>0, <1>10 DEF CountRemaining, SignTypeOK, Clerk
  <2>2. Remaining = {} => signed = Signers
    BY <1>0 DEF Remaining, SignInv, SignTypeOK
  <2> QED
    BY <1>0, <1>10, <2>1, <2>2 DEF CountRemaining, SignInv, SignTypeOK, SignedMeansAll
<1>11. ASSUME NEW k \in Clerks, CloseRequest(k) PROVE SignInv'
  <2>1. request' = clerk[k].to /\ request' \in {"SIGNED", "PARTIALLY_SIGNED"}
    BY <1>0, <1>11 DEF CloseRequest, Clerk
  <2> QED
    BY <1>0, <1>11, <2>1, DoneClerk DEF CloseRequest, SignInv, SignTypeOK, SignedMeansAll
<1>12. CASE sweepExpiredSignatureRequests \/ ExpiryPasses \/ UNCHANGED signVars
  BY <1>12 DEF sweepExpiredSignatureRequests, ExpiryPasses, signVars, Sweepable, SignInv, SignTypeOK, SignedMeansAll
<1> QED
  BY <1>1, <1>2, <1>3, <1>4, <1>5, <1>6, <1>7, <1>8, <1>9, <1>10, <1>11, <1>12 DEF SignNext, ClerkWork

LEMMA SignStarts == SignInit => SignInv
<1> SUFFICES ASSUME SignInit PROVE SignInv
  OBVIOUS
<1>1. clerk \in [Clerks -> Clerk] /\ \A k \in Clerks : clerk[k].to # "SIGNED"
  BY IdleClerk DEF SignInit
<1>2. deaths \in 0..MaxDeaths
  BY SignatureConstants DEF SignInit
<1> QED
  BY <1>1, <1>2 DEF SignInit, SignInv, SignTypeOK, SignedMeansAll, OpenRequest, ClosedRequest, NoRequest

(* The request, the recipients' rows and the handlers' locals keep the     *)
(* types of the schema: a handler writes only statuses of the enum.        *)
THEOREM SignTypeCorrect == SignSpec => []SignTypeOK
<1>1. SignInv => SignTypeOK
  BY DEF SignInv
<1> QED
  BY <1>1, SignStarts, SignStep, PTL DEF SignSpec

(* signature-service.ts:106-115: a request is never SIGNED before everybody *)
(* who was asked has signed, however many people view, sign and refuse at  *)
(* once and whenever a handler dies.                                       *)
THEOREM SignedByAll == SignSpec => []SignedMeansAll
<1>1. SignInv => SignedMeansAll
  BY DEF SignInv
<1> QED
  BY <1>1, SignStarts, SignStep, PTL DEF SignSpec

-----------------------------------------------------------------------------
(* Messages.  While a courier carries a message, from its claim to the     *)
(* write of the outcome, the row is SENDING under a held lock and nobody   *)
(* else carries it; a provider has accepted it only if that outcome says   *)
(* so.  Once the row has the provider's reference it has left, and its     *)
(* status is one a provider reports; ToldInv below adds that where such a  *)
(* row shows what the queue could have written too, a provider said so.  A *)
(* dead letter without a reference never left, so that requeueing it, and  *)
(* only it, is safe.                                                       *)

Carries(c, m) == courier[c].id = m /\ courier[c].pc \in {"read", "exchange", "finish"}
KnowsSent(c)  == CourierAt(c, "finish") /\ courier[c].outcome = "SENT"
Reported      == {"SENT", "DELIVERED", "READ", "FAILED", "BOUNCED", "REJECTED", "EXPIRED"}

CarriedAlone(m) ==
  /\ \A c \in Couriers : Carries(c, m) => log[m].status = "SENDING" /\ log[m].lock = "held" /\ log[m].ref = 0
  /\ \A c, d \in Couriers : Carries(c, m) /\ Carries(d, m) => c = d

AcceptedAsKnown(m) ==
  /\ \A c \in Couriers : Carries(c, m) => accepted[m] = IF KnowsSent(c) THEN 1 ELSE 0
  /\ (\A c \in Couriers : ~Carries(c, m)) => accepted[m] = IF log[m].ref = 0 THEN 0 ELSE 1

RowTells(m) ==
  /\ log[m].ref # 0 => log[m].status \in Reported
  /\ log[m].dead /\ log[m].ref = 0 => log[m].status \in {"FAILED", "REJECTED"}
  /\ log[m].status = "FAILED" /\ ~log[m].dead => log[m].ref # 0

MessageInv(m) ==
  /\ CarriedAlone(m) /\ AcceptedAsKnown(m) /\ RowTells(m)
  /\ \A c \in Couriers : CourierAt(c, "resend") /\ courier[c].id = m => log[m].ref # 0

(* What a handler of a report or of an acceptance knows holds of every     *)
(* message: a reference is never taken back.                               *)
CourierKnows(c) ==
  /\ KnowsSent(c) => courier[c].ref # 0
  /\ CourierAt(c, "match") => courier[c].ref # 0 /\ courier[c].status \in Reports
  /\ CourierAt(c, "apply") => courier[c].status \in Reports /\ log[courier[c].id].ref # 0

MsgInv ==
  /\ MsgTypeOK
  /\ \A c \in Couriers : CourierKnows(c)
  /\ \A m \in Messages \ resent : MessageInv(m)

OtherCouriers(c) == \A d \in Couriers \ {c} : courier'[d] = courier[d]
OtherRows(m)     == \A n \in Messages \ {m} : log'[n] = log[n]

(* What each action does, field by field.                                  *)
LEMMA IdleCourier == CourierIdle \in Courier /\ CourierIdle.pc = "idle"
<1>1. AnyMessage \in Messages
  BY MessageConstants DEF AnyMessage
<1> QED
  BY <1>1 DEF CourierIdle, Courier, MsgPCs, Outcomes, NoMessage

LEMMA TravelsEffect ==
  ASSUME MsgTypeOK, NEW c \in Couriers, NEW state \in Courier, Travels(c, state)
  PROVE  courier' \in [Couriers -> Courier] /\ courier'[c] = state /\ OtherCouriers(c)
BY DEF Travels, MsgTypeOK, OtherCouriers

LEMMA RecordEffect ==
  ASSUME MsgTypeOK, NEW m \in Messages, NEW row \in LogRow, Record(m, row)
  PROVE  log' \in [Messages -> LogRow] /\ log'[m] = row /\ OtherRows(m)
BY DEF Record, MsgTypeOK, OtherRows

LEMMA IncidentType == ASSUME MsgTypeOK, Incident PROVE incidents' \in 0..MaxIncidents
BY MessageConstants DEF MsgTypeOK, Incident

LEMMA Known ==
  ASSUME MsgTypeOK, NEW c \in Couriers
  PROVE  /\ courier[c] \in Courier /\ courier[c].id \in Messages /\ courier[c].todo \subseteq Messages
         /\ courier[c].ref \in Nat /\ courier[c].attempts \in Nat /\ courier[c].outcome \in Outcomes
         /\ log[courier[c].id] \in LogRow
BY DEF MsgTypeOK, Courier

LEMMA QuietEffect ==
  ASSUME MsgTypeOK, NEW c \in Couriers, DailyDrain(c) \/ ManualDrain(c) \/ ListDueMessages(c) \/ StopDrain(c)
  PROVE  /\ MsgTypeOK' /\ OtherCouriers(c) /\ UNCHANGED <<log, accepted, resent>>
         /\ courier[c].pc \in {"idle", "list", "drain"} /\ courier'[c].pc \in {"idle", "recover", "drain"}
<1> DEFINE started == [CourierIdle EXCEPT !.pc = "recover"]
           listed  == [courier[c] EXCEPT !.pc = "drain", !.todo = {m \in Messages : log[m].status = "QUEUED" /\ log[m].due}]
<1>1. started \in Courier /\ started.pc = "recover" /\ listed \in Courier /\ listed.pc = "drain"
  BY IdleCourier, Known DEF Courier, MsgPCs
<1>2. PICK state \in {started, listed, CourierIdle} : Travels(c, state)
  BY DEF DailyDrain, ManualDrain, ProcessQueue, ListDueMessages, StopDrain
<1>3. /\ UNCHANGED <<log, accepted, resent, ledger>> /\ courier[c].pc \in {"idle", "list", "drain"}
      /\ drained' \in BOOLEAN /\ (Incident \/ UNCHANGED incidents)
  BY DEF DailyDrain, ManualDrain, ProcessQueue, ListDueMessages, StopDrain, OnlyLog, CourierAt, MsgTypeOK
<1> HIDE DEF started, listed
<1>4. courier' \in [Couriers -> Courier] /\ OtherCouriers(c) /\ courier'[c].pc \in {"idle", "recover", "drain"}
  BY <1>1, <1>2, IdleCourier, TravelsEffect
<1> QED
  BY <1>3, <1>4, IncidentType DEF MsgTypeOK

LEMMA ReadEffect ==
  ASSUME MsgTypeOK, NEW c \in Couriers, ReadMessage(c)
  PROVE  /\ MsgTypeOK' /\ OtherCouriers(c) /\ UNCHANGED <<log, accepted, resent>>
         /\ courier[c].pc = "read" /\ courier'[c].pc = "exchange" /\ courier'[c].id = courier[c].id
<1> DEFINE row  == log[courier[c].id]
           read == [courier[c] EXCEPT !.pc = "exchange", !.attempts = row.attempts, !.old = row.old]
<1>1. read \in Courier /\ read.pc = "exchange" /\ read.id = courier[c].id
  BY Known DEF Courier, MsgPCs, LogRow
<1>2. Travels(c, read) /\ UNCHANGED <<log, accepted, resent, ledger, drained, incidents>> /\ courier[c].pc = "read"
  BY DEF ReadMessage, OnlyLog, CourierAt
<1> HIDE DEF read
<1> QED
  BY <1>1, <1>2, TravelsEffect DEF MsgTypeOK

LEMMA ExchangeEffect ==
  ASSUME MsgTypeOK, NEW c \in Couriers, NotHandedOver(c)
  PROVE  /\ MsgTypeOK' /\ OtherCouriers(c) /\ UNCHANGED <<log, accepted, resent>>
         /\ courier[c].pc = "exchange" /\ courier'[c].pc = "finish" /\ courier'[c].id = courier[c].id
         /\ courier'[c].outcome # "SENT"
<1>1. PICK outcome \in {"CANCELLED", "RETRYABLE", "FAILED", "REJECTED", "EXPIRED", "HELD"} : Comes(c, outcome, 0)
  BY DEF NotHandedOver
<1> DEFINE back == [courier[c] EXCEPT !.pc = "finish", !.outcome = outcome, !.ref = 0]
<1>2. back \in Courier /\ back.pc = "finish" /\ back.id = courier[c].id /\ back.outcome # "SENT"
  BY Known DEF Courier, MsgPCs, Outcomes
<1>3. Travels(c, back) /\ UNCHANGED <<log, accepted, resent, ledger, drained, incidents>> /\ courier[c].pc = "exchange"
  BY <1>1 DEF NotHandedOver, Comes, OnlyLog, CourierAt
<1> HIDE DEF back
<1> QED
  BY <1>2, <1>3, TravelsEffect DEF MsgTypeOK

LEMMA HandOverEffect ==
  ASSUME MsgTypeOK, NEW c \in Couriers, HandOver(c)
  PROVE  LET m == courier[c].id
         IN  /\ MsgTypeOK' /\ OtherCouriers(c) /\ UNCHANGED log
             /\ courier[c].pc = "exchange" /\ courier'[c].pc = "finish" /\ courier'[c].id = m
             /\ accepted'[m] = accepted[m] + 1 /\ \A n \in Messages \ {m} : accepted'[n] = accepted[n]
             /\ \/ courier'[c].outcome = "SENT" /\ courier'[c].ref = accepted[m] + 1 /\ resent' = resent
                \/ courier'[c].outcome = "RETRYABLE" /\ resent' = resent \cup {m}
<1> DEFINE m    == courier[c].id
           yes  == [courier[c] EXCEPT !.pc = "finish", !.outcome = "SENT", !.ref = accepted[m] + 1]
           lost == [courier[c] EXCEPT !.pc = "finish", !.outcome = "RETRYABLE", !.ref = 0]
<1>1. m \in Messages /\ accepted[m] \in Nat
  BY Known DEF MsgTypeOK
<1>2. /\ yes \in Courier /\ yes.pc = "finish" /\ yes.id = m /\ yes.outcome = "SENT" /\ yes.ref = accepted[m] + 1
      /\ lost \in Courier /\ lost.pc = "finish" /\ lost.id = m /\ lost.outcome = "RETRYABLE"
  <2>1. courier[c] \in Courier /\ accepted[m] + 1 \in Nat
    BY <1>1, Known
  <2>2. lost \in Courier /\ lost.pc = "finish" /\ lost.id = m /\ lost.outcome = "RETRYABLE"
    BY <2>1 DEF Courier, MsgPCs, Outcomes
  <2> DEFINE ref == accepted[m] + 1
  <2> HIDE DEF ref
  <2>3. LET state == [courier[c] EXCEPT !.pc = "finish", !.outcome = "SENT", !.ref = ref]
        IN  state \in Courier /\ state.pc = "finish" /\ state.id = m /\ state.outcome = "SENT" /\ state.ref = ref
    BY <2>1 DEF Courier, MsgPCs, Outcomes, ref
  <2> QED
    BY <2>2, <2>3 DEF ref
<1>3. /\ courier[c].pc = "exchange" /\ UNCHANGED <<log, ledger, drained, incidents>>
      /\ accepted' = [accepted EXCEPT ![m] = @ + 1]
      /\ \/ Travels(c, yes) /\ resent' = resent
         \/ Travels(c, lost) /\ resent' = resent \cup {m}
  BY DEF HandOver, Comes, CourierAt
<1>4. /\ accepted' \in [Messages -> Nat] /\ accepted'[m] = accepted[m] + 1
      /\ \A n \in Messages \ {m} : accepted'[n] = accepted[n]
  BY <1>1, <1>3 DEF MsgTypeOK
<1>5. resent' \subseteq Messages
  BY <1>1, <1>3 DEF MsgTypeOK
<1> HIDE DEF yes, lost
<1>6. /\ courier' \in [Couriers -> Courier] /\ OtherCouriers(c) /\ courier'[c].pc = "finish" /\ courier'[c].id = m
      /\ \/ courier'[c].outcome = "SENT" /\ courier'[c].ref = accepted[m] + 1 /\ resent' = resent
         \/ courier'[c].outcome = "RETRYABLE" /\ resent' = resent \cup {m}
  BY <1>2, <1>3, TravelsEffect
<1> QED
  BY <1>3, <1>4, <1>5, <1>6 DEF MsgTypeOK

LEMMA SettlingRow ==
  ASSUME MsgTypeOK, NEW c \in Couriers, NEW row \in LogRow
  PROVE  /\ Settling(row, c) \in LogRow
         /\ Settling(row, c).ref = IF courier[c].outcome = "SENT" THEN courier[c].ref ELSE row.ref
         /\ courier[c].outcome = "SENT" => Settling(row, c).status = "SENT"
         /\ courier[c].outcome # "SENT" =>
              \/ Settling(row, c).status \in {"QUEUED", "EXPIRED", "CANCELLED"} /\ Settling(row, c).dead = row.dead
              \/ Settling(row, c).status \in {"REJECTED", "FAILED"} /\ Settling(row, c).dead = TRUE
<1>1. courier[c].attempts + 1 \in Nat /\ courier[c].ref \in Nat /\ courier[c].outcome \in Outcomes
  BY Known
<1> DEFINE made  == courier[c].attempts + 1
           free  == [row EXCEPT !.lock = "none"]
           tried == [free EXCEPT !.attempts = made]
<1>2. free \in LogRow /\ free.ref = row.ref /\ free.dead = row.dead
  BY DEF LogRow
<1>3. tried \in LogRow /\ tried.ref = row.ref /\ tried.dead = row.dead
  BY <1>1, <1>2 DEF LogRow
<1>4. \/ /\ courier[c].outcome = "HELD"
         /\ Settling(row, c) = [free EXCEPT !.status = "QUEUED", !.due = FALSE]
      \/ /\ courier[c].outcome \in {"EXPIRED", "CANCELLED"}
         /\ Settling(row, c) = [free EXCEPT !.status = courier[c].outcome]
      \/ /\ courier[c].outcome = "SENT"
         /\ Settling(row, c) = [tried EXCEPT !.status = "SENT", !.ref = courier[c].ref, !.due = TRUE]
      \/ /\ courier[c].outcome # "SENT"
         /\ Settling(row, c) = [tried EXCEPT !.status = "QUEUED", !.due = FALSE]
      \/ /\ courier[c].outcome # "SENT"
         /\ Settling(row, c) = [tried EXCEPT !.status = IF courier[c].outcome = "REJECTED" THEN "REJECTED" ELSE "FAILED",
                                             !.due = TRUE, !.dead = TRUE]
  BY DEF Settling
<1> HIDE DEF free, tried
<1> QED
  BY <1>1, <1>2, <1>3, <1>4 DEF LogRow, DeliveryStatus

LEMMA FinishEffect ==
  ASSUME MsgTypeOK, NEW c \in Couriers, Finish(c)
  PROVE  LET m == courier[c].id
         IN  /\ MsgTypeOK' /\ OtherCouriers(c) /\ OtherRows(m) /\ UNCHANGED <<accepted, resent>>
             /\ courier[c].pc = "finish" /\ courier'[c].pc = "drain" /\ log'[m] = Settling(log[m], c)
<1> DEFINE m    == courier[c].id
           goes == [CourierIdle EXCEPT !.pc = "drain", !.todo = courier[c].todo]
<1>1. goes \in Courier /\ goes.pc = "drain"
  BY IdleCourier, Known DEF Courier, MsgPCs
<1>2. /\ Travels(c, goes) /\ Record(m, Settling(log[m], c)) /\ courier[c].pc = "finish"
      /\ UNCHANGED <<accepted, resent, ledger, drained, incidents>>
  BY DEF Finish, OnlyLog, CourierAt
<1>3. m \in Messages /\ Settling(log[m], c) \in LogRow
  BY Known, SettlingRow
<1> HIDE DEF goes
<1>4. courier' \in [Couriers -> Courier] /\ OtherCouriers(c) /\ courier'[c].pc = "drain"
  BY <1>1, <1>2, TravelsEffect
<1>5. log' \in [Messages -> LogRow] /\ log'[m] = Settling(log[m], c) /\ OtherRows(m)
  BY <1>2, <1>3, RecordEffect
<1> QED
  BY <1>2, <1>4, <1>5 DEF MsgTypeOK

LEMMA ClaimEffect ==
  ASSUME MsgTypeOK, NEW c \in Couriers, NEW m \in courier[c].todo, ClaimMessage(c, m)
  PROVE  /\ MsgTypeOK' /\ OtherCouriers(c) /\ UNCHANGED <<accepted, resent>> /\ courier[c].pc = "drain"
         /\ \/ /\ log[m].status = "QUEUED" /\ courier'[c].pc = "read" /\ courier'[c].id = m
               /\ log'[m].status = "SENDING" /\ log'[m].lock = "held" /\ log'[m].ref = log[m].ref /\ log'[m].dead = log[m].dead
               /\ OtherRows(m)
            \/ courier'[c].pc = "drain" /\ log' = log
<1> DEFINE row   == [log[m] EXCEPT !.status = "SENDING", !.lock = "held"]
           takes == [courier[c] EXCEPT !.pc = "read", !.todo = @ \ {m}, !.id = m]
           skips == [courier[c] EXCEPT !.todo = @ \ {m}]
<1>1. m \in Messages /\ log[m] \in LogRow
  BY Known DEF MsgTypeOK
<1>2. row \in LogRow /\ row.status = "SENDING" /\ row.lock = "held" /\ row.ref = log[m].ref /\ row.dead = log[m].dead
  BY <1>1 DEF LogRow, DeliveryStatus
<1>3. takes \in Courier /\ takes.pc = "read" /\ takes.id = m /\ skips \in Courier /\ skips.pc = courier[c].pc
  BY <1>1, Known DEF Courier, MsgPCs
<1>4. /\ courier[c].pc = "drain" /\ UNCHANGED <<accepted, resent, ledger, drained, incidents>>
      /\ \/ log[m].status = "QUEUED" /\ Record(m, row) /\ Travels(c, takes)
         \/ Travels(c, skips) /\ log' = log
  BY DEF ClaimMessage, OnlyLog, CourierAt
<1> HIDE DEF row, takes, skips
<1>5. CASE log[m].status = "QUEUED" /\ Record(m, row) /\ Travels(c, takes)
  BY <1>1, <1>2, <1>3, <1>4, <1>5, TravelsEffect, RecordEffect DEF MsgTypeOK
<1>6. CASE Travels(c, skips) /\ log' = log
  BY <1>3, <1>4, <1>6, TravelsEffect DEF MsgTypeOK
<1> QED
  BY <1>4, <1>5, <1>6

LEMMA RetryEffect ==
  ASSUME MsgTypeOK, NEW c \in Couriers, NEW m \in Messages, BeginRetryMessage(c, m)
  PROVE  /\ MsgTypeOK' /\ OtherCouriers(c) /\ UNCHANGED <<log, accepted, resent>>
         /\ courier[c].pc = "idle" /\ courier'[c].id = m
         /\ courier'[c].pc = IF log[m].dead THEN "requeue" ELSE "resend"
         /\ ~log[m].dead => log[m].status = "FAILED"
<1> DEFINE goes == [CourierIdle EXCEPT !.pc = IF log[m].dead THEN "requeue" ELSE "resend", !.id = m]
<1>1. goes \in Courier /\ goes.id = m /\ goes.pc = IF log[m].dead THEN "requeue" ELSE "resend"
  BY IdleCourier DEF Courier, MsgPCs
<1>2. /\ Travels(c, goes) /\ courier[c].pc = "idle" /\ (~log[m].dead => log[m].status = "FAILED")
      /\ UNCHANGED <<log, accepted, resent, ledger, drained>> /\ Incident
  BY DEF BeginRetryMessage, CourierAt
<1> HIDE DEF goes
<1> QED
  BY <1>1, <1>2, TravelsEffect, IncidentType DEF MsgTypeOK

LEMMA RequeueEffect ==
  ASSUME MsgTypeOK, NEW c \in Couriers, RequeueMessage(c)
  PROVE  LET m == courier[c].id
         IN  /\ MsgTypeOK' /\ OtherCouriers(c) /\ OtherRows(m) /\ UNCHANGED accepted
             /\ courier[c].pc \in {"requeue", "resend"} /\ courier'[c].pc = "drain"
             /\ log'[m].status = "QUEUED" /\ log'[m].ref = log[m].ref
             /\ log'[m].dead = (log[m].dead /\ courier[c].pc = "resend")
             /\ resent' = IF log[m].dead /\ log[m].ref = 0 THEN resent ELSE resent \cup {m}
<1> DEFINE m    == courier[c].id
           row  == [log[m] EXCEPT !.status = "QUEUED", !.attempts = 0, !.due = TRUE, !.lock = "none",
                                  !.dead = @ /\ CourierAt(c, "resend")]
           goes == [CourierIdle EXCEPT !.pc = "drain", !.todo = {m}]
<1>1. m \in Messages /\ log[m] \in LogRow
  BY Known
<1>2. goes \in Courier /\ goes.pc = "drain"
  BY <1>1, IdleCourier DEF Courier, MsgPCs
<1>3. row \in LogRow /\ row.status = "QUEUED" /\ row.ref = log[m].ref /\ row.dead = (log[m].dead /\ courier[c].pc = "resend")
  BY <1>1 DEF LogRow, DeliveryStatus, CourierAt
<1>4. /\ Travels(c, goes) /\ Record(m, row) /\ courier[c].pc \in {"requeue", "resend"}
      /\ UNCHANGED <<accepted, ledger, drained, incidents>>
      /\ resent' = IF log[m].dead /\ log[m].ref = 0 THEN resent ELSE resent \cup {m}
  BY DEF RequeueMessage, CourierAt
<1> HIDE DEF row, goes
<1>5. courier' \in [Couriers -> Courier] /\ OtherCouriers(c) /\ courier'[c].pc = "drain"
  BY <1>2, <1>4, TravelsEffect
<1>6. log' \in [Messages -> LogRow] /\ log'[m] = row /\ OtherRows(m)
  BY <1>1, <1>3, <1>4, RecordEffect
<1>7. resent' \subseteq Messages
  BY <1>1, <1>4 DEF MsgTypeOK
<1> QED
  BY <1>3, <1>4, <1>5, <1>6, <1>7 DEF MsgTypeOK

LEMMA NextStatusEither ==
  ASSUME NEW s, NEW incoming
  PROVE  nextStatus(s, incoming) \in {s, incoming}
BY DEF nextStatus

LEMMA WebhookEffect ==
  ASSUME MsgTypeOK, NEW c \in Couriers, NEW m \in Messages, NEW ref \in Referable(m), NEW report \in Reports,
         BeginWebhook(c, m, ref, report)
  PROVE  /\ MsgTypeOK' /\ OtherCouriers(c) /\ UNCHANGED <<log, accepted, resent>>
         /\ courier[c].pc = "idle" /\ courier'[c].pc = "match" /\ courier'[c].id = m
         /\ courier'[c].ref # 0 /\ courier'[c].status \in Reports
         /\ courier'[c].status = report /\ <<m, ref, report>> \in ledger'
<1> DEFINE goes == [CourierIdle EXCEPT !.pc = "match", !.id = m, !.ref = ref, !.status = report]
<1>1. ref \in Nat /\ ref # 0
  BY Known DEF Referable, MsgTypeOK, LogRow
<1>2. report \in DeliveryStatus
  BY MessageConstants DEF DeliveryStatus, Failure
<1>3. goes \in Courier /\ goes.pc = "match" /\ goes.id = m /\ goes.ref = ref /\ goes.status = report
  BY <1>1, <1>2, IdleCourier DEF Courier, MsgPCs
<1>4. /\ Travels(c, goes) /\ courier[c].pc = "idle" /\ ledger' = ledger \cup {<<m, ref, report>>}
      /\ UNCHANGED <<log, accepted, resent, drained, incidents>>
  BY DEF BeginWebhook, CourierAt
<1> HIDE DEF goes
<1>5. ledger' \subseteq Messages \X Nat \X Reports
  BY <1>1, <1>4 DEF MsgTypeOK
<1>6. courier' \in [Couriers -> Courier] /\ courier'[c] = goes /\ OtherCouriers(c)
  BY <1>3, <1>4, TravelsEffect
<1> QED
  BY <1>1, <1>3, <1>4, <1>5, <1>6 DEF MsgTypeOK

LEMMA MatchEffect ==
  ASSUME MsgTypeOK, NEW c \in Couriers, courier[c].status \in Reports, MatchMessage(c)
  PROVE  /\ MsgTypeOK' /\ OtherCouriers(c) /\ UNCHANGED <<log, accepted, resent>>
         /\ courier[c].pc = "match"
         /\ \/ courier'[c].pc = "idle"
            \/ /\ courier'[c].pc = "apply" /\ courier'[c].id = courier[c].id
               /\ courier'[c].status \in Reports /\ log[courier[c].id].ref = courier[c].ref
               /\ courier'[c].status = courier[c].status
<1> DEFINE row    == log[courier[c].id]
           target == nextStatus(row.status, courier[c].status)
           finds  == [courier[c] EXCEPT !.pc = "apply", !.status = target]
<1>1. /\ courier[c].pc = "match" /\ UNCHANGED <<log, accepted, resent, ledger, drained, incidents>>
      /\ \/ Travels(c, CourierIdle)
         \/ row.ref = courier[c].ref /\ target # row.status /\ Travels(c, finds)
  BY DEF MatchMessage, OnlyLog, CourierAt
<1>2. target \in {row.status, courier[c].status}
  BY NextStatusEither
<1>3. CASE Travels(c, CourierIdle)
  BY <1>1, <1>3, IdleCourier, TravelsEffect DEF MsgTypeOK
<1>4. CASE row.ref = courier[c].ref /\ target # row.status /\ Travels(c, finds)
  <2>1. target = courier[c].status
    BY <1>2, <1>4
  <2> HIDE DEF target
  <2>2. /\ finds \in Courier /\ finds.pc = "apply" /\ finds.id = courier[c].id /\ finds.status \in Reports
        /\ finds.status = courier[c].status
    BY <2>1, Known DEF Courier, MsgPCs
  <2> HIDE DEF finds
  <2> QED
    BY <1>1, <1>4, <2>2, TravelsEffect DEF MsgTypeOK
<1> QED
  BY <1>1, <1>3, <1>4

LEMMA ApplyEffect ==
  ASSUME MsgTypeOK, NEW c \in Couriers, ApplyReport(c)
  PROVE  LET m == courier[c].id
         IN  /\ MsgTypeOK' /\ OtherCouriers(c) /\ OtherRows(m) /\ UNCHANGED <<accepted, resent>>
             /\ courier[c].pc = "apply" /\ courier'[c].pc = "idle"
             /\ log'[m].status = courier[c].status /\ log'[m].ref = log[m].ref /\ log'[m].dead = log[m].dead
<1> DEFINE m   == courier[c].id
           row == [log[m] EXCEPT !.status = courier[c].status]
<1>1. m \in Messages /\ courier[c].status \in {NoMessage} \cup DeliveryStatus /\ log[m] \in LogRow
  BY Known DEF Courier
<1>2. row \in LogRow /\ row.status = courier[c].status /\ row.ref = log[m].ref /\ row.dead = log[m].dead
  BY <1>1 DEF LogRow
<1>3. /\ Travels(c, CourierIdle) /\ Record(m, row) /\ courier[c].pc = "apply"
      /\ UNCHANGED <<accepted, resent, ledger, drained, incidents>>
  BY DEF ApplyReport, OnlyLog, CourierAt
<1> HIDE DEF row
<1> QED
  BY <1>1, <1>2, <1>3, IdleCourier, TravelsEffect, RecordEffect DEF MsgTypeOK

LEMMA KillEffect ==
  ASSUME MsgTypeOK, NEW c \in Couriers, KillCourier(c)
  PROVE  /\ MsgTypeOK' /\ OtherCouriers(c) /\ UNCHANGED <<log, accepted>> /\ courier'[c].pc = "idle"
         /\ resent' = IF KnowsSent(c) THEN resent \cup {courier[c].id} ELSE resent
<1>1. /\ Travels(c, CourierIdle) /\ Incident /\ UNCHANGED <<log, accepted, ledger, drained>>
      /\ resent' = IF KnowsSent(c) THEN resent \cup {courier[c].id} ELSE resent
  BY DEF KillCourier, KnowsSent
<1>2. resent' \subseteq Messages
  BY <1>1, Known DEF MsgTypeOK
<1> QED
  BY <1>1, <1>2, IdleCourier, TravelsEffect, IncidentType DEF MsgTypeOK

LEMMA CommunicateEffect ==
  ASSUME MsgTypeOK, NEW c \in Couriers, NEW m \in Messages, NEW deferred \in BOOLEAN, communicate(c, m, deferred)
  PROVE  /\ MsgTypeOK' /\ OtherCouriers(c) /\ OtherRows(m) /\ UNCHANGED <<accepted, resent>>
         /\ courier[c].pc = "idle" /\ courier'[c].pc \in {"idle", "drain"}
         /\ log[m].status = NoMessage /\ log'[m].status = "QUEUED"
         /\ log'[m].ref = log[m].ref /\ log'[m].dead = log[m].dead
<1> DEFINE row  == [log[m] EXCEPT !.status = "QUEUED", !.due = ~deferred]
           goes == [CourierIdle EXCEPT !.pc = "drain", !.todo = {m}]
<1>1. log[m] \in LogRow
  BY DEF MsgTypeOK
<1>2. row \in LogRow /\ row.status = "QUEUED" /\ row.ref = log[m].ref /\ row.dead = log[m].dead
  BY <1>1 DEF LogRow, DeliveryStatus
<1>3. goes \in Courier /\ goes.pc = "drain"
  BY IdleCourier DEF Courier, MsgPCs
<1>4. /\ Record(m, row) /\ (Travels(c, CourierIdle) \/ Travels(c, goes))
      /\ courier[c].pc = "idle" /\ log[m].status = NoMessage
      /\ UNCHANGED <<accepted, resent, ledger, drained, incidents>>
  BY DEF communicate, OnlyLog, CourierAt
<1> HIDE DEF row, goes
<1>5. courier' \in [Couriers -> Courier] /\ OtherCouriers(c) /\ courier'[c].pc \in {"idle", "drain"}
  BY <1>3, <1>4, IdleCourier, TravelsEffect
<1> QED
  BY <1>2, <1>4, <1>5, RecordEffect DEF MsgTypeOK

LEMMA UpdateEffect ==
  ASSUME MsgTypeOK, NEW S \in SUBSET Messages, NEW status \in DeliveryStatus, UpdateMany(S, status)
  PROVE  /\ log' \in [Messages -> LogRow] /\ \A m \in Messages \ S : log'[m] = log[m]
         /\ \A m \in S : log'[m].status = status /\ log'[m].ref = log[m].ref /\ log'[m].dead = log[m].dead
<1>1. ASSUME NEW m \in Messages
      PROVE  LET row == [log[m] EXCEPT !.status = status, !.lock = IF status = "QUEUED" THEN "none" ELSE @]
             IN  row \in LogRow /\ row.status = status /\ row.ref = log[m].ref /\ row.dead = log[m].dead
  BY DEF MsgTypeOK, LogRow
<1> QED
  BY <1>1 DEF UpdateMany, MsgTypeOK

LEMMA SweepEffect ==
  ASSUME MsgTypeOK, NEW c \in Couriers, Recover(c) \/ ExpireMessage(c)
  PROVE  /\ MsgTypeOK' /\ OtherCouriers(c) /\ UNCHANGED <<accepted, resent>>
         /\ courier[c].pc \in {"recover", "expire"} /\ courier'[c].pc \in {"expire", "list"}
         /\ \A m \in Messages : /\ log'[m].ref = log[m].ref /\ log'[m].dead = log[m].dead
                                /\ \/ log'[m] = log[m]
                                   \/ log[m].status = "SENDING" /\ log[m].lock = "expired" /\ log'[m].status = "QUEUED"
                                   \/ log[m].status = "QUEUED" /\ log'[m].status = "EXPIRED"
<1> DEFINE goes(pc) == [courier[c] EXCEPT !.pc = pc]
<1>1. \A pc \in {"expire", "list"} : goes(pc) \in Courier /\ goes(pc).pc = pc
  BY Known DEF Courier, MsgPCs
<1>2. \E pc \in {"expire", "list"} : Travels(c, goes(pc))
  BY DEF Recover, ExpireMessage
<1>3. UNCHANGED <<accepted, resent, ledger, drained, incidents>> /\ courier[c].pc \in {"recover", "expire"}
  BY DEF Recover, ExpireMessage, OnlyLog, CourierAt
<1> HIDE DEF goes
<1>4. courier' \in [Couriers -> Courier] /\ OtherCouriers(c) /\ courier'[c].pc \in {"expire", "list"}
  BY <1>1, <1>2, TravelsEffect
<1>5. CASE Recover(c)
  <2>1. UpdateMany(Recoverable, "QUEUED") /\ Recoverable \in SUBSET Messages /\ "QUEUED" \in DeliveryStatus
    BY <1>5 DEF Recover, Recoverable, DeliveryStatus
  <2>2. /\ log' \in [Messages -> LogRow] /\ \A m \in Messages \ Recoverable : log'[m] = log[m]
        /\ \A m \in Recoverable : log'[m].status = "QUEUED" /\ log'[m].ref = log[m].ref /\ log'[m].dead = log[m].dead
    BY <2>1, UpdateEffect
  <2>3. \A m \in Messages : /\ log'[m].ref = log[m].ref /\ log'[m].dead = log[m].dead
                            /\ \/ log'[m] = log[m]
                               \/ log[m].status = "SENDING" /\ log[m].lock = "expired" /\ log'[m].status = "QUEUED"
    BY <2>2 DEF Recoverable
  <2> QED
    BY <1>3, <1>4, <2>2, <2>3 DEF MsgTypeOK
<1>6. CASE ExpireMessage(c)
  <2> DEFINE late == {m \in Messages : log[m].status = "QUEUED" /\ log[m].old}
  <2>1. UpdateMany(late, "EXPIRED") /\ late \in SUBSET Messages /\ "EXPIRED" \in DeliveryStatus
    BY <1>6 DEF ExpireMessage, DeliveryStatus
  <2> HIDE DEF late
  <2>2. /\ log' \in [Messages -> LogRow] /\ \A m \in Messages \ late : log'[m] = log[m]
        /\ \A m \in late : log'[m].status = "EXPIRED" /\ log'[m].ref = log[m].ref /\ log'[m].dead = log[m].dead
    BY <2>1, UpdateEffect
  <2>3. \A m \in Messages : /\ log'[m].ref = log[m].ref /\ log'[m].dead = log[m].dead
                            /\ \/ log'[m] = log[m]
                               \/ log[m].status = "QUEUED" /\ log'[m].status = "EXPIRED"
    BY <2>2 DEF late
  <2> QED
    BY <1>3, <1>4, <2>2, <2>3 DEF MsgTypeOK
<1> QED
  BY <1>5, <1>6

LEMMA CancelEffect ==
  ASSUME MsgTypeOK, NEW m \in Messages, CancelQueued(m)
  PROVE  /\ MsgTypeOK' /\ OtherRows(m) /\ UNCHANGED <<accepted, resent, courier>>
         /\ log[m].status = "QUEUED" /\ log'[m].status = "CANCELLED"
         /\ log'[m].ref = log[m].ref /\ log'[m].dead = log[m].dead
<1>1. UpdateMany({m}, "CANCELLED") /\ {m} \in SUBSET Messages /\ "CANCELLED" \in DeliveryStatus
  BY DEF CancelQueued, DeliveryStatus
<1>2. Incident /\ log[m].status = "QUEUED" /\ UNCHANGED <<accepted, resent, ledger, drained, courier>>
  BY DEF CancelQueued, Cancellable
<1> QED
  BY <1>1, <1>2, UpdateEffect, IncidentType DEF MsgTypeOK, OtherRows

LEMMA DayEffect ==
  ASSUME MsgTypeOK, NEW S \in SUBSET Messages, DayPasses(S)
  PROVE  /\ MsgTypeOK' /\ UNCHANGED <<accepted, resent, courier>> /\ \A c \in Couriers : courier[c].pc = "idle"
         /\ \A m \in Messages : log'[m].status = log[m].status /\ log'[m].ref = log[m].ref /\ log'[m].dead = log[m].dead
<1> DEFINE row(m) == [log[m] EXCEPT !.due = TRUE, !.old = @ \/ (m \in S /\ log[m].status # NoMessage),
                                    !.lock = IF @ = "held" THEN "expired" ELSE @]
<1>1. ASSUME NEW m \in Messages
      PROVE  row(m) \in LogRow /\ row(m).status = log[m].status /\ row(m).ref = log[m].ref /\ row(m).dead = log[m].dead
  BY DEF MsgTypeOK, LogRow
<1>2. /\ log' = [m \in Messages |-> row(m)] /\ drained' = FALSE /\ \A c \in Couriers : courier[c].pc = "idle"
      /\ UNCHANGED <<accepted, resent, ledger, incidents, courier>>
  BY DEF DayPasses, CourierAt
<1> HIDE DEF row
<1> QED
  BY <1>1, <1>2 DEF MsgTypeOK

-----------------------------------------------------------------------------
(* What the other couriers know stays true: a reference stays.             *)
LEMMA KnowledgeStays ==
  ASSUME MsgInv, NEW c \in Couriers, OtherCouriers(c), CourierKnows(c)',
         \A m \in Messages : log[m].ref # 0 => log'[m].ref # 0
  PROVE  \A d \in Couriers : CourierKnows(d)'
<1>1. ASSUME NEW d \in Couriers \ {c} PROVE CourierKnows(d)'
  <2>1. courier'[d] = courier[d] /\ CourierKnows(d) /\ courier[d].id \in Messages
    BY Known DEF MsgInv, OtherCouriers
  <2> QED
    BY <2>1 DEF CourierKnows, KnowsSent, CourierAt
<1> QED
  BY <1>1

(* A message whose row is left alone, and that the acting courier carries  *)
(* as before, with the same knowledge.                                     *)
LEMMA LeftAlone ==
  ASSUME MsgInv, NEW c \in Couriers, OtherCouriers(c), NEW m \in Messages \ resent,
         log'[m] = log[m], accepted'[m] = accepted[m],
         Carries(c, m)' <=> Carries(c, m), Carries(c, m) => (KnowsSent(c)' <=> KnowsSent(c)),
         courier'[c].pc = "resend" /\ courier'[c].id = m => log[m].ref # 0
  PROVE  MessageInv(m)'
<1>1. MessageInv(m)
  BY DEF MsgInv
<1>2. \A d \in Couriers : /\ Carries(d, m)' <=> Carries(d, m)
                          /\ Carries(d, m) => (KnowsSent(d)' <=> KnowsSent(d))
  BY DEF OtherCouriers, Carries, KnowsSent, CourierAt
<1>3. CarriedAlone(m)' /\ RowTells(m)'
  BY <1>1, <1>2 DEF MessageInv, CarriedAlone, RowTells
<1>4. AcceptedAsKnown(m)'
  BY <1>1, <1>2 DEF MessageInv, AcceptedAsKnown
<1>5. \A d \in Couriers : CourierAt(d, "resend")' /\ courier'[d].id = m => log'[m].ref # 0
  BY <1>1 DEF MessageInv, OtherCouriers, CourierAt
<1> QED
  BY <1>3, <1>4, <1>5 DEF MessageInv

(* A message nobody carries, before or after: its row may change as long   *)
(* as the reference stays and the row still tells the truth.               *)
LEMMA Uncarried ==
  ASSUME MsgInv, NEW m \in Messages \ resent, accepted'[m] = accepted[m], log'[m].ref = log[m].ref, RowTells(m)',
         \A d \in Couriers : ~Carries(d, m) /\ ~Carries(d, m)',
         \A d \in Couriers : courier'[d].pc = "resend" /\ courier'[d].id = m => log[m].ref # 0
  PROVE  MessageInv(m)'
BY DEF MsgInv, MessageInv, CarriedAlone, AcceptedAsKnown, CourierAt

(* A message that is not SENDING is carried by nobody.                     *)
LEMMA NotSending ==
  ASSUME MsgInv, NEW m \in Messages \ resent, log[m].status # "SENDING" \/ log[m].lock # "held"
  PROVE  \A d \in Couriers : ~Carries(d, m)
BY DEF MsgInv, MessageInv, CarriedAlone

(* A row that is not among those a provider reports has no reference.      *)
LEMMA NotOut ==
  ASSUME MsgInv, NEW m \in Messages \ resent, log[m].status \notin Reported
  PROVE  log[m].ref = 0 /\ ~log[m].dead
BY DEF MsgInv, MessageInv, RowTells, Reported

LEMMA QuietStep ==
  ASSUME MsgInv, NEW c \in Couriers, DailyDrain(c) \/ ManualDrain(c) \/ ListDueMessages(c) \/ StopDrain(c) \/ ReadMessage(c)
  PROVE  MsgInv'
<1>1. /\ MsgTypeOK' /\ OtherCouriers(c) /\ UNCHANGED <<log, accepted, resent>>
      /\ courier'[c].pc \notin {"match", "apply", "finish", "resend"} /\ courier[c].pc # "finish"
      /\ \A m \in Messages : Carries(c, m)' <=> Carries(c, m)
  BY QuietEffect, ReadEffect DEF MsgInv, Carries
<1>2. CourierKnows(c)' /\ ~KnowsSent(c) /\ ~KnowsSent(c)'
  BY <1>1 DEF CourierKnows, KnowsSent, CourierAt
<1>3. \A d \in Couriers : CourierKnows(d)'
  BY <1>1, <1>2, KnowledgeStays
<1>4. \A m \in Messages \ resent : MessageInv(m)'
  BY <1>1, <1>2, LeftAlone
<1> QED
  BY <1>1, <1>3, <1>4 DEF MsgInv

LEMMA ExchangeStep ==
  ASSUME MsgInv, NEW c \in Couriers, NotHandedOver(c)
  PROVE  MsgInv'
<1>1. /\ MsgTypeOK' /\ OtherCouriers(c) /\ UNCHANGED <<log, accepted, resent>>
      /\ courier'[c].pc = "finish" /\ courier[c].pc = "exchange" /\ courier'[c].outcome # "SENT"
      /\ \A m \in Messages : Carries(c, m)' <=> Carries(c, m)
  BY ExchangeEffect DEF MsgInv, Carries
<1>2. CourierKnows(c)' /\ ~KnowsSent(c) /\ ~KnowsSent(c)'
  BY <1>1 DEF CourierKnows, KnowsSent, CourierAt
<1>3. \A d \in Couriers : CourierKnows(d)'
  BY <1>1, <1>2, KnowledgeStays
<1>4. \A m \in Messages \ resent : MessageInv(m)'
  BY <1>1, <1>2, LeftAlone
<1> QED
  BY <1>1, <1>3, <1>4 DEF MsgInv

LEMMA HandOverStep ==
  ASSUME MsgInv, NEW c \in Couriers, HandOver(c)
  PROVE  MsgInv'
<1>0. PICK m \in Messages : m = courier[c].id
  BY Known DEF MsgInv
<1>1. /\ MsgTypeOK' /\ OtherCouriers(c) /\ UNCHANGED log
      /\ courier[c].pc = "exchange" /\ courier'[c].pc = "finish" /\ courier'[c].id = m
      /\ accepted'[m] = accepted[m] + 1 /\ \A n \in Messages \ {m} : accepted'[n] = accepted[n]
      /\ \/ courier'[c].outcome = "SENT" /\ courier'[c].ref = accepted[m] + 1 /\ resent' = resent
         \/ courier'[c].outcome = "RETRYABLE" /\ resent' = resent \cup {m}
  BY <1>0, HandOverEffect DEF MsgInv
<1>2. CourierKnows(c)'
  BY <1>1 DEF MsgInv, MsgTypeOK, CourierKnows, KnowsSent, CourierAt
<1>3. \A d \in Couriers : CourierKnows(d)'
  BY <1>1, <1>2, KnowledgeStays
<1>4. ASSUME NEW n \in Messages \ resent, n # m PROVE MessageInv(n)'
  BY <1>0, <1>1, <1>4, LeftAlone DEF Carries
<1>5. ASSUME m \notin resent' PROVE MessageInv(m)'
  <2>1. MessageInv(m) /\ Carries(c, m) /\ ~KnowsSent(c) /\ Carries(c, m)' /\ KnowsSent(c)'
    BY <1>0, <1>1, <1>5 DEF MsgInv, Carries, KnowsSent, CourierAt
  <2>2. accepted'[m] = 1
    <3>1. accepted[m] = 0
      BY <1>1, <2>1 DEF MessageInv, AcceptedAsKnown
    <3> QED
      BY <1>1, <3>1
  <2>3. \A d \in Couriers : Carries(d, m)' <=> Carries(d, m)
    BY <1>1, <2>1 DEF OtherCouriers, Carries
  <2>4. CarriedAlone(m)' /\ RowTells(m)'
    BY <1>1, <2>1, <2>3 DEF MessageInv, CarriedAlone, RowTells
  <2>5. AcceptedAsKnown(m)'
    <3>1. \A d \in Couriers : Carries(d, m)' => d = c
      BY <2>1, <2>4 DEF CarriedAlone
    <3> QED
      BY <2>1, <2>2, <3>1 DEF AcceptedAsKnown
  <2>6. \A d \in Couriers : CourierAt(d, "resend")' /\ courier'[d].id = m => log'[m].ref # 0
    BY <1>1, <2>1 DEF MessageInv, OtherCouriers, CourierAt
  <2> QED
    BY <2>4, <2>5, <2>6 DEF MessageInv
<1> QED
  BY <1>1, <1>3, <1>4, <1>5 DEF MsgInv

(* What the write of an outcome leaves in the row.                         *)
LEMMA FinishRow ==
  ASSUME MsgInv, NEW c \in Couriers, Finish(c)
  PROVE  LET m == courier[c].id
         IN  /\ MsgTypeOK' /\ OtherCouriers(c) /\ OtherRows(m) /\ UNCHANGED <<accepted, resent>>
             /\ courier[c].pc = "finish" /\ courier'[c].pc = "drain"
             /\ log'[m].ref = IF KnowsSent(c) THEN courier[c].ref ELSE log[m].ref
             /\ KnowsSent(c) => log'[m].status = "SENT"
             /\ ~KnowsSent(c) => \/ log'[m].status \in {"QUEUED", "EXPIRED", "CANCELLED"} /\ log'[m].dead = log[m].dead
                                 \/ log'[m].status \in {"REJECTED", "FAILED"} /\ log'[m].dead = TRUE
<1>0. PICK m \in Messages : m = courier[c].id
  BY Known DEF MsgInv
<1>1. /\ MsgTypeOK' /\ OtherCouriers(c) /\ OtherRows(m) /\ UNCHANGED <<accepted, resent>>
      /\ courier[c].pc = "finish" /\ courier'[c].pc = "drain" /\ log'[m] = Settling(log[m], c)
  BY <1>0, FinishEffect DEF MsgInv
<1>2. log[m] \in LogRow /\ MsgTypeOK
  BY DEF MsgInv, MsgTypeOK
<1>3. KnowsSent(c) <=> courier[c].outcome = "SENT"
  BY <1>1 DEF KnowsSent, CourierAt
<1> DEFINE row == Settling(log[m], c)
<1>4. /\ row.ref = IF courier[c].outcome = "SENT" THEN courier[c].ref ELSE log[m].ref
      /\ courier[c].outcome = "SENT" => row.status = "SENT"
      /\ courier[c].outcome # "SENT" =>
           \/ row.status \in {"QUEUED", "EXPIRED", "CANCELLED"} /\ row.dead = log[m].dead
           \/ row.status \in {"REJECTED", "FAILED"} /\ row.dead = TRUE
  BY <1>2, SettlingRow
<1> QED
  BY <1>0, <1>1, <1>3, <1>4

LEMMA FinishStep ==
  ASSUME MsgInv, NEW c \in Couriers, Finish(c)
  PROVE  MsgInv'
<1>0. PICK m \in Messages : m = courier[c].id
  BY Known DEF MsgInv
<1>1. /\ MsgTypeOK' /\ OtherCouriers(c) /\ OtherRows(m) /\ UNCHANGED <<accepted, resent>>
      /\ courier[c].pc = "finish" /\ courier'[c].pc = "drain"
  BY <1>0, FinishRow
<1>2. /\ log'[m].ref = IF KnowsSent(c) THEN courier[c].ref ELSE log[m].ref
      /\ KnowsSent(c) => log'[m].status = "SENT"
      /\ ~KnowsSent(c) => \/ log'[m].status \in {"QUEUED", "EXPIRED", "CANCELLED"} /\ log'[m].dead = log[m].dead
                          \/ log'[m].status \in {"REJECTED", "FAILED"} /\ log'[m].dead = TRUE
  BY <1>0, FinishRow
<1>3. CourierKnows(c) /\ CourierKnows(c)'
  BY <1>1 DEF MsgInv, CourierKnows, KnowsSent, CourierAt
<1>4. \A d \in Couriers : CourierKnows(d)'
  <2>1. \A n \in Messages : log[n].ref # 0 => log'[n].ref # 0
    BY <1>1, <1>2, <1>3 DEF OtherRows, CourierKnows
  <2> QED
    BY <1>1, <1>3, <2>1, KnowledgeStays
<1>5. ASSUME NEW n \in Messages \ resent, n # m PROVE MessageInv(n)'
  BY <1>0, <1>1, <1>5, LeftAlone DEF Carries, OtherRows
<1>6. ASSUME m \notin resent PROVE MessageInv(m)'
  <2>1. MessageInv(m) /\ Carries(c, m)
    BY <1>0, <1>1, <1>6 DEF MsgInv, Carries
  <2>2. \A d \in Couriers : ~Carries(d, m)'
    BY <1>1, <2>1 DEF MessageInv, CarriedAlone, OtherCouriers, Carries
  <2>3. log[m].ref = 0 /\ log[m].status = "SENDING" /\ accepted[m] = IF KnowsSent(c) THEN 1 ELSE 0
    BY <2>1 DEF MessageInv, CarriedAlone, AcceptedAsKnown
  <2>4. log[m].dead = FALSE
    BY <2>1, <2>3 DEF MessageInv, RowTells, MsgTypeOK, MsgInv, LogRow
  <2>5. accepted'[m] = IF log'[m].ref = 0 THEN 0 ELSE 1
    BY <1>1, <1>2, <1>3, <2>3 DEF CourierKnows
  <2>6. RowTells(m)'
    BY <1>2, <1>3, <2>3, <2>4 DEF RowTells, Reported, CourierKnows
  <2>7. \A d \in Couriers : CourierAt(d, "resend")' /\ courier'[d].id = m => log'[m].ref # 0
    BY <1>1, <2>1, <2>3 DEF MessageInv, OtherCouriers, CourierAt
  <2> QED
    BY <2>2, <2>5, <2>6, <2>7 DEF MessageInv, CarriedAlone, AcceptedAsKnown
<1> QED
  BY <1>1, <1>4, <1>5, <1>6 DEF MsgInv

LEMMA ClaimStep ==
  ASSUME MsgInv, NEW c \in Couriers, NEW m \in courier[c].todo, ClaimMessage(c, m)
  PROVE  MsgInv'
<1>1. /\ MsgTypeOK' /\ OtherCouriers(c) /\ UNCHANGED <<accepted, resent>> /\ courier[c].pc = "drain" /\ m \in Messages
      /\ \/ /\ log[m].status = "QUEUED" /\ courier'[c].pc = "read" /\ courier'[c].id = m
            /\ log'[m].status = "SENDING" /\ log'[m].lock = "held" /\ log'[m].ref = log[m].ref /\ log'[m].dead = log[m].dead
            /\ OtherRows(m)
         \/ courier'[c].pc = "drain" /\ log' = log
  BY ClaimEffect, Known DEF MsgInv
<1>2. CourierKnows(c)' /\ ~KnowsSent(c)' /\ \A n \in Messages : log[n].ref # 0 => log'[n].ref # 0
  BY <1>1 DEF CourierKnows, KnowsSent, CourierAt, OtherRows
<1>3. \A d \in Couriers : CourierKnows(d)'
  BY <1>1, <1>2, KnowledgeStays
<1>4. ASSUME NEW n \in Messages \ resent, n # m \/ log' = log PROVE MessageInv(n)'
  <2>1. log'[n] = log[n] /\ ~Carries(c, n) /\ ~Carries(c, n)'
    BY <1>1, <1>4 DEF OtherRows, Carries
  <2> QED
    BY <1>1, <2>1, LeftAlone
<1>5. ASSUME m \notin resent, log' # log PROVE MessageInv(m)'
  <2>1. MessageInv(m) /\ (\A d \in Couriers : ~Carries(d, m)) /\ log[m].ref = 0 /\ ~log[m].dead
    BY <1>1, <1>5, NotSending, NotOut DEF MsgInv, Reported
  <2>2. accepted[m] = 0
    BY <2>1 DEF MessageInv, AcceptedAsKnown
  <2>3. \A d \in Couriers : Carries(d, m)' => d = c
    BY <1>1, <2>1 DEF OtherCouriers, Carries
  <2>4. CarriedAlone(m)' /\ RowTells(m)'
    BY <1>1, <1>5, <2>1, <2>3 DEF CarriedAlone, RowTells
  <2>5. Carries(c, m)'
    BY <1>1, <1>5 DEF Carries
  <2>6. AcceptedAsKnown(m)'
    BY <1>1, <1>2, <2>2, <2>3, <2>5 DEF AcceptedAsKnown
  <2>7. \A d \in Couriers : CourierAt(d, "resend")' /\ courier'[d].id = m => log'[m].ref # 0
    BY <1>1, <1>5, <2>1 DEF MessageInv, OtherCouriers, CourierAt
  <2> QED
    BY <2>4, <2>6, <2>7 DEF MessageInv
<1> QED
  BY <1>1, <1>3, <1>4, <1>5 DEF MsgInv

LEMMA RetryStep ==
  ASSUME MsgInv, NEW c \in Couriers, NEW m \in Messages, BeginRetryMessage(c, m)
  PROVE  MsgInv'
<1>1. /\ MsgTypeOK' /\ OtherCouriers(c) /\ UNCHANGED <<log, accepted, resent>>
      /\ courier[c].pc = "idle" /\ courier'[c].id = m
      /\ courier'[c].pc = IF log[m].dead THEN "requeue" ELSE "resend"
      /\ ~log[m].dead => log[m].status = "FAILED"
  BY RetryEffect DEF MsgInv
<1>2. CourierKnows(c)'
  BY <1>1 DEF CourierKnows, KnowsSent, CourierAt
<1>3. \A d \in Couriers : CourierKnows(d)'
  BY <1>1, <1>2, KnowledgeStays
<1>4. ASSUME NEW n \in Messages \ resent PROVE MessageInv(n)'
  <2>1. ~Carries(c, n) /\ ~Carries(c, n)'
    BY <1>1 DEF Carries
  <2>2. courier'[c].pc = "resend" /\ courier'[c].id = n => log[n].ref # 0
    BY <1>1 DEF MsgInv, MessageInv, RowTells
  <2> QED
    BY <1>1, <2>1, <2>2, LeftAlone
<1> QED
  BY <1>1, <1>3, <1>4 DEF MsgInv

LEMMA RequeueStep ==
  ASSUME MsgInv, NEW c \in Couriers, RequeueMessage(c)
  PROVE  MsgInv'
<1>0. PICK m \in Messages : m = courier[c].id
  BY Known DEF MsgInv
<1>1. /\ MsgTypeOK' /\ OtherCouriers(c) /\ OtherRows(m) /\ UNCHANGED accepted
      /\ courier[c].pc \in {"requeue", "resend"} /\ courier'[c].pc = "drain"
      /\ log'[m].status = "QUEUED" /\ log'[m].ref = log[m].ref
      /\ log'[m].dead = (log[m].dead /\ courier[c].pc = "resend")
      /\ resent' = IF log[m].dead /\ log[m].ref = 0 THEN resent ELSE resent \cup {m}
  BY <1>0, RequeueEffect DEF MsgInv
<1>2. CourierKnows(c)' /\ \A n \in Messages : log[n].ref # 0 => log'[n].ref # 0
  BY <1>1 DEF CourierKnows, KnowsSent, CourierAt, OtherRows
<1>3. \A d \in Couriers : CourierKnows(d)'
  BY <1>1, <1>2, KnowledgeStays
<1>4. ASSUME NEW n \in Messages \ resent, n # m PROVE MessageInv(n)'
  <2>1. log'[n] = log[n] /\ ~Carries(c, n) /\ ~Carries(c, n)'
    BY <1>1, <1>4 DEF OtherRows, Carries
  <2> QED
    BY <1>1, <2>1, LeftAlone
<1>5. ASSUME m \notin resent' PROVE MessageInv(m)'
  <2>1. m \notin resent /\ log[m].dead /\ log[m].ref = 0
    BY <1>1, <1>5
  <2>2. MessageInv(m) /\ log[m].status \in {"FAILED", "REJECTED"} /\ courier[c].pc = "requeue"
    BY <1>0, <1>1, <2>1 DEF MsgInv, MessageInv, RowTells, CourierAt
  <2>3. \A d \in Couriers : ~Carries(d, m) /\ ~Carries(d, m)'
    BY <1>1, <2>1, <2>2, NotSending DEF OtherCouriers, Carries
  <2>4. RowTells(m)'
    BY <1>1, <2>1, <2>2 DEF RowTells
  <2>5. \A d \in Couriers : courier'[d].pc = "resend" /\ courier'[d].id = m => log[m].ref # 0
    BY <1>1, <2>2 DEF MessageInv, OtherCouriers, CourierAt
  <2> QED
    BY <1>1, <2>1, <2>3, <2>4, <2>5, Uncarried
<1> QED
  BY <1>1, <1>3, <1>4, <1>5 DEF MsgInv

LEMMA LooksUp ==
  ASSUME MsgInv, NEW c \in Couriers, MsgTypeOK', OtherCouriers(c), UNCHANGED <<log, accepted, resent>>,
         courier[c].pc \in {"idle", "match"}, courier'[c].pc \in {"idle", "match", "apply"}, CourierKnows(c)'
  PROVE  MsgInv'
<1>1. \A d \in Couriers : CourierKnows(d)'
  BY KnowledgeStays
<1>2. ASSUME NEW n \in Messages \ resent PROVE MessageInv(n)'
  <2>1. ~Carries(c, n) /\ ~Carries(c, n)'
    BY DEF Carries
  <2> QED
    BY <2>1, LeftAlone
<1> QED
  BY <1>1, <1>2 DEF MsgInv

LEMMA ReportStep ==
  ASSUME MsgInv, NEW c \in Couriers,
         \/ MatchMessage(c)
         \/ \E m \in Messages : \E ref \in Referable(m), report \in Reports : BeginWebhook(c, m, ref, report)
  PROVE  MsgInv'
<1>1. CASE MatchMessage(c)
  <2>1. courier[c].pc = "match"
    BY <1>1 DEF MatchMessage, CourierAt
  <2>2. courier[c].status \in Reports /\ courier[c].ref # 0
    BY <2>1 DEF MsgInv, CourierKnows, CourierAt
  <2>3. /\ MsgTypeOK' /\ OtherCouriers(c) /\ UNCHANGED <<log, accepted, resent>>
        /\ \/ courier'[c].pc = "idle"
           \/ /\ courier'[c].pc = "apply" /\ courier'[c].id = courier[c].id
              /\ courier'[c].status \in Reports /\ log[courier[c].id].ref = courier[c].ref
    BY <1>1, <2>2, MatchEffect DEF MsgInv
  <2>4. CourierKnows(c)'
    BY <2>2, <2>3 DEF CourierKnows, KnowsSent, CourierAt
  <2> QED
    BY <2>1, <2>3, <2>4, LooksUp
<1>2. ASSUME NEW m \in Messages, NEW ref \in Referable(m), NEW report \in Reports, BeginWebhook(c, m, ref, report)
      PROVE  MsgInv'
  <2>1. /\ MsgTypeOK' /\ OtherCouriers(c) /\ UNCHANGED <<log, accepted, resent>>
        /\ courier[c].pc = "idle" /\ courier'[c].pc = "match" /\ courier'[c].ref # 0 /\ courier'[c].status \in Reports
    BY <1>2, WebhookEffect DEF MsgInv
  <2>2. CourierKnows(c)'
    BY <2>1 DEF CourierKnows, KnowsSent, CourierAt
  <2> QED
    BY <2>1, <2>2, LooksUp
<1> QED
  BY <1>1, <1>2

LEMMA ApplyStep ==
  ASSUME MsgInv, NEW c \in Couriers, ApplyReport(c)
  PROVE  MsgInv'
<1>0. PICK m \in Messages : m = courier[c].id
  BY Known DEF MsgInv
<1>1. /\ MsgTypeOK' /\ OtherCouriers(c) /\ OtherRows(m) /\ UNCHANGED <<accepted, resent>>
      /\ courier[c].pc = "apply" /\ courier'[c].pc = "idle"
      /\ log'[m].status = courier[c].status /\ log'[m].ref = log[m].ref /\ log'[m].dead = log[m].dead
  BY <1>0, ApplyEffect DEF MsgInv
<1>2. CourierKnows(c)' /\ \A n \in Messages : log[n].ref # 0 => log'[n].ref # 0
  BY <1>1 DEF CourierKnows, KnowsSent, CourierAt, OtherRows
<1>3. \A d \in Couriers : CourierKnows(d)'
  BY <1>1, <1>2, KnowledgeStays
<1>4. ASSUME NEW n \in Messages \ resent, n # m PROVE MessageInv(n)'
  <2>1. log'[n] = log[n] /\ ~Carries(c, n) /\ ~Carries(c, n)'
    BY <1>1, <1>4 DEF OtherRows, Carries
  <2> QED
    BY <1>1, <2>1, LeftAlone
<1>5. ASSUME m \notin resent PROVE MessageInv(m)'
  <2>1. log[m].ref # 0 /\ courier[c].status \in Reported
    BY <1>0, <1>1, MessageConstants DEF MsgInv, CourierKnows, CourierAt, Reported, Failure
  <2>2. MessageInv(m) /\ log[m].status # "SENDING"
    BY <1>5, <2>1 DEF MsgInv, MessageInv, RowTells, Reported
  <2>3. \A d \in Couriers : ~Carries(d, m) /\ ~Carries(d, m)'
    BY <1>1, <1>5, <2>2, NotSending DEF OtherCouriers, Carries
  <2>4. RowTells(m)'
    BY <1>1, <2>1 DEF RowTells
  <2> QED
    BY <1>1, <1>5, <2>1, <2>3, <2>4, Uncarried
<1> QED
  BY <1>1, <1>3, <1>4, <1>5 DEF MsgInv

LEMMA KillStep ==
  ASSUME MsgInv, NEW c \in Couriers, KillCourier(c)
  PROVE  MsgInv'
<1>1. /\ MsgTypeOK' /\ OtherCouriers(c) /\ UNCHANGED <<log, accepted>> /\ courier'[c].pc = "idle"
      /\ resent' = IF KnowsSent(c) THEN resent \cup {courier[c].id} ELSE resent
  BY KillEffect DEF MsgInv
<1>2. CourierKnows(c)'
  BY <1>1 DEF CourierKnows, KnowsSent, CourierAt
<1>3. \A d \in Couriers : CourierKnows(d)'
  BY <1>1, <1>2, KnowledgeStays
<1>4. ASSUME NEW m \in Messages \ resent' PROVE MessageInv(m)'
  <2>1. MessageInv(m) /\ m \notin resent /\ (Carries(c, m) => ~KnowsSent(c))
    BY <1>1 DEF MsgInv, Carries
  <2>2. ~Carries(c, m)' /\ courier'[c].pc # "resend"
    BY <1>1 DEF Carries
  <2>3. CASE Carries(c, m)
    <3>1. accepted[m] = 0 /\ log[m].ref = 0
      BY <2>1, <2>3 DEF MessageInv, CarriedAlone, AcceptedAsKnown
    <3>2. \A d \in Couriers : ~Carries(d, m)'
      BY <1>1, <2>1, <2>2, <2>3 DEF MessageInv, CarriedAlone, OtherCouriers, Carries
    <3> QED
      BY <1>1, <2>1, <2>2, <3>1, <3>2
         DEF MessageInv, CarriedAlone, AcceptedAsKnown, RowTells, OtherCouriers, CourierAt
  <2>4. CASE ~Carries(c, m)
    BY <1>1, <2>1, <2>2, <2>4, LeftAlone
  <2> QED
    BY <2>3, <2>4
<1> QED
  BY <1>1, <1>3, <1>4 DEF MsgInv

LEMMA CommunicateStep ==
  ASSUME MsgInv, NEW c \in Couriers, NEW m \in Messages, NEW deferred \in BOOLEAN, communicate(c, m, deferred)
  PROVE  MsgInv'
<1>1. /\ MsgTypeOK' /\ OtherCouriers(c) /\ OtherRows(m) /\ UNCHANGED <<accepted, resent>>
      /\ courier[c].pc = "idle" /\ courier'[c].pc \in {"idle", "drain"}
      /\ log[m].status = NoMessage /\ log'[m].status = "QUEUED"
      /\ log'[m].ref = log[m].ref /\ log'[m].dead = log[m].dead
  BY CommunicateEffect DEF MsgInv
<1>2. CourierKnows(c)' /\ \A n \in Messages : log[n].ref # 0 => log'[n].ref # 0
  BY <1>1 DEF CourierKnows, KnowsSent, CourierAt, OtherRows
<1>3. \A d \in Couriers : CourierKnows(d)'
  BY <1>1, <1>2, KnowledgeStays
<1>4. ASSUME NEW n \in Messages \ resent, n # m PROVE MessageInv(n)'
  <2>1. log'[n] = log[n] /\ ~Carries(c, n) /\ ~Carries(c, n)'
    BY <1>1, <1>4 DEF OtherRows, Carries
  <2> QED
    BY <1>1, <2>1, LeftAlone
<1>5. ASSUME m \notin resent PROVE MessageInv(m)'
  <2>1. log[m].ref = 0 /\ ~log[m].dead
    BY <1>1, <1>5, NotOut DEF Reported, NoMessage
  <2>2. \A d \in Couriers : ~Carries(d, m) /\ ~Carries(d, m)'
    BY <1>1, <1>5, NotSending DEF OtherCouriers, Carries, NoMessage
  <2>3. RowTells(m)'
    BY <1>1, <2>1 DEF RowTells
  <2>4. \A d \in Couriers : courier'[d].pc = "resend" /\ courier'[d].id = m => log[m].ref # 0
    BY <1>1, <1>5 DEF MsgInv, MessageInv, OtherCouriers, CourierAt
  <2> QED
    BY <1>1, <1>5, <2>2, <2>3, <2>4, Uncarried
<1> QED
  BY <1>1, <1>3, <1>4, <1>5 DEF MsgInv

(* A row that is recovered, expired or cancelled: nobody carries it.       *)
LEMMA SetAside ==
  ASSUME MsgInv, NEW m \in Messages \ resent, accepted'[m] = accepted[m],
         log'[m].ref = log[m].ref, log'[m].dead = log[m].dead,
         \/ log[m].status = "SENDING" /\ log[m].lock = "expired" /\ log'[m].status = "QUEUED"
         \/ log[m].status = "QUEUED" /\ log'[m].status \in {"EXPIRED", "CANCELLED"},
         \A d \in Couriers : courier'[d].id = courier[d].id \/ courier'[d].pc \in {"expire", "list"},
         \A d \in Couriers : courier'[d].pc = courier[d].pc \/ courier'[d].pc \in {"expire", "list"}
  PROVE  MessageInv(m)'
<1>1. log[m].ref = 0 /\ ~log[m].dead
  BY NotOut DEF Reported
<1>2. \A d \in Couriers : ~Carries(d, m)
  BY NotSending
<1>3. \A d \in Couriers : ~Carries(d, m)'
  BY <1>2 DEF Carries
<1>4. RowTells(m)'
  BY <1>1 DEF RowTells
<1>5. \A d \in Couriers : courier'[d].pc = "resend" /\ courier'[d].id = m => log[m].ref # 0
  BY DEF MsgInv, MessageInv, CourierAt
<1> QED
  BY <1>2, <1>3, <1>4, <1>5, Uncarried

LEMMA SweepStep ==
  ASSUME MsgInv, NEW c \in Couriers, Recover(c) \/ ExpireMessage(c)
  PROVE  MsgInv'
<1>1. /\ MsgTypeOK' /\ OtherCouriers(c) /\ UNCHANGED <<accepted, resent>>
      /\ courier[c].pc \in {"recover", "expire"} /\ courier'[c].pc \in {"expire", "list"}
      /\ \A m \in Messages : /\ log'[m].ref = log[m].ref /\ log'[m].dead = log[m].dead
                             /\ \/ log'[m] = log[m]
                                \/ log[m].status = "SENDING" /\ log[m].lock = "expired" /\ log'[m].status = "QUEUED"
                                \/ log[m].status = "QUEUED" /\ log'[m].status = "EXPIRED"
  BY SweepEffect DEF MsgInv
<1>2. CourierKnows(c)'
  BY <1>1 DEF CourierKnows, KnowsSent, CourierAt
<1>3. \A d \in Couriers : CourierKnows(d)'
  BY <1>1, <1>2, KnowledgeStays
<1>4. ASSUME NEW m \in Messages \ resent PROVE MessageInv(m)'
  <2>1. CASE log'[m] = log[m]
    <3>1. ~Carries(c, m) /\ ~Carries(c, m)'
      BY <1>1 DEF Carries
    <3> QED
      BY <1>1, <2>1, <3>1, LeftAlone
  <2>2. CASE \/ log[m].status = "SENDING" /\ log[m].lock = "expired" /\ log'[m].status = "QUEUED"
             \/ log[m].status = "QUEUED" /\ log'[m].status = "EXPIRED"
    <3>1. \A d \in Couriers : /\ courier'[d].id = courier[d].id \/ courier'[d].pc \in {"expire", "list"}
                              /\ courier'[d].pc = courier[d].pc \/ courier'[d].pc \in {"expire", "list"}
      BY <1>1 DEF OtherCouriers
    <3> QED
      BY <1>1, <2>2, <3>1, SetAside
  <2> QED
    BY <1>1, <2>1, <2>2
<1> QED
  BY <1>1, <1>3, <1>4 DEF MsgInv

LEMMA CancelStep ==
  ASSUME MsgInv, NEW m \in Messages, CancelQueued(m)
  PROVE  MsgInv'
<1>1. /\ MsgTypeOK' /\ OtherRows(m) /\ UNCHANGED <<accepted, resent, courier>>
      /\ log[m].status = "QUEUED" /\ log'[m].status = "CANCELLED"
      /\ log'[m].ref = log[m].ref /\ log'[m].dead = log[m].dead
  BY CancelEffect DEF MsgInv
<1>2. \A d \in Couriers : CourierKnows(d)'
  <2>1. \A n \in Messages : log'[n].ref = log[n].ref
    BY <1>1 DEF OtherRows
  <2> QED
    BY <1>1, <2>1, Known DEF MsgInv, CourierKnows, KnowsSent, CourierAt
<1>3. ASSUME NEW n \in Messages \ resent, n # m PROVE MessageInv(n)'
  <2>1. log'[n] = log[n] /\ MessageInv(n)
    BY <1>1, <1>3 DEF OtherRows, MsgInv
  <2> QED
    BY <1>1, <2>1 DEF MessageInv, CarriedAlone, AcceptedAsKnown, RowTells, Carries, KnowsSent, CourierAt
<1>4. ASSUME m \notin resent PROVE MessageInv(m)'
  BY <1>1, <1>4, SetAside
<1> QED
  BY <1>1, <1>2, <1>3, <1>4 DEF MsgInv

LEMMA DayStep ==
  ASSUME MsgInv, NEW S \in SUBSET Messages, DayPasses(S)
  PROVE  MsgInv'
<1>1. /\ MsgTypeOK' /\ UNCHANGED <<accepted, resent, courier>> /\ \A c \in Couriers : courier[c].pc = "idle"
      /\ \A m \in Messages : log'[m].status = log[m].status /\ log'[m].ref = log[m].ref /\ log'[m].dead = log[m].dead
  BY DayEffect DEF MsgInv
<1>2. \A d \in Couriers : CourierKnows(d)'
  BY <1>1 DEF CourierKnows, KnowsSent, CourierAt
<1>3. ASSUME NEW m \in Messages \ resent PROVE MessageInv(m)'
  <2>1. RowTells(m)'
    BY <1>1 DEF MsgInv, MessageInv, RowTells
  <2>2. \A d \in Couriers : ~Carries(d, m) /\ ~Carries(d, m)' /\ courier'[d].pc # "resend"
    BY <1>1 DEF Carries
  <2> QED
    BY <1>1, <2>1, <2>2, Uncarried
<1> QED
  BY <1>1, <1>2, <1>3 DEF MsgInv

LEMMA MsgStep == MsgInv /\ [MsgNext]_msgVars => MsgInv'
<1> SUFFICES ASSUME MsgInv, [MsgNext]_msgVars PROVE MsgInv'
  OBVIOUS
<1>1. ASSUME NEW c \in Couriers, CourierWork(c) PROVE MsgInv'
  BY <1>1, SweepStep, QuietStep, ClaimStep, ExchangeStep, HandOverStep, FinishStep, RequeueStep, ReportStep, ApplyStep
     DEF CourierWork
<1>2. ASSUME NEW c \in Couriers, DailyDrain(c) \/ ManualDrain(c) \/ KillCourier(c) PROVE MsgInv'
  BY <1>2, QuietStep, KillStep
<1>3. ASSUME NEW c \in Couriers, NEW m \in Messages,
             \/ BeginRetryMessage(c, m)
             \/ \E deferred \in BOOLEAN : communicate(c, m, deferred)
             \/ \E ref \in Referable(m), report \in Reports : BeginWebhook(c, m, ref, report)
      PROVE  MsgInv'
  BY <1>3, RetryStep, CommunicateStep, ReportStep
<1>4. ASSUME NEW m \in Messages, CancelQueued(m) PROVE MsgInv'
  BY <1>4, CancelStep
<1>5. ASSUME NEW S \in SUBSET Messages, DayPasses(S) PROVE MsgInv'
  BY <1>5, DayStep
<1>6. CASE UNCHANGED msgVars
  BY <1>6 DEF msgVars, MsgInv, MsgTypeOK, CourierKnows, KnowsSent, CourierAt, MessageInv, CarriedAlone, AcceptedAsKnown,
              RowTells, Carries
<1> QED
  BY <1>1, <1>2, <1>3, <1>4, <1>5, <1>6 DEF MsgNext

LEMMA MsgStarts == MsgInit => MsgInv
<1> SUFFICES ASSUME MsgInit PROVE MsgInv
  OBVIOUS
<1>1. /\ courier \in [Couriers -> Courier] /\ \A c \in Couriers : courier[c].pc = "idle"
  BY IdleCourier DEF MsgInit
<1>2. log \in [Messages -> LogRow]
  BY DEF MsgInit, LogRow
<1>3. incidents \in 0..MaxIncidents
  BY MessageConstants DEF MsgInit
<1>4. MsgTypeOK
  BY <1>1, <1>2, <1>3 DEF MsgInit, MsgTypeOK
<1>5. \A c \in Couriers : CourierKnows(c)
  BY <1>1 DEF CourierKnows, KnowsSent, CourierAt
<1>6. \A m \in Messages : MessageInv(m)
  BY <1>1 DEF MsgInit, MessageInv, CarriedAlone, AcceptedAsKnown, RowTells, Carries, CourierAt, NoMessage
<1> QED
  BY <1>4, <1>5, <1>6 DEF MsgInv

-----------------------------------------------------------------------------
(* A report is in the ledger before its handler looks for the row, and no  *)
(* entry is ever taken out, so a row that has left can show EXPIRED or     *)
(* REJECTED only because a provider reported it.                           *)
ToldInv ==
  /\ \A c \in Couriers : courier[c].pc \in {"match", "apply"} => Told(courier[c].id, courier[c].status)
  /\ \A m \in Messages \ resent : log[m].ref # 0 /\ log[m].status \in {"EXPIRED", "REJECTED"} => Told(m, log[m].status)

ToldNow(m, status) == \E e \in ledger' : e[1] = m /\ e[3] = status

LEMMA LedgerGrows == ASSUME MsgNext PROVE ledger \subseteq ledger'
<1>1. ASSUME NEW c \in Couriers, CourierWork(c) PROVE ledger' = ledger
  BY <1>1 DEF CourierWork, Recover, ExpireMessage, ListDueMessages, StopDrain, ClaimMessage, ReadMessage, NotHandedOver, HandOver, Finish,
              RequeueMessage, MatchMessage, ApplyReport, OnlyLog
<1> QED
  BY <1>1 DEF MsgNext, DailyDrain, ManualDrain, KillCourier, BeginRetryMessage, communicate, BeginWebhook, CancelQueued, DayPasses, OnlyLog

(* A step by one courier, where each row keeps its status or shows nothing *)
(* that only a provider may have said of it.                               *)
LEMMA ToldKept ==
  ASSUME ToldInv, ledger \subseteq ledger', resent \subseteq resent', NEW c \in Couriers, OtherCouriers(c),
         courier'[c].pc \in {"match", "apply"} => ToldNow(courier'[c].id, courier'[c].status),
         \A m \in Messages \ resent' : \/ log'[m].status = log[m].status /\ log'[m].ref = log[m].ref
                                       \/ log'[m].ref = 0
                                       \/ log'[m].status \notin {"EXPIRED", "REJECTED"}
                                       \/ ToldNow(m, log'[m].status)
  PROVE  ToldInv'
<1>1. \A m, status : Told(m, status) => ToldNow(m, status)
  BY DEF Told, ToldNow
<1>2. ASSUME NEW d \in Couriers, courier'[d].pc \in {"match", "apply"} PROVE ToldNow(courier'[d].id, courier'[d].status)
  BY <1>1, <1>2 DEF ToldInv, OtherCouriers
<1>3. ASSUME NEW m \in Messages \ resent', log'[m].ref # 0, log'[m].status \in {"EXPIRED", "REJECTED"}
      PROVE  ToldNow(m, log'[m].status)
  BY <1>1, <1>3 DEF ToldInv
<1> QED
  BY <1>2, <1>3 DEF ToldInv, Told, ToldNow

LEMMA ToldByOne ==
  ASSUME MsgInv, ToldInv, ledger \subseteq ledger', NEW c \in Couriers,
         \/ CourierWork(c) \/ DailyDrain(c) \/ ManualDrain(c) \/ KillCourier(c)
         \/ \E m \in Messages :
              \/ BeginRetryMessage(c, m)
              \/ \E deferred \in BOOLEAN : communicate(c, m, deferred)
              \/ \E ref \in Referable(m), report \in Reports : BeginWebhook(c, m, ref, report)
  PROVE  ToldInv'
<1>0. MsgTypeOK /\ courier[c].id \in Messages
  BY Known DEF MsgInv
<1>1. CASE DailyDrain(c) \/ ManualDrain(c) \/ ListDueMessages(c) \/ StopDrain(c) \/ ReadMessage(c) \/ NotHandedOver(c)
  <2>1. OtherCouriers(c) /\ UNCHANGED <<log, resent>> /\ courier'[c].pc \notin {"match", "apply"}
    BY <1>0, <1>1, QuietEffect, ReadEffect, ExchangeEffect
  <2> QED
    BY <2>1, ToldKept
<1>2. CASE HandOver(c) \/ KillCourier(c) \/ \E m \in Messages : BeginRetryMessage(c, m)
  <2>1. OtherCouriers(c) /\ log' = log /\ resent \subseteq resent' /\ courier'[c].pc \notin {"match", "apply"}
    BY <1>0, <1>2, HandOverEffect, KillEffect, RetryEffect
  <2> QED
    BY <2>1, ToldKept
<1>3. CASE Recover(c) \/ ExpireMessage(c)
  <2>1. /\ OtherCouriers(c) /\ resent' = resent /\ courier'[c].pc \notin {"match", "apply"}
        /\ \A m \in Messages : /\ log'[m].ref = log[m].ref
                               /\ \/ log'[m] = log[m] \/ log'[m].status = "QUEUED"
                                  \/ log[m].status = "QUEUED" /\ log'[m].status = "EXPIRED"
    BY <1>0, <1>3, SweepEffect
  <2>2. \A m \in Messages \ resent : log[m].status = "QUEUED" => log[m].ref = 0
    BY NotOut DEF Reported
  <2> QED
    BY <2>1, <2>2, ToldKept
<1>4. ASSUME NEW m \in courier[c].todo, ClaimMessage(c, m) PROVE ToldInv'
  <2>1. /\ OtherCouriers(c) /\ resent' = resent /\ courier'[c].pc \notin {"match", "apply"}
        /\ \A n \in Messages : log'[n] = log[n] \/ log'[n].status = "SENDING"
    BY <1>0, <1>4, ClaimEffect DEF OtherRows
  <2> QED
    BY <2>1, ToldKept
<1>5. CASE Finish(c)
  <2>0. PICK m \in Messages : m = courier[c].id
    BY <1>0
  <2>1. /\ OtherCouriers(c) /\ OtherRows(m) /\ resent' = resent /\ courier[c].pc = "finish" /\ courier'[c].pc = "drain"
        /\ log'[m].ref = IF KnowsSent(c) THEN courier[c].ref ELSE log[m].ref
        /\ KnowsSent(c) => log'[m].status = "SENT"
    BY <1>5, <2>0, FinishRow
  <2>2. m \notin resent => log[m].ref = 0
    BY <2>0, <2>1 DEF MsgInv, MessageInv, CarriedAlone, Carries
  <2>3. \A n \in Messages \ resent : log'[n] = log[n] \/ log'[n].ref = 0 \/ log'[n].status = "SENT"
    BY <2>1, <2>2 DEF OtherRows
  <2> QED
    BY <2>1, <2>3, ToldKept
<1>6. CASE RequeueMessage(c) \/ \E m \in Messages, deferred \in BOOLEAN : communicate(c, m, deferred)
  <2>1. /\ OtherCouriers(c) /\ resent \subseteq resent' /\ courier'[c].pc \notin {"match", "apply"}
        /\ \A n \in Messages : log'[n] = log[n] \/ log'[n].status = "QUEUED"
    BY <1>0, <1>6, RequeueEffect, CommunicateEffect DEF OtherRows
  <2> QED
    BY <2>1, ToldKept
<1>7. CASE MatchMessage(c)
  <2>1. courier[c].pc = "match" /\ courier[c].status \in Reports /\ Told(courier[c].id, courier[c].status)
    BY <1>7 DEF MatchMessage, CourierAt, MsgInv, CourierKnows, ToldInv
  <2>2. /\ OtherCouriers(c) /\ UNCHANGED <<log, resent>>
        /\ \/ courier'[c].pc = "idle"
           \/ courier'[c].id = courier[c].id /\ courier'[c].status = courier[c].status
    BY <1>0, <1>7, <2>1, MatchEffect
  <2>3. courier'[c].pc \in {"match", "apply"} => ToldNow(courier'[c].id, courier'[c].status)
    BY <2>1, <2>2 DEF Told, ToldNow
  <2> QED
    BY <2>2, <2>3, ToldKept
<1>8. CASE ApplyReport(c)
  <2>0. PICK m \in Messages : m = courier[c].id
    BY <1>0
  <2>1. /\ OtherCouriers(c) /\ OtherRows(m) /\ resent' = resent /\ courier[c].pc = "apply" /\ courier'[c].pc = "idle"
        /\ log'[m].status = courier[c].status
    BY <1>0, <1>8, <2>0, ApplyEffect
  <2>2. ToldNow(m, log'[m].status)
    BY <2>0, <2>1 DEF ToldInv, Told, ToldNow
  <2>3. \A n \in Messages \ resent' : log'[n] = log[n] \/ ToldNow(n, log'[n].status)
    BY <2>1, <2>2 DEF OtherRows
  <2> QED
    BY <2>1, <2>3, ToldKept
<1>9. ASSUME NEW m \in Messages, NEW ref \in Referable(m), NEW report \in Reports, BeginWebhook(c, m, ref, report)
      PROVE  ToldInv'
  <2>1. /\ OtherCouriers(c) /\ UNCHANGED <<log, resent>> /\ courier'[c].id = m /\ courier'[c].status = report
        /\ <<m, ref, report>> \in ledger'
    BY <1>0, <1>9, WebhookEffect
  <2>2. ToldNow(courier'[c].id, courier'[c].status)
    BY <2>1 DEF ToldNow
  <2> QED
    BY <2>1, <2>2, ToldKept
<1> QED
  BY <1>1, <1>2, <1>3, <1>4, <1>5, <1>6, <1>7, <1>8, <1>9 DEF CourierWork

LEMMA ToldStep == MsgInv /\ ToldInv /\ [MsgNext]_msgVars => ToldInv'
<1> SUFFICES ASSUME MsgInv, ToldInv, [MsgNext]_msgVars PROVE ToldInv'
  OBVIOUS
<1>1. CASE UNCHANGED msgVars
  BY <1>1 DEF msgVars, ToldInv, Told
<1>2. CASE MsgNext
  <2>1. ledger \subseteq ledger'
    BY <1>2, LedgerGrows
  <2>2. ASSUME NEW m \in Messages, CancelQueued(m) PROVE ToldInv'
    <3>1. UNCHANGED <<resent, courier>> /\ \A n \in Messages : log'[n] = log[n] \/ log'[n].status = "CANCELLED"
      BY <2>2, CancelEffect DEF MsgInv, OtherRows
    <3> QED
      BY <2>1, <3>1 DEF ToldInv, Told
  <2>3. ASSUME NEW S \in SUBSET Messages, DayPasses(S) PROVE ToldInv'
    <3>1. /\ UNCHANGED <<resent, courier>>
          /\ \A n \in Messages : log'[n].status = log[n].status /\ log'[n].ref = log[n].ref
      BY <2>3, DayEffect DEF MsgInv
    <3> QED
      BY <2>1, <3>1 DEF ToldInv, Told
  <2> QED
    BY <1>2, <2>1, <2>2, <2>3, ToldByOne DEF MsgNext
<1> QED
  BY <1>1, <1>2

LEMMA ToldStarts == MsgInit => ToldInv
BY IdleCourier DEF MsgInit, ToldInv

-----------------------------------------------------------------------------
(* The rows, the ledger of reports and the handlers' locals keep the types *)
(* of the schema: nextStatus and deliverLog write only statuses of the enum. *)
THEOREM MsgTypeCorrect == MsgSpec => []MsgTypeOK
<1>1. MsgInv => MsgTypeOK
  BY DEF MsgInv
<1> QED
  BY <1>1, MsgStarts, MsgStep, PTL DEF MsgSpec

(* send-service.ts:237: no message is handed to a provider twice, however  *)
(* many drains, recoveries, retries and reports overlap, but for the lost  *)
(* answers and the resends that resent records.                            *)
THEOREM HandedOverOnce == MsgSpec => []SentOnce
<1>1. ASSUME MsgInv, NEW m \in Messages, m \notin resent PROVE accepted[m] <= 1
  <2>1. AcceptedAsKnown(m)
    BY <1>1 DEF MsgInv, MessageInv
  <2>2. accepted[m] \in {0, 1}
    BY <2>1 DEF AcceptedAsKnown
  <2> QED
    BY <2>2
<1>2. MsgInv => SentOnce
  BY <1>1 DEF SentOnce
<1> QED
  BY <1>2, MsgStarts, MsgStep, PTL DEF MsgSpec

(* deliverLog, processCommunicationQueue, applyEvent: a message shown as   *)
(* waiting or cancelled has not gone out, and one shown as expired or      *)
(* rejected has not or a provider reported that of it, whatever it may     *)
(* report, with the same exceptions.                                       *)
THEOREM ShownTruly == MsgSpec => []ReportedTruly
<1>1. ASSUME MsgInv, NEW m \in Messages \ resent, log[m].status \in {"QUEUED", "CANCELLED", "EXPIRED", "REJECTED"}
      PROVE  accepted[m] = 0 \/ (log[m].ref # 0 /\ log[m].status \in {"EXPIRED", "REJECTED"})
  <2>1. \A d \in Couriers : ~Carries(d, m)
    BY <1>1, NotSending
  <2>2. log[m].status \in {"QUEUED", "CANCELLED"} => log[m].ref = 0
    BY <1>1, NotOut DEF Reported
  <2> QED
    BY <1>1, <2>1, <2>2 DEF MsgInv, MessageInv, AcceptedAsKnown
<1>2. MsgInv /\ ToldInv => ReportedTruly
  BY <1>1 DEF ReportedTruly, ToldInv
<1> QED
  BY <1>2, MsgStarts, MsgStep, ToldStarts, ToldStep, PTL DEF MsgSpec
=============================================================================
