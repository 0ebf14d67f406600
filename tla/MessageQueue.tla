----------------------------- MODULE MessageQueue -----------------------------
(***************************************************************************)
(* Messages to members through an outside provider: a message is queued,   *)
(* claimed by one handler, handed over, retried with a delay, expired when *)
(* it has waited too long, or dead-lettered and retried by an              *)
(* administrator; the provider reports later what became of it.            *)
(*                                                                         *)
(* A handler is a "courier", an action one prisma call or one exchange     *)
(* with the provider.  A function lives a minute at most and a claim two,  *)
(* so time passes when no courier is alive; a function killed by its time  *)
(* limit is a crash.  An exchange covers the checks before it and the      *)
(* providers tried in it: deliverLog writes nothing on the row in between. *)
(***************************************************************************)
EXTENDS Naturals, FiniteSets

CONSTANTS
  Messages,      \* CommunicationLog ids
  Couriers,      \* handler invocations that may be in flight together
  Reports,       \* the events a provider reports of a message
  MaxAttempts,   \* retryMaxAttempts of the provider
  MaxIncidents   \* bound: retries and cancellations by hand, and crashes

DeliveryStatus == {"QUEUED", "SENDING", "SENT", "DELIVERED", "READ", "FAILED", "CANCELLED", "BOUNCED", "REJECTED", "EXPIRED"}
Failure == {"FAILED", "BOUNCED", "REJECTED", "EXPIRED"}
NoMessage == "ABSENT"

ASSUME MessageConstants ==
  /\ Messages # {} /\ Reports \subseteq {"SENT", "DELIVERED", "READ"} \cup Failure
  /\ MaxAttempts \in Nat \ {0} /\ MaxIncidents \in Nat

VARIABLES
  log,        \* [Messages -> the CommunicationLog row]
  accepted,   \* history: [Messages -> how often a provider accepted it]
  resent,     \* history: the messages a provider may have been given again, see below
  ledger,     \* the WebhookEvent rows: which report of which hand-over
  drained,    \* the tick has processed the queue today
  incidents,  \* how many retries, cancellations and crashes there were
  courier     \* [Couriers -> the state of the handler]

msgVars == <<log, accepted, resent, ledger, drained, incidents, courier>>

(* due: nextAttemptAt is past; old: queuedAt is 48 hours ago; dead: deadLetteredAt *)
(* is set; ref: the hand-over whose providerMessageId the row has, 0 for none.     *)
LogRow  == [status: {NoMessage} \cup DeliveryStatus, attempts: Nat, due: BOOLEAN, old: BOOLEAN,
            lock: {"none", "held", "expired"}, dead: BOOLEAN, ref: Nat]
Outcomes == {"NONE", "HELD", "EXPIRED", "CANCELLED", "SENT", "RETRYABLE", "FAILED", "REJECTED"}

MsgPCs  == {"idle", "recover", "expire", "list", "drain", "read", "exchange", "finish", "requeue", "resend", "match", "apply"}
Courier == [pc: MsgPCs, todo: SUBSET Messages, id: Messages, attempts: Nat, old: BOOLEAN,
            outcome: Outcomes, ref: Nat, status: {NoMessage} \cup DeliveryStatus]

AnyMessage  == CHOOSE m \in Messages : TRUE
CourierIdle == [pc |-> "idle", todo |-> {}, id |-> AnyMessage, attempts |-> 0, old |-> FALSE,
                outcome |-> "NONE", ref |-> 0, status |-> NoMessage]

MsgInit ==
  /\ log = [m \in Messages |-> [status |-> NoMessage, attempts |-> 0, due |-> TRUE, old |-> FALSE,
                                lock |-> "none", dead |-> FALSE, ref |-> 0]]
  /\ accepted = [m \in Messages |-> 0] /\ resent = {} /\ ledger = {}
  /\ drained = FALSE /\ incidents = 0
  /\ courier = [c \in Couriers |-> CourierIdle]

-----------------------------------------------------------------------------
CourierAt(c, pc)   == courier[c].pc = pc
Travels(c, state)  == courier' = [courier EXCEPT ![c] = state]
Record(m, row)     == log' = [log EXCEPT ![m] = row]

(* The row is written and everything but the courier stays. *)
OnlyLog == UNCHANGED <<accepted, resent, ledger, drained, incidents>>

Incident == incidents < MaxIncidents /\ incidents' = incidents + 1

(* communicate: the row, then its delivery unless it is deferred.          *)
communicate(c, m, deferred) ==
  /\ CourierAt(c, "idle") /\ log[m].status = NoMessage
  /\ Record(m, [log[m] EXCEPT !.status = "QUEUED", !.due = ~deferred])
  /\ Travels(c, IF deferred THEN CourierIdle ELSE [CourierIdle EXCEPT !.pc = "drain", !.todo = {m}])
  /\ OnlyLog

-----------------------------------------------------------------------------
(* processCommunicationQueue, by the tick or by an administrator           *)

ProcessQueue(c) == CourierAt(c, "idle") /\ Travels(c, [CourierIdle EXCEPT !.pc = "recover"])

DailyDrain(c)  == ~drained /\ drained' = TRUE /\ ProcessQueue(c) /\ UNCHANGED <<log, accepted, resent, ledger, incidents>>
ManualDrain(c) == Incident /\ ProcessQueue(c) /\ UNCHANGED <<log, accepted, resent, ledger, drained>>

UpdateMany(S, status) ==
  log' = [m \in Messages |-> IF m \in S THEN [log[m] EXCEPT !.status = status, !.lock = IF status = "QUEUED" THEN "none" ELSE @]
                                        ELSE log[m]]

(* Mutants: the claim's age is not looked at; only unclaimed rows are recovered. *)
RecoverAll    == {m \in Messages : log[m].status = "SENDING"}
RecoverUnheld == {m \in Messages : log[m].status = "SENDING" /\ log[m].lock = "none"}

Recoverable == {m \in Messages : log[m].status = "SENDING" /\ log[m].lock = "expired"}

Recover(c) ==
  /\ CourierAt(c, "recover")
  /\ UpdateMany(Recoverable, "QUEUED")
  /\ Travels(c, [courier[c] EXCEPT !.pc = "expire"])
  /\ OnlyLog

ExpireMessage(c) ==
  /\ CourierAt(c, "expire")
  /\ UpdateMany({m \in Messages : log[m].status = "QUEUED" /\ log[m].old}, "EXPIRED")
  /\ Travels(c, [courier[c] EXCEPT !.pc = "list"])
  /\ OnlyLog

ListDueMessages(c) ==
  /\ CourierAt(c, "list")
  /\ Travels(c, [courier[c] EXCEPT !.pc = "drain", !.todo = {m \in Messages : log[m].status = "QUEUED" /\ log[m].due}])
  /\ UNCHANGED log /\ OnlyLog

(* A drain that stops early, its budget used up, leaves what one that is   *)
(* killed here leaves.                                                     *)
StopDrain(c) ==
  /\ CourierAt(c, "drain") /\ courier[c].todo = {}
  /\ Travels(c, CourierIdle)
  /\ UNCHANGED log /\ OnlyLog

-----------------------------------------------------------------------------
(* deliverLog: claim, read, exchange, finish                               *)

ClaimMessage(c, m) ==
  /\ CourierAt(c, "drain") /\ m \in courier[c].todo
  /\ IF log[m].status = "QUEUED" /\ log[m].lock # "held" /\ log[m].due
       THEN /\ Record(m, [log[m] EXCEPT !.status = "SENDING", !.lock = "held"])
            /\ Travels(c, [courier[c] EXCEPT !.pc = "read", !.todo = @ \ {m}, !.id = m])
       ELSE /\ Travels(c, [courier[c] EXCEPT !.todo = @ \ {m}])
            /\ UNCHANGED log
  /\ OnlyLog

ReadMessage(c) ==
  /\ CourierAt(c, "read")
  /\ LET row == log[courier[c].id]
     IN  Travels(c, [courier[c] EXCEPT !.pc = "exchange", !.attempts = row.attempts, !.old = row.old])
  /\ UNCHANGED log /\ OnlyLog

Comes(c, outcome, ref) == Travels(c, [courier[c] EXCEPT !.pc = "finish", !.outcome = outcome, !.ref = ref])

(* No provider gets it: held by a kill switch or an open circuit, blocked  *)
(* by the policy, refused or not answered.                                 *)
NotHandedOver(c) ==
  /\ CourierAt(c, "exchange")
  /\ \E outcome \in {"CANCELLED", "RETRYABLE", "FAILED", "REJECTED"} \cup {IF courier[c].old THEN "EXPIRED" ELSE "HELD"} :
       Comes(c, outcome, 0)
  /\ UNCHANGED log /\ OnlyLog

(* A provider takes it, and its answer may be lost. *)
HandOver(c) ==
  LET m == courier[c].id
  IN  /\ CourierAt(c, "exchange")
      /\ accepted' = [accepted EXCEPT ![m] = @ + 1]
      /\ \/ Comes(c, "SENT", accepted[m] + 1) /\ UNCHANGED resent
         \/ Comes(c, "RETRYABLE", 0) /\ resent' = resent \cup {m}
      /\ UNCHANGED <<log, ledger, drained, incidents>>

Settling(row, c) ==
  LET made  == courier[c].attempts + 1
      free  == [row EXCEPT !.lock = "none"]
      tried == [free EXCEPT !.attempts = made]
  IN  CASE courier[c].outcome = "HELD"  -> [free EXCEPT !.status = "QUEUED", !.due = FALSE]
        [] courier[c].outcome \in {"EXPIRED", "CANCELLED"} -> [free EXCEPT !.status = courier[c].outcome]
        [] courier[c].outcome = "SENT"  -> [tried EXCEPT !.status = "SENT", !.ref = courier[c].ref, !.due = TRUE]
        [] courier[c].outcome = "RETRYABLE" /\ made < MaxAttempts -> [tried EXCEPT !.status = "QUEUED", !.due = FALSE]
        [] OTHER -> [tried EXCEPT !.status = IF courier[c].outcome = "REJECTED" THEN "REJECTED" ELSE "FAILED",
                                  !.due = TRUE, !.dead = TRUE]

Finish(c) ==
  /\ CourierAt(c, "finish")
  /\ Record(courier[c].id, Settling(log[courier[c].id], c))
  /\ Travels(c, [CourierIdle EXCEPT !.pc = "drain", !.todo = courier[c].todo])
  /\ OnlyLog

-----------------------------------------------------------------------------
(* An administrator retries a dead letter, or a message its provider       *)
(* reported as failed, or cancels the campaign it belongs to               *)

BeginRetryMessage(c, m) ==
  /\ CourierAt(c, "idle") /\ Incident
  /\ log[m].dead \/ log[m].status = "FAILED"
  /\ Travels(c, [CourierIdle EXCEPT !.pc = IF log[m].dead THEN "requeue" ELSE "resend", !.id = m])
  /\ UNCHANGED <<log, accepted, resent, ledger, drained>>

RequeueMessage(c) ==
  LET m == courier[c].id
  IN  /\ CourierAt(c, "requeue") \/ CourierAt(c, "resend")
      /\ Record(m, [log[m] EXCEPT !.status = "QUEUED", !.attempts = 0, !.due = TRUE, !.lock = "none",
                                  !.dead = @ /\ CourierAt(c, "resend")])
      /\ resent' = IF log[m].dead /\ log[m].ref = 0 THEN resent ELSE resent \cup {m}
      /\ Travels(c, [CourierIdle EXCEPT !.pc = "drain", !.todo = {m}])
      /\ UNCHANGED <<accepted, ledger, drained, incidents>>

(* Mutant: a message being sent is cancelled as well. *)
CancellableSending(m) == log[m].status \in {"QUEUED", "SENDING"}

Cancellable(m) == log[m].status = "QUEUED"

CancelQueued(m) ==
  /\ Incident /\ Cancellable(m)
  /\ UpdateMany({m}, "CANCELLED")
  /\ UNCHANGED <<accepted, resent, ledger, drained, courier>>

-----------------------------------------------------------------------------
(* handleProviderWebhook: the ledger, the row, then a blind write          *)

Rank(s) == CASE s = "QUEUED" -> 0 [] s = "SENDING" -> 1 [] s = "SENT" -> 2 [] s = "DELIVERED" -> 3 [] s = "READ" -> 4

(* Mutant: a report that changes nothing is written as one that does. *)
nextStatusUnknown(s, incoming) == IF s \in {"DELIVERED", "READ"} THEN "UNKNOWN" ELSE incoming

(* nextStatus, or the current status where it is null. *)
nextStatus(s, incoming) ==
  CASE incoming \in Failure                 -> IF s \in {"DELIVERED", "READ"} THEN s ELSE incoming
    [] incoming \notin Failure /\ s \in Failure \cup {"CANCELLED"} -> IF Rank(incoming) >= 3 THEN incoming ELSE s
    [] OTHER                                -> IF Rank(incoming) > Rank(s) THEN incoming ELSE s

(* The hand-overs whose report can find the row, now or once it is written: *)
(* a report of another is put in the ledger and changes nothing else.      *)
Referable(m) == ({log[m].ref} \cup {courier[c].ref : c \in {d \in Couriers : CourierAt(d, "finish") /\ courier[d].id = m}}) \ {0}

BeginWebhook(c, m, ref, report) ==
  /\ CourierAt(c, "idle")
  /\ <<m, ref, report>> \notin ledger
  /\ ledger' = ledger \cup {<<m, ref, report>>}
  /\ Travels(c, [CourierIdle EXCEPT !.pc = "match", !.id = m, !.ref = ref, !.status = report])
  /\ UNCHANGED <<log, accepted, resent, drained, incidents>>

MatchMessage(c) ==
  /\ CourierAt(c, "match")
  /\ LET row    == log[courier[c].id]
         target == nextStatus(row.status, courier[c].status)
     IN  Travels(c, IF row.ref # courier[c].ref \/ target = row.status THEN CourierIdle
                    ELSE [courier[c] EXCEPT !.pc = "apply", !.status = target])
  /\ UNCHANGED log /\ OnlyLog

ApplyReport(c) ==
  /\ CourierAt(c, "apply")
  /\ Record(courier[c].id, [log[courier[c].id] EXCEPT !.status = courier[c].status])
  /\ Travels(c, CourierIdle)
  /\ OnlyLog

-----------------------------------------------------------------------------
KillCourier(c) ==
  /\ ~CourierAt(c, "idle") /\ Incident
  /\ resent' = IF CourierAt(c, "finish") /\ courier[c].outcome = "SENT" THEN resent \cup {courier[c].id} ELSE resent
  /\ Travels(c, CourierIdle)
  /\ UNCHANGED <<log, accepted, ledger, drained>>

(* A day passes; S are the messages that have then waited for two.         *)
DayPasses(S) ==
  /\ \A c \in Couriers : CourierAt(c, "idle")
  /\ log' = [m \in Messages |-> [log[m] EXCEPT !.due = TRUE, !.old = @ \/ (m \in S /\ log[m].status # NoMessage),
                                               !.lock = IF @ = "held" THEN "expired" ELSE @]]
  /\ drained' = FALSE
  /\ UNCHANGED <<accepted, resent, ledger, incidents, courier>>

CourierWork(c) ==
  \/ Recover(c) \/ ExpireMessage(c) \/ ListDueMessages(c) \/ StopDrain(c)
  \/ \E m \in courier[c].todo : ClaimMessage(c, m)
  \/ ReadMessage(c) \/ NotHandedOver(c) \/ HandOver(c) \/ Finish(c)
  \/ RequeueMessage(c) \/ MatchMessage(c) \/ ApplyReport(c)

MsgNext ==
  \/ \E c \in Couriers :
       \/ DailyDrain(c) \/ ManualDrain(c) \/ CourierWork(c) \/ KillCourier(c)
       \/ \E m \in Messages :
            \/ BeginRetryMessage(c, m)
            \/ \E deferred \in BOOLEAN : communicate(c, m, deferred)
            \/ \E ref \in Referable(m), report \in Reports : BeginWebhook(c, m, ref, report)
  \/ \E m \in Messages : CancelQueued(m)
  \/ \E S \in SUBSET Messages : DayPasses(S)

MsgSpec == MsgInit /\ [][MsgNext]_msgVars

(* Handlers go on, the tick processes the queue every day, and days pass.  *)
MsgFairness ==
  /\ SF_msgVars(DayPasses(Messages))
  /\ WF_msgVars(\E c \in Couriers : DailyDrain(c))
  /\ \A c \in Couriers : WF_msgVars(CourierWork(c))

-----------------------------------------------------------------------------
(* Properties *)

MsgTypeOK ==
  /\ log \in [Messages -> LogRow]
  /\ accepted \in [Messages -> Nat] /\ resent \subseteq Messages
  /\ ledger \subseteq Messages \X Nat \X Reports
  /\ drained \in BOOLEAN /\ incidents \in 0..MaxIncidents
  /\ courier \in [Couriers -> Courier]

(* send-service.ts:237: a message is not handed to a provider twice,       *)
(* however drains, deliveries, recoveries and retries overlap, unless the  *)
(* provider's answer was lost, the handler was killed before writing it    *)
(* down, or an administrator sent out again what a provider had already    *)
(* accepted or another administrator had just requeued.                    *)
SentOnce == \A m \in Messages : accepted[m] <= 1 \/ m \in resent

(* A message shown as waiting or cancelled has not gone out to the member, *)
(* and one shown as expired or rejected has not either, unless a provider  *)
(* has reported that of it: what the queue gives up and what the provider  *)
(* does are not confused, with the same exceptions (send-service.ts,       *)
(* webhook-service.ts:25-31).                                              *)
Told(m, status) == \E e \in ledger : e[1] = m /\ e[3] = status

ReportedTruly ==
  \A m \in Messages \ resent :
    /\ log[m].status \in {"QUEUED", "CANCELLED"} => accepted[m] = 0
    /\ log[m].status \in {"EXPIRED", "REJECTED"} => accepted[m] = 0 \/ Told(m, log[m].status)

(* Every queued message is in the end sent or given up: a kill switch, a   *)
(* dead courier or a provider that does not answer does not keep it in the *)
(* queue for ever.                                                         *)
Undecided(m) == log[m].status \in {"QUEUED", "SENDING"}
MessageSettles == \A m \in Messages : []<>~Undecided(m)
=============================================================================
