------------------------------ MODULE Signatures ------------------------------
(***************************************************************************)
(* One signature request of the document centre: an administrator asks     *)
(* several people to sign, each of them views, signs or declines, an       *)
(* administrator voids it, and the daily tick expires it.                  *)
(*                                                                         *)
(* A handler is a "clerk", an action one prisma call of it: what a handler *)
(* reads may be stale when it writes, and its writes compare nothing.      *)
(* The request has an expiry date, which is optional in the code.          *)
(***************************************************************************)
EXTENDS Naturals, FiniteSets

CONSTANTS
  Signers,       \* the recipients of the request
  Clerks,        \* handler invocations that may be in flight together
  MaxDeaths      \* bound: handlers killed

OpenRequest   == {"SENT", "VIEWED", "PARTIALLY_SIGNED"}
ClosedRequest == {"SIGNED", "DECLINED", "EXPIRED", "VOIDED"}
SignerStatus  == {"SENT", "VIEWED", "SIGNED", "DECLINED"}
NoRequest         == "ABSENT"

ASSUME SignatureConstants == Signers # {} /\ MaxDeaths \in Nat

VARIABLES
  request,    \* status of the DocumentSignatureRequest
  signer,     \* [Signers -> status of the DocumentSignatureRecipient]
  lapsed,     \* expiresAt has passed
  signed,     \* history: the signers who have signed at some time
  deaths,     \* how many handlers were killed
  clerk       \* [Clerks -> the state of the handler]

signVars == <<request, signer, lapsed, signed, deaths, clerk>>

SignPCs == {"idle", "recipients", "view", "viewed", "find", "sign", "count", "close", "decline", "declined", "void"}
Clerk   == [pc: SignPCs, who: Signers, to: {"SIGNED", "PARTIALLY_SIGNED"}]

AnySigner == CHOOSE s \in Signers : TRUE
ClerkIdle == [pc |-> "idle", who |-> AnySigner, to |-> "PARTIALLY_SIGNED"]

SignInit ==
  /\ request = NoRequest /\ signer = [s \in Signers |-> NoRequest]
  /\ lapsed = FALSE /\ signed = {} /\ deaths = 0
  /\ clerk = [k \in Clerks |-> ClerkIdle]

-----------------------------------------------------------------------------
ClerkAt(k, pc)  == clerk[k].pc = pc
ClerkGoes(k, pc) == clerk' = [clerk EXCEPT ![k].pc = pc]
ClerkDone(k)    == clerk' = [clerk EXCEPT ![k] = ClerkIdle]

Take(k, pc, s) == ClerkAt(k, "idle") /\ clerk' = [clerk EXCEPT ![k] = [ClerkIdle EXCEPT !.pc = pc, !.who = s]]

(* createSignatureRequest: the request, then its recipients *)
CreateRequest(k) ==
  /\ request = NoRequest /\ request' = "SENT"
  /\ Take(k, "recipients", AnySigner)
  /\ UNCHANGED <<signer, lapsed, signed, deaths>>

CreateRecipients(k) ==
  /\ ClerkAt(k, "recipients")
  /\ signer' = [s \in Signers |-> "SENT"]
  /\ ClerkDone(k)
  /\ UNCHANGED <<request, lapsed, signed, deaths>>

-----------------------------------------------------------------------------
(* markViewed *)
BeginView(k, s) ==
  /\ signer[s] = "SENT"
  /\ Take(k, "view", s)
  /\ UNCHANGED <<request, signer, lapsed, signed, deaths>>

ViewRecipient(k) ==
  /\ ClerkAt(k, "view")
  /\ signer' = [signer EXCEPT ![clerk[k].who] = "VIEWED"]
  /\ ClerkGoes(k, "viewed")
  /\ UNCHANGED <<request, lapsed, signed, deaths>>

ViewRequest(k) ==
  /\ ClerkAt(k, "viewed")
  /\ request' = IF request = "SENT" THEN "VIEWED" ELSE request
  /\ ClerkDone(k)
  /\ UNCHANGED <<signer, lapsed, signed, deaths>>

-----------------------------------------------------------------------------
(* signDocument *)
BeginSign(k, s) ==
  /\ request \in OpenRequest /\ ~lapsed
  /\ Take(k, "find", s)
  /\ UNCHANGED <<request, signer, lapsed, signed, deaths>>

FindRecipient(k) ==
  /\ ClerkAt(k, "find")
  /\ IF signer[clerk[k].who] \in {NoRequest, "SIGNED", "DECLINED"} THEN ClerkDone(k) ELSE ClerkGoes(k, "sign")
  /\ UNCHANGED <<request, signer, lapsed, signed, deaths>>

SignRecipient(k) ==
  /\ ClerkAt(k, "sign")
  /\ signer' = [signer EXCEPT ![clerk[k].who] = "SIGNED"]
  /\ signed' = signed \cup {clerk[k].who}
  /\ ClerkGoes(k, "count")
  /\ UNCHANGED <<request, lapsed, deaths>>

(* Mutant: who has declined is not waited for. *)
RemainingPending == {s \in Signers : signer[s] \notin {"SIGNED", "DECLINED"}}

Remaining == {s \in Signers : signer[s] # "SIGNED"}

(* Mutant: the last signature completes the request. *)
CountCompletes(k) ==
  /\ ClerkAt(k, "count")
  /\ clerk' = [clerk EXCEPT ![k].pc = "close", ![k].to = IF Remaining = {} THEN "COMPLETED" ELSE "PARTIALLY_SIGNED"]
  /\ UNCHANGED <<request, signer, lapsed, signed, deaths>>

CountRemaining(k) ==
  /\ ClerkAt(k, "count")
  /\ clerk' = [clerk EXCEPT ![k].pc = "close", ![k].to = IF Remaining = {} THEN "SIGNED" ELSE "PARTIALLY_SIGNED"]
  /\ UNCHANGED <<request, signer, lapsed, signed, deaths>>

CloseRequest(k) ==
  /\ ClerkAt(k, "close")
  /\ request' = clerk[k].to
  /\ ClerkDone(k)
  /\ UNCHANGED <<signer, lapsed, signed, deaths>>

-----------------------------------------------------------------------------
(* declineSignature asks for the recipient's row and nothing else *)
BeginDecline(k, s) ==
  /\ signer[s] # NoRequest
  /\ Take(k, "decline", s)
  /\ UNCHANGED <<request, signer, lapsed, signed, deaths>>

DeclineRecipient(k) ==
  /\ ClerkAt(k, "decline")
  /\ signer' = [signer EXCEPT ![clerk[k].who] = "DECLINED"]
  /\ ClerkGoes(k, "declined")
  /\ UNCHANGED <<request, lapsed, signed, deaths>>

DeclineRequest(k) ==
  /\ ClerkAt(k, "declined")
  /\ request' = "DECLINED"
  /\ ClerkDone(k)
  /\ UNCHANGED <<signer, lapsed, signed, deaths>>

BeginVoid(k) ==
  /\ request \in OpenRequest
  /\ Take(k, "void", AnySigner)
  /\ UNCHANGED <<request, signer, lapsed, signed, deaths>>

VoidRequest(k) ==
  /\ ClerkAt(k, "void")
  /\ request' = "VOIDED"
  /\ ClerkDone(k)
  /\ UNCHANGED <<signer, lapsed, signed, deaths>>

-----------------------------------------------------------------------------
(* Mutant: the sweep forgets the requests some have signed. *)
UnsignedOnly == {"SENT", "VIEWED"}

Sweepable == OpenRequest

sweepExpiredSignatureRequests ==
  /\ lapsed /\ request \in Sweepable
  /\ request' = "EXPIRED"
  /\ UNCHANGED <<signer, lapsed, signed, deaths, clerk>>

ExpiryPasses == ~lapsed /\ lapsed' = TRUE /\ UNCHANGED <<request, signer, signed, deaths, clerk>>

KillClerk(k) ==
  /\ ~ClerkAt(k, "idle") /\ deaths < MaxDeaths
  /\ deaths' = deaths + 1
  /\ ClerkDone(k)
  /\ UNCHANGED <<request, signer, lapsed, signed>>

ClerkWork(k) ==
  \/ CreateRecipients(k) \/ ViewRecipient(k) \/ ViewRequest(k)
  \/ FindRecipient(k) \/ SignRecipient(k) \/ CountRemaining(k) \/ CloseRequest(k)
  \/ DeclineRecipient(k) \/ DeclineRequest(k) \/ VoidRequest(k)

SignNext ==
  \/ \E k \in Clerks :
       \/ CreateRequest(k) \/ BeginVoid(k) \/ ClerkWork(k) \/ KillClerk(k)
       \/ \E s \in Signers : BeginView(k, s) \/ BeginSign(k, s) \/ BeginDecline(k, s)
  \/ sweepExpiredSignatureRequests \/ ExpiryPasses

SignSpec == SignInit /\ [][SignNext]_signVars

(* Handlers go on, the daily tick sweeps, and the expiry date comes. *)
SignFairness ==
  /\ WF_signVars(ExpiryPasses) /\ WF_signVars(sweepExpiredSignatureRequests)
  /\ \A k \in Clerks : WF_signVars(ClerkWork(k))

-----------------------------------------------------------------------------
(* Properties *)

SignTypeOK ==
  /\ request \in {NoRequest} \cup OpenRequest \cup ClosedRequest
  /\ signer \in [Signers -> {NoRequest} \cup SignerStatus]
  /\ lapsed \in BOOLEAN /\ signed \subseteq Signers /\ deaths \in 0..MaxDeaths
  /\ clerk \in [Clerks -> Clerk]

(* signature-service.ts:106-115: a request is never SIGNED before everybody *)
(* who was asked has signed, however views, signatures and refusals of     *)
(* several people overlap.  The converse is AllSignedCloses.               *)
SignedMeansAll == request = "SIGNED" => signed = Signers

(* signature-service.ts:10-11: "once every recipient has signed, the       *)
(* request is SIGNED".  Claimed when no handler is at work, and false of   *)
(* the code: the handler of the first signature may count before the       *)
(* second one is recorded and write after its handler has written.         *)
AllSignedCloses ==
  (\A s \in Signers : signer[s] = "SIGNED") /\ (\A k \in Clerks : ClerkAt(k, "idle")) => request = "SIGNED"

(* sweepExpiredSignatureRequests: a request with an expiry date is in the  *)
(* end closed for good, also when a signature in flight reopens it after   *)
(* it had been declined, voided or expired.  It says nothing of how it is  *)
(* closed: one that AllSignedCloses misses ends as EXPIRED.                *)
RequestEnds == <>[](request = NoRequest \/ request \in ClosedRequest)
=============================================================================
