# Life Partner Pro: specifications and proofs

Life Partner Pro is a matrimonial service: a Next.js 16 application in
TypeScript over PostgreSQL (Prisma), deployed as serverless functions, with a
daily cron. Administrators register profiles, propose matches, collect the
answers of the two sides, arrange meetings and disclose contact details;
sensitive actions go through a maker-checker engine.

Two facts about the runtime shape every model here:

* a request handler is a sequence of separate database calls. There is no lock
  and, outside a few `$transaction` blocks, no transaction: any number of other
  handlers run between two of its awaits, and the function may be killed there;
* where the code protects itself it does so with a conditional `updateMany`
  (compare-and-set on a `version` or a `status`). Everything else is a blind write
  of something computed from an earlier read.

So a module has, next to the rows, the handlers in flight, and each action is one
database call of one handler. A handler may be killed between any two of them.

## 1. Inventory

| Part | State it keeps | Operations | Works with | What is hard, what makes it correct |
|---|---|---|---|---|
| Approval engine `src/lib/approvals` | ApprovalRequest (status, level, version), ApprovalStep, ApprovalReviewer, ApprovalDelegation, execution log | create, submit, decide, cancel, expire, escalate, gate, execute, sweep, emergency override | every governed route calls the gate; the daily cron calls the sweep | interleaved decisions, resets before the versioned update, retries of the gate; four eyes on every step, closed stays closed, performed only with quorum |
| Proposal lifecycle `src/lib/proposal-*.ts`, `meeting-workflow.ts` | Proposal.status, ProposalResponse, ContactPermission, Meeting | create, answer, answer on behalf, request/approve/revoke permission, meetings, status change | profiles (status cascade), approval gate (FINALIZED, MARRIED), notifications | blind status writes from stale snapshots; mutual interest and consent are real |
| Contact sharing and consent `src/lib/privacy` | ConsentGrant, ContactShareLog, break-glass grants | consent, share, reveal | proposals (permissions) | check, then share; revocation |
| Account deletion and legal holds `src/lib/privacy`, `src/lib/compliance/legal-hold.ts` | AccountDeletionRequest, DataHold, Profile.accountStatus, the person's records and files | ask, approve, reject, erase, deactivate, reactivate, place and release holds | approval gate, daily retention sweep, document holds | hold placed while the sweep runs, calls that fail half way, a release that waits for its approval |
| Family participation `src/lib/family` | members, permissions, shared records, FamilyDecision | invite, share, suggest, confirm, cancel | proposal answers, meetings | a suggestion is only an answer once confirmed |
| Finance: settlement `src/lib/finance` | Order, Payment, ManualPaymentDetail, Invoice, CouponRedemption, Refund | checkout, confirm, verify, reject, cancel, refund | packages, memberships, refund approval | races of verification, rejection and cancellation; a crash between payment and activation; money back at most once |
| Finance: memberships `src/lib/finance` | Subscription, FeatureUsage | activate, renew, cancel, change package, reward days, use a feature | settlement, referrals, daily tick | nobody lapses early, limits hold under simultaneous use, every unpaid membership ends |
| Jobs and daily tick `src/lib/ops` | BackgroundJob, CronTask lock | enqueue, claim, run, retry, dead-letter, recover | every daily task | locks outliving functions, recovery of another worker's job |
| Workflow tasks `src/lib/workflow` | AdminTask, WorkflowEvent | create, assign, edit, escalate, complete, cancel, reopen, archive, retry | daily sweep, case types | versioned updates, an aborted sweep, retries of events |
| Communications `src/lib/communications` | CommunicationLog, WebhookEvent | queue, claim, hand over, retry, expire, cancel, report | providers (external), daily tick | duplicate delivery, late and reordered reports |
| Documents and signatures `src/lib/documents` | DocumentSignatureRequest, its recipients | ask, view, sign, decline, void, expire | daily tick | statuses computed from stale counts |
| Verification `src/lib/verification` | cases, reviews, one-time codes | start, claim, decide, expire | profiles, documents | attempt limits, claims |
| Platform control `src/lib/platform` | configuration versions, flags, freezes | change, roll back, freeze | every part reads it | concurrent change and rollback |
| Security operations `src/lib/soc`, risk, cases | incidents, signals, restrictions, cases | detect, contain, close | sessions | state tables |
| CRM, marketing, engagement, promotions, content, mobile | their own rows | mostly single-row edits | cron ticks | once-only rewards, ticks |
| Matching, search, analytics, AI, i18n, user interface | none or derived | read, score, render | | pure functions, external models |

`PROJECT.json` lists every part with its files and its status, and every hazard with
the line where it bites; section 7 says what is left out.

## 2. Modules

| Module | Models | Proved in |
|---|---|---|
| `ApprovalEngine` | one approval request, its ladder of steps, its reviews, and the handlers on them | `ApprovalEngineProofs` |
| `ProposalLifecycle` | proposals, their answers, permissions, meetings, family decisions, profile statuses and contact shares, and the handlers on them | `ProposalLifecycleProofs` |
| `OrderPromise` | abstract: what a customer is promised about one order | `SettlementProofs` |
| `Settlement` | orders, bank transfers, invoices, coupons, refunds; implements `OrderPromise` | `SettlementProofs` |
| `Membership` | subscriptions, their renewal sweep, package changes, rewards, limited features | `OperationsProofs` |
| `JobQueue` | the background jobs, the workers, the lock of the daily tick | `JobQueueProofs` |
| `TaskBoard` | staff tasks, the event behind one of them, the daily escalation sweep | `OperationsProofs` |
| `MessageQueue` | messages to members, the couriers that hand them over, the provider's reports | `ServicesProofs` |
| `Signatures` | one signature request and its recipients | `ServicesProofs` |
| `AccountDeletion` | one account, its deletion requests, its legal holds, the retention sweep | `AccountDeletionProofs` |
| `MC...` | constants, symmetry sets and compositions of the runs | |

**Agendas.** Four MC modules hold several questions in one state machine: a
variable `agenda`, chosen at the start and never changed, says what the behaviour is
about, and the rest stays as it was. `MCApprovalParts` and `MCMemberParts`
instantiate one module several times, each agenda with operations and constants of
its own; `MCMemberParts`, `MCGovernance` and `MCOperations` also put side by side components
that share no row in the code. No interaction is lost by not interleaving two components
that touch nothing in common, and every one of them is explored as if it were alone.
Their fairness is that of the component, restated of the composition's steps.
`MCApprovalRounds`, `MCSettlement` and `MCSignatures` state what the code's comments
claim and a violation run refutes.

What the parts do share is kept inside a module: the gate is part of
`ApprovalEngine` and an oracle elsewhere (`Settlement`'s second administrator, the
"pass or wait" of `AccountDeletion`); `Settlement` starts a membership by
`Activate` and `Membership` begins with `activateSubscription`; the family's decisions and the
consents live beside the proposal.

### ApprovalEngine

`req` is the ApprovalRequest row (status, currentLevel, version), `steps` the
ladder, `reviews` the reviewer rows of each step. `call[c]` is a handler: the
await it is at (`pc`), who acts, the request it read (`snap`), the step it chose.
`withVersionedUpdate` is `Fresh`/`VersionedUpdate`: it succeeds only if the version
is still the one the handler read, otherwise the caller gets its 409
(`LosesRace`). Steps and reviewers are written without that check, exactly as in
the code: `UpsertReviewer`, `WipeReviewers`, `WipeSteps`, `SatisfyStep`,
`OpenNextStep`, `AddStep`. `CheckQuorum` is one action although the code reads
the request and its steps in two calls; those two reads are merged.

A decision is `BeginDecision`, `Authorize`, `UpsertReviewer` and then, for
APPROVE, `CheckQuorum` and one of `PartiallyApprove`, `SatisfyStep`/`OpenNextStep`/
`AdvanceLevel`, or `Approve`; for REJECT `Reject`; for REQUEST_CHANGES the two wipes and
`RequestChanges`. `BeginGate`/`Perform` are a governed route whose gate answered
READY_TO_EXECUTE; `MarkExecuted` is `markApprovalExecuted` with each of its
three compare-and-sets and the re-reads between them; `BeginExecute` and
`MarkFailed` are the execute route. `BeginSweep`/`ExpireRead`/`Expire` are the daily
sweep. `PassDeadline`, `Deactivate`, `ConflictChanges` and `Crash` are the environment.

`conflict.ts` reads live rows: the record's last reviewer, its assignee, a refund's
requester. `conflicted` is the set of admins those rows name now, and `ConflictChanges`
puts one in or takes one out at any moment, also between a handler's check and its
writes. `detectConflict` makes two or three such reads one after the other; they are one
step here. `call[c].cleared` remembers whether the actor was free at some moment since the handler began.
Two records of approvals are history: `sinceReset` those given since the
reviewers were last reset, `standing` those a request for changes that took effect has
left. The quorum of `FourEyes` is asked of `standing`, so that an approval undone by a
request for changes does not count.

### ProposalLifecycle

`status`, `response`, `permission`, `meeting`, `decision`, `profile`, `shared` are the
rows; `withdrawn` the profiles whose CONTACT_SHARING consent is revoked. A handler
reads the proposal into `call[c].snap` in its Begin action and decides everything
on it; every later write is blind. `nextProposalStatus` and `statusAfterResponse` are
the pure functions of `proposal-workflow.ts`. Two reads the code starts together
with `Promise.all` (the two response rows) are one action; two writes it starts
together (the profiles of `Cascade`) are two, in either order. The legacy statuses
nothing writes any more (SENT, WAITING, ...) are left out. A family's suggestion may be
confirmed by either party, and the answer is recorded for the side of who confirms
(`BeginConfirm`, decisions.ts:67-79). `history` records which
sides ever answered INTERESTED, each side's last word on its permission, whether
both permissions ever stood together, and whether a meeting was marked as held.

### Settlement and OrderPromise

`order`, `payment`, `detail` (the bank reference), `coupon`, `invoice`, `members` (memberships
started) and `refund` are rows, keyed by the order. A `$transaction` is one action, and
what the handler read before it may be stale by then: `VERIFY` claims the reference with a
compare-and-set, `REJECT` reads and then writes unconditionally, `CANCEL` claims the order,
a refund's execution claims the refund before the provider is asked. `payCall` are the handlers. `paidBack` counts the
provider's payments, `killed` the orders whose handler died on the way.
`OrderPromise` knows none of this: an order is owed, then withdrawn, refused or
settled for good, and starts one membership after it is settled. `KeepsPromise` is
`Promise!PromiseSpec` under the mapping `PhaseOf` of the order's status.

### Membership

`sub` are the Subscription rows, `usage` the counter of the one feature, `desk` the
handlers. `phase` abstracts the clock to what the sweep compares: before the renewal
date, after it, after the grace period, or `undated`: a package without a duration
(`OneTime`) gives a subscription whose `renewalDate` is null, which no list of the sweep
contains. The renewal sweep is four lists taken one after the other
(`Stages`), each row written blindly from the list's read. `entitlements.ts` reads the
limit and then increments under the condition that the counter is below it, except that the first use
of a period creates the counter and compares nothing. `had` and
`given` are history (packages the member has had, subscriptions a reward extended).

### JobQueue

`job` are the BackgroundJob rows; `jobCall` a handler: the tick (cron or by hand), "run
now", retry, cancel. `enqueue`, `recover`, `list`, `claim`, `read`, `handle` are its awaits in the
order of the code. The claim is a compare-and-set on the status; the recovery of stuck jobs is
decided on a read (`stuck`) and written under a guard that looks at the status only. A job's
lock lasts 5 minutes, the tick's 15, a function one: so time passes, by minutes
(`Minutes`) or overnight (`Overnight`), only when no call is alive.

### TaskBoard

`task` are the AdminTask rows with their version, `event` one WorkflowEvent, `hand` the
handlers. Every change of a task is `BeginUpdate` (the read, the checks and the new
row computed from it) and then a write guarded by the version; the loser stops, and
when it was the sweep, the whole sweep stops with it. `AllowedMoves` is the table of
`status.ts` restricted to the statuses some caller asks for.

### MessageQueue

`log` are the CommunicationLog rows, `courier` the handlers: the request that makes a
message, the daily or manual drain, a retry by hand, a provider's webhook. A claim is a
compare-and-set with a lock of two minutes; a function lives one, so days pass only when
no courier is alive. An exchange with the provider has every outcome the code
distinguishes, including an answer that is lost. `Reports` are the statuses a report can be read
as (`providers/shared.ts`), REJECTED and EXPIRED among them. `ledger` is the webhook's unique key, `accepted` counts
acceptances, `resent` marks the messages the code itself knows may go out again.

### Signatures

`request` and `signer` are statuses; no write compares anything. A signature is
`find`, `sign`, `count` and the write of the request's status computed from the count.
`lapsed` is the expiry date, `signed` history. `sweepExpiredSignatureRequests` is one
`updateMany`, hence one action.

### AccountDeletion

`account`, `deletion`, `hold` are rows; `data` is what is left of the person (records,
files). A sweep (`officer`) takes its list, looks the hold up once per request, marks it
PROCESSING, deletes the files, erases the records in a transaction and logs; a database
call that fails (`FailErasure`) is caught per request, as in `runDueRetentionActions`.
The write that puts the request back to SCHEDULED may fail as well, which is swallowed
(retention-policy.ts:86). `hold[h].keeps` is history: the data a hold has kept for a night. `lost`
marks the requests left in PROCESSING, by a kill or by that second failure (`Strands`).

## 3. Runs

| Run | Expect | Properties | Shows |
|---|---|---|---|
| `ApprovalParts` | pass | `TypeOK` `NoConflictedDecision` `FourEyes` `StatusFollowsTable` | a level 3 ladder (manager, then Super Admin) decided and cancelled; a level 2 step sent back, resubmitted, with deactivated approvers; a level 1 step where an approver comes into conflict and out of it; crashes |
| `Governance` | pass | `FourEyes` `PerformedNeedsQuorum` `LateRequestsClose` | level 1 with a delegate, escalation, gate, execute route, deadline, sweep |
| | | `DelTypeOK` `HeldKept` `DeletionCarriedOut` | two deletion requests and a hold, one mishap |
| | | `SignTypeOK` `SignedMeansAll` `RequestEnds` | one signature request, two signers, one death |
| `MemberParts` | pass | `TypeOK` `InterestBacked` `ShareNeedsConsent` `NoLostPromotion` `MeetingBacked` | answers from the creation on, on behalf or of the family; permissions, shares and consent; two meetings with crashes |
| | | `PayTypeOK` `RefundsBacked` `PaidBackOnce` `CancelledNeverPaid` `PaidIsServed` `KeepsPromise` | one order with its coupon, two administrators, two refunds, crashes; `KeepsPromise` is the refinement of `OrderPromise` |
| | | `MsgTypeOK` `SentOnce` `ReportedTruly` | one message, two attempts, reported delivered or expired, two incidents |
| `Operations` | pass | `OpsTypeOK` `OneWorker` `AttemptsSpent` `TickAlone` `JobsSettle` | two jobs, two handlers, one crash, two operations by hand |
| | | `UsageWithinLimit` `NotLapsedEarly` `MembershipEnds` `ScheduledChangeHappens` | one subscription, a dated package with a limit of 0 and an undated one with a limit of 2, three visits |
| | | `StatusAllowed` `OverdueEscalates` `RetriesBounded` | two tasks and an event, two touches, one fault, the code's retry cap of 5 |
| | | `MessageSettles` | one message, two attempts, two incidents |
| `ApprovalTwice` | violation | `CountedOnce` | a retried gate call performs and counts the action twice |
| `ApprovalSkip` | violation | `FourEyes` | a reset in flight lets a level 3 request through without its Super Admin |
| `ApprovalStale` | violation | `ApprovalsAreFresh` | an approval in flight across a request for changes counts in the next round |
| `ProposalReopened` | violation | `EndedStaysEnded` | an answer in flight reopens a closed proposal |
| `ProposalRevived` | violation | `ShareRespectsRevocation` | asking again for a revoked permission revives it, with one handler at a time |
| `SettlementOverRefund` | violation | `RefundsWithinPayment` | of two refunds of two thirds each the provider returns both, more than was paid, with one handler at a time; the second then fails on the payment's status and stays PROCESSING |
| `SignedStaysOpen` | violation | `AllSignedCloses` | two people sign at once: the request both have signed stays PARTIALLY_SIGNED |
| `HoldNeverReleased` | violation | `ReleaseCompletes` | a release that had to wait for its approval is never executed |

Every property of a passing run has a mutant in `PROJECT.json`: a plausible bug of one
definition (a dropped guard, a blind write in place of a claim, an off-by-one) under which
that run violates it.

**Bounds.** Two ordinary handlers are in flight together (and the approval sweep's):
every lost update, stale read and check-then-act race needs two, and because a
finished handler starts again the runs contain any number of them in sequence.
`MaxVersion` stops new approval handlers after that many versioned updates (enough to
submit, send back, resubmit and, with two handlers in flight, decide), `MaxSteps` allows the ladder and one escalation.
`Attempts` and `MaxAttempts` are 2, so that there is a retry and an exhausted one;
`MaxManual`, `MaxVisits`, `MaxTouches`, `MaxDuties` (2, 3, 2, 3) bound what people start, and
are enough for one operation to overtake another and for a third to meet the
result; `MaxCrashes`, `MaxFaults`, `MaxMishaps`, `MaxDeaths` (1) and `MaxIncidents` (2) bound
faults: one leaves a row half way, and what the code does about it is then explored to its
end. Days, sweeps and ticks are unbounded, and they are what liveness rests on. `RetryCap` is the code's
5, and every one of the retries is made. `Amounts`
are a half, the whole and more than the `Price` (in `SettlementOverRefund` two thirds of it, so that no one
refund is of the whole). `Reports` are delivered and expired where safety is
checked, one that says the message has gone and one that says it has not, and delivered alone beside
`MessageSettles`, to keep that run small; a resend of a message reported FAILED is in no
run, only in the theorems. There is one order, so the coupon's
`UsageLimit` (1) is never the reason a checkout fails. Each agenda takes up only the operations its question needs, because together
they exceed what can be enumerated; between them the runs take every action.

`CHECK_DEADLOCK FALSE` is where the system really stops: an approval request that has reached
its bound, a proposal without an open operation, a settled order, an erased
account. In `Operations` days go on for ever and deadlock is checked.

Handlers are interchangeable and no property names one, so they are a symmetry set in
`ApprovalParts` and `MemberParts`, which have no liveness; likewise two
managers of the same role (their ladder agendas form one orbit). Runs with liveness use no symmetry.

**Fairness.** The platform calls the cron route every day (`vercel.json`), so the sweep
and the ticks are weakly fair; a handler that is not killed takes its next step, so each
handler's work is weakly fair; days pass and dates come (`Overnight`, `DueDatesPass`,
`DayEnds`, `ExpiryPasses` weakly; `DaysPass`, `DayPasses` strongly, since a sweep may be
at work whenever a day could end, but does not live on into every night). Nothing is assumed
of people, of providers or of the start of any other handler, and nothing of a crashed
one. Only the violation run `HoldNeverReleased` assumes more (`ReleaseFairness`):
administrators keep asking and the gate passes in the end. Even so the hold stays, which is the point.
The liveness properties are stated as `[]<>` or `<>[]` of a state predicate: what is
asked for cannot stay undone for ever.

**What the passing runs leave out on purpose.** Some properties carry an exemption, since
the code has no protection there; each is named in the property's comment and under the hazards:

* `OneWorker`, `AttemptsSpent`: a job retried twice by hand may run twice at once.
* `SentOnce`, `ReportedTruly`: a message whose acceptance was lost, or that was sent out again by hand. `ReportedTruly`: a
  message a provider itself has reported as expired or rejected.
* `UsageWithinLimit`: the first use of a period, which a limit of 0 does not prevent.
* `NoConflictedDecision`: whoever was free at some moment since the handler began.
* `PaidIsServed`: an order whose handler was killed between payment and membership; nothing repairs it.
* `MembershipEnds`, `ScheduledChangeHappens`: a membership without a renewal date never ends, and what is scheduled for it
  is never applied. `MembershipEnds`: a trial never ends by itself. `NotLapsedEarly`: days given while the sweep holds its list are lost.
* `DeletionCarriedOut`: a sweep killed while the request is PROCESSING leaves it there for ever, and so does a
  failed erasure when the write that puts the request back fails too.
* `FourEyes`: a request that was escalated has another ladder than the one it was given.
* `RequestEnds` assumes an expiry date, which is optional. It asks for an end, not for which one: a request everybody
  has signed may end EXPIRED, which `SignedStaysOpen` reports.
* `NoLostPromotion` is checked without crashes: a handler that dies before the promotion leaves the proposal waiting.

Further behaviour that the models contain and no run reports, although a comment says otherwise: an approval
given before its author came into conflict with the record still counts at the grant (conflict.ts:39-43); a job retried
twice by hand runs twice at once (jobs.ts:79-80); a delivery report read before a later one was written takes
the message's status backward (webhook-service.ts:18-19); the scheduled change of an undated membership
(schema.prisma:5056-5057).

Further behaviour with no property, for want of a statement in the repository that it contradicts:
an event whose handler was killed stays PENDING and loses its task; an automatic retry
of an event cannot succeed, as no caller stores a task type in it; a task can be completed only after it
was escalated, and a reopened one is not escalated a second time; the review of a deletion
request looks at no status; a membership still PAST_DUE when its grace period has passed
never becomes EXPIRED; the execute route marks a draft as failed.

**What the violations say.** They are disagreements between the code and its own
comments; the findings in `PROJECT.json` quote both. Five of them need an unlucky
interleaving (`ApprovalTwice`, `ApprovalSkip`, `ApprovalStale`, `ProposalReopened`, `SignedStaysOpen`); three
happen with one handler at a time (`ProposalRevived`, `SettlementOverRefund`, `HoldNeverReleased`).

## 4. Theorems

Every invariant and every action property of the passing runs is a theorem of its specification, for
every value of the constants: any number of handlers in flight, of admins, proposals, orders, messages,
jobs or tasks, and any bound. The runs show each on a small instance; what they bound (handlers in flight,
crashes, versions) the theorems do not.

**Assumptions.** Of the constants, the named assumptions of the modules (`ConstantsAssumption`,
`PayConstants`, `JobConstants`, `MembershipConstants`, `BoardConstants`, `MessageConstants`, `SignatureConstants`,
`DeletionConstants`): sets that are not empty where the code takes a member of
them, bounds and limits that are natural numbers (a limit may be 0),
status tables that stay within their enum, reports that are among the seven statuses a provider's
answer is read as. Finiteness is asked for only where something is counted:
the administrators of a quorum, the hands on the task board. TLC evaluates them on every run. Six
theorems have a hypothesis of their own; each names operations the property does not speak about, or under which the code
really breaks it, and each is met by the constants of a run:

| Theorem | Hypothesis | Without it |
|---|---|---|
| `TableFollowed` | neither the gate nor the execute route in play | `markApprovalExecuted` writes on a version it has just read again, `markApprovalExecutionFailed` looks at no status |
| `FourEyesKept`, `QuorumBeforeMutation` | `OneRungOrNoReset`: not both a level 3 ladder and requests for changes | false: the run `ApprovalSkip` |
| `ConsentNeeded` | `CONTACT_APPROVED` not set by hand | the status route asks for no permission |
| `InterestIsBacked` | no status that claims interest set by hand | the same route, no answer |
| `MeetingIsBacked` | no meeting status set by hand | the same route, no meeting |
| `PromotionNotLost` | `AnswersSettled`: no answer in flight, no crash, nothing put back to waiting by hand | an answer writes back the status from before the promotion |

**How the proofs go.** Hardly any of the properties is inductive: the code checks in one await and writes in a
later one, so what makes the write right must be said of the handler in between. Each proof
module therefore states (i) a strengthening that says what a handler at each await still knows,
(ii) what each step of a handler does, as flat facts ("effects"), (iii) one lemma per step that the
strengthening survives it, for the handler that moves and for every other one,
and (iv) the theorem, from the three by temporal logic.

### ApprovalEngineProofs

* `TypeCorrect`. `Call` says more than types: a handler at an await that writes a step holds
  one (`WorksOnStep`), which is what makes `steps[call[c].step]` meaningful.
* `ConflictExcluded` (`NoConflictedDecision`). `detectConflict` runs several awaits before the review and the
  decision are written, and the conflict may come or go in any of them. `Freely`: a handler that has passed
  `Authorize` found its actor free of conflict then, so it is `cleared`, and nobody is ever cleared as the
  maker; a handler that has yet to check is cleared if its actor is free now (`DecidesFreely`).
* `TableFollowed` (`StatusFollowsTable`, an action property). `TableInv` rests on the version: whatever a handler
  checked of the row is still so if the version it holds is the row's (`MayWrite`), since every
  change of the row counts it up.
* `FourEyesKept`, `QuorumBeforeMutation` (`FourEyes`, `PerformedNeedsQuorum`). Steps and reviews are written without
  the version, so the version does not help. `EyesInv` follows the ladder: a rung is opened only when the ones below it are
  approved by enough people (`RungInv`), a handler about to satisfy or to grant has seen that quorum
  (`ClimberInv`), which still stands if it has been granted (`Settled`) or the handler's version is the row's
  (`Current`; a level 3 ladder is not reset under the hypothesis), and whatever the reviewer rows say is on the
  record of standing approvals (`ReviewsOnRecord`), which shrinks only when a request for changes takes effect. A reset by a handler in flight takes
  rungs back under another handler that has already climbed past them, which is `ApprovalSkip`.

### ProposalLifecycleProofs

* `TypeCorrect`. A handler writes a value it has carried since it began: `Fits` says which values belong to
  which await, so that a meeting never gets a proposal's status nor a profile a status it does not have.
* `ConsentNeeded` (`ShareNeedsConsent`). `ConsentInv`: two permissions that stand are on record, and whatever
  a handler is about to write had its moment of mutual permission (`Vouches`).
* `InterestIsBacked`, `MeetingIsBacked`. One invariant, `BackedInv`: the facts the two properties ask for
  are permanent (`FactsStay`), and every status a row has, or a handler has read or is about to write, was backed when it was
  taken hold of (`Backed`, `Carries`). This is why blind writes of old statuses do no harm here.
* `PromotionNotLost` (`NoLostPromotion`). `PromotionInv`: as long as two permissions stand and the proposal waits, somebody
  is still going to read them (`SomebodyPromotes`), and the status that handler read at its start
  is not too old to promote from (`NoneReopens`).

### JobQueueProofs

* `TypeCorrect` (`JobTypeOK`), `TicksAlone` (`TickAlone`): `TickInv`, whoever is in the tick has the lock, which outlives every function.
* `WorkersAlone`, `AttemptsCounted` (`OneWorker`, `AttemptsSpent`). `QueueInv`, per job: whoever claimed it is done or dead
  before its lock runs out (`LocksRun`); one worker has it (`Alone`); a recovery or a
  dead-lettering in flight concerns a job nobody has or can get before all calls have ended
  (`StuckParked`, `Parked`); likewise a retry by hand (`RetryReady`); attempts agree with the status
  (`Counted`). After a second retry by hand nothing of this is claimed, nor true.

### OperationsProofs

* `UsedWithinLimit`, `LapsesInTime` (`UsageWithinLimit`, `NotLapsedEarly`). `MemInv`: a limit in a handler's hands is one of a
  package the member has had; a subscription on a sweep's list is still behind enough for what that stage writes,
  or was given days since (`Behind`), because dates only come nearer.
* `MovesAllowed` (`StatusAllowed`, an action property), `RetriesCapped` (`RetriesBounded`). `BoardInv`: a row about to be
  written is an allowed step from the row of its version (`RowAllowed`); attempts, together with the handlers
  already past the check (`Refusers`), stay below the cap and the number of hands. The last is where counting matters: it uses
  the cardinality of a set of handlers.
* `OpsTypeCorrect` (`OpsTypeOK`): types of jobs, memberships and tasks in `MCOperations`, side by side.

### SettlementProofs

* `TypeCorrect`, `RefundsAreBacked`, `RefundsPaidOnce`, `WithdrawnNeverPaid`, `PayersServed` (`PayTypeOK`, `RefundsBacked`, `PaidBackOnce`,
  `CancelledNeverPaid`, `PaidIsServed`). `SettlementInv`: order, payment and reference are written
  separately, but a payment is processed only after its order has left the state in which it can be
  cancelled, and the reference is claimed once (`OrderInv`, `OrderCallInv`); a refund being paid was claimed
  by that handler alone, from APPROVED, with a second administrator's name (`RefundInv`, `RefundCallInv`).
* `PromiseKept` (`KeepsPromise`): the refinement. Under `PhaseOf`, initial states map to initial states
  and each step, given `SettlementInv` before and after it, to one step of `OrderPromise` or a stutter.

### AccountDeletionProofs

* `TypeCorrect` (`DelTypeOK`), `HoldsKeep` (`HeldKept`). A sweep past its check erases without looking again; `HeldInv`: while any is, no
  hold has kept anything for a night, since none was in force at the check and nights begin
  when no sweep is at work.

### ServicesProofs

* `SignTypeCorrect`, `SignedByAll` (`SignTypeOK`, `SignedMeansAll`). `SignInv`: who signed is not forgotten, and a handler about to write
  SIGNED counted when everybody had.
* `MsgTypeCorrect`, `HandedOverOnce`, `ShownTruly` (`MsgTypeOK`, `SentOnce`, `ReportedTruly`). `MsgInv`, per message not sent out again: one
  courier carries it under a held lock (`CarriedAlone`), the provider has accepted it only if
  that courier, or the row's reference, says so (`AcceptedAsKnown`), and a row with a reference has a status a
  provider reports (`RowTells`). `ToldInv`: a report is in the ledger before it is applied, so a row that has gone out
  shows EXPIRED or REJECTED only where a provider said so.

**Only model-checked:** the liveness properties (`LateRequestsClose`, `DeletionCarriedOut`, `JobsSettle`, `MembershipEnds`,
`ScheduledChangeHappens`, `OverdueEscalates`, `MessageSettles`, `RequestEnds`), because liveness under fairness
and ENABLED are out of the prover's reach; and the violations, which are counterexamples. No function of the model is recursive, so
nothing is left out for want of induction.

## 5. Plan

Done: the modules of section 2 with their runs, and the theorems of section 4. Next, in this order:

1. The converse of the violation runs: under which operations each refuted claim does hold
   (`EndedStaysEnded` without answers in flight, `CountedOnce` with one gate, `RefundsWithinPayment`
   with one refund per order), as theorems like `FourEyesKept`.
2. `TableFollowed` for the gate and the execute route, with the moves they make beyond the table named.
3. The safety half of the liveness arguments: what a waiting row waits for (a due job is claimable, a late request is
   on the next sweep's list), as invariants.
4. Modules for one-time verification codes, configuration versions of the platform, and sessions.

## 6. How to read a module

A module begins with what it models and how its clock is abstracted. Then come the
tables of statuses taken from the source, the variables, helpers, and the handlers, one section
per operation of the code in the order of its awaits. An operator whose comment begins
"Mutant:" is not part of the specification: it is the wrong version of the definition after it. `Next` and the
properties close the module. `map` in `PROJECT.json` gives the file and lines of each definition.

## 7. Not modelled

Of the approval engine: the emergency override, the creation race on the idempotency key,
the tables of policies, thresholds and delegations, events and notifications. Of
proposals: notes, family communications, assignment, the duplicate and restriction checks at
creation, which only refuse. Of the finance centre: the trial reminder, credits, overrides, card
webhooks (their provider is a stub and no payment names it), taxes, sequence codes, chargebacks,
reconciliation and reports. Of the workflow engine: dependencies between tasks, rules, templates,
access checks, AdminAssignment rows. Of communications: templates, rate limits, the campaign's own states.
Of privacy: data and correction requests, exports, masking, the retention of other records than the account's.

The map covers a small share of the repository's 139 thousand lines because
most of them keep no state two handlers could disagree about: the React pages and
components, the tables of permissions, catalogues and templates, validation schemas,
read-only reports, dashboards, search and analytics, the pure scoring of matches, wording in several
languages, and adapters to external storage, mail and AI providers. A model of these would
restate them. Parts listed as `not_modelled` in `PROJECT.json` are of those kinds, or single-row edits by one
administrator, or named in the plan.
