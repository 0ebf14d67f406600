----------------------------- MODULE Membership -----------------------------
(***************************************************************************)
(* The memberships of one member: subscriptions started by payments, the   *)
(* daily renewal sweep that lapses them, the member's cancellation and     *)
(* package changes, days given as a referral reward, and the use of a      *)
(* feature that the package limits.                                        *)
(*                                                                         *)
(* A handler is a "call", an action one prisma call of it.  A payment never *)
(* renews a subscription (see Settlement!Activate), so time only moves one *)
(* towards its renewal date and then past its grace period; it passes when *)
(* no call is alive.  Renewals are enabled (payment feature flags).        *)
(***************************************************************************)
EXTENDS Naturals, Sequences, FiniteSets

CONSTANTS
  Subs,          \* bound: Subscription ids
  Packages,      \* Package ids
  OneTime,       \* the packages without a duration (ONE_TIME)
  LimitOf,       \* [Packages -> limitValue of the feature], of packages that limit it
  Desks,         \* handler invocations that may be in flight together
  MaxVisits      \* bound: handlers started by the member and administrators, rewards and crashes

(* Of the enum, PENDING, PAYMENT_FAILED and SUSPENDED are never written.  *)
SubStatus == {"TRIAL", "ACTIVE", "PAST_DUE", "GRACE_PERIOD", "EXPIRED", "CANCELLED"}
NoSub     == "ABSENT"
NoPackage == "NONE"

ASSUME MembershipConstants ==
  /\ Subs # {} /\ Packages # {} /\ NoPackage \notin Packages
  /\ OneTime \subseteq Packages
  /\ LimitOf \in [Packages -> Nat]
  /\ MaxVisits \in Nat

SubscriptionTransitions(s) ==
  CASE s = "PENDING"        -> {"TRIAL", "ACTIVE", "PAYMENT_FAILED", "CANCELLED"}
    [] s = "TRIAL"          -> {"ACTIVE", "PAYMENT_FAILED", "CANCELLED", "EXPIRED"}
    [] s = "ACTIVE"         -> {"PAST_DUE", "CANCELLED", "SUSPENDED", "EXPIRED"}
    [] s = "PAST_DUE"       -> {"GRACE_PERIOD", "ACTIVE", "EXPIRED", "CANCELLED"}
    [] s = "GRACE_PERIOD"   -> {"ACTIVE", "EXPIRED", "CANCELLED"}
    [] s = "PAYMENT_FAILED" -> {"ACTIVE", "PAST_DUE", "CANCELLED", "EXPIRED"}
    [] s = "SUSPENDED"      -> {"ACTIVE", "CANCELLED"}
    [] s = "EXPIRED"        -> {"ACTIVE"}
    [] OTHER                -> {}

-----------------------------------------------------------------------------
VARIABLES
  sub,        \* [Subs -> the Subscription row]
  usage,      \* usageCount of the feature in this period, 0 before the row exists
  had,        \* history: the packages the member has had
  given,      \* history: the subscriptions a reward has extended
  swept,      \* the platform has run today's sweep
  visits,     \* how many handlers, rewards and crashes there were
  desk        \* [Desks -> the state of the handler]

memVars == <<sub, usage, had, given, swept, visits, desk>>

(* phase: before renewalDate, between it and the end of the grace period,  *)
(* after that, or undated where renewalDate is null.                       *)
Phases == {"running", "due", "late", "undated"}
Subscription == [status: {NoSub} \cup SubStatus, trial: BOOLEAN, autoRenew: BOOLEAN, phase: Phases,
                 package: Packages, pending: Packages \cup {NoPackage}]

Stages == <<"changes", "dues", "graces", "ends">>
Desk == [pc: {"idle", "scan", "sweep", "move", "cancel", "stopRenewal", "change", "reward", "use"}, stage: 1..5,
         list: SUBSET (Subs \X (Packages \cup {NoPackage})), id: Subs, package: Packages \cup {NoPackage},
         next: BOOLEAN, limit: Nat]

AnySub     == CHOOSE s \in Subs : TRUE
AnyPackage == CHOOSE p \in Packages : TRUE
DeskIdle   == [pc |-> "idle", stage |-> 1, list |-> {}, id |-> AnySub, package |-> NoPackage, next |-> FALSE, limit |-> 0]

MemInit ==
  /\ sub = [s \in Subs |-> [status |-> NoSub, trial |-> FALSE, autoRenew |-> TRUE, phase |-> "running",
                            package |-> AnyPackage, pending |-> NoPackage]]
  /\ usage = 0 /\ had = {} /\ given = {} /\ swept = FALSE /\ visits = 0
  /\ desk = [d \in Desks |-> DeskIdle]

-----------------------------------------------------------------------------
DeskAt(d, pc)  == desk[d].pc = pc
Turn(d, state) == desk' = [desk EXCEPT ![d] = state]
Write(s, row)  == sub' = [sub EXCEPT ![s] = row]

(* A handler of the member or of an administrator starts.                  *)
Visit(d, state) ==
  /\ DeskAt(d, "idle") /\ visits < MaxVisits
  /\ visits' = visits + 1
  /\ Turn(d, state)
  /\ UNCHANGED <<sub, usage, had, given, swept>>

(* ACTIVE_SUBSCRIPTION of getUserEntitlements. *)
Entitled(s) == sub[s].status \in {"ACTIVE", "TRIAL", "GRACE_PERIOD"}

activateSubscription(s, p, trial) ==
  /\ sub[s].status = NoSub
  /\ Write(s, [sub[s] EXCEPT !.status = IF trial THEN "TRIAL" ELSE "ACTIVE", !.trial = trial, !.package = p,
                             !.phase = IF p \in OneTime THEN "undated" ELSE "running"])
  /\ had' = had \cup {p}
  /\ UNCHANGED <<usage, given, swept, visits, desk>>

-----------------------------------------------------------------------------
(* runDueSubscriptionRenewals: four lists, read one after the other, and   *)
(* for each member of a list a fresh read and a blind write                *)

InState(stage, s) ==
  CASE stage = "changes" -> sub[s].pending # NoPackage
    [] stage = "dues"    -> sub[s].status = "ACTIVE" /\ sub[s].autoRenew
    [] stage = "graces"  -> sub[s].status = "PAST_DUE"
    [] stage = "ends"    -> sub[s].status = "GRACE_PERIOD"

(* Mutant: the grace period is over as soon as it begins. *)
EndsEarly(stage, phase) == IF stage = "graces" THEN phase # "late" ELSE phase \in {"due", "late"}

InTime(stage, phase) ==
  CASE stage \in {"changes", "dues"} -> phase \in {"due", "late"}
    [] stage = "graces"              -> phase # "late"
    [] stage = "ends"                -> phase = "late"

(* Mutant: only subscriptions that renew are looked at. *)
ListedRenewing(stage) ==
  {<<s, sub[s].pending>> : s \in {i \in Subs : InState(stage, i) /\ InTime(stage, sub[i].phase) /\ sub[i].autoRenew}}

Listed(stage) ==
  {<<s, sub[s].pending>> : s \in {i \in Subs : InState(stage, i) /\ InTime(stage, sub[i].phase)}}

Target(stage) == CASE stage = "dues" -> "PAST_DUE" [] stage = "graces" -> "GRACE_PERIOD" [] stage = "ends" -> "EXPIRED"

BeginRenewals(d) ==
  /\ DeskAt(d, "idle") /\ ~swept
  /\ swept' = TRUE
  /\ Turn(d, [DeskIdle EXCEPT !.pc = "scan"])
  /\ UNCHANGED <<sub, usage, had, given, visits>>

Scan(d) ==
  LET n == desk[d].stage
  IN  /\ DeskAt(d, "scan")
      /\ Turn(d, IF n > Len(Stages) THEN DeskIdle ELSE [desk[d] EXCEPT !.pc = "sweep", !.list = Listed(Stages[n])])
      /\ UNCHANGED <<sub, usage, had, given, swept, visits>>

NextStage(d) ==
  /\ DeskAt(d, "sweep") /\ desk[d].list = {}
  /\ Turn(d, [desk[d] EXCEPT !.pc = "scan", !.stage = @ + 1])
  /\ UNCHANGED <<sub, usage, had, given, swept, visits>>

(* The pending package is the one the list was read with.                  *)
SweepOne(d, e) ==
  LET stage == Stages[desk[d].stage]
      left  == desk[d].list \ {e}
  IN  /\ DeskAt(d, "sweep") /\ e \in desk[d].list
      /\ Turn(d, IF stage = "changes" \/ Target(stage) \in SubscriptionTransitions(sub[e[1]].status)
                   THEN [desk[d] EXCEPT !.pc = "move", !.id = e[1], !.list = left, !.package = e[2]]
                   ELSE [desk[d] EXCEPT !.list = left])
      /\ UNCHANGED <<sub, usage, had, given, swept, visits>>

(* Mutant: the package changes and stays scheduled. *)
ChangeAgain(s, p) ==
  /\ Write(s, [sub[s] EXCEPT !.package = p])
  /\ had' = had \cup {p}

(* changeSubscriptionPackage, at once.                                     *)
Change(s, p) ==
  /\ Write(s, [sub[s] EXCEPT !.package = p, !.pending = NoPackage])
  /\ had' = had \cup {p}

Move(d) ==
  LET s     == desk[d].id
      stage == Stages[desk[d].stage]
  IN  /\ DeskAt(d, "move")
      /\ \/ stage = "changes" /\ Change(s, desk[d].package)
         \/ stage # "changes" /\ Write(s, [sub[s] EXCEPT !.status = Target(stage)]) /\ UNCHANGED had
      /\ Turn(d, [desk[d] EXCEPT !.pc = "sweep", !.package = NoPackage])
      /\ UNCHANGED <<usage, given, swept, visits>>

-----------------------------------------------------------------------------
(* The member cancels: the status, then the renewal *)

BeginCancelSub(d, s) ==
  /\ "CANCELLED" \in SubscriptionTransitions(sub[s].status)
  /\ Visit(d, [DeskIdle EXCEPT !.pc = "cancel", !.id = s])

CancelSub(d) ==
  /\ DeskAt(d, "cancel")
  /\ Write(desk[d].id, [sub[desk[d].id] EXCEPT !.status = "CANCELLED"])
  /\ Turn(d, [desk[d] EXCEPT !.pc = "stopRenewal"])
  /\ UNCHANGED <<usage, had, given, swept, visits>>

StopRenewal(d) ==
  /\ DeskAt(d, "stopRenewal")
  /\ Write(desk[d].id, [sub[desk[d].id] EXCEPT !.autoRenew = FALSE])
  /\ Turn(d, DeskIdle)
  /\ UNCHANGED <<usage, had, given, swept, visits>>

(* The member changes the package, at once or (next) with the next cycle.  *)
BeginChange(d, s, p, next) ==
  /\ Entitled(s)
  /\ Visit(d, [DeskIdle EXCEPT !.pc = "change", !.id = s, !.package = p, !.next = next])

ChangePackage(d) ==
  LET s == desk[d].id
      p == desk[d].package
  IN  /\ DeskAt(d, "change")
      /\ \/ desk[d].next /\ Write(s, [sub[s] EXCEPT !.pending = p]) /\ UNCHANGED had
         \/ ~desk[d].next /\ Change(s, p)
      /\ Turn(d, DeskIdle)
      /\ UNCHANGED <<usage, given, swept, visits>>

(* grantReward, FREE_DAYS: both dates move by the days given, if there are any. *)
BeginReward(d, s) == Entitled(s) /\ sub[s].phase # "undated" /\ Visit(d, [DeskIdle EXCEPT !.pc = "reward", !.id = s])

Extend(d) ==
  /\ DeskAt(d, "reward")
  /\ Write(desk[d].id, [sub[desk[d].id] EXCEPT !.phase = "running"])
  /\ given' = given \cup {desk[d].id}
  /\ Turn(d, DeskIdle)
  /\ UNCHANGED <<usage, had, swept, visits>>

(* consumeUsage reads the limit of some subscription that counts, then     *)
(* creates the period's row or increments it below that limit.             *)
BeginUse(d, s) == Entitled(s) /\ Visit(d, [DeskIdle EXCEPT !.pc = "use", !.limit = LimitOf[sub[s].package]])

(* Mutant: the counter is incremented without comparing it. *)
UseBlindly(d) == DeskAt(d, "use") /\ usage' = usage + 1 /\ Turn(d, DeskIdle) /\ UNCHANGED <<sub, had, given, swept, visits>>

consumeUsage(d) ==
  /\ DeskAt(d, "use")
  /\ usage' = IF usage = 0 \/ usage < desk[d].limit THEN usage + 1 ELSE usage
  /\ Turn(d, DeskIdle)
  /\ UNCHANGED <<sub, had, given, swept, visits>>

-----------------------------------------------------------------------------
KillDesk(d) ==
  /\ ~DeskAt(d, "idle") /\ visits < MaxVisits
  /\ visits' = visits + 1
  /\ Turn(d, DeskIdle)
  /\ UNCHANGED <<sub, usage, had, given, swept>>

Older(phase) == CASE phase = "undated" -> phase [] phase = "running" -> "due" [] OTHER -> "late"

(* A day or more passes, and with it the next date of some subscriptions.  *)
DaysPass(S) ==
  /\ \A d \in Desks : DeskAt(d, "idle")
  /\ swept' = FALSE
  /\ sub' = [s \in Subs |-> IF s \in S /\ sub[s].status # NoSub THEN [sub[s] EXCEPT !.phase = Older(@)] ELSE sub[s]]
  /\ UNCHANGED <<usage, had, given, visits, desk>>

DeskWork(d) ==
  \/ Scan(d) \/ NextStage(d) \/ \E e \in desk[d].list : SweepOne(d, e)
  \/ Move(d) \/ CancelSub(d) \/ StopRenewal(d) \/ ChangePackage(d) \/ Extend(d) \/ consumeUsage(d)

MemNext ==
  \/ \E s \in Subs, p \in Packages, trial \in BOOLEAN : activateSubscription(s, p, trial)
  \/ \E d \in Desks :
       \/ BeginRenewals(d) \/ DeskWork(d) \/ KillDesk(d)
       \/ Visit(d, [DeskIdle EXCEPT !.pc = "scan"])          \* the sweep, run by an administrator
       \/ \E s \in Subs :
            \/ BeginCancelSub(d, s) \/ BeginReward(d, s) \/ BeginUse(d, s)
            \/ \E p \in Packages, next \in BOOLEAN : BeginChange(d, s, p, next)
  \/ \E S \in SUBSET Subs : DaysPass(S)

MemSpec == MemInit /\ [][MemNext]_memVars

(* Handlers go on, the platform runs the sweep every day, and days pass.   *)
MemFairness ==
  /\ SF_memVars(DaysPass(Subs))
  /\ WF_memVars(\E d \in Desks : BeginRenewals(d)) /\ \A d \in Desks : WF_memVars(DeskWork(d))

FairMemSpec == MemSpec /\ MemFairness

-----------------------------------------------------------------------------
(* Properties *)

MemTypeOK ==
  /\ sub \in [Subs -> Subscription]
  /\ usage \in Nat /\ visits \in 0..MaxVisits
  /\ had \subseteq Packages /\ given \subseteq Subs
  /\ swept \in BOOLEAN
  /\ desk \in [Desks -> Desk]

(* entitlements.ts:54-57: simultaneous requests never use a feature more   *)
(* often than the member's packages allow, while the package changes and   *)
(* memberships start and end around them.  The first use of a period is    *)
(* compared with no limit (lines 79-81), so a limit of 0 allows one use.   *)
UsageWithinLimit == usage > 0 => \E p \in had : usage = 1 \/ usage <= LimitOf[p]

(* runDueSubscriptionRenewals: nobody falls behind before the renewal date *)
(* or loses the membership before the grace period is over, however sweeps *)
(* overlap, except where days were given while a sweep was at it.          *)
NotLapsedEarly ==
  \A s \in Subs \ given :
    /\ sub[s].status \in {"PAST_DUE", "GRACE_PERIOD"} => sub[s].phase \in {"due", "late"}
    /\ sub[s].status = "EXPIRED" => sub[s].phase = "late"

(* A membership that is not paid again ends, whatever cancellations, sweeps, *)
(* package changes and rewards overlap, except one that began as a trial or *)
(* was sold without a duration.                                            *)
MembershipEnds == \A s \in Subs : <>[](Entitled(s) => sub[s].trial \/ sub[s].phase = "undated")

(* A package change scheduled for the next cycle of a membership that has  *)
(* cycles does not stay scheduled while the package it asks for is on sale: *)
(* one to a package taken off sale is kept for an administrator to look at *)
(* (subscription.ts:181-183).                                              *)
ScheduledChangeHappens == \A s \in Subs : []<>(sub[s].phase = "undated" \/ sub[s].pending = NoPackage)
=============================================================================
