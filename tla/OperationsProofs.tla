--------------------------- MODULE OperationsProofs ---------------------------
(***************************************************************************)
(* What holds of memberships and of the task board for every number of     *)
(* subscriptions, packages, tasks and handlers, and the types of the whole *)
(* of the daily tick's work: job queue, memberships and tasks.             *)
(***************************************************************************)
EXTENDS MCOperations, JobQueueProofs, FiniteSetTheorems

-----------------------------------------------------------------------------
(* Memberships.  A sweep acts on lists it has read before, so what it may  *)
(* do to a subscription has to follow from what was true when the list was *)
(* read: dates come nearer and nearer, and only days given push them back. *)

(* A subscription on the list of the n-th stage is behind enough for what  *)
(* the stage writes, now as when the list was read, or was given days.     *)
Behind(n, s) ==
  \/ n = 1
  \/ /\ sub[s].status # NoSub
     /\ \/ s \in given
        \/ n \in {2, 3} /\ sub[s].phase \in {"due", "late"}
        \/ n = 4 /\ sub[s].phase = "late"

DeskInv(d) ==
  /\ desk[d].pc \in {"sweep", "move"} =>
       /\ desk[d].stage \in 1..4
       /\ \A e \in desk[d].list : Behind(desk[d].stage, e[1]) /\ (desk[d].stage = 1 => e[2] \in Packages)
  /\ desk[d].pc = "move" => Behind(desk[d].stage, desk[d].id) /\ (desk[d].stage = 1 => desk[d].package \in Packages)
  /\ desk[d].pc = "cancel" => sub[desk[d].id].status # NoSub
  /\ desk[d].pc = "change" => desk[d].package \in Packages
  /\ desk[d].pc = "use" => \E p \in had : desk[d].limit = LimitOf[p]

MemInv ==
  /\ MemTypeOK
  /\ \A d \in Desks : DeskInv(d)
  /\ \A s \in Subs : sub[s].status # NoSub => sub[s].package \in had
  /\ UsageWithinLimit /\ NotLapsedEarly

OtherDesks(d) == \A e \in Desks \ {d} : desk'[e] = desk[e]
OtherSubs(s)  == \A i \in Subs \ {s} : sub'[i] = sub[i]

(* Dates come nearer, except those of a subscription that is given days,   *)
(* and no subscription is deleted.                                         *)
NoneBack ==
  /\ given \subseteq given' /\ had \subseteq had'
  /\ \A s \in Subs : sub[s].status # NoSub => sub'[s].status # NoSub
  /\ \A s \in Subs : \/ s \in given'
                     \/ sub[s].status = NoSub
                     \/ sub'[s].phase = sub[s].phase
                     \/ sub'[s].phase = Older(sub[s].phase)

LEMMA IdleDesk == DeskIdle \in Desk /\ DeskIdle.pc = "idle" /\ AnyPackage \in Packages
<1>1. AnySub \in Subs /\ AnyPackage \in Packages
  BY MembershipConstants DEF AnySub, AnyPackage
<1> QED
  BY <1>1 DEF DeskIdle, Desk

LEMMA TurnEffect ==
  ASSUME MemTypeOK, NEW d \in Desks, NEW state \in Desk, Turn(d, state)
  PROVE  desk' \in [Desks -> Desk] /\ desk'[d] = state /\ OtherDesks(d)
BY DEF Turn, MemTypeOK, OtherDesks

LEMMA SubWritten ==
  ASSUME MemTypeOK, NEW s \in Subs, NEW row \in Subscription, Write(s, row)
  PROVE  sub' \in [Subs -> Subscription] /\ sub'[s] = row /\ OtherSubs(s)
BY DEF Write, MemTypeOK, OtherSubs

LEMMA DeskKnown ==
  ASSUME MemTypeOK, NEW d \in Desks
  PROVE  /\ desk[d] \in Desk /\ desk[d].id \in Subs /\ sub[desk[d].id] \in Subscription
         /\ desk[d].list \subseteq Subs \X (Packages \cup {NoPackage}) /\ desk[d].stage \in 1..5
         /\ desk[d].package \in Packages \cup {NoPackage} /\ desk[d].limit \in Nat
BY DEF MemTypeOK, Desk

LEMMA StageNames ==
  /\ Len(Stages) = 4 /\ Stages[1] = "changes" /\ Stages[2] = "dues" /\ Stages[3] = "graces" /\ Stages[4] = "ends"
BY DEF Stages

(* What the other desks rely on stays true.                                *)
LEMMA DeskStays ==
  ASSUME MemInv, NEW d \in Desks, desk'[d] = desk[d], NoneBack
  PROVE  DeskInv(d)'
<1>1. \A n, s : s \in Subs /\ Behind(n, s) => Behind(n, s)'
  BY DEF Behind, NoneBack, Older
<1>2. \A e \in desk[d].list : e[1] \in Subs
  BY DeskKnown DEF MemInv
<1> QED
  BY <1>1, <1>2, DeskKnown DEF MemInv, DeskInv, NoneBack

(* The invariant after a step of one desk.                                 *)
LEMMA MemKept ==
  ASSUME MemInv, NEW d \in Desks, MemTypeOK', OtherDesks(d), NoneBack, DeskInv(d)',
         (\A s \in Subs : sub[s].status # NoSub => sub[s].package \in had)', UsageWithinLimit', NotLapsedEarly'
  PROVE  MemInv'
<1>1. \A e \in Desks : DeskInv(e)'
  BY DeskStays DEF OtherDesks
<1> QED
  BY <1>1 DEF MemInv

(* A step of one desk that writes no subscription.                         *)
LEMMA OnlyDesk ==
  ASSUME MemInv, NEW d \in Desks, NEW state \in Desk, Turn(d, state), UNCHANGED <<sub, usage, had, given>>,
         swept' \in BOOLEAN, visits' \in 0..MaxVisits, DeskInv(d)'
  PROVE  MemInv'
<1>1. MemTypeOK' /\ OtherDesks(d)
  BY TurnEffect DEF MemInv, MemTypeOK
<1>2. NoneBack /\ UsageWithinLimit' /\ NotLapsedEarly' /\ (\A s \in Subs : sub[s].status # NoSub => sub[s].package \in had)'
  BY DEF MemInv, NoneBack, UsageWithinLimit, NotLapsedEarly
<1> QED
  BY <1>1, <1>2, MemKept

LEMMA VisitsType == ASSUME MemTypeOK, visits < MaxVisits PROVE visits + 1 \in 0..MaxVisits
BY MembershipConstants DEF MemTypeOK

LEMMA StartStep ==
  ASSUME MemInv, NEW d \in Desks,
         \/ BeginRenewals(d) \/ KillDesk(d) \/ Visit(d, [DeskIdle EXCEPT !.pc = "scan"])
         \/ \E s \in Subs : BeginCancelSub(d, s) \/ BeginReward(d, s)
  PROVE  MemInv'
<1> DEFINE goes(pc, s) == [DeskIdle EXCEPT !.pc = pc, !.id = s]
           scan == [DeskIdle EXCEPT !.pc = "scan"]
<1>1. \A pc \in {"cancel", "reward"}, s \in Subs : goes(pc, s) \in Desk /\ goes(pc, s).pc = pc /\ goes(pc, s).id = s
  BY IdleDesk DEF Desk
<1>2. scan \in Desk /\ scan.pc = "scan"
  BY IdleDesk DEF Desk
<1>3. \/ Turn(d, scan) \/ Turn(d, DeskIdle)
      \/ \E pc \in {"cancel", "reward"}, s \in Subs : Turn(d, goes(pc, s)) /\ (pc = "cancel" => sub[s].status # NoSub)
  BY DEF BeginRenewals, KillDesk, Visit, BeginCancelSub, BeginReward, SubscriptionTransitions, NoSub
<1>4. /\ UNCHANGED <<sub, usage, had, given>> /\ swept' \in BOOLEAN
      /\ visits' = visits \/ (visits < MaxVisits /\ visits' = visits + 1)
  BY DEF BeginRenewals, KillDesk, Visit, BeginCancelSub, BeginReward, MemInv, MemTypeOK
<1>5. visits' \in 0..MaxVisits
  BY <1>4, VisitsType DEF MemInv, MemTypeOK
<1> HIDE DEF goes, scan
<1>6. PICK state \in Desk : /\ Turn(d, state) /\ state.pc \in {"scan", "idle", "cancel", "reward"}
                            /\ state.pc = "cancel" => sub[state.id].status # NoSub
  BY <1>1, <1>2, <1>3, IdleDesk
<1>7. DeskInv(d)'
  BY <1>4, <1>6, TurnEffect DEF DeskInv, MemInv
<1> QED
  BY <1>4, <1>5, <1>6, <1>7, OnlyDesk

LEMMA BeginChangeStep ==
  ASSUME MemInv, NEW d \in Desks, NEW s \in Subs, NEW p \in Packages, NEW next \in BOOLEAN, BeginChange(d, s, p, next)
  PROVE  MemInv'
<1> DEFINE state == [DeskIdle EXCEPT !.pc = "change", !.id = s, !.package = p, !.next = next]
<1>1. state \in Desk /\ state.pc = "change" /\ state.package = p
  BY IdleDesk DEF Desk
<1>2. Turn(d, state) /\ UNCHANGED <<sub, usage, had, given, swept>> /\ visits' = visits + 1 /\ visits < MaxVisits
  BY DEF BeginChange, Visit
<1> HIDE DEF state
<1>3. DeskInv(d)'
  BY <1>1, <1>2, TurnEffect DEF DeskInv, MemInv
<1> QED
  BY <1>1, <1>2, <1>3, OnlyDesk, VisitsType DEF MemInv, MemTypeOK

LEMMA BeginUseStep ==
  ASSUME MemInv, NEW d \in Desks, NEW s \in Subs, BeginUse(d, s)
  PROVE  MemInv'
<1> DEFINE limit == LimitOf[sub[s].package]
           state == [DeskIdle EXCEPT !.pc = "use", !.limit = limit]
<1>1. sub[s].package \in had /\ had \subseteq Packages
  BY DEF BeginUse, Entitled, NoSub, MemInv, MemTypeOK
<1>2. limit \in Nat
  BY <1>1, MembershipConstants
<1>3. state \in Desk /\ state.pc = "use" /\ state.limit = limit
  BY <1>2, IdleDesk DEF Desk
<1>4. Turn(d, state) /\ UNCHANGED <<sub, usage, had, given, swept>> /\ visits' = visits + 1 /\ visits < MaxVisits
  BY DEF BeginUse, Visit
<1> HIDE DEF state
<1>5. DeskInv(d)'
  BY <1>1, <1>3, <1>4, TurnEffect DEF DeskInv, MemInv
<1> QED
  BY <1>3, <1>4, <1>5, OnlyDesk, VisitsType DEF MemInv, MemTypeOK

LEMMA ScanStep ==
  ASSUME MemInv, NEW d \in Desks, Scan(d)
  PROVE  MemInv'
<1>0. desk[d].stage \in 1..5 /\ Len(Stages) = 4
  BY DeskKnown, StageNames DEF MemInv
<1> DEFINE n      == desk[d].stage
           listed == Listed(Stages[n])
           state  == [desk[d] EXCEPT !.pc = "sweep", !.list = listed]
<1>1. CASE n = 5
  <2>1. Turn(d, DeskIdle) /\ UNCHANGED <<sub, usage, had, given, swept, visits>>
    BY <1>0, <1>1 DEF Scan
  <2>2. DeskInv(d)'
    BY <2>1, IdleDesk, TurnEffect DEF DeskInv, MemInv
  <2> QED
    BY <2>1, <2>2, IdleDesk, OnlyDesk DEF MemInv, MemTypeOK
<1>2. CASE n \in 1..4
  <2>1. Turn(d, state) /\ UNCHANGED <<sub, usage, had, given, swept, visits>>
    BY <1>0, <1>2 DEF Scan
  <2>2. listed \subseteq Subs \X (Packages \cup {NoPackage})
    BY DEF Listed, MemInv, MemTypeOK, Subscription
  <2>3. state \in Desk /\ state.pc = "sweep" /\ state.stage = n /\ state.list = listed
    BY <2>2, DeskKnown DEF Desk, MemInv
  <2>4. ASSUME NEW e \in listed PROVE Behind(n, e[1]) /\ (n = 1 => e[2] \in Packages)
    <3>1. PICK s \in Subs : e = <<s, sub[s].pending>> /\ InState(Stages[n], s) /\ InTime(Stages[n], sub[s].phase)
      BY <2>4 DEF Listed
    <3>2. sub[s] \in Subscription /\ (s \notin given => (sub[s].status = "PAST_DUE" => sub[s].phase \in {"due", "late"}))
      BY DEF MemInv, MemTypeOK, NotLapsedEarly
    <3>3. CASE n = 1
      BY <3>1, <3>2, <3>3, StageNames DEF Behind, InState, Subscription
    <3>4. CASE n = 2
      BY <3>1, <3>4, StageNames DEF Behind, InState, InTime, NoSub
    <3>5. CASE n = 3
      BY <3>1, <3>2, <3>5, StageNames DEF Behind, InState, NoSub
    <3>6. CASE n = 4
      BY <3>1, <3>6, StageNames DEF Behind, InState, InTime, NoSub
    <3> QED
      BY <1>2, <3>3, <3>4, <3>5, <3>6
  <2>5. PICK k \in 1..4 : k = n
    BY <1>2
  <2>6. PICK L \in SUBSET (Subs \X (Packages \cup {NoPackage})) : L = listed
    BY <2>2
  <2>7. PICK row \in Desk : Turn(d, row) /\ row.pc = "sweep" /\ row.stage = k /\ row.list = L
    BY <2>1, <2>3, <2>5, <2>6
  <2>8. \A e \in L : Behind(k, e[1])' /\ (k = 1 => e[2] \in Packages)
    BY <2>1, <2>4, <2>5, <2>6 DEF Behind
  <2>9. DeskInv(d)'
    BY <2>7, <2>8, TurnEffect DEF DeskInv, MemInv
  <2> QED
    BY <2>1, <2>3, <2>9, OnlyDesk DEF MemInv, MemTypeOK
<1> QED
  BY <1>0, <1>1, <1>2

LEMMA NextStageStep ==
  ASSUME MemInv, NEW d \in Desks, NextStage(d)
  PROVE  MemInv'
<1>1. desk[d].stage \in 1..4 /\ desk[d] \in Desk
  BY DeskKnown DEF NextStage, DeskAt, MemInv, DeskInv
<1> DEFINE stage == desk[d].stage + 1
           state == [desk[d] EXCEPT !.pc = "scan", !.stage = stage]
<1>2. stage \in 1..5
  BY <1>1
<1>3. Turn(d, state) /\ UNCHANGED <<sub, usage, had, given, swept, visits>>
  BY DEF NextStage
<1> HIDE DEF stage
<1>4. state \in Desk /\ state.pc = "scan"
  BY <1>1, <1>2 DEF Desk
<1> HIDE DEF state
<1>5. DeskInv(d)'
  BY <1>3, <1>4, TurnEffect DEF DeskInv, MemInv
<1> QED
  BY <1>3, <1>4, <1>5, OnlyDesk DEF MemInv, MemTypeOK

LEMMA SweepOneStep ==
  ASSUME MemInv, NEW d \in Desks, NEW e \in desk[d].list, SweepOne(d, e)
  PROVE  MemInv'
<1> DEFINE left == desk[d].list \ {e}
           goes == [desk[d] EXCEPT !.pc = "move", !.id = e[1], !.list = left, !.package = e[2]]
           skip == [desk[d] EXCEPT !.list = left]
<1>1. /\ desk[d].pc = "sweep" /\ (Turn(d, goes) \/ Turn(d, skip))
      /\ UNCHANGED <<sub, usage, had, given, swept, visits>>
  BY DEF SweepOne, DeskAt
<1>2. /\ desk[d] \in Desk /\ e[1] \in Subs /\ e[2] \in Packages \cup {NoPackage}
      /\ left \subseteq Subs \X (Packages \cup {NoPackage})
  BY DeskKnown DEF MemInv
<1>3. /\ goes \in Desk /\ goes.pc = "move" /\ goes.id = e[1] /\ goes.list = left /\ goes.package = e[2]
      /\ goes.stage = desk[d].stage
      /\ skip \in Desk /\ skip.pc = desk[d].pc /\ skip.list = left /\ skip.stage = desk[d].stage
  BY <1>2 DEF Desk
<1>4. /\ desk[d].stage \in 1..4
      /\ \A i \in desk[d].list : Behind(desk[d].stage, i[1]) /\ (desk[d].stage = 1 => i[2] \in Packages)
  BY <1>1 DEF MemInv, DeskInv
<1>5. PICK n \in 1..4 : n = desk[d].stage
  BY <1>4
<1>6. PICK state \in Desk : /\ Turn(d, state) /\ state.stage = n /\ state.pc \in {"sweep", "move"}
                            /\ state.list \subseteq desk[d].list
                            /\ state.pc = "move" => state.id = e[1] /\ state.package = e[2]
  <2> HIDE DEF goes, skip
  <2> QED
    BY <1>1, <1>3, <1>5
<1>7. \A i \in desk[d].list : Behind(n, i[1])' /\ (n = 1 => i[2] \in Packages)
  BY <1>1, <1>4, <1>5 DEF Behind
<1>8. PICK L : L = desk[d].list
  OBVIOUS
<1>9. DeskInv(d)'
  BY <1>6, <1>7, <1>8, TurnEffect DEF DeskInv, MemInv
<1> QED
  BY <1>1, <1>6, <1>9, OnlyDesk DEF MemInv, MemTypeOK

(* The writes of a subscription: the package written is one the member has *)
(* had, and the status is no further behind than the dates are.            *)
LEMMA RowStep ==
  ASSUME MemInv, NEW d \in Desks, NEW state \in Desk, Turn(d, state), NEW s \in Subs, NEW row \in Subscription, Write(s, row),
         UNCHANGED <<usage, swept, visits>>,
         had' \in SUBSET Packages, given' \in SUBSET Subs, had \subseteq had', given \subseteq given',
         s \in given' \/ row.phase = sub[s].phase, sub[s].status # NoSub => row.status # NoSub,
         row.status # NoSub => row.package \in had',
         s \notin given' => /\ row.status \in {"PAST_DUE", "GRACE_PERIOD"} => row.phase \in {"due", "late"}
                            /\ row.status = "EXPIRED" => row.phase = "late",
         DeskInv(d)'
  PROVE  MemInv'
<1>1. desk' \in [Desks -> Desk] /\ OtherDesks(d) /\ sub' \in [Subs -> Subscription] /\ sub'[s] = row /\ OtherSubs(s)
  BY TurnEffect, SubWritten DEF MemInv
<1>2. MemTypeOK'
  BY <1>1 DEF MemInv, MemTypeOK
<1>3. NoneBack
  BY <1>1 DEF NoneBack, OtherSubs
<1>4. (\A i \in Subs : sub[i].status # NoSub => sub[i].package \in had)'
  BY <1>1 DEF MemInv, OtherSubs
<1>5. NotLapsedEarly'
  BY <1>1 DEF MemInv, OtherSubs, NotLapsedEarly
<1>6. UsageWithinLimit'
  BY DEF MemInv, UsageWithinLimit
<1> QED
  BY <1>1, <1>2, <1>3, <1>4, <1>5, <1>6, MemKept

(* What is known of a row that is there or is not.                         *)
LEMMA RowKnown ==
  ASSUME MemInv, NEW s \in Subs
  PROVE  /\ sub[s] \in Subscription /\ (sub[s].status # NoSub => sub[s].package \in had)
         /\ s \notin given => /\ sub[s].status \in {"PAST_DUE", "GRACE_PERIOD"} => sub[s].phase \in {"due", "late"}
                              /\ sub[s].status = "EXPIRED" => sub[s].phase = "late"
         /\ had \in SUBSET Packages /\ given \in SUBSET Subs
BY DEF MemInv, MemTypeOK, NotLapsedEarly

LEMMA MoveStep ==
  ASSUME MemInv, NEW d \in Desks, Move(d)
  PROVE  MemInv'
<1>0. /\ desk[d].pc = "move" /\ desk[d] \in Desk /\ desk[d].id \in Subs /\ desk[d].stage \in 1..4
      /\ Behind(desk[d].stage, desk[d].id) /\ (desk[d].stage = 1 => desk[d].package \in Packages)
  BY DeskKnown DEF Move, DeskAt, MemInv, DeskInv
<1>1. PICK s \in Subs, n \in 1..4 : s = desk[d].id /\ n = desk[d].stage
  BY <1>0
<1> DEFINE state  == [desk[d] EXCEPT !.pc = "sweep", !.package = NoPackage]
           change(p) == [sub[s] EXCEPT !.package = p, !.pending = NoPackage]
           behind(status) == [sub[s] EXCEPT !.status = status]
<1>2. state \in Desk /\ state.pc = "sweep" /\ state.stage = n /\ state.list = desk[d].list
  BY <1>0, <1>1 DEF Desk
<1>3. Turn(d, state) /\ UNCHANGED <<usage, given, swept, visits>>
  BY DEF Move
<1> HIDE DEF state
<1>4. ASSUME NoneBack PROVE DeskInv(d)'
  <2>1. \A e \in desk[d].list : Behind(n, e[1]) /\ (n = 1 => e[2] \in Packages) /\ e[1] \in Subs
    BY <1>0, <1>1, DeskKnown DEF MemInv, DeskInv
  <2>2. PICK L : L = desk[d].list
    OBVIOUS
  <2>3. desk'[d] = state
    BY <1>2, <1>3, TurnEffect DEF MemInv
  <2>4. \A e \in L : Behind(n, e[1])' /\ (n = 1 => e[2] \in Packages)
    BY <1>4, <2>1, <2>2 DEF Behind, NoneBack, Older
  <2> QED
    BY <1>2, <2>2, <2>3, <2>4 DEF DeskInv
<1>5. CASE n = 1
  <2>1. PICK p \in Packages : p = desk[d].package
    BY <1>0, <1>1, <1>5
  <2>2. Write(s, change(p)) /\ had' = had \cup {p}
    BY <1>1, <1>5, <2>1, StageNames DEF Move, Change
  <2>3. /\ change(p) \in Subscription /\ change(p).package = p
        /\ change(p).phase = sub[s].phase /\ change(p).status = sub[s].status
    BY RowKnown DEF Subscription
  <2> HIDE DEF change
  <2>4. NoneBack
    BY <1>3, <2>2, <2>3, SubWritten DEF MemInv, NoneBack, OtherSubs
  <2> QED
    BY <1>2, <1>3, <1>4, <2>2, <2>3, <2>4, RowKnown, RowStep
<1>6. CASE n \in 2..4
  <2>1. PICK status \in {"PAST_DUE", "GRACE_PERIOD", "EXPIRED"} :
          /\ status = "EXPIRED" <=> n = 4
          /\ Write(s, behind(status)) /\ had' = had
    BY <1>1, <1>6, StageNames DEF Move, Target
  <2>2. /\ behind(status) \in Subscription /\ behind(status).package = sub[s].package
        /\ behind(status).phase = sub[s].phase /\ behind(status).status = status
    BY RowKnown DEF Subscription, SubStatus
  <2> HIDE DEF behind
  <2>3. NoneBack
    BY <1>3, <2>1, <2>2, SubWritten DEF MemInv, NoneBack, OtherSubs, NoSub
  <2>4. /\ sub[s].status # NoSub
        /\ s \notin given => /\ n \in {2, 3} => sub[s].phase \in {"due", "late"}
                             /\ n = 4 => sub[s].phase = "late"
    BY <1>0, <1>1, <1>6 DEF Behind
  <2> QED
    BY <1>2, <1>3, <1>4, <1>6, <2>1, <2>2, <2>3, <2>4, RowKnown, RowStep DEF NoSub
<1> QED
  BY <1>5, <1>6

LEMMA CancelSubStep ==
  ASSUME MemInv, NEW d \in Desks, CancelSub(d) \/ StopRenewal(d)
  PROVE  MemInv'
<1>0. PICK s \in Subs : s = desk[d].id
  BY DeskKnown DEF MemInv
<1> DEFINE stops  == [desk[d] EXCEPT !.pc = "stopRenewal"]
           ended  == [sub[s] EXCEPT !.status = "CANCELLED"]
           manual == [sub[s] EXCEPT !.autoRenew = FALSE]
<1>1. stops \in Desk /\ stops.pc = "stopRenewal"
  BY DeskKnown DEF Desk, MemInv
<1>2. /\ ended \in Subscription /\ ended.status = "CANCELLED" /\ ended.phase = sub[s].phase /\ ended.package = sub[s].package
      /\ manual \in Subscription /\ manual.status = sub[s].status /\ manual.phase = sub[s].phase
      /\ manual.package = sub[s].package
  BY RowKnown DEF Subscription, SubStatus
<1>3. /\ UNCHANGED <<usage, had, given, swept, visits>>
      /\ \/ Turn(d, stops) /\ Write(s, ended) /\ sub[s].status # NoSub
         \/ Turn(d, DeskIdle) /\ Write(s, manual)
  BY <1>0 DEF CancelSub, StopRenewal, DeskAt, MemInv, DeskInv
<1> HIDE DEF stops, ended, manual
<1>4. DeskInv(d)'
  BY <1>1, <1>3, IdleDesk, TurnEffect DEF DeskInv, MemInv
<1>5. CASE Turn(d, stops) /\ Write(s, ended) /\ sub[s].status # NoSub
  BY <1>1, <1>2, <1>3, <1>4, <1>5, RowKnown, RowStep DEF NoSub
<1>6. CASE Turn(d, DeskIdle) /\ Write(s, manual)
  BY <1>2, <1>3, <1>4, <1>6, IdleDesk, RowKnown, RowStep
<1> QED
  BY <1>3, <1>5, <1>6

LEMMA ChangeStep ==
  ASSUME MemInv, NEW d \in Desks, ChangePackage(d)
  PROVE  MemInv'
<1>0. PICK s \in Subs, p \in Packages : s = desk[d].id /\ p = desk[d].package
  BY DeskKnown DEF ChangePackage, DeskAt, MemInv, DeskInv
<1> DEFINE later == [sub[s] EXCEPT !.pending = p]
           now   == [sub[s] EXCEPT !.package = p, !.pending = NoPackage]
<1>1. /\ later \in Subscription /\ later.status = sub[s].status /\ later.phase = sub[s].phase
      /\ later.package = sub[s].package
      /\ now \in Subscription /\ now.status = sub[s].status /\ now.phase = sub[s].phase /\ now.package = p
  BY RowKnown DEF Subscription
<1>2. /\ UNCHANGED <<usage, given, swept, visits>> /\ Turn(d, DeskIdle)
      /\ \/ Write(s, later) /\ had' = had
         \/ Write(s, now) /\ had' = had \cup {p}
  BY <1>0 DEF ChangePackage, Change
<1> HIDE DEF later, now
<1>3. DeskInv(d)'
  BY <1>2, IdleDesk, TurnEffect DEF DeskInv, MemInv
<1>4. CASE Write(s, later) /\ had' = had
  BY <1>1, <1>2, <1>3, <1>4, IdleDesk, RowKnown, RowStep
<1>5. CASE Write(s, now) /\ had' = had \cup {p}
  BY <1>1, <1>2, <1>3, <1>5, IdleDesk, RowKnown, RowStep
<1> QED
  BY <1>2, <1>4, <1>5

LEMMA ExtendStep ==
  ASSUME MemInv, NEW d \in Desks, Extend(d)
  PROVE  MemInv'
<1>0. PICK s \in Subs : s = desk[d].id
  BY DeskKnown DEF MemInv
<1> DEFINE row == [sub[s] EXCEPT !.phase = "running"]
<1>1. row \in Subscription /\ row.status = sub[s].status /\ row.package = sub[s].package
  BY RowKnown DEF Subscription, Phases
<1>2. UNCHANGED <<usage, had, swept, visits>> /\ given' = given \cup {s} /\ Turn(d, DeskIdle) /\ Write(s, row)
  BY <1>0 DEF Extend
<1> HIDE DEF row
<1>3. DeskInv(d)'
  BY <1>2, IdleDesk, TurnEffect DEF DeskInv, MemInv
<1> QED
  BY <1>1, <1>2, <1>3, IdleDesk, RowKnown, RowStep

LEMMA UseStep ==
  ASSUME MemInv, NEW d \in Desks, consumeUsage(d)
  PROVE  MemInv'
<1>1. PICK p \in had : desk[d].limit = LimitOf[p]
  BY DEF consumeUsage, DeskAt, MemInv, DeskInv
<1>2. LimitOf[p] \in Nat /\ usage \in Nat
  BY MembershipConstants DEF MemInv, MemTypeOK
<1>3. /\ Turn(d, DeskIdle) /\ UNCHANGED <<sub, had, given, swept, visits>>
      /\ usage' = IF usage = 0 \/ usage < desk[d].limit THEN usage + 1 ELSE usage
  BY DEF consumeUsage
<1>4. usage' \in Nat /\ (usage' = usage \/ usage' = 1 \/ usage' <= LimitOf[p])
  BY <1>1, <1>2, <1>3
<1>5. UsageWithinLimit'
  BY <1>3, <1>4 DEF MemInv, UsageWithinLimit
<1>6. MemTypeOK' /\ OtherDesks(d) /\ DeskInv(d)'
  BY <1>3, <1>4, IdleDesk, TurnEffect DEF MemInv, MemTypeOK, DeskInv
<1>7. NoneBack /\ NotLapsedEarly' /\ (\A s \in Subs : sub[s].status # NoSub => sub[s].package \in had)'
  BY <1>3 DEF MemInv, NoneBack, NotLapsedEarly
<1> QED
  BY <1>5, <1>6, <1>7, MemKept

(* Steps that no desk takes.                                               *)
LEMMA NoDesk ==
  ASSUME MemInv, MemTypeOK', UNCHANGED <<usage, desk>>, NoneBack, NotLapsedEarly',
         (\A s \in Subs : sub[s].status # NoSub => sub[s].package \in had)'
  PROVE  MemInv'
<1>1. \A d \in Desks : DeskInv(d)'
  BY DeskStays
<1>2. UsageWithinLimit'
  BY DEF MemInv, UsageWithinLimit, NoneBack
<1> QED
  BY <1>1, <1>2 DEF MemInv

LEMMA ActivateStep ==
  ASSUME MemInv, NEW s \in Subs, NEW p \in Packages, NEW trial \in BOOLEAN, activateSubscription(s, p, trial)
  PROVE  MemInv'
<1> DEFINE row == [sub[s] EXCEPT !.status = IF trial THEN "TRIAL" ELSE "ACTIVE", !.trial = trial, !.package = p,
                             !.phase = IF p \in OneTime THEN "undated" ELSE "running"]
<1>1. row \in Subscription /\ row.status \in {"TRIAL", "ACTIVE"} /\ row.package = p
  BY RowKnown DEF Subscription, SubStatus, Phases
<1>2. Write(s, row) /\ had' = had \cup {p} /\ UNCHANGED <<usage, given, swept, visits, desk>> /\ sub[s].status = NoSub
  BY DEF activateSubscription
<1> HIDE DEF row
<1>3. sub' \in [Subs -> Subscription] /\ sub'[s] = row /\ OtherSubs(s)
  BY <1>1, <1>2, SubWritten DEF MemInv
<1>4. MemTypeOK'
  BY <1>2, <1>3 DEF MemInv, MemTypeOK
<1>5. NoneBack
  BY <1>1, <1>2, <1>3 DEF NoneBack, OtherSubs
<1>6. NotLapsedEarly' /\ (\A i \in Subs : sub[i].status # NoSub => sub[i].package \in had)'
  BY <1>1, <1>2, <1>3 DEF MemInv, NotLapsedEarly, OtherSubs
<1> QED
  BY <1>2, <1>4, <1>5, <1>6, NoDesk

LEMMA DaysStep ==
  ASSUME MemInv, NEW S \in SUBSET Subs, DaysPass(S)
  PROVE  MemInv'
<1> DEFINE older(s) == [sub[s] EXCEPT !.phase = Older(@)]
<1>1. ASSUME NEW s \in Subs
      PROVE  /\ older(s) \in Subscription /\ older(s).status = sub[s].status /\ older(s).package = sub[s].package
             /\ older(s).phase = Older(sub[s].phase)
  BY RowKnown DEF Subscription, Phases, Older
<1>2. /\ sub' = [s \in Subs |-> IF s \in S /\ sub[s].status # NoSub THEN older(s) ELSE sub[s]]
      /\ swept' = FALSE /\ UNCHANGED <<usage, had, given, visits, desk>>
  BY DEF DaysPass
<1> HIDE DEF older
<1>3. /\ sub' \in [Subs -> Subscription]
      /\ \A s \in Subs : /\ sub'[s].status = sub[s].status /\ sub'[s].package = sub[s].package
                         /\ sub'[s].phase = sub[s].phase \/ sub'[s].phase = Older(sub[s].phase)
  BY <1>1, <1>2, RowKnown
<1>4. MemTypeOK'
  BY <1>2, <1>3 DEF MemInv, MemTypeOK
<1>5. NoneBack /\ NotLapsedEarly' /\ (\A i \in Subs : sub[i].status # NoSub => sub[i].package \in had)'
  BY <1>2, <1>3 DEF MemInv, NoneBack, NotLapsedEarly, Older
<1> QED
  BY <1>2, <1>4, <1>5, NoDesk

LEMMA MemStep == MemInv /\ [MemNext]_memVars => MemInv'
<1> SUFFICES ASSUME MemInv, [MemNext]_memVars PROVE MemInv'
  OBVIOUS
<1>1. ASSUME NEW d \in Desks, DeskWork(d) PROVE MemInv'
  BY <1>1, ScanStep, NextStageStep, SweepOneStep, MoveStep, CancelSubStep, ChangeStep, ExtendStep, UseStep DEF DeskWork
<1>2. ASSUME NEW d \in Desks, BeginRenewals(d) \/ KillDesk(d) \/ Visit(d, [DeskIdle EXCEPT !.pc = "scan"]) PROVE MemInv'
  BY <1>2, StartStep
<1>3. ASSUME NEW d \in Desks, NEW s \in Subs,
             \/ BeginCancelSub(d, s) \/ BeginReward(d, s) \/ BeginUse(d, s)
             \/ \E p \in Packages, next \in BOOLEAN : BeginChange(d, s, p, next)
      PROVE  MemInv'
  BY <1>3, StartStep, BeginUseStep, BeginChangeStep
<1>4. ASSUME NEW s \in Subs, NEW p \in Packages, NEW trial \in BOOLEAN, activateSubscription(s, p, trial) PROVE MemInv'
  BY <1>4, ActivateStep
<1>5. ASSUME NEW S \in SUBSET Subs, DaysPass(S) PROVE MemInv'
  BY <1>5, DaysStep
<1>6. CASE UNCHANGED memVars
  <2>1. MemTypeOK' /\ NoneBack /\ NotLapsedEarly' /\ (\A s \in Subs : sub[s].status # NoSub => sub[s].package \in had)'
    BY <1>6 DEF memVars, MemInv, MemTypeOK, NoneBack, NotLapsedEarly
  <2> QED
    BY <1>6, <2>1, NoDesk DEF memVars
<1> QED
  BY <1>1, <1>2, <1>3, <1>4, <1>5, <1>6 DEF MemNext

LEMMA MemStarts == MemInit => MemInv
<1> SUFFICES ASSUME MemInit PROVE MemInv
  OBVIOUS
<1>1. desk \in [Desks -> Desk] /\ \A d \in Desks : desk[d].pc = "idle"
  BY IdleDesk DEF MemInit
<1>2. sub \in [Subs -> Subscription] /\ \A s \in Subs : sub[s].status = NoSub
  BY IdleDesk DEF MemInit, Subscription, Phases
<1>3. visits \in 0..MaxVisits
  BY MembershipConstants DEF MemInit
<1>4. MemTypeOK
  BY <1>1, <1>2, <1>3 DEF MemInit, MemTypeOK
<1>5. \A d \in Desks : DeskInv(d)
  BY <1>1 DEF DeskInv
<1> QED
  BY <1>2, <1>4, <1>5 DEF MemInit, MemInv, UsageWithinLimit, NotLapsedEarly, NoSub

(* entitlements.ts:54-57: however many requests read the limit together    *)
(* and whatever becomes of the package and the membership meanwhile, a     *)
(* feature is not used more often than a package of the member's allows.   *)
THEOREM UsedWithinLimit == MemSpec => []UsageWithinLimit
<1>1. MemInv => UsageWithinLimit
  BY DEF MemInv
<1> QED
  BY <1>1, MemStarts, MemStep, PTL DEF MemSpec

(* subscription.ts, runDueSubscriptionRenewals: however many sweeps act on *)
(* lists they read before, nobody falls behind before the renewal date or  *)
(* lapses before the end of the grace period, days given apart.            *)
THEOREM LapsesInTime == MemSpec => []NotLapsedEarly
<1>1. MemInv => NotLapsedEarly
  BY DEF MemInv
<1> QED
  BY <1>1, MemStarts, MemStep, PTL DEF MemSpec

-----------------------------------------------------------------------------
(* The task board.  A row that is written was worked out from the row as   *)
(* it was read, and the version says whether it is still that one: a row   *)
(* to be written is a step the table allows from the row of its version.   *)

RowAllowed(w) ==
  LET row == task[hand[w].on]
  IN  /\ row.status # NoTask /\ hand[w].row.status # NoTask
      /\ hand[w].row.version <= row.version
      /\ hand[w].row.version = row.version => ValidMove(row.status, hand[w].row.status)

(* The retries: one handler at most is about to write what became of the   *)
(* event when it was first received, and before that nobody retries.       *)
Refusers == {w \in Hands : HandAt(w, "refuse")}

HandInv(w) ==
  /\ HandAt(w, "write") => RowAllowed(w)
  /\ HandAt(w, "make") => task[hand[w].on].status = NoTask
  /\ \A t \in hand[w].todo : task[t].status # NoTask
  /\ hand[w].pc \in {"look", "processed", "failed"} => hand[w].forEvent
  /\ hand[w].forEvent => event.status = "PENDING" /\ event.attempts = 0
  /\ hand[w].pc \in {"retry", "refuse"} => event.status = "FAILED"
  /\ \A v \in Hands : \/ v = w
                      \/ /\ ~(hand[v].forEvent /\ hand[w].forEvent)
                         /\ ~(HandAt(v, "make") /\ HandAt(w, "make") /\ hand[v].on = hand[w].on)

AttemptsInv ==
  /\ event.status \notin {"FAILED"} => event.attempts = 0
  /\ event.attempts + Cardinality(Refusers) < RetryCap + Cardinality(Hands)

BoardInv == BoardTypeOK /\ (\A w \in Hands : HandInv(w)) /\ AttemptsInv

OtherHands(w) == \A v \in Hands \ {w} : hand'[v] = hand[v]

LEMMA IdleHand == EmptyTask \in Task /\ HandIdle \in Hand
<1>1. AnyTask \in Tasks
  BY BoardConstants DEF AnyTask
<1>2. EmptyTask \in Task
  BY DEF EmptyTask, Task, MAX_ESCALATION_LEVEL, NoTask
<1> QED
  BY <1>1, <1>2 DEF HandIdle, Hand, HandPCs

LEMMA BecomesEffect ==
  ASSUME BoardTypeOK, NEW w \in Hands, NEW state \in Hand, HandBecomes(w, state)
  PROVE  hand' \in [Hands -> Hand] /\ hand'[w] = state /\ OtherHands(w)
BY DEF HandBecomes, BoardTypeOK, OtherHands

LEMMA GoesHand ==
  ASSUME BoardTypeOK, NEW w \in Hands, NEW pc \in HandPCs, HandGoes(w, pc)
  PROVE  /\ hand' \in [Hands -> Hand] /\ OtherHands(w) /\ hand'[w].pc = pc
         /\ hand'[w].on = hand[w].on /\ hand'[w].row = hand[w].row /\ hand'[w].forEvent = hand[w].forEvent
         /\ hand'[w].todo = hand[w].todo
BY DEF HandGoes, HandBecomes, BoardTypeOK, OtherHands, Hand

LEMMA DoneHand ==
  ASSUME BoardTypeOK, NEW w \in Hands, HandDone(w)
  PROVE  /\ hand' \in [Hands -> Hand] /\ OtherHands(w) /\ hand'[w].pc = "idle"
         /\ hand'[w].todo = {} /\ hand'[w].forEvent = FALSE
BY IdleHand DEF HandDone, HandBecomes, BoardTypeOK, OtherHands, HandIdle

LEMMA HandKnown ==
  ASSUME BoardTypeOK, NEW w \in Hands
  PROVE  /\ hand[w] \in Hand /\ hand[w].on \in Tasks /\ hand[w].row \in Task /\ hand[w].todo \subseteq Tasks
         /\ task[hand[w].on] \in Task
BY DEF BoardTypeOK, Hand

LEMMA UsedType ==
  ASSUME BoardTypeOK
  PROVE  /\ Touch => usedUp' \in [touches: 0..MaxTouches, faults: 0..MaxFaults]
         /\ Fault => usedUp' \in [touches: 0..MaxTouches, faults: 0..MaxFaults]
<1>0. usedUp \in [touches: 0..MaxTouches, faults: 0..MaxFaults]
  BY DEF BoardTypeOK
<1>1. ASSUME usedUp.touches < MaxTouches PROVE usedUp.touches + 1 \in 0..MaxTouches
  BY <1>0, <1>1, BoardConstants
<1>2. ASSUME usedUp.faults < MaxFaults PROVE usedUp.faults + 1 \in 0..MaxFaults
  BY <1>0, <1>2, BoardConstants
<1>3. \A n \in 0..MaxTouches : [usedUp EXCEPT !.touches = n] \in [touches: 0..MaxTouches, faults: 0..MaxFaults]
  BY <1>0
<1>4. \A n \in 0..MaxFaults : [usedUp EXCEPT !.faults = n] \in [touches: 0..MaxTouches, faults: 0..MaxFaults]
  BY <1>0
<1> QED
  BY <1>1, <1>2, <1>3, <1>4 DEF Touch, Fault

(* What an operation makes of a row keeps its version and goes where the   *)
(* table allows.                                                           *)
LEMMA ChangeAllowed ==
  ASSUME NEW r \in Task, r.status # NoTask, NEW row \in ChangesOf(r)
  PROVE  row \in Task /\ row.version = r.version /\ row.status # NoTask /\ ValidMove(r.status, row.status)
<1>1. CASE row \in AssignedRow(r)
  BY <1>1 DEF AssignedRow, Task, TaskStatus, ValidMove, NoTask
<1>2. CASE row \in ReassignedRow(r)
  BY <1>2 DEF ReassignedRow, Task, TaskStatus, ValidMove, NoTask
<1>3. CASE row \in EscalatedRow(r)
  BY <1>3 DEF EscalatedRow, Task, TaskStatus, ValidMove, NoTask
<1>4. CASE row \in MovedRow(r)
  BY <1>4 DEF MovedRow, Task, TaskStatus, ValidMove, NoTask
<1>5. CASE row \in EditedRow(r)
  BY <1>5 DEF EditedRow, Task, TaskStatus, ValidMove, NoTask
<1> QED
  BY <1>1, <1>2, <1>3, <1>4, <1>5 DEF ChangesOf

(* What the other hands rely on stays true: rows come and change, with a   *)
(* new version each time, and the event is the acting hand's to settle.    *)
TasksKept(w) ==
  \A t \in Tasks :
    \/ task'[t] = task[t]
    \/ HandAt(w, "make") /\ hand[w].on = t /\ task'[t].status # NoTask
    \/ task[t].status # NoTask /\ task'[t].status # NoTask /\ task'[t].version = task[t].version + 1

EventKept(w) ==
  \/ event' = event
  \/ hand[w].forEvent
  \/ event.status = NoTask
  \/ event.status = "FAILED" /\ event'.status = "FAILED"

LEMMA HandsStay ==
  ASSUME BoardInv, NEW w \in Hands, OtherHands(w), TasksKept(w), EventKept(w), HandInv(w)'
  PROVE  \A v \in Hands : HandInv(v)'
<1>1. ASSUME NEW v \in Hands \ {w} PROVE HandInv(v)'
  <2>0. hand'[v] = hand[v] /\ HandInv(v) /\ HandInv(w)
    BY DEF OtherHands, BoardInv
  <2>1. PICK t \in Tasks, r \in Task : t = hand[v].on /\ r = hand[v].row
    BY HandKnown DEF BoardInv
  <2>2. HandAt(v, "write") => RowAllowed(v)'
    <3>1. SUFFICES ASSUME HandAt(v, "write") PROVE RowAllowed(v)'
      OBVIOUS
    <3>2. task[t].status # NoTask /\ task[t] \in Task /\ task[t].version \in Nat /\ r.version \in Nat /\ RowAllowed(v)
      BY <2>0, <2>1, <3>1 DEF HandInv, RowAllowed, BoardInv, BoardTypeOK, Task
    <3>3. \/ task'[t] = task[t]
          \/ task'[t].status # NoTask /\ task'[t].version = task[t].version + 1
      BY <2>0, <3>2 DEF TasksKept, HandInv
    <3> QED
      BY <2>0, <2>1, <3>2, <3>3 DEF RowAllowed
  <2>3. HandAt(v, "make") => task'[hand[v].on].status = NoTask
    BY <2>0, <2>1 DEF HandInv, TasksKept
  <2>4. \A i \in hand[v].todo : task'[i].status # NoTask
    BY <2>0, HandKnown DEF HandInv, TasksKept, BoardInv
  <2>5. /\ hand[v].forEvent => event'.status = "PENDING" /\ event'.attempts = 0
        /\ hand[v].pc \in {"retry", "refuse"} => event'.status = "FAILED"
    BY <2>0 DEF HandInv, EventKept, NoTask
  <2>6. \A u \in Hands : \/ u = v
                         \/ /\ ~(hand'[u].forEvent /\ hand'[v].forEvent)
                            /\ ~(hand'[u].pc = "make" /\ hand'[v].pc = "make" /\ hand'[u].on = hand'[v].on)
    BY <2>0 DEF HandInv, OtherHands, HandAt
  <2> QED
    BY <2>0, <2>2, <2>3, <2>4, <2>5, <2>6 DEF HandInv, HandAt
<1> QED
  BY <1>1

LEMMA RefusersChange ==
  ASSUME BoardInv, NEW w \in Hands, OtherHands(w)
  PROVE  /\ Cardinality(Hands) \in Nat /\ Cardinality(Hands) > 0
         /\ Cardinality(Refusers) \in Nat /\ Cardinality(Refusers') \in Nat
         /\ Cardinality(Refusers') <= Cardinality(Hands)
         /\ hand'[w].pc # "refuse" =>
              Cardinality(Refusers') = IF w \in Refusers THEN Cardinality(Refusers) - 1 ELSE Cardinality(Refusers)
<1>1. IsFiniteSet(Hands) /\ Refusers \in SUBSET Hands /\ Refusers' \in SUBSET Hands
  BY BoardConstants DEF Refusers
<1>2. IsFiniteSet(Refusers) /\ IsFiniteSet(Refusers') /\ Cardinality(Refusers') <= Cardinality(Hands)
  BY <1>1, FS_Subset
<1>3. /\ Cardinality(Hands) \in Nat /\ Cardinality(Refusers) \in Nat /\ Cardinality(Refusers') \in Nat
      /\ Cardinality(Hands) # 0
  BY <1>1, <1>2, FS_CardinalityType, FS_EmptySet
<1>4. hand'[w].pc # "refuse" => Refusers' = Refusers \ {w}
  BY DEF Refusers, HandAt, OtherHands
<1> QED
  BY <1>2, <1>3, <1>4, FS_RemoveElement

(* The invariant after a step that leaves the event as it is, and does not *)
(* begin to count an attempt.                                              *)
LEMMA BoardKept ==
  ASSUME BoardInv, NEW w \in Hands, BoardTypeOK', OtherHands(w), TasksKept(w), event' = event,
         HandInv(w)', hand'[w].pc # "refuse"
  PROVE  BoardInv'
<1>1. \A v \in Hands : HandInv(v)'
  BY HandsStay DEF EventKept
<1>2. AttemptsInv'
  <2>1. event.attempts \in Nat /\ RetryCap \in Nat
    BY BoardConstants DEF BoardInv, BoardTypeOK, Event
  <2> QED
    BY <2>1, RefusersChange DEF BoardInv, AttemptsInv
<1> QED
  BY <1>1, <1>2 DEF BoardInv

(* A hand that takes up or leaves something, and writes nothing.           *)
LEMMA OnlyHand ==
  ASSUME BoardInv, NEW w \in Hands, hand' \in [Hands -> Hand], OtherHands(w), UNCHANGED <<task, event>>,
         workflowRan' \in BOOLEAN, usedUp' \in [touches: 0..MaxTouches, faults: 0..MaxFaults],
         HandInv(w)', hand'[w].pc # "refuse"
  PROVE  BoardInv'
<1>1. BoardTypeOK' /\ TasksKept(w)
  BY DEF BoardInv, BoardTypeOK, TasksKept
<1> QED
  BY <1>1, BoardKept

(* A hand that becomes idle, or goes on with what it has.                  *)
LEMMA IdleKnows ==
  ASSUME BoardInv, NEW w \in Hands, OtherHands(w), hand'[w].pc = "idle", hand'[w].todo = {}, hand'[w].forEvent = FALSE
  PROVE  HandInv(w)'
BY DEF HandInv, HandAt, OtherHands

LEMMA MakesEffect ==
  ASSUME BoardInv, NEW w \in Hands, NEW state \in Hand, Makes(w, state)
  PROVE  /\ hand' \in [Hands -> Hand] /\ OtherHands(w) /\ hand'[w].pc = "make"
         /\ hand'[w].forEvent = state.forEvent /\ hand'[w].todo = state.todo
         /\ task[hand'[w].on].status = NoTask
         /\ \A v \in Hands \ {w} : ~(hand[v].pc = "make" /\ hand[v].on = hand'[w].on)
<1>1. PICK t \in FreshRows : HandBecomes(w, [state EXCEPT !.pc = "make", !.on = t])
  BY DEF Makes
<1> DEFINE made == [state EXCEPT !.pc = "make", !.on = t]
<1>2. /\ t \in Tasks /\ task[t].status = NoTask
      /\ \A v \in Hands : ~(hand[v].pc = "make" /\ hand[v].on = t)
  BY DEF FreshRows, HandAt
<1>3. made \in Hand /\ made.pc = "make" /\ made.on = t /\ made.forEvent = state.forEvent /\ made.todo = state.todo
  BY <1>2 DEF Hand, HandPCs
<1> HIDE DEF made
<1>4. HandBecomes(w, made)
  BY <1>1 DEF made
<1> QED
  BY <1>2, <1>3, <1>4, BecomesEffect DEF BoardInv

LEMMA BeginTaskStep ==
  ASSUME BoardInv, NEW w \in Hands, BeginTask(w)
  PROVE  BoardInv'
<1>1. /\ Makes(w, HandIdle) /\ HandIdle \in Hand /\ HandIdle.forEvent = FALSE /\ HandIdle.todo = {}
      /\ UNCHANGED <<task, event, workflowRan>>
      /\ workflowRan' \in BOOLEAN /\ usedUp' \in [touches: 0..MaxTouches, faults: 0..MaxFaults]
  BY IdleHand, UsedType DEF BeginTask, HandIdle, BoardInv, BoardTypeOK
<1>2. /\ hand' \in [Hands -> Hand] /\ OtherHands(w) /\ hand'[w].pc = "make"
      /\ hand'[w].forEvent = FALSE /\ hand'[w].todo = {} /\ task[hand'[w].on].status = NoTask
      /\ \A v \in Hands \ {w} : ~(hand[v].pc = "make" /\ hand[v].on = hand'[w].on)
  BY <1>1, MakesEffect
<1>3. HandInv(w)'
  BY <1>1, <1>2 DEF HandInv, HandAt, OtherHands
<1> QED
  BY <1>1, <1>2, <1>3, OnlyHand

LEMMA FindStep ==
  ASSUME BoardInv, NEW w \in Hands, FindOpenTask(w)
  PROVE  BoardInv'
<1>0. /\ HandInv(w) /\ hand[w].pc = "look" /\ hand[w].forEvent /\ hand[w] \in Hand
      /\ UNCHANGED <<task, event, workflowRan, usedUp>>
      /\ HandGoes(w, "processed") \/ Makes(w, hand[w])
  BY HandKnown DEF FindOpenTask, BoardInv, HandInv, HandAt
<1>1. /\ hand' \in [Hands -> Hand] /\ OtherHands(w) /\ hand'[w].pc \in {"processed", "make"}
      /\ hand'[w].forEvent = hand[w].forEvent /\ hand'[w].todo = hand[w].todo
      /\ hand'[w].pc = "make" => /\ task[hand'[w].on].status = NoTask
                                 /\ \A v \in Hands \ {w} : ~(hand[v].pc = "make" /\ hand[v].on = hand'[w].on)
  <2>1. CASE HandGoes(w, "processed")
    BY <2>1, GoesHand DEF BoardInv, HandPCs
  <2>2. CASE Makes(w, hand[w])
    BY <1>0, <2>2, MakesEffect
  <2> QED
    BY <1>0, <2>1, <2>2
<1>2. HandInv(w)'
  BY <1>0, <1>1 DEF HandInv, HandAt, OtherHands
<1> QED
  BY <1>0, <1>1, <1>2, OnlyHand DEF BoardInv, BoardTypeOK

LEMMA MakeStep ==
  ASSUME BoardInv, NEW w \in Hands, MakeTask(w)
  PROVE  BoardInv'
<1>0. PICK t \in Tasks : t = hand[w].on
  BY HandKnown DEF BoardInv
<1>1. PICK assignee \in {Nobody} \cup Staff, due \in {"none", "set"} :
        task' = [task EXCEPT ![t] = [EmptyTask EXCEPT !.status = IF assignee = Nobody THEN "NEW" ELSE "ASSIGNED",
                                                      !.assignee = assignee, !.due = due]]
  BY <1>0 DEF MakeTask
<1> DEFINE row == [EmptyTask EXCEPT !.status = IF assignee = Nobody THEN "NEW" ELSE "ASSIGNED",
                                    !.assignee = assignee, !.due = due]
<1>2. row \in Task /\ row.status # NoTask
  BY IdleHand DEF Task, TaskStatus, NoTask
<1> HIDE DEF row
<1>3. task' \in [Tasks -> Task] /\ task'[t] = row /\ \A i \in Tasks \ {t} : task'[i] = task[i]
  BY <1>1, <1>2 DEF BoardInv, BoardTypeOK, row
<1>4. HandInv(w) /\ hand[w].pc = "make" /\ UNCHANGED <<event, workflowRan, usedUp>>
  BY DEF MakeTask, HandAt, BoardInv
<1>5. /\ hand' \in [Hands -> Hand] /\ OtherHands(w)
      /\ \/ hand'[w].pc = "idle" /\ hand'[w].todo = {} /\ hand'[w].forEvent = FALSE
         \/ hand'[w].pc = "processed" /\ hand'[w].todo = hand[w].todo /\ hand[w].forEvent /\ hand'[w].forEvent = hand[w].forEvent
  <2>1. CASE hand[w].forEvent
    BY <2>1, GoesHand DEF MakeTask, BoardInv, HandPCs
  <2>2. CASE ~hand[w].forEvent
    BY <2>2, DoneHand DEF MakeTask, BoardInv
  <2> QED
    BY <2>1, <2>2
<1>6. TasksKept(w)
  BY <1>0, <1>2, <1>3, <1>4 DEF TasksKept, HandAt
<1>7. HandInv(w)'
  <2>1. \A i \in hand[w].todo : task'[i].status # NoTask
    BY <1>2, <1>3, <1>4, HandKnown DEF HandInv, BoardInv
  <2> QED
    BY <1>4, <1>5, <2>1 DEF HandInv, HandAt, OtherHands
<1>8. BoardTypeOK'
  BY <1>3, <1>4, <1>5 DEF BoardInv, BoardTypeOK
<1> QED
  BY <1>4, <1>5, <1>6, <1>7, <1>8, BoardKept

LEMMA BeginEventStep ==
  ASSUME BoardInv, NEW w \in Hands, BeginEvent(w)
  PROVE  BoardInv'
<1> DEFINE state == [HandIdle EXCEPT !.pc = "look", !.forEvent = TRUE]
<1>1. state \in Hand /\ state.pc = "look" /\ state.forEvent = TRUE /\ state.todo = {}
  BY IdleHand DEF Hand, HandPCs, HandIdle
<1>2. /\ event.status = NoTask /\ event' = [event EXCEPT !.status = "PENDING"]
      /\ HandBecomes(w, state) /\ UNCHANGED <<task, workflowRan, usedUp>>
  BY DEF BeginEvent
<1> HIDE DEF state
<1>3. hand' \in [Hands -> Hand] /\ OtherHands(w) /\ hand'[w] = state
  BY <1>1, <1>2, BecomesEffect DEF BoardInv
<1>4. /\ event' \in Event /\ event'.status = "PENDING" /\ event'.attempts = event.attempts /\ event.attempts = 0
      /\ event.attempts \in Nat
  BY <1>2 DEF BoardInv, BoardTypeOK, Event, AttemptsInv, NoTask
<1>5. \A v \in Hands : hand[v].forEvent = FALSE
  BY <1>2, HandKnown DEF BoardInv, HandInv, NoTask, Hand
<1>6. HandInv(w)'
  BY <1>1, <1>3, <1>4, <1>5 DEF HandInv, HandAt, OtherHands
<1>7. \A v \in Hands : HandInv(v)'
  <2>1. TasksKept(w) /\ EventKept(w)
    BY <1>2 DEF TasksKept, EventKept
  <2> QED
    BY <1>3, <1>6, <2>1, HandsStay
<1>8. AttemptsInv'
  <2>1. hand'[w].pc # "refuse" /\ RetryCap \in Nat
    BY <1>1, <1>3, BoardConstants
  <2> QED
    BY <1>3, <1>4, <2>1, RefusersChange DEF BoardInv, AttemptsInv
<1>9. BoardTypeOK'
  BY <1>2, <1>3, <1>4 DEF BoardInv, BoardTypeOK
<1> QED
  BY <1>7, <1>8, <1>9 DEF BoardInv

LEMMA SettleEventStep ==
  ASSUME BoardInv, NEW w \in Hands, ProcessEvent(w) \/ FailEvent(w)
  PROVE  BoardInv'
<1>1. /\ hand[w].pc \in {"processed", "failed"} /\ HandDone(w) /\ UNCHANGED <<task, workflowRan, usedUp>>
      /\ \/ event' = [event EXCEPT !.status = "PROCESSED"]
         \/ event' = [status |-> "FAILED", attempts |-> event.attempts + 1]
  BY DEF ProcessEvent, FailEvent, HandAt
<1>2. HandInv(w) /\ hand[w].forEvent /\ event.status = "PENDING" /\ event.attempts = 0 /\ event \in Event
  BY <1>1 DEF BoardInv, HandInv, BoardTypeOK
<1>3. /\ event' \in Event
      /\ \/ event'.status = "PROCESSED" /\ event'.attempts = 0
         \/ event'.status = "FAILED" /\ event'.attempts = 1
  BY <1>1, <1>2 DEF Event
<1>4. /\ hand' \in [Hands -> Hand] /\ OtherHands(w) /\ hand'[w].pc = "idle"
      /\ hand'[w].todo = {} /\ hand'[w].forEvent = FALSE
  BY <1>1, DoneHand DEF BoardInv
<1>5. \A v \in Hands : HandInv(v)'
  <2>1. HandInv(w)' /\ TasksKept(w) /\ EventKept(w)
    BY <1>1, <1>2, <1>4, IdleKnows DEF TasksKept, EventKept
  <2> QED
    BY <1>4, <2>1, HandsStay
<1>6. AttemptsInv'
  <2>1. Refusers = {} /\ Refusers' = {}
    BY <1>2, <1>4 DEF BoardInv, HandInv, Refusers, HandAt, OtherHands
  <2>2. Cardinality(Refusers') = 0
    BY <2>1, FS_EmptySet
  <2>3. RetryCap \in Nat /\ RetryCap >= 1 /\ event'.attempts \in {0, 1}
    BY <1>3, BoardConstants
  <2> QED
    BY <1>3, <1>4, <2>2, <2>3, RefusersChange DEF AttemptsInv
<1>7. BoardTypeOK'
  BY <1>1, <1>3, <1>4 DEF BoardInv, BoardTypeOK
<1> QED
  BY <1>5, <1>6, <1>7 DEF BoardInv

LEMMA EventFaultStep ==
  ASSUME BoardInv, NEW w \in Hands, EventFault(w)
  PROVE  BoardInv'
<1>1. /\ HandInv(w) /\ hand[w].forEvent /\ HandGoes(w, "failed") /\ UNCHANGED <<task, event, workflowRan>>
      /\ usedUp' \in [touches: 0..MaxTouches, faults: 0..MaxFaults] /\ workflowRan' \in BOOLEAN
  BY UsedType DEF EventFault, BoardInv, BoardTypeOK
<1>2. /\ hand' \in [Hands -> Hand] /\ OtherHands(w) /\ hand'[w].pc = "failed"
      /\ hand'[w].forEvent = hand[w].forEvent /\ hand'[w].todo = hand[w].todo
  BY <1>1, GoesHand DEF BoardInv, HandPCs
<1>3. HandInv(w)'
  BY <1>1, <1>2 DEF HandInv, HandAt, OtherHands
<1> QED
  BY <1>1, <1>2, <1>3, OnlyHand

LEMMA KillHandStep ==
  ASSUME BoardInv, NEW w \in Hands, KillHand(w)
  PROVE  BoardInv'
<1>1. /\ HandDone(w) /\ UNCHANGED <<task, event, workflowRan>>
      /\ usedUp' \in [touches: 0..MaxTouches, faults: 0..MaxFaults] /\ workflowRan' \in BOOLEAN
  BY UsedType DEF KillHand, BoardInv, BoardTypeOK
<1> QED
  BY <1>1, DoneHand, IdleKnows, OnlyHand DEF BoardInv

LEMMA BeginUpdateStep ==
  ASSUME BoardInv, NEW w \in Hands, NEW t \in Tasks, BeginUpdate(w, t)
  PROVE  BoardInv'
<1>1. PICK row \in ChangesOf(task[t]) : HandBecomes(w, [HandIdle EXCEPT !.pc = "write", !.on = t, !.row = row])
  BY DEF BeginUpdate
<1>2. /\ task[t].status # NoTask /\ task[t] \in Task /\ UNCHANGED <<task, event, workflowRan>> /\ workflowRan' \in BOOLEAN
      /\ usedUp' \in [touches: 0..MaxTouches, faults: 0..MaxFaults]
  BY UsedType DEF BeginUpdate, BoardInv, BoardTypeOK
<1>3. row \in Task /\ row.version = task[t].version /\ row.status # NoTask /\ ValidMove(task[t].status, row.status)
  BY <1>2, ChangeAllowed
<1> DEFINE state == [HandIdle EXCEPT !.pc = "write", !.on = t, !.row = row]
<1>4. /\ state \in Hand /\ state.pc = "write" /\ state.on = t /\ state.row = row
      /\ state.todo = {} /\ state.forEvent = FALSE
  BY <1>3, IdleHand DEF Hand, HandPCs, HandIdle
<1> HIDE DEF state
<1>5. hand' \in [Hands -> Hand] /\ OtherHands(w) /\ hand'[w] = state
  BY <1>1, <1>4, BecomesEffect DEF BoardInv, state
<1>6. RowAllowed(w)'
  BY <1>2, <1>3, <1>4, <1>5 DEF RowAllowed, Task
<1>7. HandInv(w)'
  BY <1>4, <1>5, <1>6 DEF HandInv, HandAt, OtherHands
<1> QED
  BY <1>2, <1>4, <1>5, <1>7, OnlyHand

LEMMA WriteStep ==
  ASSUME BoardInv, NEW w \in Hands, WriteTask(w)
  PROVE  /\ BoardInv'
         /\ \A t \in Tasks : task[t].status # NoTask => ValidMove(task[t].status, task'[t].status)
<1>0. PICK t \in Tasks, r \in Task : t = hand[w].on /\ r = hand[w].row
  BY HandKnown DEF BoardInv
<1>1. /\ HandInv(w) /\ hand[w].pc = "write" /\ RowAllowed(w) /\ UNCHANGED <<event, workflowRan, usedUp>>
      /\ task[t] \in Task /\ task[t].version \in Nat
  BY DEF WriteTask, HandAt, BoardInv, HandInv, BoardTypeOK, Task
<1>2. /\ hand' \in [Hands -> Hand] /\ OtherHands(w)
      /\ \/ hand'[w].pc = "idle" /\ hand'[w].todo = {} /\ hand'[w].forEvent = FALSE
         \/ hand'[w].pc = "sweep" /\ hand'[w].todo = hand[w].todo /\ hand'[w].forEvent = hand[w].forEvent
  <2>1. HandGoes(w, "sweep") \/ HandDone(w)
    BY DEF WriteTask
  <2> QED
    BY <2>1, GoesHand, DoneHand DEF BoardInv, HandPCs
<1>3. \/ task' = task
      \/ /\ task[t].status # NoTask /\ r.status # NoTask /\ ValidMove(task[t].status, r.status)
         /\ task' = [task EXCEPT ![t] = [r EXCEPT !.version = task[t].version + 1]]
  BY <1>0, <1>1 DEF WriteTask, SameVersion, RowAllowed
<1>4. \/ task' = task
      \/ /\ task' \in [Tasks -> Task] /\ \A i \in Tasks \ {t} : task'[i] = task[i]
         /\ task'[t].status = r.status /\ task'[t].version = task[t].version + 1
         /\ task[t].status # NoTask /\ r.status # NoTask /\ ValidMove(task[t].status, r.status)
  <2>1. ASSUME NEW n \in Nat
        PROVE  LET row == [r EXCEPT !.version = n]
               IN  row \in Task /\ row.status = r.status /\ row.version = n
    BY DEF Task
  <2>2. task[t].version + 1 \in Nat
    BY <1>1
  <2>3. LET row == [r EXCEPT !.version = task[t].version + 1]
        IN  row \in Task /\ row.status = r.status /\ row.version = task[t].version + 1
    BY <2>1, <2>2
  <2> QED
    BY <1>3, <2>3 DEF BoardInv, BoardTypeOK
<1>5. TasksKept(w)
  BY <1>4 DEF TasksKept
<1>6. HandInv(w)'
  <2>1. \A i \in hand[w].todo : task'[i].status # NoTask
    BY <1>1, <1>4, HandKnown DEF HandInv, BoardInv
  <2> QED
    BY <1>1, <1>2, <2>1 DEF HandInv, HandAt, OtherHands
<1>7. BoardTypeOK'
  BY <1>1, <1>2, <1>4 DEF BoardInv, BoardTypeOK
<1>8. \A i \in Tasks : task[i].status # NoTask => ValidMove(task[i].status, task'[i].status)
  BY <1>4 DEF ValidMove
<1> QED
  BY <1>1, <1>2, <1>5, <1>6, <1>7, <1>8, BoardKept

LEMMA DailySweepStep ==
  ASSUME BoardInv, NEW w \in Hands, EscalationSweep(w)
  PROVE  BoardInv'
<1> DEFINE due   == {t \in OverdueTasks : ~task[t].escalated /\ task[t].level < MAX_ESCALATION_LEVEL}
           state == [HandIdle EXCEPT !.pc = "sweep", !.sweeps = TRUE, !.todo = due]
<1>1. due \subseteq Tasks /\ \A t \in due : task[t].status # NoTask
  BY DEF OverdueTasks, OpenTask, NoTask
<1>2. state \in Hand /\ state.pc = "sweep" /\ state.todo = due /\ state.forEvent = FALSE
  BY <1>1, IdleHand DEF Hand, HandPCs, HandIdle
<1>3. /\ HandBecomes(w, state) /\ UNCHANGED <<task, event>> /\ workflowRan' \in BOOLEAN
      /\ usedUp' \in [touches: 0..MaxTouches, faults: 0..MaxFaults]
  BY DEF EscalationSweep, BoardInv, BoardTypeOK
<1> HIDE DEF state
<1>4. hand' \in [Hands -> Hand] /\ OtherHands(w) /\ hand'[w] = state
  BY <1>2, <1>3, BecomesEffect DEF BoardInv
<1>5. PICK L : L = due
  OBVIOUS
<1>6. HandInv(w)'
  BY <1>1, <1>2, <1>3, <1>4, <1>5 DEF HandInv, HandAt, OtherHands
<1> QED
  BY <1>2, <1>3, <1>4, <1>6, OnlyHand

LEMMA EscalateStep ==
  ASSUME BoardInv, NEW w \in Hands, EscalateNext(w)
  PROVE  BoardInv'
<1>1. PICK t \in hand[w].todo :
        \/ \E row \in EscalatedRow(task[t]) :
             HandBecomes(w, [hand[w] EXCEPT !.pc = "write", !.on = t, !.row = row, !.todo = @ \ {t}])
        \/ HandDone(w)
  BY DEF EscalateNext
<1>2. /\ HandInv(w) /\ hand[w].pc = "sweep" /\ UNCHANGED <<task, event, workflowRan, usedUp>>
      /\ t \in Tasks /\ task[t] \in Task /\ task[t].status # NoTask /\ hand[w] \in Hand
  BY HandKnown DEF EscalateNext, HandAt, BoardInv, HandInv, BoardTypeOK
<1>3. CASE HandDone(w)
  BY <1>2, <1>3, DoneHand, IdleKnows, OnlyHand DEF BoardInv, BoardTypeOK
<1>4. ASSUME NEW row \in EscalatedRow(task[t]),
             HandBecomes(w, [hand[w] EXCEPT !.pc = "write", !.on = t, !.row = row, !.todo = @ \ {t}])
      PROVE  BoardInv'
  <2>1. row \in Task /\ row.version = task[t].version /\ row.status # NoTask /\ ValidMove(task[t].status, row.status)
    BY <1>2, ChangeAllowed DEF ChangesOf
  <2> DEFINE left  == hand[w].todo \ {t}
             state == [hand[w] EXCEPT !.pc = "write", !.on = t, !.row = row, !.todo = left]
  <2>2. /\ state \in Hand /\ state.pc = "write" /\ state.on = t /\ state.row = row
        /\ state.todo \subseteq hand[w].todo /\ state.forEvent = hand[w].forEvent
    BY <1>2, <2>1 DEF Hand, HandPCs
  <2>3. HandBecomes(w, state)
    BY <1>4
  <2> HIDE DEF state
  <2>4. hand' \in [Hands -> Hand] /\ OtherHands(w) /\ hand'[w] = state
    BY <2>2, <2>3, BecomesEffect DEF BoardInv
  <2>5. RowAllowed(w)'
    BY <1>2, <2>1, <2>2, <2>4 DEF RowAllowed, Task
  <2>6. HandInv(w)'
    BY <1>2, <2>2, <2>4, <2>5 DEF HandInv, HandAt, OtherHands
  <2> QED
    BY <1>2, <2>2, <2>4, <2>6, OnlyHand DEF BoardInv, BoardTypeOK
<1> QED
  BY <1>1, <1>3, <1>4

LEMMA LookAtEventsStep ==
  ASSUME BoardInv, NEW w \in Hands, SweepEvents(w) \/ BeginEventRetry(w)
  PROVE  BoardInv'
<1> DEFINE retries == [HandIdle EXCEPT !.pc = "retry"]
<1>0. retries \in Hand /\ retries.pc = "retry" /\ retries.todo = {} /\ retries.forEvent = FALSE
  BY IdleHand DEF Hand, HandPCs, HandIdle
<1>1. /\ UNCHANGED <<task, event, workflowRan>> /\ workflowRan' \in BOOLEAN
      /\ usedUp' \in [touches: 0..MaxTouches, faults: 0..MaxFaults]
  BY UsedType DEF SweepEvents, BeginEventRetry, BoardInv, BoardTypeOK
<1>2. \/ HandDone(w)
      \/ event.status = "FAILED" /\ HandGoes(w, "retry") /\ hand[w].todo = {}
      \/ event.status = "FAILED" /\ HandBecomes(w, retries)
  BY DEF SweepEvents, BeginEventRetry
<1> HIDE DEF retries
<1>3. /\ hand' \in [Hands -> Hand] /\ OtherHands(w)
      /\ \/ hand'[w].pc = "idle" /\ hand'[w].todo = {} /\ hand'[w].forEvent = FALSE
         \/ /\ hand'[w].pc = "retry" /\ hand'[w].todo = {} /\ event.status = "FAILED"
            /\ hand'[w].forEvent = FALSE \/ hand'[w].forEvent = hand[w].forEvent
  BY <1>0, <1>2, GoesHand, DoneHand, BecomesEffect DEF BoardInv, HandPCs
<1>4. HandInv(w)'
  <2>1. hand[w].forEvent => event.status # "FAILED"
    BY DEF BoardInv, HandInv
  <2> QED
    BY <1>1, <1>3, <2>1 DEF HandInv, HandAt, OtherHands
<1> QED
  BY <1>1, <1>3, <1>4, OnlyHand

(* A handler that passes the cap adds one to those about to count an       *)
(* attempt, of whom there are never more than handlers.                    *)
LEMMA CheckRetryStep ==
  ASSUME BoardInv, NEW w \in Hands, CheckRetry(w)
  PROVE  BoardInv'
<1>1. /\ HandInv(w) /\ hand[w].pc = "retry" /\ UNCHANGED <<task, event, workflowRan, usedUp>>
      /\ \/ HandDone(w)
         \/ event.attempts < RetryCap /\ HandGoes(w, "refuse")
  BY DEF CheckRetry, Retriable, HandAt, BoardInv
<1>2. CASE HandDone(w)
  BY <1>1, <1>2, DoneHand, IdleKnows, OnlyHand DEF BoardInv, BoardTypeOK
<1>3. CASE event.attempts < RetryCap /\ HandGoes(w, "refuse")
  <2>1. /\ hand' \in [Hands -> Hand] /\ OtherHands(w) /\ hand'[w].pc = "refuse"
        /\ hand'[w].forEvent = hand[w].forEvent /\ hand'[w].todo = hand[w].todo
    BY <1>3, GoesHand DEF BoardInv, HandPCs
  <2>2. HandInv(w)' /\ TasksKept(w) /\ EventKept(w)
    BY <1>1, <2>1 DEF HandInv, HandAt, OtherHands, TasksKept, EventKept
  <2>3. AttemptsInv'
    <3>1. event.attempts \in Nat /\ RetryCap \in Nat
      BY BoardConstants DEF BoardInv, BoardTypeOK, Event
    <3> QED
      BY <1>1, <1>3, <2>1, <3>1, RefusersChange DEF BoardInv, AttemptsInv
  <2>4. BoardTypeOK'
    BY <1>1, <2>1 DEF BoardInv, BoardTypeOK
  <2> QED
    BY <2>1, <2>2, <2>3, <2>4, HandsStay DEF BoardInv
<1> QED
  BY <1>1, <1>2, <1>3

LEMMA RefuseRetryStep ==
  ASSUME BoardInv, NEW w \in Hands, RefuseRetry(w)
  PROVE  BoardInv'
<1>1. /\ HandInv(w) /\ hand[w].pc = "refuse" /\ event.status = "FAILED" /\ HandDone(w)
      /\ event' = [status |-> "FAILED", attempts |-> event.attempts + 1]
      /\ UNCHANGED <<task, workflowRan, usedUp>> /\ event.attempts \in Nat
  BY DEF RefuseRetry, HandAt, BoardInv, HandInv, BoardTypeOK, Event
<1>2. event' \in Event /\ event'.status = "FAILED" /\ event'.attempts = event.attempts + 1
  BY <1>1 DEF Event
<1>3. /\ hand' \in [Hands -> Hand] /\ OtherHands(w) /\ hand'[w].pc = "idle"
      /\ hand'[w].todo = {} /\ hand'[w].forEvent = FALSE
  BY <1>1, DoneHand DEF BoardInv
<1>4. HandInv(w)' /\ TasksKept(w) /\ EventKept(w)
  BY <1>1, <1>2, <1>3, IdleKnows DEF TasksKept, EventKept
<1>5. AttemptsInv'
  <2>1. w \in Refusers /\ hand'[w].pc # "refuse" /\ RetryCap \in Nat
    BY <1>1, <1>3, BoardConstants DEF Refusers, HandAt
  <2> QED
    BY <1>1, <1>2, <1>3, <2>1, RefusersChange DEF BoardInv, AttemptsInv
<1>6. BoardTypeOK'
  BY <1>1, <1>2, <1>3 DEF BoardInv, BoardTypeOK
<1> QED
  BY <1>3, <1>4, <1>5, <1>6, HandsStay DEF BoardInv

LEMMA NightStep ==
  ASSUME BoardInv, DueDatesPass
  PROVE  BoardInv' /\ \A t \in Tasks : task'[t].status = task[t].status
<1> DEFINE row(t) == [task[t] EXCEPT !.due = IF @ = "set" THEN "past" ELSE @]
<1>1. ASSUME NEW t \in Tasks PROVE row(t) \in Task /\ row(t).status = task[t].status
  BY DEF BoardInv, BoardTypeOK, Task
<1>2. /\ task' = [t \in Tasks |-> row(t)] /\ workflowRan' = FALSE /\ UNCHANGED <<event, usedUp, hand>>
      /\ \A w \in Hands : hand[w].pc = "idle"
  BY DEF DueDatesPass, HandAt
<1> HIDE DEF row
<1>3. task' \in [Tasks -> Task] /\ \A t \in Tasks : task'[t].status = task[t].status
  BY <1>1, <1>2
<1>4. BoardTypeOK'
  BY <1>2, <1>3 DEF BoardInv, BoardTypeOK
<1>5. ASSUME NEW w \in Hands PROVE HandInv(w)'
  <2>1. HandInv(w) /\ \A t \in hand[w].todo : task'[t].status # NoTask
    BY <1>3, HandKnown DEF BoardInv, HandInv
  <2> QED
    BY <1>2, <2>1 DEF HandInv, HandAt
<1>6. AttemptsInv'
  BY <1>2 DEF BoardInv, AttemptsInv, Refusers, HandAt
<1> QED
  BY <1>3, <1>4, <1>5, <1>6 DEF BoardInv

LEMMA BoardStep ==
  BoardInv /\ [BoardNext]_boardVars =>
    /\ BoardInv'
    /\ \A t \in Tasks : task[t].status # NoTask => ValidMove(task[t].status, task'[t].status)
<1> DEFINE moves == \A t \in Tasks : task[t].status # NoTask => ValidMove(task[t].status, task'[t].status)
<1> SUFFICES ASSUME BoardInv, [BoardNext]_boardVars PROVE BoardInv' /\ moves
  OBVIOUS
<1>0. UNCHANGED task => moves
  BY DEF ValidMove
<1>1. ASSUME NEW w \in Hands, HandWork(w) PROVE BoardInv' /\ moves
  <2>1. CASE MakeTask(w)
    <3>1. \A t \in Tasks : task[t].status # NoTask => task'[t] = task[t]
      BY <2>1, HandKnown DEF MakeTask, BoardInv, HandInv, BoardTypeOK
    <3> QED
      BY <2>1, <3>1, MakeStep DEF ValidMove
  <2>2. CASE WriteTask(w)
    BY <2>2, WriteStep
  <2>3. CASE FindOpenTask(w) \/ EscalateNext(w) \/ SweepEvents(w) \/ CheckRetry(w)
    <3>1. UNCHANGED task
      BY <2>3 DEF FindOpenTask, EscalateNext, SweepEvents, CheckRetry
    <3> QED
      BY <1>0, <2>3, <3>1, FindStep, EscalateStep, LookAtEventsStep, CheckRetryStep
  <2>4. CASE ProcessEvent(w) \/ FailEvent(w) \/ RefuseRetry(w)
    <3>1. UNCHANGED task
      BY <2>4 DEF ProcessEvent, FailEvent, RefuseRetry
    <3> QED
      BY <1>0, <2>4, <3>1, SettleEventStep, RefuseRetryStep
  <2> QED
    BY <1>1, <2>1, <2>2, <2>3, <2>4 DEF HandWork
<1>2. ASSUME NEW w \in Hands,
             EscalationSweep(w) \/ EventFault(w) \/ KillHand(w) \/ BeginTask(w) \/ BeginEvent(w) \/ BeginEventRetry(w)
      PROVE  BoardInv' /\ moves
  <2>1. UNCHANGED task
    BY <1>2 DEF EscalationSweep, EventFault, KillHand, BeginTask, BeginEvent, BeginEventRetry
  <2> QED
    BY <1>0, <1>2, <2>1, DailySweepStep, EventFaultStep, KillHandStep, BeginTaskStep, BeginEventStep, LookAtEventsStep
<1>3. ASSUME NEW w \in Hands, NEW t \in Tasks, BeginUpdate(w, t) PROVE BoardInv' /\ moves
  BY <1>0, <1>3, BeginUpdateStep DEF BeginUpdate
<1>4. CASE DueDatesPass
  BY <1>4, NightStep DEF ValidMove
<1>5. CASE UNCHANGED boardVars
  <2>1. BoardInv'
    BY <1>5 DEF boardVars, BoardInv, BoardTypeOK, HandInv, HandAt, RowAllowed, AttemptsInv, Refusers
  <2> QED
    BY <1>0, <1>5, <2>1 DEF boardVars
<1> QED
  BY <1>1, <1>2, <1>3, <1>4, <1>5 DEF BoardNext

LEMMA BoardStarts == BoardInit => BoardInv
<1> SUFFICES ASSUME BoardInit PROVE BoardInv
  OBVIOUS
<1>1. hand \in [Hands -> Hand] /\ \A w \in Hands : hand[w].pc = "idle" /\ hand[w].todo = {} /\ hand[w].forEvent = FALSE
  BY IdleHand DEF BoardInit, HandIdle
<1>2. task \in [Tasks -> Task] /\ event \in Event /\ usedUp \in [touches: 0..MaxTouches, faults: 0..MaxFaults]
  BY IdleHand, BoardConstants DEF BoardInit, Event
<1>3. BoardTypeOK
  BY <1>1, <1>2 DEF BoardInit, BoardTypeOK
<1>4. \A w \in Hands : HandInv(w)
  BY <1>1 DEF HandInv, HandAt
<1>5. AttemptsInv
  <2>1. Refusers = {}
    BY <1>1 DEF Refusers, HandAt
  <2>2. Cardinality(Refusers) = 0 /\ Cardinality(Hands) \in Nat
    BY <2>1, FS_EmptySet, FS_CardinalityType, BoardConstants
  <2>3. RetryCap \in Nat /\ RetryCap >= 1
    BY BoardConstants
  <2> QED
    BY <2>2, <2>3 DEF BoardInit, AttemptsInv
<1> QED
  BY <1>3, <1>4, <1>5 DEF BoardInv

(* status.ts:3-5, engine.ts:351-353: however many handlers read a task     *)
(* together and whichever writes first, its status goes only where the     *)
(* table allows, because every update asks for the version it has read.    *)
THEOREM MovesAllowed == BoardSpec => StatusAllowed
BY BoardStarts, BoardStep, PTL DEF BoardSpec, StatusAllowed

(* retry.ts:8-10, automation-sweep.ts:17: an event is retried no more than *)
(* its cap and one time for each further handler at work at once.          *)
THEOREM RetriesCapped == BoardSpec => []RetriesBounded
<1>1. ASSUME BoardInv PROVE RetriesBounded
  <2>1. IsFiniteSet(Refusers)
    BY BoardConstants, FS_Subset DEF Refusers
  <2>2. /\ Cardinality(Refusers) \in Nat /\ Cardinality(Hands) \in Nat
        /\ event.attempts \in Nat /\ RetryCap \in Nat
    BY <1>1, <2>1, FS_CardinalityType, BoardConstants DEF BoardInv, BoardTypeOK, Event
  <2> QED
    BY <1>1, <2>2 DEF BoardInv, AttemptsInv, RetriesBounded
<1> QED
  BY <1>1, BoardStarts, BoardStep, PTL DEF BoardSpec

-----------------------------------------------------------------------------
(* The daily tick's work: a step is one of the parts', and the others      *)
(* stand still.                                                            *)

LEMMA OpsStep ==
  ASSUME JobTypeOK, MemInv, BoardInv, [OpsNext]_opsVars
  PROVE  JobTypeOK' /\ MemInv' /\ BoardInv'
<1>1. [JobNext]_jobVars
  BY DEF OpsNext, OfJobs, OfMemberships, OfTasks, OfMessages, opsVars
<1>2. [MemNext]_memVars
  BY DEF OpsNext, OfJobs, OfMemberships, OfTasks, OfMessages, opsVars
<1>3. [BoardNext]_boardVars
  BY DEF OpsNext, OfJobs, OfMemberships, OfTasks, OfMessages, opsVars
<1> QED
  BY <1>1, <1>2, <1>3, StepType, MemStep, BoardStep

(* jobs.ts:79-120, subscription.ts:18-136, engine.ts:354-363: the rows of  *)
(* the queue, of the subscriptions and of the tasks, and the locals of     *)
(* every handler at work on them, keep their types.                        *)
THEOREM OpsTypeCorrect == OpsSpec => []OpsTypeOK
<1>1. OpsInit => JobTypeOK /\ MemInv /\ BoardInv
  BY InitType, MemStarts, BoardStarts DEF OpsInit
<1>2. JobTypeOK /\ MemInv /\ BoardInv => OpsTypeOK
  BY DEF OpsTypeOK, MemInv, BoardInv
<1> QED
  BY <1>1, <1>2, OpsStep, PTL DEF OpsSpec
=============================================================================
