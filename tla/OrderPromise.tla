----------------------------- MODULE OrderPromise -----------------------------
(***************************************************************************)
(* What the finance centre promises a customer about one order, with no    *)
(* handler, payment or bank transfer in sight: an order that is owed is    *)
(* either withdrawn, refused or settled, each of them for good, and the    *)
(* membership it buys starts once, after it is settled.                    *)
(***************************************************************************)
EXTENDS Naturals

CONSTANT Orders

VARIABLES
  phase,      \* [Orders -> Phases]
  granted     \* [Orders -> how many memberships the order has started]

Phases == {"none", "owed", "reported", "settled", "refused", "withdrawn"}

PromiseInit == phase = [o \in Orders |-> "none"] /\ granted = [o \in Orders |-> 0]

Move(o, from, to) ==
  /\ phase[o] \in from
  /\ phase' = [phase EXCEPT ![o] = to]
  /\ UNCHANGED granted

Place(o)    == Move(o, {"none"}, "owed")
Report(o)   == Move(o, {"owed"}, "reported")
Withdraw(o) == Move(o, {"owed"}, "withdrawn")
Settle(o)   == Move(o, {"reported"}, "settled")
Refuse(o)   == Move(o, {"owed", "reported"}, "refused")

Grant(o) ==
  /\ phase[o] = "settled" /\ granted[o] = 0
  /\ granted' = [granted EXCEPT ![o] = 1]
  /\ UNCHANGED phase

PromiseNext ==
  \E o \in Orders : Place(o) \/ Report(o) \/ Withdraw(o) \/ Settle(o) \/ Refuse(o) \/ Grant(o)

PromiseSpec == PromiseInit /\ [][PromiseNext]_<<phase, granted>>
=============================================================================
