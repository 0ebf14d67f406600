--------------------------- MODULE MCApprovalParts ---------------------------
(* A behaviour of PartsSpec takes up one agenda: a ladder of a manager,     *)
(* some m, and a Super Admin, which is approved, rejected or cancelled; a   *)
(* step of two approvers, which is sent back and submitted again; or one    *)
(* step, where a manager's conflict with the record comes and goes.         *)
EXTENDS MCApprovalEngine

Ladder(m) == [level |-> 3, versions |-> 3, people |-> {maker, m, super},
              kinds |-> {"SUBMIT", "APPROVE", "REJECT", "CANCEL", "CRASH"}]
Revision  == [level |-> 2, versions |-> 4, people |-> {maker, mgr1, mgr2},
              kinds |-> {"SUBMIT", "APPROVE", "REQUEST_CHANGES", "DEACTIVATE", "CRASH"}]
Reviewed  == [level |-> 1, versions |-> 3, people |-> {maker, mgr3, super},
              kinds |-> {"SUBMIT", "APPROVE", "REJECT", "REQUEST_CHANGES", "CONFLICT"}]

VARIABLE agenda

On(a) == INSTANCE ApprovalEngine WITH Kinds <- a.kinds, RequiredLevel <- a.level, MaxVersion <- a.versions

(* Nobody else acts, and what others do to their accounts does not matter. *)
OnlyPeople(a) == Admins \ a.people \subseteq active' /\ \A c \in Calls : call'[c].actor \in a.people

Agendas == {Ladder(mgr1), Ladder(mgr2), Revision, Reviewed}

PartsInit == \E a \in Agendas : agenda = a /\ On(a)!Init /\ conflicted \subseteq a.people
PartsNext == \E a \in Agendas : agenda = a /\ On(a)!Next /\ OnlyPeople(a) /\ UNCHANGED agenda
PartsSpec == PartsInit /\ [][PartsNext]_<<vars, agenda>>
=============================================================================
