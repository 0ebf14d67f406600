\* Two jobs, two workers, one crash; one subscription, a package with renewal dates and one without, two handlers;
\* two tasks and an event, two handlers, one fault; one message, two attempts, two incidents.
\* Operations by hand are bounded by MaxManual, MaxVisits and MaxTouches; days go on.
SPECIFICATION OpsSpec
INVARIANTS OpsTypeOK OneWorker AttemptsSpent TickAlone UsageWithinLimit NotLapsedEarly RetriesBounded
PROPERTIES JobsSettle MembershipEnds ScheduledChangeHappens StatusAllowed OverdueEscalates MessageSettles
CONSTANTS
  j1=j1
  j2=j2
  s1=s1
  basic=basic
  gold=gold
  t1=t1
  t2=t2
  m1=m1
  mail=mail
  h1=h1
  h2=h2
  Jobs = {j1, j2}
  Attempts = 2
  JobCalls = {h1, h2}
  MaxManual = 2
  MaxCrashes = 1
  Subs = {s1}
  Packages = {basic, gold}
  OneTime = {gold}
  LimitOf <- Limits
  Desks = {h1, h2}
  MaxVisits = 3
  Tasks = {t1, t2}
  Staff = {m1}
  Hands = {h1, h2}
  RetryCap = 5
  MaxTouches = 2
  MaxFaults = 1
  Messages = {mail}
  Couriers = {h1, h2}
  Reports = {"DELIVERED"}
  MaxAttempts = 2
  MaxIncidents = 2
