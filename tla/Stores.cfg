SPECIFICATION StoresSpec
CONSTANTS
  k1 = k1
  k2 = k2
  route = route
  Entries = {k1, k2}
  RouteOfEntry <- MCRoute
  Callers = {c1, c2}
  Horizon = 1
  Take = 1
  RequestCap = 3
  PurgeCap = 1
  FaultCap = 1
  Lockers = {t1, t2, t3}
  Nobody = Nobody
  DeadOwner = DeadOwner
  ExpiryCap = 2
  BreakCap = 1
  Deliveries = {d1, d2}
  Seconds = {1, 2}
  Reasons = {ad, spam}
  NoReason = NoReason
  Attempts = 2
  AgeCap = 1
  Watched = {m1, m2}
  Sockets = {s1}
  Kept = 2
  RingSize = 2
  Batch = 1
  Page = 1
  WireCap = 2
  Budgets <- MCFeedBudgets
INVARIANTS
  NothingOwedIsLost
  DamageOnlyByRace
  AtWorkHoldsLease
  NothingLeaks
PROPERTIES
  OwedIsHandedOut
  PageCatchesUp
CHECK_DEADLOCK FALSE
