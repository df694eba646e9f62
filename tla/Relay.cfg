SPECIFICATION Spec
CONSTANTS
  m1 = m1
  album = album
  m4 = m4
  w1 = w1
  w2 = w2
  route = route
  Free = Free
  Orphan = Orphan
  NoKey = NoKey
  Keys = {m1, m4}
  Routes <- MCRoutes
  RouteOf <- MCRouteOf
  Id <- MCId
  First <- MCFirst
  Workers <- MCWorkers
  Owners <- MCWorkers
  AiMax = 1
  PostCap = 2
  BatchLimit = 2
  Backend = "redis"
  Events = {"crash", "cancel", "redeliver", "ambiguous", "partial", "interval", "queueError"}
INVARIANTS
  TypeOK
  LockMutex
  DuplicatesOnlyAfterDoubt
PROPERTIES
  CheckpointRespectsOrder
  DeliversInOrder
  SentIsFinal
  NoSilentDrop
  ImplementsOrderedRelay
SYMMETRY MCSymmetry
CHECK_DEADLOCK FALSE
