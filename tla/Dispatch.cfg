SPECIFICATION FairSpec
CONSTANTS
  t1 = t1
  t2 = t2
  Tasks = {t1, t2}
  Retries = 1
  MessageTries = 2
  FileTries = 2
  Slots = 1
  Fallback = "document"
  Answers = {"lost", "server", "large", "parse", "null"}
  Outputs <- MCPair
INVARIANTS
  TypeOK
  PostsInOrder
  OkIsComplete
  AssertionHolds
PROPERTIES
  ConfirmedIsNotResent
  AlbumInDoubtIsNotResent
  EveryDeliverySettles
