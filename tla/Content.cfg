SPECIFICATION ContentSpec
CONSTANTS
  Signature = "handle"
  NoText = NoText
  Posts <- MCPosts
  Answers <- MCAnswers
  Retries = 1
  Limit = 2
  Retrials = 1
  Gone = Gone
  Bad = Bad
  Rows <- MCRows
  FileRows = 2
  EditCap = 3
  Width = 4
  TopPriority = 1
  LongestWord = 2
  Guarded <- MCGuarded
  Guards <- MCGuards
INVARIANTS
  PostTravelsWhole
  GoodTextEndsTheScript
  AllowedIsVetted
  ChoiceOfMatchesIsFair
PROPERTIES
  TableFollowsFile
  EveryPostIsJudged
CHECK_DEADLOCK FALSE
