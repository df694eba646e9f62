SPECIFICATION IntakeSpec
CONSTANTS
  r1 = r1
  r2 = r2
  Routes = {r1, r2}
  Modes = {"telethon", "bot"}
  LastMessage = 4
  Album = {2, 3}
  Backfill <- MCBackfill
  Started = {r1}
  PollLimit = 2
  Budgets <- MCBudgets
INVARIANTS
  NothingPassedIsForgotten
  AlbumsAreWhole
PROPERTIES
  EveryMessageArrives
CHECK_DEADLOCK FALSE
