SPECIFICATION RoutesSpec
CONSTANTS
  Routes = {"r1", "r2"}
  Clients = {"web"}
  Loop = "loop"
  Settings = {0}
  MaxCalls = 2
  Latest = 3
  Window = 2
  Immediate = 1
  Budget <- MCBudget
INVARIANTS
  RegistryCatchesUp
  ForceDisturbsOnlyItsOwn
PROPERTIES
  WritesWhatItMeant
  StopHolds
  WindowIsSettled
CHECK_DEADLOCK FALSE
