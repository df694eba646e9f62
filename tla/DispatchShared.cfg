SPECIFICATION Spec
CONSTANTS
  t1 = t1
  t2 = t2
  Tasks = {t1, t2}
  Retries = 0
  MessageTries = 3
  FileTries = 5
  Slots = 1
  Fallback = "none"
  Answers = {}
  Outputs <- MCTexts
INVARIANTS
  ReportsOwnIds
