SPECIFICATION Spec
CONSTANTS
  MaxUid = 3
  MinMessages = 0
  MaxValidity = 1
  MaxErrors = 1
  Personal = TRUE
  RecentLimit = 1
  Trigger = {t1}
  Worker = Worker
INVARIANTS
  NothingSkipped

  
