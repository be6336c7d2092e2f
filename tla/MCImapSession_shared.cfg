SPECIFICATION Spec
CONSTANTS
  MaxUid = 3
  MinMessages = 1
  MaxValidity = 2
  MaxErrors = 2
  Personal = FALSE
  RecentLimit = 1
  Trigger = {t1}
  Worker = Worker
INVARIANTS
  TypeOK
  
  OneSyncPerConnection
