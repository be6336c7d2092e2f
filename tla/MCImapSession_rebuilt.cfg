SPECIFICATION Spec
CONSTANTS
  MaxUid = 1
  MinMessages = 0
  MaxValidity = 2
  MaxErrors = 1
  Personal = FALSE
  RecentLimit = 1
  Trigger = {}
  Worker = Worker
INVARIANTS
  RebuildNoticed
