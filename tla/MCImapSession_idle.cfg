SPECIFICATION Spec
CONSTANTS
  MaxUid = 1
  MinMessages = 0
  MaxValidity = 1
  MaxErrors = 1
  Personal = FALSE
  RecentLimit = 1
  Trigger = {}
  Worker = Worker
PROPERTIES
  EventuallyHandled
