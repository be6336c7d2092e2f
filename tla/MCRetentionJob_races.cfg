SPECIFICATION MCSpec
CONSTANTS
  e1 = e1
  e2 = e2
  e3 = e3
  b1 = b1
  b2 = b2
  b3 = b3
  j1 = j1
  j2 = j2
  Scene = {"races", "calls"}
  Email = {e1, e2, e3}
  Box = {b1, b2, b3}
  Job = {j1, j2}
  Request = {r1}
  TrashDays = 1
  MaxDay = 3
  boxOf <- MCBoxOf
  boxPolicy <- MCBoxPolicy
  emailPolicy <- MCEmailPolicy
  NoBox = NoBox
  NoDate = NoDate
  NoRestore = NoRestore
INVARIANTS
  TypeOK
  TrashComplete
  DatesAreReal
  OneJob
PROPERTIES
  PurgedWhenOld
  UserChangeKept
  JobEnds
CHECK_DEADLOCK FALSE
