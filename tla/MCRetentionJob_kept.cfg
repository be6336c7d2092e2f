SPECIFICATION MCSpec
CONSTANTS
  e1 = e1
  e2 = e2
  e3 = e3
  b1 = b1
  b2 = b2
  b3 = b3
  j1 = j1
  j2 = j2
  Scene = {"races"}
  Email = {e3}
  Box = {b3}
  Job = {j1}
  Request = {r1}
  TrashDays = 1
  MaxDay = 2
  boxOf <- MCBoxOf
  boxPolicy <- NoPolicy
  emailPolicy <- NoPolicy
  NoBox = NoBox
  NoDate = NoDate
  NoRestore = NoRestore
PROPERTIES
  KeptForTrashDays
CHECK_DEADLOCK FALSE
