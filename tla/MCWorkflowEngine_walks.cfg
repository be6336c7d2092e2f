SPECIFICATION MCSpec
CONSTANTS
  Node = {1, 2, 3, 4}
  Category = {"a"}
  Execution = {x1, x2}
  Config <- MCConfig
  MaxSteps = 3
  Setting = {1, 2}
  DefaultLogs = 1
  MaxFaults = 1
  mine = mine
  other = other
  Owner = {mine, other}
  Nobody = Nobody
  Sender = {s1}
  Box = {b1}
  BoxOwner <- AllMine
  Code = {c1}
  NoCode = NoCode
  Update = {u1, u2}
  Forward = {f1}
  Visit = {v1}
  MaxTopics = 3
  MaxBindings = 2
  Scenes <- AllScenes
INVARIANTS
  TypeOK
  NoReentry
  StatusAgrees
  Settled
  LimitHolds
  Quiet
PROPERTIES
  NewestKept
  EndIsFinal
  EveryoneEnds
  DoneOnce
CHECK_DEADLOCK FALSE
