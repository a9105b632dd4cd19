SPECIFICATION FairSpec
CONSTANTS
  Users = {u1, u2}
  Keys = {k1, k2}
  Values = {0, 1}
  Calls = {c1, c2}
  MAX_CHANGES = 2
  MaxSaves = 2
  MaxBoots = 2
INVARIANTS
  CoordinatorTypeOK
  ReadyAfterReboot
  DriftHasCause
PROPERTIES
  
  RestartConcludes
CHECK_DEADLOCK FALSE
