SPECIFICATION Spec
CONSTANTS
  Runs = {r1, r2, r3}
  Users = {alice}
  NoUser = NoUser
  Global = Global
  Ops = {"Admit", "WaitForUser", "ReserveUser"}
  MaxConcurrents = {1, 2}
  MaxQueues = {1, 2}
  MaxPerUsers = {0, 1}
  MaxQueuedPerUsers = {0, 1}
SYMMETRY RunSymmetry
INVARIANTS UserAccounting NoIdleSlot SlotsBounded
