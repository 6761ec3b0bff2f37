SPECIFICATION Spec
CONSTANTS
  Runs = {r1, r2, r3, r4}
  Users = {alice}
  NoUser = NoUser
  Global = Global
  Ops = {"Admit", "AdmitReject", "AdmitSlot", "AcquireForUser",
         "ReserveUser", "WaitForUser", "Wait", "TryAcquire"}
  MaxConcurrents = {1}
  MaxQueues = {2}
  MaxPerUsers = {2}
  MaxQueuedPerUsers = {1}
SYMMETRY RunSymmetry
INVARIANTS TypeOK AliveBounded UserCapRespected SlotAccounting NoStrandedWaiter PositionIsServeOrder
PROPERTIES NoBarging TurnKept
