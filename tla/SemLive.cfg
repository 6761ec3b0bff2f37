SPECIFICATION FairSpec
CONSTANTS
  Runs = {r1, r2, r3}
  Users = {alice}
  NoUser = NoUser
  Global = Global
  Ops = {"Admit"}
  MaxConcurrents = {1, 2}
  MaxQueues = {2}
  MaxPerUsers = {2}
  MaxQueuedPerUsers = {1}
INVARIANTS NoIdleUserPlace
PROPERTIES ImplementsSlotPool EveryoneServed
