SPECIFICATION FairSpec
CONSTANTS
  c1 = c1
  c2 = c2
  c3 = c3
  run1 = run1
  alice = alice
  Calls = {c1, c2, c3}
  Owners = {run1}
  NoOwner = NoOwner
  Users = {alice}
  Models = {}
  NoModel = NoModel
  NameOf <- MCNameOf
  Infos <- MCInfos
  LaneConfigs <- MCLanes
  ShareUnit = 1
  MaxUsed = 1
  MaxRuns = 2
  MaxWaiting = 2
INVARIANTS WorksHoldingSlot ReclaimerHoldsNothing
PROPERTIES EveryRunGoesOn
