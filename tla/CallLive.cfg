SPECIFICATION FairSpec
CONSTANTS
  c1 = c1
  c2 = c2
  c3 = c3
  run1 = run1
  run2 = run2
  alice = alice
  bob = bob
  m64 = m64
  m8 = m8
  name = name
  Calls = {c1, c2, c3}
  Owners = {run1}
  NoOwner = NoOwner
  Users = {alice}
  Models = {m64, m8, name}
  NoModel = NoModel
  NameOf <- MCNameOf
  Infos <- LiveInfos
  LaneConfigs <- LiveLanes
  GateLimits <- LiveGates
  ShareUnit = 2
  MaxUsed = 2
  MaxReloads = 0
PROPERTIES EveryCallMade
