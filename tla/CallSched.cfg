SPECIFICATION Spec
CONSTANTS
  c1 = c1
  c2 = c2
  c3 = c3
  run1 = run1
  run2 = run2
  alice = alice
  bob = bob
  m64 = m64
  m8 = m8
  name = name
  Calls = {c1, c2, c3}
  Owners = {run1, run2}
  NoOwner = NoOwner
  Users = {alice, bob}
  Models = {m64, m8, name}
  NoModel = NoModel
  NameOf <- MCNameOf
  Infos <- MixedInfos
  LaneConfigs <- MixedLanes
  GateLimits <- MixedGates
  ShareUnit = 2
  MaxUsed = 1
  MaxReloads = 1
INVARIANTS SlotsExclusive CountersExact ReservationsFit NoWaiterBesideFreeSlot NoSelfBlock
PROPERTIES GrantsFit HoldKept ModelsFit
