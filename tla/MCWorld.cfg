SPECIFICATION Spec
CONSTANTS
  Viewers = {"v1", "v2"}
  Walkers = {"v1", "v2"}
  Dims = {"over", "nether"}
  Spots = {1, 2, 3}
  ViewDist = 0
  OneLane = {"v2"}
  MaxEdits = 2
  MaxMoves = 2
  MaxChanges = 3
  Width = 3
  Height = 2
  MaxWater = 2
  MaxLava = 2
  LavaStep = 2
  MaxPlaced = 2
  Last = 5
  Limit = 2
  MaxDone = 5
  MaxH = 4
  Thick = 4
  BambooMax = 5
  Moist = 1
  Trunks = {4}
  Samples = 2
  MaxGrown = 1
  Fed = 2
  SlowFed = 1
  FastEvery = 1
  SlowEvery = 2
  Breath = 1
  Chill = 2
  Flames = 2
  RaiseTicks = 1
  StunTicks = 2
  Pulse = 2
  Often = 2
  Amps = {0, 1, 40, 128}
  Deep = 2
CHECK_DEADLOCK FALSE
INVARIANTS
    SeesTheWorld
    SettledAsDefined
    StonesKept
    AsCommanded
PROPERTIES
    GrowthSound
    BodySound
