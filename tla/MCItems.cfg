SPECIFICATION ItemsSpec
CONSTANTS
  Players = {"p1", "p2"}
  Box <- MCBox
  Screens <- MCScreens
  Limit = 2
  Starts <- MCStarts
  CookTotal = 2
  FuelTicks = 3
  FuelPerBlaze = 1
  BrewTicks = 2
  Leavers = {"p1"}
  Cap = 2
  Depth = 2
  Meddling = 2
  Drops = 2
  Turns = 3
  Ids = {1, 2, 3}
  Flights = {1, 2}
  FuseTicks = 1
  MaxBabies = 2
  Height = 5
  Cooldown = 2
CHECK_DEADLOCK FALSE
INVARIANTS
    ScreensSound
    FlowKept
    MatterKept
PROPERTIES
    BreaksWhatWasDug
