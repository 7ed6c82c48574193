SPECIFICATION Spec
CONSTANTS
  Width = 2
  Height = 2
  MaxWater = 7
  MaxLava = 6
  LavaStep = 2
  Scenes <- Waterfall
  Placed = {}
  MaxPlaced = 0
PROPERTY TickReturns
CHECK_DEADLOCK FALSE
