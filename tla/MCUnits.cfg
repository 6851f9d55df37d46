SPECIFICATION UnitsSpec
CONSTANTS
  Walkers = {1, 2, 3}
  Points = {p1}
  NoPoint = NoPoint
  Slots = 1
  MaxPlan = 2
  MaxOrdered = 3
  LastUnit = 4
  Carriers = {1, 3}
  Riders = {2, 3, 4}
  Cap = 1
  MaxGiven = 3
  FogCells = {1, 2}
  Maps = {"flat", "ridge"}
  Sight <- SightDef
  Radar <- RadarDef
  Watchers = {"scout"}
  Antennas = {"mast"}
  MaskLimit = 2
  Beat = 2
INVARIANTS SlotsAgree StopIsStop HoldsAgree
PROPERTIES Served LostWithAllHands FogFollows
CHECK_DEADLOCK FALSE
