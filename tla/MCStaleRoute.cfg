CONSTANTS
  Walkers = {1}
  Points = {p1, p2}
  NoPoint = NoPoint
  Slots = 1
  MaxPlan = 2
  MaxOrdered = 2
SPECIFICATION PathSpec
PROPERTY OnlyItsLeg
CHECK_DEADLOCK FALSE
