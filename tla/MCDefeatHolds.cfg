CONSTANTS
  ann = ann
  bob = bob
  cyd = cyd
  Players = {ann, bob, cyd}
  Team <- FreeForAll
  HashPeriod = 1
  MaxLead = 2
  LastTick = 5
SPECIFICATION EndSpec
PROPERTY TheRestPlayOn
CHECK_DEADLOCK FALSE
