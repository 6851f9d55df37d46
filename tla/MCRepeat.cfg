SPECIFICATION RepeatSpec
CONSTANTS
  Players = {"ann", "bob"}
  Kinds = {"hall", "monk", "god"}
  Trained = {"monk", "god"}
  Placed = {"hall"}
  Masons = {"monk"}
  Charmers = {"monk"}
  Allowed <- AllowedDef
  UnitCap = 4
  Start <- StartDef
  MaxUnits = 4
  MaxTold = 3
INVARIANTS AskedFor
CHECK_DEADLOCK FALSE
