SPECIFICATION ServerSpec
CONSTANTS
  p1 = p1  p2 = p2
  c1 = c1  c2 = c2  c3 = c3  c4 = c4
  None = None
  Slots = {p1}
  Conns = {c1, c3, c4}
  Seat <- SeatSolo
  First <- FirstSolo
  Watchers = {c4}
  HostSlot = p1
  HasAI = TRUE
  Pausers = {c1}
  Cap = 1
  QueueCap = 2
  Delay = 0
  MaxLead = 1
  HashPeriod = 1
  InitAcks <- MixedAcks
  MaxTick = 3
  MaxSend = 0
  l1 = l1  l2 = l2
  NoOne = NoOne
  Clients = {l1, l2}
  Seats = {1, 2, 3}
  Capacity = {1, 2}
  MaxRooms = 2
  Missions = {FALSE}
  Players = {"ann", "bob"}
  Kinds = {"hall", "monk", "god"}
  Trained = {"monk", "god"}
  Placed = {"hall"}
  Masons = {"monk"}
  Charmers = {"monk"}
  Allowed <- AllowedDef
  UnitCap = 3
  Start <- StartDef
  MaxUnits = 4
  MaxTold = 2
SYMMETRY ClientSymmetry
INVARIANTS
  StreamIsPrefix
  RecordsHold
  HostIsThere
PROPERTIES
  LimitsHold
  WorkIsFronts
CHECK_DEADLOCK FALSE
