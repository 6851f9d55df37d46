SPECIFICATION FairSpec
CONSTANTS
  p1 = p1  p2 = p2
  c1 = c1  c2 = c2  c3 = c3  c4 = c4
  None = None
  Slots = {p1, p2}
  Conns = {c1, c2, c3}
  Seat <- SeatOf
  First <- FirstDef
  Watchers = {}
  HostSlot = p1
  HasAI = FALSE
  Pausers = {c1}
  Cap = 1
  QueueCap = 2
  Delay = 0
  MaxLead = 1
  HashPeriod = 1
  InitAcks <- NewAcks
  MaxTick = 2
  MaxSend = 0
PROPERTIES
  HostForfeits
CHECK_DEADLOCK FALSE
