SPECIFICATION Spec
CONSTANTS
  p1 = p1  p2 = p2
  c1 = c1  c2 = c2  c3 = c3  c4 = c4
  None = None
  Slots = {p1}
  Conns = {c1, c3, c4}
  Seat <- SeatSolo
  First <- FirstSolo
  Watchers = {c4}
  HostSlot = p1
  HasAI = TRUE
  Pausers = {}
  Cap = 1
  QueueCap = 2
  Delay = 0
  MaxLead = 1
  HashPeriod = 1
  InitAcks <- MixedAcks
  MaxTick = 3
  MaxSend = 0
PROPERTY FlowControl
CHECK_DEADLOCK FALSE
