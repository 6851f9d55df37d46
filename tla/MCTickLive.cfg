SPECIFICATION LiveSpec
CONSTANTS
  p1 = p1  p2 = p2
  c1 = c1  c2 = c2  c3 = c3  c4 = c4
  None = None
  Slots = {p1, p2}
  Conns = {c1, c2, c3}
  Seat <- SeatOf
  First <- FirstDef
  Watchers = {}
  HostSlot = p1
  HasAI = FALSE
  Pausers = {}
  Cap = 1
  QueueCap = 2
  Delay = 1
  MaxLead = 1
  HashPeriod = 1
  InitAcks <- StaleAcks
  MaxTick = 3
  MaxSend = 2
  Sizes = {2, 3}
  SocketCap = 3
  TxLimit = 3
  TxCompactAt = 2
  PassPieces = 2
  RxLimit = 4
  RxCompactAt = 2
  MaxFrames = 4
INVARIANTS
  OrdersKeptInOrder
  NothingOutlivesTheDrop
  PauseHasAnEnd
PROPERTIES
  LeadIsBounded
  EventsGetSequenced
  ImplementsBundleStream
  ImplementsLink
CHECK_DEADLOCK FALSE
