SPECIFICATION ThreadsSpec
CONSTANTS
  Workers = {w1, w2}
  Caller = main
  MaxCount = 3
  MaxRuns = 2
  HashPeriod = 2
  Spectator = TRUE
  EndTick = 3
  MaxTick = 5
  Helpers = {h1, h2}
  Owner = owner
  Chunk = 2
  MaxItems = 3
  MaxLoops = 2
  p1 = p1  p2 = p2  c1 = c1  c2 = c2  c3 = c3
  None = None
  Slots = {p1, p2}
  Conns = {c1, c2, c3}
  Seat <- SeatDef
  First <- FirstDef
  Worlds = {"true", "bad", "worse"}
  True = "true"
  MaxHashTicks = 1
  Ring = 1
  RefMayErr = TRUE
  MaxTicks = 2
  Slides = {2}
  Turns = {1}
  Rail = 2
  Circle = 4
  SliceOps = 1
  MaxThreads = 2
INVARIANTS ExactlyOnce FramesHold AckIsProcessed
PROPERTIES CallsReturn ImplementsParallelFor ImplementsInline StopEnds LoopIsWhole
  HonestAreSpared
  DesyncIsFound
  WaitsEnd
CHECK_DEADLOCK FALSE
