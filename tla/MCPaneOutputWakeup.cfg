SPECIFICATION Spec
CONSTANTS
  l1 = l1
  l2 = l2
  p1 = p1
  w1 = w1
  s1 = s1
  s2 = s2
  Live = {l1, l2}
  Plain = {p1}
  Web = {}
  RawStreams = {}
  SurfaceStreams = {}
  Populations <- MCTwoLive
  EventCapacity = 1
  RecentCapacity = 1
  FastCapacity = 1
  MaxGeneration = 0
  MaxOutputs = 1
  MaxInvalidations = 0
INVARIANT NoLostWakeup
CHECK_DEADLOCK FALSE
