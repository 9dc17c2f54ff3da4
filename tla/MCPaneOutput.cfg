SPECIFICATION Spec
CONSTANTS
  l1 = l1
  l2 = l2
  p1 = p1
  w1 = w1
  s1 = s1
  s2 = s2
  Live = {l1}
  Plain = {p1}
  Web = {w1}
  RawStreams = {s1}
  SurfaceStreams = {s2}
  Populations <- MCPopulations
  EventCapacity = 1
  RecentCapacity = 1
  FastCapacity = 1
  MaxGeneration = 1
  MaxOutputs = 2
  MaxInvalidations = 1
INVARIANTS OutputAccounted ExitsReportedOnce NoLostWakeup OldProcessIsSilent
CHECK_DEADLOCK FALSE
