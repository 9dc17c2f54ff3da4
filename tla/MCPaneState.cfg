SPECIFICATION Spec
CONSTANTS
  c1 = c1
  c2 = c2
  p1 = p1
  Clients = {c1, c2}
  Panes = {p1}
  Scenarios <- MCScenarios
  Titles = {"none", "a"}
  Foregrounds = {"none", "a"}
  Bytes <- MCBytes
  Capacity = 2
  ByteCapacity = 6
  Batch = 2
  OptionLimit = 7
  FrameLimit = 6
  MaxGeneration = 2
INVARIANTS NoMissedChange ClosedIsLast CaughtUpViewIsTrue SnapshotsAreAtomic LagIsReal WatcherCovers SleepersHaveReadAll
CHECK_DEADLOCK FALSE
