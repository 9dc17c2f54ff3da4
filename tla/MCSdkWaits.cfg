SPECIFICATION Spec
CONSTANTS
  r1 = r1
  r2 = r2
  c1 = c1
  c2 = c2
  o1 = o1
  w1 = w1
  w2 = w2
  Requests = {r1, r2}
  Connections = {c1, c2}
  Owners = {o1}
  WaitIds = {w1, w2}
  Payloads <- MCPayloads
  Needle <- MCNeedle
  EventCapacity = 1
  RecentCapacity = 3
  GlobalLimit = 2
  ConnectionLimit = 1
  OwnerLimit = 2
  PaneLimit = 2
  FinishedLimit = 1
  PendingCancelLimit = 1
  MaxEvents = 3
INVARIANTS NoMissedMatch AnswersAreOwn QuotaIsExact CancelReachesTask
SYMMETRY MCSymmetry
CHECK_DEADLOCK FALSE
