SPECIFICATION FairSpec
CONSTANTS
  c1 = c1
  c2 = c2
  c3 = c3
  c4 = c4
  c5 = c5
  Calls = {c1, c2, c3, c4, c5}
  Scenarios <- MCScenarios
  CommandCap = 1
  SocketCap = 1
INVARIANTS AnswersStayAligned ArmedIsArmed ShutdownLosesNothing
PROPERTIES CallersAreAnswered OrphansAreReleased
CHECK_DEADLOCK FALSE
