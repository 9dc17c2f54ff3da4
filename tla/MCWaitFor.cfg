CONSTANTS
    Requests = {r1, r2, r3}
    Channels = {c1}
    NoWaiter = NoWaiter
SPECIFICATION FairSpec
INVARIANTS TypeOK NoLostWaiter LocksAreSafe NoLeak
PROPERTIES FifoGrant ShutdownReleasesAll
CHECK_DEADLOCK FALSE
