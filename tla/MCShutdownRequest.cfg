SPECIFICATION FairSpec
CONSTANTS
    Threads = {t1, t2}
    Connections = {c1, c2}
    MaxOperations = 3
    None = None
    Reaper = Reaper
    Unscheduled = Unscheduled
PROPERTIES ExitScopeIsTight PendingIsServed
CHECK_DEADLOCK FALSE
