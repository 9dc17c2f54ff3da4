SPECIFICATION Spec
CONSTANTS
    Threads = {t1, t2}
    Connections = {c1}
    MaxOperations = 4
    None = None
    Reaper = Reaper
    Unscheduled = Unscheduled
INVARIANTS
    KillServerIsKept
CHECK_DEADLOCK FALSE
