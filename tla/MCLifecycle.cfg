SPECIFICATION LifecycleSpec
CONSTANTS
    Requests = {d1, d2, w1, w2}
    DrainRequests = {d1, d2}
    Handles = {h1, h2}
    Tasks = {t1, t2}
    Capacity = 2
    MaxReservations = 3
    MaxPositions = 3
    Producers = {p1, p2}
    MaxDepth = 2
    RequestMutations = {d1, d2}
    ProducerMutations = {m1}
    HookMutations = {k1}
    SlotCapacity = 2
    OutboxCapacity = 1
    None = None
INVARIANTS BarriersAreFinal MutationIsNeverCut  
PROPERTIES TurnsAreOrdered DrainsAreFinal EveryWaitEnds StuckHookIsForced
CHECK_DEADLOCK FALSE
