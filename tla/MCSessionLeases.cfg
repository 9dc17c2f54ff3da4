SPECIFICATION FairSpec
CONSTANTS
    Names = {"a", "b"}
    Ttl = 3
    Threshold = 2
    MaxStall = 4
    MaxToken = 2
    Scenarios <- ScenariosValue
INVARIANTS PreservedIsKept LeasesHaveSessions
PROPERTIES ReapedInTime NobodyIsForgotten
CHECK_DEADLOCK FALSE
