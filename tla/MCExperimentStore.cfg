SPECIFICATION MCFairSpec
CONSTANTS
    s1 = s1
    s2 = s2
    s3 = s3
    p1 = p1
    p2 = p2
    Caller <- MCCaller
    Proposal <- MCProposal
    Operation <- MCOperation
    Histories <- MCHistories
    Stalls <- MCStalls
    MaxCrashes = 1
    NoLock = NoLock
    NoLedger = NoLedger
    NoReference = NoReference
    c1 = c1
    o1 = o1
    o2 = o2
    Candidates <- MCCandidates
    Orders <- MCOrders
    Window = 1
    MaxTasks = 2
    MaxThrows = 1
    MaxSignals = 1
    MaxDeaths = 1
    Torn = Torn
    Parts = {"store", "night"}
INVARIANTS SerializedUnlessStolen AcknowledgedOrUnreadable QueueIsWitnessed
PROPERTIES CallsSettle StartsAreJustified NightWorkIsDone
CHECK_DEADLOCK FALSE
