SPECIFICATION MCSpec
CONSTANTS
    c1 = c1
    c2 = c2
    c3 = c3
    d1 = d1
    v1 = v1
    m1 = m1
    m2 = m2
    e1 = e1
    e2 = e2
    a1 = a1
    a2 = a2
    r1 = r1
    r2 = r2
    r3 = r3
    s1 = s1
    s2 = s2
    t1 = t1
    t2 = t2
    t3 = t3
    Contribution <- MCContribution
    HostWork <- MCHostWork
    Verifier <- MCVerifier
    Mission <- MCMission
    MissionOf <- MCMissionOf
    OfferedKind = {"produced", "invalidated"}
    MaxEdges = 4
    MissionId <- MCMissionId
    ActorId <- MCActorId
    ReservationId <- MCReservationId
    MaxAllocation = 2
    MaxCloses = 2
    Agent <- MCAgent
    SwarmTask <- MCSwarmTask
    Offer <- MCOffer
    Endowment = 2
    ClaimCost = 1
    PartialPay = {0}
    Pay = {1}
    RefCounts = {1, 2, 3}
    FieldRefs = 1
    TaskRefs = 2
    MaxAssignments = 4
    Absent = Absent
    NoAgent = NoAgent
    NoTask = NoTask
    BoardEntry <- MCBoardEntry
    Criterion = {k1}
    UnitsAllowed = {5, 6, 7}
    RepairCycles = 1
    BoardLimit = 5
    RequireArtifact = TRUE
    RequireTest = TRUE
    MaxEntries = 1
    NoVerdict = NoVerdict
    Receipt <- MCReceipt
    NoCandidate = NoCandidate
    Parts = {"gates"}
INVARIANTS HoldoutsAreCompared
CHECK_DEADLOCK FALSE
