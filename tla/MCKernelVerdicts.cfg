SPECIFICATION Spec
CONSTANTS
    c1 = c1
    c2 = c2
    a1 = a1
    v1 = v1
    v2 = v2
    q1 = q1
    g1 = g1
    m1 = m1
    m2 = m2
    NoReceipt = NoReceipt
    NoMission = NoMission
    Contribution <- MCContribution
    HostWork <- MCHostWork
    Verifier <- MCVerifier
    Mission <- MCMission
    MissionOf <- MCMissionOf
    Gene <- MCGene
    GeneOf <- MCGeneOf
    Credit <- MCCredit
    WorkEdge <- MCWorkEdge
    Funding <- MCFunding
    Selection <- MCSelection
    MaxEdges = 2
    RegressionReceipt <- MCRegressionReceipt
    RegressionMission <- MCRegressionMission
    MaxRestarts = 1
    MaxFaults = 0
INVARIANTS NoVerdictIsLost
SYMMETRY VerifierSymmetry
CHECK_DEADLOCK FALSE
