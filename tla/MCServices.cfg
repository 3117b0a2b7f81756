SPECIFICATION MCFairSpec
CONSTANTS
    mission = mission
    chat = chat
    primary = primary
    alternative = alternative
    plan = plan
    prose = prose
    cut = cut
    Turns = 2
    Request <- MCRequest
    Missions <- MCMissions
    Roles <- MCRoles
    Answer <- MCAnswer
    Complete <- MCComplete
    Plans <- MCPlans
    Says <- MCSays
    PromptTokens <- MCPromptTokens
    MaxTokens <- MCMaxTokens
    ContextTokens = 20
    SafetyTokens = 2
    InternalMaxTokens = 6
    MinimumOutput = 2
    MinimumEvidence = 2
    NoAnswer = NoAnswer
    Torn = Torn
    MaxFaults = 1
    MaxRestarts = 1
    l1 = l1
    l2 = l2
    x1 = x1
    i1 = i1
    n1 = n1
    n2 = n2
    LearningObservation <- MCObservation
    Identity <- MCIdentity
    IdOf <- MCIdOf
    Rank <- MCRank
    Failing <- MCFailing
    Batches <- MCBatches
    WorkInput <- MCInput
    BadInput = BadInput
    Modes <- MCModes
    Reconciles = TRUE
    MaxCrashes = 1
    MaxJournalFaults = 1
    Nobody = Nobody
    NoSelection = NoSelection
    e1 = e1
    e1x = e1x
    m1 = m1
    forged = forged
    Message <- MCMessage
    Sound <- MCSound
    Kind <- MCKind
    EpisodeOf <- MCEpisodeOf
    Body <- MCBody
    MaxIntakeFaults = 1
    NoEvent = NoEvent
    TornLine = TornLine
    NoMessage = NoMessage
    Parts = {"gateway", "learning", "intake"}
INVARIANTS ServedIsAccounted ShadowIsOfTheServed JournalReplays LogTellsTheTruth
PROPERTIES TurnsEnd NothingConsumedUnbound WorkIsDoneOnce DebtsArePaid
    DeliveredIsPublished
CHECK_DEADLOCK FALSE
