SPECIFICATION MCSpec
CONSTANTS
    OfferedManifest <- MCOfferedManifest
    OfferedProposal <- MCOfferedProposal
    OfferedOutcome <- MCOfferedOutcome
    ActorKind = {"human", "model"}
    NoProposal = NoProposal
    NoOutcome = NoOutcome
    g1 = g1
    g2 = g2
    g3 = g3
    Line = {1, 2}
    MaxModelCalls = 2
    MaxToolCalls = 5
    Unseen = Unseen
    Run <- MCRun
    StageOf <- MCStageOf
    ReplicateOf <- MCReplicateOf
    OutputOf <- MCOutputOf
    PriorOf <- MCPriorOf
    Nil = Nil
    Torn = Torn
INVARIANTS VerdictFollowsEvidence SkillsAreHonest
CHECK_DEADLOCK FALSE
