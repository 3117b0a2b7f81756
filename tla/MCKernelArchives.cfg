SPECIFICATION Spec
CONSTANTS
    first = first
    better = better
    rash = rash
    best = best
    other = other
    m1 = m1
    m2 = m2
    root = root
    child = child
    twin = twin
    syntax = syntax
    NoSource = NoSource
    Mission <- MCMission
    Proposal <- MCProposal
    MissionOf <- MCMissionOf
    Content <- MCContent
    Source <- MCSource
    Evidence <- MCEvidence
    Milestone = {syntax}
    MaxDepth = 3
    Gene <- MCGene
    Parents <- MCParents
    AdmissionId <- MCAdmissionId
    Judged <- MCJudged
    MaxFaults = 2
INVARIANTS RestartChangesNothing LogIsInherited
PROPERTIES IncumbentNeverWeakens
CHECK_DEADLOCK FALSE
