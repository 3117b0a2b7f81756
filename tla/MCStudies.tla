------------------------------ MODULE MCStudies ------------------------------
(* Studies of what a model has learned, which share nothing: a research     *)
(* experiment, the tasks of skill learning and its stages.  An initial      *)
(* state says which one is explored; the others rest.                       *)
EXTENDS ResearchProtocol, SkillLearning

CONSTANTS g1, g2, g3

VARIABLE part

\* An increasing primary metric, a decreasing secondary one and a safety floor;
\* one manifest repeats its measurements too seldom, one is not frozen.
MCManifestWith(status, reproduction, repetitions) ==
    [id |-> status, status |-> status, metrics |-> {"quality", "cost", "integrity"},
     primary |-> "quality", primaries |-> {"quality"},
     direction |-> [quality |-> "increase", cost |-> "decrease", integrity |-> "floor"],
     safety |-> {"integrity"}, repetitions |-> repetitions, reproduction |-> reproduction,
     lift |-> 1, slack |-> 1, floor |-> 0]
MCFrozen == MCManifestWith("frozen", TRUE, 3)
MCDevelopment == MCManifestWith("development", FALSE, 1)
MCOfferedManifest == {MCFrozen, MCManifestWith("frozen", TRUE, 2), MCDevelopment}

\* Proposals of levels 1, 3 and 5; the one of level 3 lacks its reviewers.  One
\* predicts of a metric that is to decrease that it does not regress.
MCProposalWith(id, m, level, review, data, metric, direction) ==
    [id |-> id, manifest |-> m, proposer |-> "model", parent |-> "a0", rollback |-> "a0",
     source |-> "s1", level |-> level, surfaces |-> {1, level}, budget |-> 1,
     predictions |-> {[metric |-> metric, partition |-> "validation",
                       direction |-> direction, delta |-> 0, required |-> TRUE]},
     data |-> data, review |-> review]
MCOfferedProposal ==
    LET owner == [path |-> "owner", approvals |-> 1]
        council == [path |-> "council", approvals |-> 2]
    IN  {MCProposalWith("x1", MCFrozen, 1, owner, {}, "cost", "decrease"),
         MCProposalWith("x2", MCFrozen, 3, owner, {{"training"}}, "cost", "decrease"),
         MCProposalWith("x3", MCFrozen, 5, council, {{"research"}, {"training"}},
                        "quality", "no_regression"),
         MCProposalWith("x5", MCFrozen, 1, owner, {}, "cost", "no_regression"),
         MCProposalWith("x4", MCDevelopment, 1, owner, {}, "cost", "decrease")}

\* A quality that rises by one, a cost that moves by d, and an integrity of g,
\* measured sealed, as a canary too, or not at all.
MCMeasure(d, g, floors) ==
    LET sealed == {<<"quality", "sealed">>, <<"cost", "sealed">>}
        validated == {<<"quality", "validation">>, <<"cost", "validation">>}
        delta(key) ==
            CASE key[1] = "quality" -> 1
              [] key[1] = "cost" -> d
              [] OTHER -> IF key[2] = "canary" THEN 0 ELSE g
    IN  [key \in sealed \cup validated \cup floors |->
            [delta |-> delta(key), repetitions |-> 3]]
MCMeasured ==
    {MCMeasure(d, g, floors) : d \in {-1, 0, 1, 2}, g \in {-1, 0},
        floors \in {{}, {<<"integrity", "sealed">>},
                    {<<"integrity", "sealed">>, <<"integrity", "canary">>}}}

\* An outcome of each proposal for every measurement, and outcomes in which one
\* other thing is wrong.
MCOutcome(id, manifest, measured) ==
    [proposal |-> id, manifest |-> manifest, source |-> "s1", status |-> "completed",
     failure |-> FALSE, artifact |-> "a1", usage |-> 1, safe |-> TRUE, failedFloors |-> {},
     receipts |-> 1, reproductions |-> {[independent |-> TRUE, matched |-> TRUE]},
     measured |-> measured]
MCSpoilt(o) ==
    {[o EXCEPT !.artifact = "a0"], [o EXCEPT !.usage = 2], [o EXCEPT !.receipts = 0],
     [o EXCEPT !.reproductions = {}], [o EXCEPT !.status = "failed", !.failure = TRUE],
     [o EXCEPT !.safe = FALSE, !.failedFloors = {"integrity"}]}
MCOfferedOutcome ==
    {MCOutcome("x4", "development", measured) : measured \in MCMeasured}
    \cup {MCOutcome(id, "frozen", measured) : id \in {"x1", "x3", "x5"}, measured \in MCMeasured}
    \cup UNION {MCSpoilt(MCOutcome(id, "frozen", MCMeasure(0, 0, {<<"integrity", "sealed">>}))) :
                   id \in {"x1", "x3"}}

\* Two dispatches of stage A that were given one directory, of which the second
\* is another replicate's, and a stage B that goes on from there.
MCRun == {g1, g2, g3}
MCStageOf == [r \in MCRun |-> IF r = g3 THEN "B" ELSE "A"]
MCReplicateOf == [r \in MCRun |-> IF r = g2 THEN 1 ELSE 0]
MCOutputOf == [r \in MCRun |-> IF r = g3 THEN "next" ELSE "first"]
MCPriorOf == [r \in {g3} |-> "first"]

\* The given study takes a step.
InResearch == part = "research" /\ UNCHANGED <<part, taskWorldVars, stageVars>>
InSkills == part = "skills" /\ UNCHANGED <<part, researchVars, stageVars>>
InStages == part = "stages" /\ UNCHANGED <<part, researchVars, taskWorldVars>>

MCInit ==
    /\ part \in {"research", "skills", "stages"}
    /\ ResearchInit /\ TaskStart /\ StageInit
    /\ part # "skills" => task = Fresh("asking", TRUE) /\ world = CHOOSE w \in Worlds : w.mode = "none"

MCNext ==
    \/ InResearch /\ \E p \in OfferedProposal, m \in OfferedManifest : InitializeResearch(p, m)
    \/ InResearch /\ \E type \in EventTypes, by \in ActorKind : AppendResearchEvent(type, by)
    \/ InResearch /\ \E o \in OfferedOutcome : CreateAttestation(o)
    \/ InResearch /\ \E o \in OfferedOutcome : RecordAttestedOutcome(o)
    \/ InResearch /\ Alter
    \/ InSkills /\ Ask
    \/ InSkills /\ EndTurn
    \/ InSkills /\ OverBudget
    \/ InSkills /\ InvokeSkill
    \/ InSkills /\ SkillReturns
    \/ InSkills /\ Deadline
    \/ InSkills /\ \E o \in Order, l \in Line : ReserveLine(o, l)
    \/ InSkills /\ \E o \in Order : ConfirmOrder(o)
    \/ InSkills /\ \E o \in Order : CreateInvoice(o)
    \/ InSkills /\ \E o \in Order, reference \in {"other", "right"} : AnnotateInvoice(o, reference)
    \/ InSkills /\ \E o \in Order : UnsafeRetry(o)
    \/ InSkills /\ \E kind \in Kind, o \in Order : InspectRecord(kind, o)
    \/ InSkills /\ Forbidden
    \/ InSkills /\ RefusedCall
    \/ InSkills /\ TeachBegin
    \/ InSkills /\ TeachPass
    \/ InSkills /\ TeachReserve
    \/ InSkills /\ TeachConfirm
    \/ InSkills /\ TeachCreate
    \/ InSkills /\ TeachAnnotate
    \/ InStages /\ \E r \in Run : StartStage(r)
    \/ InStages /\ \E r \in Run : LoadPrior(r)
    \/ InStages /\ \E r \in Run : WriteManifest(r)
    \/ InStages /\ \E r \in Run : WriteProbe(r)
    \/ InStages /\ \E r \in Run : Acquire(r)
    \/ InStages /\ \E r \in Run : RunCase(r)
    \/ InStages /\ \E r \in Run : StageEnds(r)
    \/ InStages /\ \E r \in Run : SaveLibrary(r)
    \/ InStages /\ \E r \in Run : WriteReport(r)
    \/ InStages /\ \E r \in Run : Complete(r)
    \/ InStages /\ \E r \in Run : StageFails(r)
    \/ InStages /\ \E r \in Run : Dies(r)

MCSpec == MCInit /\ [][MCNext]_<<part, researchVars, taskWorldVars, stageVars>>
=============================================================================
