------------------------- MODULE CandidateEvolution -------------------------
(***************************************************************************)
(* CandidateEvolutionArchive of src/candidateEvolution.ts: the versions of *)
(* a mission's candidate, the selections of the host and the incumbent.    *)
(* The id of a version is a digest of what was proposed and of the id of   *)
(* its parent, so a version is the sequence of the proposals that led to   *)
(* it.  What a replay of the log yields moves with each event that is      *)
(* appended, by the replay of that event.                                  *)
(***************************************************************************)
EXTENDS ArchiveStore, Integers, Sequences

CONSTANTS
    Mission,
    Proposal,       \* an evaluated candidate with its receipts
    MissionOf,      \* the mission a proposal is for
    Content,        \* its candidate digest
    Source,         \* the digest its transport starts from, or NoSource
    Evidence,       \* its objective evidence
    Milestone,      \* names of protected milestones
    NoSource,       \* the transport is unbounded, not atomic or invalid
    MaxDepth        \* length of a lineage considered (bound)

ASSUME CandidateAssumption ==
    /\ MissionOf \in [Proposal -> Mission]
    /\ \A p \in Proposal : Content[p] # NoSource
    /\ Evidence \in [Proposal -> [quality : Seq(Int), milestones : SUBSET Milestone,
                                  boundary : BOOLEAN, failed : Nat]]
    /\ MaxDepth \in Nat

VARIABLES
    archive,        \* versions, selections and incumbents in memory
    archived,       \* the same as a replay of the log would rebuild them
    evolutionLog    \* the candidate events of the log

evolution == <<archive, archived, evolutionLog>>

Version == Seq(Proposal)
None == <<>>            \* no incumbent
Reason == {"objective-evidence-improved", "objective-evidence-regression",
           "no-objective-evidence-improvement", "invalid-mutation-transport"}
Selection == [before : Version, proposal : Proposal, reason : Reason]
Archive == [versions : SUBSET Version, selections : SUBSET Selection,
            incumbent : [Mission -> Version]]

Empty == [versions |-> {}, selections |-> {}, incumbent |-> [m \in Mission |-> None]]

EvolutionInit ==
    /\ archive = Empty /\ archived = Empty
    /\ evolutionLog = [initialized |-> {}, evaluated |-> {}]

-----------------------------------------------------------------------------
\* compareVector is positive: the first difference decides, and a component
\* that is missing is less than every number.
Exceeds(left, right) ==
    \E i \in DOMAIN left :
        /\ \A j \in 1..(i - 1) : j \in DOMAIN right /\ left[j] = right[j]
        /\ i \in DOMAIN right => left[i] > right[i]

\* A milestone is lost, or more checks fail behind the same boundary.
Regressed(incumbent, mutation) ==
    \/ ~(incumbent.milestones \subseteq mutation.milestones)
    \/ incumbent.boundary /\ mutation.boundary /\ mutation.failed > incumbent.failed

\* Slip: quality is compared before the protected milestones.
JudgementByQuality(incumbent, p) ==
    IF Source[p] # Content[incumbent] THEN "invalid-mutation-transport"
    ELSE IF Exceeds(Evidence[p].quality, Evidence[incumbent].quality)
         THEN "objective-evidence-improved"
    ELSE IF Regressed(Evidence[incumbent], Evidence[p]) THEN "objective-evidence-regression"
    ELSE "no-objective-evidence-improvement"

\* The judgement of consider on a proposal, against the incumbent's one.
Judgement(incumbent, p) ==
    IF Source[p] # Content[incumbent] THEN "invalid-mutation-transport"
    ELSE IF Regressed(Evidence[incumbent], Evidence[p]) THEN "objective-evidence-regression"
    ELSE IF Exceeds(Evidence[p].quality, Evidence[incumbent].quality)
         THEN "objective-evidence-improved"
    ELSE "no-objective-evidence-improvement"

Mutation(s) == Append(s.before, s.proposal)
Promoted(s) == s.reason = "objective-evidence-improved"
After(s) == IF Promoted(s) THEN Mutation(s) ELSE s.before

\* The archive with a first version, which becomes the incumbent.
Started(a, p) ==
    [a EXCEPT !.versions = @ \cup {<<p>>}, !.incumbent[MissionOf[p]] = <<p>>]

\* The archive after consider: the mutation is kept, a better one replaces the
\* incumbent.
Selected(a, s) ==
    [a EXCEPT !.versions = @ \cup {Mutation(s)},
              !.selections = @ \cup {s},
              !.incumbent[MissionOf[s.proposal]] = IF Promoted(s) THEN Mutation(s) ELSE @]

\* Slip: replay does not look for the parent.
RestoresAnything(a, s) == TRUE

\* restoreVersion and restoreSelection accept the event: the parent, which is
\* the incumbent before, is known.
Restores(a, s) == s.before \in a.versions

\* Slip: replay makes every restored mutation the incumbent.
RestoredAsIncumbent(a, s) ==
    [a EXCEPT !.versions = @ \cup {Mutation(s)},
              !.selections = @ \cup {s},
              !.incumbent[MissionOf[s.proposal]] = Mutation(s)]

\* The archive after the replay of a selection: the event names the incumbent.
Restored(a, s) ==
    [a EXCEPT !.versions = @ \cup {Mutation(s)},
              !.selections = @ \cup {s},
              !.incumbent[MissionOf[s.proposal]] = After(s)]

-----------------------------------------------------------------------------
\* initialize: refused when the mission has an incumbent.
Initialize(p) ==
    /\ archive.incumbent[MissionOf[p]] = None
    /\ archive' = Started(archive, p)
    /\ \/ /\ <<p>> \notin evolutionLog.initialized
          /\ evolutionLog' = [evolutionLog EXCEPT !.initialized = @ \cup {<<p>>}]
          /\ archived' = Started(archived, p)
          /\ Persists(TRUE)
       \/ /\ Throws(<<p>> \in evolutionLog.initialized)
          /\ UNCHANGED <<archived, evolutionLog>>

\* consider: refused when the mission has no incumbent.
Consider(p) ==
    LET incumbent == archive.incumbent[MissionOf[p]]
        s == [before |-> incumbent, proposal |-> p,
              reason |-> Judgement(incumbent[Len(incumbent)], p)]
    IN  /\ incumbent # None /\ Len(incumbent) < MaxDepth
        /\ archive' = Selected(archive, s)
        /\ \/ /\ s \notin evolutionLog.evaluated
              /\ evolutionLog' = [evolutionLog EXCEPT !.evaluated = @ \cup {s}]
              /\ archived' = IF Restores(archived, s) THEN Restored(archived, s) ELSE archived
              /\ Persists(Restores(archived, s))
           \/ /\ Throws(s \in evolutionLog.evaluated)
              /\ UNCHANGED <<archived, evolutionLog>>

EvolutionNext == \E p \in Proposal : Initialize(p) \/ Consider(p)

\* The constructor of the next process.
EvolutionReplay == archive' = archived /\ UNCHANGED <<archived, evolutionLog>>

EvolutionTypeOK ==
    /\ {archive, archived} \subseteq Archive
    /\ evolutionLog \in [initialized : SUBSET Version, evaluated : SUBSET Selection]
=============================================================================
