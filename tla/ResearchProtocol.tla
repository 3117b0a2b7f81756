--------------------------- MODULE ResearchProtocol ---------------------------
(***************************************************************************)
(* The contracts of a research experiment: what an evaluation manifest, a  *)
(* proposal and an outcome may say (swarm/src/experimentProtocol.js), when *)
(* an outcome makes its candidate eligible, what an evaluator attests      *)
(* (evaluationAttestation.js), and the ledger that these end up in.  One   *)
(* experiment; ExperimentStore is about its files.                         *)
(* Ids, dates and digests are taken as well formed; a digest stands for    *)
(* what it is a digest of, and a measurement's baseline is 0, so that its  *)
(* value is its delta.                                                     *)
(***************************************************************************)
EXTENDS Integers, Sequences, FiniteSets

CONSTANTS
    OfferedManifest, OfferedProposal, OfferedOutcome,  \* what callers submit
    ActorKind,          \* kinds of actors that record events
    NoProposal, NoOutcome

\* What the field checks of experimentProtocol.js leave.
ASSUME ResearchAssumption ==
    /\ ActorKind \subseteq {"human", "model", "hybrid", "service"}
    /\ NoProposal \notin OfferedProposal /\ NoOutcome \notin OfferedOutcome
    /\ \A m \in OfferedManifest :
          /\ m.direction \in [m.metrics -> {"increase", "decrease", "floor"}]
          /\ {m.lift, m.slack, m.floor, m.repetitions} \subseteq Int
    /\ \A p \in OfferedProposal :
          /\ p.proposer \in {"human", "model", "hybrid", "service"}
          /\ p.budget \in Int /\ \A x \in p.predictions : x.delta \in Int
    /\ \A o \in OfferedOutcome :
          /\ {"status", "artifact", "usage", "safe", "receipts", "reproductions", "measured"}
                \subseteq DOMAIN o
          /\ {o.usage, o.receipts} \subseteq Int
          /\ o.measured \in [DOMAIN o.measured -> [delta : Int, repetitions : Int]]

Partition == {"development", "validation", "sealed", "canary"}

VARIABLES
    experiment,     \* the proposal of the experiment, which names its manifest
    events,         \* its ledger: type and actor kind of each event
    attestation,    \* what the evaluator signed: an outcome and whether it is eligible
    evidence        \* what was recorded with an attestation

researchVars == <<experiment, events, attestation, evidence>>

Nothing == [outcome |-> NoOutcome, eligible |-> FALSE, signed |-> FALSE]

ResearchInit ==
    /\ experiment = NoProposal
    /\ events = << >>
    /\ attestation = Nothing
    /\ evidence = Nothing

-----------------------------------------------------------------------------
\* validateResearchEvaluationManifest
Floors(m) == {x \in m.metrics : m.direction[x] = "floor"}

ValidManifest(m) ==
    /\ m.primaries = {m.primary} /\ m.primary \in m.metrics
    /\ m.safety # {} /\ m.safety \subseteq Floors(m)
    /\ m.repetitions > 0
    /\ m.status = "frozen" => m.repetitions >= 3 /\ m.reproduction

\* validateReview: who reviews changes of a level, and how many approve.
ValidReview(review, level) ==
    /\ level >= 5 => review.path = "council" /\ review.approvals >= 2
    /\ level \in {3, 4} => review.path # "owner" /\ review.approvals >= 2

ValidPredictions(predictions) ==
    /\ \A x \in predictions : x.partition \in {"development", "validation"}
    /\ \A x, y \in predictions :
          x.metric = y.metric /\ x.partition = y.partition => x = y
    /\ \E x \in predictions : x.required

\* validateResearchExperimentProposal; surfaces are the levels they require.
ValidProposal(p, m) ==
    /\ ValidManifest(m) /\ p.manifest = m
    /\ p.surfaces # {} /\ \A s \in p.surfaces : s <= p.level
    /\ ValidPredictions(p.predictions)
    /\ {x.metric : x \in p.predictions} \subseteq m.metrics
    /\ p.level >= 2 => p.data # {}
    /\ p.level >= 3 => \E uses \in p.data : "training" \in uses
    /\ ValidReview(p.review, p.level)
    /\ p.rollback = p.parent

\* validateResearchExperimentOutcome; measured maps a metric and a partition to
\* a delta and its repetitions.
ValidOutcome(o, p, m) ==
    /\ o.proposal = p.id /\ o.source = p.source /\ o.manifest = m.id
    /\ \A key \in DOMAIN o.measured :
          /\ key[1] \in m.metrics /\ key[2] \in Partition
          /\ o.measured[key].repetitions > 0
    /\ o.status = "completed" => DOMAIN o.measured # {} /\ ~o.failure
    /\ o.status # "completed" => o.failure
    /\ o.safe <=> o.failedFloors = {}
    /\ o.failedFloors \subseteq m.safety

-----------------------------------------------------------------------------
\* evaluateResearchPromotion
PredictionPassed(x, delta) ==
    CASE x.direction = "increase" -> delta >= x.delta
      [] x.direction = "decrease" -> -delta >= x.delta
      [] OTHER -> delta >= -x.delta

PredictionHolds(x, o) ==
    LET key == <<x.metric, x.partition>>
    IN  key \in DOMAIN o.measured /\ PredictionPassed(x, o.measured[key].delta)

Improved(direction, delta, lift) ==
    CASE direction = "increase" -> delta >= lift
      [] direction = "decrease" -> -delta >= lift
      [] OTHER -> TRUE

PrimaryImproved(m, o) ==
    LET key == <<m.primary, "sealed">>
    IN  /\ key \in DOMAIN o.measured
        /\ o.measured[key].repetitions >= m.repetitions
        /\ Improved(m.direction[m.primary], o.measured[key].delta, m.lift)

\* The canary measurement of a floor goes before the sealed one.
FloorHolds(x, m, o) ==
    LET canary == <<x, "canary">>
        sealed == <<x, "sealed">>
    IN  \/ canary \in DOMAIN o.measured /\ o.measured[canary].delta >= m.floor
        \/ /\ canary \notin DOMAIN o.measured
           /\ sealed \in DOMAIN o.measured /\ o.measured[sealed].delta >= m.floor

\* Slip: a secondary metric regresses when it falls, whatever its direction.
RegressionWhenFalling(direction, delta) == IF delta < 0 THEN -delta ELSE 0

Regression(direction, delta) ==
    LET worse == IF direction = "increase" THEN -delta ELSE delta
    IN  IF worse > 0 THEN worse ELSE 0

SecondaryBounded(m, o) ==
    \A x \in m.metrics \ (Floors(m) \cup {m.primary}) :
        LET key == <<x, "sealed">>
        IN  key \in DOMAIN o.measured =>
               Regression(m.direction[x], o.measured[key].delta) <= m.slack

PromotionEligible(p, m, o) ==
    /\ m.status = "frozen"
    /\ o.status = "completed"
    /\ o.artifact # p.parent
    /\ o.usage <= p.budget
    /\ o.safe
    /\ \A x \in p.predictions : x.required => PredictionHolds(x, o)
    /\ PrimaryImproved(m, o)
    /\ \A x \in m.safety : FloorHolds(x, m, o)
    /\ SecondaryBounded(m, o)
    /\ m.reproduction => \E r \in o.reproductions : r.independent /\ r.matched
    /\ o.receipts > 0

-----------------------------------------------------------------------------
Transition ==
    [proposed   |-> [approved |-> "approved", rejected |-> "rejected",
                     quarantined |-> "quarantined"],
     approved   |-> [started |-> "running", aborted |-> "aborted",
                     quarantined |-> "quarantined"],
     running    |-> [outcome_recorded |-> "evaluating", aborted |-> "aborted",
                     quarantined |-> "quarantined"],
     evaluating |-> [promoted |-> "promoted", rejected |-> "rejected",
                     quarantined |-> "quarantined"],
     promoted   |-> [reverted |-> "reverted"]]

Governed == {"approved", "promoted", "rejected", "quarantined", "reverted"}

\* The state after the first n events, as validateResearchExperimentLedger folds
\* them.
StateAfter(n) ==
    LET at[i \in 1 .. n] ==
            IF i = 1 THEN "proposed" ELSE Transition[at[i - 1]][events[i].type]
    IN  at[n]
LedgerState == StateAfter(Len(events))

\* initializeExperiment and createResearchExperimentLedger
InitializeResearch(p, m) ==
    /\ experiment = NoProposal
    /\ ValidProposal(p, m)
    /\ experiment' = p
    /\ events' = <<[type |-> "proposal_recorded", by |-> p.proposer]>>
    /\ UNCHANGED <<attestation, evidence>>

MayRecord(type, by) == type \in Governed => by # "model"

\* appendResearchExperimentEvent
AppendResearchEvent(type, by) ==
    /\ experiment # NoProposal
    /\ LedgerState \in DOMAIN Transition /\ type \in DOMAIN Transition[LedgerState]
    /\ MayRecord(type, by)
    /\ events' = Append(events, [type |-> type, by |-> by])
    /\ UNCHANGED <<experiment, attestation, evidence>>

\* createResearchEvaluationAttestation, once (bound)
CreateAttestation(o) ==
    /\ experiment # NoProposal /\ attestation = Nothing
    /\ ValidOutcome(o, experiment, experiment.manifest)
    /\ attestation' = [outcome |-> o, signed |-> TRUE,
                       eligible |-> PromotionEligible(experiment, experiment.manifest, o)]
    /\ UNCHANGED <<experiment, events, evidence>>

\* On its way to the store an attestation may be altered; its signature is then
\* of something else.
Alter ==
    /\ attestation.signed
    /\ attestation' = [attestation EXCEPT !.eligible = ~@, !.signed = FALSE]
    /\ UNCHANGED <<experiment, events, evidence>>

\* verifyResearchEvaluationAttestation judges the evidence again.
AttestationHolds(a, o) ==
    /\ a.outcome = o
    /\ a.eligible = PromotionEligible(experiment, experiment.manifest, o)
    /\ a.signed

\* recordAttestedOutcome
RecordAttestedOutcome(o) ==
    /\ experiment # NoProposal /\ LedgerState = "running"
    /\ AttestationHolds(attestation, o)
    /\ ValidOutcome(o, experiment, experiment.manifest)
    /\ events' = Append(events, [type |-> "outcome_recorded", by |-> "service"])
    /\ evidence' = attestation
    /\ UNCHANGED <<experiment, attestation>>

EventTypes == UNION {DOMAIN Transition[s] : s \in DOMAIN Transition}

ResearchNext ==
    \/ \E p \in OfferedProposal, m \in OfferedManifest : InitializeResearch(p, m)
    \/ \E type \in EventTypes, by \in ActorKind : AppendResearchEvent(type, by)
    \/ \E o \in OfferedOutcome : CreateAttestation(o) \/ RecordAttestedOutcome(o)
    \/ Alter

ResearchSpec == ResearchInit /\ [][ResearchNext]_researchVars

-----------------------------------------------------------------------------
ResearchTypeOK ==
    /\ experiment \in OfferedProposal \cup {NoProposal}
    /\ events \in Seq([type : EventTypes \cup {"proposal_recorded"},
                       by : {"human", "model", "hybrid", "service"}])
    /\ \A a \in {attestation, evidence} :
          /\ {a.eligible, a.signed} \subseteq BOOLEAN
          /\ a = Nothing \/ a.outcome \in OfferedOutcome

\* Whether the decision takes a lower measurement for the better one: as the
\* prediction about it says, or else the direction of its metric.
LessIsBetter(p, m, key) ==
    LET about == {x \in p.predictions : <<x.metric, x.partition>> = key}
    IN  IF about = {} THEN m.direction[key[1]] = "decrease"
        ELSE \E x \in about : x.direction = "decrease"

\* The evidence o made better in one respect: a measurement one unit further in
\* the direction that the decision reads it or repeated once more, less usage,
\* one more receipt, an independent reproduction that matches.
Better(p, m, o) ==
    LET further(key) == IF LessIsBetter(p, m, key) THEN -1 ELSE 1
    IN  {[o EXCEPT !.measured[key].delta = @ + further(key)] : key \in DOMAIN o.measured}
        \cup {[o EXCEPT !.measured[key].repetitions = @ + 1] : key \in DOMAIN o.measured}
        \cup {[o EXCEPT !.usage = @ - 1], [o EXCEPT !.receipts = @ + 1],
              [o EXCEPT !.reproductions = @ \cup {[independent |-> TRUE, matched |-> TRUE]}]}

\* A recorded verdict is the one that the evidence deserves, better evidence
\* never makes a candidate ineligible, and no experiment runs, is evaluated,
\* promoted or reverted without a word of somebody who is not a model.
\* What is better the prediction says before the metric does: a prediction of no
\* regression bounds a fall also of a metric that is to decrease, so that its
\* improvement can cost the verdict.
\* (experimentProtocol.js:516-623, 665-735, 807-811, evaluationAttestation.js:54-82)
VerdictFollowsEvidence ==
    /\ ResearchTypeOK
    /\ evidence # Nothing =>
          LET m == experiment.manifest
          IN  /\ evidence.eligible <=> PromotionEligible(experiment, m, evidence.outcome)
              /\ evidence.eligible =>
                    \A o \in Better(experiment, m, evidence.outcome) :
                       PromotionEligible(experiment, m, o)
    /\ \A i \in DOMAIN events :
          /\ events[i].type \in {"promoted", "rejected", "reverted"} => events[i].by # "model"
          /\ events[i].type \in {"started", "outcome_recorded", "promoted", "reverted"} =>
                \E h \in 1 .. i - 1 : events[h].type = "approved" /\ events[h].by # "model"
=============================================================================
