---------------------------- MODULE AdapterGates ----------------------------
(***************************************************************************)
(* The candidate ledger of swarm/src/adapterCandidates.js with the script  *)
(* swarm/scripts/recordAdapterCandidateGates.js: how an adapter comes from *)
(* its training to production.  A gate is recorded on a copy of the        *)
(* candidate, which its caller keeps; a call that throws leaves it as it   *)
(* was.  A receipt is what its digest stands for: of which kind it is,     *)
(* whether it is about this adapter and its base, whether it is in the     *)
(* adapter's favour, and whether it has enough checked missions.           *)
(***************************************************************************)
EXTENDS Naturals, Sequences, SequencesExt

CONSTANTS
    Receipt,            \* [kind, names, good, ready] of the receipts callers have
    NoCandidate

VARIABLES
    candidate           \* the candidate as its keeper has it

gateVars == <<candidate>>

\* ADAPTER_CANDIDATE_GATES
Ladder == <<"trained", "frozen-holdout", "sealed-holdout", "shadow", "canary", "promoted">>
ResearchRecordable == {"trained", "frozen-holdout", "sealed-holdout", "shadow"}
GateStatus == {"passed", "failed"}

\* createAdapterCandidate
Created ==
    [status |-> "qualifying", next |-> 1, gates |-> <<>>,
     shadow |-> FALSE, canary |-> FALSE, production |-> FALSE]

GatesInit == candidate = NoCandidate

\* A gate as it is stored, with whether a host receipt attests it.
Gate(i, status, receipt, host) ==
    [id |-> Ladder[i], status |-> status, receipt |-> receipt, host |-> host]

\* applyGate; next is 0 when no gate is left.
Applied(c, i, gate) ==
    IF gate.status = "failed"
    THEN [c EXCEPT !.gates = Append(@, gate), !.status = "rejected", !.next = 0]
    ELSE [status |-> IF gate.id = "promoted" THEN "promoted" ELSE c.status,
          next |-> IF i = Len(Ladder) THEN 0 ELSE i + 1,
          gates |-> Append(c.gates, gate),
          shadow |-> c.shadow \/ gate.id = "sealed-holdout",
          canary |-> c.canary \/ gate.id = "shadow",
          production |-> c.production \/ gate.id = "promoted"]

Verdict(receipt) == IF receipt.good THEN "passed" ELSE "failed"

-----------------------------------------------------------------------------
\* recordAdapterGate: only a shadow gate is held against its comparison.
Recordable(c, i, status, receipt) ==
    /\ c.status = "qualifying"
    /\ i = c.next
    /\ Ladder[i] \in ResearchRecordable
    /\ Ladder[i] = "shadow" =>
          /\ receipt.kind = "missions" /\ receipt.names /\ receipt.ready
          /\ status = Verdict(receipt)

RecordAdapterGate(i, status, receipt) ==
    /\ candidate # NoCandidate
    /\ Recordable(candidate, i, status, receipt)
    /\ candidate' = Applied(candidate, i, Gate(i, status, receipt, FALSE))

\* Slip: the host's receipt is taken for whatever gate the caller names.
HostRecordableAnywhere(c, i, authority, payload, receipt) ==
    /\ Ladder[i] \in {"canary", "promoted"}
    /\ authority = "host" /\ payload = receipt

\* recordHostAdapterGate: a receipt of the host for exactly this gate's receipt.
HostRecordable(c, i, authority, payload, receipt) ==
    /\ Ladder[i] \in {"canary", "promoted"}
    /\ i = c.next
    /\ authority = "host" /\ payload = receipt

RecordHostAdapterGate(i, status, receipt, authority, payload) ==
    /\ candidate # NoCandidate
    /\ HostRecordable(candidate, i, authority, payload, receipt)
    /\ candidate' = Applied(candidate, i, Gate(i, status, receipt, TRUE))

-----------------------------------------------------------------------------
\* holdoutGateFromComparison: a grading with a row for the adapter.
Graded(c, i, grading) == Applied(c, i, Gate(i, Verdict(grading), grading, FALSE))

\* The script records up to a gate and writes the file at its end: one gate that
\* fails makes the next call throw, and then nothing is written.
RecordThrough(training, gradings) ==
    LET trained == Applied(Created, 1, Gate(1, "passed", training, FALSE))
        frozen == IF gradings = <<>> THEN trained ELSE Graded(trained, 2, gradings[1])
    IN  /\ \A i \in DOMAIN gradings : gradings[i].kind = "grading" /\ gradings[i].names
        /\ Len(gradings) = 2 => frozen.status = "qualifying"
        /\ candidate' = IF Len(gradings) = 2 THEN Graded(frozen, 3, gradings[2]) ELSE frozen

GatesNext ==
    \/ \E training \in Receipt, gradings \in UNION {[1 .. n -> Receipt] : n \in 0 .. 2} :
          RecordThrough(training, gradings)
    \/ \E i \in DOMAIN Ladder, status \in GateStatus, receipt \in Receipt :
          RecordAdapterGate(i, status, receipt)
    \/ \E i \in DOMAIN Ladder, status \in GateStatus, receipt, payload \in Receipt,
          authority \in {"host", "organism"} :
          RecordHostAdapterGate(i, status, receipt, authority, payload)

GatesSpec == GatesInit /\ [][GatesNext]_gateVars

-----------------------------------------------------------------------------
StoredGate == [id : ToSet(Ladder), status : GateStatus, receipt : Receipt, host : BOOLEAN]

GatesTypeOK ==
    candidate # NoCandidate =>
        /\ candidate.status \in {"qualifying", "rejected", "promoted"}
        /\ candidate.next \in 0 .. Len(Ladder)
        /\ \A i \in DOMAIN candidate.gates : candidate.gates[i] \in StoredGate

Passed(n) == \A i \in 1 .. n : i \in DOMAIN candidate.gates /\ candidate.gates[i].status = "passed"

\* No adapter reaches production, a canary or a shadow but up the whole ladder:
\* its gates are the ladder's first ones in order, all but the last passed; the
\* host attested the last two, and verified missions of this adapter the shadow.
\* What attests a holdout gate, recordAdapterGate does not look at: that is
\* HoldoutsAreCompared.  (adapterCandidates.js:85-129, 183-199)
GatesAreEarned ==
    /\ GatesTypeOK
    /\ candidate # NoCandidate =>
          LET gates == candidate.gates
          IN  /\ \A i \in DOMAIN gates :
                    /\ gates[i].id = Ladder[i]
                    /\ i < Len(gates) => gates[i].status = "passed"
                    /\ i >= 5 => gates[i].host
                    /\ i = 4 => /\ gates[i].receipt.kind = "missions"
                                /\ gates[i].receipt.names /\ gates[i].receipt.ready
              /\ candidate.status = "rejected" <=> ~Passed(Len(gates))
              /\ candidate.status = "promoted" <=> Passed(6)
              /\ candidate.shadow <=> Passed(3)
              /\ candidate.canary <=> Passed(4)
              /\ candidate.production <=> Passed(6)

\* As the comment on recordAdapterGate says, a holdout gate rests on a paired
\* comparison with a row for this adapter, and is passed only if that row is in
\* the adapter's favour.  (adapterCandidates.js:77-84)
HoldoutsAreCompared ==
    candidate # NoCandidate =>
        \A i \in DOMAIN candidate.gates :
            LET gate == candidate.gates[i]
            IN  gate.id \in {"frozen-holdout", "sealed-holdout"} =>
                   /\ gate.receipt.kind = "grading" /\ gate.receipt.names
                   /\ gate.status = "passed" => gate.receipt.good
=============================================================================
