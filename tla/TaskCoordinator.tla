-------------------------- MODULE TaskCoordinator --------------------------
(***************************************************************************)
(* SwarmTaskCoordinator.run of swarm/src/swarmTaskCoordinator.js: a worker *)
(* is asked for one unit after another, its entries go to the board, the   *)
(* verifier judges, and the judgement is held against the board before the *)
(* integrator answers.  A unit is one step: the coordinator waits for      *)
(* nothing while it takes the worker's answer.  Any throw ends the run.    *)
(***************************************************************************)
EXTENDS Naturals, Sequences, SequencesExt

CONSTANTS
    BoardEntry,         \* entries a worker may bring: statement, kind, status, receipt
    Criterion,          \* mission.successCriteria
    UnitsAllowed,       \* values policy.maxUnits may be given
    RepairCycles,       \* policy.maxRepairCycles
    BoardLimit,         \* policy.maxBoardEntries
    RequireArtifact, RequireTest,   \* policy.requireVerified...
    MaxEntries,         \* entries one unit brings (bound)
    NoVerdict

ASSUME TaskAssumption ==
    /\ UnitsAllowed \subseteq Nat
    /\ {RepairCycles, BoardLimit, MaxEntries} \subseteq Nat

VARIABLES
    board,      \* the items of the SwarmTaskBoard, with the role that wrote each
    turn,       \* role and cycle of the next unit, or how the run ended
    stages,     \* the units whose stage is recorded and checkpointed
    verdict,    \* finalVerdict, dropped when the run fails
    maxUnits    \* policy.maxUnits

taskVars == <<board, turn, stages, verdict, maxUnits>>

\* ROLE_ENTRY_KINDS
KindsOf ==
    [r \in {"state-compiler", "solver-builder", "verifier", "repairer", "integrator"} |->
        CASE r = "state-compiler" -> {"requirement", "fact", "gap"}
          [] r = "solver-builder" -> {"artifact", "decision", "gap"}
          [] r = "verifier" -> {"fact", "test", "gap", "decision"}
          [] r = "repairer" -> {"fact", "artifact", "test", "gap", "decision"}
          [] r = "integrator" -> {"decision"}]
Role == DOMAIN KindsOf

\* Slip: the unit of the integrator is forgotten.
RequiredUnitsShort == 3 + 2 * RepairCycles

\* validateSwarmTaskPolicy refuses a smaller maxUnits.
RequiredUnits == 4 + 2 * RepairCycles

Unit(role, cycle) == [at |-> role, cycle |-> cycle]
Ended(how) == [at |-> how, cycle |-> 0]
Waiting(role) == turn.at = role

TaskInit ==
    /\ board = <<>>
    /\ turn = Unit("state-compiler", 0)
    /\ stages = <<>>
    /\ verdict = NoVerdict
    /\ maxUnits \in {n \in UnitsAllowed : n >= RequiredUnits}

-----------------------------------------------------------------------------
\* normalizedEntry and assertReceiptContract
Acceptable(role, entry) ==
    /\ entry.kind \in KindsOf[role]
    /\ entry.kind \in {"artifact", "test"} /\ entry.status = "verified" => entry.receipt

Written(role, entry) ==
    [role |-> role, statement |-> entry.statement, kind |-> entry.kind,
     status |-> entry.status, receipt |-> entry.receipt]

\* SwarmTaskBoard.append: what is on the board already is not added again.
AppendOnce(items, item) == IF item \in ToSet(items) THEN items ELSE Append(items, item)
Appended(role, entries) ==
    LET after[n \in 0 .. Len(entries)] ==
            IF n = 0 THEN board ELSE AppendOnce(after[n - 1], Written(role, entries[n]))
    IN  after[Len(entries)]

\* What a unit may bring without a throw, and the board it leaves.
Results(role) ==
    {Appended(role, entries) : entries \in
        {s \in UNION {[1 .. n -> BoardEntry] : n \in 0 .. MaxEntries} :
            /\ \A i \in DOMAIN s : Acceptable(role, s[i])
            /\ role # "integrator" => s # <<>>
            /\ Len(Appended(role, s)) <= BoardLimit
            /\ role \notin {"verifier", "integrator"} => Appended(role, s) # board}}

\* #runUnit without a throw: the stage is pushed and the checkpoint taken.
Runs(role, items) ==
    /\ Waiting(role)
    /\ Len(stages) < maxUnits
    /\ items \in Results(role)
    /\ board' = items
    /\ stages' = Append(stages, [role |-> role, cycle |-> turn.cycle, size |-> Len(items)])
    /\ UNCHANGED maxUnits

\* The worker fails, is aborted, or brings what is refused; the checkpoint
\* throws; more units than maxUnits.
Throws ==
    /\ turn.at \in Role
    /\ turn' = Ended(IF Len(stages) < maxUnits THEN "failed" ELSE "out-of-units")
    /\ UNCHANGED <<board, stages, verdict, maxUnits>>

Compile(items) ==
    /\ Runs("state-compiler", items)
    /\ turn' = Unit("solver-builder", 0)
    /\ UNCHANGED verdict

Build(items) ==
    /\ Runs("solver-builder", items)
    /\ turn' = Unit("verifier", 0)
    /\ UNCHANGED verdict

Repair(items) ==
    /\ Runs("repairer", items)
    /\ turn' = Unit("verifier", turn.cycle)
    /\ UNCHANGED verdict

\* What a verifier may find: per criterion it speaks of, a status and the
\* items it cites, one of which may not exist.
Finding(size) == [pass : BOOLEAN, cites : SUBSET (1 .. size + 1)]
Judgement(size) ==
    [criteria : UNION {[C -> Finding(size)] : C \in SUBSET Criterion}, gaps : BOOLEAN]

HasVerified(items, kind) ==
    \E i \in DOMAIN items : items[i].kind = kind /\ items[i].status = "verified"

\* Slip: what a criterion cites is not looked up.
ProvenByWord(items, judgement) ==
    /\ \A c \in Criterion :
          /\ c \in DOMAIN judgement.criteria
          /\ judgement.criteria[c].pass
          /\ judgement.criteria[c].cites # {}
    /\ ~judgement.gaps
    /\ RequireArtifact => HasVerified(items, "artifact")
    /\ RequireTest => HasVerified(items, "test")

\* assertVerifiedCompletion for a pass.
Proven(items, judgement) ==
    /\ \A c \in Criterion :
          /\ c \in DOMAIN judgement.criteria
          /\ judgement.criteria[c].pass
          /\ judgement.criteria[c].cites # {}
          /\ \A i \in judgement.criteria[c].cites :
                i \in DOMAIN items /\ items[i].status \notin {"failed", "unresolved"}
    /\ ~judgement.gaps
    /\ RequireArtifact => HasVerified(items, "artifact")
    /\ RequireTest => HasVerified(items, "test")

\* A verifier that does not pass: the next repair, or the end.
VerifyFails(items, status) ==
    /\ Runs("verifier", items)
    /\ verdict' = NoVerdict
    /\ turn' = IF status = "repair" /\ turn.cycle < RepairCycles
               THEN Unit("repairer", turn.cycle + 1) ELSE Ended("failed")

\* A verifier that passes: its judgement is checked before the integrator.
VerifyPasses(items, judgement) ==
    /\ Runs("verifier", items)
    /\ IF Proven(items, judgement)
       THEN verdict' = judgement /\ turn' = Unit("integrator", 0)
       ELSE verdict' = NoVerdict /\ turn' = Ended("failed")

Integrate(items) ==
    /\ Runs("integrator", items)
    /\ turn' = Ended("completed")
    /\ UNCHANGED verdict

TaskNext ==
    \/ \E items \in Results("state-compiler") : Compile(items)
    \/ \E items \in Results("solver-builder") : Build(items)
    \/ \E items \in Results("repairer") : Repair(items)
    \/ \E items \in Results("verifier"), status \in {"repair", "blocked"} :
          VerifyFails(items, status)
    \/ \E items \in Results("verifier") :
          \E judgement \in Judgement(Len(items)) :
             VerifyPasses(items, judgement)
    \/ \E items \in Results("integrator") : Integrate(items)
    \/ Throws

TaskSpec == TaskInit /\ [][TaskNext]_taskVars

-----------------------------------------------------------------------------
TaskTypeOK ==
    /\ \A i \in DOMAIN board :
          \E r \in Role, e \in BoardEntry : Acceptable(r, e) /\ board[i] = Written(r, e)
    /\ turn.at \in Role \cup {"completed", "failed", "out-of-units"}
    /\ turn.cycle \in 0 .. RepairCycles
    /\ Len(stages) <= maxUnits

ReceiptBy(roles, kind) ==
    \E i \in DOMAIN board : /\ board[i].role \in roles /\ board[i].kind = kind
                            /\ board[i].status = "verified" /\ board[i].receipt

\* The last word came from a verifier; each criterion rests on items it could
\* see and that did not fail, and the receipts asked for are there.
RestsOnEvidence ==
    LET last == stages[Len(stages) - 1]
    IN  /\ last.role = "verifier"
        /\ \A c \in Criterion :
              /\ verdict.criteria[c].cites \in (SUBSET (1 .. last.size)) \ {{}}
              /\ \A i \in verdict.criteria[c].cites :
                    board[i].status \notin {"failed", "unresolved"}
        /\ RequireArtifact => ReceiptBy({"solver-builder", "repairer"}, "artifact")
        /\ RequireTest => ReceiptBy({"verifier", "repairer"}, "test")

\* A run that completes has had its last word from a verifier, after the last
\* repair: each criterion rests on items that verifier could see and that did
\* not fail, and the receipts asked for were written by roles that do the work.
\* No allowed policy runs out of units on the way.
\* (swarmTaskCoordinator.js:182-256, 301-314, 394-428)
CompletionIsProven ==
    /\ TaskTypeOK
    /\ turn.at # "out-of-units"
    /\ turn.at = "completed" => RestsOnEvidence
=============================================================================
