---------------------------- MODULE StrategyGenes ----------------------------
(***************************************************************************)
(* Admission and verdicts of strategy genes (src/strategyGenes.ts, with    *)
(* the appends of the outcomes in src/organism.ts).  The id of a gene is a *)
(* digest of its procedure and its parents.  Its admission event is named  *)
(* after the candidate it came from, or after the gene.                    *)
(***************************************************************************)
EXTENDS ArchiveStore, FiniteSets

CONSTANTS
    Gene,
    Parents,        \* of each gene
    AdmissionId,    \* what its admission event is named after
    Judged          \* the outcomes to expect: pairs of a gene and a verdict

Verdict == {"pass", "fail", "uncredited"}

ASSUME GeneAssumption ==
    /\ Parents \in [Gene -> SUBSET Gene]
    /\ Judged \subseteq Gene \X Verdict

VARIABLES
    pool,           \* genes and outcomes in memory
    pooled,         \* the same as a replay of the log would rebuild them
    geneLog,        \* admission ids and outcomes in the log
    unwritten,      \* genes in memory whose admission could not be appended
    acknowledged    \* genes whose registration returned, those of a repeated
                    \* call after a throw left out

inheritance == <<pool, pooled, geneLog, unwritten, acknowledged>>

Pool == [genes : SUBSET Gene, outcomes : SUBSET (Gene \X Verdict)]

GenesInit ==
    /\ pool = [genes |-> {}, outcomes |-> {}] /\ pooled = pool
    /\ geneLog = [admitted |-> {}, outcomes |-> {}]
    /\ acknowledged = {} /\ unwritten = {}

Admitted(a, g) == [a EXCEPT !.genes = @ \cup {g}]
Recorded(a, o) == [a EXCEPT !.outcomes = @ \cup {o}]

\* replay drops the outcome of a gene that the log has not admitted before it.
RestoredOutcome(a, o) == IF o[1] \in a.genes THEN Recorded(a, o) ELSE a

\* The admission is appended; replay refuses a gene whose parents are unknown.
Writes(g) ==
    /\ AdmissionId[g] \notin geneLog.admitted
    /\ geneLog' = [geneLog EXCEPT !.admitted = @ \cup {AdmissionId[g]}]
    /\ pooled' = IF Parents[g] \subseteq pooled.genes THEN Admitted(pooled, g) ELSE pooled
    /\ Persists(Parents[g] \subseteq pooled.genes)

\* register: refused when a parent is unknown; a gene that is in memory is
\* returned as it is.
Register(g) ==
    /\ Parents[g] \subseteq pool.genes
    /\ pool' = Admitted(pool, g)
    /\ \/ /\ g \in pool.genes
          /\ acknowledged' = acknowledged \cup ({g} \ unwritten)
          /\ UNCHANGED <<pooled, geneLog, unwritten, store>>
       \/ /\ g \notin pool.genes /\ Writes(g)
          /\ acknowledged' = acknowledged \cup {g}
          /\ UNCHANGED unwritten
       \/ /\ g \notin pool.genes /\ Throws(AdmissionId[g] \in geneLog.admitted)
          /\ unwritten' = unwritten \cup {g}
          /\ UNCHANGED <<pooled, geneLog, acknowledged>>

\* recordOutcome and the kernel's append of it: refused for an unknown gene.
RecordVerdict(o) ==
    /\ o[1] \in pool.genes
    /\ pool' = Recorded(pool, o)
    /\ \/ /\ o \notin geneLog.outcomes
          /\ geneLog' = [geneLog EXCEPT !.outcomes = @ \cup {o}]
          /\ pooled' = RestoredOutcome(pooled, o)
          /\ Persists(TRUE)
       \/ /\ Throws(o \in geneLog.outcomes)
          /\ UNCHANGED <<pooled, geneLog>>
    /\ UNCHANGED <<acknowledged, unwritten>>

GenesNext == (\E g \in Gene : Register(g)) \/ (\E o \in Judged : RecordVerdict(o))

\* The constructor of the next process.
GenesReplay ==
    /\ pool' = pooled
    /\ unwritten' = {}
    /\ UNCHANGED <<pooled, geneLog, acknowledged>>

GenesTypeOK ==
    /\ {pool, pooled} \subseteq Pool
    /\ geneLog \in [admitted : SUBSET {AdmissionId[g] : g \in Gene},
                    outcomes : SUBSET (Gene \X Verdict)]
    /\ acknowledged \subseteq Gene /\ unwritten \subseteq Gene
=============================================================================
