--------------------------- MODULE KernelArchives ---------------------------
(***************************************************************************)
(* The candidate archive and the gene archive of one kernel over its event *)
(* store (src/organism.ts): the host calls either, the process dies at any *)
(* time, and the constructor of the next one replays the log into both, so *)
(* an event that one archive refuses costs the other one, too.             *)
(***************************************************************************)
EXTENDS CandidateEvolution, StrategyGenes

vars == <<store, evolution, inheritance>>

Init == StoreInit /\ EvolutionInit /\ GenesInit

Restart == Reopens /\ EvolutionReplay /\ GenesReplay

Next ==
    \/ EvolutionNext /\ UNCHANGED inheritance
    \/ GenesNext /\ UNCHANGED evolution
    \/ Restart

Spec == Init /\ [][Next]_vars

TypeOK == StoreTypeOK /\ EvolutionTypeOK /\ GenesTypeOK

\* As long as no append has thrown in a process, its death changes nothing: the
\* next kernel comes up, with the same versions, selections and incumbents, the
\* same genes and the same verdicts.  (replay, src/candidateEvolution.ts and
\* src/strategyGenes.ts)
RestartChangesNothing ==
    ~thrown => ~broken /\ archive = archived /\ pool = pooled

Parent(v) == SubSeq(v, 1, Len(v) - 1)

\* A gene whose registration returned is there for every later kernel, unless
\* none can be constructed; except when the call was repeated after its append
\* had thrown, which returns the gene from memory and appends nothing.
\* (register, src/strategyGenes.ts:142-179)
AdmissionIsKept == ~broken => acknowledged \subseteq pooled.genes

\* What a replay yields is whole: versions and genes with their ancestors, and
\* incumbents among the versions.  And it is all that the log says, unless a
\* process went on to append after an append had thrown: only then can a gene
\* have lost a logged verdict, or the log have become one that no kernel can be
\* constructed from.  Admitted genes are kept as AdmissionIsKept says.
LogIsInherited ==
    /\ TypeOK
    /\ AdmissionIsKept
    /\ \A v \in archived.versions : Len(v) > 1 => Parent(v) \in archived.versions
    /\ \A m \in Mission : archived.incumbent[m] \in archived.versions \cup {None}
    /\ \A g \in pooled.genes : Parents[g] \subseteq pooled.genes
    /\ ~astray =>
         /\ ~broken
         /\ archived.selections = evolutionLog.evaluated
         /\ pooled.outcomes = geneLog.outcomes

\* An incumbent is replaced only by its own mutation that starts from it, loses
\* no protected milestone, fails no more checks behind the same boundary and is
\* better in quality: in memory, and in what a replay yields, whatever threw
\* and wherever the process died.
Improves(before, after) ==
    LET incumbent == before[Len(before)]
        mutation == after[Len(after)]
    IN  /\ Parent(after) = before
        /\ Source[mutation] = Content[incumbent]
        /\ ~Regressed(Evidence[incumbent], Evidence[mutation])
        /\ Exceeds(Evidence[mutation].quality, Evidence[incumbent].quality)
Replaced(before, after) == before # None /\ after # before => Improves(before, after)

IncumbentNeverWeakens ==
    [][\A m \in Mission :
         /\ Replaced(archived.incumbent[m], archived'.incumbent[m])
         /\ \/ Replaced(archive.incumbent[m], archive'.incumbent[m])
            \/ thrown /\ archive' = archived]_vars

=============================================================================
