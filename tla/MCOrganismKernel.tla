-------------------------- MODULE MCOrganismKernel --------------------------
(* Two missions of one gene.  Host work and a second edge are met in       *)
(* worlds without the second mission's contribution, failed writes and a   *)
(* second death in worlds of one contribution and one edge: all fit into   *)
(* one run.                                                                *)
EXTENDS OrganismKernel, TLC

CONSTANTS c1, c2, a1, v1, v2, q1, g1, m1, m2

MCContribution == {c1, c2}
MCHostWork == {a1}
MCVerifier == {v1, v2}
MCMission == {m1, m2}
MCMissionOf == [n \in {c1, c2, a1, v1, v2} |-> IF n = c2 THEN m2 ELSE m1]
MCGene == {g1}
MCGeneOf == [c \in MCContribution |-> g1]
MCCredit == [c \in MCContribution |-> IF c = c1 THEN 2 ELSE 1]
MCWorkEdge == [n \in MCHostWork |-> "produced"]
MCFunding == {m1}
VerifierSymmetry == Permutations(MCVerifier)
MCSelection == {<<m1, {g1}>>, <<m2, {g1}>>}
MCRegressionReceipt == {q1}
MCRegressionMission == [q \in MCRegressionReceipt |-> m2]

\* One contribution, one edge and the mission of the contribution.
SmallWorld ==
    /\ nodes \subseteq {c1} \cup MCVerifier /\ Cardinality(edges) <= 1
    /\ \A p \in {mem, disk} : p.escrow[c2] = "none" /\ <<m2, g1>> \notin p.expressed
FaultsInSmallWorlds ==
    /\ c2 \in nodes => a1 \notin nodes /\ Cardinality(edges) <= 1
    /\ faults > 0 \/ restarts > 1 \/ funded # {} => SmallWorld
    /\ funded # {} => faults + restarts = 0
=============================================================================
