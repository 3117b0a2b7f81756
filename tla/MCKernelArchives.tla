-------------------------- MODULE MCKernelArchives --------------------------
(* A first candidate with three mutations, one of which is better, one     *)
(* better in quality at the price of a milestone and one built on the      *)
(* better one; a second mission; a gene with a child, and another gene     *)
(* from the same candidate as the child.                                   *)
EXTENDS KernelArchives, TLC

CONSTANTS first, better, rash, best, other, m1, m2, root, child, twin, syntax

MCMission == {m1, m2}
MCProposal == {first, better, rash, best, other}
MCMissionOf == [p \in MCProposal |-> IF p = other THEN m2 ELSE m1]
MCContent == [p \in MCProposal |-> p]
MCSource ==
    (first :> NoSource) @@ (better :> first) @@ (rash :> first) @@ (best :> better)
        @@ (other :> NoSource)
Judging(quality, milestones, failed) ==
    [quality |-> quality, milestones |-> milestones, boundary |-> TRUE, failed |-> failed]
MCEvidence ==
    (first :> Judging(<<0, 1>>, {syntax}, 1)) @@ (better :> Judging(<<1>>, {syntax}, 1))
        @@ (rash :> Judging(<<2>>, {}, 0)) @@ (best :> Judging(<<1, 1>>, {syntax}, 0))
        @@ (other :> Judging(<<0>>, {}, 0))
MCGene == {root, child, twin}
MCParents == (root :> {}) @@ (child :> {root}) @@ (twin :> {})
MCAdmissionId == (root :> root) @@ (child :> child) @@ (twin :> child)
MCJudged == {<<child, "fail">>}
=============================================================================
