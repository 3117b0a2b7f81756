----------------------------- MODULE CausalPaths -----------------------------
(***************************************************************************)
(* Paths in the host-attested consumption graph of src/causalGraph.ts.     *)
(* The graph's two breadth-first searches (#hasPath and                    *)
(* eligibleContributions) are stated here by what they compute: the least  *)
(* set of nodes closed under the edges they follow.  CausalGraphSearch has *)
(* the searches themselves, pass by pass, and SearchesAreExact says that   *)
(* both give the same answers.                                             *)
(***************************************************************************)
CONSTANTS
    Contribution,   \* ids of organism-authored proposals
    HostWork,       \* ids of host-observed artifacts and decisions
    Verifier,       \* ids of official verifications
    Mission,        \* mission ids
    MissionOf       \* the mission every id was created for

Node == Contribution \cup HostWork \cup Verifier

ASSUME CausalAssumption ==
    /\ Contribution \cap HostWork = {}
    /\ Contribution \cap Verifier = {}
    /\ HostWork \cap Verifier = {}
    /\ MissionOf \in [Node -> Mission]

\* An edge that carries credit back from its target to its source.
CreditKind == {"produced", "consumed", "cited", "advanced-criterion"}

\* An edge that withdraws its source from every credit path.
ExclusionKind == {"invalidated", "duplicate-of"}

Edge == [kind : CreditKind \cup ExclusionKind, source : Node, target : Node]

-----------------------------------------------------------------------------
\* S contains the target of every edge of E that leaves S.
ForwardClosed(E, S) == \A e \in E : e.source \in S => e.target \in S

\* The nodes a forward walk from n visits, n included.
Reach(E, n) ==
    LET walks == {S \in SUBSET Node : n \in S /\ ForwardClosed(E, S)}
    IN  {m \in Node : \A S \in walks : m \in S}

HasPath(E, from, to) == to \in Reach(E, from)

-----------------------------------------------------------------------------
\* Nodes that an invalidation or a duplicate mark has withdrawn.
Excluded(E) == {e.source : e \in {f \in E : f.kind \in ExclusionKind}}

\* A slip the checks must notice: withdrawn sources keep their credit.
CreditEdgesWithWithdrawn(E) == {e \in E : e.kind \in CreditKind}

\* The edges the credit walk follows, from target to source.
CreditEdges(E) == {e \in E : e.kind \in CreditKind /\ e.source \notin Excluded(E)}

BackwardClosed(E, S) == \A e \in E : e.target \in S => e.source \in S

\* The nodes the credit walk visits when it starts at the verifier v.
Lineage(E, v) ==
    LET credit == CreditEdges(E)
        walks == {S \in SUBSET Node : v \in S /\ BackwardClosed(credit, S)}
    IN  {m \in Node : \A S \in walks : m \in S}

\* What eligibleContributions(v) returns for a passing verifier.
Eligible(E, v) == Lineage(E, v) \cap Contribution
=============================================================================
