----------------------------- MODULE CausalGraph -----------------------------
(***************************************************************************)
(* The class CausalGraph of src/causalGraph.ts as a state machine: the     *)
(* organism adds contributions, the host adds nodes and edges under        *)
(* receipts its gate has verified.  A refused call changes nothing, so     *)
(* every refusal is a conjunct of the guard.                               *)
(***************************************************************************)
EXTENDS Naturals, FiniteSets, CausalPaths

CONSTANTS
    OfferedKind,    \* the edge kinds the host offers (a bound of the model)
    MaxEdges        \* how many edges a graph may have (a bound of the model)

ASSUME GraphAssumption ==
    /\ OfferedKind \subseteq CreditKind \cup ExclusionKind
    /\ MaxEdges \in Nat

VARIABLES
    nodes,          \* #nodes: the ids present
    edges,          \* #edges: one edge per kind, source and target
    passed          \* the verifier nodes whose outcome is "pass"

graphVars == <<nodes, edges, passed>>

GraphInit ==
    /\ nodes = {}
    /\ edges = {}
    /\ passed = {}

\* addContribution: a duplicate node id is refused.
AddContribution(c) ==
    /\ c \notin nodes
    /\ nodes' = nodes \cup {c}
    /\ UNCHANGED <<edges, passed>>

\* addHostNode for an artifact or a decision.
AddHostWork(n) ==
    /\ n \notin nodes
    /\ nodes' = nodes \cup {n}
    /\ UNCHANGED <<edges, passed>>

\* addHostNode for a verifier, with the outcome its receipt attests.
AddVerifier(v, outcome) ==
    /\ v \notin nodes
    /\ nodes' = nodes \cup {v}
    /\ passed' = IF outcome = "pass" THEN passed \cup {v} ELSE passed
    /\ UNCHANGED edges

\* Slip: the source may be of another mission.
EdgeAllowedAcrossMissions(e, m) ==
    /\ e \notin edges
    /\ {e.source, e.target} \subseteq nodes
    /\ ~HasPath(edges, e.target, e.source)
    /\ MissionOf[e.target] = m

\* The refusals of addHostEdge under a receipt of mission m: a duplicate
\* id, an unknown end, an end of another mission, or a cycle.
EdgeAllowed(e, m) ==
    /\ e \notin edges
    /\ e.source \in nodes
    /\ e.target \in nodes
    /\ MissionOf[e.source] = m
    /\ MissionOf[e.target] = m
    /\ ~HasPath(edges, e.target, e.source)

AddHostEdge(e, m) ==
    /\ Cardinality(edges) < MaxEdges
    /\ EdgeAllowed(e, m)
    /\ edges' = edges \cup {e}
    /\ UNCHANGED <<nodes, passed>>

OfferedEdge == [kind : OfferedKind, source : Node, target : Node]

GraphNext ==
    \/ \E c \in Contribution : AddContribution(c)
    \/ \E n \in HostWork : AddHostWork(n)
    \/ \E v \in Verifier, outcome \in {"pass", "fail"} : AddVerifier(v, outcome)
    \/ \E e \in OfferedEdge, m \in Mission : AddHostEdge(e, m)

GraphSpec == GraphInit /\ [][GraphNext]_graphVars

-----------------------------------------------------------------------------
\* Every set of the graph holds what its name says, and no edge dangles.
GraphTypeOK ==
    /\ nodes \subseteq Node
    /\ edges \subseteq Edge
    /\ passed \subseteq nodes \cap Verifier
    /\ \A e \in edges : e.source \in nodes /\ e.target \in nodes

\* No edge closes a cycle.
Acyclic == \A e \in edges : ~HasPath(edges, e.target, e.source)

\* The graph stays sound whatever the order in which the host reports what it
\* observed: it is well formed, it never has a cycle, and credit never leaves a
\* mission, since whatever a verifier's walk reaches was contributed to the
\* verifier's own mission.  (causalGraph.ts:91-149)
CreditStaysInMission ==
    /\ GraphTypeOK
    /\ Acyclic
    /\ \A v \in passed : \A c \in Eligible(edges, v) : MissionOf[c] = MissionOf[v]

\* Later host observations move credit in one direction each: a new credit
\* edge takes eligibility away from nobody, and a new invalidation or
\* duplicate mark gives eligibility to nobody.
ObservationsAreMonotone ==
    [][\A v \in passed : \A e \in edges' \ edges :
          IF e.kind \in CreditKind
          THEN Eligible(edges, v) \subseteq Eligible(edges', v)
          ELSE Eligible(edges', v) \subseteq Eligible(edges, v) \ {e.source}]_graphVars
=============================================================================
