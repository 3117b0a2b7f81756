---------------------------- MODULE SwarmProofs ------------------------------
(***************************************************************************)
(* TLAPS proofs about the parts of the swarm.                              *)
(* The causal graph, for any sets of ids, missions and edges: Reach and    *)
(* Lineage are least closed sets, so every argument exhibits a closed set, *)
(* the one a search of the code has visited at its end among them, and     *)
(* each of its rounds lowers what it has yet to take out (InTime).         *)
(* The energy ledger, for any missions, actors, reservations and bounds:   *)
(* an account is only kept from debt because its reserve is what its open  *)
(* reservations add up to, and those are finitely many (LedgerInv).        *)
(* The gates of an adapter, the agents and tasks of a swarm kernel, the    *)
(* units and the proof of a task run (TaskInv).  The turn gateway, for any *)
(* turns, requests, roles, answers and token limits: what a turn has       *)
(* observed tells how it came to where it is (Told), and what it serves is *)
(* the answer of the call that its account names (Final, GInv).            *)
(***************************************************************************)
EXTENDS CausalGraphSearch, EnergyLedger, AdapterGates, SwarmKernel, TaskCoordinator, TurnGateway,
        DataProofs, SequenceTheorems

-----------------------------------------------------------------------------
\* Facts about forward reachability (what #hasPath computes).

\* A walk visits the node it starts at.
LEMMA ReachSelf ==
    ASSUME NEW E, NEW n \in Node
    PROVE  n \in Reach(E, n)
BY DEF Reach

\* A walk follows every edge that leaves a node it visits.
LEMMA ReachFollows ==
    ASSUME NEW E \in SUBSET Edge, NEW n, NEW e \in E, e.source \in Reach(E, n)
    PROVE  e.target \in Reach(E, n)
<1>1. e.target \in Node
    BY DEF Edge
<1>2. ASSUME NEW S \in SUBSET Node, n \in S, ForwardClosed(E, S)
      PROVE  e.target \in S
    BY <1>2 DEF Reach, ForwardClosed
<1>3. QED
    BY <1>1, <1>2 DEF Reach

\* What a visited node reaches is reached from the start.
LEMMA ReachTransitive ==
    ASSUME NEW E \in SUBSET Edge, NEW n, NEW m \in Reach(E, n)
    PROVE  Reach(E, m) \subseteq Reach(E, n)
<1>1. Reach(E, n) \in SUBSET Node
    BY DEF Reach
<1>2. ForwardClosed(E, Reach(E, n))
    BY ReachFollows DEF ForwardClosed
<1>3. QED
    BY <1>1, <1>2 DEF Reach

\* One more edge extends a walk at most by what its target reaches, and only
\* if the walk visits its source.
LEMMA ReachWithEdge ==
    ASSUME NEW E \in SUBSET Edge, NEW e \in Edge, NEW n \in Node,
           NEW m \in Reach(E \cup {e}, n)
    PROVE  \/ m \in Reach(E, n)
           \/ e.source \in Reach(E, n) /\ m \in Reach(E, e.target)
<1> DEFINE More == IF e.source \in Reach(E, n) THEN Reach(E, e.target) ELSE {}
           S == Reach(E, n) \cup More
<1>1. S \in SUBSET Node
    BY DEF Reach
<1>2. n \in S
    BY ReachSelf
<1>3. ForwardClosed(E \cup {e}, S)
    <2> SUFFICES ASSUME NEW f \in E \cup {e}, f.source \in S
                 PROVE  f.target \in S
        BY DEF ForwardClosed
    <2>1. CASE f \in E
        BY <2>1, ReachFollows
    <2>2. CASE f = e
        <3>1. e.target \in Node
            BY DEF Edge
        <3>2. e.target \in Reach(E, e.target)
            BY <3>1, ReachSelf
        <3>3. CASE e.source \in Reach(E, n)
            BY <2>2, <3>2, <3>3
        <3>4. CASE e.source \notin Reach(E, n)
            BY <2>2, <3>4
        <3> QED
            BY <3>3, <3>4
    <2> QED
        BY <2>1, <2>2
<1>4. m \in S
    BY <1>1, <1>2, <1>3 DEF Reach
<1> QED
    BY <1>4

\* The refusal of addHostEdge keeps any acyclic edge set acyclic.
LEMMA AcyclicWithEdge ==
    ASSUME NEW E \in SUBSET Edge, NEW e \in Edge,
           \A f \in E : ~HasPath(E, f.target, f.source),
           ~HasPath(E, e.target, e.source)
    PROVE  \A f \in E \cup {e} : ~HasPath(E \cup {e}, f.target, f.source)
<1> SUFFICES ASSUME NEW f \in E \cup {e},
                    f.source \in Reach(E \cup {e}, f.target)
             PROVE  FALSE
    BY DEF HasPath
<1>1. f.target \in Node /\ f.source \in Node
    BY DEF Edge
<1>2. e.source \notin Reach(E, e.target)
    BY DEF HasPath
<1>3. \/ f.source \in Reach(E, f.target)
      \/ e.source \in Reach(E, f.target) /\ f.source \in Reach(E, e.target)
    BY <1>1, ReachWithEdge
<1>4. CASE f = e
    BY <1>2, <1>3, <1>4
<1>5. CASE f \in E
    <2>1. f.source \notin Reach(E, f.target)
        BY <1>5 DEF HasPath
    <2>2. e.source \in Reach(E, f.target) /\ f.source \in Reach(E, e.target)
        BY <1>3, <2>1
    <2>3. f.target \in Reach(E, e.target)
        BY <1>5, <2>2, ReachFollows
    <2>4. Reach(E, f.target) \subseteq Reach(E, e.target)
        BY <2>3, ReachTransitive
    <2> QED
        BY <1>2, <2>2, <2>4
<1> QED
    BY <1>4, <1>5

-----------------------------------------------------------------------------
\* Facts about the credit walk of eligibleContributions.

\* A walk over more edges visits no less.
LEMMA LineageMonotone ==
    ASSUME NEW E, NEW F, NEW v, CreditEdges(E) \subseteq CreditEdges(F)
    PROVE  Lineage(E, v) \subseteq Lineage(F, v)
BY DEF Lineage, BackwardClosed

\* A withdrawn contribution is on no lineage.
LEMMA WithdrawnNotEligible ==
    ASSUME NEW E \in SUBSET Edge, NEW v \in Verifier, NEW c \in Excluded(E)
    PROVE  c \notin Eligible(E, v)
<1> SUFFICES ASSUME c \in Contribution, c \in Lineage(E, v)
             PROVE  FALSE
    BY DEF Eligible
<1> DEFINE S == Node \ {c}
<1>1. v \in S
    BY CausalAssumption DEF Node
<1>2. BackwardClosed(CreditEdges(E), S)
    BY DEF BackwardClosed, CreditEdges, Edge
<1>3. c \in S
    BY <1>1, <1>2 DEF Lineage
<1> QED
    BY <1>3

\* A lineage stays in the mission of its verifier if every edge does.
LEMMA LineageStaysInMission ==
    ASSUME NEW E \in SUBSET Edge, NEW v \in Node,
           \A e \in E : MissionOf[e.source] = MissionOf[e.target]
    PROVE  \A n \in Lineage(E, v) : MissionOf[n] = MissionOf[v]
<1> DEFINE S == {n \in Node : MissionOf[n] = MissionOf[v]}
<1>1. v \in S
    OBVIOUS
<1>2. BackwardClosed(CreditEdges(E), S)
    BY DEF BackwardClosed, CreditEdges, Edge
<1> QED
    BY <1>1, <1>2 DEF Lineage

-----------------------------------------------------------------------------
\* What every step that changes the edges does.
LEMMA EdgeStep ==
    ASSUME NEW e \in OfferedEdge, NEW m \in Mission, AddHostEdge(e, m)
    PROVE  /\ e \in Edge
           /\ edges' = edges \cup {e}
           /\ e \notin edges
           /\ UNCHANGED <<nodes, passed>>
           /\ e.source \in nodes /\ e.target \in nodes
           /\ MissionOf[e.source] = MissionOf[e.target]
           /\ ~HasPath(edges, e.target, e.source)
BY GraphAssumption DEF AddHostEdge, EdgeAllowed, OfferedEdge, Edge

\* The graph is well formed: no edge dangles and passing verdicts belong to
\* verifier nodes that were added.
THEOREM GraphTypeCorrect == GraphSpec => []GraphTypeOK
<1>1. GraphInit => GraphTypeOK
    BY DEF GraphInit, GraphTypeOK
<1>2. GraphTypeOK /\ [GraphNext]_graphVars => GraphTypeOK'
    <2> SUFFICES ASSUME GraphTypeOK, [GraphNext]_graphVars PROVE GraphTypeOK'
        OBVIOUS
    <2>1. ASSUME NEW c \in Contribution, AddContribution(c) PROVE GraphTypeOK'
        BY <2>1 DEF GraphTypeOK, AddContribution, Node
    <2>2. ASSUME NEW n \in HostWork, AddHostWork(n) PROVE GraphTypeOK'
        BY <2>2 DEF GraphTypeOK, AddHostWork, Node
    <2>3. ASSUME NEW v \in Verifier, NEW outcome \in {"pass", "fail"},
                 AddVerifier(v, outcome)
          PROVE  GraphTypeOK'
        BY <2>3 DEF GraphTypeOK, AddVerifier, Node
    <2>4. ASSUME NEW e \in OfferedEdge, NEW m \in Mission, AddHostEdge(e, m)
          PROVE  GraphTypeOK'
        BY <2>4, EdgeStep DEF GraphTypeOK
    <2>5. CASE UNCHANGED graphVars
        BY <2>5 DEF GraphTypeOK, graphVars
    <2> QED
        BY <2>1, <2>2, <2>3, <2>4, <2>5 DEF GraphNext
<1> QED
    BY <1>1, <1>2, PTL DEF GraphSpec

\* The graph never has a cycle, whatever the host reports in which order.
THEOREM NeverCyclic == GraphSpec => []Acyclic
<1>1. GraphInit => Acyclic
    BY DEF GraphInit, Acyclic
<1>2. GraphTypeOK /\ Acyclic /\ [GraphNext]_graphVars => Acyclic'
    <2> SUFFICES ASSUME GraphTypeOK, Acyclic, [GraphNext]_graphVars PROVE Acyclic'
        OBVIOUS
    <2>1. ASSUME UNCHANGED edges PROVE Acyclic'
        BY <2>1 DEF Acyclic, HasPath, Reach, ForwardClosed
    <2>2. ASSUME NEW e \in OfferedEdge, NEW m \in Mission, AddHostEdge(e, m)
          PROVE  Acyclic'
        <3>1. edges \in SUBSET Edge
            BY DEF GraphTypeOK
        <3>2. \A f \in edges \cup {e} : ~HasPath(edges \cup {e}, f.target, f.source)
            BY <2>2, <3>1, EdgeStep, AcyclicWithEdge DEF Acyclic
        <3>3. edges' = edges \cup {e}
            BY <2>2, EdgeStep
        <3> QED
            BY <3>2, <3>3 DEF Acyclic, HasPath, Reach, ForwardClosed
    <2> QED
        BY <2>1, <2>2
        DEF GraphNext, graphVars, AddContribution, AddHostWork, AddVerifier
<1> QED
    BY <1>1, <1>2, GraphTypeCorrect, PTL DEF GraphSpec

\* The strengthening behind CreditStaysInMission: no edge crosses missions.
EdgesStayInMission == \A e \in edges : MissionOf[e.source] = MissionOf[e.target]

LEMMA EdgesNeverCross == GraphSpec => []EdgesStayInMission
<1>1. GraphInit => EdgesStayInMission
    BY DEF GraphInit, EdgesStayInMission
<1>2. EdgesStayInMission /\ [GraphNext]_graphVars => EdgesStayInMission'
    <2> SUFFICES ASSUME EdgesStayInMission, [GraphNext]_graphVars PROVE EdgesStayInMission'
        OBVIOUS
    <2>1. ASSUME NEW e \in OfferedEdge, NEW m \in Mission, AddHostEdge(e, m)
          PROVE  EdgesStayInMission'
        BY <2>1, EdgeStep DEF EdgesStayInMission
    <2>2. ASSUME UNCHANGED edges PROVE EdgesStayInMission'
        BY <2>2 DEF EdgesStayInMission
    <2> QED
        BY <2>1, <2>2
        DEF GraphNext, graphVars, AddContribution, AddHostWork, AddVerifier
<1> QED
    BY <1>1, <1>2, PTL DEF GraphSpec

\* The graph is well formed and acyclic, and credit never leaves the verifier's
\* mission.
THEOREM CreditNeverCrosses == GraphSpec => []CreditStaysInMission
<1>1. GraphTypeOK /\ Acyclic /\ EdgesStayInMission => CreditStaysInMission
    <2> SUFFICES ASSUME GraphTypeOK, EdgesStayInMission,
                        NEW v \in passed, NEW c \in Eligible(edges, v)
                 PROVE  MissionOf[c] = MissionOf[v]
        BY DEF CreditStaysInMission
    <2>1. edges \in SUBSET Edge /\ v \in Node
        BY DEF GraphTypeOK, Node
    <2>2. c \in Lineage(edges, v)
        BY DEF Eligible
    <2> QED
        BY <2>1, <2>2, LineageStaysInMission DEF EdgesStayInMission
<1> QED
    BY <1>1, GraphTypeCorrect, NeverCyclic, EdgesNeverCross, PTL

\* A later credit edge takes eligibility from nobody, a later withdrawal
\* gives it to nobody and takes it from its source.
THEOREM LaterObservations == GraphSpec => ObservationsAreMonotone
<1> DEFINE Monotone ==
        \A v \in passed : \A e \in edges' \ edges :
            IF e.kind \in CreditKind
            THEN Eligible(edges, v) \subseteq Eligible(edges', v)
            ELSE Eligible(edges', v) \subseteq Eligible(edges, v) \ {e.source}
<1>1. GraphTypeOK /\ GraphTypeOK' /\ [GraphNext]_graphVars => [Monotone]_graphVars
    <2> SUFFICES ASSUME GraphTypeOK, GraphTypeOK', [GraphNext]_graphVars,
                        NEW v \in passed, NEW e \in edges' \ edges
                 PROVE  IF e.kind \in CreditKind
                        THEN Eligible(edges, v) \subseteq Eligible(edges', v)
                        ELSE Eligible(edges', v) \subseteq Eligible(edges, v) \ {e.source}
        OBVIOUS
    <2>1. PICK f \in OfferedEdge, m \in Mission : AddHostEdge(f, m)
        BY DEF GraphNext, graphVars, AddContribution, AddHostWork, AddVerifier
    <2>2. edges' = edges \cup {e} /\ e \in Edge
        BY <2>1, EdgeStep
    <2>3. v \in Verifier /\ edges' \in SUBSET Edge
        BY DEF GraphTypeOK
    <2>4. CreditKind \cap ExclusionKind = {}
        BY DEF CreditKind, ExclusionKind
    <2>5. CASE e.kind \in CreditKind
        <3>1. Excluded(edges') = Excluded(edges)
            BY <2>2, <2>4, <2>5 DEF Excluded
        <3>2. CreditEdges(edges) \subseteq CreditEdges(edges')
            BY <2>2, <3>1 DEF CreditEdges
        <3> QED
            BY <2>5, <3>2, LineageMonotone DEF Eligible
    <2>6. CASE e.kind \notin CreditKind
        <3>1. e.kind \in ExclusionKind
            BY <2>2, <2>6 DEF Edge
        <3>2. Excluded(edges) \subseteq Excluded(edges') /\ e.source \in Excluded(edges')
            BY <2>2, <3>1 DEF Excluded
        <3>3. CreditEdges(edges') \subseteq CreditEdges(edges)
            BY <2>2, <2>6, <3>2 DEF CreditEdges
        <3>4. Eligible(edges', v) \subseteq Eligible(edges, v)
            BY <3>3, LineageMonotone DEF Eligible
        <3>5. e.source \notin Eligible(edges', v)
            BY <2>3, <3>2, WithdrawnNotEligible
        <3> QED
            BY <2>6, <3>4, <3>5
    <2> QED
        BY <2>5, <2>6
<1> QED
    BY <1>1, GraphTypeCorrect, PTL DEF GraphSpec, ObservationsAreMonotone

-----------------------------------------------------------------------------
\* Facts about the queues of the two searches.

\* What a sequence holds.
Elems(q) == {q[i] : i \in 1 .. Len(q)}

LEMMA ElemsOfNone == Elems(<<>>) = {}
BY DEF Elems

LEMMA ElemsOfOne ==
    ASSUME NEW x
    PROVE  <<x>> \in Seq({x}) /\ Len(<<x>>) = 1 /\ Elems(<<x>>) = {x}
BY DEF Elems

\* A queue holds its head and what its tail holds.
LEMMA ElemsOfTail ==
    ASSUME NEW S, NEW q \in Seq(S), q # <<>>
    PROVE  /\ Head(q) \in S
           /\ Tail(q) \in Seq(S)
           /\ Len(Tail(q)) = Len(q) - 1
           /\ Len(q) \in Nat \ {0}
           /\ Elems(q) = {Head(q)} \cup Elems(Tail(q))
<1>1. /\ Head(q) \in S
      /\ Tail(q) \in Seq(S)
      /\ Len(Tail(q)) = Len(q) - 1
      /\ Len(q) \in Nat \ {0}
      /\ Head(q) = q[1]
      /\ \A i \in 1 .. Len(q) - 1 : Tail(q)[i] = q[i + 1]
    BY EmptySeq, HeadTailProperties
<1>2. Elems(q) \subseteq {Head(q)} \cup Elems(Tail(q))
    <2> SUFFICES ASSUME NEW i \in 1 .. Len(q)
                 PROVE  q[i] \in {Head(q)} \cup Elems(Tail(q))
        BY DEF Elems
    <2>1. CASE i = 1
        BY <1>1, <2>1
    <2>2. CASE i # 1
        <3>1. i - 1 \in 1 .. Len(q) - 1 /\ (i - 1) + 1 = i
            BY <1>1, <2>2
        <3>2. Tail(q)[i - 1] = q[i]
            BY <1>1, <3>1
        <3> QED
            BY <1>1, <3>1, <3>2 DEF Elems
    <2> QED
        BY <2>1, <2>2
<1>3. {Head(q)} \cup Elems(Tail(q)) \subseteq Elems(q)
    <2>1. Head(q) \in Elems(q)
        BY <1>1 DEF Elems
    <2>2. ASSUME NEW i \in 1 .. Len(q) - 1
          PROVE  Tail(q)[i] \in Elems(q)
        <3>1. i + 1 \in 1 .. Len(q)
            BY <1>1
        <3> QED
            BY <1>1, <3>1 DEF Elems
    <2> QED
        BY <1>1, <2>1, <2>2 DEF Elems
<1> QED
    BY <1>1, <1>2, <1>3

LEMMA ElemsOfBoth ==
    ASSUME NEW S, NEW q \in Seq(S), NEW r \in Seq(S)
    PROVE  /\ q \o r \in Seq(S)
           /\ Len(q \o r) = Len(q) + Len(r)
           /\ Elems(q \o r) = Elems(q) \cup Elems(r)
<1>1. /\ q \o r \in Seq(S)
      /\ Len(q \o r) = Len(q) + Len(r)
      /\ Len(q) \in Nat
      /\ Len(r) \in Nat
      /\ \A i \in 1 .. Len(q) + Len(r) :
            (q \o r)[i] = IF i <= Len(q) THEN q[i] ELSE r[i - Len(q)]
    BY ConcatProperties, LenProperties
<1>2. Elems(q \o r) \subseteq Elems(q) \cup Elems(r)
    <2> SUFFICES ASSUME NEW i \in 1 .. Len(q) + Len(r)
                 PROVE  (q \o r)[i] \in Elems(q) \cup Elems(r)
        BY <1>1 DEF Elems
    <2>1. CASE i <= Len(q)
        <3>1. i \in 1 .. Len(q)
            BY <1>1, <2>1
        <3> QED
            BY <1>1, <2>1, <3>1 DEF Elems
    <2>2. CASE ~(i <= Len(q))
        <3>1. i - Len(q) \in 1 .. Len(r)
            BY <1>1, <2>2
        <3> QED
            BY <1>1, <2>2, <3>1 DEF Elems
    <2> QED
        BY <2>1, <2>2
<1>3. ASSUME NEW i \in 1 .. Len(q)
      PROVE  q[i] \in Elems(q \o r)
    <2>1. i \in 1 .. Len(q) + Len(r) /\ i <= Len(q)
        BY <1>1
    <2> QED
        BY <1>1, <2>1 DEF Elems
<1>4. ASSUME NEW i \in 1 .. Len(r)
      PROVE  r[i] \in Elems(q \o r)
    <2>1. i + Len(q) \in 1 .. Len(q) + Len(r) /\ ~(i + Len(q) <= Len(q))
          /\ (i + Len(q)) - Len(q) = i
        BY <1>1
    <2> QED
        BY <1>1, <2>1 DEF Elems
<1>5. Elems(q) \subseteq Elems(q \o r) /\ Elems(r) \subseteq Elems(q \o r)
    BY <1>3, <1>4 DEF Elems
<1> QED
    BY <1>1, <1>2, <1>5

\* A finite set is listed once each.
LEMMA Listed ==
    ASSUME NEW S, IsFiniteSet(S)
    PROVE  /\ SetToSeq(S) \in Seq(S)
           /\ Len(SetToSeq(S)) = Cardinality(S)
           /\ Elems(SetToSeq(S)) = S
<1> DEFINE N == Cardinality(S)
           f == SetToSeq(S)
<1>1. N \in Nat /\ ExistsBijection(1 .. N, S)
    BY FS_CardinalityType
<1>2. \E g \in [1 .. N -> S] : IsInjective(g)
    BY <1>1 DEF ExistsBijection, Bijection, Injection
<1>3. f \in [1 .. N -> S] /\ IsInjective(f)
    BY <1>2 DEF SetToSeq
<1>4. IsFiniteSet(1 .. N) /\ Cardinality(1 .. N) = N
    BY <1>1, FS_Interval
<1> HIDE DEF f
<1>5. f \in Injection(1 .. N, S)
    BY <1>3 DEF Injection
<1>6. f \in Surjection(1 .. N, S)
    BY <1>4, <1>5, FS_Injection
<1>7. f \in Seq(S) /\ Len(f) = N
    <2> HIDE DEF N
    <2> QED
        BY <1>1, <1>3
<1>8. Elems(f) = S
    <2>1. \A x \in S : \E i \in 1 .. N : f[i] = x
        BY <1>6 DEF Surjection
    <2> HIDE DEF N
    <2> QED
        BY <1>3, <1>7, <2>1 DEF Elems
<1> QED
    BY <1>7, <1>8 DEF f

\* The targets of edges are listed as often as an edge has them.
LEMMA TargetsListed ==
    ASSUME NEW F \in SUBSET Edge, IsFiniteSet(F)
    PROVE  /\ TargetsOf(F) \in Seq(Node)
           /\ Len(TargetsOf(F)) = Cardinality(F)
           /\ Elems(TargetsOf(F)) = {e.target : e \in F}
<1> DEFINE listed == SetToSeq(F)
           t == [i \in 1 .. Len(listed) |-> listed[i].target]
<1>1. listed \in Seq(F) /\ Len(listed) = Cardinality(F) /\ Elems(listed) = F
    BY Listed
<1> HIDE DEF listed
<1>2. Len(listed) \in Nat /\ \A i \in 1 .. Len(listed) : listed[i] \in F
    BY <1>1, LenProperties
<1>3. \A e \in F : e.target \in Node
    BY DEF Edge
<1>4. t \in Seq(Node) /\ Len(t) = Len(listed)
    BY <1>2, <1>3
<1>5. Elems(t) = {e.target : e \in F}
    <2>1. \A i \in 1 .. Len(listed) : t[i] = listed[i].target
        OBVIOUS
    <2>2. Elems(t) \subseteq {e.target : e \in F}
        BY <1>2, <1>4, <2>1 DEF Elems
    <2>3. ASSUME NEW e \in F PROVE e.target \in Elems(t)
        <3>1. PICK i \in 1 .. Len(listed) : listed[i] = e
            BY <1>1 DEF Elems
        <3> QED
            BY <1>4, <2>1, <3>1 DEF Elems
    <2> QED
        BY <2>2, <2>3
<1> QED
    BY <1>1, <1>4, <1>5 DEF TargetsOf, listed
-----------------------------------------------------------------------------
\* The states of a search, and what repeats the passes of one.
Search == [queue : Seq(Node), visited : SUBSET Node, met : BOOLEAN]

Repeats(walk, N, first, pass) ==
    /\ walk[0] = first
    /\ \A n \in 1 .. N : walk[n] = pass[walk[n - 1]]

Recurs(walk, N, first, pass) ==
    walk = [n \in 0 .. N |-> IF n = 0 THEN first ELSE pass[walk[n - 1]]]

\* A search that starts in a state and goes from state to state is the function
\* that its recursive definition describes.
LEMMA PassesRepeat ==
    ASSUME NEW N \in Nat, NEW first \in Search, NEW pass \in [Search -> Search]
    PROVE  \E walk \in [0 .. N -> Search] :
              Repeats(walk, N, first, pass) /\ Recurs(walk, N, first, pass)
<1> DEFINE step == [n \in 1 .. N |-> pass]
<1>1. step \in Steps(N, Search)
    BY DEF Steps
<1> HIDE DEF step
<1>2. PICK walk : Carries(walk, N, Search, first, step)
    BY <1>1, Iteration
<1>3. walk \in [0 .. N -> Search] /\ walk[0] = first
    BY <1>2 DEF Carries
<1>4. \A n \in 1 .. N : walk[n] = pass[walk[n - 1]]
    BY <1>2 DEF Carries, step
<1>5. ASSUME NEW n \in 0 .. N
      PROVE  walk[n] = IF n = 0 THEN first ELSE pass[walk[n - 1]]
    <2>1. CASE n = 0
        BY <1>3, <2>1
    <2>2. CASE n # 0
        <3>1. n \in 1 .. N
            BY <2>2
        <3> QED
            BY <1>4, <2>2, <3>1
    <2> QED
        BY <2>1, <2>2
<1>6. walk = [n \in 0 .. N |-> IF n = 0 THEN first ELSE pass[walk[n - 1]]]
    BY <1>3, <1>5
<1> QED
    BY <1>3, <1>4, <1>6 DEF Repeats, Recurs

\* What holds of the first state and survives each pass holds of every state.
LEMMA RepeatsKeep ==
    ASSUME NEW N \in Nat, NEW walk \in [0 .. N -> Search], NEW first, NEW pass,
           Repeats(walk, N, first, pass),
           NEW Good \in SUBSET ((0 .. N) \X Search),
           <<0, first>> \in Good,
           \A n \in 1 .. N : \A s \in Search :
              <<n - 1, s>> \in Good => <<n, pass[s]>> \in Good
    PROVE  <<N, walk[N]>> \in Good
<1> DEFINE S == {n \in 0 .. N : <<n, walk[n]>> \in Good}
<1>1. 0 \in S
    BY DEF Repeats
<1>2. ASSUME NEW n \in 1 .. N, n - 1 \in S
      PROVE  n \in S
    <2>1. n - 1 \in 0 .. N /\ n \in 0 .. N
        OBVIOUS
    <2>2. walk[n - 1] \in Search
        BY <2>1
    <2>3. walk[n] = pass[walk[n - 1]]
        BY DEF Repeats
    <2> QED
        BY <1>2, <2>1, <2>2, <2>3
<1> HIDE DEF S
<1>3. 0 .. N \subseteq S
    BY <1>1, <1>2, Induction
<1>4. N \in S
    BY <1>3
<1> QED
    BY <1>4 DEF S

-----------------------------------------------------------------------------
\* The cycle check: #hasPath from one node to another.

\* The edges that leave the head of the queue.
Following(E, s) == {e \in E : e.source = Head(s.queue)}

\* What a pass of it does, case by case.
Advances(E, to, s, t) ==
    /\ AtEnd(s) => t = s
    /\ ~AtEnd(s) /\ Head(s.queue) = to => t = [s EXCEPT !.met = TRUE]
    /\ ~AtEnd(s) /\ Head(s.queue) # to /\ Head(s.queue) \in s.visited
          => t = [s EXCEPT !.queue = Tail(s.queue)]
    /\ ~AtEnd(s) /\ Head(s.queue) # to /\ Head(s.queue) \notin s.visited
          => t = [queue |-> Tail(s.queue) \o TargetsOf(Following(E, s)),
                  visited |-> s.visited \cup {Head(s.queue)},
                  met |-> s.met]

LEMMA ForwardPassAdvances ==
    ASSUME NEW E, NEW to, NEW s \in Search
    PROVE  Advances(E, to, s, ForwardPass(E, to, s))
BY DEF Advances, Following, ForwardPass, Search

\* A pass leads from state to state.
LEMMA ForwardPassType ==
    ASSUME NEW E \in SUBSET Edge, IsFiniteSet(E), NEW to \in Node, NEW s \in Search
    PROVE  ForwardPass(E, to, s) \in Search
<1> DEFINE current == Head(s.queue)
           found == Following(E, s)
           t == ForwardPass(E, to, s)
<1>0. Advances(E, to, s, t)
    BY ForwardPassAdvances
<1>1. CASE AtEnd(s)
    BY <1>0, <1>1 DEF Advances
<1>2. CASE ~AtEnd(s)
    <2>1. s.queue \in Seq(Node) /\ s.queue # <<>>
        BY <1>2 DEF AtEnd, Search
    <2>2. current \in Node /\ Tail(s.queue) \in Seq(Node)
        BY <2>1, ElemsOfTail
    <2>3. found \in SUBSET Edge /\ IsFiniteSet(found)
        BY FS_Subset DEF Following
    <2>4. TargetsOf(found) \in Seq(Node)
        BY <2>3, TargetsListed
    <2>5. Tail(s.queue) \o TargetsOf(found) \in Seq(Node)
        BY <2>2, <2>4, ElemsOfBoth
    <2> DEFINE more == Tail(s.queue) \o TargetsOf(found)
    <2>6. /\ current = to => t = [s EXCEPT !.met = TRUE]
          /\ current # to /\ current \in s.visited => t = [s EXCEPT !.queue = Tail(s.queue)]
          /\ current # to /\ current \notin s.visited
                => t = [queue |-> more, visited |-> s.visited \cup {current}, met |-> s.met]
        BY <1>0, <1>2 DEF Advances
    <2> HIDE DEF t, more, current, found
    <2>7. [s EXCEPT !.met = TRUE] \in Search
        BY DEF Search
    <2>8. [s EXCEPT !.queue = Tail(s.queue)] \in Search
        BY <2>2 DEF Search
    <2>9. [queue |-> more, visited |-> s.visited \cup {current}, met |-> s.met] \in Search
        BY <2>2, <2>5 DEF Search, more
    <2>10. t \in Search
        BY <2>6, <2>7, <2>8, <2>9
    <2> QED
        BY <2>10 DEF t
<1> QED
    BY <1>1, <1>2

\* The edges whose source is not visited: what may still be put in the queue.
Unwalked(E, visited) == {e \in E : e.source \notin visited}

\* In a state of the search from one node to another, everything visited or
\* queued is reached, the targets of what is visited are visited or queued, and
\* the goal is not visited.
Tracks(E, from, to, s) ==
    LET known == s.visited \cup Elems(s.queue)
    IN  /\ from \in known
        /\ known \subseteq Reach(E, from)
        /\ \A e \in E : e.source \in s.visited => e.target \in known
        /\ to \notin s.visited
        /\ s.met => to \in Reach(E, from)

\* What is queued and what may still be put in is taken out in the passes left.
InTime(E, n, s) ==
    AtEnd(s) \/ n + Len(s.queue) + Cardinality(Unwalked(E, s.visited)) <= Passes(E)

\* Following edges costs no more than there are edges to follow.
LEMMA WalkedEdges ==
    ASSUME NEW E \in SUBSET Edge, IsFiniteSet(E), NEW s, Head(s.queue) \notin s.visited
    PROVE  /\ Following(E, s) \in SUBSET Edge
           /\ IsFiniteSet(Following(E, s))
           /\ Cardinality(Following(E, s)) \in Nat
           /\ Cardinality(Unwalked(E, s.visited)) \in Nat
           /\ Cardinality(Unwalked(E, s.visited \cup {Head(s.queue)}))
                 = Cardinality(Unwalked(E, s.visited)) - Cardinality(Following(E, s))
<1> DEFINE found == Following(E, s)
           U == Unwalked(E, s.visited)
<1>1. IsFiniteSet(found) /\ IsFiniteSet(U)
    BY FS_Subset DEF Unwalked, Following
<1>2. Cardinality(found) \in Nat /\ Cardinality(U) \in Nat
    BY <1>1, FS_CardinalityType
<1>3. /\ U \cap found = found
      /\ Unwalked(E, s.visited \cup {Head(s.queue)}) = U \ found
    BY DEF Unwalked, Following
<1>4. Cardinality(U \ found) = Cardinality(U) - Cardinality(U \cap found)
    BY <1>1, FS_Difference
<1>5. found \in SUBSET Edge
    BY DEF Following
<1> QED
    BY <1>1, <1>2, <1>3, <1>4, <1>5

\* A pass keeps track.
LEMMA ForwardPassTracks ==
    ASSUME NEW E \in SUBSET Edge, IsFiniteSet(E), NEW from \in Node, NEW to \in Node,
           NEW s \in Search, Tracks(E, from, to, s)
    PROVE  Tracks(E, from, to, ForwardPass(E, to, s))
<1> DEFINE current == Head(s.queue)
           found == Following(E, s)
           t == ForwardPass(E, to, s)
<1>0. Advances(E, to, s, t)
    BY ForwardPassAdvances
<1>1. CASE AtEnd(s)
    BY <1>0, <1>1 DEF Advances
<1>2. CASE ~AtEnd(s)
    <2>1. s.queue \in Seq(Node) /\ s.queue # <<>> /\ ~s.met
        BY <1>2 DEF AtEnd, Search
    <2>2. /\ current \in Node /\ Tail(s.queue) \in Seq(Node)
          /\ Elems(s.queue) = {current} \cup Elems(Tail(s.queue))
        BY <2>1, ElemsOfTail
    <2>3. current \in Reach(E, from)
        BY <2>2 DEF Tracks
    <2>4. CASE current = to
        <3>1. t = [s EXCEPT !.met = TRUE]
            BY <1>0, <1>2, <2>4 DEF Advances
        <3> HIDE DEF t
        <3>2. t.met /\ t.queue = s.queue /\ t.visited = s.visited
            BY <3>1 DEF Search
        <3>3. Tracks(E, from, to, t)
            BY <2>3, <2>4, <3>2 DEF Tracks
        <3> QED
            BY <3>3 DEF t
    <2>5. CASE current # to /\ current \in s.visited
        <3>1. t = [s EXCEPT !.queue = Tail(s.queue)]
            BY <1>0, <1>2, <2>5 DEF Advances
        <3> HIDE DEF t
        <3>2. t.met = s.met /\ t.queue = Tail(s.queue) /\ t.visited = s.visited
            BY <3>1 DEF Search
        <3>3. t.visited \cup Elems(t.queue) = s.visited \cup Elems(s.queue)
            BY <2>2, <2>5, <3>2
        <3>4. Tracks(E, from, to, t)
            BY <3>2, <3>3 DEF Tracks
        <3> QED
            BY <3>4 DEF t
    <2>6. CASE current # to /\ current \notin s.visited
        <3>1. t = [queue |-> Tail(s.queue) \o TargetsOf(found),
                   visited |-> s.visited \cup {current}, met |-> s.met]
            BY <1>0, <1>2, <2>6 DEF Advances
        <3> HIDE DEF t
        <3>2. /\ t.met = s.met /\ t.visited = s.visited \cup {current}
              /\ t.queue = Tail(s.queue) \o TargetsOf(found)
            BY <3>1
        <3>3. found \in SUBSET Edge /\ IsFiniteSet(found)
            BY FS_Subset DEF Following
        <3>4. /\ TargetsOf(found) \in Seq(Node)
              /\ Elems(TargetsOf(found)) = {e.target : e \in found}
            BY <3>3, TargetsListed
        <3>5. Elems(t.queue) = Elems(Tail(s.queue)) \cup {e.target : e \in found}
            <4> DEFINE rest == Tail(s.queue)
                       more == TargetsOf(found)
            <4>1. rest \in Seq(Node) /\ more \in Seq(Node)
                BY <2>2, <3>4
            <4> HIDE DEF rest, more
            <4>2. Elems(rest \o more) = Elems(rest) \cup Elems(more)
                BY <4>1, ElemsOfBoth
            <4> QED
                BY <3>2, <3>4, <4>2 DEF rest, more
        <3>6. t.visited \cup Elems(t.queue)
                = s.visited \cup Elems(s.queue) \cup {e.target : e \in found}
            BY <2>2, <3>2, <3>5
        <3>7. {e.target : e \in found} \subseteq Reach(E, from)
            BY <2>3, ReachFollows DEF Following
        <3>8. \A e \in E : e.source \in t.visited => e.target \in t.visited \cup Elems(t.queue)
            BY <3>2, <3>6 DEF Tracks, Following
        <3>9. Tracks(E, from, to, t)
            BY <2>1, <2>6, <3>2, <3>6, <3>7, <3>8 DEF Tracks
        <3> QED
            BY <3>9 DEF t
    <2> QED
        BY <2>4, <2>5, <2>6
<1> QED
    BY <1>1, <1>2

\* A pass is one of those left.
LEMMA ForwardPassInTime ==
    ASSUME NEW E \in SUBSET Edge, IsFiniteSet(E), NEW to \in Node,
           NEW s \in Search, NEW n \in Nat \ {0}, InTime(E, n - 1, s)
    PROVE  InTime(E, n, ForwardPass(E, to, s))
<1> DEFINE current == Head(s.queue)
           found == Following(E, s)
           t == ForwardPass(E, to, s)
<1>0. Advances(E, to, s, t)
    BY ForwardPassAdvances
<1>1. CASE AtEnd(s)
    BY <1>0, <1>1 DEF Advances, InTime
<1>2. CASE ~AtEnd(s)
    <2>1. s.queue \in Seq(Node) /\ s.queue # <<>> /\ ~s.met
        BY <1>2 DEF AtEnd, Search
    <2>2. /\ current \in Node /\ Tail(s.queue) \in Seq(Node)
          /\ Len(Tail(s.queue)) = Len(s.queue) - 1 /\ Len(s.queue) \in Nat
        BY <2>1, ElemsOfTail
    <2>3. n - 1 + Len(s.queue) + Cardinality(Unwalked(E, s.visited)) <= Passes(E)
        BY <1>2 DEF InTime
    <2>4. Cardinality(E) \in Nat /\ Passes(E) \in Nat
        BY FS_CardinalityType DEF Passes
    <2>5. Cardinality(Unwalked(E, s.visited)) \in Nat
        BY FS_Subset, FS_CardinalityType DEF Unwalked
    <2>6. CASE current = to
        <3>1. t = [s EXCEPT !.met = TRUE]
            BY <1>0, <1>2, <2>6 DEF Advances
        <3> HIDE DEF t
        <3>2. t.met
            BY <3>1 DEF Search
        <3> QED
            BY <3>2 DEF t, InTime, AtEnd
    <2>7. CASE current # to /\ current \in s.visited
        <3>1. t = [s EXCEPT !.queue = Tail(s.queue)]
            BY <1>0, <1>2, <2>7 DEF Advances
        <3> HIDE DEF t
        <3>2. t.queue = Tail(s.queue) /\ t.visited = s.visited
            BY <3>1 DEF Search
        <3>3. n + Len(t.queue) + Cardinality(Unwalked(E, t.visited)) <= Passes(E)
            BY <2>2, <2>3, <2>4, <2>5, <3>2
        <3> QED
            BY <3>3 DEF t, InTime
    <2>8. CASE current # to /\ current \notin s.visited
        <3>1. t = [queue |-> Tail(s.queue) \o TargetsOf(found),
                   visited |-> s.visited \cup {current}, met |-> s.met]
            BY <1>0, <1>2, <2>8 DEF Advances
        <3> HIDE DEF t
        <3>2. t.queue = Tail(s.queue) \o TargetsOf(found) /\ t.visited = s.visited \cup {current}
            BY <3>1
        <3>3. /\ found \in SUBSET Edge /\ IsFiniteSet(found)
              /\ Cardinality(found) \in Nat
              /\ Cardinality(Unwalked(E, t.visited))
                   = Cardinality(Unwalked(E, s.visited)) - Cardinality(found)
            <4> HIDE DEF t
            <4> QED
                BY <2>8, <3>2, WalkedEdges
        <3>4. TargetsOf(found) \in Seq(Node) /\ Len(TargetsOf(found)) = Cardinality(found)
            <4> HIDE DEF found
            <4> QED
                BY <3>3, TargetsListed
        <3>5. Len(t.queue) = Len(s.queue) - 1 + Cardinality(found)
            <4> HIDE DEF current, found
            <4>1. Len(Tail(s.queue) \o TargetsOf(found))
                    = Len(Tail(s.queue)) + Len(TargetsOf(found))
                BY <2>2, <3>4, ElemsOfBoth
            <4> QED
                BY <2>2, <3>2, <3>4, <4>1
        <3> HIDE DEF found
        <3>6. n + Len(t.queue) + Cardinality(Unwalked(E, t.visited)) <= Passes(E)
            BY <2>2, <2>3, <2>4, <2>5, <3>3, <3>5
        <3> QED
            BY <3>6 DEF t, InTime
    <2> QED
        BY <2>6, <2>7, <2>8
<1> QED
    BY <1>1, <1>2

\* The cycle check ends, and finds a path exactly if there is one.
PathIsFound(E, from, to) ==
    LET end == SearchPath(E, from, to)
    IN  AtEnd(end) /\ (end.met <=> HasPath(E, from, to))

LEMMA SearchPathIsExact ==
    ASSUME NEW E \in SUBSET Edge, IsFiniteSet(E), NEW from \in Node, NEW to \in Node
    PROVE  PathIsFound(E, from, to)
<1> DEFINE N == Passes(E)
           first == Begin(<<from>>, {})
           pass == [s \in Search |-> ForwardPass(E, to, s)]
           Good == {p \in (0 .. N) \X Search :
                       Tracks(E, from, to, p[2]) /\ InTime(E, p[1], p[2])}
<1>1. Cardinality(E) \in Nat /\ N = Cardinality(E) + 1 /\ N \in Nat
    BY FS_CardinalityType DEF Passes
<1>2. /\ first \in Search /\ first.queue = <<from>> /\ first.visited = {} /\ first.met = FALSE
      /\ Len(first.queue) = 1 /\ Elems(first.queue) = {from}
    BY ElemsOfOne DEF Begin, Search
<1>3. pass \in [Search -> Search] /\ \A s \in Search : pass[s] = ForwardPass(E, to, s)
    BY ForwardPassType
<1> HIDE DEF N, first, pass
<1>4. PICK walk \in [0 .. N -> Search] :
          Repeats(walk, N, first, pass) /\ Recurs(walk, N, first, pass)
    BY <1>1, <1>2, <1>3, PassesRepeat
<1>5. SearchPath(E, from, to) = walk[N]
    <2> DEFINE IsWalk(w) ==
                   w = [n \in 0 .. N |-> IF n = 0 THEN first ELSE ForwardPass(E, to, w[n - 1])]
               chosen == CHOOSE w : IsWalk(w)
    <2>1. SearchPath(E, from, to) = chosen[N]
        BY DEF SearchPath, first, N
    <2>2. IsWalk(walk)
        <3>1. ASSUME NEW n \in 0 .. N
              PROVE  walk[n] = IF n = 0 THEN first ELSE ForwardPass(E, to, walk[n - 1])
            <4>1. n # 0 => n - 1 \in 0 .. N /\ n \in 1 .. N
                BY <1>1
            <4> QED
                BY <1>3, <1>4, <4>1 DEF Repeats
        <3> QED
            BY <1>4, <3>1
    <2>3. IsWalk(chosen)
        BY <2>2
    <2> HIDE DEF chosen
    <2> DEFINE S == {n \in 0 .. N : chosen[n] = walk[n]}
    <2>4. 0 \in S
        BY <1>1, <2>2, <2>3
    <2>5. ASSUME NEW n \in 1 .. N, n - 1 \in S
          PROVE  n \in S
        <3>1. n \in 0 .. N /\ n # 0 /\ chosen[n - 1] = walk[n - 1]
            BY <2>5
        <3> QED
            BY <2>2, <2>3, <3>1
    <2> HIDE DEF S
    <2>6. 0 .. N \subseteq S
        BY <1>1, <2>4, <2>5, Induction
    <2>7. N \in S
        BY <1>1, <2>6
    <2> QED
        BY <2>1, <2>7 DEF S
<1>6. <<0, first>> \in Good
    <2>1. Tracks(E, from, to, first)
        BY <1>2, ReachSelf DEF Tracks
    <2>2. Unwalked(E, first.visited) = E
        BY <1>2 DEF Unwalked
    <2>3. InTime(E, 0, first)
        BY <1>1, <1>2, <2>2 DEF InTime, N
    <2> QED
        BY <1>1, <1>2, <2>1, <2>3
<1>7. ASSUME NEW n \in 1 .. N, NEW s \in Search, <<n - 1, s>> \in Good
      PROVE  <<n, pass[s]>> \in Good
    <2>1. Tracks(E, from, to, s) /\ InTime(E, n - 1, s)
        BY <1>7
    <2>2. Tracks(E, from, to, pass[s])
        BY <1>3, <2>1, ForwardPassTracks
    <2>3. n \in Nat \ {0}
        OBVIOUS
    <2>4. InTime(E, n, pass[s])
        BY <1>3, <2>1, <2>3, ForwardPassInTime
    <2>5. pass[s] \in Search /\ n \in 0 .. N
        BY <1>3
    <2> QED
        BY <2>2, <2>4, <2>5
<1>8. Good \in SUBSET ((0 .. N) \X Search)
    OBVIOUS
<1> HIDE DEF Good
<1>9. <<N, walk[N]>> \in Good
    BY <1>1, <1>4, <1>6, <1>7, <1>8, RepeatsKeep
<1>10. /\ walk[N] \in Search
       /\ Tracks(E, from, to, walk[N])
       /\ InTime(E, N, walk[N])
    BY <1>9 DEF Good
<1> DEFINE end == walk[N]
<1>11. AtEnd(end)
    <2> SUFFICES ASSUME ~AtEnd(end)
                 PROVE  FALSE
        OBVIOUS
    <2>1. N + Len(end.queue) + Cardinality(Unwalked(E, end.visited)) <= N
        BY <1>10 DEF InTime, N
    <2>2. Cardinality(Unwalked(E, end.visited)) \in Nat
        BY FS_Subset, FS_CardinalityType DEF Unwalked
    <2>3. end.queue \in Seq(Node)
        BY <1>10 DEF Search
    <2>4. Len(end.queue) = 0
        BY <1>1, <2>1, <2>2, <2>3, LenProperties
    <2> QED
        BY <2>3, <2>4, EmptySeq DEF AtEnd
<1>12. end.met => HasPath(E, from, to)
    BY <1>10 DEF Tracks, HasPath
<1>13. ~end.met => ~HasPath(E, from, to)
    <2> SUFFICES ASSUME ~end.met
                 PROVE  to \notin Reach(E, from)
        BY DEF HasPath
    <2>1. end.queue = <<>>
        BY <1>11 DEF AtEnd
    <2>2. end.visited \cup Elems(end.queue) = end.visited
        BY <2>1, ElemsOfNone
    <2>3. /\ end.visited \in SUBSET Node
          /\ from \in end.visited
          /\ ForwardClosed(E, end.visited)
          /\ to \notin end.visited
        BY <1>10, <2>2 DEF Tracks, ForwardClosed, Search
    <2> QED
        BY <2>3 DEF Reach
<1> QED
    BY <1>5, <1>11, <1>12, <1>13 DEF PathIsFound

-----------------------------------------------------------------------------
\* The credit walk: the loop of eligibleContributions from a verifier.

\* The walk follows every credit edge back that leads to a node it visits.
LEMMA LineageFollows ==
    ASSUME NEW E \in SUBSET Edge, NEW v, NEW e \in CreditEdges(E), e.target \in Lineage(E, v)
    PROVE  e.source \in Lineage(E, v)
<1>1. e.source \in Node
    BY DEF CreditEdges, Edge
<1>2. ASSUME NEW S \in SUBSET Node, v \in S, BackwardClosed(CreditEdges(E), S)
      PROVE  e.source \in S
    BY <1>2 DEF Lineage, BackwardClosed
<1> QED
    BY <1>1, <1>2 DEF Lineage

\* The nodes edges leave, and those a pass finds.
Sources(E) == {e.source : e \in E}
Finds(E, s) ==
    {e.source : e \in {f \in CreditEdges(E) :
        f.target = Head(s.queue) /\ f.source \notin s.visited}}

Retreats(E, s, t) ==
    /\ AtEnd(s) => t = s
    /\ ~AtEnd(s) => t = [queue |-> Tail(s.queue) \o SetToSeq(Finds(E, s)),
                         visited |-> s.visited \cup Finds(E, s),
                         met |-> s.met]

LEMMA BackwardPassRetreats ==
    ASSUME NEW E, NEW s \in Search
    PROVE  Retreats(E, s, BackwardPass(E, s))
<1> DEFINE found == {e.source : e \in {f \in E :
                        /\ f.target = Head(s.queue)
                        /\ f.kind \in CreditKind
                        /\ f.source \notin Excluded(E) \cup s.visited}}
<1>1. found = Finds(E, s)
    BY DEF Finds, CreditEdges
<1>2. BackwardPass(E, s)
        = IF AtEnd(s) THEN s
          ELSE [s EXCEPT !.queue = Tail(@) \o SetToSeq(found), !.visited = @ \cup found]
    BY DEF BackwardPass
<1> HIDE DEF found
<1> QED
    BY <1>1, <1>2 DEF Retreats, Search

\* Finitely many edges leave finitely many nodes, no more than there are edges.
LEMMA SourcesFinite ==
    ASSUME NEW E, IsFiniteSet(E)
    PROVE  /\ IsFiniteSet(Sources(E))
           /\ Cardinality(Sources(E)) \in Nat
           /\ Cardinality(Sources(E)) <= Cardinality(E)
<1> DEFINE f == [e \in E |-> e.source]
<1>1. f \in Surjection(E, Sources(E))
    BY DEF Surjection, Sources
<1> HIDE DEF f
<1>2. IsFiniteSet(Sources(E)) /\ Cardinality(Sources(E)) <= Cardinality(E)
    BY <1>1, FS_Surjection
<1> QED
    BY <1>2, FS_CardinalityType

\* What a pass finds is found once.
LEMMA FindsAreSources ==
    ASSUME NEW E \in SUBSET Edge, IsFiniteSet(E), NEW s
    PROVE  /\ Finds(E, s) \in SUBSET Node
           /\ IsFiniteSet(Finds(E, s))
           /\ Cardinality(Finds(E, s)) \in Nat
           /\ Cardinality(Sources(E) \ s.visited) \in Nat
           /\ Cardinality(Sources(E) \ (s.visited \cup Finds(E, s)))
                = Cardinality(Sources(E) \ s.visited) - Cardinality(Finds(E, s))
<1> DEFINE found == Finds(E, s)
           U == Sources(E) \ s.visited
<1>1. found \subseteq U /\ found \in SUBSET Node
    BY DEF Finds, Sources, CreditEdges, Edge
<1>2. IsFiniteSet(U) /\ IsFiniteSet(found)
    BY <1>1, SourcesFinite, FS_Subset
<1>3. Cardinality(U) \in Nat /\ Cardinality(found) \in Nat
    BY <1>2, FS_CardinalityType
<1>4. U \cap found = found /\ Sources(E) \ (s.visited \cup found) = U \ found
    BY <1>1
<1>5. Cardinality(U \ found) = Cardinality(U) - Cardinality(U \cap found)
    BY <1>2, FS_Difference
<1> QED
    BY <1>1, <1>2, <1>3, <1>4, <1>5

\* What a pass puts in the queue.
LEMMA FindsAreQueued ==
    ASSUME NEW E \in SUBSET Edge, IsFiniteSet(E), NEW s \in Search, ~AtEnd(s)
    PROVE  /\ s.queue \in Seq(Node)
           /\ Head(s.queue) \in Node
           /\ Len(s.queue) \in Nat
           /\ Elems(s.queue) = {Head(s.queue)} \cup Elems(Tail(s.queue))
           /\ Tail(s.queue) \o SetToSeq(Finds(E, s)) \in Seq(Node)
           /\ Len(Tail(s.queue) \o SetToSeq(Finds(E, s)))
                = Len(s.queue) - 1 + Cardinality(Finds(E, s))
           /\ Elems(Tail(s.queue) \o SetToSeq(Finds(E, s)))
                = Elems(Tail(s.queue)) \cup Finds(E, s)
<1> DEFINE rest == Tail(s.queue)
           more == SetToSeq(Finds(E, s))
<1>1. s.queue \in Seq(Node) /\ s.queue # <<>>
    BY DEF AtEnd, Search
<1>2. /\ Head(s.queue) \in Node /\ rest \in Seq(Node)
      /\ Len(rest) = Len(s.queue) - 1 /\ Len(s.queue) \in Nat
      /\ Elems(s.queue) = {Head(s.queue)} \cup Elems(rest)
    BY <1>1, ElemsOfTail
<1>3. IsFiniteSet(Finds(E, s)) /\ Finds(E, s) \in SUBSET Node
    BY FindsAreSources
<1>4. /\ more \in Seq(Finds(E, s))
      /\ Len(more) = Cardinality(Finds(E, s))
      /\ Elems(more) = Finds(E, s)
    BY <1>3, Listed
<1>5. more \in Seq(Node)
    BY <1>3, <1>4, SeqMonotonic
<1> HIDE DEF rest, more
<1>6. /\ rest \o more \in Seq(Node)
      /\ Len(rest \o more) = Len(rest) + Len(more)
      /\ Elems(rest \o more) = Elems(rest) \cup Elems(more)
    BY <1>2, <1>5, ElemsOfBoth
<1> QED
    BY <1>1, <1>2, <1>4, <1>6 DEF rest, more

LEMMA BackwardPassType ==
    ASSUME NEW E \in SUBSET Edge, IsFiniteSet(E), NEW s \in Search
    PROVE  BackwardPass(E, s) \in Search
<1> DEFINE t == BackwardPass(E, s)
<1>0. Retreats(E, s, t)
    BY BackwardPassRetreats
<1>1. CASE AtEnd(s)
    BY <1>0, <1>1 DEF Retreats
<1>2. CASE ~AtEnd(s)
    <2> DEFINE queued == Tail(s.queue) \o SetToSeq(Finds(E, s))
    <2>1. queued \in Seq(Node) /\ Finds(E, s) \in SUBSET Node
        BY <1>2, FindsAreQueued, FindsAreSources
    <2>2. t = [queue |-> queued, visited |-> s.visited \cup Finds(E, s), met |-> s.met]
        BY <1>0, <1>2 DEF Retreats
    <2> HIDE DEF t, queued
    <2>3. t \in Search
        BY <2>1, <2>2 DEF Search
    <2> QED
        BY <2>3 DEF t
<1> QED
    BY <1>1, <1>2

\* In a state of the walk from v, everything queued is visited, everything
\* visited is on the lineage, and whoever was taken from the queue has no
\* source that is not visited.
Gathers(E, v, s) ==
    /\ ~s.met
    /\ v \in s.visited
    /\ Elems(s.queue) \subseteq s.visited
    /\ s.visited \subseteq Lineage(E, v)
    /\ \A e \in CreditEdges(E) :
          e.target \in s.visited \ Elems(s.queue) => e.source \in s.visited

\* What is queued and what may still be found is taken out in the passes left.
OnTime(E, n, s) ==
    AtEnd(s) \/ n + Len(s.queue) + Cardinality(Sources(E) \ s.visited) <= Passes(E)

LEMMA BackwardPassGathers ==
    ASSUME NEW E \in SUBSET Edge, IsFiniteSet(E), NEW v \in Node,
           NEW s \in Search, Gathers(E, v, s)
    PROVE  Gathers(E, v, BackwardPass(E, s))
<1> DEFINE t == BackwardPass(E, s)
           found == Finds(E, s)
<1>0. Retreats(E, s, t)
    BY BackwardPassRetreats
<1>1. CASE AtEnd(s)
    BY <1>0, <1>1 DEF Retreats
<1>2. CASE ~AtEnd(s)
    <2>1. /\ Elems(s.queue) = {Head(s.queue)} \cup Elems(Tail(s.queue))
          /\ Elems(Tail(s.queue) \o SetToSeq(found)) = Elems(Tail(s.queue)) \cup found
        BY <1>2, FindsAreQueued
    <2>2. /\ t.queue = Tail(s.queue) \o SetToSeq(found)
          /\ t.visited = s.visited \cup found
          /\ t.met = s.met
        BY <1>0, <1>2 DEF Retreats
    <2> HIDE DEF t
    <2>3. Elems(t.queue) = Elems(Tail(s.queue)) \cup found
        BY <2>1, <2>2
    <2>4. found \subseteq Lineage(E, v)
        <3> SUFFICES ASSUME NEW e \in CreditEdges(E), e.target = Head(s.queue)
                     PROVE  e.source \in Lineage(E, v)
            BY DEF Finds
        <3>1. e.target \in Lineage(E, v)
            BY <2>1 DEF Gathers
        <3> QED
            BY <3>1, LineageFollows
    <2>5. ASSUME NEW e \in CreditEdges(E), e.target \in t.visited \ Elems(t.queue)
          PROVE  e.source \in t.visited
        <3>1. e.target \in s.visited /\ e.target \notin Elems(Tail(s.queue))
            BY <2>2, <2>3, <2>5
        <3>2. CASE e.target = Head(s.queue)
            BY <2>2, <3>2 DEF Finds
        <3>3. CASE e.target # Head(s.queue)
            BY <2>1, <2>2, <3>1, <3>3 DEF Gathers
        <3> QED
            BY <3>2, <3>3
    <2> HIDE DEF found
    <2>6. Gathers(E, v, t)
        BY <2>1, <2>2, <2>3, <2>4, <2>5 DEF Gathers
    <2> QED
        BY <2>6 DEF t
<1> QED
    BY <1>1, <1>2

LEMMA BackwardPassOnTime ==
    ASSUME NEW E \in SUBSET Edge, IsFiniteSet(E), NEW s \in Search,
           NEW n \in Nat \ {0}, OnTime(E, n - 1, s)
    PROVE  OnTime(E, n, BackwardPass(E, s))
<1> DEFINE t == BackwardPass(E, s)
           found == Finds(E, s)
<1>0. Retreats(E, s, t)
    BY BackwardPassRetreats
<1>1. CASE AtEnd(s)
    BY <1>0, <1>1 DEF Retreats, OnTime
<1>2. CASE ~AtEnd(s)
    <2>1. /\ t.queue = Tail(s.queue) \o SetToSeq(found)
          /\ t.visited = s.visited \cup found
        BY <1>0, <1>2 DEF Retreats
    <2> HIDE DEF t
    <2>2. Len(t.queue) = Len(s.queue) - 1 + Cardinality(found) /\ Len(s.queue) \in Nat
        BY <1>2, <2>1, FindsAreQueued
    <2>3. /\ Cardinality(found) \in Nat
          /\ Cardinality(Sources(E) \ s.visited) \in Nat
          /\ Cardinality(Sources(E) \ t.visited)
                = Cardinality(Sources(E) \ s.visited) - Cardinality(found)
        BY <2>1, FindsAreSources
    <2>4. n - 1 + Len(s.queue) + Cardinality(Sources(E) \ s.visited) <= Passes(E)
        BY <1>2 DEF OnTime
    <2>5. Passes(E) \in Nat
        BY FS_CardinalityType DEF Passes
    <2> HIDE DEF found
    <2>6. n + Len(t.queue) + Cardinality(Sources(E) \ t.visited) <= Passes(E)
        BY <2>2, <2>3, <2>4, <2>5
    <2> QED
        BY <2>6 DEF t, OnTime
<1> QED
    BY <1>1, <1>2

\* The credit walk ends, and has visited exactly the lineage.
LineageIsFound(E, v) ==
    LET end == SearchLineage(E, v)
    IN  AtEnd(end) /\ end.visited = Lineage(E, v)

LEMMA SearchLineageIsExact ==
    ASSUME NEW E \in SUBSET Edge, IsFiniteSet(E), NEW v \in Node
    PROVE  LineageIsFound(E, v)
<1> DEFINE N == Passes(E)
           first == Begin(<<v>>, {v})
           pass == [s \in Search |-> BackwardPass(E, s)]
           Good == {p \in (0 .. N) \X Search :
                       Gathers(E, v, p[2]) /\ OnTime(E, p[1], p[2])}
<1>1. Cardinality(E) \in Nat /\ N = Cardinality(E) + 1 /\ N \in Nat
    BY FS_CardinalityType DEF Passes
<1>2. /\ first \in Search /\ first.visited = {v} /\ first.met = FALSE
      /\ Len(first.queue) = 1 /\ Elems(first.queue) = {v}
    BY ElemsOfOne DEF Begin, Search
<1>3. pass \in [Search -> Search] /\ \A s \in Search : pass[s] = BackwardPass(E, s)
    BY BackwardPassType
<1> HIDE DEF N, first, pass
<1>4. PICK walk \in [0 .. N -> Search] :
          Repeats(walk, N, first, pass) /\ Recurs(walk, N, first, pass)
    BY <1>1, <1>2, <1>3, PassesRepeat
<1>5. SearchLineage(E, v) = walk[N]
    <2> DEFINE IsWalk(w) ==
                   w = [n \in 0 .. N |-> IF n = 0 THEN first ELSE BackwardPass(E, w[n - 1])]
               chosen == CHOOSE w : IsWalk(w)
    <2>1. SearchLineage(E, v) = chosen[N]
        BY DEF SearchLineage, first, N
    <2>2. IsWalk(walk)
        <3>1. ASSUME NEW n \in 0 .. N
              PROVE  walk[n] = IF n = 0 THEN first ELSE BackwardPass(E, walk[n - 1])
            <4>1. n # 0 => n - 1 \in 0 .. N /\ n \in 1 .. N
                BY <1>1
            <4> QED
                BY <1>3, <1>4, <4>1 DEF Repeats
        <3> QED
            BY <1>4, <3>1
    <2>3. IsWalk(chosen)
        BY <2>2
    <2> HIDE DEF chosen
    <2> DEFINE S == {n \in 0 .. N : chosen[n] = walk[n]}
    <2>4. 0 \in S
        BY <1>1, <2>2, <2>3
    <2>5. ASSUME NEW n \in 1 .. N, n - 1 \in S
          PROVE  n \in S
        <3>1. n \in 0 .. N /\ n # 0 /\ chosen[n - 1] = walk[n - 1]
            BY <2>5
        <3> QED
            BY <2>2, <2>3, <3>1
    <2> HIDE DEF S
    <2>6. 0 .. N \subseteq S
        BY <1>1, <2>4, <2>5, Induction
    <2>7. N \in S
        BY <1>1, <2>6
    <2> QED
        BY <2>1, <2>7 DEF S
<1>6. <<0, first>> \in Good
    <2>1. v \in Lineage(E, v)
        BY DEF Lineage
    <2>2. Gathers(E, v, first)
        BY <1>2, <2>1 DEF Gathers
    <2>3. /\ Cardinality(Sources(E) \ first.visited) \in Nat
          /\ Cardinality(Sources(E) \ first.visited) <= Cardinality(E)
        BY <1>1, SourcesFinite, FS_Difference, FS_Subset, FS_CardinalityType
    <2>4. OnTime(E, 0, first)
        BY <1>1, <1>2, <2>3 DEF OnTime, N
    <2> QED
        BY <1>1, <1>2, <2>2, <2>4
<1>7. ASSUME NEW n \in 1 .. N, NEW s \in Search, <<n - 1, s>> \in Good
      PROVE  <<n, pass[s]>> \in Good
    <2>1. Gathers(E, v, s) /\ OnTime(E, n - 1, s)
        BY <1>7
    <2>2. Gathers(E, v, pass[s])
        BY <1>3, <2>1, BackwardPassGathers
    <2>3. n \in Nat \ {0}
        OBVIOUS
    <2>4. OnTime(E, n, pass[s])
        BY <1>3, <2>1, <2>3, BackwardPassOnTime
    <2>5. pass[s] \in Search /\ n \in 0 .. N
        BY <1>3
    <2> QED
        BY <2>2, <2>4, <2>5
<1>8. Good \in SUBSET ((0 .. N) \X Search)
    OBVIOUS
<1> HIDE DEF Good
<1>9. <<N, walk[N]>> \in Good
    BY <1>1, <1>4, <1>6, <1>7, <1>8, RepeatsKeep
<1>10. walk[N] \in Search /\ Gathers(E, v, walk[N]) /\ OnTime(E, N, walk[N])
    BY <1>9 DEF Good
<1> DEFINE end == walk[N]
<1>11. AtEnd(end)
    <2> SUFFICES ASSUME ~AtEnd(end)
                 PROVE  FALSE
        OBVIOUS
    <2>1. N + Len(end.queue) + Cardinality(Sources(E) \ end.visited) <= N
        BY <1>10 DEF OnTime, N
    <2>2. Cardinality(Sources(E) \ end.visited) \in Nat
        BY FindsAreSources
    <2>3. end.queue \in Seq(Node)
        BY <1>10 DEF Search
    <2>4. Len(end.queue) = 0
        BY <1>1, <2>1, <2>2, <2>3, LenProperties
    <2> QED
        BY <2>3, <2>4, EmptySeq DEF AtEnd
<1>12. end.visited = Lineage(E, v)
    <2>1. Elems(end.queue) = {}
        BY <1>10, <1>11, ElemsOfNone DEF AtEnd, Gathers
    <2>2. /\ end.visited \in SUBSET Node
          /\ v \in end.visited
          /\ BackwardClosed(CreditEdges(E), end.visited)
        BY <1>10, <2>1 DEF Gathers, BackwardClosed, Search
    <2>3. Lineage(E, v) \subseteq end.visited
        BY <2>2 DEF Lineage
    <2> QED
        BY <1>10, <2>3 DEF Gathers
<1> QED
    BY <1>5, <1>11, <1>12 DEF LineageIsFound

\* A graph has finitely many edges, or its searches need not end.
EdgesAreFinite == IsFiniteSet(edges)

LEMMA EdgesStayFinite == GraphSpec => []EdgesAreFinite
<1>1. GraphInit => EdgesAreFinite
    BY FS_EmptySet DEF GraphInit, EdgesAreFinite
<1>2. EdgesAreFinite /\ [GraphNext]_graphVars => EdgesAreFinite'
    <2> SUFFICES ASSUME EdgesAreFinite, [GraphNext]_graphVars PROVE EdgesAreFinite'
        OBVIOUS
    <2>1. ASSUME NEW e \in OfferedEdge, NEW m \in Mission, AddHostEdge(e, m)
          PROVE  EdgesAreFinite'
        BY <2>1, EdgeStep, FS_AddElement DEF EdgesAreFinite
    <2>2. ASSUME UNCHANGED edges PROVE EdgesAreFinite'
        BY <2>2 DEF EdgesAreFinite
    <2> QED
        BY <2>1, <2>2
        DEF GraphNext, graphVars, AddContribution, AddHostWork, AddVerifier
<1> QED
    BY <1>1, <1>2, PTL DEF GraphSpec

\* The cycle check and the credit walk of any graph the organism can build come
\* to an end, and find what is reachable and nothing else.  (causalGraph.ts:135-181)
THEOREM SearchesStayExact == GraphSpec => []SearchesAreExact
<1>1. GraphTypeOK /\ EdgesAreFinite => SearchesAreExact
    <2> SUFFICES ASSUME GraphTypeOK, EdgesAreFinite PROVE SearchesAreExact
        OBVIOUS
    <2>1. edges \in SUBSET Edge /\ IsFiniteSet(edges) /\ nodes \subseteq Node
          /\ passed \subseteq Node
        BY DEF GraphTypeOK, EdgesAreFinite, Node
    <2>2. \A from, to \in nodes : PathIsFound(edges, from, to)
        BY <2>1, SearchPathIsExact
    <2>3. \A v \in passed : LineageIsFound(edges, v)
        BY <2>1, SearchLineageIsExact
    <2> QED
        BY <2>2, <2>3 DEF SearchesAreExact, PathIsFound, LineageIsFound, Eligible
<1> QED
    BY <1>1, GraphTypeCorrect, EdgesStayFinite, PTL

-----------------------------------------------------------------------------
\* The energy ledger.

OpenIsFinite == \A k \in Key : IsFiniteSet(OpenOn(k))

\* The part of NoOverdraft that the reserve does not follow from.
NothingOverspent ==
    \A k \in Key : accounts[k].held => accounts[k].available >= 0 /\ accounts[k].spent >= 0

\* Only an account has grants.
GrantsAreHeld == \A k \in Key : ~accounts[k].held => granted[k] = 0

LedgerInv ==
    /\ EnergyTypeOK
    /\ EnergyConserved
    /\ OpenHasAccount
    /\ OpenIsFinite
    /\ ReserveIsOpenReservations
    /\ NothingOverspent
    /\ GrantsAreHeld
    /\ CloseRefundsReserves

-----------------------------------------------------------------------------
\* Accounts and reservations that are there have their fields.
LEMMA Held ==
    ASSUME EnergyTypeOK, NEW k \in Key, accounts[k].held
    PROVE  accounts[k] \in Account
BY DEF EnergyTypeOK, NoAccount

LEMMA Opened ==
    ASSUME EnergyTypeOK, NEW r \in ReservationId, reservations[r].status # "unused"
    PROVE  /\ reservations[r] \in Reservation
           /\ reservations[r].key \in Key
           /\ reservations[r].amount \in Nat
BY DEF EnergyTypeOK, Unused, Reservation

\* Open reservations add up to a natural number.
LEMMA AmountOfType ==
    ASSUME EnergyTypeOK, NEW k \in Key, IsFiniteSet(OpenOn(k))
    PROVE  AmountOf(OpenOn(k)) \in Nat
<1>1. \A r \in OpenOn(k) : reservations[r].amount \in Nat
    BY Opened DEF OpenOn
<1> QED
    BY <1>1, TotalType DEF AmountOf

\* The reserve decides whether an account is in debt.
LEMMA NoOverdraftFromInv == LedgerInv => NoOverdraft
<1> SUFFICES ASSUME LedgerInv, NEW k \in Key, accounts[k].held
             PROVE  accounts[k].reserved >= 0
    BY DEF LedgerInv, NothingOverspent, NoOverdraft
<1>1. AmountOf(OpenOn(k)) \in Nat
    BY AmountOfType DEF LedgerInv, OpenIsFinite
<1> QED
    BY <1>1 DEF LedgerInv, ReserveIsOpenReservations

-----------------------------------------------------------------------------
\* An account is made of three integers.
LEMMA AccountFields ==
    ASSUME NEW account \in Account
    PROVE  /\ account.held
           /\ account.available \in Int
           /\ account.reserved \in Int
           /\ account.spent \in Int
BY DEF Account

LEMMA MadeAccount ==
    ASSUME NEW a \in Int, NEW b \in Int, NEW c \in Int
    PROVE  /\ AccountWith(a, b, c) \in Account
           /\ AccountWith(a, b, c).held
           /\ AccountWith(a, b, c).available = a
           /\ AccountWith(a, b, c).reserved = b
           /\ AccountWith(a, b, c).spent = c
BY DEF Account, AccountWith

\* The three calls that touch one account preserve the invariant if they
\* keep that account balanced.
LEMMA OneAccountStep ==
    ASSUME LedgerInv, NEW k \in Key, NEW a \in Int, NEW b \in Int, NEW c \in Int,
           accounts' = [accounts EXCEPT ![k] = AccountWith(a, b, c)],
           reservations' \in [ReservationId -> Reservation \cup {Unused}],
           granted' \in [Key -> Int],
           \A j \in Key \ {k} : granted'[j] = granted[j],
           \A j \in Key \ {k} : /\ (OpenOn(j))' = OpenOn(j)
                                 /\ (AmountOf(OpenOn(j)))' = AmountOf(OpenOn(j)),
           a + b + c = granted'[k],
           a >= 0, c >= 0,
           IsFiniteSet((OpenOn(k))'),
           b = (AmountOf(OpenOn(k)))',
           snapshots' = {},
           UNCHANGED closes
    PROVE  LedgerInv'
<1> DEFINE account == AccountWith(a, b, c)
<1>1. /\ account \in Account
      /\ account.held
      /\ account.available = a
      /\ account.reserved = b
      /\ account.spent = c
    BY MadeAccount
<1> HIDE DEF account
<1>2. accounts' = [accounts EXCEPT ![k] = account]
    BY DEF account
<1>3. /\ accounts'[k] = account
      /\ \A j \in Key \ {k} : accounts'[j] = accounts[j]
    BY <1>2 DEF LedgerInv, EnergyTypeOK
<1>4. EnergyTypeOK'
    BY <1>1, <1>2 DEF LedgerInv, EnergyTypeOK
<1>5. EnergyConserved'
    BY <1>1, <1>3 DEF LedgerInv, EnergyConserved
<1>6. OpenIsFinite'
    BY DEF LedgerInv, OpenIsFinite
<1>7. ReserveIsOpenReservations'
    BY <1>1, <1>3 DEF LedgerInv, ReserveIsOpenReservations
<1>8. NothingOverspent'
    BY <1>1, <1>3 DEF LedgerInv, NothingOverspent
<1>9. GrantsAreHeld'
    BY <1>1, <1>3 DEF LedgerInv, GrantsAreHeld
<1>10. OpenHasAccount'
    <2> SUFFICES ASSUME NEW r \in ReservationId, reservations'[r].status = "open"
                 PROVE  accounts'[reservations'[r].key].held
        BY DEF OpenHasAccount
    <2>1. PICK j \in Key : j = reservations'[r].key
        BY DEF Unused, Reservation
    <2>2. CASE j = k
        BY <1>1, <1>3, <2>1, <2>2
    <2>3. CASE j # k
        <3>1. r \in (OpenOn(j))'
            BY <2>1 DEF OpenOn
        <3>2. r \in OpenOn(j)
            BY <2>1, <2>3, <3>1
        <3>3. accounts[j].held
            BY <3>2 DEF LedgerInv, OpenHasAccount, OpenOn
        <3> QED
            BY <1>3, <2>1, <2>3, <3>3
    <2> QED
        BY <2>1, <2>2, <2>3
<1>11. CloseRefundsReserves'
    BY DEF CloseRefundsReserves
<1> QED
    BY <1>4, <1>5, <1>6, <1>7, <1>8, <1>9, <1>10, <1>11 DEF LedgerInv

-----------------------------------------------------------------------------
\* allocate preserves the invariant.
LEMMA AllocateStep ==
    ASSUME LedgerInv, NEW k \in Key, NEW amount \in Amount, Allocate(k, amount)
    PROVE  LedgerInv'
<1>1. amount \in Nat
    BY DEF Amount
<1>2. PICK old \in Account :
        /\ old = IF accounts[k].held THEN accounts[k] ELSE EmptyAccount
        /\ accounts' = [accounts EXCEPT ![k] =
               AccountWith(old.available + amount, old.reserved, old.spent)]
    <2>1. EmptyAccount \in Account
        BY MadeAccount DEF EmptyAccount
    <2>2. (IF accounts[k].held THEN accounts[k] ELSE EmptyAccount) \in Account
        BY <2>1, Held DEF LedgerInv
    <2> QED
        BY <2>2 DEF Allocate
<1>3. /\ granted' = [granted EXCEPT ![k] = @ + amount]
      /\ snapshots' = {}
      /\ UNCHANGED <<reservations, closes>>
    BY DEF Allocate
<1>4. /\ granted' \in [Key -> Int]
      /\ granted'[k] = granted[k] + amount
      /\ \A j \in Key \ {k} : granted'[j] = granted[j]
      /\ granted[k] \in Int
    BY <1>1, <1>3 DEF LedgerInv, EnergyTypeOK
<1>5. \A j \in Key : (OpenOn(j))' = OpenOn(j) /\ (AmountOf(OpenOn(j)))' = AmountOf(OpenOn(j))
    BY <1>3 DEF OpenOn, AmountOf
<1>6. /\ old.available + old.reserved + old.spent = granted[k]
      /\ old.available >= 0 /\ old.spent >= 0
      /\ old.reserved = AmountOf(OpenOn(k))
    <2>1. CASE accounts[k].held
        BY <1>2, <2>1 DEF LedgerInv, EnergyConserved, NothingOverspent, ReserveIsOpenReservations
    <2>2. CASE ~accounts[k].held
        <3>1. OpenOn(k) = {}
            BY <2>2 DEF LedgerInv, OpenHasAccount, OpenOn
        <3>2. AmountOf(OpenOn(k)) = 0
            BY <3>1, TotalOfNone DEF AmountOf
        <3>3. /\ old.available = 0 /\ old.reserved = 0 /\ old.spent = 0
            BY <1>2, <2>2, MadeAccount DEF EmptyAccount
        <3> QED
            BY <2>2, <3>2, <3>3 DEF LedgerInv, GrantsAreHeld
    <2> QED
        BY <2>1, <2>2
<1>7. old.available \in Int /\ old.reserved \in Int /\ old.spent \in Int
    BY AccountFields
<1>8. /\ old.available + amount \in Int
      /\ old.available + amount + old.reserved + old.spent = granted'[k]
      /\ old.available + amount >= 0
    BY <1>1, <1>4, <1>6, <1>7
<1>9. IsFiniteSet((OpenOn(k))')
    BY <1>5 DEF LedgerInv, OpenIsFinite
<1>10. reservations' \in [ReservationId -> Reservation \cup {Unused}]
    BY <1>3 DEF LedgerInv, EnergyTypeOK
<1>11. old.reserved = (AmountOf(OpenOn(k)))'
    BY <1>5, <1>6
<1> QED
    BY ZenonT(60), <1>2, <1>3, <1>4, <1>5, <1>6, <1>7, <1>8, <1>9, <1>10, <1>11, OneAccountStep

\* reserve preserves the invariant: one open reservation more.
LEMMA ReserveStep ==
    ASSUME LedgerInv, NEW r \in ReservationId, NEW k \in Key, NEW amount \in Amount,
           Reserve(r, k, amount)
    PROVE  LedgerInv'
<1>1. amount \in Nat
    BY DEF Amount
<1> DEFINE opened == [status |-> "open", key |-> k, amount |-> amount]
<1>2. /\ accounts[k].held
      /\ accounts[k].available >= amount
      /\ accounts' = [accounts EXCEPT ![k] =
             AccountWith(@.available - amount, @.reserved + amount, @.spent)]
      /\ reservations' = [reservations EXCEPT ![r] = opened]
      /\ reservations[r].status = "unused"
      /\ snapshots' = {}
      /\ UNCHANGED <<granted, closes>>
    BY DEF Reserve, Covered
<1>3. /\ opened \in Reservation
      /\ opened.status = "open" /\ opened.key = k /\ opened.amount = amount
    BY <1>1 DEF Reservation
<1> HIDE DEF opened
<1>4. /\ reservations' \in [ReservationId -> Reservation \cup {Unused}]
      /\ reservations'[r] = opened
      /\ \A q \in ReservationId \ {r} : reservations'[q] = reservations[q]
    BY <1>2, <1>3 DEF LedgerInv, EnergyTypeOK
<1>5. /\ (OpenOn(k))' = OpenOn(k) \cup {r}
      /\ r \notin OpenOn(k)
      /\ \A j \in Key \ {k} : (OpenOn(j))' = OpenOn(j) /\ r \notin OpenOn(j)
    BY <1>2, <1>3, <1>4 DEF OpenOn
<1>6. \A j \in Key \ {k} : (AmountOf(OpenOn(j)))' = AmountOf(OpenOn(j))
    <2> SUFFICES ASSUME NEW j \in Key \ {k}
                 PROVE  (AmountOf(OpenOn(j)))' = AmountOf(OpenOn(j))
        OBVIOUS
    <2>1. \A q \in OpenOn(j) : reservations'[q] = reservations[q]
        BY <1>4, <1>5 DEF OpenOn
    <2>2. (AmountOf(OpenOn(j)))'
            = Total([q \in OpenOn(j) |-> reservations'[q].amount], OpenOn(j))
        BY <1>5 DEF AmountOf
    <2> QED
        BY <2>1, <2>2, TotalOfSame DEF AmountOf
<1>7. IsFiniteSet(OpenOn(k)) /\ IsFiniteSet((OpenOn(k))')
    BY <1>5, FS_AddElement DEF LedgerInv, OpenIsFinite
<1>8. (AmountOf(OpenOn(k)))' = AmountOf(OpenOn(k)) + amount
    <2> DEFINE after == [q \in OpenOn(k) \cup {r} |-> reservations'[q].amount]
    <2>1. (AmountOf(OpenOn(k)))' = Total(after, OpenOn(k) \cup {r})
        BY <1>5 DEF AmountOf
    <2>2. /\ after[r] = amount
          /\ \A q \in OpenOn(k) : after[q] = reservations[q].amount
        BY <1>3, <1>4, <1>5 DEF OpenOn
    <2>3. \A q \in OpenOn(k) : reservations[q].amount \in Nat
        BY Opened DEF LedgerInv, OpenOn
    <2> HIDE DEF after
    <2>4. Total(after, OpenOn(k) \cup {r}) = Total(after, OpenOn(k)) + after[r]
        BY <1>1, <1>5, <1>7, <2>2, <2>3, TotalWith
    <2>5. Total(after, OpenOn(k)) = AmountOf(OpenOn(k))
        BY <2>2, TotalOfSame DEF AmountOf
    <2> QED
        BY <2>1, <2>2, <2>4, <2>5
<1>9. /\ accounts[k].available \in Int
      /\ accounts[k].reserved \in Int
      /\ accounts[k].spent \in Int
    BY <1>2, Held, AccountFields DEF LedgerInv
<1>10. /\ accounts[k].available + accounts[k].reserved + accounts[k].spent = granted[k]
       /\ accounts[k].spent >= 0
       /\ accounts[k].reserved = AmountOf(OpenOn(k))
    BY <1>2 DEF LedgerInv, EnergyConserved, NothingOverspent, ReserveIsOpenReservations
<1> DEFINE a == accounts[k].available - amount
           b == accounts[k].reserved + amount
           c == accounts[k].spent
<1>11. /\ a \in Int /\ b \in Int /\ c \in Int
       /\ a >= 0 /\ c >= 0
       /\ a + b + c = granted'[k]
       /\ b = (AmountOf(OpenOn(k)))'
    BY <1>1, <1>2, <1>8, <1>9, <1>10
<1>12. accounts' = [accounts EXCEPT ![k] = AccountWith(a, b, c)]
    BY <1>2
<1>13. granted' \in [Key -> Int] /\ \A j \in Key \ {k} : granted'[j] = granted[j]
    BY <1>2 DEF LedgerInv, EnergyTypeOK
<1> HIDE DEF a, b, c
<1> QED
    BY <1>2, <1>4, <1>5, <1>6, <1>7, <1>11, <1>12, <1>13, OneAccountStep

\* settleReservation preserves the invariant: one open reservation less.
LEMMA SettleStep ==
    ASSUME LedgerInv, NEW r \in ReservationId, NEW spent \in Int, SettleReservation(r, spent)
    PROVE  LedgerInv'
<1>1. /\ reservations[r].status = "open"
      /\ reservations[r] \in Reservation
      /\ reservations[r].amount \in Nat
    BY Opened DEF LedgerInv, SettleReservation
<1>2. PICK k \in Key : k = reservations[r].key
    BY <1>1, Opened DEF LedgerInv
<1> DEFINE amount == reservations[r].amount
           a == accounts[k].available + amount - spent
           b == accounts[k].reserved - amount
           c == accounts[k].spent + spent
           done == Finished(reservations[r])
<1>3. /\ spent \in 0 .. amount
      /\ accounts[k].held
      /\ accounts' = [accounts EXCEPT ![k] = AccountWith(a, b, c)]
      /\ reservations' = [reservations EXCEPT ![r] = done]
      /\ snapshots' = {}
      /\ UNCHANGED <<granted, closes>>
    BY <1>2 DEF SettleReservation, Settled
<1>4. done \in Reservation /\ done.status = "settled"
    BY <1>1, Opened DEF LedgerInv, Finished, Reservation
<1> HIDE DEF done
<1>5. /\ reservations' \in [ReservationId -> Reservation \cup {Unused}]
      /\ reservations'[r] = done
      /\ \A q \in ReservationId \ {r} : reservations'[q] = reservations[q]
    BY <1>3, <1>4 DEF LedgerInv, EnergyTypeOK
<1>6. /\ (OpenOn(k))' = OpenOn(k) \ {r}
      /\ r \in OpenOn(k)
      /\ \A j \in Key \ {k} : (OpenOn(j))' = OpenOn(j) /\ r \notin OpenOn(j)
    BY <1>1, <1>2, <1>4, <1>5 DEF OpenOn
<1>7. \A j \in Key \ {k} : (AmountOf(OpenOn(j)))' = AmountOf(OpenOn(j))
    <2> SUFFICES ASSUME NEW j \in Key \ {k}
                 PROVE  (AmountOf(OpenOn(j)))' = AmountOf(OpenOn(j))
        OBVIOUS
    <2>1. \A q \in OpenOn(j) : reservations'[q] = reservations[q]
        BY <1>5, <1>6 DEF OpenOn
    <2>2. (AmountOf(OpenOn(j)))'
            = Total([q \in OpenOn(j) |-> reservations'[q].amount], OpenOn(j))
        BY <1>6 DEF AmountOf
    <2> QED
        BY <2>1, <2>2, TotalOfSame DEF AmountOf
<1>8. IsFiniteSet(OpenOn(k)) /\ IsFiniteSet((OpenOn(k))')
    BY <1>6, FS_RemoveElement DEF LedgerInv, OpenIsFinite
<1>9. (AmountOf(OpenOn(k)))' = AmountOf(OpenOn(k)) - amount
    <2> DEFINE before == [q \in OpenOn(k) |-> reservations[q].amount]
               after == [q \in OpenOn(k) \ {r} |-> reservations'[q].amount]
    <2>1. (AmountOf(OpenOn(k)))' = Total(after, OpenOn(k) \ {r})
        BY <1>6 DEF AmountOf
    <2>2. \A q \in OpenOn(k) \ {r} : after[q] = before[q]
        BY <1>5 DEF OpenOn
    <2>3. /\ \A q \in OpenOn(k) : before[q] \in Nat
          /\ before[r] = amount
        BY <1>6, Opened DEF LedgerInv, OpenOn
    <2>4. AmountOf(OpenOn(k)) = Total(before, OpenOn(k))
        BY DEF AmountOf
    <2> HIDE DEF before, after
    <2>5. Total(after, OpenOn(k) \ {r}) = Total(before, OpenOn(k) \ {r})
        BY <2>2, TotalOfSame
    <2>6. Total(before, OpenOn(k) \ {r}) = Total(before, OpenOn(k)) - before[r]
        BY <1>6, <1>8, <2>3, TotalWithout
    <2> QED
        BY <2>1, <2>3, <2>4, <2>5, <2>6
<1>10. /\ accounts[k].available \in Int
       /\ accounts[k].reserved \in Int
       /\ accounts[k].spent \in Int
    BY <1>3, Held, AccountFields DEF LedgerInv
<1>11. /\ accounts[k].available + accounts[k].reserved + accounts[k].spent = granted[k]
       /\ accounts[k].available >= 0
       /\ accounts[k].spent >= 0
       /\ accounts[k].reserved = AmountOf(OpenOn(k))
    BY <1>3 DEF LedgerInv, EnergyConserved, NothingOverspent, ReserveIsOpenReservations
<1>12. /\ a \in Int /\ b \in Int /\ c \in Int
       /\ a >= 0 /\ c >= 0
       /\ a + b + c = granted'[k]
       /\ b = (AmountOf(OpenOn(k)))'
    BY <1>1, <1>3, <1>9, <1>10, <1>11
<1>13. granted' \in [Key -> Int] /\ \A j \in Key \ {k} : granted'[j] = granted[j]
    BY <1>3 DEF LedgerInv, EnergyTypeOK
<1> HIDE DEF amount, a, b, c
<1> QED
    BY <1>3, <1>5, <1>6, <1>7, <1>8, <1>12, <1>13, OneAccountStep

\* closeMission preserves the invariant: the mission's accounts go together
\* with all their open reservations, and the others keep theirs.
LEMMA CloseStep ==
    ASSUME LedgerInv, NEW m \in MissionId, CloseMission(m)
    PROVE  LedgerInv'
<1> DEFINE mine == {k \in MissionKeys(m) : accounts[k].held}
           open == UNION {OpenOn(k) : k \in MissionKeys(m)}
<1>1. /\ snapshots' = {[key |-> k, account |-> Refunded(k), granted |-> granted[k]]
                          : k \in mine}
      /\ accounts' = [k \in Key |-> IF k \in mine THEN NoAccount ELSE accounts[k]]
      /\ granted' = [k \in Key |-> IF k \in mine THEN 0 ELSE granted[k]]
      /\ reservations' = [r \in ReservationId |->
                             IF r \in open THEN Finished(reservations[r])
                             ELSE reservations[r]]
      /\ closes' = closes + 1
    BY DEF CloseMission
<1>2. \A r \in open : /\ r \in ReservationId
                      /\ Finished(reservations[r]) \in Reservation
                      /\ Finished(reservations[r]).status = "settled"
    <2> SUFFICES ASSUME NEW r \in open
                 PROVE  /\ r \in ReservationId
                        /\ Finished(reservations[r]) \in Reservation
                        /\ Finished(reservations[r]).status = "settled"
        OBVIOUS
    <2>1. r \in ReservationId /\ reservations[r].status = "open"
        BY DEF OpenOn
    <2> QED
        BY <2>1, Opened DEF LedgerInv, Finished, Reservation
<1>3. \A k \in Key : k \notin mine =>
        /\ accounts'[k] = accounts[k]
        /\ granted'[k] = granted[k]
    BY <1>1
<1>4. \A k \in mine : k \in Key /\ ~accounts'[k].held /\ granted'[k] = 0
    BY <1>1 DEF MissionKeys, NoAccount
<1>5. \A k \in MissionKeys(m) : (OpenOn(k))' = {}
    <2> SUFFICES ASSUME NEW k \in MissionKeys(m), NEW r \in (OpenOn(k))'
                 PROVE  FALSE
        OBVIOUS
    <2>1. /\ r \in ReservationId
          /\ reservations'[r].status = "open"
          /\ reservations'[r].key = k
        BY DEF OpenOn
    <2>2. r \notin open
        BY <1>1, <1>2, <2>1
    <2>3. reservations'[r] = reservations[r]
        BY <1>1, <2>1, <2>2
    <2>4. r \in OpenOn(k)
        BY <2>1, <2>3 DEF OpenOn
    <2> QED
        BY <2>2, <2>4
<1>6. \A k \in Key \ MissionKeys(m) :
        /\ (OpenOn(k))' = OpenOn(k)
        /\ \A r \in OpenOn(k) : reservations'[r] = reservations[r]
    <2> SUFFICES ASSUME NEW k \in Key \ MissionKeys(m)
                 PROVE  /\ (OpenOn(k))' = OpenOn(k)
                        /\ \A r \in OpenOn(k) : reservations'[r] = reservations[r]
        OBVIOUS
    <2>1. \A r \in OpenOn(k) : r \notin open
        BY DEF OpenOn
    <2>2. \A r \in ReservationId :
            reservations'[r].status = "open" => reservations'[r] = reservations[r]
        BY <1>1, <1>2
    <2>3. \A r \in OpenOn(k) : reservations'[r] = reservations[r]
        BY <1>1, <2>1 DEF OpenOn
    <2> QED
        BY <2>2, <2>3 DEF OpenOn
<1>7. EnergyTypeOK'
    <2>1. accounts' \in [Key -> Account \cup {NoAccount}]
        BY <1>1 DEF LedgerInv, EnergyTypeOK
    <2>2. reservations' \in [ReservationId -> Reservation \cup {Unused}]
        BY <1>1, <1>2 DEF LedgerInv, EnergyTypeOK
    <2>3. granted' \in [Key -> Int] /\ closes' \in Nat
        BY <1>1 DEF LedgerInv, EnergyTypeOK
    <2> QED
        BY <2>1, <2>2, <2>3 DEF EnergyTypeOK
<1>8. CloseRefundsReserves'
    <2> SUFFICES ASSUME NEW k \in mine
                 PROVE  /\ Refunded(k).reserved = 0
                        /\ Refunded(k).available + Refunded(k).spent = granted[k]
        BY <1>1 DEF CloseRefundsReserves
    <2>1. k \in Key /\ accounts[k].held
        BY DEF MissionKeys
    <2>2. /\ accounts[k].available \in Int
          /\ accounts[k].reserved \in Int
          /\ accounts[k].spent \in Int
        BY <2>1, Held, AccountFields DEF LedgerInv
    <2>3. /\ accounts[k].available + accounts[k].reserved + accounts[k].spent = granted[k]
          /\ accounts[k].reserved = AmountOf(OpenOn(k))
        BY <2>1 DEF LedgerInv, EnergyConserved, ReserveIsOpenReservations
    <2>4. AmountOf(OpenOn(k)) \in Int
        BY <2>2, <2>3
    <2>5. /\ Refunded(k).available = accounts[k].available + AmountOf(OpenOn(k))
          /\ Refunded(k).reserved = accounts[k].reserved - AmountOf(OpenOn(k))
          /\ Refunded(k).spent = accounts[k].spent
        BY DEF Refunded, AccountWith
    <2> QED
        BY <2>2, <2>3, <2>5
<1> HIDE DEF open
<1>9. EnergyConserved' /\ NothingOverspent' /\ GrantsAreHeld'
    BY <1>3, <1>4 DEF LedgerInv, EnergyConserved, NothingOverspent, GrantsAreHeld
<1>10. \A k \in Key : accounts'[k].held =>
         /\ k \in Key \ MissionKeys(m)
         /\ accounts'[k] = accounts[k]
    BY <1>3, <1>4
<1>11. OpenIsFinite'
    BY <1>5, <1>6, FS_EmptySet DEF LedgerInv, OpenIsFinite
<1>12. ReserveIsOpenReservations'
    <2> SUFFICES ASSUME NEW k \in Key, accounts'[k].held
                 PROVE  accounts'[k].reserved = (AmountOf(OpenOn(k)))'
        BY DEF ReserveIsOpenReservations
    <2>1. k \in Key \ MissionKeys(m) /\ accounts'[k] = accounts[k]
        BY <1>10
    <2>2. (AmountOf(OpenOn(k)))'
            = Total([r \in OpenOn(k) |-> reservations'[r].amount], OpenOn(k))
        BY <1>6, <2>1 DEF AmountOf
    <2>3. (AmountOf(OpenOn(k)))' = AmountOf(OpenOn(k))
        BY <1>6, <2>1, <2>2, TotalOfSame DEF AmountOf
    <2> QED
        BY <2>1, <2>3 DEF LedgerInv, ReserveIsOpenReservations
<1>13. OpenHasAccount'
    <2> SUFFICES ASSUME NEW r \in ReservationId, reservations'[r].status = "open"
                 PROVE  accounts'[reservations'[r].key].held
        BY DEF OpenHasAccount
    <2>1. PICK k \in Key : k = reservations'[r].key
        BY <1>7 DEF EnergyTypeOK, Unused, Reservation
    <2>2. r \in (OpenOn(k))'
        BY <2>1 DEF OpenOn
    <2>3. k \in Key \ MissionKeys(m) /\ r \in OpenOn(k)
        BY <1>5, <1>6, <2>2
    <2>4. accounts[k].held
        BY <2>3 DEF LedgerInv, OpenHasAccount, OpenOn
    <2> QED
        BY <1>3, <2>1, <2>3, <2>4
<1> QED
    BY <1>7, <1>8, <1>9, <1>11, <1>12, <1>13 DEF LedgerInv

-----------------------------------------------------------------------------
\* The inductive invariant holds in every reachable state.
THEOREM LedgerInvariant == EnergySpec => []LedgerInv
<1>1. EnergyInit => LedgerInv
    <2> SUFFICES ASSUME EnergyInit PROVE LedgerInv
        OBVIOUS
    <2>1. EnergyTypeOK
        BY DEF EnergyInit, EnergyTypeOK
    <2>2. \A k \in Key : ~accounts[k].held /\ granted[k] = 0 /\ OpenOn(k) = {}
        BY DEF EnergyInit, NoAccount, OpenOn, Unused
    <2>3. OpenIsFinite
        BY <2>2, FS_EmptySet DEF OpenIsFinite
    <2>4. OpenHasAccount
        BY DEF EnergyInit, OpenHasAccount, Unused
    <2>5. CloseRefundsReserves
        BY DEF EnergyInit, CloseRefundsReserves
    <2>6. EnergyConserved /\ ReserveIsOpenReservations /\ NothingOverspent /\ GrantsAreHeld
        BY <2>2
        DEF EnergyConserved, ReserveIsOpenReservations, NothingOverspent, GrantsAreHeld
    <2> QED
        BY <2>1, <2>3, <2>4, <2>5, <2>6 DEF LedgerInv
<1>2. LedgerInv /\ [EnergyNext]_energyVars => LedgerInv'
    <2> SUFFICES ASSUME LedgerInv, [EnergyNext]_energyVars PROVE LedgerInv'
        OBVIOUS
    <2>1. ASSUME NEW k \in Key, NEW amount \in Amount, Allocate(k, amount)
          PROVE  LedgerInv'
        BY <2>1, AllocateStep
    <2>2. ASSUME NEW r \in ReservationId, NEW k \in Key, NEW amount \in Amount,
                 Reserve(r, k, amount)
          PROVE  LedgerInv'
        BY <2>2, ReserveStep
    <2>3. ASSUME NEW r \in ReservationId, NEW spent \in 0 .. MaxAllocation,
                 SettleReservation(r, spent)
          PROVE  LedgerInv'
        BY <2>3, SettleStep
    <2>4. ASSUME NEW m \in MissionId, CloseMission(m) PROVE LedgerInv'
        BY <2>4, CloseStep
    <2>5. CASE UNCHANGED energyVars
        BY <2>5 DEF energyVars, LedgerInv, EnergyTypeOK, EnergyConserved, OpenHasAccount, OpenIsFinite,
                    ReserveIsOpenReservations, NothingOverspent, GrantsAreHeld,
                    CloseRefundsReserves, OpenOn, AmountOf
    <2> QED
        BY <2>1, <2>2, <2>3, <2>4, <2>5 DEF EnergyNext
<1> QED
    BY <1>1, <1>2, PTL DEF EnergySpec

\* Accounts and reservations are well formed.
THEOREM EnergyTypeCorrect == EnergySpec => []EnergyTypeOK
<1>1. LedgerInv => EnergyTypeOK
    BY DEF LedgerInv
<1> QED
    BY <1>1, LedgerInvariant, PTL

\* allocate, reserve, settleReservation and closeMission mint and lose no
\* energy.
THEOREM Conservation == EnergySpec => []EnergyConserved
<1>1. LedgerInv => EnergyConserved
    BY DEF LedgerInv
<1> QED
    BY <1>1, LedgerInvariant, PTL

\* No order of reservations, late settlements and closings overdraws an
\* account.
THEOREM NeverOverdrawn == EnergySpec => []NoOverdraft
BY NoOverdraftFromInv, LedgerInvariant, PTL

\* What an account holds in reserve is exactly its open reservations.
THEOREM ReserveExact == EnergySpec => []ReserveIsOpenReservations
<1>1. LedgerInv => ReserveIsOpenReservations
    BY DEF LedgerInv
<1> QED
    BY <1>1, LedgerInvariant, PTL

\* settleReservation and closeMission never meet an open reservation whose
\* account is gone.
THEOREM SettlementFindsAccount == EnergySpec => []OpenHasAccount
<1>1. LedgerInv => OpenHasAccount
    BY DEF LedgerInv
<1> QED
    BY <1>1, LedgerInvariant, PTL

\* The books balance for any missions, actors, amounts and order of calls.
THEOREM Books == EnergySpec => []BooksBalance
<1>1. LedgerInv => BooksBalance
    BY NoOverdraftFromInv DEF LedgerInv, BooksBalance
<1> QED
    BY <1>1, LedgerInvariant, PTL

\* closeMission hands back everything that was not spent.
THEOREM CloseRefunds == EnergySpec => []CloseRefundsReserves
<1>1. LedgerInv => CloseRefundsReserves
    BY DEF LedgerInv
<1> QED
    BY <1>1, LedgerInvariant, PTL

-----------------------------------------------------------------------------
\* The gates of an adapter.

\* A candidate that climbed the ladder from its foot, gate by gate.
Climbed(c) ==
    /\ c \in [status : {"qualifying", "rejected", "promoted"}, next : 0 .. 6,
              gates : Seq(StoredGate), shadow : BOOLEAN, canary : BOOLEAN, production : BOOLEAN]
    /\ Len(c.gates) \in 0 .. 6
    /\ \A i \in 1 .. Len(c.gates) :
          /\ c.gates[i].id = Ladder[i]
          /\ i < Len(c.gates) => c.gates[i].status = "passed"
          /\ i >= 5 => c.gates[i].host
          /\ i = 4 => /\ c.gates[i].receipt.kind = "missions"
                      /\ c.gates[i].receipt.names /\ c.gates[i].receipt.ready

\* How its status and its permissions follow from its gates.
PassedAll(c, n) == n <= Len(c.gates) /\ \A i \in 1 .. n : c.gates[i].status = "passed"
Standing(c) ==
    /\ c.status = "rejected" <=> ~PassedAll(c, Len(c.gates))
    /\ c.status = "promoted" <=> PassedAll(c, 6)
    /\ c.next = IF c.status = "qualifying" THEN Len(c.gates) + 1 ELSE 0
    /\ c.shadow <=> PassedAll(c, 3)
    /\ c.canary <=> PassedAll(c, 4)
    /\ c.production <=> PassedAll(c, 6)

GatesInv == candidate # NoCandidate => Climbed(candidate) /\ Standing(candidate)

\* The ladder has six gates, each with a name of its own.
LEMMA LadderIs ==
    /\ Len(Ladder) = 6 /\ DOMAIN Ladder = 1 .. 6
    /\ \A i \in 1 .. 6 : /\ Ladder[i] \in ToSet(Ladder)
                         /\ Ladder[i] = "sealed-holdout" <=> i = 3
                         /\ Ladder[i] = "shadow" <=> i = 4
                         /\ Ladder[i] = "promoted" <=> i = 6
                         /\ Ladder[i] \in ResearchRecordable => i <= 4
                         /\ Ladder[i] \in {"canary", "promoted"} => i >= 5
<1>1. Len(Ladder) = 6 /\ DOMAIN Ladder = 1 .. 6
    BY DEF Ladder
<1>2. \A i \in 1 .. 6 : i = 1 \/ i = 2 \/ i = 3 \/ i = 4 \/ i = 5 \/ i = 6
    OBVIOUS
<1>3. /\ Ladder[1] = "trained" /\ Ladder[2] = "frozen-holdout" /\ Ladder[3] = "sealed-holdout"
      /\ Ladder[4] = "shadow" /\ Ladder[5] = "canary" /\ Ladder[6] = "promoted"
    BY DEF Ladder
<1> QED
    BY <1>1, <1>2, <1>3 DEF ToSet, ResearchRecordable

\* What a gate of the host or of research has behind it.
Attested(i, receipt, host) ==
    /\ i >= 5 => host
    /\ i = 4 => receipt.kind = "missions" /\ receipt.names /\ receipt.ready

CandidateOf == [status : {"qualifying", "rejected", "promoted"}, next : 0 .. 6,
                gates : Seq(StoredGate), shadow : BOOLEAN, canary : BOOLEAN, production : BOOLEAN]

\* The fields of a candidate after a gate.
LEMMA AppliedFields ==
    ASSUME NEW c \in CandidateOf, NEW i \in 1 .. 6, NEW gate \in StoredGate, gate.id = Ladder[i]
    PROVE  /\ Applied(c, i, gate) \in CandidateOf
           /\ Applied(c, i, gate).gates = Append(c.gates, gate)
           /\ gate.status = "failed" =>
                 /\ Applied(c, i, gate).status = "rejected" /\ Applied(c, i, gate).next = 0
                 /\ Applied(c, i, gate).shadow = c.shadow
                 /\ Applied(c, i, gate).canary = c.canary
                 /\ Applied(c, i, gate).production = c.production
           /\ gate.status = "passed" =>
                 /\ Applied(c, i, gate).status = IF i = 6 THEN "promoted" ELSE c.status
                 /\ Applied(c, i, gate).next = IF i = 6 THEN 0 ELSE i + 1
                 /\ Applied(c, i, gate).shadow <=> c.shadow \/ i = 3
                 /\ Applied(c, i, gate).canary <=> c.canary \/ i = 4
                 /\ Applied(c, i, gate).production <=> c.production \/ i = 6
<1>1. Append(c.gates, gate) \in Seq(StoredGate)
    BY AppendProperties DEF CandidateOf
<1>2. gate.status \in {"passed", "failed"}
    BY DEF StoredGate, GateStatus
<1>3. /\ gate.id = "sealed-holdout" <=> i = 3
      /\ gate.id = "shadow" <=> i = 4
      /\ gate.id = "promoted" <=> i = 6
      /\ Len(Ladder) = 6
    BY LadderIs
<1>4. i # 6 => i + 1 \in 0 .. 6
    OBVIOUS
<1> DEFINE after == Append(c.gates, gate)
<1> HIDE DEF after
<1>5. CASE gate.status = "failed"
    <2>1. Applied(c, i, gate) = [c EXCEPT !.gates = after, !.status = "rejected", !.next = 0]
        BY <1>5 DEF Applied, after
    <2>2. after \in Seq(StoredGate)
        BY <1>1 DEF after
    <2> DEFINE new == Applied(c, i, gate)
    <2>3. c = [status |-> c.status, next |-> c.next, gates |-> c.gates, shadow |-> c.shadow,
               canary |-> c.canary, production |-> c.production]
        BY DEF CandidateOf
    <2>4. new = [status |-> "rejected", next |-> 0, gates |-> after, shadow |-> c.shadow,
                 canary |-> c.canary, production |-> c.production]
        BY <2>1, <2>3
    <2>5. c.shadow \in BOOLEAN /\ c.canary \in BOOLEAN /\ c.production \in BOOLEAN
        BY DEF CandidateOf
    <2>6. new \in CandidateOf
        BY <2>2, <2>4, <2>5 DEF CandidateOf
    <2>7. /\ new.status = "rejected" /\ new.next = 0 /\ new.gates = after
          /\ new.shadow = c.shadow /\ new.canary = c.canary /\ new.production = c.production
        BY <2>4
    <2> QED
        BY <1>5, <2>6, <2>7 DEF after
<1>6. CASE gate.status = "passed"
    <2>1. Applied(c, i, gate) =
             [status |-> IF i = 6 THEN "promoted" ELSE c.status,
              next |-> IF i = 6 THEN 0 ELSE i + 1,
              gates |-> after,
              shadow |-> c.shadow \/ i = 3,
              canary |-> c.canary \/ i = 4,
              production |-> c.production \/ i = 6]
        BY <1>3, <1>6 DEF Applied, after
    <2>2. after \in Seq(StoredGate)
        BY <1>1 DEF after
    <2> DEFINE new == Applied(c, i, gate)
    <2>3. /\ new.status = IF i = 6 THEN "promoted" ELSE c.status
          /\ new.next = IF i = 6 THEN 0 ELSE i + 1
          /\ new.gates = after
          /\ new.shadow = (c.shadow \/ i = 3)
          /\ new.canary = (c.canary \/ i = 4)
          /\ new.production = (c.production \/ i = 6)
        BY <2>1
    <2>4. /\ (c.shadow \/ i = 3) \in BOOLEAN /\ (c.canary \/ i = 4) \in BOOLEAN
          /\ (c.production \/ i = 6) \in BOOLEAN
        OBVIOUS
    <2>5. /\ (IF i = 6 THEN "promoted" ELSE c.status) \in {"qualifying", "rejected", "promoted"}
          /\ (IF i = 6 THEN 0 ELSE i + 1) \in 0 .. 6
        BY <1>4 DEF CandidateOf
    <2>6. new \in CandidateOf
        <3>1. PICK a \in {"qualifying", "rejected", "promoted"} :
                  a = IF i = 6 THEN "promoted" ELSE c.status
            BY <2>5
        <3>2. PICK k \in 0 .. 6 : k = IF i = 6 THEN 0 ELSE i + 1
            BY <2>5
        <3>3. PICK x \in BOOLEAN, y \in BOOLEAN, z \in BOOLEAN :
                  x = (c.shadow \/ i = 3) /\ y = (c.canary \/ i = 4) /\ z = (c.production \/ i = 6)
            BY <2>4
        <3>4. new = [status |-> a, next |-> k, gates |-> after, shadow |-> x, canary |-> y,
                     production |-> z]
            BY <2>1, <3>1, <3>2, <3>3
        <3> HIDE DEF new
        <3> QED
            BY <2>2, <3>4 DEF CandidateOf
    <2> HIDE DEF new
    <2> QED
        BY <1>6, <2>3, <2>6 DEF after, new
<1> QED
    BY <1>2, <1>5, <1>6

\* A next gate of the right kind takes a qualifying candidate up, or out.
LEMMA AppliedClimbs ==
    ASSUME NEW c, Climbed(c), Standing(c), c.status = "qualifying",
           NEW status \in GateStatus, NEW receipt \in Receipt, NEW host \in BOOLEAN,
           Attested(c.next, receipt, host)
    PROVE  LET new == Applied(c, c.next, Gate(c.next, status, receipt, host))
           IN  /\ Climbed(new) /\ Standing(new)
               /\ Len(new.gates) = Len(c.gates) + 1
               /\ status = "passed" /\ c.next < 6 => new.status = "qualifying"
<1>1. c \in CandidateOf /\ Len(c.gates) \in 0 .. 6
    BY DEF Climbed, CandidateOf
<1>2. PICK n \in 0 .. 6 : n = Len(c.gates)
    BY <1>1
<1>3. c.next = n + 1 /\ c.next \in 0 .. 6
    BY <1>1, <1>2 DEF Standing, CandidateOf
<1>4. n \in 0 .. 5 /\ n + 1 \in 1 .. 6
    BY <1>3
<1> DEFINE gate == Gate(n + 1, status, receipt, host)
           new == Applied(c, n + 1, gate)
           gates == new.gates
<1>5. gate \in StoredGate /\ gate.id = Ladder[n + 1] /\ gate.status = status
      /\ gate.receipt = receipt /\ gate.host = host
    BY <1>4, LadderIs DEF Gate, StoredGate
<1>6. status = "passed" \/ status = "failed"
    BY DEF GateStatus
<1> HIDE DEF gate
<1>7. /\ new \in CandidateOf
      /\ gates = Append(c.gates, gate)
    BY ZenonT(60), <1>1, <1>4, <1>5, AppliedFields
<1>8. status = "failed" =>
          /\ new.status = "rejected" /\ new.next = 0
          /\ new.shadow = c.shadow /\ new.canary = c.canary /\ new.production = c.production
    BY <1>1, <1>4, <1>5, AppliedFields
<1>9. status = "passed" =>
          /\ new.status = IF n + 1 = 6 THEN "promoted" ELSE "qualifying"
          /\ new.next = IF n + 1 = 6 THEN 0 ELSE n + 1 + 1
          /\ new.shadow <=> c.shadow \/ n + 1 = 3
          /\ new.canary <=> c.canary \/ n + 1 = 4
          /\ new.production <=> c.production \/ n + 1 = 6
    BY SMTT(40), <1>1, <1>4, <1>5, AppliedFields
<1> HIDE DEF new
<1>10. /\ Len(gates) = n + 1
       /\ \A i \in 1 .. n : gates[i] = c.gates[i]
       /\ gates[n + 1] = gate
    <2>1. c.gates \in Seq(StoredGate)
        BY <1>1 DEF CandidateOf
    <2> QED
        BY <1>2, <1>5, <1>7, <2>1, AppendProperties
<1>11. \A i \in 1 .. n : c.gates[i].status = "passed"
    <2>1. PassedAll(c, n)
        BY <1>2 DEF Standing
    <2> QED
        BY <2>1 DEF PassedAll
<1>12. Climbed(new)
    <2>1. ASSUME NEW i \in 1 .. n + 1
          PROVE  /\ gates[i].id = Ladder[i]
                 /\ i < n + 1 => gates[i].status = "passed"
                 /\ i >= 5 => gates[i].host
                 /\ i = 4 => /\ gates[i].receipt.kind = "missions"
                             /\ gates[i].receipt.names /\ gates[i].receipt.ready
        <3>1. CASE i = n + 1
            <4>1. gates[i] = gate /\ gate.id = Ladder[i] /\ ~(i < n + 1)
                BY <1>4, <1>5, <1>10, <3>1
            <4>2. i = c.next
                BY <1>3, <3>1
            <4> QED
                BY <1>5, <4>1, <4>2 DEF Attested
        <3>2. CASE i # n + 1
            <4>1. i \in 1 .. n
                BY <1>4, <3>2
            <4>2. gates[i] = c.gates[i] /\ gates[i].status = "passed"
                BY <1>10, <1>11, <4>1
            <4> QED
                BY <1>2, <4>1, <4>2 DEF Climbed
        <3> QED
            BY <3>1, <3>2
    <2>2. Len(gates) = n + 1 /\ Len(gates) \in 0 .. 6
        BY <1>4, <1>10
    <2>3. \A i \in 1 .. Len(gates) :
              /\ gates[i].id = Ladder[i]
              /\ i < Len(gates) => gates[i].status = "passed"
              /\ i >= 5 => gates[i].host
              /\ i = 4 => /\ gates[i].receipt.kind = "missions"
                          /\ gates[i].receipt.names /\ gates[i].receipt.ready
        BY <2>1, <2>2, Zenon
    <2> QED
        BY <1>7, <2>2, <2>3 DEF Climbed, CandidateOf
<1>13. \A k \in 1 .. 6 : PassedAll(new, k) <=> k <= n \/ (k = n + 1 /\ status = "passed")
    BY SMTT(40), <1>4, <1>5, <1>6, <1>10, <1>11 DEF PassedAll
<1>14. \A k \in 1 .. 6 : PassedAll(c, k) <=> k <= n
    BY <1>2, <1>11 DEF PassedAll
<1>15. /\ c.shadow <=> n >= 3
       /\ c.canary <=> n >= 4
       /\ c.production <=> FALSE
    <2>1. /\ c.shadow <=> PassedAll(c, 3)
          /\ c.canary <=> PassedAll(c, 4)
          /\ c.production <=> PassedAll(c, 6)
        BY DEF Standing
    <2>2. /\ PassedAll(c, 3) <=> n >= 3
          /\ PassedAll(c, 4) <=> n >= 4
          /\ ~PassedAll(c, 6)
        BY <1>4, <1>14
    <2> QED
        BY <2>1, <2>2
<1>16. PassedAll(new, n + 1) <=> status = "passed"
    BY <1>4, <1>13
<1>17. Standing(new)
    <2>1. CASE status = "failed"
        <3>1. /\ PassedAll(new, 3) <=> n >= 3
              /\ PassedAll(new, 4) <=> n >= 4
              /\ ~PassedAll(new, 6) /\ ~PassedAll(new, n + 1)
            BY <1>4, <1>13, <1>16, <2>1
        <3> QED
            BY <1>8, <1>10, <1>15, <2>1, <3>1 DEF Standing
    <2>2. CASE status = "passed"
        <3>1. /\ PassedAll(new, 3) <=> (n >= 3 \/ n + 1 = 3)
              /\ PassedAll(new, 4) <=> (n >= 4 \/ n + 1 = 4)
              /\ PassedAll(new, 6) <=> n + 1 = 6
              /\ PassedAll(new, n + 1)
            BY <1>4, <1>13, <1>16, <2>2
        <3>2. new.next = IF new.status = "qualifying" THEN Len(gates) + 1 ELSE 0
            BY <1>4, <1>9, <1>10, <2>2
        <3>3. new.status # "rejected" /\ (new.status = "promoted" <=> n + 1 = 6)
            BY <1>9, <2>2
        <3> QED
            BY <1>9, <1>10, <1>15, <2>2, <3>1, <3>2, <3>3 DEF Standing
    <2> QED
        BY <1>6, <2>1, <2>2
<1>18. status = "passed" /\ c.next < 6 => new.status = "qualifying"
    BY <1>3, <1>4, <1>9
<1> QED
    BY <1>2, <1>3, <1>10, <1>12, <1>17, <1>18 DEF gate, new

\* A created candidate stands at the ladder's foot.
LEMMA CreatedClimbs == Climbed(Created) /\ Standing(Created) /\ Created.status = "qualifying"
                       /\ Created.next = 1 /\ Len(Created.gates) = 0
<1>1. Created.gates \in Seq(StoredGate) /\ Len(Created.gates) = 0
    BY DEF Created
<1>2. Created \in CandidateOf
    BY <1>1 DEF Created, CandidateOf
<1>3. ~PassedAll(Created, 3) /\ ~PassedAll(Created, 4) /\ ~PassedAll(Created, 6)
      /\ PassedAll(Created, Len(Created.gates))
    BY <1>1 DEF PassedAll
<1>4. Climbed(Created)
    BY <1>1, <1>2 DEF Climbed, CandidateOf
<1>5. /\ Created.status = "qualifying" /\ Created.next = 1
      /\ ~Created.shadow /\ ~Created.canary /\ ~Created.production
    BY DEF Created
<1> QED
    BY <1>1, <1>3, <1>4, <1>5 DEF Standing

\* recordAdapterGate keeps the ladder.
LEMMA RecordAdapterGateKeeps ==
    ASSUME GatesInv, NEW i \in DOMAIN Ladder, NEW status \in GateStatus, NEW receipt \in Receipt,
           RecordAdapterGate(i, status, receipt)
    PROVE  GatesInv'
<1>1. Climbed(candidate) /\ Standing(candidate) /\ candidate.status = "qualifying"
      /\ i = candidate.next
    BY DEF GatesInv, RecordAdapterGate, Recordable
<1>2. i \in 1 .. 6 /\ i <= 4 /\ (Ladder[i] = "shadow" <=> i = 4)
    BY LadderIs DEF RecordAdapterGate, Recordable
<1>3. Attested(i, receipt, FALSE)
    BY <1>2 DEF Attested, RecordAdapterGate, Recordable
<1>4. candidate' = Applied(candidate, candidate.next, Gate(candidate.next, status, receipt, FALSE))
    BY <1>1 DEF RecordAdapterGate
<1>5. Climbed(candidate') /\ Standing(candidate')
    BY <1>1, <1>3, <1>4, AppliedClimbs
<1> QED
    BY <1>5 DEF GatesInv

\* A rejected or promoted candidate has no next gate.
LEMMA NextMeansQualifying ==
    ASSUME NEW c, Standing(c), c.next # 0
    PROVE  c.status = "qualifying"
BY DEF Standing

\* recordHostAdapterGate keeps the ladder.
LEMMA RecordHostAdapterGateKeeps ==
    ASSUME GatesInv, NEW i \in DOMAIN Ladder, NEW status \in GateStatus,
           NEW receipt \in Receipt, NEW payload \in Receipt, NEW authority,
           RecordHostAdapterGate(i, status, receipt, authority, payload)
    PROVE  GatesInv'
<1>1. Climbed(candidate) /\ Standing(candidate) /\ i = candidate.next
    BY DEF GatesInv, RecordHostAdapterGate, HostRecordable
<1>2. i \in 1 .. 6 /\ i >= 5
    BY LadderIs DEF RecordHostAdapterGate, HostRecordable
<1>3. Attested(i, receipt, TRUE) /\ candidate.status = "qualifying"
    BY <1>1, <1>2, NextMeansQualifying DEF Attested
<1>4. candidate' = Applied(candidate, candidate.next, Gate(candidate.next, status, receipt, TRUE))
    BY <1>1 DEF RecordHostAdapterGate
<1>5. Climbed(candidate') /\ Standing(candidate')
    BY <1>1, <1>3, <1>4, AppliedClimbs
<1> QED
    BY <1>5 DEF GatesInv

\* The script's candidate climbed as far as its gradings take it.
LEMMA RecordThroughKeeps ==
    ASSUME NEW training \in Receipt, NEW gradings,
           NEW m \in 0 .. 2, gradings \in [1 .. m -> Receipt],
           RecordThrough(training, gradings)
    PROVE  GatesInv'
<1> DEFINE trained == Applied(Created, 1, Gate(1, "passed", training, FALSE))
           frozen == IF gradings = <<>> THEN trained ELSE Graded(trained, 2, gradings[1])
           sealed == Graded(frozen, 3, gradings[2])
<1>1. \A receipt \in Receipt : Verdict(receipt) \in GateStatus
    BY DEF Verdict, GateStatus
<1>2. "passed" \in GateStatus /\ FALSE \in BOOLEAN
    BY DEF GateStatus
<1>3. Climbed(trained) /\ Standing(trained) /\ trained.status = "qualifying"
      /\ trained.next = 2 /\ Len(trained.gates) = 1
    <2>1. Attested(Created.next, training, FALSE)
        BY CreatedClimbs DEF Attested
    <2>2. Climbed(trained) /\ Standing(trained) /\ trained.status = "qualifying"
          /\ Len(trained.gates) = 1
        <3>1. /\ Climbed(Created) /\ Standing(Created) /\ Created.status = "qualifying"
              /\ Created.next = 1 /\ Len(Created.gates) = 0
            BY CreatedClimbs
        <3>2. trained = Applied(Created, Created.next,
                                Gate(Created.next, "passed", training, FALSE))
            BY <3>1
        <3> HIDE DEF trained
        <3>3. Climbed(trained) /\ Standing(trained)
              /\ Len(trained.gates) = Len(Created.gates) + 1
              /\ (Created.next < 6 => trained.status = "qualifying")
            BY <1>2, <2>1, <3>1, <3>2, AppliedClimbs
        <3> QED
            BY <3>1, <3>3
    <2> HIDE DEF trained
    <2> QED
        BY <2>2 DEF Standing
<1> HIDE DEF trained
<1>4. Len(gradings) = m /\ (gradings = <<>> <=> m = 0)
    OBVIOUS
<1>5. Climbed(frozen) /\ Standing(frozen)
      /\ (m = 2 /\ frozen.status = "qualifying" => frozen.next = 3)
    <2>1. CASE m = 0
        BY <1>3, <1>4, <2>1
    <2>2. CASE m # 0
        <3>1. gradings[1] \in Receipt /\ frozen = Graded(trained, 2, gradings[1])
            BY <1>4, <2>2
        <3>2. Attested(trained.next, gradings[1], FALSE)
            BY <1>3 DEF Attested
        <3>3. Verdict(gradings[1]) \in GateStatus
            BY <1>1, <3>1
        <3>4. frozen = Applied(trained, trained.next,
                               Gate(trained.next, Verdict(gradings[1]), gradings[1], FALSE))
            BY <1>3, <3>1 DEF Graded
        <3> HIDE DEF frozen
        <3>5. Climbed(frozen) /\ Standing(frozen) /\ Len(frozen.gates) = Len(trained.gates) + 1
            <4>1. \A s \in GateStatus :
                      LET g == Applied(trained, trained.next, Gate(trained.next, s, gradings[1], FALSE))
                      IN  Climbed(g) /\ Standing(g) /\ Len(g.gates) = Len(trained.gates) + 1
                BY <1>2, <1>3, <3>1, <3>2, AppliedClimbs
            <4> QED
                BY <3>3, <3>4, <4>1
        <3>6. frozen.status = "qualifying" => frozen.next = 3
            BY <1>3, <3>5 DEF Standing
        <3> QED
            BY <3>5, <3>6
    <2> QED
        BY <2>1, <2>2
<1>6. m = 2 => frozen.status = "qualifying"
    BY <1>4 DEF RecordThrough, trained
<1>7. candidate' = IF m = 2 THEN sealed ELSE frozen
    BY <1>4 DEF RecordThrough, trained
<1> HIDE DEF frozen
<1>8. CASE m = 2
    <2>1. gradings[2] \in Receipt
        BY <1>8
    <2>2. Attested(frozen.next, gradings[2], FALSE)
        BY <1>5, <1>6, <1>8 DEF Attested
    <2>3. Verdict(gradings[2]) \in GateStatus
        BY <1>1, <2>1
    <2>4. candidate' = Applied(frozen, frozen.next,
                               Gate(frozen.next, Verdict(gradings[2]), gradings[2], FALSE))
        BY <1>5, <1>6, <1>7, <1>8 DEF Graded
    <2>5. Climbed(candidate') /\ Standing(candidate')
        BY <1>2, <1>5, <1>6, <1>8, <2>1, <2>2, <2>3, <2>4, AppliedClimbs
    <2> QED
        BY <2>5 DEF GatesInv
<1>9. CASE m # 2
    <2>1. candidate' = frozen
        BY <1>7, <1>9
    <2> QED
        BY <1>5, <2>1 DEF GatesInv
<1> QED
    BY <1>8, <1>9

LEMMA GatesNextKeeps == GatesInv /\ [GatesNext]_gateVars => GatesInv'
<1> SUFFICES ASSUME GatesInv, [GatesNext]_gateVars
             PROVE  GatesInv'
    OBVIOUS
<1>1. ASSUME NEW training \in Receipt,
             NEW gradings \in UNION {[1 .. n -> Receipt] : n \in 0 .. 2},
             RecordThrough(training, gradings)
      PROVE  GatesInv'
    <2>1. PICK m \in 0 .. 2 : gradings \in [1 .. m -> Receipt]
        BY <1>1
    <2> QED
        BY <1>1, <2>1, RecordThroughKeeps
<1>2. CASE UNCHANGED gateVars
    BY <1>2 DEF gateVars, GatesInv
<1> QED
    BY <1>1, <1>2, RecordAdapterGateKeeps, RecordHostAdapterGateKeeps DEF GatesNext

\* What the invariant says is what the run's property says.
LEMMA GatesAreEarnedFromInv == GatesInv => GatesAreEarned
<1> SUFFICES ASSUME GatesInv
             PROVE  GatesAreEarned
    OBVIOUS
<1>1. CASE candidate = NoCandidate
    BY <1>1 DEF GatesAreEarned, GatesTypeOK
<1>2. CASE candidate # NoCandidate
    <2>1. Climbed(candidate) /\ Standing(candidate)
        BY <1>2 DEF GatesInv
    <2>2. /\ candidate \in CandidateOf
          /\ DOMAIN candidate.gates = 1 .. Len(candidate.gates)
          /\ \A i \in DOMAIN candidate.gates : candidate.gates[i] \in StoredGate
          /\ Len(Ladder) = 6
        <3>1. candidate \in CandidateOf /\ candidate.gates \in Seq(StoredGate)
            BY <2>1 DEF Climbed, CandidateOf
        <3> QED
            BY <3>1, LadderIs
    <2>3. GatesTypeOK
        BY <2>2 DEF GatesTypeOK, CandidateOf
    <2>4. PICK n \in 0 .. 6 : n = Len(candidate.gates)
        BY <2>1 DEF Climbed
    <2>5. \A k \in 0 .. 6 : Passed(k) <=> PassedAll(candidate, k)
        <3>1. DOMAIN candidate.gates = 1 .. n
            BY <2>2, <2>4
        <3>2. ASSUME NEW k \in 0 .. 6
              PROVE  (\A i \in 1 .. k : i \in 1 .. n) <=> k <= n
            OBVIOUS
        <3> QED
            BY <2>4, <3>1, <3>2 DEF Passed, PassedAll
    <2>6. /\ Passed(Len(candidate.gates)) <=> PassedAll(candidate, Len(candidate.gates))
          /\ Passed(3) <=> PassedAll(candidate, 3)
          /\ Passed(4) <=> PassedAll(candidate, 4)
          /\ Passed(6) <=> PassedAll(candidate, 6)
        <3>1. 3 \in 0 .. 6 /\ 4 \in 0 .. 6 /\ 6 \in 0 .. 6 /\ Len(candidate.gates) \in 0 .. 6
            BY <2>4
        <3> QED
            BY <2>5, <3>1, Zenon
    <2>7. /\ candidate.status = "rejected" <=> ~Passed(Len(candidate.gates))
          /\ candidate.status = "promoted" <=> Passed(6)
          /\ candidate.shadow <=> Passed(3)
          /\ candidate.canary <=> Passed(4)
          /\ candidate.production <=> Passed(6)
        BY <2>1, <2>6 DEF Standing
    <2>8. \A i \in DOMAIN candidate.gates :
              /\ candidate.gates[i].id = Ladder[i]
              /\ i < Len(candidate.gates) => candidate.gates[i].status = "passed"
              /\ i >= 5 => candidate.gates[i].host
              /\ i = 4 => /\ candidate.gates[i].receipt.kind = "missions"
                          /\ candidate.gates[i].receipt.names
                          /\ candidate.gates[i].receipt.ready
        BY <2>1, <2>2 DEF Climbed
    <2> QED
        BY <2>3, <2>7, <2>8 DEF GatesAreEarned
<1> QED
    BY <1>1, <1>2

\* No adapter reaches a shadow, a canary or production but up the whole ladder,
\* with what each gate asks for, whatever receipts its callers hold.
THEOREM GatesStayEarned == GatesSpec => []GatesAreEarned
<1>1. GatesInit => GatesInv
    BY DEF GatesInit, GatesInv
<1> QED
    BY <1>1, GatesNextKeeps, GatesAreEarnedFromInv, PTL DEF GatesSpec

-----------------------------------------------------------------------------
\* The swarm kernel.

TaskRec == [status : {"blocked", "open", "claimed", "completed", "failed"},
            holder : Agent \cup {NoAgent}, dependencies : SUBSET SwarmTask, refs : 0..TaskRefs]
TaskMap == [SwarmTask -> TaskRec \cup {Absent}]
AgentRec == [energy : Nat, active : SwarmTask \cup {NoTask}]
AgentMap == [Agent -> AgentRec \cup {Absent}]

\* A task is as it was, or what it depends on has been completed and it is open.
Stays(T, R, u) ==
    \/ R[u] = T[u]
    \/ /\ T[u] # Absent /\ R[u] # Absent
       /\ T[u].status = "blocked" /\ R[u].status = "open"
       /\ R[u].dependencies = T[u].dependencies
       /\ T[u].dependencies \subseteq WithStatus(R, "completed")

\* A known task is a record; changed in its fields it still is one.
LEMMA TaskIs ==
    ASSUME NEW T \in TaskMap, NEW u \in SwarmTask
    PROVE  /\ T[u] # Absent => T[u] \in TaskRec
           /\ T[u] \in TaskRec => T[u] # Absent
           /\ u \in Known(T) <=> T[u] # Absent
BY SwarmAssumption DEF TaskMap, TaskRec, Known

LEMMA AgentIs ==
    ASSUME agents \in AgentMap, NEW a \in Registered
    PROVE  /\ a \in Agent /\ agents[a] \in AgentRec /\ agents[a] # Absent
           /\ agents[a].energy \in Nat /\ agents[a].active \in SwarmTask \cup {NoTask}
BY DEF AgentMap, AgentRec, Registered

\* #refreshOpenTasks only opens what was blocked and has become ready.
LEMMA RefreshedStays ==
    ASSUME NEW T \in TaskMap
    PROVE  Refreshed(T) \in TaskMap /\ \A u \in SwarmTask : Stays(T, Refreshed(T), u)
<1> DEFINE R == Refreshed(T)
<1>1. \A u \in SwarmTask :
          R[u] = IF u \in WithStatus(T, "blocked")
                       /\ T[u].dependencies \subseteq WithStatus(T, "completed")
                 THEN [T[u] EXCEPT !.status = "open"] ELSE T[u]
    BY DEF Refreshed
<1>2. \A u \in SwarmTask : T[u] # Absent =>
          /\ [T[u] EXCEPT !.status = "open"] \in TaskRec
          /\ [T[u] EXCEPT !.status = "open"].status = "open"
          /\ [T[u] EXCEPT !.status = "open"].dependencies = T[u].dependencies
    BY TaskIs DEF TaskRec
<1>3. R \in TaskMap
    <2>1. \A u \in SwarmTask : R[u] \in TaskRec \cup {Absent}
        <3> SUFFICES ASSUME NEW u \in SwarmTask
                     PROVE  R[u] \in TaskRec \cup {Absent}
            OBVIOUS
        <3>1. R[u] = T[u] \/ (T[u] # Absent /\ R[u] = [T[u] EXCEPT !.status = "open"])
            BY <1>1 DEF WithStatus, Known
        <3>2. T[u] \in TaskRec \cup {Absent}
            BY DEF TaskMap
        <3> HIDE DEF R
        <3> QED
            BY <1>2, <3>1, <3>2
    <2>2. R = [u \in SwarmTask |-> R[u]]
        BY DEF Refreshed
    <2> HIDE DEF R
    <2> QED
        BY <2>1, <2>2 DEF TaskMap
<1>4. WithStatus(T, "completed") \subseteq WithStatus(R, "completed")
    <2> SUFFICES ASSUME NEW u \in WithStatus(T, "completed")
                 PROVE  u \in WithStatus(R, "completed")
        OBVIOUS
    <2>1. u \in SwarmTask /\ T[u] # Absent /\ T[u].status = "completed"
        BY DEF WithStatus, Known
    <2>2. R[u] = T[u]
        BY <1>1, <2>1 DEF WithStatus
    <2> HIDE DEF R
    <2> QED
        BY <2>1, <2>2 DEF WithStatus, Known
<1>5. ASSUME NEW u \in SwarmTask
      PROVE  Stays(T, R, u)
    <2>1. CASE u \in WithStatus(T, "blocked") /\ T[u].dependencies \subseteq WithStatus(T, "completed")
        <3>1. T[u] # Absent /\ T[u].status = "blocked"
            BY <2>1 DEF WithStatus, Known
        <3>2. R[u] = [T[u] EXCEPT !.status = "open"]
            BY <1>1, <2>1
        <3>3. R[u] \in TaskRec /\ R[u].status = "open" /\ R[u].dependencies = T[u].dependencies
            BY <1>2, <3>1, <3>2
        <3>4. R[u] # Absent
            BY <3>3, SwarmAssumption DEF TaskRec
        <3> HIDE DEF R
        <3> QED
            BY <1>4, <2>1, <3>1, <3>3, <3>4 DEF Stays
    <2>2. CASE ~(u \in WithStatus(T, "blocked") /\ T[u].dependencies \subseteq WithStatus(T, "completed"))
        BY <1>1, <2>2 DEF Stays
    <2> QED
        BY <2>1, <2>2
<1> QED
    BY <1>3, <1>5

\* The invariant of the swarm kernel is inductive as it stands.
SwarmInv == AgentsAndTasksAgree

LEMMA SwarmTyped ==
    SwarmTypeOK <=> /\ tasks \in TaskMap /\ agents \in AgentMap
                    /\ logged \in [Agent -> Int]
                    /\ outcomes \subseteq SwarmTask \X Agent \X {"progressed", "completed", "failed"}
                    /\ assigned \in 0..MaxAssignments
                    /\ unfinished \subseteq Agent \X SwarmTask \X {"refs", "skills", "deposit"}
BY DEF SwarmTypeOK, TaskMap, TaskRec, AgentMap, AgentRec

\* Where nothing is claimed or released and nobody's energy changes.
LEMMA HoldersStay ==
    ASSUME HoldersMatch, tasks \in TaskMap, UNCHANGED <<agents, unfinished>>,
           \A u \in SwarmTask : \/ tasks'[u] = tasks[u]
                                \/ u \notin WithStatus(tasks, "claimed")
                                   /\ u \notin WithStatus(tasks, "claimed")'
    PROVE  HoldersMatch'
<1>1. Registered' = Registered
    BY DEF Registered
<1>2. ASSUME NEW u \in WithStatus(tasks, "claimed")'
      PROVE  tasks'[u].holder \in Registered /\ agents[tasks'[u].holder].active = u
    <2>1. u \in SwarmTask /\ tasks'[u] = tasks[u] /\ u \in WithStatus(tasks, "claimed")
        BY <1>2 DEF WithStatus, Known
    <2> QED
        BY <2>1 DEF HoldersMatch
<1>3. ASSUME NEW a \in Registered, NEW u \in {agents[a].active} \ {NoTask}
      PROVE  Works(a, u)' \/ Threw(a, u, "refs")'
    <2>1. CASE Works(a, u)
        <3>1. u \in SwarmTask /\ u \in WithStatus(tasks, "claimed")
            BY <2>1 DEF Works, WithStatus, Known
        <3>2. tasks'[u] = tasks[u]
            BY <3>1
        <3> QED
            BY <1>1, <2>1, <3>1, <3>2 DEF Works, Known
    <2>2. CASE Threw(a, u, "refs")
        BY <2>2 DEF Threw
    <2> QED
        BY <1>3, <2>1, <2>2 DEF HoldersMatch
<1> QED
    BY <1>1, <1>2, <1>3 DEF HoldersMatch

\* Where no task is completed or fails.
LEMMA NothingEnds ==
    ASSUME StatusIsEarned, tasks \in TaskMap, UNCHANGED <<outcomes, unfinished>>,
           outcomes \subseteq SwarmTask \X Agent \X {"progressed", "completed", "failed"},
           \A u \in SwarmTask :
              \/ Stays(tasks, tasks', u)
              \/ /\ u \in Known(tasks)' /\ u \notin Known(tasks)
                 /\ tasks'[u].status \in {"blocked", "open"}
                 /\ tasks'[u].status = "open" =>
                       tasks'[u].dependencies \subseteq WithStatus(tasks, "completed")'
              \/ /\ u \in Known(tasks)' /\ u \in Known(tasks)
                 /\ tasks[u].status \in {"blocked", "open"}
                 /\ tasks'[u].status = "claimed"
                 /\ tasks'[u].dependencies \subseteq WithStatus(tasks, "completed")'
    PROVE  StatusIsEarned'
<1>1. \A u \in SwarmTask :
          u \in Known(tasks) /\ tasks[u].status \in {"completed", "failed", "claimed"} =>
              tasks'[u] = tasks[u] /\ u \in Known(tasks)'
    BY DEF Stays, Known
<1>2. WithStatus(tasks, "completed") \subseteq WithStatus(tasks, "completed")'
    BY <1>1 DEF WithStatus, Known
<1>3. ASSUME NEW u \in Known(tasks)', tasks'[u].status # "blocked"
      PROVE  tasks'[u].dependencies \subseteq WithStatus(tasks, "completed")'
    <2>1. u \in SwarmTask
        BY <1>3 DEF Known
    <2>2. CASE tasks'[u] = tasks[u]
        BY <1>2, <1>3, <2>2 DEF StatusIsEarned, Known
    <2>3. CASE tasks'[u] # tasks[u]
        BY <1>3, <2>1, <2>3 DEF Stays, WithStatus, Known
    <2> QED
        BY <2>2, <2>3
<1>4. ASSUME NEW u \in WithStatus(tasks, "completed")' \cup WithStatus(tasks, "failed")'
      PROVE  <<u, tasks'[u].holder, tasks'[u].status>> \in outcomes \/ ThrewOn(u)
    <2>1. u \in SwarmTask /\ u \in Known(tasks)' /\ tasks'[u].status \in {"completed", "failed"}
        BY <1>4 DEF WithStatus, Known
    <2>2. tasks'[u] = tasks[u]
        BY <2>1 DEF Stays
    <2>3. u \in WithStatus(tasks, "completed") \cup WithStatus(tasks, "failed")
        BY <2>1, <2>2 DEF WithStatus, Known
    <2> QED
        BY <2>2, <2>3 DEF StatusIsEarned
<1>5. ASSUME NEW o \in outcomes, o[3] # "progressed"
      PROVE  o[1] \in Known(tasks)' /\ tasks'[o[1]].status = o[3] /\ tasks'[o[1]].holder = o[2]
    <2>1. o[1] \in Known(tasks) /\ tasks[o[1]].status = o[3] /\ tasks[o[1]].holder = o[2]
        BY <1>5 DEF StatusIsEarned
    <2>2. tasks[o[1]].status \in {"completed", "failed"}
        <3>1. o[3] \in {"progressed", "completed", "failed"}
            OBVIOUS
        <3> QED
            BY <1>5, <2>1, <3>1
    <2> QED
        BY <1>1, <1>5, <2>1, <2>2 DEF Known
<1>6. \A u : ThrewOn(u)' <=> ThrewOn(u)
    BY DEF ThrewOn, Threw
<1> QED
    BY <1>3, <1>4, <1>5, <1>6 DEF StatusIsEarned

\* registerAgent
LEMMA RegisterAgentKeeps ==
    ASSUME SwarmInv, NEW a \in Agent, RegisterAgent(a)
    PROVE  SwarmInv'
<1> USE DEF SwarmInv, AgentsAndTasksAgree
<1>1. /\ agents \in AgentMap /\ tasks \in TaskMap /\ agents[a] = Absent
      /\ agents' = [agents EXCEPT ![a] = [energy |-> Endowment, active |-> NoTask]]
      /\ logged' = [logged EXCEPT ![a] = Endowment]
      /\ UNCHANGED <<tasks, outcomes, assigned, unfinished>>
    BY SwarmTyped DEF RegisterAgent, Registered
<1>2. [energy |-> Endowment, active |-> NoTask] \in AgentRec /\ Endowment \in Nat
    BY SwarmAssumption DEF AgentRec
<1>3. SwarmTypeOK'
    <2>1. agents' \in AgentMap
        BY <1>1, <1>2 DEF AgentMap
    <2>2. logged' \in [Agent -> Int]
        BY <1>1, <1>2, SwarmTyped
    <2> QED
        BY <1>1, <2>1, <2>2, SwarmTyped DEF SwarmTypeOK, TaskRec, AgentRec, TaskMap, AgentMap
<1>4. /\ \A b \in Agent \ {a} : agents'[b] = agents[b] /\ logged'[b] = logged[b]
      /\ agents'[a].energy = Endowment /\ agents'[a].active = NoTask
      /\ logged'[a] = Endowment
    BY <1>1, SwarmTyped DEF AgentMap
<1>5. Registered' = Registered \cup {a} /\ a \notin Registered
    <2>1. agents'[a] # Absent
        BY <1>1, <1>2, SwarmAssumption DEF AgentRec, AgentMap
    <2> QED
        BY <1>1, <1>4, <2>1 DEF Registered
<1>6. HoldersMatch'
    <2>1. ASSUME NEW u \in WithStatus(tasks, "claimed")'
          PROVE  tasks'[u].holder \in Registered' /\ agents'[tasks'[u].holder].active = u
        <3>1. u \in WithStatus(tasks, "claimed") /\ tasks' = tasks
            BY <1>1, <2>1 DEF WithStatus, Known
        <3>2. tasks[u].holder \in Registered /\ agents[tasks[u].holder].active = u
            BY <3>1 DEF HoldersMatch
        <3>3. tasks[u].holder \in Agent \ {a}
            BY <1>5, <3>2 DEF Registered
        <3> QED
            BY <1>4, <1>5, <3>1, <3>2, <3>3
    <2>2. ASSUME NEW b \in Registered', NEW u \in {agents'[b].active} \ {NoTask}
          PROVE  Works(b, u)' \/ Threw(b, u, "refs")'
        <3>1. b \in Registered /\ b # a /\ agents'[b] = agents[b]
            BY <1>4, <1>5, <2>2 DEF Registered
        <3>2. Works(b, u) \/ Threw(b, u, "refs")
            BY <2>2, <3>1 DEF HoldersMatch
        <3> QED
            BY <1>1, <1>5, <3>1, <3>2 DEF Works, Threw, Known
    <2> QED
        BY <2>1, <2>2 DEF HoldersMatch
<1>7. EnergyIsOnRecord'
    <2> SUFFICES ASSUME NEW b \in Registered'
                 PROVE  /\ agents'[b].energy >= logged'[b]
                        /\ agents'[b].energy = logged'[b] \/ \E t \in SwarmTask : Threw(b, t, "skills")'
        BY DEF EnergyIsOnRecord
    <2>1. CASE b = a
        BY <1>2, <1>4, <2>1
    <2>2. CASE b # a
        <3>1. b \in Registered /\ agents'[b] = agents[b] /\ logged'[b] = logged[b]
            BY <1>4, <1>5, <2>2 DEF Registered
        <3>2. /\ agents[b].energy >= logged[b]
              /\ agents[b].energy = logged[b] \/ \E t \in SwarmTask : Threw(b, t, "skills")
            BY <3>1 DEF EnergyIsOnRecord
        <3> QED
            BY <1>1, <3>1, <3>2 DEF Threw
    <2> QED
        BY <2>1, <2>2
<1>8. StatusIsEarned'
    BY <1>1 DEF StatusIsEarned, WithStatus, Known, ThrewOn, Threw
<1> QED
    BY <1>3, <1>6, <1>7, <1>8

\* Energies stay as they are recorded when neither changes.
LEMMA EnergyStays ==
    ASSUME EnergyIsOnRecord, UNCHANGED <<agents, logged>>, unfinished \subseteq unfinished'
    PROVE  EnergyIsOnRecord'
<1> SUFFICES ASSUME NEW b \in Registered'
             PROVE  /\ agents'[b].energy >= logged'[b]
                    /\ agents'[b].energy = logged'[b] \/ \E t \in SwarmTask : Threw(b, t, "skills")'
    BY DEF EnergyIsOnRecord
<1>1. b \in Registered
    BY DEF Registered
<1> QED
    BY <1>1 DEF EnergyIsOnRecord, Threw

\* bids
LEMMA BidsKeeps ==
    ASSUME SwarmInv, Bids
    PROVE  SwarmInv'
<1> USE DEF SwarmInv, AgentsAndTasksAgree
<1>1. tasks \in TaskMap /\ tasks' = Refreshed(tasks)
      /\ UNCHANGED <<agents, logged, outcomes, assigned, unfinished>>
    BY SwarmTyped DEF Bids
<1>2. tasks' \in TaskMap /\ \A u \in SwarmTask : Stays(tasks, tasks', u)
    BY <1>1, RefreshedStays
<1>3. SwarmTypeOK'
    BY <1>1, <1>2, SwarmTyped DEF SwarmTypeOK, TaskRec, AgentRec, TaskMap, AgentMap
<1>4. HoldersMatch'
    <2>1. \A u \in SwarmTask : \/ tasks'[u] = tasks[u]
                               \/ u \notin WithStatus(tasks, "claimed")
                                  /\ u \notin WithStatus(tasks, "claimed")'
        BY <1>2 DEF Stays, WithStatus, Known
    <2> QED
        BY <1>1, <2>1, HoldersStay
<1>5. StatusIsEarned'
    BY <1>1, <1>2, NothingEnds, SwarmTyped
<1>6. EnergyIsOnRecord'
    BY <1>1, EnergyStays
<1> QED
    BY <1>3, <1>4, <1>5, <1>6

\* addTask, also of a task that the graph does not stand.
LEMMA AddTaskKeeps ==
    ASSUME SwarmInv, NEW t \in SwarmTask, NEW dependencies \in SUBSET SwarmTask,
           AddTask(t, dependencies)
    PROVE  SwarmInv'
<1> USE DEF SwarmInv, AgentsAndTasksAgree
<1> DEFINE new == [status |-> IF dependencies = {} THEN "open" ELSE "blocked",
                   holder |-> NoAgent, dependencies |-> dependencies, refs |-> 0]
           added == [tasks EXCEPT ![t] = new]
<1>1. /\ tasks \in TaskMap /\ tasks[t] = Absent
      /\ tasks' = Refreshed(added) \/ tasks' = added
      /\ UNCHANGED <<agents, logged, outcomes, assigned, unfinished>>
    BY SwarmTyped DEF AddTask, Known
<1>2. new \in TaskRec /\ new # Absent
      /\ new.dependencies = dependencies
      /\ new.status \in {"open", "blocked"} /\ (new.status = "open" => dependencies = {})
    <2>1. new \in TaskRec
        BY SwarmAssumption DEF TaskRec
    <2> QED
        BY <2>1, SwarmAssumption DEF TaskRec
<1> HIDE DEF new
<1>3. /\ added \in TaskMap /\ added[t] = new
      /\ \A u \in SwarmTask \ {t} : added[u] = tasks[u]
    BY <1>1, <1>2 DEF TaskMap
<1> HIDE DEF added
<1>4. tasks' \in TaskMap /\ \A u \in SwarmTask : Stays(added, tasks', u)
    BY <1>1, <1>3, RefreshedStays DEF Stays
<1>5. ASSUME NEW u \in SwarmTask
      PROVE  \/ Stays(tasks, tasks', u)
             \/ /\ u \in Known(tasks)' /\ u \notin Known(tasks)
                /\ tasks'[u].status \in {"blocked", "open"}
                /\ tasks'[u].status = "open" =>
                      tasks'[u].dependencies \subseteq WithStatus(tasks, "completed")'
    <2>1. CASE u = t
        <3>1. u \notin Known(tasks)
            BY <1>1, <2>1 DEF Known
        <3>2. CASE tasks'[u] = new
            BY <1>2, <2>1, <3>1, <3>2 DEF Known
        <3>3. CASE tasks'[u] # new
            <4>1. /\ tasks'[u] # Absent /\ tasks'[u].status = "open"
                  /\ tasks'[u].dependencies \subseteq WithStatus(tasks', "completed")
                BY <1>3, <1>4, <2>1, <3>3 DEF Stays
            <4> QED
                BY <3>1, <4>1 DEF Known, WithStatus
        <3> QED
            BY <3>2, <3>3
    <2>2. CASE u # t
        BY <1>3, <1>4, <2>2 DEF Stays
    <2> QED
        BY <2>1, <2>2
<1>6. SwarmTypeOK'
    BY <1>1, <1>4, SwarmTyped DEF SwarmTypeOK, TaskRec, AgentRec, TaskMap, AgentMap
<1>7. HoldersMatch'
    <2>1. \A u \in SwarmTask : \/ tasks'[u] = tasks[u]
                               \/ u \notin WithStatus(tasks, "claimed")
                                  /\ u \notin WithStatus(tasks, "claimed")'
        BY <1>5 DEF Stays, WithStatus, Known
    <2> QED
        BY <1>1, <2>1, HoldersStay
<1>8. StatusIsEarned'
    BY <1>1, <1>5, NothingEnds, SwarmTyped
<1>9. EnergyIsOnRecord'
    BY <1>1, EnergyStays
<1> QED
    BY <1>6, <1>7, <1>8, <1>9

\* The work of an agent on a task ends, with the call gone through or half way.
WorkIsOver(a, t, s) ==
    /\ HoldersMatch /\ StatusIsEarned /\ tasks \in TaskMap /\ agents \in AgentMap
    /\ outcomes \subseteq SwarmTask \X Agent \X {"progressed", "completed", "failed"}
    /\ Works(a, t) /\ t \in Known(tasks)' /\ tasks'[t].status = s
    /\ s # "open" => tasks'[t].holder = a
    /\ tasks'[t].dependencies = tasks[t].dependencies
    /\ \A u \in SwarmTask \ {t} : Stays(tasks, tasks', u)
    /\ Registered' = Registered
    /\ \A b \in Agent \ {a} : agents'[b] = agents[b]
    /\ \/ agents'[a].active = NoTask
       \/ agents'[a] = agents[a] /\ <<a, t, "refs">> \in unfinished'
    /\ unfinished \subseteq unfinished' /\ outcomes \subseteq outcomes'
    /\ \A o \in outcomes' \ outcomes :
          o[1] = t /\ o[2] = a /\ ((o[3] = s /\ s # "open") \/ o[3] = "progressed")
    /\ \/ s = "open" \/ <<t, a, s>> \in outcomes'
       \/ \E call \in {"refs", "skills", "deposit"} : <<a, t, call>> \in unfinished'
LEMMA WorkEnds ==
    ASSUME NEW a \in Agent, NEW t \in SwarmTask, NEW s \in {"open", "completed", "failed"},
           WorkIsOver(a, t, s)
    PROVE  HoldersMatch' /\ StatusIsEarned'
<1> USE DEF WorkIsOver
<1>1. /\ a \in Registered /\ agents[a].active = t
      /\ t \in Known(tasks) /\ tasks[t].status = "claimed" /\ tasks[t].holder = a
    BY DEF Works
<1>2. \A u \in SwarmTask \ {t} :
          u \in Known(tasks) /\ tasks[u].status \in {"completed", "failed", "claimed"} =>
              tasks'[u] = tasks[u] /\ u \in Known(tasks)'
    BY DEF Stays, Known
<1>3. \A u \in SwarmTask \ {t} :
          u \in Known(tasks)' /\ tasks'[u].status \in {"completed", "failed", "claimed"} =>
              tasks'[u] = tasks[u] /\ u \in Known(tasks)
    BY DEF Stays, Known
<1>4. HoldersMatch'
    <2>1. ASSUME NEW u \in WithStatus(tasks, "claimed")'
          PROVE  tasks'[u].holder \in Registered' /\ agents'[tasks'[u].holder].active = u
        <3>1. u \in SwarmTask \ {t} /\ u \in Known(tasks)' /\ tasks'[u].status = "claimed"
            BY <2>1 DEF WithStatus, Known
        <3>2. tasks'[u] = tasks[u] /\ u \in WithStatus(tasks, "claimed")
            BY <1>3, <3>1 DEF WithStatus
        <3>3. tasks[u].holder \in Registered /\ agents[tasks[u].holder].active = u
            BY <3>2 DEF HoldersMatch
        <3>4. tasks[u].holder \in Agent \ {a}
            BY <1>1, <3>1, <3>3 DEF Registered
        <3> QED
            BY <3>2, <3>3, <3>4
    <2>2. ASSUME NEW b \in Registered', NEW u \in {agents'[b].active} \ {NoTask}
          PROVE  Works(b, u)' \/ Threw(b, u, "refs")'
        <3>1. CASE b = a
            <4>1. agents'[a] = agents[a] /\ <<a, t, "refs">> \in unfinished'
                BY <2>2, <3>1
            <4> QED
                BY <1>1, <2>2, <3>1, <4>1 DEF Threw
        <3>2. CASE b # a
            <4>1. b \in Registered /\ agents'[b] = agents[b]
                BY <2>2, <3>2 DEF Registered
            <4>2. CASE Works(b, u)
                <5>1. u \in SwarmTask \ {t} /\ u \in Known(tasks) /\ tasks[u].status = "claimed"
                    BY <1>1, <3>2, <4>2 DEF Works, Known
                <5>2. tasks'[u] = tasks[u] /\ u \in Known(tasks)'
                    BY <1>2, <5>1
                <5> QED
                    BY <4>1, <4>2, <5>2 DEF Works
            <4>3. CASE Threw(b, u, "refs")
                BY <4>3 DEF Threw
            <4> QED
                BY <2>2, <4>1, <4>2, <4>3 DEF HoldersMatch
        <3> QED
            BY <3>1, <3>2
    <2> QED
        BY <2>1, <2>2 DEF HoldersMatch
<1>5. WithStatus(tasks, "completed") \subseteq WithStatus(tasks, "completed")'
    <2> SUFFICES ASSUME NEW u \in WithStatus(tasks, "completed")
                 PROVE  u \in WithStatus(tasks, "completed")'
        OBVIOUS
    <2>1. u \in SwarmTask \ {t} /\ u \in Known(tasks) /\ tasks[u].status = "completed"
        BY <1>1 DEF WithStatus, Known
    <2>2. tasks'[u] = tasks[u] /\ u \in Known(tasks)'
        BY <1>2, <2>1
    <2> QED
        BY <2>1, <2>2 DEF WithStatus
<1>6. ASSUME NEW u \in Known(tasks)', tasks'[u].status # "blocked"
      PROVE  tasks'[u].dependencies \subseteq WithStatus(tasks, "completed")'
    <2>1. u \in SwarmTask
        BY <1>6 DEF Known
    <2>2. CASE u = t
        BY <1>1, <1>5, <2>2 DEF StatusIsEarned
    <2>3. CASE u # t
        <3>1. CASE tasks'[u] = tasks[u]
            BY <1>5, <1>6, <2>1, <3>1 DEF StatusIsEarned, Known
        <3>2. CASE tasks'[u] # tasks[u]
            BY <1>6, <2>1, <2>3, <3>2 DEF Stays, WithStatus, Known
        <3> QED
            BY <3>1, <3>2
    <2> QED
        BY <2>2, <2>3
<1>7. ASSUME NEW u \in WithStatus(tasks, "completed")' \cup WithStatus(tasks, "failed")'
      PROVE  <<u, tasks'[u].holder, tasks'[u].status>> \in outcomes' \/ ThrewOn(u)'
    <2>1. u \in SwarmTask /\ u \in Known(tasks)' /\ tasks'[u].status \in {"completed", "failed"}
        BY <1>7 DEF WithStatus, Known
    <2>2. CASE u = t
        BY <2>1, <2>2 DEF ThrewOn, Threw
    <2>3. CASE u # t
        <3>1. tasks'[u] = tasks[u] /\ u \in Known(tasks)
            BY <1>3, <2>1, <2>3
        <3>2. u \in WithStatus(tasks, "completed") \cup WithStatus(tasks, "failed")
            BY <2>1, <3>1 DEF WithStatus
        <3>3. <<u, tasks[u].holder, tasks[u].status>> \in outcomes \/ ThrewOn(u)
            BY <3>2 DEF StatusIsEarned
        <3>4. ThrewOn(u) => ThrewOn(u)'
            BY DEF ThrewOn, Threw
        <3> QED
            BY <3>1, <3>3, <3>4
    <2> QED
        BY <2>2, <2>3
<1>8. ASSUME NEW o \in outcomes', o[3] # "progressed"
      PROVE  o[1] \in Known(tasks)' /\ tasks'[o[1]].status = o[3] /\ tasks'[o[1]].holder = o[2]
    <2>1. CASE o \in outcomes
        <3>1. o[1] \in Known(tasks) /\ tasks[o[1]].status = o[3] /\ tasks[o[1]].holder = o[2]
            BY <1>8, <2>1 DEF StatusIsEarned
        <3>2. o[3] \in {"completed", "failed"}
            BY <1>8, <2>1
        <3>3. o[1] \in SwarmTask \ {t}
            BY <1>1, <3>1, <3>2 DEF Known
        <3> QED
            BY <1>2, <3>1, <3>2, <3>3
    <2>2. CASE o \notin outcomes
        <3>1. o[1] = t /\ o[2] = a /\ o[3] = s /\ s # "open"
            BY <1>8, <2>2
        <3> QED
            BY <3>1
    <2> QED
        BY <2>1, <2>2
<1>9. StatusIsEarned'
    BY <1>6, <1>7, <1>8 DEF StatusIsEarned
<1> QED
    BY <1>4, <1>9

\* An agent is released, with what it earned.
LEMMA ReleasedIs ==
    ASSUME agents \in AgentMap, NEW a \in Registered, NEW earned \in Nat
    PROVE  /\ Released(a, earned) \in AgentMap
           /\ \A b \in Agent \ {a} : Released(a, earned)[b] = agents[b]
           /\ Released(a, earned)[a].energy = agents[a].energy + earned
           /\ Released(a, earned)[a].active = NoTask
           /\ \A b \in Agent : Released(a, earned)[b] # Absent <=> agents[b] # Absent
<1> DEFINE new == [energy |-> agents[a].energy + earned, active |-> NoTask]
<1>1. a \in Agent /\ agents[a].energy \in Nat /\ agents[a] # Absent
    BY AgentIs
<1>2. new \in AgentRec /\ new # Absent
      /\ new.energy = agents[a].energy + earned /\ new.active = NoTask
    <2>1. agents[a].energy + earned \in Nat
        BY <1>1
    <2>2. new \in AgentRec
        BY <2>1 DEF AgentRec
    <2> QED
        BY <2>2, SwarmAssumption DEF AgentRec
<1> HIDE DEF new
<1>3. Released(a, earned) = [agents EXCEPT ![a] = new]
    BY DEF Released, new
<1>4. agents = [b \in Agent |-> agents[b]] /\ \A b \in Agent : agents[b] \in AgentRec \cup {Absent}
    BY DEF AgentMap
<1> QED
    BY <1>1, <1>2, <1>3, <1>4 DEF AgentMap

\* What happens to energies when a worker is released.
LEMMA ReleasedKeepsEnergy ==
    ASSUME EnergyIsOnRecord, agents \in AgentMap, logged \in [Agent -> Int],
           NEW a \in Registered, NEW earned \in Nat, agents' = Released(a, earned),
           unfinished \subseteq unfinished',
           \/ logged' = [logged EXCEPT ![a] = @ + earned]
           \/ earned = 0 /\ UNCHANGED logged
           \/ UNCHANGED logged /\ \E t \in SwarmTask : <<a, t, "skills">> \in unfinished'
    PROVE  EnergyIsOnRecord' /\ Registered' = Registered
           /\ agents' \in AgentMap /\ logged' \in [Agent -> Int]
<1>1. /\ agents' \in AgentMap
      /\ \A b \in Agent \ {a} : agents'[b] = agents[b]
      /\ agents'[a].energy = agents[a].energy + earned
      /\ \A b \in Agent : agents'[b] # Absent <=> agents[b] # Absent
    BY ReleasedIs
<1>2. Registered' = Registered
    BY <1>1 DEF Registered
<1>3. a \in Agent /\ agents[a].energy \in Nat /\ logged[a] \in Int
    BY AgentIs
<1>4. logged' \in [Agent -> Int]
    BY <1>3
<1>5. ASSUME NEW b \in Registered
      PROVE  /\ agents'[b].energy >= logged'[b]
             /\ agents'[b].energy = logged'[b] \/ \E t \in SwarmTask : <<b, t, "skills">> \in unfinished'
    <2>1. /\ agents[b].energy >= logged[b] /\ b \in Agent
          /\ agents[b].energy = logged[b] \/ \E t \in SwarmTask : <<b, t, "skills">> \in unfinished
        BY DEF EnergyIsOnRecord, Threw, Registered
    <2>2. CASE b # a
        <3>1. agents'[b] = agents[b] /\ logged'[b] = logged[b]
            BY <1>1, <2>1, <2>2
        <3> QED
            BY <2>1, <3>1
    <2>3. CASE b = a
        <3>1. CASE logged' = [logged EXCEPT ![a] = @ + earned]
            <4>1. logged'[a] = logged[a] + earned
                BY <1>3, <3>1
            <4> QED
                BY <1>1, <1>3, <2>1, <2>3, <4>1
        <3>2. CASE earned = 0 /\ UNCHANGED logged
            <4>1. agents'[a].energy = agents[a].energy /\ logged'[a] = logged[a]
                BY <1>1, <1>3, <3>2
            <4> QED
                BY <2>1, <2>3, <4>1
        <3>3. CASE UNCHANGED logged /\ \E t \in SwarmTask : <<a, t, "skills">> \in unfinished'
            <4>1. agents'[a].energy >= logged'[a]
                BY <1>1, <1>3, <2>1, <2>3, <3>3
            <4> QED
                BY <2>3, <3>3, <4>1
        <3> QED
            BY <3>1, <3>2, <3>3
    <2> QED
        BY <2>2, <2>3
<1> QED
    BY <1>1, <1>2, <1>4, <1>5 DEF EnergyIsOnRecord, Threw

\* A refused list of references leaves the agent working on what it lost.
LEMMA RefusedKeeps ==
    ASSUME SwarmInv, NEW a \in Agent, NEW t \in SwarmTask, Works(a, t),
           NEW s \in {"open", "completed", "failed"}, NEW new \in TaskRec,
           tasks' = [tasks EXCEPT ![t] = new], new.status = s,
           s # "open" => new.holder = a, new.dependencies = tasks[t].dependencies,
           RefsRefused(a, t, "refs")
    PROVE  SwarmInv'
<1> USE DEF SwarmInv, AgentsAndTasksAgree
<1>1. /\ tasks \in TaskMap /\ agents \in AgentMap
      /\ unfinished' = unfinished \cup {<<a, t, "refs">>}
      /\ UNCHANGED <<agents, logged, outcomes, assigned>>
    BY SwarmTyped DEF RefsRefused
<1>2. /\ tasks' \in TaskMap /\ tasks'[t] = new
      /\ \A u \in SwarmTask \ {t} : tasks'[u] = tasks[u]
    BY <1>1 DEF TaskMap
<1>3. t \in Known(tasks)'
    <2>1. new # Absent
        BY SwarmAssumption DEF TaskRec
    <2> QED
        BY <1>2, <2>1 DEF Known
<1>4. Registered' = Registered
    BY <1>1 DEF Registered
<1>5. SwarmTypeOK'
    BY <1>1, <1>2, SwarmTyped DEF SwarmTypeOK, TaskRec, AgentRec, TaskMap, AgentMap
<1>6. HoldersMatch' /\ StatusIsEarned'
    <2>1. \A u \in SwarmTask \ {t} : Stays(tasks, tasks', u)
        BY <1>2 DEF Stays
    <2>2. unfinished \subseteq unfinished' /\ <<a, t, "refs">> \in unfinished'
        BY <1>1
    <2>3. /\ tasks'[t].status = s /\ (s # "open" => tasks'[t].holder = a)
          /\ tasks'[t].dependencies = tasks[t].dependencies
        BY <1>2
    <2>4. \/ s = "open" \/ <<t, a, s>> \in outcomes'
          \/ \E call \in {"refs", "skills", "deposit"} : <<a, t, call>> \in unfinished'
        BY <2>2
    <2>5. /\ \A b \in Agent \ {a} : agents'[b] = agents[b]
          /\ agents'[a] = agents[a] /\ <<a, t, "refs">> \in unfinished'
          /\ outcomes' \ outcomes = {} /\ outcomes \subseteq outcomes'
        BY <1>1, <2>2
    <2> QED
        <3>1. WorkIsOver(a, t, s)
            BY <1>1, <1>3, <1>4, <2>1, <2>2, <2>3, <2>4, <2>5, SwarmTyped DEF WorkIsOver
        <3> QED
            BY <3>1, WorkEnds
<1>7. EnergyIsOnRecord'
    BY <1>1, EnergyStays
<1> QED
    BY <1>5, <1>6, <1>7

\* What a call leaves in the outcomes or among the calls that threw.
LEMMA RecordedIs ==
    ASSUME NEW a \in Agent, NEW t \in SwarmTask,
           NEW status \in {"progressed", "completed", "failed"},
           outcomes \subseteq SwarmTask \X Agent \X {"progressed", "completed", "failed"},
           unfinished \subseteq Agent \X SwarmTask \X {"refs", "skills", "deposit"},
           \/ \E refs : Deposited(a, t, status, "deposit", refs)
           \/ unfinished' = unfinished \cup {<<a, t, "skills">>} /\ UNCHANGED outcomes
    PROVE  /\ outcomes \subseteq outcomes' /\ unfinished \subseteq unfinished'
           /\ outcomes' \subseteq SwarmTask \X Agent \X {"progressed", "completed", "failed"}
           /\ unfinished' \subseteq Agent \X SwarmTask \X {"refs", "skills", "deposit"}
           /\ \A o \in outcomes' \ outcomes : o[1] = t /\ o[2] = a /\ o[3] = status
           /\ \/ <<t, a, status>> \in outcomes'
              \/ \E call \in {"refs", "skills", "deposit"} : <<a, t, call>> \in unfinished'
<1>1. CASE \E refs : Deposited(a, t, status, "deposit", refs)
    <2>1. PICK refs : Deposited(a, t, status, "deposit", refs)
        BY <1>1
    <2> QED
        BY <2>1 DEF Deposited
<1>2. CASE unfinished' = unfinished \cup {<<a, t, "skills">>} /\ UNCHANGED outcomes
    BY <1>2
<1> QED
    BY <1>1, <1>2

\* A call whose references the task takes releases the agent.
LEMMA TakenKeeps ==
    ASSUME SwarmInv, NEW a \in Agent, NEW t \in SwarmTask, Works(a, t),
           NEW s \in {"open", "completed", "failed"}, NEW earned \in Nat,
           NEW status \in {"progressed", "completed", "failed"},
           IF s = "open" THEN status = "progressed" ELSE status = s,
           tasks' \in TaskMap, t \in Known(tasks)', tasks'[t].status = s,
           s # "open" => tasks'[t].holder = a,
           tasks'[t].dependencies = tasks[t].dependencies,
           \A u \in SwarmTask \ {t} : Stays(tasks, tasks', u),
           agents' = Released(a, earned), UNCHANGED assigned,
           \/ logged' = [logged EXCEPT ![a] = @ + earned]
           \/ earned = 0 /\ UNCHANGED logged
           \/ UNCHANGED logged /\ <<a, t, "skills">> \in unfinished',
           \/ \E refs : Deposited(a, t, status, "deposit", refs)
           \/ unfinished' = unfinished \cup {<<a, t, "skills">>} /\ UNCHANGED outcomes
    PROVE  SwarmInv'
<1> USE DEF SwarmInv, AgentsAndTasksAgree
<1>1. /\ tasks \in TaskMap /\ agents \in AgentMap /\ logged \in [Agent -> Int]
      /\ outcomes \subseteq SwarmTask \X Agent \X {"progressed", "completed", "failed"}
      /\ unfinished \subseteq Agent \X SwarmTask \X {"refs", "skills", "deposit"}
    BY SwarmTyped
<1>2. a \in Registered
    BY DEF Works
<1>3. /\ outcomes \subseteq outcomes' /\ unfinished \subseteq unfinished'
      /\ outcomes' \subseteq SwarmTask \X Agent \X {"progressed", "completed", "failed"}
      /\ unfinished' \subseteq Agent \X SwarmTask \X {"refs", "skills", "deposit"}
      /\ \A o \in outcomes' \ outcomes : o[1] = t /\ o[2] = a /\ o[3] = status
      /\ \/ <<t, a, status>> \in outcomes'
         \/ \E call \in {"refs", "skills", "deposit"} : <<a, t, call>> \in unfinished'
    <2> HIDE DEF SwarmInv, AgentsAndTasksAgree
    <2> QED
        BY <1>1, <1>2, RecordedIs
<1>4. /\ EnergyIsOnRecord' /\ Registered' = Registered
      /\ agents' \in AgentMap /\ logged' \in [Agent -> Int]
    BY <1>1, <1>2, <1>3, ReleasedKeepsEnergy
<1>5. /\ \A b \in Agent \ {a} : agents'[b] = agents[b]
      /\ agents'[a].active = NoTask
    BY <1>1, <1>2, ReleasedIs
<1>6. \A o \in outcomes' \ outcomes :
          o[1] = t /\ o[2] = a /\ ((o[3] = s /\ s # "open") \/ o[3] = "progressed")
    BY <1>3
<1>7. \/ s = "open" \/ <<t, a, s>> \in outcomes'
      \/ \E call \in {"refs", "skills", "deposit"} : <<a, t, call>> \in unfinished'
    BY <1>3
<1>8. HoldersMatch' /\ StatusIsEarned'
    <2>1. HoldersMatch /\ StatusIsEarned
        OBVIOUS
    <2> HIDE DEF SwarmInv, AgentsAndTasksAgree
    <2> QED
        <3>1. \/ agents'[a].active = NoTask
              \/ agents'[a] = agents[a] /\ <<a, t, "refs">> \in unfinished'
            BY <1>5
        <3>2. /\ tasks \in TaskMap /\ agents \in AgentMap
              /\ outcomes \subseteq SwarmTask \X Agent \X {"progressed", "completed", "failed"}
              /\ Registered' = Registered
              /\ \A b \in Agent \ {a} : agents'[b] = agents[b]
              /\ unfinished \subseteq unfinished' /\ outcomes \subseteq outcomes'
            BY <1>1, <1>3, <1>4, <1>5
        <3> QED
            <4>1. WorkIsOver(a, t, s)
                BY <1>6, <1>7, <2>1, <3>1, <3>2 DEF WorkIsOver
            <4> QED
                BY <4>1, WorkEnds
<1>9. SwarmTypeOK'
    <2>1. assigned' \in 0 .. MaxAssignments
        BY SwarmTyped
    <2> QED
        BY <1>3, <1>4, <2>1 DEF SwarmTypeOK, TaskRec, AgentRec, TaskMap, AgentMap
<1> QED
    BY <1>4, <1>8, <1>9

\* A worker's task is a record, and what it worked on the kernel's.
LEMMA WorkedOn ==
    ASSUME SwarmInv, NEW a \in Agent, NEW t \in SwarmTask, Works(a, t)
    PROVE  /\ tasks \in TaskMap /\ tasks[t] \in TaskRec /\ tasks[t].status = "claimed"
           /\ tasks[t].holder = a
           /\ \A new \in TaskRec :
                 /\ [tasks EXCEPT ![t] = new] \in TaskMap
                 /\ [tasks EXCEPT ![t] = new][t] = new /\ new # Absent
                 /\ \A u \in SwarmTask \ {t} : [tasks EXCEPT ![t] = new][u] = tasks[u]
<1>1. tasks \in TaskMap
    BY SwarmTyped DEF SwarmInv, AgentsAndTasksAgree
<1> QED
    BY <1>1, SwarmAssumption, TaskIs DEF Works, TaskMap, TaskRec

\* recordPartialProgress
LEMMA RecordPartialProgressKeeps ==
    ASSUME SwarmInv, NEW a \in Agent, NEW t \in SwarmTask, NEW refs \in RefCounts,
           NEW earned \in PartialPay, RecordPartialProgress(a, t, refs, earned)
    PROVE  SwarmInv'
<1> DEFINE open == [tasks[t] EXCEPT !.status = "open", !.holder = NoAgent]
           more == [open EXCEPT !.refs = @ + refs]
<1>1. Works(a, t) /\ earned \in Nat /\ refs \in Nat /\ TaskRefs \in Nat
    BY SwarmAssumption DEF RecordPartialProgress
<1>2. tasks[t] \in TaskRec
    BY <1>1, WorkedOn
<1>3. open \in TaskRec /\ open.status = "open" /\ open.dependencies = tasks[t].dependencies
      /\ open.refs \in 0 .. TaskRefs
    BY <1>2 DEF TaskRec
<1>4. CASE open.refs + refs > TaskRefs /\ tasks' = [tasks EXCEPT ![t] = open]
           /\ RefsRefused(a, t, "refs")
    <2> HIDE DEF open
    <2> QED
        BY <1>1, <1>3, <1>4, RefusedKeeps
<1>5. CASE /\ open.refs + refs <= TaskRefs
           /\ tasks' = [tasks EXCEPT ![t] = more]
           /\ agents' = Released(a, earned)
           /\ logged' = [logged EXCEPT ![a] = @ + earned]
           /\ Deposited(a, t, "progressed", "deposit", open.refs + refs)
           /\ UNCHANGED assigned
    <2>1. open.refs + refs \in 0 .. TaskRefs
        BY <1>1, <1>3, <1>5
    <2> HIDE DEF open
    <2>2. more \in TaskRec /\ more.status = "open" /\ more.dependencies = tasks[t].dependencies
        BY <1>3, <2>1 DEF TaskRec
    <2> HIDE DEF more
    <2>3. /\ tasks' \in TaskMap /\ tasks'[t] = more /\ more # Absent
          /\ \A u \in SwarmTask \ {t} : tasks'[u] = tasks[u]
        <3>1. /\ [tasks EXCEPT ![t] = more] \in TaskMap
              /\ [tasks EXCEPT ![t] = more][t] = more /\ more # Absent
              /\ \A u \in SwarmTask \ {t} : [tasks EXCEPT ![t] = more][u] = tasks[u]
            BY <1>1, <2>2, WorkedOn
        <3> QED
            BY <1>5, <3>1 DEF more
    <2>4. /\ t \in Known(tasks)' /\ \A u \in SwarmTask \ {t} : Stays(tasks, tasks', u)
          /\ tasks'[t].status = "open" /\ tasks'[t].dependencies = tasks[t].dependencies
        BY <2>2, <2>3 DEF Known, Stays
    <2>5. \E r : Deposited(a, t, "progressed", "deposit", r)
        BY <1>5
    <2> QED
        BY <1>1, <1>5, <2>3, <2>4, <2>5, TakenKeeps
<1> QED
    BY <1>4, <1>5 DEF RecordPartialProgress

\* recordVerifiedOutcome
LEMMA RecordVerifiedOutcomeKeeps ==
    ASSUME SwarmInv, NEW a \in Agent, NEW t \in SwarmTask, NEW refs \in RefCounts,
           NEW earned \in Pay, NEW skilled \in BOOLEAN,
           RecordVerifiedOutcome(a, t, refs, earned, skilled)
    PROVE  SwarmInv'
<1> DEFINE new == [tasks[t] EXCEPT !.status = "completed"]
           done == [tasks EXCEPT ![t] = new]
           full == [new EXCEPT !.refs = refs]
           filled == [tasks EXCEPT ![t] = full]
<1>1. Works(a, t) /\ earned \in Nat /\ refs \in Nat /\ TaskRefs \in Nat
    BY SwarmAssumption DEF RecordVerifiedOutcome
<1>2. tasks[t] \in TaskRec /\ tasks[t].holder = a /\ tasks \in TaskMap
    BY <1>1, WorkedOn
<1>3. new \in TaskRec /\ new.status = "completed" /\ new.holder = a
      /\ new.dependencies = tasks[t].dependencies
    BY <1>2 DEF TaskRec
<1>4. [tasks EXCEPT ![t].status = "completed"] = done
    BY <1>2 DEF TaskMap
<1>5. CASE refs > TaskRefs /\ tasks' = [tasks EXCEPT ![t].status = "completed"]
           /\ RefsRefused(a, t, "refs")
    <2> HIDE DEF new
    <2> QED
        BY <1>1, <1>3, <1>4, <1>5, RefusedKeeps
<1>6. CASE /\ refs <= TaskRefs
           /\ tasks' = Refreshed([[tasks EXCEPT ![t].status = "completed"] EXCEPT ![t].refs = refs])
           /\ agents' = Released(a, earned)
           /\ IF skilled
              THEN /\ logged' = [logged EXCEPT ![a] = @ + earned]
                   /\ Deposited(a, t, "completed", "deposit", refs)
              ELSE /\ unfinished' = unfinished \cup {<<a, t, "skills">>}
                   /\ UNCHANGED <<logged, outcomes>>
           /\ UNCHANGED assigned
    <2> HIDE DEF new
    <2>1. refs \in 0 .. TaskRefs
        BY <1>1, <1>6
    <2>2. full \in TaskRec /\ full.status = "completed" /\ full.holder = a
          /\ full.dependencies = tasks[t].dependencies
        BY <1>3, <2>1 DEF TaskRec
    <2>3. [[tasks EXCEPT ![t].status = "completed"] EXCEPT ![t].refs = refs] = filled
        <3>1. done[t] = new /\ done = [u \in SwarmTask |-> IF u = t THEN new ELSE tasks[u]]
            BY <1>2 DEF TaskMap
        <3> HIDE DEF done
        <3>2. [done EXCEPT ![t].refs = refs] = [done EXCEPT ![t] = full]
            BY <3>1
        <3> HIDE DEF full
        <3>3. [done EXCEPT ![t] = full] = filled
            BY <1>2, <3>1 DEF TaskMap
        <3> QED
            BY <1>4, <3>2, <3>3
    <2> HIDE DEF full
    <2>4. /\ filled \in TaskMap /\ filled[t] = full /\ full # Absent
          /\ \A u \in SwarmTask \ {t} : filled[u] = tasks[u]
        BY <1>1, <2>2, WorkedOn
    <2> HIDE DEF filled
    <2>5. tasks' \in TaskMap /\ \A u \in SwarmTask : Stays(filled, tasks', u)
        BY <1>6, <2>3, <2>4, RefreshedStays
    <2>6. tasks'[t] = full
        BY <2>2, <2>4, <2>5 DEF Stays
    <2>7. /\ t \in Known(tasks)' /\ \A u \in SwarmTask \ {t} : Stays(tasks, tasks', u)
          /\ tasks'[t].status = "completed" /\ tasks'[t].dependencies = tasks[t].dependencies
          /\ tasks'[t].holder = a
        BY <2>2, <2>4, <2>5, <2>6 DEF Known, Stays
    <2>8. CASE skilled
        <3>1. \E r : Deposited(a, t, "completed", "deposit", r)
            BY <1>6, <2>8
        <3> QED
            BY <1>1, <1>6, <2>5, <2>7, <2>8, <3>1, TakenKeeps
    <2>9. CASE ~skilled
        <3>1. unfinished' = unfinished \cup {<<a, t, "skills">>} /\ UNCHANGED outcomes
              /\ UNCHANGED logged /\ <<a, t, "skills">> \in unfinished'
            BY <1>6, <2>9
        <3> QED
            BY <1>1, <1>6, <2>5, <2>7, <3>1, TakenKeeps
    <2> QED
        BY <2>8, <2>9
<1> QED
    BY <1>5, <1>6 DEF RecordVerifiedOutcome

\* recordFailedOutcome
LEMMA RecordFailedOutcomeKeeps ==
    ASSUME SwarmInv, NEW a \in Agent, NEW t \in SwarmTask, NEW refs \in RefCounts,
           RecordFailedOutcome(a, t, refs)
    PROVE  SwarmInv'
<1> DEFINE new == [tasks[t] EXCEPT !.status = "failed"]
           done == [tasks EXCEPT ![t] = new]
           full == [new EXCEPT !.refs = refs]
<1>1. Works(a, t) /\ refs \in Nat /\ TaskRefs \in Nat
    BY SwarmAssumption DEF RecordFailedOutcome
<1>2. tasks[t] \in TaskRec /\ tasks[t].holder = a /\ tasks \in TaskMap
    BY <1>1, WorkedOn
<1>3. new \in TaskRec /\ new.status = "failed" /\ new.holder = a
      /\ new.dependencies = tasks[t].dependencies
    BY <1>2 DEF TaskRec
<1>4. [tasks EXCEPT ![t].status = "failed"] = done
    BY <1>2 DEF TaskMap
<1>5. CASE refs > TaskRefs /\ tasks' = [tasks EXCEPT ![t].status = "failed"]
           /\ RefsRefused(a, t, "refs")
    <2> HIDE DEF new
    <2> QED
        BY <1>1, <1>3, <1>4, <1>5, RefusedKeeps
<1>6. CASE /\ refs <= TaskRefs
           /\ tasks' = [[tasks EXCEPT ![t].status = "failed"] EXCEPT ![t].refs = refs]
           /\ agents' = Released(a, 0)
           /\ Deposited(a, t, "failed", "deposit", refs)
           /\ UNCHANGED <<logged, assigned>>
    <2> HIDE DEF new
    <2>1. refs \in 0 .. TaskRefs
        BY <1>1, <1>6
    <2>2. full \in TaskRec /\ full.status = "failed" /\ full.holder = a
          /\ full.dependencies = tasks[t].dependencies
        BY <1>3, <2>1 DEF TaskRec
    <2>3. tasks' = [tasks EXCEPT ![t] = full]
        <3>1. done[t] = new /\ done = [u \in SwarmTask |-> IF u = t THEN new ELSE tasks[u]]
            BY <1>2 DEF TaskMap
        <3> HIDE DEF done
        <3>2. [done EXCEPT ![t].refs = refs] = [done EXCEPT ![t] = full]
            BY <3>1
        <3> HIDE DEF full
        <3>3. [done EXCEPT ![t] = full] = [tasks EXCEPT ![t] = full]
            BY <1>2, <3>1 DEF TaskMap
        <3> QED
            BY <1>4, <1>6, <3>2, <3>3
    <2> HIDE DEF full
    <2>4. /\ tasks' \in TaskMap /\ tasks'[t] = full /\ full # Absent
          /\ \A u \in SwarmTask \ {t} : tasks'[u] = tasks[u]
        <3>1. /\ [tasks EXCEPT ![t] = full] \in TaskMap
              /\ [tasks EXCEPT ![t] = full][t] = full /\ full # Absent
              /\ \A u \in SwarmTask \ {t} : [tasks EXCEPT ![t] = full][u] = tasks[u]
            BY <1>1, <2>2, WorkedOn
        <3> QED
            BY <2>3, <3>1
    <2>5. /\ t \in Known(tasks)' /\ \A u \in SwarmTask \ {t} : Stays(tasks, tasks', u)
          /\ tasks'[t].status = "failed" /\ tasks'[t].dependencies = tasks[t].dependencies
          /\ tasks'[t].holder = a
        BY <2>2, <2>4 DEF Known, Stays
    <2>6. \E r : Deposited(a, t, "failed", "deposit", r)
        BY <1>6
    <2>7. 0 \in Nat /\ UNCHANGED logged
        BY <1>6
    <2> QED
        BY <1>1, <1>6, <2>4, <2>5, <2>6, <2>7, TakenKeeps
<1> QED
    BY <1>5, <1>6 DEF RecordFailedOutcome

LEMMA LeastOfThree ==
    ASSUME NEW k \in Nat, NEW m \in Nat, NEW n \in Nat
    PROVE  Least({k, m, n}) \in Nat
<1>1. \E x \in {k, m, n} : \A y \in {k, m, n} : x <= y
    <2>1. CASE k <= m /\ k <= n
        BY <2>1
    <2>2. CASE m <= k /\ m <= n
        BY <2>2
    <2>3. CASE n <= k /\ n <= m
        BY <2>3
    <2> QED
        BY <2>1, <2>2, <2>3
<1>2. Least({k, m, n}) \in {k, m, n}
    BY <1>1 DEF Least
<1> QED
    BY <1>2

\* selfOrganize: agents without a task take open tasks, each one of its own.
LEMMA SelfOrganizeKeeps ==
    ASSUME SwarmInv, NEW limit \in Nat, SelfOrganize(limit)
    PROVE  SwarmInv'
<1> DEFINE ready == Refreshed(tasks)
           open == WithStatus(ready, "open")
           size == Least({limit, Cardinality(Bidders), Cardinality(open)})
<1>1. /\ HoldersMatch /\ EnergyIsOnRecord /\ StatusIsEarned /\ SwarmTypeOK
      /\ tasks \in TaskMap /\ agents \in AgentMap /\ logged \in [Agent -> Int]
      /\ outcomes \subseteq SwarmTask \X Agent \X {"progressed", "completed", "failed"}
      /\ unfinished \subseteq Agent \X SwarmTask \X {"refs", "skills", "deposit"}
      /\ assigned \in 0 .. MaxAssignments
    BY SwarmTyped DEF SwarmInv, AgentsAndTasksAgree
<1>2. ready \in TaskMap /\ \A u \in SwarmTask : Stays(tasks, ready, u)
    BY <1>1, RefreshedStays
<1>3. /\ assigned + size <= MaxAssignments /\ assigned' = assigned + size
      /\ UNCHANGED <<outcomes, unfinished>>
    BY DEF SelfOrganize
<1>4. PICK chosen \in {S \in SUBSET Bidders : Cardinality(S) = size} :
      \E task \in [chosen -> open] :
          /\ \A a, b \in chosen : task[a] = task[b] => a = b
          /\ tasks' = [t \in SwarmTask |->
                IF \E a \in chosen : task[a] = t
                THEN [ready[t] EXCEPT !.status = "claimed",
                                      !.holder = CHOOSE a \in chosen : task[a] = t]
                ELSE ready[t]]
          /\ agents' = [a \in Agent |->
                IF a \in chosen
                THEN [energy |-> agents[a].energy - ClaimCost, active |-> task[a]]
                ELSE agents[a]]
          /\ logged' = [a \in Agent |->
                IF a \in chosen THEN logged[a] - ClaimCost ELSE logged[a]]
    BY DEF SelfOrganize
<1>5. PICK task \in [chosen -> open] :
          /\ \A a, b \in chosen : task[a] = task[b] => a = b
          /\ tasks' = [t \in SwarmTask |->
                IF \E a \in chosen : task[a] = t
                THEN [ready[t] EXCEPT !.status = "claimed",
                                      !.holder = CHOOSE a \in chosen : task[a] = t]
                ELSE ready[t]]
          /\ agents' = [a \in Agent |->
                IF a \in chosen
                THEN [energy |-> agents[a].energy - ClaimCost, active |-> task[a]]
                ELSE agents[a]]
          /\ logged' = [a \in Agent |->
                IF a \in chosen THEN logged[a] - ClaimCost ELSE logged[a]]
    BY <1>4
<1> HIDE DEF ready
<1>6. \A a \in chosen : /\ a \in Agent /\ a \in Registered /\ agents[a] \in AgentRec
                        /\ agents[a].active = NoTask /\ agents[a].energy >= ClaimCost
                        /\ task[a] \in open
    BY <1>1, AgentIs DEF Bidders
<1>7. \A t \in open : t \in SwarmTask /\ ready[t] # Absent /\ ready[t].status = "open"
                      /\ ready[t] \in TaskRec
    BY <1>2, TaskIs DEF WithStatus, Known
<1>8. \A t \in open : t \in Known(tasks) /\ tasks[t].status \in {"blocked", "open"}
    BY <1>2, <1>7 DEF Stays, Known
<1> DEFINE Taken(t, a) == a \in chosen /\ task[a] = t
<1>9. ASSUME NEW a \in chosen
      PROVE  LET t == task[a]
             IN  /\ tasks'[t] \in TaskRec /\ tasks'[t] # Absent
                 /\ tasks'[t].status = "claimed" /\ tasks'[t].holder = a
                 /\ tasks'[t].dependencies = ready[t].dependencies
    <2> DEFINE t == task[a]
    <2>1. t \in SwarmTask /\ ready[t] \in TaskRec /\ a \in Agent
        BY <1>6, <1>7
    <2>2. (CHOOSE b \in chosen : task[b] = t) = a
        BY <1>5
    <2>3. tasks'[t] = [ready[t] EXCEPT !.status = "claimed", !.holder = a]
        BY <1>5, <2>1, <2>2
    <2> HIDE DEF t
    <2>4. PICK r \in TaskRec : r = ready[t]
        BY <2>1
    <2>5. /\ [r EXCEPT !.status = "claimed", !.holder = a] \in TaskRec
          /\ [r EXCEPT !.status = "claimed", !.holder = a].status = "claimed"
          /\ [r EXCEPT !.status = "claimed", !.holder = a].holder = a
          /\ [r EXCEPT !.status = "claimed", !.holder = a].dependencies = r.dependencies
        BY <2>1 DEF TaskRec
    <2>7. \A x \in TaskRec : x # Absent
        BY SwarmAssumption DEF TaskRec
    <2> QED
        BY <2>3, <2>4, <2>5, <2>7 DEF t
<1>10. \A t \in SwarmTask : (\A a \in chosen : task[a] # t) => tasks'[t] = ready[t]
    BY <1>5
<1>11. \A a \in chosen : agents'[a] = [energy |-> agents[a].energy - ClaimCost, active |-> task[a]]
                         /\ logged'[a] = logged[a] - ClaimCost
    BY <1>5, <1>6
<1>12. \A a \in Agent : a \notin chosen => agents'[a] = agents[a] /\ logged'[a] = logged[a]
    BY <1>5
<1>13. \A a \in chosen : /\ agents'[a] \in AgentRec /\ agents'[a] # Absent
                         /\ agents'[a].energy = agents[a].energy - ClaimCost
                         /\ agents'[a].active = task[a]
    <2> SUFFICES ASSUME NEW a \in chosen
                 PROVE  /\ agents'[a] \in AgentRec /\ agents'[a] # Absent
                        /\ agents'[a].energy = agents[a].energy - ClaimCost
                        /\ agents'[a].active = task[a]
        OBVIOUS
    <2>1. agents[a].energy \in Nat /\ task[a] \in SwarmTask /\ agents[a].energy >= ClaimCost
          /\ ClaimCost \in Nat
        BY <1>6, <1>7, SwarmAssumption DEF AgentRec
    <2>2. agents[a].energy - ClaimCost \in Nat
        BY <2>1
    <2> DEFINE e == agents[a].energy - ClaimCost
               u == task[a]
    <2>3. agents'[a] = [energy |-> e, active |-> u] /\ e \in Nat /\ u \in SwarmTask
        BY <1>11, <2>1, <2>2
    <2> HIDE DEF e, u
    <2>5. agents'[a] \in AgentRec /\ agents'[a].energy = e /\ agents'[a].active = u
        BY <2>3 DEF AgentRec
    <2>4. agents'[a] # Absent
        BY <2>5, SwarmAssumption DEF AgentRec
    <2> QED
        BY <2>4, <2>5 DEF e, u
<1>14. tasks' \in TaskMap
    <2>1. \A t \in SwarmTask : tasks'[t] \in TaskRec \cup {Absent}
        BY <1>2, <1>9, <1>10 DEF TaskMap
    <2>2. tasks' = [t \in SwarmTask |-> tasks'[t]]
        BY <1>5
    <2> QED
        BY <2>1, <2>2 DEF TaskMap
<1>15. agents' \in AgentMap /\ logged' \in [Agent -> Int]
    <2>1. \A a \in Agent : agents'[a] \in AgentRec \cup {Absent}
        BY <1>1, <1>12, <1>13 DEF AgentMap
    <2>2. agents' = [a \in Agent |-> agents'[a]]
        BY <1>5
    <2>3. ClaimCost \in Int
        BY SwarmAssumption
    <2>4. agents' \in AgentMap
        BY <2>1, <2>2 DEF AgentMap
    <2>5. \A a \in Agent : (IF a \in chosen THEN logged[a] - ClaimCost ELSE logged[a]) \in Int
        BY <1>1, <2>3
    <2>6. logged' = [a \in Agent |-> IF a \in chosen THEN logged[a] - ClaimCost ELSE logged[a]]
        BY <1>5
    <2>7. logged' \in [Agent -> Int]
        BY <2>5, <2>6
    <2> QED
        BY <2>4, <2>7
<1>16. assigned' \in 0 .. MaxAssignments
    <2>1. Cardinality(Bidders) \in Nat /\ Cardinality(open) \in Nat
        <3>1. Bidders \subseteq Agent /\ open \subseteq SwarmTask
            BY <1>7 DEF Bidders, Registered
        <3> QED
            BY <3>1, SwarmAssumption, FS_Subset, FS_CardinalityType
    <2>2. size \in Nat
        BY <2>1, LeastOfThree
    <2> HIDE DEF size
    <2> QED
        BY <1>1, <1>3, <2>2, SwarmAssumption
<1>17. SwarmTypeOK'
    BY <1>1, <1>3, <1>14, <1>15, <1>16 DEF SwarmTypeOK, TaskRec, AgentRec, TaskMap, AgentMap
<1>18. Registered' = Registered
    BY <1>6, <1>12, <1>13 DEF Registered
<1>19. HoldersMatch'
    <2>1. ASSUME NEW u \in WithStatus(tasks, "claimed")'
          PROVE  tasks'[u].holder \in Registered' /\ agents'[tasks'[u].holder].active = u
        <3>1. u \in SwarmTask /\ tasks'[u] # Absent /\ tasks'[u].status = "claimed"
            BY <2>1 DEF WithStatus, Known
        <3>2. CASE \E a \in chosen : task[a] = u
            BY <1>6, <1>9, <1>13, <1>18, <3>2
        <3>3. CASE \A a \in chosen : task[a] # u
            <4>1. tasks'[u] = ready[u]
                BY <1>10, <3>1, <3>3
            <4>2. tasks'[u] = tasks[u] /\ u \in WithStatus(tasks, "claimed")
                BY <1>2, <3>1, <4>1 DEF Stays, WithStatus, Known
            <4>3. tasks[u].holder \in Registered /\ agents[tasks[u].holder].active = u
                BY <1>1, <4>2 DEF HoldersMatch
            <4>4. tasks[u].holder \in Agent /\ tasks[u].holder \notin chosen
                BY <1>6, <3>1, <4>3, SwarmAssumption DEF Registered
            <4> QED
                BY <1>12, <1>18, <4>2, <4>3, <4>4
        <3> QED
            BY <3>2, <3>3
    <2>2. ASSUME NEW b \in Registered', NEW u \in {agents'[b].active} \ {NoTask}
          PROVE  Works(b, u)' \/ Threw(b, u, "refs")'
        <3>1. CASE b \in chosen
            <4>1. u = task[b] /\ u \in SwarmTask
                BY <1>6, <1>7, <1>13, <2>2, <3>1
            <4>2. tasks'[u] # Absent /\ tasks'[u].status = "claimed" /\ tasks'[u].holder = b
                BY <1>9, <3>1, <4>1
            <4> QED
                BY <1>13, <2>2, <3>1, <4>1, <4>2 DEF Works, Known
        <3>2. CASE b \notin chosen
            <4>1. b \in Registered /\ b \in Agent /\ agents'[b] = agents[b]
                BY <1>12, <1>18, <2>2, <3>2 DEF Registered
            <4>2. CASE Works(b, u)
                <5>1. u \in Known(tasks) /\ u \in SwarmTask /\ tasks[u].status = "claimed"
                    BY <4>2 DEF Works, Known
                <5>2. u \notin open
                    BY <1>8, <5>1
                <5>3. tasks'[u] = ready[u] /\ ready[u] = tasks[u]
                    BY <1>2, <1>6, <1>10, <5>1, <5>2 DEF Stays
                <5> QED
                    BY <1>18, <4>1, <4>2, <5>1, <5>3 DEF Works, Known
            <4>3. CASE Threw(b, u, "refs")
                BY <1>3, <4>3 DEF Threw
            <4> QED
                BY <1>1, <2>2, <4>1, <4>2, <4>3 DEF HoldersMatch
        <3> QED
            BY <3>1, <3>2
    <2> QED
        BY <2>1, <2>2 DEF HoldersMatch
<1>20. EnergyIsOnRecord'
    <2> SUFFICES ASSUME NEW b \in Registered'
                 PROVE  /\ agents'[b].energy >= logged'[b]
                        /\ agents'[b].energy = logged'[b]
                              \/ \E t \in SwarmTask : Threw(b, t, "skills")'
        BY DEF EnergyIsOnRecord
    <2>1. /\ b \in Agent /\ agents[b].energy \in Nat /\ logged[b] \in Int /\ ClaimCost \in Nat
          /\ agents[b].energy >= logged[b]
          /\ agents[b].energy = logged[b] \/ \E t \in SwarmTask : Threw(b, t, "skills")
        BY <1>1, <1>18, AgentIs, SwarmAssumption DEF EnergyIsOnRecord, Registered
    <2>2. /\ agents'[b].energy >= logged'[b]
          /\ agents[b].energy = logged[b] => agents'[b].energy = logged'[b]
        <3>1. CASE b \in chosen
            <4>1. agents'[b].energy = agents[b].energy - ClaimCost
                  /\ logged'[b] = logged[b] - ClaimCost
                BY <1>11, <1>13, <3>1
            <4> QED
                BY <2>1, <4>1
        <3>2. CASE b \notin chosen
            <4>1. agents'[b] = agents[b] /\ logged'[b] = logged[b]
                BY <1>12, <2>1, <3>2
            <4> QED
                BY <2>1, <4>1
        <3> QED
            BY <3>1, <3>2
    <2> QED
        BY <1>3, <2>1, <2>2 DEF Threw
<1>21. WithStatus(tasks, "completed") \subseteq WithStatus(tasks, "completed")'
       /\ WithStatus(ready, "completed") \subseteq WithStatus(tasks, "completed")'
    <2>1. ASSUME NEW u \in WithStatus(ready, "completed")
          PROVE  u \in WithStatus(tasks, "completed")'
        <3>1. u \in SwarmTask /\ ready[u] # Absent /\ ready[u].status = "completed"
            BY DEF WithStatus, Known
        <3>2. tasks'[u] = ready[u]
            BY <1>6, <1>7, <1>10, <3>1
        <3> QED
            BY <3>1, <3>2 DEF WithStatus, Known
    <2>2. ASSUME NEW u \in WithStatus(tasks, "completed")
          PROVE  u \in WithStatus(ready, "completed")
        <3>1. u \in SwarmTask /\ tasks[u] # Absent /\ tasks[u].status = "completed"
            BY DEF WithStatus, Known
        <3>2. ready[u] = tasks[u]
            BY <1>2, <3>1 DEF Stays
        <3> QED
            BY <3>1, <3>2 DEF WithStatus, Known
    <2> QED
        BY <2>1, <2>2
<1>22. ASSUME NEW u \in SwarmTask
       PROVE  \/ Stays(tasks, tasks', u)
              \/ /\ u \in Known(tasks)' /\ u \in Known(tasks)
                 /\ tasks[u].status \in {"blocked", "open"}
                 /\ tasks'[u].status = "claimed"
                 /\ tasks'[u].dependencies \subseteq WithStatus(tasks, "completed")'
    <2>1. CASE \E a \in chosen : task[a] = u
        <3>1. PICK a \in chosen : task[a] = u
            BY <2>1
        <3>2. /\ u \in open /\ tasks'[u] # Absent /\ tasks'[u].status = "claimed"
              /\ tasks'[u].dependencies = ready[u].dependencies
            BY <1>6, <1>9, <3>1
        <3>3. ready[u].dependencies \subseteq WithStatus(tasks, "completed")'
            <4>1. CASE ready[u] = tasks[u]
                <5>1. u \in Known(tasks) /\ tasks[u].status # "blocked"
                    BY <1>7, <1>8, <3>2, <4>1
                <5>2. tasks[u].dependencies \subseteq WithStatus(tasks, "completed")
                    BY <1>1, <5>1 DEF StatusIsEarned
                <5> QED
                    BY <1>21, <4>1, <5>2
            <4>2. CASE ready[u] # tasks[u]
                BY <1>2, <1>21, <4>2 DEF Stays
            <4> QED
                BY <4>1, <4>2
        <3> QED
            BY <1>8, <3>2, <3>3 DEF Known
    <2>2. CASE \A a \in chosen : task[a] # u
        <3>1. tasks'[u] = ready[u] /\ Stays(tasks, ready, u)
            BY <1>2, <1>10, <2>2
        <3>2. WithStatus(ready, "completed") \subseteq WithStatus(tasks', "completed")
            BY <1>21 DEF WithStatus, Known
        <3> QED
            BY <3>1, <3>2 DEF Stays
    <2> QED
        BY <2>1, <2>2
<1>23. StatusIsEarned'
    BY <1>1, <1>3, <1>22, NothingEnds
<1> QED
    BY <1>17, <1>19, <1>20, <1>23 DEF SwarmInv, AgentsAndTasksAgree

LEMMA SwarmInitFits == SwarmInit => SwarmInv
<1> SUFFICES ASSUME SwarmInit
             PROVE  SwarmInv
    OBVIOUS
<1>1. tasks \in TaskMap /\ agents \in AgentMap /\ Known(tasks) = {} /\ Registered = {}
    BY DEF SwarmInit, TaskMap, AgentMap, Known, Registered
<1>2. SwarmTypeOK
    BY <1>1, SwarmAssumption DEF SwarmInit, SwarmTypeOK, TaskMap, TaskRec, AgentMap, AgentRec
<1> QED
    BY <1>1, <1>2 DEF SwarmInit, SwarmInv, AgentsAndTasksAgree, HoldersMatch, EnergyIsOnRecord,
                      StatusIsEarned, WithStatus

LEMMA SwarmNextKeeps == SwarmInv /\ [SwarmNext]_swarmVars => SwarmInv'
<1> SUFFICES ASSUME SwarmInv, [SwarmNext]_swarmVars
             PROVE  SwarmInv'
    OBVIOUS
<1>1. ASSUME NEW offer \in Offer, AddTask(offer[1], offer[2])
      PROVE  SwarmInv'
    <2>1. offer[1] \in SwarmTask /\ offer[2] \in SUBSET SwarmTask
        BY SwarmAssumption
    <2> QED
        BY <1>1, <2>1, AddTaskKeeps
<1>2. ASSUME NEW limit \in 1 .. Cardinality(Agent), SelfOrganize(limit)
      PROVE  SwarmInv'
    <2>1. limit \in Nat
        BY SwarmAssumption, FS_CardinalityType
    <2> QED
        BY <1>2, <2>1, SelfOrganizeKeeps
<1>3. CASE UNCHANGED swarmVars
    BY <1>3 DEF swarmVars, SwarmInv, AgentsAndTasksAgree, SwarmTypeOK, HoldersMatch, EnergyIsOnRecord,
                StatusIsEarned, WithStatus, Known, Registered, Works, ThrewOn, Threw
<1> QED
    BY <1>1, <1>2, <1>3, RegisterAgentKeeps, BidsKeeps, RecordPartialProgressKeeps,
       RecordVerifiedOutcomeKeeps, RecordFailedOutcomeKeeps DEF SwarmNext

\* Agents and tasks agree through claims, progress, outcomes and calls that throw
\* half way, however many agents and tasks there are.
THEOREM AgentsAndTasksStayInAgreement == SwarmSpec => []AgentsAndTasksAgree
<1>1. SwarmInv => AgentsAndTasksAgree
    BY DEF SwarmInv
<1> QED
    BY <1>1, SwarmInitFits, SwarmNextKeeps, PTL DEF SwarmSpec

-----------------------------------------------------------------------------
(***************************************************************************)
(* The task coordinator.  Its stages are counted by the turn, so that no   *)
(* allowed policy runs out of units, and what the verifier saw is the      *)
(* board the integrator finds.                                             *)
(***************************************************************************)

\* What a board can hold: entries as a role that may bring them writes them.
Items == UNION {{Written(r, e) : e \in {x \in BoardEntry : Acceptable(r, x)}} : r \in Role}

\* A board that was only added to.
Longer(old, new) ==
    /\ new \in Seq(Items)
    /\ Len(old) <= Len(new)
    /\ \A i \in 1 .. Len(old) : new[i] = old[i]

\* The entries of a unit.
Brought(role, s) == \A i \in DOMAIN s : s[i] \in BoardEntry /\ Acceptable(role, s[i])

\* An item is added at the end or not at all.
LEMMA AppendOnceKeeps ==
    ASSUME NEW old \in Seq(Items), NEW items, Longer(old, items), NEW item \in Items
    PROVE  Longer(old, AppendOnce(items, item))
<1>1. items \in Seq(Items) /\ Len(items) \in Nat /\ Len(old) \in Nat
    BY DEF Longer
<1>2. CASE item \in ToSet(items)
    BY <1>2 DEF AppendOnce
<1>3. CASE item \notin ToSet(items)
    <2>1. /\ Append(items, item) \in Seq(Items)
          /\ Len(Append(items, item)) = Len(items) + 1
          /\ \A i \in 1 .. Len(items) : Append(items, item)[i] = items[i]
        BY <1>1
    <2>2. \A i \in 1 .. Len(old) : i \in 1 .. Len(items)
        BY <1>1 DEF Longer
    <2>3. Longer(old, Append(items, item))
        BY <1>1, <2>1, <2>2 DEF Longer
    <2> QED
        BY <1>3, <2>3 DEF AppendOnce
<1> QED
    BY <1>2, <1>3

\* A unit's entries are added one after another, and nothing is lost.
LEMMA AppendedKeeps ==
    ASSUME board \in Seq(Items), NEW role \in Role, NEW m \in Nat,
           NEW entries \in [1 .. m -> BoardEntry],
           \A i \in 1 .. m : Acceptable(role, entries[i])
    PROVE  Longer(board, Appended(role, entries))
<1> DEFINE item(n) == Written(role, entries[n])
           step == [n \in 1 .. m |-> [x \in Seq(Items) |-> AppendOnce(x, item(n))]]
           Solves(f) == f = [n \in 0 .. m |-> IF n = 0 THEN board
                                              ELSE AppendOnce(f[n - 1], item(n))]
           after == CHOOSE f : Solves(f)
           S == {n \in 0 .. m : Longer(board, after[n])}
<1>1. \A n \in 1 .. m : item(n) \in Items
    BY DEF Items
<1> HIDE DEF item
<1>2. ASSUME NEW n \in 1 .. m, NEW x \in Seq(Items)
      PROVE  AppendOnce(x, item(n)) \in Seq(Items)
    <2>1. Longer(x, x)
        BY DEF Longer
    <2> QED
        BY <1>1, <2>1, AppendOnceKeeps DEF Longer
<1>3. step \in [1 .. m -> [Seq(Items) -> Seq(Items)]]
    BY <1>2
<1>4. \A n \in 1 .. m, x \in Seq(Items) : step[n][x] = AppendOnce(x, item(n))
    OBVIOUS
<1> HIDE DEF step
<1>5. PICK f \in [0 .. m -> Seq(Items)] :
          f[0] = board /\ \A n \in 1 .. m : f[n] = step[n][f[n - 1]]
    <2>1. step \in Steps(m, Seq(Items))
        BY <1>3 DEF Steps
    <2>2. \E f : Carries(f, m, Seq(Items), board, step)
        BY <2>1, Iteration
    <2> QED
        BY <2>2 DEF Carries
<1>6. \A n \in 1 .. m : f[n] = AppendOnce(f[n - 1], item(n))
    <2> SUFFICES ASSUME NEW n \in 1 .. m
                 PROVE  f[n] = AppendOnce(f[n - 1], item(n))
        OBVIOUS
    <2>1. f[n - 1] \in Seq(Items)
        BY <1>5
    <2> QED
        BY <1>4, <1>5, <2>1
<1>7. Solves(f)
    <2>1. \A n \in 0 .. m : f[n] = IF n = 0 THEN board ELSE AppendOnce(f[n - 1], item(n))
        BY <1>5, <1>6
    <2> QED
        BY <1>5, <2>1
<1>8. Solves(after)
    <2> HIDE DEF Solves
    <2> QED
        BY <1>7
<1>9. /\ after[0] = board
      /\ \A n \in 1 .. m : after[n] = AppendOnce(after[n - 1], item(n))
    <2> HIDE DEF after
    <2>1. 0 \in 0 .. m /\ \A n \in 1 .. m : n \in 0 .. m /\ n # 0
        OBVIOUS
    <2> QED
        BY <1>8, <2>1
<1> HIDE DEF after
<1>10. Len(entries) = m
    BY DEF Written
<1>11. 0 \in S
    BY <1>9 DEF Longer
<1>12. \A n \in 1 .. m : n - 1 \in S => n \in S
    BY <1>1, <1>9, AppendOnceKeeps
<1> HIDE DEF S
<1>13. 0 .. m \subseteq S
    BY <1>11, <1>12, Induction
<1>14. Longer(board, after[m])
    BY <1>13 DEF S
<1> QED
    BY <1>10, <1>14 DEF Appended, after, item

\* A unit that runs adds acceptable items to the board and records its size.
LEMMA RunsKeeps ==
    ASSUME board \in Seq(Items), stages \in Seq([role : Role, cycle : Nat, size : Nat]),
           NEW role \in Role, turn.cycle \in Nat, NEW items, Runs(role, items)
    PROVE  /\ Longer(board, board') /\ board' = items
           /\ stages' \in Seq([role : Role, cycle : Nat, size : Nat])
           /\ Len(stages') = Len(stages) + 1
           /\ stages'[Len(stages')].role = role
           /\ stages'[Len(stages')].size = Len(board')
           /\ stages'[Len(stages)] = stages[Len(stages)] \/ stages = <<>>
           /\ maxUnits' = maxUnits
<1>1. Longer(board, items)
    <2>1. PICK s \in UNION {[1 .. n -> BoardEntry] : n \in 0 .. MaxEntries} :
              (\A i \in DOMAIN s : Acceptable(role, s[i])) /\ items = Appended(role, s)
        BY DEF Runs, Results
    <2>3. PICK m \in 0 .. MaxEntries : s \in [1 .. m -> BoardEntry]
        BY <2>1
    <2>4. m \in Nat
        BY TaskAssumption
    <2>2. \A i \in 1 .. m : Acceptable(role, s[i])
        BY <2>1, <2>3
    <2> QED
        BY <2>1, <2>2, <2>3, <2>4, AppendedKeeps
<1> DEFINE stage == [role |-> role, cycle |-> turn.cycle, size |-> Len(items)]
<1>2. stage \in [role : Role, cycle : Nat, size : Nat] /\ stage.role = role /\ stage.size = Len(items)
    BY <1>1 DEF Longer
<1>3. board' = items /\ stages' = Append(stages, stage) /\ maxUnits' = maxUnits
    BY DEF Runs
<1> HIDE DEF stage
<1> QED
    BY <1>1, <1>2, <1>3

\* How many units have run when it is the turn of a unit.
UnitsBefore(n) ==
    CASE turn.at = "state-compiler" -> n = 0
      [] turn.at = "solver-builder" -> n = 1
      [] turn.at = "verifier" -> n = 2 + 2 * turn.cycle
      [] turn.at = "repairer" -> turn.cycle > 0 /\ n = 1 + 2 * turn.cycle
      [] turn.at = "integrator" -> n \in 3 .. 3 + 2 * RepairCycles
      [] OTHER -> TRUE

\* The last judgement stands on the board that the verifier saw.
Judged ==
    turn.at = "integrator" =>
        /\ stages[Len(stages)].role = "verifier"
        /\ stages[Len(stages)].size = Len(board)
        /\ Proven(board, verdict)

RunType ==
    /\ board \in Seq(Items)
    /\ stages \in Seq([role : Role, cycle : Nat, size : Nat])
    /\ turn \in [at : Role \cup {"completed", "failed"}, cycle : 0 .. RepairCycles]
    /\ maxUnits \in Nat
    /\ maxUnits >= RequiredUnits

TaskInv ==
    /\ RunType
    /\ Len(stages) <= maxUnits
    /\ UnitsBefore(Len(stages))
    /\ Judged
    /\ turn.at = "completed" => RestsOnEvidence

LEMMA TaskRoles == Role = {"state-compiler", "solver-builder", "verifier", "repairer", "integrator"}
BY DEF Role, KindsOf

LEMMA ItemsAreAccepted ==
    ASSUME NEW x \in Items
    PROVE  /\ \E r \in Role, e \in BoardEntry : Acceptable(r, e) /\ x = Written(r, e)
           /\ x.kind = "artifact" /\ x.status = "verified"
                => x.role \in {"solver-builder", "repairer"} /\ x.receipt
           /\ x.kind = "test" /\ x.status = "verified"
                => x.role \in {"verifier", "repairer"} /\ x.receipt
<1>1. PICK r \in Role, e \in BoardEntry : Acceptable(r, e) /\ x = Written(r, e)
    BY DEF Items
<1>2. x.role = r /\ x.kind = e.kind /\ x.status = e.status /\ x.receipt = e.receipt
    BY <1>1 DEF Written
<1>3. \/ r = "state-compiler" /\ e.kind \in {"requirement", "fact", "gap"}
      \/ r = "solver-builder" /\ e.kind \in {"artifact", "decision", "gap"}
      \/ r = "verifier" /\ e.kind \in {"fact", "test", "gap", "decision"}
      \/ r = "repairer" /\ e.kind \in {"fact", "artifact", "test", "gap", "decision"}
      \/ r = "integrator" /\ e.kind \in {"decision"}
    BY <1>1, TaskRoles DEF Acceptable, KindsOf
<1>4. e.kind \in {"artifact", "test"} /\ e.status = "verified" => e.receipt
    BY <1>1 DEF Acceptable
<1> QED
    BY <1>1, <1>2, <1>3, <1>4

LEMMA TaskInitFits == TaskInit => TaskInv
<1> SUFFICES ASSUME TaskInit
             PROVE  TaskInv
    OBVIOUS
<1>1. turn \in [at : Role \cup {"completed", "failed"}, cycle : 0 .. RepairCycles]
    BY TaskRoles, TaskAssumption DEF TaskInit, Unit
<1>2. maxUnits \in Nat /\ maxUnits >= RequiredUnits
    BY TaskAssumption DEF TaskInit
<1>3. board \in Seq(Items) /\ stages \in Seq([role : Role, cycle : Nat, size : Nat]) /\ Len(stages) = 0
    BY DEF TaskInit
<1> QED
    BY <1>1, <1>2, <1>3 DEF TaskInit, Unit, TaskInv, RunType, UnitsBefore, Judged

\* Before the integrator, a unit leaves the count right and nothing to judge.
LEMMA WorkKeeps ==
    ASSUME TaskInv, NEW role \in Role, NEW items, Runs(role, items),
           turn' \in [at : Role \cup {"completed", "failed"}, cycle : 0 .. RepairCycles],
           turn'.at \notin {"integrator", "completed"},
           UnitsBefore(Len(stages))'
    PROVE  TaskInv'
<1>1. RunType'
    <2>1. board \in Seq(Items) /\ stages \in Seq([role : Role, cycle : Nat, size : Nat])
          /\ turn.cycle \in Nat /\ maxUnits \in Nat /\ maxUnits >= RequiredUnits
        BY DEF TaskInv, RunType
    <2>2. /\ Longer(board, board') /\ maxUnits' = maxUnits
          /\ stages' \in Seq([role : Role, cycle : Nat, size : Nat])
        BY <2>1, RunsKeeps
    <2> QED
        BY <2>1, <2>2 DEF RunType, RequiredUnits, Longer
<1>2. Len(stages') <= maxUnits'
    <2>1. Len(stages) < maxUnits /\ maxUnits' = maxUnits
        BY DEF Runs
    <2>2. Len(stages') = Len(stages) + 1
        BY DEF Runs, TaskInv, RunType
    <2> QED
        BY <2>1, <2>2 DEF TaskInv, RunType
<1> QED
    BY <1>1, <1>2 DEF TaskInv, Judged

LEMMA CompileKeeps ==
    ASSUME TaskInv, NEW items, Compile(items)
    PROVE  TaskInv'
<1> USE TaskRoles
<1>1. Runs("state-compiler", items) /\ turn' = Unit("solver-builder", 0) /\ turn.at = "state-compiler"
    BY DEF Compile, Runs, Waiting
<1>2. Len(stages) = 0 /\ Len(stages') = Len(stages) + 1
    BY <1>1 DEF TaskInv, RunType, UnitsBefore, Runs
<1>3. turn' \in [at : Role \cup {"completed", "failed"}, cycle : 0 .. RepairCycles]
    BY <1>1, TaskAssumption DEF Unit
<1>4. UnitsBefore(Len(stages))'
    BY <1>1, <1>2 DEF UnitsBefore, Unit
<1>5. turn'.at = "solver-builder"
    BY <1>1 DEF Unit
<1> QED
    BY <1>1, <1>3, <1>4, <1>5, WorkKeeps

LEMMA BuildKeeps ==
    ASSUME TaskInv, NEW items, Build(items)
    PROVE  TaskInv'
<1> USE TaskRoles
<1>1. Runs("solver-builder", items) /\ turn' = Unit("verifier", 0) /\ turn.at = "solver-builder"
    BY DEF Build, Runs, Waiting
<1>2. Len(stages) = 1 /\ Len(stages') = Len(stages) + 1
    BY <1>1 DEF TaskInv, RunType, UnitsBefore, Runs
<1>3. turn' \in [at : Role \cup {"completed", "failed"}, cycle : 0 .. RepairCycles]
    BY <1>1, TaskAssumption DEF Unit
<1>4. turn'.at = "verifier" /\ turn'.cycle = 0
    BY <1>1 DEF Unit
<1>5. UnitsBefore(Len(stages))'
    BY <1>2, <1>4 DEF UnitsBefore
<1> QED
    BY <1>1, <1>3, <1>4, <1>5, WorkKeeps

LEMMA RepairKeeps ==
    ASSUME TaskInv, NEW items, Repair(items)
    PROVE  TaskInv'
<1> USE TaskRoles
<1>1. Runs("repairer", items) /\ turn' = Unit("verifier", turn.cycle) /\ turn.at = "repairer"
    BY DEF Repair, Runs, Waiting
<1>2. turn.cycle \in 0 .. RepairCycles /\ RepairCycles \in Nat
    BY TaskAssumption DEF TaskInv, RunType
<1>3. Len(stages) = 1 + 2 * turn.cycle /\ Len(stages') = Len(stages) + 1
    BY <1>1 DEF TaskInv, RunType, UnitsBefore, Runs
<1>4. turn' \in [at : Role \cup {"completed", "failed"}, cycle : 0 .. RepairCycles]
    BY <1>1, <1>2 DEF Unit
<1>5. turn'.at = "verifier" /\ turn'.cycle = turn.cycle
    BY <1>1 DEF Unit
<1>6. Len(stages') = 2 + 2 * turn'.cycle
    BY <1>2, <1>3, <1>5
<1>7. UnitsBefore(Len(stages))'
    BY <1>5, <1>6 DEF UnitsBefore
<1> QED
    BY <1>1, <1>4, <1>5, <1>7, WorkKeeps

LEMMA VerifyFailsKeeps ==
    ASSUME TaskInv, NEW items, NEW status, VerifyFails(items, status)
    PROVE  TaskInv'
<1> USE TaskRoles
<1>1. Runs("verifier", items) /\ turn.at = "verifier"
    BY DEF VerifyFails, Runs, Waiting
<1>2. turn.cycle \in 0 .. RepairCycles /\ RepairCycles \in Nat
    BY TaskAssumption DEF TaskInv, RunType
<1>3. Len(stages) = 2 + 2 * turn.cycle /\ Len(stages') = Len(stages) + 1
    BY <1>1 DEF TaskInv, RunType, UnitsBefore, Runs
<1>4. CASE turn.cycle < RepairCycles /\ turn' = Unit("repairer", turn.cycle + 1)
    <2>1. turn' \in [at : Role \cup {"completed", "failed"}, cycle : 0 .. RepairCycles]
        BY <1>2, <1>4 DEF Unit
    <2>2. turn'.at = "repairer" /\ turn'.cycle = turn.cycle + 1
        BY <1>4 DEF Unit
    <2>3. turn'.cycle > 0 /\ Len(stages') = 1 + 2 * turn'.cycle
        BY SMTT(40), <1>2, <1>3, <2>2
    <2>4. UnitsBefore(Len(stages))'
        BY <2>2, <2>3 DEF UnitsBefore
    <2> QED
        BY <1>1, <2>1, <2>2, <2>4, WorkKeeps
<1>5. CASE turn' = Ended("failed")
    <2>1. turn' \in [at : Role \cup {"completed", "failed"}, cycle : 0 .. RepairCycles]
        BY <1>2, <1>5 DEF Ended
    <2>2. turn'.at = "failed"
        BY <1>5 DEF Ended
    <2>3. UnitsBefore(Len(stages))'
        BY <2>2 DEF UnitsBefore
    <2> QED
        BY <1>1, <2>1, <2>2, <2>3, WorkKeeps
<1> QED
    BY <1>4, <1>5 DEF VerifyFails

LEMMA VerifyPassesKeeps ==
    ASSUME TaskInv, NEW items, NEW judgement, VerifyPasses(items, judgement)
    PROVE  TaskInv'
<1> USE TaskRoles
<1>1. Runs("verifier", items) /\ turn.at = "verifier"
    BY DEF VerifyPasses, Runs, Waiting
<1>2. turn.cycle \in 0 .. RepairCycles /\ RepairCycles \in Nat
    BY TaskAssumption DEF TaskInv, RunType
<1>3. Len(stages) = 2 + 2 * turn.cycle /\ Len(stages') = Len(stages) + 1
    BY <1>1 DEF TaskInv, RunType, UnitsBefore, Runs
<1>4. CASE Proven(items, judgement) /\ verdict' = judgement /\ turn' = Unit("integrator", 0)
    <2>1. turn' \in [at : Role \cup {"completed", "failed"}, cycle : 0 .. RepairCycles]
        BY <1>2, <1>4 DEF Unit
    <2>2. turn'.at = "integrator"
        BY <1>4 DEF Unit
    <2>3. Len(stages') \in 3 .. 3 + 2 * RepairCycles
        BY <1>2, <1>3
    <2>4. board \in Seq(Items) /\ stages \in Seq([role : Role, cycle : Nat, size : Nat])
          /\ turn.cycle \in Nat /\ maxUnits \in Nat /\ maxUnits >= RequiredUnits
        BY <1>2 DEF TaskInv, RunType
    <2>5. /\ Longer(board, board') /\ board' = items /\ maxUnits' = maxUnits
          /\ stages' \in Seq([role : Role, cycle : Nat, size : Nat])
          /\ stages'[Len(stages')].role = "verifier"
          /\ stages'[Len(stages')].size = Len(board')
        BY <1>1, <2>4, RunsKeeps
    <2>6. RunType'
        BY <2>1, <2>4, <2>5 DEF RunType, RequiredUnits, Longer
    <2>7. Len(stages') <= maxUnits'
        BY <1>1, <1>3, <2>4, <2>5 DEF Runs
    <2>8. Judged'
        BY <1>4, <2>5 DEF Judged, Proven, HasVerified
    <2> QED
        BY <2>2, <2>3, <2>6, <2>7, <2>8 DEF TaskInv, UnitsBefore
<1>5. CASE turn' = Ended("failed")
    <2>1. turn' \in [at : Role \cup {"completed", "failed"}, cycle : 0 .. RepairCycles]
        BY <1>2, <1>5 DEF Ended
    <2>2. turn'.at = "failed"
        BY <1>5 DEF Ended
    <2>3. UnitsBefore(Len(stages))'
        BY <2>2 DEF UnitsBefore
    <2> QED
        BY <1>1, <2>1, <2>2, <2>3, WorkKeeps
<1> QED
    BY <1>4, <1>5 DEF VerifyPasses

\* A verified item that is still there was written by a role that does the work.
LEMMA ReceiptIsThere ==
    ASSUME NEW old \in Seq(Items), Longer(old, board'), NEW kind, HasVerified(old, kind)
    PROVE  /\ kind = "artifact" => ReceiptBy({"solver-builder", "repairer"}, "artifact")'
           /\ kind = "test" => ReceiptBy({"verifier", "repairer"}, "test")'
<1>1. PICK i \in 1 .. Len(old) : old[i].kind = kind /\ old[i].status = "verified"
    BY DEF HasVerified
<1>2. i \in 1 .. Len(board') /\ board'[i] = old[i] /\ board'[i] \in Items /\ i \in DOMAIN board'
    BY DEF Longer
<1> DEFINE x == board'[i]
<1>3. x.kind = kind /\ x.status = "verified" /\ x \in Items
    BY <1>1, <1>2
<1> HIDE DEF x
<1>4. /\ kind = "artifact" => x.role \in {"solver-builder", "repairer"} /\ x.receipt
      /\ kind = "test" => x.role \in {"verifier", "repairer"} /\ x.receipt
    BY <1>3, ItemsAreAccepted
<1> QED
    BY <1>2, <1>3, <1>4 DEF x, ReceiptBy

LEMMA IntegrateKeeps ==
    ASSUME TaskInv, NEW items, Integrate(items)
    PROVE  TaskInv'
<1> USE TaskRoles
<1>1. Runs("integrator", items) /\ turn.at = "integrator" /\ turn' = Ended("completed")
      /\ verdict' = verdict
    BY DEF Integrate, Runs, Waiting
<1>2. board \in Seq(Items) /\ stages \in Seq([role : Role, cycle : Nat, size : Nat])
      /\ turn.cycle \in Nat /\ maxUnits \in Nat /\ maxUnits >= RequiredUnits /\ RepairCycles \in Nat
    BY TaskAssumption DEF TaskInv, RunType
<1>3. /\ Longer(board, board') /\ maxUnits' = maxUnits
      /\ stages' \in Seq([role : Role, cycle : Nat, size : Nat])
      /\ Len(stages') = Len(stages) + 1
      /\ stages'[Len(stages)] = stages[Len(stages)] \/ stages = <<>>
    BY <1>1, <1>2, RunsKeeps
<1>4. Len(stages) \in 3 .. 3 + 2 * RepairCycles
    BY <1>1 DEF TaskInv, UnitsBefore
<1>5. turn' \in [at : Role \cup {"completed", "failed"}, cycle : 0 .. RepairCycles]
      /\ turn'.at = "completed"
    BY <1>1, <1>2 DEF Ended
<1>6. RunType'
    BY <1>2, <1>3, <1>5 DEF RunType, RequiredUnits, Longer
<1>7. Len(stages') <= maxUnits'
    BY <1>1, <1>2, <1>3 DEF Runs
<1>8. stages[Len(stages)].role = "verifier" /\ stages[Len(stages)].size = Len(board)
      /\ Proven(board, verdict)
    BY <1>1 DEF TaskInv, Judged
<1>9. stages'[Len(stages') - 1] = stages[Len(stages)]
    <2>1. Len(stages) # 0 /\ Len(stages') - 1 = Len(stages)
        BY <1>2, <1>3, <1>4
    <2>2. stages # <<>>
        BY <2>1
    <2> QED
        BY <1>3, <2>1, <2>2
<1>10. ASSUME NEW c \in Criterion
       PROVE  /\ verdict.criteria[c].cites \in (SUBSET (1 .. Len(board))) \ {{}}
              /\ \A i \in verdict.criteria[c].cites :
                    board'[i].status \notin {"failed", "unresolved"}
    <2>1. /\ verdict.criteria[c].cites # {}
          /\ \A i \in verdict.criteria[c].cites :
                i \in DOMAIN board /\ board[i].status \notin {"failed", "unresolved"}
        BY <1>8 DEF Proven
    <2>2. DOMAIN board = 1 .. Len(board) /\ \A i \in 1 .. Len(board) : board'[i] = board[i]
        BY <1>2, <1>3 DEF Longer
    <2>3. \A i \in verdict.criteria[c].cites : i \in 1 .. Len(board)
        BY <2>1, <2>2
    <2>4. \A i \in verdict.criteria[c].cites :
              board'[i].status \notin {"failed", "unresolved"}
        BY <2>1, <2>2, <2>3
    <2> QED
        BY <2>1, <2>3, <2>4
<1>11. /\ RequireArtifact => ReceiptBy({"solver-builder", "repairer"}, "artifact")'
       /\ RequireTest => ReceiptBy({"verifier", "repairer"}, "test")'
    BY <1>2, <1>3, <1>8, ReceiptIsThere DEF Proven
<1>12. RestsOnEvidence'
    BY <1>1, <1>8, <1>9, <1>10, <1>11 DEF RestsOnEvidence
<1> QED
    BY <1>5, <1>6, <1>7, <1>12 DEF TaskInv, UnitsBefore, Judged

LEMMA ThrowsKeeps ==
    ASSUME TaskInv, Throws
    PROVE  TaskInv'
<1> USE TaskRoles
<1>1. RepairCycles \in Nat /\ turn.cycle \in 0 .. RepairCycles /\ maxUnits \in Nat
      /\ maxUnits >= 4 + 2 * RepairCycles /\ Len(stages) \in Nat /\ turn.at \in Role
    BY TaskAssumption DEF TaskInv, RunType, RequiredUnits, Throws
<1>2. Len(stages) < maxUnits
    <2>1. \/ Len(stages) \in {0, 1, 1 + 2 * turn.cycle, 2 + 2 * turn.cycle}
          \/ Len(stages) \in 3 .. 3 + 2 * RepairCycles
        BY <1>1 DEF TaskInv, UnitsBefore
    <2> DEFINE n == Len(stages)
               c == turn.cycle
    <2>3. c \in 0 .. RepairCycles /\ n \in Nat
        BY <1>1
    <2>4. n \in {0, 1, 1 + 2 * c, 2 + 2 * c} \/ n \in 3 .. 3 + 2 * RepairCycles
        BY <2>1
    <2> HIDE DEF n, c
    <2>5. n <= 3 + 2 * RepairCycles
        BY <1>1, <2>3, <2>4
    <2>2. Len(stages) <= 3 + 2 * RepairCycles
        BY <2>5 DEF n
    <2> QED
        BY <1>1, <2>2
<1>3. turn' = Ended("failed") /\ UNCHANGED <<board, stages, verdict, maxUnits>>
    BY <1>2 DEF Throws
<1>4. turn' \in [at : Role \cup {"completed", "failed"}, cycle : 0 .. RepairCycles]
      /\ turn'.at = "failed"
    BY <1>1, <1>3 DEF Ended
<1>5. RunType'
    BY <1>3, <1>4 DEF TaskInv, RunType, RequiredUnits
<1> QED
    BY <1>3, <1>4, <1>5 DEF TaskInv, UnitsBefore, Judged

LEMMA TaskNextKeeps == TaskInv /\ [TaskNext]_taskVars => TaskInv'
<1> SUFFICES ASSUME TaskInv, [TaskNext]_taskVars
             PROVE  TaskInv'
    OBVIOUS
<1>1. CASE UNCHANGED taskVars
    BY <1>1 DEF taskVars, TaskInv, RunType, RequiredUnits, UnitsBefore, Judged, Proven, HasVerified,
                RestsOnEvidence, ReceiptBy
<1> QED
    BY <1>1, CompileKeeps, BuildKeeps, RepairKeeps, VerifyFailsKeeps, VerifyPassesKeeps,
       IntegrateKeeps, ThrowsKeeps DEF TaskNext

\* A task run that completes rests on evidence its last verifier could see, and no
\* allowed policy runs out of units, for any policy, board and worker.
THEOREM CompletionRestsOnProof == TaskSpec => []CompletionIsProven
<1>1. ASSUME TaskInv
      PROVE  CompletionIsProven
    <2> USE <1>1
    <2>1. ASSUME NEW i \in DOMAIN board
          PROVE  \E r \in Role, e \in BoardEntry : Acceptable(r, e) /\ board[i] = Written(r, e)
        <3>1. board[i] \in Items
            BY DEF TaskInv, RunType
        <3> QED
            BY <3>1, ItemsAreAccepted
    <2> QED
        BY <2>1, TaskRoles DEF TaskInv, RunType, CompletionIsProven, TaskTypeOK
<1> QED
    BY <1>1, TaskInitFits, TaskNextKeeps, PTL DEF TaskSpec
-----------------------------------------------------------------------------
(***************************************************************************)
(* The turn gateway.  What a turn has observed tells how it came to where  *)
(* it is (Told); what it serves is then the answer of the call that its    *)
(* account names (Final).                                                  *)
(***************************************************************************)

Replies == [answer : Answer, input : Inputs, corrections : Nat]
TurnRec ==
    [at : {"unasked"} \cup Running \cup Ends, request : Request \cup {NoAnswer},
     calls : UNION {[S -> Answer] : S \in SUBSET Stage}, stages : Seq(Observations),
     answer : Answer \cup {NoAnswer}, input : Inputs \cup {NoAnswer}, reply : Replies \cup {NoAnswer}]

\* Legal, but the last answer may call for the stage that comes next.
LegalBefore(request, seen, next) ==
    /\ Len(seen) >= Len(Roles)
    /\ \A i \in DOMAIN Roles : seen[i].stage = Roles[i]
    /\ \A i, j \in DOMAIN seen : seen[i].stage = seen[j].stage => i = j
    /\ \A i \in DOMAIN seen :
         Unanswered(seen[i]) =>
            IF i = Len(seen) THEN next = RecoveryOf[seen[i].stage]
            ELSE seen[i + 1].stage = RecoveryOf[seen[i].stage]
    /\ \A i \in DOMAIN seen :
         /\ seen[i].stage = "mission:contract-recovery" =>
                /\ request \in Missions /\ i = Len(seen) /\ i > 1
                /\ seen[i - 1].stage \in CandidateRole \/ seen[i - 1].message \notin Plans
         /\ seen[i].stage \in {"critic:recovery", "integrator:recovery"} =>
                i > 1 /\ Unanswered(seen[i - 1])

\* Stages a turn may have behind it when it asks a stage.
Behind(stage) ==
    CASE stage = "critic" -> CandidateRole
      [] stage = "critic:recovery" -> CandidateRole \cup {"critic"}
      [] stage = "integrator" -> CandidateRole \cup {"critic", "critic:recovery"}
      [] stage = "integrator:recovery" ->
            CandidateRole \cup {"critic", "critic:recovery", "integrator"}
      [] OTHER -> Stage \ {"mission:contract-recovery"}

Told(a) ==
    /\ LegalBefore(a.request, a.stages, a.at)
    /\ \A i \in DOMAIN a.stages : a.stages[i].stage \in Behind(a.at)
    /\ DOMAIN a.calls = {a.stages[i].stage : i \in DOMAIN a.stages}
    /\ \A i \in DOMAIN a.stages : a.calls[a.stages[i].stage] = a.stages[i].message
    /\ a.at \in {"critic:recovery", "integrator:recovery"} => Unanswered(a.stages[Len(a.stages)])

\* The answer is that of the call which the input names.
Attributes(a) ==
    /\ a.input \in Inputs /\ a.answer \in Answer
    /\ IF a.input.stage \in CandidateRole
       THEN Observation(a.input.stage, a.answer) \in ToSet(a.stages)
       ELSE Observation(a.input.stage, a.answer) = Last(a.stages)
    /\ (\E j \in DOMAIN a.stages : a.stages[j].stage \in Corrections)
         <=> \/ a.input.stage \in Corrections
             \/ \E j \in DOMAIN a.stages : a.stages[j].stage = "critic:recovery"

\* A Mission that has an answer and no plan yet.
Planless(a) ==
    /\ a.request \in Missions
    /\ a.input.stage \notin Corrections \/ a.input.stage = "integrator:recovery"
    /\ a.stages[Len(a.stages)].stage \in CandidateRole \/ a.stages[Len(a.stages)].message \notin Plans

Final(a) ==
    /\ Legal(a.request, a.stages)
    /\ a.answer \in IF a.request \in Missions THEN Plans ELSE Complete

TurnFits(a) ==
    /\ a.at = "unasked" => a.calls = <<>>
    /\ a.at # "unasked" => a.request \in Request
    /\ a.at = "candidates" => DOMAIN a.calls \subseteq CandidateRole
    /\ a.at \in {"critic", "critic:recovery", "integrator", "integrator:recovery"} =>
          ~Direct(a.request)
    /\ a.at \in {"critic:recovery", "integrator", "integrator:recovery"} => "critic" \in DOMAIN a.calls
    /\ a.at \in Asking \ {"candidates"} => Told(a)
    /\ a.at \in {"mission:contract-recovery", "trace", "reply"} => Attributes(a)
    /\ a.at = "mission:contract-recovery" => Planless(a)
    /\ a.at \in {"trace", "reply"} => Final(a)

LEMMA GatewayData ==
    /\ Roles \in Seq(CandidateRole) /\ Len(Roles) \in Nat \ {0} /\ DOMAIN Roles = 1 .. Len(Roles)
    /\ CandidateRole = {Roles[i] : i \in DOMAIN Roles}
    /\ CandidateRole \subseteq Stage
    /\ CandidateRole \cap {"critic", "integrator", "critic:recovery", "integrator:recovery",
                           "mission:contract-recovery"} = {}
    /\ \A i, j \in DOMAIN Roles : Roles[i] = Roles[j] => i = j
    /\ RecoveryOf["critic"] = "critic:recovery" /\ RecoveryOf["integrator"] = "integrator:recovery"
<1>1. Roles \in Seq(CandidateRole) /\ Roles # <<>>
    BY GatewayAssumption
<1>2. Len(Roles) \in Nat \ {0} /\ DOMAIN Roles = 1 .. Len(Roles)
    BY <1>1
<1>3. CandidateRole = {Roles[i] : i \in DOMAIN Roles}
    BY DEF CandidateRole, ToSet
<1> QED
    BY <1>1, <1>2, <1>3, GatewayAssumption DEF Stage, Corrections, RecoveryOf

\* A turn with these observations may ask stage s.
MayAsk(q, seen, s) ==
    /\ LegalBefore(q, seen, s)
    /\ \A i \in DOMAIN seen : seen[i].stage \in Behind(s)
    /\ s \in {"critic:recovery", "integrator:recovery"} => Unanswered(seen[Len(seen)])
    /\ s = "mission:contract-recovery" =>
          /\ q \in Missions
          /\ seen[Len(seen)].stage \in CandidateRole \/ seen[Len(seen)].message \notin Plans

\* Stage next may come behind the answer m of stage s.
Follows(s, m, next) == s \in {"critic", "integrator"} /\ m \notin Complete => next = RecoveryOf[s]

LEMMA OneMoreStage ==
    ASSUME NEW q, NEW seen \in Seq(Observations), NEW s \in Asking \ {"candidates"},
           MayAsk(q, seen, s), NEW m \in Answer, NEW next, Follows(s, m, next)
    PROVE  /\ Append(seen, Observation(s, m)) \in Seq(Observations)
           /\ LegalBefore(q, Append(seen, Observation(s, m)), next)
<1> USE DEF MayAsk, Follows
<1> DEFINE o == Observation(s, m)
           new == Append(seen, o)
           n == Len(seen)
<1>1. o \in Observations /\ o.stage = s /\ o.message = m
    BY DEF Observation, Observations, Asking, Stage, Corrections
<1> HIDE DEF o
<1>2. /\ new \in Seq(Observations) /\ Len(new) = n + 1 /\ n \in Nat
      /\ DOMAIN new = 1 .. n + 1 /\ DOMAIN seen = 1 .. n
      /\ \A i \in 1 .. n : new[i] = seen[i]
      /\ new[n + 1] = o
    BY <1>1
<1> HIDE DEF new, n
<1>3. n >= Len(Roles) /\ n > 0 /\ \A i \in DOMAIN Roles : i \in 1 .. n
    BY GatewayData DEF LegalBefore, n
<1>4. \A i \in 1 .. n : seen[i].stage # s
    <2>1. s \notin Behind(s)
        BY GatewayData DEF Behind, Asking
    <2> QED
        BY <1>2, <2>1
<1>5. \A i \in 1 .. n + 1 : i \in 1 .. n \/ i = n + 1
    BY <1>2
<1>6. Len(new) >= Len(Roles) /\ \A i \in DOMAIN Roles : new[i].stage = Roles[i]
    BY <1>2, <1>3, GatewayData DEF LegalBefore
<1>7. \A i, j \in DOMAIN new : new[i].stage = new[j].stage => i = j
    BY <1>1, <1>2, <1>4, <1>5 DEF LegalBefore
<1>8. ASSUME NEW i \in DOMAIN new, Unanswered(new[i])
      PROVE  IF i = Len(new) THEN next = RecoveryOf[new[i].stage]
             ELSE new[i + 1].stage = RecoveryOf[new[i].stage]
    <2>1. CASE i = n + 1
        BY <1>1, <1>2, <1>8, <2>1 DEF Unanswered
    <2>2. CASE i = n /\ i \in 1 .. n
        <3>1. s = RecoveryOf[seen[i].stage]
            BY <1>2, <1>8, <2>2 DEF LegalBefore, n
        <3> QED
            BY <1>1, <1>2, <2>2, <3>1
    <2>3. CASE i # n /\ i \in 1 .. n
        <3>1. seen[i + 1].stage = RecoveryOf[seen[i].stage]
            BY <1>2, <1>8, <2>3 DEF LegalBefore, n
        <3>2. i + 1 \in 1 .. n /\ i # n + 1
            BY <1>2, <2>3
        <3> QED
            BY <1>2, <2>3, <3>1, <3>2
    <2> QED
        BY <1>2, <1>5, <2>1, <2>2, <2>3
<1>9. ASSUME NEW i \in DOMAIN new
      PROVE  /\ new[i].stage = "mission:contract-recovery" =>
                  /\ q \in Missions /\ i = Len(new) /\ i > 1
                  /\ new[i - 1].stage \in CandidateRole \/ new[i - 1].message \notin Plans
             /\ new[i].stage \in {"critic:recovery", "integrator:recovery"} =>
                  i > 1 /\ Unanswered(new[i - 1])
    <2>1. CASE i = n + 1
        <3>1. i - 1 = n /\ n \in 1 .. n /\ i > 1
            BY <1>2, <1>3, <2>1
        <3> QED
            BY <1>1, <1>2, <2>1, <3>1 DEF n
    <2>2. CASE i \in 1 .. n
        <3>1. seen[i].stage # "mission:contract-recovery"
            BY <1>2, <2>2, GatewayData DEF Behind, Asking
        <3>2. seen[i].stage \in {"critic:recovery", "integrator:recovery"} =>
                  i > 1 /\ Unanswered(seen[i - 1])
            BY <1>2, <2>2 DEF LegalBefore
        <3>3. i > 1 => i - 1 \in 1 .. n
            BY <1>2, <2>2
        <3> QED
            BY <1>2, <2>2, <3>1, <3>2, <3>3
    <2> QED
        BY <1>2, <1>5, <2>1, <2>2
<1>10. LegalBefore(q, new, next)
    BY <1>6, <1>7, <1>8, <1>9 DEF LegalBefore
<1> QED
    BY <1>2, <1>10 DEF new, o

\* At its end a legal story is Legal.
LEMMA ToldWhole ==
    ASSUME NEW q, NEW seen \in Seq(Observations), LegalBefore(q, seen, "trace")
    PROVE  Legal(q, seen)
<1>1. \A i \in DOMAIN seen :
        Unanswered(seen[i]) => i < Len(seen) /\ seen[i + 1].stage = RecoveryOf[seen[i].stage]
    <2> SUFFICES ASSUME NEW i \in DOMAIN seen, Unanswered(seen[i])
                 PROVE  i < Len(seen) /\ seen[i + 1].stage = RecoveryOf[seen[i].stage]
        OBVIOUS
    <2>1. RecoveryOf[seen[i].stage] # "trace"
        BY GatewayData DEF Unanswered
    <2>2. i # Len(seen) /\ seen[i + 1].stage = RecoveryOf[seen[i].stage]
        BY <2>1 DEF LegalBefore
    <2> QED
        BY <2>2
<1> QED
    BY <1>1 DEF Legal, LegalBefore

\* A turn that is over.
LEMMA OverIs ==
    ASSUME NEW a, a.request \in Request, NEW how \in {"served", "failed", "lost"}
    PROVE  /\ Over(a, how) \in TurnRec /\ TurnFits(Over(a, how))
           /\ Over(a, how).at = how /\ Over(a, how).request = a.request
<1> DEFINE b == Over(a, how)
           u == Unasked
<1>2. <<>> \in [{} -> Answer] /\ {} \in SUBSET Stage /\ <<>> \in Seq(Observations)
    OBVIOUS
<1>3. <<>> \in UNION {[S -> Answer] : S \in SUBSET Stage}
    BY <1>2
<1>1. u \in TurnRec
    BY <1>2, <1>3 DEF TurnRec, Unasked
<1>4. b \in TurnRec /\ b.at = how /\ b.request = a.request
    <2>1. b = [u EXCEPT !.at = how, !.request = a.request]
        BY DEF Over
    <2> HIDE DEF u, b
    <2> QED
        BY <1>1, <2>1 DEF TurnRec, Ends
<1> HIDE DEF b
<1>5. TurnFits(b)
    BY <1>4 DEF TurnFits, Asking
<1> QED
    BY <1>4, <1>5 DEF b

\* What the candidates said, in the order of their roles.
SaidBy(seen, calls) ==
    /\ seen \in Seq(Observations) /\ Len(seen) = Len(Roles)
    /\ \A q, next : LegalBefore(q, seen, next)
    /\ \A i \in DOMAIN seen : seen[i].stage \in CandidateRole
    /\ {seen[i].stage : i \in DOMAIN seen} = CandidateRole
    /\ \A i \in DOMAIN seen : calls[seen[i].stage] = seen[i].message
    /\ \A r \in CandidateRole : Observation(r, calls[r]) \in ToSet(seen)
LEMMA CandidatesTell ==
    ASSUME NEW calls \in [CandidateRole -> Answer], NEW seen,
           seen = [i \in DOMAIN Roles |-> Observation(Roles[i], calls[Roles[i]])]
    PROVE  SaidBy(seen, calls)
<1>1. /\ DOMAIN Roles = 1 .. Len(Roles) /\ Len(Roles) \in Nat \ {0}
      /\ \A i \in DOMAIN Roles : Roles[i] \in CandidateRole /\ Roles[i] \in Stage
    BY GatewayData
<1>2. \A i \in DOMAIN Roles : /\ seen[i] \in Observations /\ seen[i].stage = Roles[i]
                              /\ seen[i].message = calls[Roles[i]]
    BY <1>1 DEF Observation, Observations
<1>3. DOMAIN seen = 1 .. Len(Roles) /\ seen \in [1 .. Len(Roles) -> Observations]
    BY <1>1, <1>2
<1>4. seen \in Seq(Observations) /\ Len(seen) = Len(Roles)
    BY <1>1, <1>3
<1>5. \A i \in DOMAIN seen : seen[i].stage \in CandidateRole
    BY <1>1, <1>2, <1>3
<1>6. {seen[i].stage : i \in DOMAIN seen} = CandidateRole
    <2>1. {seen[i].stage : i \in DOMAIN seen} \subseteq CandidateRole
        BY <1>5
    <2>2. ASSUME NEW r \in CandidateRole
          PROVE  \E i \in DOMAIN seen : seen[i].stage = r
        <3>1. PICK i \in DOMAIN Roles : r = Roles[i]
            BY GatewayData
        <3> QED
            BY <1>1, <1>2, <1>3, <3>1
    <2> QED
        BY <2>1, <2>2
<1>7. \A i \in DOMAIN seen : calls[seen[i].stage] = seen[i].message
    BY <1>1, <1>2, <1>3
<1>8. \A r \in CandidateRole : Observation(r, calls[r]) \in ToSet(seen)
    <2> SUFFICES ASSUME NEW r \in CandidateRole
                 PROVE  Observation(r, calls[r]) \in ToSet(seen)
        OBVIOUS
    <2>1. PICK i \in DOMAIN Roles : r = Roles[i]
        BY GatewayData
    <2>2. seen[i] = Observation(r, calls[r])
        BY <2>1
    <2> QED
        BY <1>1, <1>3, <2>2 DEF ToSet
<1>9. ASSUME NEW q, NEW next
      PROVE  LegalBefore(q, seen, next)
    <2>1. \A i \in DOMAIN seen : ~Unanswered(seen[i])
        BY <1>5, GatewayData DEF Unanswered
    <2>2. \A i, j \in DOMAIN seen : seen[i].stage = seen[j].stage => i = j
        BY <1>1, <1>2, <1>3, GatewayData
    <2>3. \A i \in DOMAIN seen :
              seen[i].stage \notin {"mission:contract-recovery", "critic:recovery", "integrator:recovery"}
        BY <1>5, GatewayData
    <2> QED
        BY <1>1, <1>2, <1>3, <1>4, <2>1, <2>2, <2>3 DEF LegalBefore
<1> QED
    BY <1>4, <1>5, <1>6, <1>7, <1>8, <1>9 DEF SaidBy

\* The compiled input of a call.
LEMMA InputIs ==
    ASSUME NEW a \in TurnRec, a.request \in Request, NEW stage \in Stage,
           \/ CandidateRole \subseteq DOMAIN a.calls
           \/ stage = "mission:contract-recovery",
           stage \in {"integrator", "integrator:recovery"} => "critic" \in DOMAIN a.calls,
           stage = "mission:contract-recovery" => a.answer \in Answer
    PROVE  Input(a, stage) \in Inputs /\ Input(a, stage).stage = stage
<1> DEFINE quotes == Input(a, stage).quotes
<1>0. PICK S \in SUBSET Stage : a.calls \in [S -> Answer]
    BY DEF TurnRec
<1>1. CandidateRole \subseteq DOMAIN a.calls => Board(a) \in Seq(Answer)
    <2> SUFFICES ASSUME CandidateRole \subseteq DOMAIN a.calls
                 PROVE  Board(a) \in Seq(Answer)
        OBVIOUS
    <2>1. \A i \in DOMAIN Roles : a.calls[Roles[i]] \in Answer
        BY <1>0, GatewayData
    <2>2. DOMAIN Roles = 1 .. Len(Roles) /\ Len(Roles) \in Nat
        BY GatewayData
    <2>3. Board(a) \in [1 .. Len(Roles) -> Answer]
        BY <2>1, <2>2 DEF Board
    <2> QED
        BY <2>2, <2>3
<1>2. "critic" \in DOMAIN a.calls => Critique(a) \in Answer
    BY <1>0 DEF Critique
<1>3. quotes \in Seq(Answer)
    <2>1. CASE stage \in CandidateRole
        <3>1. quotes = <<>>
            BY <2>1, GatewayData DEF Input
        <3> QED
            BY <3>1
    <2>2. CASE stage \in {"critic", "critic:recovery"}
        <3>1. quotes = Board(a)
            BY <2>2, GatewayData DEF Input
        <3> QED
            BY <1>1, <2>2, <3>1
    <2>3. CASE stage \in {"integrator", "integrator:recovery"}
        <3>1. quotes = Append(Board(a), Critique(a))
            BY <2>3, GatewayData DEF Input
        <3>2. Board(a) \in Seq(Answer) /\ Critique(a) \in Answer
            BY <1>1, <1>2, <2>3
        <3> QED
            BY <3>1, <3>2
    <2>4. CASE stage = "mission:contract-recovery"
        <3>1. quotes = <<a.answer>>
            BY <2>4, GatewayData DEF Input
        <3> HIDE DEF quotes
        <3>2. <<a.answer>> \in Seq(Answer)
            BY <2>4
        <3> QED
            BY <3>1, <3>2
    <2> QED
        BY <2>1, <2>2, <2>3, <2>4 DEF Stage, Corrections
<1>4. Input(a, stage) = [request |-> a.request, stage |-> stage, quotes |-> quotes]
    BY DEF Input
<1> HIDE DEF quotes
<1> QED
    BY <1>3, <1>4 DEF Inputs

\* A complete answer that is chosen is what the turn serves, or the Mission asks
\* once more.
Serves(a, stage) ==
    /\ a.request \in Request /\ a.calls[stage] \in Complete
    /\ CandidateRole \subseteq DOMAIN a.calls
    /\ stage \notin CandidateRole => "critic" \in DOMAIN a.calls
    /\ LegalBefore(a.request, a.stages, "trace")
    /\ LegalBefore(a.request, a.stages, "mission:contract-recovery")
    /\ \A i \in DOMAIN a.stages : a.stages[i].stage \in Stage \ {"mission:contract-recovery"}
    /\ DOMAIN a.calls = {a.stages[i].stage : i \in DOMAIN a.stages}
    /\ \A i \in DOMAIN a.stages : a.calls[a.stages[i].stage] = a.stages[i].message
    /\ IF stage \in CandidateRole
       THEN /\ Observation(stage, a.calls[stage]) \in ToSet(a.stages)
            /\ a.stages[Len(a.stages)].stage \in CandidateRole
       ELSE Observation(stage, a.calls[stage]) = Last(a.stages)
    /\ (\E j \in DOMAIN a.stages : a.stages[j].stage \in Corrections)
          <=> \/ stage \in Corrections
              \/ \E j \in DOMAIN a.stages : a.stages[j].stage = "critic:recovery"
LEMMA ChosenFits ==
    ASSUME NEW a \in TurnRec, NEW stage \in CandidateRole \cup {"integrator", "integrator:recovery"},
           Serves(a, stage)
    PROVE  /\ Chosen(a, stage) \in TurnRec /\ TurnFits(Chosen(a, stage))
           /\ Chosen(a, stage).at \in {"mission:contract-recovery", "trace"}
           /\ Chosen(a, stage).request = a.request
<1> DEFINE b == Chosen(a, stage)
           input == Input(a, stage)
           answer == a.calls[stage]
           at == IF a.request \in Missions /\ answer \notin Plans
                 THEN "mission:contract-recovery" ELSE "trace"
<1> USE DEF Serves
<1>1. answer \in Answer /\ answer \in Complete
    BY GatewayAssumption
<1>2. input \in Inputs /\ input.stage = stage
    <2>1. stage \in Stage /\ stage # "mission:contract-recovery"
        BY GatewayData DEF Stage, Corrections
    <2>2. stage \in {"integrator", "integrator:recovery"} => stage \notin CandidateRole
        BY GatewayData
    <2> QED
        BY <2>1, <2>2, InputIs
<1>3. b = [a EXCEPT !.answer = answer, !.input = input, !.at = at]
    BY DEF Chosen
<1>4. at \in {"mission:contract-recovery", "trace"}
    OBVIOUS
<1> HIDE DEF input, b
<1>5. /\ b \in TurnRec /\ b.at = at /\ b.answer = answer /\ b.input = input
      /\ b.request = a.request /\ b.calls = a.calls /\ b.stages = a.stages
    <2> HIDE DEF at, answer
    <2>1. at \in {"unasked"} \cup Running \cup Ends
        BY <1>4 DEF Running, Asking
    <2> QED
        BY <1>1, <1>2, <1>3, <2>1 DEF TurnRec
<1>6. Attributes(b)
    BY <1>1, <1>2, <1>5 DEF Attributes
<1>7. CASE at = "mission:contract-recovery"
    <2>1. a.request \in Missions /\ answer \notin Plans
        BY <1>7
    <2>2. Told(b)
        BY <1>5, <1>7, GatewayData DEF Told, Behind
    <2>3. Planless(b)
        <3>1. stage \notin Corrections \/ stage = "integrator:recovery"
            BY GatewayData DEF Corrections
        <3>2. b.stages[Len(b.stages)].stage \in CandidateRole \/ b.stages[Len(b.stages)].message \notin Plans
            BY <1>5, <2>1 DEF Last, Observation
        <3> QED
            BY <1>2, <1>5, <2>1, <3>1, <3>2 DEF Planless
    <2> QED
        BY <1>5, <1>6, <1>7, <2>2, <2>3 DEF TurnFits, b
<1>8. CASE at = "trace"
    <2>1. answer \in IF a.request \in Missions THEN Plans ELSE Complete
        BY <1>1, <1>8
    <2>2. a.stages \in Seq(Observations)
        BY DEF TurnRec
    <2>3. Final(b)
        BY <1>5, <2>1, <2>2, ToldWhole DEF Final
    <2> QED
        BY <1>5, <1>6, <1>8, <2>3 DEF TurnFits, Asking, b
<1> QED
    BY <1>4, <1>5, <1>7, <1>8 DEF b

\* A call is added to those that returned.
IsAdded(new, calls, stage, m) ==
    /\ DOMAIN new = DOMAIN calls \cup {stage}
    /\ new \in UNION {[X -> Answer] : X \in SUBSET Stage}
    /\ new[stage] = m
    /\ \A s \in DOMAIN calls : s # stage => new[s] = calls[s]
LEMMA CallAdded ==
    ASSUME NEW calls \in UNION {[X -> Answer] : X \in SUBSET Stage}, NEW stage \in Stage, NEW m \in Answer
    PROVE  IsAdded(Extend(calls, stage, m), calls, stage, m)
<1> DEFINE new == Extend(calls, stage, m)
<1>0. PICK S \in SUBSET Stage : calls \in [S -> Answer]
    OBVIOUS
<1>1. new \in [S \cup {stage} -> Answer] /\ DOMAIN new = DOMAIN calls \cup {stage}
    BY <1>0 DEF Extend
<1>2. S \cup {stage} \in SUBSET Stage
    OBVIOUS
<1>3. new[stage] = m /\ \A s \in DOMAIN calls : s # stage => new[s] = calls[s]
    BY <1>0, <1>1 DEF Extend
<1> HIDE DEF new
<1>4. IsAdded(new, calls, stage, m)
    BY <1>1, <1>2, <1>3 DEF IsAdded
<1> QED
    BY <1>4 DEF new

\* The answer of a stage after the candidates is observed.
Heard(b, s, m) ==
    /\ s \in DOMAIN b.calls /\ b.calls[s] = m
    /\ CandidateRole \subseteq DOMAIN b.calls
    /\ Last(b.stages) = Observation(s, m) /\ b.stages[Len(b.stages)] = Last(b.stages)
    /\ DOMAIN b.calls = {b.stages[i].stage : i \in DOMAIN b.stages}
    /\ \A i \in DOMAIN b.stages : b.calls[b.stages[i].stage] = b.stages[i].message
    /\ \A i \in DOMAIN b.stages : b.stages[i].stage \in Behind(s) \cup {s}
    /\ \A next : Follows(s, m, next) => LegalBefore(b.request, b.stages, next)
LEMMA ObservedTells ==
    ASSUME NEW a \in TurnRec, TurnFits(a), a.at \in Asking \ {"candidates"}, NEW m \in Answer,
           NEW b, b = Observed(a, m)
    PROVE  /\ b \in TurnRec /\ b.at = a.at /\ b.request = a.request /\ b.request \in Request
           /\ b.answer = a.answer /\ b.input = a.input
           /\ DOMAIN b.calls = DOMAIN a.calls \cup {a.at}
           /\ Heard(b, a.at, m)
<1> DEFINE o == Observation(a.at, m)
           calls == Extend(a.calls, a.at, m)
           seen == Append(a.stages, o)
<1>1. Told(a) /\ a.request \in Request /\ a.at \in Stage
    BY DEF TurnFits, Asking, Stage, Corrections
<1>3. /\ DOMAIN calls = DOMAIN a.calls \cup {a.at}
      /\ calls \in UNION {[X -> Answer] : X \in SUBSET Stage}
      /\ calls[a.at] = m /\ \A s \in DOMAIN a.calls : s # a.at => calls[s] = a.calls[s]
    <2>1. IsAdded(calls, a.calls, a.at, m)
        BY <1>1, CallAdded DEF TurnRec
    <2> QED
        BY <2>1 DEF IsAdded
<1>4. a.stages \in Seq(Observations) /\ o \in Observations /\ o.stage = a.at /\ o.message = m
    BY <1>1 DEF TurnRec, Observation, Observations
<1> DEFINE n == Len(a.stages)
<1>5. b = [a EXCEPT !.calls = calls, !.stages = seen]
    BY DEF Observed
<1> HIDE DEF calls, o
<1>6. /\ seen \in Seq(Observations) /\ Len(seen) = n + 1 /\ n \in Nat
      /\ DOMAIN seen = 1 .. n + 1 /\ DOMAIN a.stages = 1 .. n
      /\ \A i \in 1 .. n : seen[i] = a.stages[i]
      /\ seen[n + 1] = o
    BY <1>4
<1> HIDE DEF seen, n
<1>7. /\ b \in TurnRec /\ b.at = a.at /\ b.request = a.request /\ b.answer = a.answer /\ b.input = a.input
      /\ b.calls = calls /\ b.stages = seen
    BY <1>3, <1>5, <1>6 DEF TurnRec
<1>8. ASSUME NEW next, Follows(a.at, m, next)
      PROVE  LegalBefore(a.request, seen, next)
    <2>1. MayAsk(a.request, a.stages, a.at)
        BY <1>1 DEF MayAsk, Told, TurnFits, Planless
    <2>2. LegalBefore(a.request, Append(a.stages, Observation(a.at, m)), next)
        BY <1>4, <1>8, <2>1, OneMoreStage
    <2> QED
        BY <2>2 DEF seen, o
<1>9. \A i \in 1 .. n + 1 : i \in 1 .. n \/ i = n + 1
    BY <1>6
<1>10. n + 1 \in 1 .. n + 1 /\ \A i \in 1 .. n : i \in 1 .. n + 1
    BY <1>6
<1>11. DOMAIN a.calls = {a.stages[i].stage : i \in DOMAIN a.stages}
       /\ (\A i \in DOMAIN a.stages : a.calls[a.stages[i].stage] = a.stages[i].message)
       /\ (\A i \in DOMAIN a.stages : a.stages[i].stage \in Behind(a.at))
    BY <1>1 DEF Told
<1>12. a.at \notin Behind(a.at)
    BY GatewayData DEF Behind, Asking
<1>13. \A i \in DOMAIN seen : seen[i].stage \in Behind(a.at) \cup {a.at}
    BY <1>4, <1>6, <1>9, <1>11
<1>14. DOMAIN calls = {seen[i].stage : i \in DOMAIN seen}
    <2>1. ASSUME NEW s \in DOMAIN calls
          PROVE  \E i \in DOMAIN seen : seen[i].stage = s
        BY <1>3, <1>4, <1>6, <1>10, <1>11
    <2>2. \A i \in DOMAIN seen : seen[i].stage \in DOMAIN calls
        BY <1>3, <1>4, <1>6, <1>9, <1>11
    <2> QED
        BY <2>1, <2>2
<1>15. \A i \in DOMAIN seen : calls[seen[i].stage] = seen[i].message
    <2> SUFFICES ASSUME NEW i \in DOMAIN seen
                 PROVE  calls[seen[i].stage] = seen[i].message
        OBVIOUS
    <2>1. CASE i \in 1 .. n
        <3>1. a.stages[i].stage # a.at /\ a.stages[i].stage \in DOMAIN a.calls
            BY <1>6, <1>11, <1>12, <2>1
        <3> QED
            BY <1>3, <1>6, <1>11, <2>1, <3>1
    <2>2. CASE i = n + 1
        BY <1>3, <1>4, <1>6, <2>2
    <2> QED
        BY <1>6, <1>9, <2>1, <2>2
<1>16. CandidateRole \subseteq DOMAIN calls
    <2> SUFFICES ASSUME NEW r \in CandidateRole
                 PROVE  r \in DOMAIN a.calls
        BY <1>3
    <2>1. PICK i \in DOMAIN Roles : Roles[i] = r
        BY GatewayData
    <2>2. i \in DOMAIN a.stages /\ a.stages[i].stage = r
        BY <1>1, <1>6, <2>1, GatewayData DEF Told, LegalBefore, n
    <2> QED
        BY <1>11, <2>2
<1>17. Last(seen) = o /\ seen[Len(seen)] = Last(seen)
    BY <1>6 DEF Last
<1>18. Heard(b, a.at, m)
    <2>1. Last(b.stages) = Observation(a.at, m) /\ b.stages[Len(b.stages)] = Last(b.stages)
        BY <1>7, <1>17 DEF o
    <2>2. \A next : Follows(a.at, m, next) => LegalBefore(b.request, b.stages, next)
        BY <1>7, <1>8
    <2>3. a.at \in DOMAIN b.calls /\ b.calls[a.at] = m /\ CandidateRole \subseteq DOMAIN b.calls
        BY <1>3, <1>7, <1>16
    <2>4. DOMAIN b.calls = {b.stages[i].stage : i \in DOMAIN b.stages}
        BY <1>7, <1>14
    <2>5. \A i \in DOMAIN b.stages : b.calls[b.stages[i].stage] = b.stages[i].message
        BY <1>7, <1>15
    <2>6. \A i \in DOMAIN b.stages : b.stages[i].stage \in Behind(a.at) \cup {a.at}
        BY <1>7, <1>13
    <2> QED
        BY <2>1, <2>2, <2>3, <2>4, <2>5, <2>6, Zenon DEF Heard
<1> QED
    BY <1>1, <1>3, <1>7, <1>18

LEMMA CriticizedFits ==
    ASSUME NEW a \in TurnRec, TurnFits(a), a.at \in {"critic", "critic:recovery"}, NEW m \in Answer,
           NEW b, b = Observed(a, m), NEW c, c = Criticized(b)
    PROVE  c \in TurnRec /\ TurnFits(c) /\ c.at \in Asking \cup {"failed"} /\ c.request = a.request
<1>1. a.at \in Asking \ {"candidates"}
    BY DEF Asking
<1>0. Heard(b, a.at, m) /\ b \in TurnRec /\ b.at = a.at /\ b.request = a.request /\ b.request \in Request
    BY <1>1, ObservedTells
<1>2. /\ b \in TurnRec /\ b.at = a.at /\ b.request = a.request /\ b.request \in Request
      /\ b.calls[a.at] = m
      /\ Last(b.stages) = Observation(a.at, m) /\ b.stages[Len(b.stages)] = Last(b.stages)
      /\ DOMAIN b.calls = {b.stages[i].stage : i \in DOMAIN b.stages}
      /\ \A i \in DOMAIN b.stages : b.calls[b.stages[i].stage] = b.stages[i].message
      /\ \A i \in DOMAIN b.stages : b.stages[i].stage \in Behind(a.at) \cup {a.at}
      /\ \A next : Follows(a.at, m, next) => LegalBefore(b.request, b.stages, next)
    BY <1>0 DEF Heard
<1>3. ~Direct(a.request) /\ "critic" \in DOMAIN b.calls
    BY <1>1, ObservedTells DEF TurnFits
<1>4. ASSUME NEW next \in {"integrator", "critic:recovery"}, c = [b EXCEPT !.at = next],
             a.at = "critic" /\ m \notin Complete => next = "critic:recovery",
             next = "critic:recovery" => a.at = "critic" /\ m \notin Complete
      PROVE  c \in TurnRec /\ TurnFits(c) /\ c.at \in Asking /\ c.request = a.request
    <2>1. /\ c \in TurnRec /\ c.at = next /\ c.request = b.request /\ c.stages = b.stages /\ c.calls = b.calls
        BY <1>2, <1>4 DEF TurnRec, Running, Asking
    <2>2. LegalBefore(b.request, b.stages, next)
        <3>1. Follows(a.at, m, next)
            BY <1>4, GatewayData DEF Follows
        <3> QED
            BY <1>2, <3>1
    <2>3. \A i \in DOMAIN b.stages : b.stages[i].stage \in Behind(next)
        BY <1>2, <1>4 DEF Behind
    <2>4. next = "critic:recovery" => Unanswered(b.stages[Len(b.stages)])
        BY <1>2, <1>4 DEF Unanswered, Observation
    <2>5. Told(c)
        BY <1>2, <2>1, <2>2, <2>3, <2>4 DEF Told
    <2> QED
        BY <1>2, <1>3, <2>1, <2>5 DEF TurnFits, Asking
<1>5. CASE m \in Complete
    BY <1>2, <1>4, <1>5 DEF Criticized
<1>6. CASE m \notin Complete /\ a.at = "critic"
    BY <1>2, <1>4, <1>6 DEF Criticized
<1>7. CASE m \notin Complete /\ a.at # "critic"
    <2>1. c = Over(b, "failed")
        BY <1>2, <1>7 DEF Criticized, Refused
    <2> QED
        BY <1>2, <2>1, OverIs
<1> QED
    BY <1>5, <1>6, <1>7

LEMMA IntegratedFits ==
    ASSUME NEW a \in TurnRec, TurnFits(a), a.at \in {"integrator", "integrator:recovery"}, NEW m \in Answer,
           NEW b, b = Observed(a, m), NEW c, c = Integrated(b)
    PROVE  c \in TurnRec /\ TurnFits(c) /\ c.at \in Asking \cup {"trace", "failed"} /\ c.request = a.request
<1>1. a.at \in Asking \ {"candidates"}
    BY DEF Asking
<1>0. Heard(b, a.at, m) /\ b \in TurnRec /\ b.at = a.at /\ b.request = a.request /\ b.request \in Request
    BY <1>1, ObservedTells
<1>2. /\ b \in TurnRec /\ b.at = a.at /\ b.request = a.request /\ b.request \in Request
      /\ a.at \in DOMAIN b.calls /\ b.calls[a.at] = m
      /\ CandidateRole \subseteq DOMAIN b.calls
      /\ Last(b.stages) = Observation(a.at, m) /\ b.stages[Len(b.stages)] = Last(b.stages)
      /\ DOMAIN b.calls = {b.stages[i].stage : i \in DOMAIN b.stages}
      /\ \A i \in DOMAIN b.stages : b.calls[b.stages[i].stage] = b.stages[i].message
      /\ \A i \in DOMAIN b.stages : b.stages[i].stage \in Behind(a.at) \cup {a.at}
      /\ \A next : Follows(a.at, m, next) => LegalBefore(b.request, b.stages, next)
    BY <1>0 DEF Heard
<1>3. ~Direct(a.request) /\ "critic" \in DOMAIN b.calls
    BY <1>1, ObservedTells DEF TurnFits
<1>4. CASE m \in Complete
    <2>1. c = Chosen(b, a.at)
        BY <1>2, <1>4 DEF Integrated
    <2>2. LegalBefore(b.request, b.stages, "trace")
          /\ LegalBefore(b.request, b.stages, "mission:contract-recovery")
        BY <1>2, <1>4 DEF Follows
    <2>3. \A i \in DOMAIN b.stages : b.stages[i].stage \in Stage \ {"mission:contract-recovery"}
        BY <1>2, GatewayData DEF Behind, Stage, Corrections
    <2>4. \A i \in DOMAIN b.stages :
              b.stages[i].stage \in Corrections =>
                 b.stages[i].stage = "critic:recovery"
                 \/ (b.stages[i].stage = "integrator:recovery" /\ a.at = "integrator:recovery")
        BY <1>2, GatewayData DEF Behind, Corrections
    <2>5. a.at \in Corrections => \E j \in DOMAIN b.stages : b.stages[j].stage = a.at
        BY <1>2
    <2>6. (\E j \in DOMAIN b.stages : b.stages[j].stage \in Corrections)
              <=> \/ a.at \in Corrections
                  \/ \E j \in DOMAIN b.stages : b.stages[j].stage = "critic:recovery"
        BY <2>4, <2>5 DEF Corrections
    <2>7. a.at \notin CandidateRole /\ a.at \in CandidateRole \cup {"integrator", "integrator:recovery"}
        BY GatewayData
    <2>8. Serves(b, a.at)
        BY <1>2, <1>3, <1>4, <2>2, <2>3, <2>6, <2>7 DEF Serves
    <2>9. c \in TurnRec /\ TurnFits(c) /\ c.at \in {"mission:contract-recovery", "trace"} /\ c.request = b.request
        BY <1>0, <2>1, <2>7, <2>8, ChosenFits
    <2> QED
        BY <1>0, <2>9 DEF Asking
<1>5. CASE m \notin Complete /\ a.at = "integrator"
    <2>1. c = [b EXCEPT !.at = "integrator:recovery"]
        BY <1>2, <1>5 DEF Integrated
    <2>2. /\ c \in TurnRec /\ c.at = "integrator:recovery" /\ c.request = b.request
          /\ c.stages = b.stages /\ c.calls = b.calls
        BY <1>2, <2>1 DEF TurnRec, Running, Asking
    <2>3. LegalBefore(b.request, b.stages, "integrator:recovery")
        BY <1>2, <1>5, GatewayData DEF Follows
    <2>4. \A i \in DOMAIN b.stages : b.stages[i].stage \in Behind("integrator:recovery")
        BY <1>2, <1>5 DEF Behind
    <2>5. Unanswered(b.stages[Len(b.stages)])
        BY <1>2, <1>5 DEF Unanswered, Observation
    <2>6. Told(c)
        BY <1>2, <2>2, <2>3, <2>4, <2>5 DEF Told
    <2> QED
        BY <1>2, <1>3, <2>2, <2>6 DEF TurnFits, Asking
<1>6. CASE m \notin Complete /\ a.at # "integrator"
    <2>1. c = Over(b, "failed")
        BY <1>2, <1>6 DEF Integrated, Refused
    <2> QED
        BY <1>2, <2>1, OverIs
<1> QED
    BY <1>4, <1>5, <1>6

LEMMA RecoveredFits ==
    ASSUME NEW a \in TurnRec, TurnFits(a), a.at = "mission:contract-recovery", NEW m \in Answer,
           NEW b, b = Observed(a, m), NEW c, c = Recovered(b)
    PROVE  c \in TurnRec /\ TurnFits(c) /\ c.at \in {"trace", "failed"} /\ c.request = a.request
<1>1. a.at \in Asking \ {"candidates"}
    BY DEF Asking
<1>2. /\ b \in TurnRec /\ b.at = a.at /\ b.request = a.request /\ b.request \in Request
      /\ b.answer = a.answer /\ Heard(b, a.at, m)
    BY <1>1, ObservedTells
<1>6. /\ b.calls[a.at] = m
      /\ CandidateRole \subseteq DOMAIN b.calls
      /\ Last(b.stages) = Observation(a.at, m) /\ b.stages[Len(b.stages)] = Last(b.stages)
      /\ LegalBefore(b.request, b.stages, "trace")
    BY <1>2 DEF Heard, Follows
<1>3. a.request \in Missions /\ a.answer \in Answer
    BY DEF TurnFits, Planless, Attributes
<1>4. CASE m \in Plans
    <2> DEFINE input == Input(b, b.at)
    <2>1. input \in Inputs /\ input.stage = "mission:contract-recovery"
        BY <1>2, <1>6, <1>3, InputIs DEF Stage, Corrections
    <2>2. c = [b EXCEPT !.answer = m, !.input = input, !.at = "trace"]
        BY <1>2, <1>6, <1>4 DEF Recovered
    <2> HIDE DEF input
    <2>3. /\ c \in TurnRec /\ c.at = "trace" /\ c.request = b.request /\ c.stages = b.stages
          /\ c.answer = m /\ c.input = input
        BY <1>2, <1>6, <2>1, <2>2 DEF TurnRec, Running
    <2>4. LegalBefore(b.request, b.stages, "trace")
        BY <1>2, <1>6
    <2>5. Legal(b.request, b.stages)
        BY <1>2, <1>6, <2>4, ToldWhole DEF TurnRec
    <2>6. Attributes(c)
        <3>1. c.input.stage \notin CandidateRole /\ c.input.stage \in Corrections
            BY <2>1, <2>3, GatewayData DEF Corrections
        <3>2. Observation(c.input.stage, c.answer) = Last(c.stages)
            BY <1>2, <1>6, <2>1, <2>3
        <3>3. \E j \in DOMAIN c.stages : c.stages[j].stage \in Corrections
            <4>1. b.stages \in Seq(Observations) /\ Len(b.stages) >= Len(Roles)
                BY <1>2, <1>6, <2>4 DEF TurnRec, LegalBefore
            <4>2. Len(b.stages) \in DOMAIN b.stages
                BY <4>1, GatewayData
            <4> QED
                BY <1>2, <1>6, <2>3, <4>2 DEF Observation, Corrections
        <3> QED
            BY <2>1, <2>3, <3>1, <3>2, <3>3 DEF Attributes
    <2>7. Final(c)
        BY <1>2, <1>6, <1>3, <1>4, <2>3, <2>5 DEF Final
    <2> QED
        BY <1>2, <1>6, <2>3, <2>6, <2>7 DEF TurnFits, Asking
<1>5. CASE m \notin Plans
    <2>1. c = Over(b, "failed")
        BY <1>2, <1>6, <1>5 DEF Recovered, Refused
    <2> QED
        BY <1>2, <1>6, <2>1, OverIs
<1> QED
    BY <1>4, <1>5

\* Every candidate has answered.
LEMMA DeliberatedFits ==
    ASSUME NEW a \in TurnRec, a.request \in Request, a.calls \in [CandidateRole -> Answer],
           NEW c, c = Deliberated(a)
    PROVE  c \in TurnRec /\ TurnFits(c) /\ c.at \in Asking \cup {"trace", "failed"} /\ c.request = a.request
<1> DEFINE seen == [i \in DOMAIN Roles |-> Observation(Roles[i], a.calls[Roles[i]])]
           b == [a EXCEPT !.stages = seen]
<1>0. SaidBy(seen, a.calls)
    BY CandidatesTell
<1>1. /\ seen \in Seq(Observations) /\ Len(seen) = Len(Roles)
        /\ (\A next : LegalBefore(a.request, seen, next))
        /\ (\A i \in DOMAIN seen : seen[i].stage \in CandidateRole)
        /\ {seen[i].stage : i \in DOMAIN seen} = CandidateRole
        /\ (\A i \in DOMAIN seen : a.calls[seen[i].stage] = seen[i].message)
        /\ \A r \in CandidateRole : Observation(r, a.calls[r]) \in ToSet(seen)
    BY <1>0 DEF SaidBy
<1>2. c = IF Direct(a.request) THEN CompletedCandidate(b) ELSE [b EXCEPT !.at = "critic"]
    <2>1. b.request = a.request
        BY DEF TurnRec
    <2> QED
        BY <2>1 DEF Deliberated
<1> HIDE DEF seen
<1>3. b \in TurnRec /\ b.request = a.request /\ b.calls = a.calls /\ b.stages = seen
    BY <1>1 DEF TurnRec
<1> HIDE DEF b
<1>4. CASE ~Direct(a.request)
    <2>1. /\ c \in TurnRec /\ c.at = "critic" /\ c.request = a.request
          /\ c.calls = a.calls /\ c.stages = seen
        BY <1>2, <1>3, <1>4 DEF TurnRec, Running, Asking
    <2>2. Told(c)
        <3>1. /\ LegalBefore(c.request, c.stages, c.at)
              /\ \A i \in DOMAIN c.stages : c.stages[i].stage \in Behind(c.at)
            BY <1>1, <2>1 DEF Behind
        <3>2. DOMAIN c.calls = CandidateRole
            BY <2>1
        <3>3. DOMAIN c.calls = {c.stages[i].stage : i \in DOMAIN c.stages}
            BY <1>1, <2>1, <3>2
        <3>4. \A i \in DOMAIN c.stages : c.calls[c.stages[i].stage] = c.stages[i].message
            BY <1>1, <2>1
        <3> QED
            BY <2>1, <3>1, <3>3, <3>4 DEF Told
    <2> QED
        BY <1>4, <2>1, <2>2 DEF TurnFits, Asking
<1>5. CASE Direct(a.request)
    <2> DEFINE complete == {i \in DOMAIN Roles : b.calls[Roles[i]] \in Complete}
    <2>1. CASE complete = {}
        <3>1. c = Over(b, "failed")
            BY <1>2, <1>5, <2>1 DEF CompletedCandidate, Refused
        <3> QED
            BY <1>3, <3>1, OverIs
    <2>2. CASE complete # {}
        <3>1. Min(complete) \in complete
            <4>1. complete \subseteq Nat
                BY GatewayData
            <4> HIDE DEF complete
            <4>2. \E i \in complete : \A j \in complete : i <= j
                BY <2>2, <4>1, LeastNumber
            <4> QED
                BY <4>2 DEF Min
        <3> DEFINE r == Roles[Min(complete)]
        <3>2. r \in CandidateRole /\ b.calls[r] \in Complete
            BY <3>1, GatewayData
        <3>3. c = Chosen(b, r)
            BY <1>2, <1>5, <2>2 DEF CompletedCandidate
        <3> HIDE DEF r, complete
        <3>4. seen[Len(seen)].stage \in CandidateRole
            <4>1. Len(seen) \in DOMAIN seen
                BY <1>1, GatewayData
            <4> QED
                BY <1>1, <4>1
        <3>5. \A i \in DOMAIN seen : seen[i].stage \in Stage \ {"mission:contract-recovery"}
              /\ seen[i].stage \notin Corrections
            BY <1>1, GatewayData DEF Corrections
        <3>6. r \notin Corrections
            BY <3>2, GatewayData DEF Corrections
        <3>7. (\E j \in DOMAIN b.stages : b.stages[j].stage \in Corrections)
                <=> \/ r \in Corrections
                    \/ \E j \in DOMAIN b.stages : b.stages[j].stage = "critic:recovery"
            BY <1>3, <3>5, <3>6 DEF Corrections
        <3>8. DOMAIN b.calls = CandidateRole
            BY <1>3
        <3>9. Serves(b, r)
            <4>1. b.request \in Request /\ CandidateRole \subseteq DOMAIN b.calls
                BY <1>3, <3>8
            <4>2. /\ LegalBefore(b.request, b.stages, "trace")
                  /\ LegalBefore(b.request, b.stages, "mission:contract-recovery")
                BY <1>1, <1>3
            <4>3. /\ \A i \in DOMAIN b.stages : b.stages[i].stage \in Stage \ {"mission:contract-recovery"}
                  /\ b.stages[Len(b.stages)].stage \in CandidateRole
                BY <1>3, <3>4, <3>5
            <4>4. DOMAIN b.calls = {b.stages[i].stage : i \in DOMAIN b.stages}
                BY <1>1, <1>3, <3>8
            <4>5. /\ \A i \in DOMAIN b.stages : b.calls[b.stages[i].stage] = b.stages[i].message
                  /\ Observation(r, b.calls[r]) \in ToSet(b.stages)
                BY <1>1, <1>3, <3>2
            <4> QED
                BY <3>2, <3>7, <4>1, <4>2, <4>3, <4>4, <4>5 DEF Serves
        <3>10. c \in TurnRec /\ TurnFits(c) /\ c.at \in {"mission:contract-recovery", "trace"}
               /\ c.request = a.request
            BY <1>3, <3>2, <3>3, <3>9, ChosenFits
        <3> QED
            BY <3>10 DEF Asking
    <2> QED
        BY <2>1, <2>2
<1> QED
    BY <1>4, <1>5

-----------------------------------------------------------------------------
(* The files, and what they say of a turn.                                   *)

LogFits(file, S) ==
    /\ file \in [lines : Seq(S \cup {Torn}), ended : BOOLEAN]
    /\ ~file.ended => ~Intact(file)

\* The account of a turn as its trace has it.
LineOf(t, a) ==
    [turn |-> t, request |-> a.request, stages |-> a.stages, input |-> a.input,
     corrections |-> Cardinality({i \in DOMAIN a.stages : a.stages[i].stage \in Corrections})]

\* What ServedIsAccounted says of one turn.
Accounts(trace, reply) ==
    LET served == Observation(trace.input.stage, reply.answer)
    IN  /\ trace.input = reply.input
        /\ trace.corrections = reply.corrections
        /\ Legal(trace.request, trace.stages)
        /\ IF trace.input.stage \in CandidateRole
           THEN served \in ToSet(trace.stages)
           ELSE served = Last(trace.stages)
        /\ trace.corrections = 0 <=>
             trace.input.stage \notin Corrections
               /\ \A j \in DOMAIN trace.stages :
                    trace.stages[j].stage # "critic:recovery"
Accounted(t, a, file) ==
    /\ a.reply.answer \in IF a.request \in Missions THEN Plans ELSE Complete
    /\ Intact(file) =>
         \E i \in DOMAIN file.lines : Of(file, t) = {i} /\ Accounts(file.lines[i], a.reply)

Traced(t, a, file) ==
    /\ a.at \in {"unasked"} \cup Asking \cup {"trace"} => Of(file, t) = {}
    /\ a.at = "reply" /\ Intact(file) =>
          \E i \in DOMAIN file.lines : Of(file, t) = {i} /\ file.lines[i] = LineOf(t, a)
    /\ a.at = "served" => a.reply \in Replies /\ Accounted(t, a, file)

\* A shadow record agrees with its turn.
RecordFits(r, a, file) ==
    /\ a.at \in {"reply", "served", "lost"} /\ a.request = r.request
    /\ a.at = "reply" => r.input = a.input /\ r.primary = a.answer
    /\ a.at = "served" => r.input = a.reply.input /\ r.primary = a.reply.answer
    /\ Intact(file) => \E j \in Of(file, r.turn) : file.lines[j].input = r.input

AttemptFits(x, a) ==
    a.at = "served" /\ a.request = x.request /\ a.reply.input = x.input

TurnsFit ==
    /\ turns \in [Turn -> TurnRec]
    /\ \A t \in Turn : TurnFits(turns[t]) /\ Traced(t, turns[t], traces)
PendingFit ==
    /\ pending \subseteq ShadowLine
    /\ \A r \in pending : /\ RecordFits(r, turns[r.turn], traces)
                          /\ turns[r.turn].at \in {"reply", "served"}
                          /\ Of(shadows, r.turn) = {}
    /\ \A r, s \in pending : r.turn = s.turn => r = s
ShadowsFit ==
    \A i \in DOMAIN shadows.lines : shadows.lines[i] # Torn =>
        /\ RecordFits(shadows.lines[i], turns[shadows.lines[i].turn], traces)
        /\ Of(shadows, shadows.lines[i].turn) = {i}
AcceptedFit ==
    /\ accepted \subseteq [turn : Turn, request : Missions, input : Inputs]
    /\ \A x \in accepted : AttemptFits(x, turns[x.turn])
    /\ \A x, y \in accepted : x.request = y.request => x = y
GInv ==
    /\ TurnsFit /\ LogFits(traces, TraceLine) /\ LogFits(shadows, ShadowLine)
    /\ PendingFit /\ ShadowsFit /\ AcceptedFit
    /\ faults \in 0 .. MaxFaults /\ restarts \in 0 .. MaxRestarts

\* File g is the file with a line added, or a part of one.
Adds(file, g, line, extent, n) ==
    /\ Intact(g) => Intact(file)
    /\ n \notin DOMAIN file.lines
    /\ \A i \in DOMAIN file.lines : i \in DOMAIN g.lines /\ g.lines[i] = file.lines[i]
    /\ \A i \in DOMAIN g.lines : \/ i \in DOMAIN file.lines \/ g.lines[i] = Torn
                                 \/ i = n /\ g.lines[i] = line /\ extent = "whole"
    /\ extent = "whole" /\ Intact(g) => n \in DOMAIN g.lines /\ g.lines[n] = line

LEMMA LineIsAdded ==
    ASSUME NEW S, Torn \notin S, NEW file, LogFits(file, S), NEW line \in S, NEW extent \in Extent
    PROVE  /\ LogFits(AddLine(file, line, extent), S)
           /\ \E n : Adds(file, AddLine(file, line, extent), line, extent, n)
<1> DEFINE g == AddLine(file, line, extent)
           n == Len(file.lines) + 1
           lines == file.lines
<1>1. lines \in Seq(S \cup {Torn}) /\ file.ended \in BOOLEAN /\ (~file.ended => ~Intact(file))
      /\ file = [lines |-> lines, ended |-> file.ended]
    BY DEF LogFits
<1> HIDE DEF lines
<1>2. DOMAIN lines = 1 .. Len(lines) /\ Len(lines) \in Nat
    BY <1>1
<1>3. n \notin DOMAIN lines
    BY <1>2 DEF lines
<1>4. CASE g = file
    <2>1. extent = "whole" => ~Intact(g)
        <3>1. CASE extent = "whole"
            <4>1. g = [lines |-> IF file.ended THEN Append(file.lines, line) ELSE file.lines, ended |-> TRUE]
                BY <3>1 DEF AddLine
            <4>2. CASE file.ended
                <5>1. lines = Append(lines, line)
                    BY <1>4, <4>1, <4>2 DEF lines
                <5>2. Len(lines) = Len(lines) + 1
                    BY <1>1, <5>1
                <5> QED
                    BY <1>2, <5>2
            <4> QED
                BY <1>1, <1>4, <4>2
        <3> QED
            BY <3>1
    <2> HIDE DEF g
    <2>2. Adds(file, g, line, extent, n)
        BY <1>3, <1>4, <2>1 DEF Adds, lines
    <2> QED
        BY <1>4, <2>2 DEF g
<1>5. ASSUME NEW x \in S \cup {Torn}, file.ended, NEW ended \in BOOLEAN, ~ended => x = Torn,
             extent # "whole" => x = Torn, extent = "whole" => x = line,
             g = [lines |-> Append(lines, x), ended |-> ended]
      PROVE  LogFits(g, S) /\ Adds(file, g, line, extent, n)
    <2> DEFINE new == Append(lines, x)
    <2>1. /\ new \in Seq(S \cup {Torn}) /\ DOMAIN new = 1 .. n
          /\ \A i \in 1 .. Len(lines) : new[i] = lines[i]
          /\ new[n] = x
        BY <1>1, <1>2 DEF lines
    <2>2. g.lines = new /\ g.ended = ended /\ g \in [lines : Seq(S \cup {Torn}), ended : BOOLEAN]
        BY <1>5, <2>1
    <2> HIDE DEF new, g
    <2>3. n \in DOMAIN new /\ \A i \in DOMAIN lines : i \in DOMAIN new
        BY <1>2, <2>1 DEF lines
    <2>4. \A i \in DOMAIN new : i \in DOMAIN lines \/ i = n
        BY <1>2, <2>1 DEF lines
    <2>5. LogFits(g, S)
        BY <1>5, <2>1, <2>2, <2>3 DEF LogFits, Intact
    <2>6. Adds(file, g, line, extent, n)
        <3> HIDE DEF n
        <3>1. Intact(g) => Intact(file)
            BY <1>2, <2>1, <2>2, <2>3 DEF Intact, lines
        <3>2. \A i \in DOMAIN lines : i \in DOMAIN g.lines /\ g.lines[i] = lines[i]
            BY <1>2, <2>1, <2>2, <2>3
        <3>3. \A i \in DOMAIN g.lines : \/ i \in DOMAIN lines \/ g.lines[i] = Torn
                                        \/ i = n /\ g.lines[i] = line /\ extent = "whole"
            BY <1>5, <2>1, <2>2, <2>4
        <3>4. extent = "whole" => n \in DOMAIN g.lines /\ g.lines[n] = line
            BY <1>5, <2>1, <2>2, <2>3
        <3> QED
            BY <1>3, <3>1, <3>2, <3>3, <3>4 DEF Adds, lines
    <2> QED
        BY <2>5, <2>6
<1>6. CASE file.ended /\ extent = "part"
    <2>1. g = [lines |-> Append(lines, Torn), ended |-> FALSE]
        BY <1>6 DEF AddLine, lines
    <2>2. LogFits(g, S) /\ Adds(file, g, line, extent, n)
        BY <1>5, <1>6, <2>1
    <2> QED
        BY <2>2
<1>7. CASE file.ended /\ extent = "whole"
    <2>1. g = [lines |-> Append(lines, line), ended |-> TRUE]
        BY <1>7 DEF AddLine, lines
    <2>2. LogFits(g, S) /\ Adds(file, g, line, extent, n)
        BY <1>5, <1>7, <2>1
    <2> QED
        BY <2>2
<1>8. CASE ~file.ended /\ extent = "whole"
    <2>1. g = [lines |-> lines, ended |-> TRUE]
        BY <1>8 DEF AddLine, lines
    <2>2. g.lines = lines /\ g.ended /\ g \in [lines : Seq(S \cup {Torn}), ended : BOOLEAN]
        BY <1>1, <2>1
    <2>3. ~Intact(g)
        BY <1>1, <1>8, <2>2 DEF Intact, lines
    <2> HIDE DEF g
    <2>4. LogFits(g, S) /\ Adds(file, g, line, extent, n)
        BY <1>3, <2>2, <2>3 DEF Adds, LogFits, lines
    <2> QED
        BY <2>4 DEF g
<1>9. CASE extent = "none" \/ (~file.ended /\ extent = "part")
    <2>1. g = file
        BY <1>9 DEF AddLine
    <2> QED
        BY <1>4, <2>1
<1> QED
    BY <1>1, <1>6, <1>7, <1>8, <1>9 DEF Extent

\* Which lines are about a turn.
LEMMA AddsOf ==
    ASSUME NEW file, NEW g, NEW line, NEW extent, NEW n, Adds(file, g, line, extent, n), line # Torn
    PROVE  /\ \A t : t # line.turn \/ extent # "whole" => Of(g, t) = Of(file, t)
           /\ Of(g, line.turn) \subseteq Of(file, line.turn) \cup {n}
           /\ extent = "whole" /\ Intact(g) => Of(g, line.turn) = Of(file, line.turn) \cup {n}
           /\ \A t : Of(file, t) \subseteq Of(g, t)
    BY DEF Adds, Of

LEMMA TracedStays ==
    ASSUME NEW file, NEW g, NEW line, NEW extent, NEW n, Adds(file, g, line, extent, n), line # Torn,
           NEW t, t # line.turn \/ extent # "whole", NEW a, Traced(t, a, file)
    PROVE  Traced(t, a, g)
<1>1. Of(g, t) = Of(file, t)
    BY AddsOf
<1>2. Intact(g) => Intact(file)
    BY DEF Adds
<1>3. \A i \in DOMAIN file.lines : i \in DOMAIN g.lines /\ g.lines[i] = file.lines[i]
    BY DEF Adds
<1>4. Accounted(t, a, file) => Accounted(t, a, g)
    BY <1>1, <1>2, <1>3 DEF Accounted
<1> QED
    BY <1>1, <1>2, <1>3, <1>4 DEF Traced

LEMMA RecordStays ==
    ASSUME NEW file, NEW g, NEW line, NEW extent, NEW n, Adds(file, g, line, extent, n), line # Torn,
           NEW r, NEW a, RecordFits(r, a, file)
    PROVE  RecordFits(r, a, g)
<1>1. Of(file, r.turn) \subseteq Of(g, r.turn)
    BY AddsOf
<1>2. Of(file, r.turn) \subseteq DOMAIN file.lines
    BY DEF Of
<1> QED
    BY <1>1, <1>2 DEF RecordFits, Adds

\* The corrections that a trace counts.
LEMMA CorrectionsCount ==
    ASSUME NEW seen \in Seq(Observations)
    PROVE  /\ Cardinality({i \in DOMAIN seen : seen[i].stage \in Corrections}) \in Nat
           /\ Cardinality({i \in DOMAIN seen : seen[i].stage \in Corrections}) = 0
                 <=> ~\E j \in DOMAIN seen : seen[j].stage \in Corrections
<1> DEFINE S == {i \in DOMAIN seen : seen[i].stage \in Corrections}
<1>1. S \subseteq 1 .. Len(seen) /\ Len(seen) \in Nat
    OBVIOUS
<1>2. S = {} <=> ~\E j \in DOMAIN seen : seen[j].stage \in Corrections
    OBVIOUS
<1> HIDE DEF S
<1>3. IsFiniteSet(S)
    <2>1. IsFiniteSet(1 .. Len(seen))
        BY <1>1, FS_Interval
    <2> QED
        BY <1>1, <2>1, FS_Subset
<1>4. Cardinality(S) \in Nat /\ (Cardinality(S) = 0 <=> S = {})
    BY <1>3, FS_CardinalityType, FS_EmptySet
<1> QED
    BY <1>2, <1>4 DEF S

\* What the reply says is what the trace has.
Replied(t, a) ==
    [Over(a, "served") EXCEPT !.reply =
        [answer |-> a.answer, input |-> LineOf(t, a).input, corrections |-> LineOf(t, a).corrections]]
LEMMA RepliedFits ==
    ASSUME NEW t, NEW a \in TurnRec, TurnFits(a), a.at = "reply", NEW file, Traced(t, a, file),
           NEW b, b = Replied(t, a)
    PROVE  /\ b \in TurnRec /\ TurnFits(b) /\ Traced(t, b, file) /\ b.at = "served" /\ b.request = a.request
           /\ b.reply.input = a.input /\ b.reply.answer = a.answer
<1> DEFINE line == LineOf(t, a)
           reply == [answer |-> a.answer, input |-> a.input, corrections |-> line.corrections]
           o == Over(a, "served")
<1>1. Attributes(a) /\ Final(a) /\ a.request \in Request
    BY DEF TurnFits
<1>2. a.stages \in Seq(Observations) /\ a.input \in Inputs /\ a.answer \in Answer
    BY <1>1 DEF TurnRec, Attributes
<1>3. /\ line.request = a.request /\ line.stages = a.stages /\ line.input = a.input
      /\ line.corrections \in Nat
      /\ (line.corrections = 0 <=> ~\E j \in DOMAIN a.stages : a.stages[j].stage \in Corrections)
    BY <1>2, CorrectionsCount DEF LineOf
<1>4. b = [o EXCEPT !.reply = reply]
    BY <1>3 DEF Replied
<1>5. o \in TurnRec /\ TurnFits(o) /\ o.at = "served" /\ o.request = a.request
    BY <1>1, OverIs
<1> HIDE DEF line, o
<1>6. reply \in Replies /\ reply.answer = a.answer /\ reply.input = a.input
      /\ reply.corrections = line.corrections
    BY <1>2, <1>3 DEF Replies
<1> HIDE DEF reply
<1>7. b \in TurnRec /\ b.at = "served" /\ b.request = a.request /\ b.reply = reply
    BY <1>4, <1>5, <1>6 DEF TurnRec
<1>8. TurnFits(b)
    BY <1>1, <1>7 DEF TurnFits, Asking
<1>9. Accounts(line, reply)
    <2>1. Legal(line.request, line.stages)
        BY <1>1, <1>3 DEF Final
    <2>2. IF line.input.stage \in CandidateRole
          THEN Observation(line.input.stage, reply.answer) \in ToSet(line.stages)
          ELSE Observation(line.input.stage, reply.answer) = Last(line.stages)
        BY <1>1, <1>3, <1>6 DEF Attributes
    <2>3. line.corrections = 0 <=>
             /\ line.input.stage \notin Corrections
             /\ \A j \in DOMAIN line.stages : line.stages[j].stage # "critic:recovery"
        BY <1>1, <1>3 DEF Attributes
    <2> QED
        BY <1>3, <1>6, <2>1, <2>2, <2>3 DEF Accounts
<1>10. Accounted(t, b, file)
    <2>1. reply.answer \in IF b.request \in Missions THEN Plans ELSE Complete
        BY <1>1, <1>6, <1>7 DEF Final
    <2>2. Intact(file) => \E i \in DOMAIN file.lines : Of(file, t) = {i} /\ Accounts(file.lines[i], reply)
        BY <1>9 DEF Traced, line
    <2> QED
        BY <1>7, <2>1, <2>2 DEF Accounted
<1>11. Traced(t, b, file)
    BY <1>6, <1>7, <1>10 DEF Traced, Asking
<1> QED
    BY <1>6, <1>7, <1>8, <1>11

-----------------------------------------------------------------------------
(* The steps.                                                                *)

LEMMA GatewayStarts == Init => GInv
<1> SUFFICES ASSUME Init PROVE GInv
    OBVIOUS
<1>1. <<>> \in [{} -> Answer] /\ {} \in SUBSET Stage /\ <<>> \in Seq(Observations)
    OBVIOUS
<1>2. <<>> \in UNION {[S -> Answer] : S \in SUBSET Stage}
    BY <1>1
<1>3. Unasked \in TurnRec /\ Unasked.at = "unasked" /\ Unasked.calls = <<>>
    BY <1>1, <1>2 DEF TurnRec, Unasked
<1>4. TurnFits(Unasked)
    BY <1>3 DEF TurnFits, Asking
<1>5. \A t : Of(traces, t) = {}
    BY DEF Init, EmptyLog, Of
<1>6. \A t \in Turn : Traced(t, Unasked, traces)
    BY <1>3, <1>5 DEF Traced
<1>7. turns \in [Turn -> TurnRec] /\ \A t \in Turn : turns[t] = Unasked
    BY <1>3 DEF Init
<1>8. TurnsFit
    BY <1>4, <1>6, <1>7 DEF TurnsFit
<1>9. LogFits(traces, TraceLine) /\ LogFits(shadows, ShadowLine)
    <2>1. \A S : EmptyLog \in [lines : Seq(S \cup {Torn}), ended : BOOLEAN] /\ EmptyLog.ended
        BY DEF EmptyLog
    <2> QED
        BY <2>1 DEF Init, LogFits
<1>10. ShadowsFit
    BY DEF Init, EmptyLog, ShadowsFit
<1> QED
    BY <1>8, <1>9, <1>10, GatewayAssumption DEF Init, GInv, PendingFit, AcceptedFit

\* A step of a turn that has not been traced.
LEMMA TurnMoves ==
    ASSUME GInv, NEW t \in Turn, turns[t].at \in {"unasked"} \cup Asking,
           NEW c \in TurnRec, TurnFits(c), c.at \in Asking \cup {"trace", "failed"},
           turns' = [turns EXCEPT ![t] = c],
           UNCHANGED <<traces, shadows, pending, accepted, faults, restarts>>
    PROVE  GInv'
<1>1. /\ turns \in [Turn -> TurnRec] /\ turns' \in [Turn -> TurnRec] /\ turns'[t] = c
      /\ \A u \in Turn : u # t => turns'[u] = turns[u]
    BY DEF GInv, TurnsFit
<1>2. Of(traces, t) = {}
    BY DEF GInv, TurnsFit, Traced
<1>3. Traced(t, c, traces)
    BY <1>2 DEF Traced, Asking
<1>4. TurnsFit'
    BY <1>1, <1>3 DEF GInv, TurnsFit
<1>5. turns[t].at \notin {"reply", "served", "lost"}
    BY DEF Asking
<1>6. PendingFit'
    <2>1. \A r \in pending : turns'[r.turn] = turns[r.turn]
        BY <1>1, <1>5 DEF GInv, PendingFit, ShadowLine
    <2> QED
        BY <2>1 DEF GInv, PendingFit
<1>7. ShadowsFit'
    <2>1. \A i \in DOMAIN shadows.lines : shadows.lines[i] # Torn =>
             /\ shadows.lines[i] \in ShadowLine
             /\ RecordFits(shadows.lines[i], turns[shadows.lines[i].turn], traces)
        BY DEF GInv, LogFits, ShadowsFit
    <2>2. \A i \in DOMAIN shadows.lines : shadows.lines[i] # Torn =>
             turns'[shadows.lines[i].turn] = turns[shadows.lines[i].turn]
        BY <1>1, <1>5, <2>1 DEF ShadowLine, RecordFits
    <2> QED
        BY <2>2 DEF GInv, ShadowsFit
<1>8. AcceptedFit'
    <2>1. \A x \in accepted : turns'[x.turn] = turns[x.turn]
        BY <1>1, <1>5 DEF GInv, AcceptedFit, AttemptFits
    <2> QED
        BY <2>1 DEF GInv, AcceptedFit
<1> QED
    BY <1>4, <1>6, <1>7, <1>8 DEF GInv

LEMMA AskKeeps ==
    ASSUME GInv, NEW t \in Turn, NEW q \in Request, Ask(t, q)
    PROVE  GInv'
<1> DEFINE a == turns[t]
           c == [a EXCEPT !.at = "candidates", !.request = q]
<1>1. turns \in [Turn -> TurnRec] /\ a \in TurnRec /\ a.calls = <<>> /\ a.at = "unasked"
    BY DEF GInv, TurnsFit, TurnFits, Ask
<1>2. turns' = [turns EXCEPT ![t] = c]
    BY <1>1 DEF Ask
<1> HIDE DEF a
<1>3. /\ c \in TurnRec /\ c.at = "candidates" /\ c.request = q /\ c.calls = <<>>
    BY <1>1 DEF TurnRec, Running, Asking
<1> HIDE DEF c
<1>4. TurnFits(c)
    BY <1>3 DEF TurnFits
<1>5. c.at \in Asking
    BY <1>3 DEF Asking
<1> QED
    BY <1>1, <1>2, <1>3, <1>4, <1>5, TurnMoves DEF Ask, a

LEMMA CandidateAnswersKeeps ==
    ASSUME GInv, NEW t \in Turn, NEW r \in CandidateRole, NEW m \in Says(r), CandidateAnswers(t, r, m)
    PROVE  GInv'
<1> DEFINE a == turns[t]
           calls == Extend(a.calls, r, m)
           asked == [a EXCEPT !.calls = calls]
           c == IF DOMAIN asked.calls = CandidateRole THEN Deliberated(asked) ELSE asked
<1>1. turns \in [Turn -> TurnRec] /\ a \in TurnRec /\ TurnFits(a) /\ a.at = "candidates"
    BY DEF GInv, TurnsFit, CandidateAnswers
<1>2. turns' = [turns EXCEPT ![t] = c]
    BY DEF CandidateAnswers
<1>3. a.request \in Request /\ DOMAIN a.calls \subseteq CandidateRole
    BY <1>1 DEF TurnFits
<1>4. r \in Stage /\ m \in Answer
    BY GatewayData, GatewayAssumption
<1>5. IsAdded(calls, a.calls, r, m)
    BY <1>1, <1>4, CallAdded DEF TurnRec
<1> HIDE DEF calls, a
<1>6. DOMAIN calls \subseteq CandidateRole /\ calls \in UNION {[X -> Answer] : X \in SUBSET Stage}
    BY <1>3, <1>5 DEF IsAdded
<1>7. asked \in TurnRec /\ asked.at = "candidates" /\ asked.request \in Request /\ asked.calls = calls
    BY <1>1, <1>3, <1>6 DEF TurnRec
<1> HIDE DEF asked
<1>8. CASE DOMAIN calls = CandidateRole
    <2>1. asked.calls \in [CandidateRole -> Answer]
        BY <1>6, <1>7, <1>8
    <2>2. c = Deliberated(asked)
        BY <1>7, <1>8
    <2> HIDE DEF c
    <2>3. c \in TurnRec /\ TurnFits(c) /\ c.at \in Asking \cup {"trace", "failed"}
        BY <1>7, <2>1, <2>2, DeliberatedFits
    <2> QED
        BY <1>1, <1>2, <2>3, TurnMoves DEF CandidateAnswers, a, Asking
<1>9. CASE DOMAIN calls # CandidateRole
    <2>1. c = asked
        BY <1>7, <1>9
    <2> HIDE DEF c
    <2>2. TurnFits(c)
        BY <1>6, <1>7, <2>1 DEF TurnFits
    <2>3. c.at \in Asking
        BY <1>7, <2>1 DEF Asking
    <2> QED
        BY <1>1, <1>2, <1>7, <2>1, <2>2, <2>3, TurnMoves DEF CandidateAnswers, a, Asking
<1> QED
    BY <1>8, <1>9

LEMMA StageAnswersKeeps ==
    ASSUME GInv, NEW t \in Turn, NEW m \in Says(turns[t].at), StageAnswers(t, m)
    PROVE  GInv'
<1> DEFINE a == turns[t]
           b == Observed(a, m)
           c == CASE b.at \in {"critic", "critic:recovery"} -> Criticized(b)
                  [] b.at \in {"integrator", "integrator:recovery"} -> Integrated(b)
                  [] OTHER -> Recovered(b)
<1>1. turns \in [Turn -> TurnRec] /\ a \in TurnRec /\ TurnFits(a) /\ a.at \in Asking \ {"candidates"}
    BY DEF GInv, TurnsFit, StageAnswers
<1>2. turns' = [turns EXCEPT ![t] = c]
    BY DEF StageAnswers
<1>3. m \in Answer
    BY <1>1, GatewayAssumption DEF Asking, Stage, Corrections
<1> HIDE DEF a
<1>4. b.at = a.at
    BY <1>1, <1>3, ObservedTells
<1>5. c \in TurnRec /\ TurnFits(c) /\ c.at \in Asking \cup {"trace", "failed"}
    <2>1. CASE a.at \in {"critic", "critic:recovery"}
        <3>1. c = Criticized(b)
            BY <1>4, <2>1
        <3> HIDE DEF c, b
        <3>2. b = Observed(a, m)
            BY DEF b
        <3> QED
            BY <1>1, <1>3, <2>1, <3>1, <3>2, CriticizedFits
    <2>2. CASE a.at \in {"integrator", "integrator:recovery"}
        <3>1. c = Integrated(b)
            BY <1>4, <2>2
        <3> HIDE DEF c, b
        <3>2. b = Observed(a, m)
            BY DEF b
        <3> QED
            BY <1>1, <1>3, <2>2, <3>1, <3>2, IntegratedFits
    <2>3. CASE a.at = "mission:contract-recovery"
        <3>1. c = Recovered(b)
            BY <1>4, <2>3
        <3> HIDE DEF c, b
        <3>2. b = Observed(a, m)
            BY DEF b
        <3> QED
            BY <1>1, <1>3, <2>3, <3>1, <3>2, RecoveredFits
    <2> QED
        BY <1>1, <2>1, <2>2, <2>3 DEF Asking
<1> HIDE DEF c
<1> QED
    BY <1>1, <1>2, <1>5, TurnMoves DEF StageAnswers, a

LEMMA CallFailsKeeps ==
    ASSUME GInv, NEW t \in Turn, CallFails(t)
    PROVE  GInv'
<1> DEFINE c == Over(turns[t], "failed")
<1>1. turns \in [Turn -> TurnRec] /\ turns[t].request \in Request /\ turns[t].at \in Asking
    BY DEF GInv, TurnsFit, TurnFits, CallFails, Asking
<1>2. turns' = [turns EXCEPT ![t] = c]
    BY DEF CallFails, Refused
<1>3. c \in TurnRec /\ TurnFits(c) /\ c.at = "failed"
    BY <1>1, OverIs
<1> HIDE DEF c
<1> QED
    BY <1>1, <1>2, <1>3, TurnMoves DEF CallFails

LEMMA FaultCounts ==
    ASSUME faults \in 0 .. MaxFaults, NEW extent, Fault(extent)
    PROVE  faults' \in 0 .. MaxFaults
<1>1. MaxFaults \in Nat
    BY GatewayAssumption
<1> QED
    BY <1>1 DEF Fault

\* A record in the shadow file is about a turn that was traced.
LEMMA ShadowedTurn ==
    ASSUME GInv, NEW i \in DOMAIN shadows.lines, shadows.lines[i] # Torn
    PROVE  /\ shadows.lines[i] \in ShadowLine /\ shadows.lines[i].turn \in Turn
           /\ RecordFits(shadows.lines[i], turns[shadows.lines[i].turn], traces)
           /\ turns[shadows.lines[i].turn].at \in {"reply", "served", "lost"}
           /\ Of(shadows, shadows.lines[i].turn) = {i}
<1>1. shadows.lines[i] \in ShadowLine
    BY DEF GInv, LogFits
<1>2. RecordFits(shadows.lines[i], turns[shadows.lines[i].turn], traces)
      /\ Of(shadows, shadows.lines[i].turn) = {i}
    BY DEF GInv, ShadowsFit
<1> QED
    BY <1>1, <1>2 DEF ShadowLine, RecordFits

LEMMA WriteTraceKeeps ==
    ASSUME GInv, NEW t \in Turn, NEW extent \in Extent, WriteTrace(t, extent)
    PROVE  GInv'
<1> DEFINE a == turns[t]
           line == LineOf(t, a)
           c == IF extent = "whole" THEN [a EXCEPT !.at = "reply"] ELSE Over(a, "failed")
<1>1. turns \in [Turn -> TurnRec] /\ a \in TurnRec /\ TurnFits(a) /\ a.at = "trace" /\ Of(traces, t) = {}
    BY DEF GInv, TurnsFit, Traced, WriteTrace
<1>2. Attributes(a) /\ Final(a) /\ a.request \in Request
    BY <1>1 DEF TurnFits
<1>3. a.stages \in Seq(Observations) /\ a.input \in Inputs /\ a.answer \in Answer
    BY <1>1, <1>2 DEF TurnRec, Attributes
<1>4. line \in TraceLine /\ line.turn = t /\ line.input = a.input
    <2>1. Cardinality({i \in DOMAIN a.stages : a.stages[i].stage \in Corrections}) \in Nat
        BY <1>3, CorrectionsCount
    <2> QED
        BY <1>2, <1>3, <2>1 DEF LineOf, TraceLine
<1>5. line # Torn /\ Torn \notin TraceLine
    BY <1>4, GatewayAssumption
<1>6. traces' = AddLine(traces, line, extent)
    BY DEF WriteTrace, TraceOf, LineOf
<1>7. turns' = [turns EXCEPT ![t] = c]
    BY DEF WriteTrace, Refused
<1>8. pending' = IF extent = "whole" THEN pending \cup {ShadowOf(t)} ELSE pending
    BY DEF WriteTrace, Started
<1> HIDE DEF line, c, a
<1>9. LogFits(traces', TraceLine)
    BY <1>4, <1>5, <1>6, LineIsAdded DEF GInv
<1>10. PICK n : Adds(traces, traces', line, extent, n)
    BY <1>4, <1>5, <1>6, LineIsAdded DEF GInv
<1>11. /\ turns' \in [Turn -> TurnRec] => turns'[t] = c
       /\ \A u \in Turn : u # t => turns'[u] = turns[u]
    BY <1>1, <1>7
<1>12. ASSUME extent = "whole"
       PROVE  TurnsFit' /\ PendingFit'
    <2>1. /\ c \in TurnRec /\ c.at = "reply" /\ c.request = a.request /\ c.stages = a.stages
          /\ c.input = a.input /\ c.answer = a.answer
        BY <1>1, <1>12 DEF c, TurnRec, Running
    <2>2. TurnFits(c)
        <3>1. Attributes(c) /\ Final(c)
            BY <1>2, <2>1 DEF Attributes, Final
        <3> QED
            BY <1>2, <2>1, <3>1 DEF TurnFits, Asking
    <2>3. LineOf(t, c) = line
        BY <2>1 DEF LineOf, line
    <2>4. Intact(traces') => /\ Of(traces', t) = {n} /\ n \in DOMAIN traces'.lines
                             /\ traces'.lines[n] = line
        <3>1. Intact(traces') => Of(traces', line.turn) = Of(traces, line.turn) \cup {n}
            BY <1>5, <1>10, <1>12, AddsOf
        <3>2. Intact(traces') => n \in DOMAIN traces'.lines /\ traces'.lines[n] = line
            BY <1>10, <1>12 DEF Adds
        <3> QED
            BY <1>1, <1>4, <3>1, <3>2
    <2>5. Traced(t, c, traces')
        BY <2>1, <2>3, <2>4 DEF Traced, Asking
    <2>6. TurnsFit'
        <3>1. \A u \in Turn : u # t => Traced(u, turns[u], traces')
            BY <1>4, <1>5, <1>10, TracedStays DEF GInv, TurnsFit
        <3>2. turns' \in [Turn -> TurnRec] /\ turns'[t] = c
            BY <1>1, <1>7, <2>1
        <3> QED
            BY <1>11, <2>2, <2>5, <3>1, <3>2 DEF GInv, TurnsFit
    <2> DEFINE r == ShadowOf(t)
    <2>7. r \in ShadowLine /\ r.turn = t /\ r.request = a.request /\ r.input = a.input /\ r.primary = a.answer
        BY <1>2, <1>3 DEF ShadowOf, ShadowLine, a
    <2> HIDE DEF r
    <2>8. RecordFits(r, c, traces')
        BY <1>4, <2>1, <2>4, <2>7 DEF RecordFits
    <2>9. turns'[t] = c
        BY <1>1, <1>7, <2>1
    <2>10. Of(shadows, t) = {}
        BY <1>1, ShadowedTurn DEF Of, a
    <2>11. \A s \in pending : s \in ShadowLine /\ s.turn \in Turn /\ s.turn # t /\ turns'[s.turn] = turns[s.turn]
        BY <1>1, <1>11 DEF GInv, PendingFit, ShadowLine, a
    <2>12. \A s \in pending : RecordFits(s, turns[s.turn], traces')
        BY <1>5, <1>10, RecordStays DEF GInv, PendingFit
    <2>13. PendingFit'
        <3>1. shadows' = shadows /\ pending' = pending \cup {r}
            BY <1>8, <1>12 DEF WriteTrace, r
        <3>2. pending' \subseteq ShadowLine /\ \A s, u \in pending' : s.turn = u.turn => s = u
            BY <2>7, <2>11, <3>1 DEF GInv, PendingFit
        <3>3. \A s \in pending' : /\ RecordFits(s, turns'[s.turn], traces')
                                  /\ turns'[s.turn].at \in {"reply", "served"}
                                  /\ Of(shadows', s.turn) = {}
            BY <2>1, <2>7, <2>8, <2>9, <2>10, <2>11, <2>12, <3>1 DEF GInv, PendingFit
        <3> QED
            BY <3>2, <3>3 DEF PendingFit
    <2> QED
        BY <2>6, <2>13
<1>13. ASSUME extent # "whole"
       PROVE  TurnsFit' /\ PendingFit'
    <2>1. c \in TurnRec /\ TurnFits(c) /\ c.at = "failed"
        BY <1>2, <1>13, OverIs DEF c
    <2>2. Traced(t, c, traces')
        BY <2>1 DEF Traced, Asking
    <2>3. TurnsFit'
        <3>1. \A u \in Turn : u # t => Traced(u, turns[u], traces')
            BY <1>4, <1>5, <1>10, TracedStays DEF GInv, TurnsFit
        <3>2. turns' \in [Turn -> TurnRec] /\ turns'[t] = c
            BY <1>1, <1>7, <2>1
        <3> QED
            BY <1>11, <2>1, <2>2, <3>1, <3>2 DEF GInv, TurnsFit
    <2>4. \A s \in pending : turns'[s.turn] = turns[s.turn]
        BY <1>1, <1>11 DEF GInv, PendingFit, ShadowLine, a
    <2>5. \A s \in pending : RecordFits(s, turns[s.turn], traces')
        BY <1>5, <1>10, RecordStays DEF GInv, PendingFit
    <2>6. PendingFit'
        BY <1>8, <1>13, <2>4, <2>5 DEF GInv, PendingFit, WriteTrace
    <2> QED
        BY <2>3, <2>6
<1>14. ShadowsFit'
    <2> SUFFICES ASSUME NEW i \in DOMAIN shadows.lines, shadows.lines[i] # Torn
                 PROVE  /\ RecordFits(shadows.lines[i], turns'[shadows.lines[i].turn], traces')
                        /\ Of(shadows, shadows.lines[i].turn) = {i}
        BY DEF ShadowsFit, WriteTrace
    <2> DEFINE r == shadows.lines[i]
    <2>1. /\ r.turn \in Turn /\ RecordFits(r, turns[r.turn], traces)
          /\ turns[r.turn].at \in {"reply", "served", "lost"} /\ Of(shadows, r.turn) = {i}
        BY ShadowedTurn
    <2> HIDE DEF r
    <2>2. turns'[r.turn] = turns[r.turn]
        BY <1>1, <1>11, <2>1 DEF a
    <2>3. RecordFits(r, turns[r.turn], traces')
        BY <1>5, <1>10, <2>1, RecordStays
    <2> QED
        BY <2>1, <2>2, <2>3 DEF r
<1>15. AcceptedFit'
    <2>1. \A x \in accepted : turns'[x.turn] = turns[x.turn]
        BY <1>1, <1>11 DEF GInv, AcceptedFit, AttemptFits, a
    <2> QED
        BY <2>1 DEF GInv, AcceptedFit, WriteTrace
<1>16. faults' \in 0 .. MaxFaults
    BY FaultCounts DEF GInv, WriteTrace
<1> QED
    BY <1>9, <1>12, <1>13, <1>14, <1>15, <1>16 DEF GInv, WriteTrace

LEMMA ReplyKeeps ==
    ASSUME GInv, NEW t \in Turn, NEW reaches \in BOOLEAN, Reply(t, reaches)
    PROVE  GInv'
<1> DEFINE a == turns[t]
           b == [Over(a, "served") EXCEPT !.reply = ReplyOf(t)]
<1>1. turns \in [Turn -> TurnRec] /\ a \in TurnRec /\ TurnFits(a) /\ a.at = "reply" /\ Traced(t, a, traces)
    BY DEF GInv, TurnsFit, Reply
<1>2. turns' = [turns EXCEPT ![t] = b]
    BY DEF Reply
<1>3. b = Replied(t, a)
    BY DEF Replied, ReplyOf, TraceOf, LineOf
<1> HIDE DEF a, b
<1>4. /\ b \in TurnRec /\ TurnFits(b) /\ Traced(t, b, traces) /\ b.at = "served" /\ b.request = a.request
      /\ b.reply.input = a.input /\ b.reply.answer = a.answer
    BY <1>1, <1>3, RepliedFits
<1>5. a.request \in Request /\ a.input \in Inputs
    BY <1>1 DEF TurnFits, Attributes
<1>6. /\ turns' \in [Turn -> TurnRec] /\ turns'[t] = b
      /\ \A u \in Turn : u # t => turns'[u] = turns[u]
    BY <1>1, <1>2, <1>4
<1>7. TurnsFit'
    BY <1>4, <1>6 DEF GInv, TurnsFit, Reply
<1>8. ASSUME NEW r, RecordFits(r, a, traces)
      PROVE  RecordFits(r, b, traces)
    BY <1>1, <1>4, <1>8 DEF RecordFits
<1>9. PendingFit'
    <2>1. \A r \in pending : RecordFits(r, turns'[r.turn], traces) /\ turns'[r.turn].at \in {"reply", "served"}
        <3> SUFFICES ASSUME NEW r \in pending
                     PROVE  RecordFits(r, turns'[r.turn], traces) /\ turns'[r.turn].at \in {"reply", "served"}
            OBVIOUS
        <3>1. r.turn \in Turn /\ RecordFits(r, turns[r.turn], traces) /\ turns[r.turn].at \in {"reply", "served"}
            BY DEF GInv, PendingFit, ShadowLine
        <3>2. CASE r.turn = t
            BY <1>4, <1>6, <1>8, <3>1, <3>2 DEF a
        <3>3. CASE r.turn # t
            BY <1>6, <3>1, <3>3
        <3> QED
            BY <3>2, <3>3
    <2> QED
        BY <2>1 DEF GInv, PendingFit, Reply
<1>10. ShadowsFit'
    <2> SUFFICES ASSUME NEW i \in DOMAIN shadows.lines, shadows.lines[i] # Torn
                 PROVE  /\ RecordFits(shadows.lines[i], turns'[shadows.lines[i].turn], traces)
                        /\ Of(shadows, shadows.lines[i].turn) = {i}
        BY DEF ShadowsFit, Reply
    <2> DEFINE r == shadows.lines[i]
    <2>1. r.turn \in Turn /\ RecordFits(r, turns[r.turn], traces) /\ Of(shadows, r.turn) = {i}
        BY ShadowedTurn
    <2> HIDE DEF r
    <2>2. CASE r.turn = t
        BY <1>6, <1>8, <2>1, <2>2 DEF a, r
    <2>3. CASE r.turn # t
        BY <1>6, <2>1, <2>3 DEF r
    <2> QED
        BY <2>2, <2>3
<1>11. AcceptedFit'
    <2>1. \A x \in accepted : AttemptFits(x, turns'[x.turn])
        <3>1. \A x \in accepted : x.turn \in Turn /\ x.turn # t
            BY <1>1 DEF GInv, AcceptedFit, AttemptFits, a
        <3> QED
            BY <1>6, <3>1 DEF GInv, AcceptedFit
    <2>2. CASE accepted' = accepted
        BY <2>1, <2>2 DEF GInv, AcceptedFit
    <2> DEFINE x == [turn |-> t, request |-> a.request, input |-> a.input]
    <2>3. CASE /\ accepted' = accepted \cup {x} /\ a.request \in Missions
               /\ \A y \in accepted : y.request # a.request
        <3>1. /\ x \in [turn : Turn, request : Missions, input : Inputs]
              /\ x.turn = t /\ x.request = a.request /\ x.input = a.input
            BY <1>5, <2>3
        <3> HIDE DEF x
        <3>2. AttemptFits(x, turns'[x.turn])
            BY <1>4, <1>6, <3>1 DEF AttemptFits
        <3> QED
            BY <2>1, <2>3, <3>1, <3>2 DEF GInv, AcceptedFit
    <2>4. \/ accepted' = accepted
          \/ /\ accepted' = accepted \cup {x} /\ a.request \in Missions
             /\ \A y \in accepted : y.request # a.request
        BY DEF Reply, a
    <2> QED
        BY <2>2, <2>3, <2>4
<1> QED
    BY <1>7, <1>9, <1>10, <1>11 DEF GInv, Reply

LEMMA ShadowEndsKeeps ==
    ASSUME GInv, NEW job \in pending, NEW extent \in Extent, ShadowEnds(job, extent)
    PROVE  GInv'
<1>1. /\ job \in ShadowLine /\ RecordFits(job, turns[job.turn], traces) /\ Of(shadows, job.turn) = {}
    BY DEF GInv, PendingFit
<1>2. job # Torn /\ Torn \notin ShadowLine
    BY <1>1, GatewayAssumption
<1>3. shadows' = AddLine(shadows, job, extent) /\ pending' = pending \ {job}
      /\ turns' = turns /\ traces' = traces
    BY DEF ShadowEnds
<1>4. LogFits(shadows', ShadowLine)
    BY <1>1, <1>2, <1>3, LineIsAdded DEF GInv
<1>5. PICK n : Adds(shadows, shadows', job, extent, n)
    BY <1>1, <1>2, <1>3, LineIsAdded DEF GInv
<1>6. PendingFit'
    <2>1. \A r \in pending' : r.turn # job.turn
        BY <1>3 DEF GInv, PendingFit
    <2>2. \A r \in pending' : Of(shadows', r.turn) = Of(shadows, r.turn)
        BY <1>2, <1>5, <2>1, AddsOf
    <2> QED
        BY <1>3, <2>2 DEF GInv, PendingFit
<1>7. ShadowsFit'
    <2> SUFFICES ASSUME NEW i \in DOMAIN shadows'.lines, shadows'.lines[i] # Torn
                 PROVE  /\ RecordFits(shadows'.lines[i], turns[shadows'.lines[i].turn], traces)
                        /\ Of(shadows', shadows'.lines[i].turn) = {i}
        BY <1>3 DEF ShadowsFit
    <2> DEFINE r == shadows'.lines[i]
    <2>1. CASE i \in DOMAIN shadows.lines
        <3>1. r = shadows.lines[i]
            BY <1>5, <2>1 DEF Adds
        <3>2. RecordFits(r, turns[r.turn], traces) /\ Of(shadows, r.turn) = {i}
            BY <2>1, <3>1, ShadowedTurn
        <3> HIDE DEF r
        <3>3. r.turn # job.turn
            BY <1>1, <3>2
        <3>4. Of(shadows', r.turn) = {i}
            BY <1>2, <1>5, <3>2, <3>3, AddsOf
        <3> QED
            BY <3>2, <3>4 DEF r
    <2>2. CASE i = n /\ r = job
        <3>1. i \in Of(shadows', job.turn)
            BY <2>2 DEF Of
        <3>2. Of(shadows', job.turn) \subseteq {n}
            BY <1>1, <1>2, <1>5, AddsOf
        <3> QED
            BY <1>1, <2>2, <3>1, <3>2
    <2> QED
        BY <1>5, <2>1, <2>2 DEF Adds
<1>8. faults' \in 0 .. MaxFaults
    BY FaultCounts DEF GInv, ShadowEnds
<1> QED
    BY <1>4, <1>6, <1>7, <1>8 DEF GInv, ShadowEnds, TurnsFit, AcceptedFit

LEMMA RestartKeeps ==
    ASSUME GInv, Restart
    PROVE  GInv'
<1>1. ASSUME NEW t \in Turn
      PROVE  /\ turns'[t] \in TurnRec /\ TurnFits(turns'[t]) /\ Traced(t, turns'[t], traces)
             /\ \/ turns'[t] = turns[t]
                \/ turns[t].at \in Running /\ turns'[t].at = "lost" /\ turns'[t].request = turns[t].request
    <2>1. turns[t] \in TurnRec /\ TurnFits(turns[t]) /\ Traced(t, turns[t], traces)
        BY DEF GInv, TurnsFit
    <2>2. CASE turns[t].at \in Running
        <3> DEFINE b == Over(turns[t], "lost")
        <3>1. turns'[t] = b
            BY <2>2 DEF Restart
        <3>2. turns[t].request \in Request
            BY <2>1, <2>2 DEF TurnFits, Running, Asking
        <3>3. b \in TurnRec /\ TurnFits(b) /\ b.at = "lost" /\ b.request = turns[t].request
            BY <3>2, OverIs
        <3> HIDE DEF b
        <3>4. Traced(t, b, traces)
            BY <3>3 DEF Traced, Asking
        <3> QED
            BY <2>2, <3>1, <3>3, <3>4
    <2>3. CASE turns[t].at \notin Running
        BY <2>1, <2>3 DEF Restart
    <2> QED
        BY <2>2, <2>3
<1>2. DOMAIN turns' = Turn /\ turns' \in [Turn -> TurnRec]
    BY <1>1 DEF Restart
<1>3. TurnsFit'
    BY <1>1, <1>2 DEF TurnsFit, Restart
<1>4. PendingFit'
    BY DEF PendingFit, Restart
<1>5. ShadowsFit'
    <2> SUFFICES ASSUME NEW i \in DOMAIN shadows.lines, shadows.lines[i] # Torn
                 PROVE  /\ RecordFits(shadows.lines[i], turns'[shadows.lines[i].turn], traces)
                        /\ Of(shadows, shadows.lines[i].turn) = {i}
        BY DEF ShadowsFit, Restart
    <2> DEFINE r == shadows.lines[i]
    <2>1. r.turn \in Turn /\ RecordFits(r, turns[r.turn], traces) /\ Of(shadows, r.turn) = {i}
        BY ShadowedTurn
    <2> HIDE DEF r
    <2>2. CASE turns'[r.turn] = turns[r.turn]
        BY <2>1, <2>2 DEF r
    <2>3. CASE turns'[r.turn].at = "lost" /\ turns'[r.turn].request = turns[r.turn].request
        <3>1. RecordFits(r, turns'[r.turn], traces)
            BY <2>1, <2>3 DEF RecordFits
        <3> QED
            BY <2>1, <3>1 DEF r
    <2> QED
        BY <1>1, <2>1, <2>2, <2>3
<1>6. AcceptedFit'
    <2>1. \A x \in accepted : turns'[x.turn] = turns[x.turn]
        BY <1>1 DEF GInv, AcceptedFit, AttemptFits, Running, Asking
    <2> QED
        BY <2>1 DEF GInv, AcceptedFit, Restart
<1>7. restarts' \in 0 .. MaxRestarts
    <2>1. MaxRestarts \in Nat
        BY GatewayAssumption
    <2> QED
        BY <2>1 DEF GInv, Restart
<1> QED
    BY <1>3, <1>4, <1>5, <1>6, <1>7 DEF GInv, Restart

LEMMA GatewayStutters ==
    ASSUME GInv, UNCHANGED vars
    PROVE  GInv'
    BY DEF GInv, vars, TurnsFit, PendingFit, ShadowsFit, AcceptedFit

GatewayKeeps == GInv /\ [Next]_vars => GInv'
LEMMA GatewayKept == GatewayKeeps
<1> SUFFICES ASSUME GInv, [Next]_vars PROVE GInv'
    BY DEF GatewayKeeps
<1>1. CASE \E t \in Turn : \E q \in Request : Ask(t, q)
    BY <1>1, AskKeeps
<1>2. ASSUME NEW t \in Turn, Advance(t)
      PROVE  GInv'
    <2>1. CASE \E r \in CandidateRole : \E a \in Says(r) : CandidateAnswers(t, r, a)
        BY <2>1, CandidateAnswersKeeps
    <2>2. CASE turns[t].at \in Asking /\ \E a \in Says(turns[t].at) : StageAnswers(t, a)
        BY <2>2, StageAnswersKeeps
    <2>3. CASE CallFails(t)
        BY <2>3, CallFailsKeeps
    <2>4. CASE \E extent \in Extent : WriteTrace(t, extent)
        BY <2>4, WriteTraceKeeps
    <2>5. CASE \E reaches \in BOOLEAN : Reply(t, reaches)
        BY <2>5, ReplyKeeps
    <2> QED
        BY <1>2, <2>1, <2>2, <2>3, <2>4, <2>5 DEF Advance
<1>3. CASE \E t \in Turn : ShadowAdvance(t)
    BY <1>3, ShadowEndsKeeps DEF ShadowAdvance
<1>4. CASE Restart
    BY <1>4, RestartKeeps
<1>5. CASE UNCHANGED vars
    BY <1>5, GatewayStutters
<1> QED
    BY <1>1, <1>2, <1>3, <1>4, <1>5 DEF Next

-----------------------------------------------------------------------------
(* What the invariant says.                                                  *)

LEMMA CallsFitTheContext ==
    ASSUME NEW q \in Request, ~Direct(q),
           NEW stage \in {"critic", "critic:recovery", "integrator", "integrator:recovery"}
    PROVE  /\ PromptTokens(q) + Budget(q, stage).evidence + OutputTokens(q, stage) + SafetyTokens
                 <= ContextTokens
           /\ Budget(q, stage).evidence >= MinimumEvidence
           /\ OutputTokens(q, stage) >= Lesser(MinimumOutput, Asked(q))
<1> DEFINE prompt == PromptTokens(q)
           limit == MaxTokens(q)
           room == ContextTokens - prompt - SafetyTokens
           wish == Desired(q, stage)
           output == Lesser(wish, room - MinimumEvidence)
           asked == Asked(q)
<1>1. /\ prompt \in Nat /\ limit \in Nat /\ ContextTokens \in Nat /\ SafetyTokens \in Nat
      /\ InternalMaxTokens \in Nat /\ MinimumOutput \in Nat /\ MinimumEvidence \in Nat
      /\ MinimumOutput <= InternalMaxTokens
    BY TokenAssumption
<1>2. room \in Int /\ room >= MinimumOutput + MinimumEvidence
    BY <1>1 DEF Direct, Room
<1>3. Budget(q, stage).output = output /\ Budget(q, stage).evidence = room - output
    BY DEF Budget, Room
<1>4. wish \in Nat /\ wish >= InternalMaxTokens
    BY <1>1 DEF Desired, Greater
<1>5. asked \in Nat
    BY <1>1 DEF Asked
<1>6. \/ OutputTokens(q, stage) = output
      \/ OutputTokens(q, stage) = Lesser(asked, output)
    BY <1>3 DEF OutputTokens
<1> DEFINE least == Lesser(MinimumOutput, asked)
<1>7. prompt + (room - output) + output + SafetyTokens = ContextTokens
    BY <1>1, <1>2, <1>4 DEF Lesser
<1>8. Budget(q, stage).evidence = room - output
    BY <1>3
<1> HIDE DEF prompt, room, wish, asked
<1>9. /\ output \in Int /\ output <= room - MinimumEvidence /\ output >= MinimumOutput
      /\ least \in Int /\ least <= MinimumOutput
      /\ Lesser(asked, output) \in Int /\ Lesser(asked, output) <= output /\ Lesser(asked, output) >= least
    BY <1>1, <1>2, <1>4, <1>5 DEF Lesser
<1> HIDE DEF output, least
<1>10. OutputTokens(q, stage) \in Int /\ OutputTokens(q, stage) <= output /\ OutputTokens(q, stage) >= least
    BY <1>1, <1>6, <1>9
<1>11. prompt \in Int /\ SafetyTokens \in Int /\ ContextTokens \in Int /\ MinimumEvidence \in Int
    BY <1>1
<1>12. prompt + (room - output) + OutputTokens(q, stage) + SafetyTokens <= ContextTokens
    BY <1>2, <1>7, <1>9, <1>10, <1>11
<1>13. room - output >= MinimumEvidence
    BY <1>2, <1>9, <1>11
<1> QED
    BY <1>8, <1>10, <1>12, <1>13 DEF prompt, least, asked

LEMMA GatewayTyped == GInv => TypeOK
<1> SUFFICES ASSUME GInv PROVE TypeOK
    OBVIOUS
<1>1. ASSUME NEW t \in Turn
      PROVE  /\ turns[t].at \in {"unasked"} \cup Running \cup Ends
             /\ turns[t].request \in Request \cup {NoAnswer}
             /\ DOMAIN turns[t].calls \subseteq Stage
             /\ turns[t].stages \in Seq(Observations)
             /\ turns[t].input \in Inputs \cup {NoAnswer}
    BY DEF GInv, TurnsFit, TurnRec
<1> QED
    BY <1>1 DEF GInv, AcceptedFit, TypeOK

\* Every served turn has one trace that lists its calls and names the one whose
\* answer was served, whatever failed, was recovered or came late; private calls
\* fit the context.  (swarmTurnGateway.js:176-332, 508-595)
THEOREM ServedStaysAccounted == Spec => []ServedIsAccounted
<1>1. Init => GInv
    BY GatewayStarts
<1>2. GInv /\ [Next]_vars => GInv'
    BY GatewayKept DEF GatewayKeeps
<1>3. GInv => ServedIsAccounted
    <2> SUFFICES ASSUME GInv PROVE ServedIsAccounted
        OBVIOUS
    <2>1. TypeOK
        BY GatewayTyped
    <2>2. PrivateCallsFit
        <3> SUFFICES ASSUME NEW t \in Turn,
                            turns[t].at \in {"critic", "critic:recovery", "integrator", "integrator:recovery"}
                     PROVE  LET q == turns[t].request
                                stage == turns[t].at
                                output == OutputTokens(q, stage)
                            IN  /\ PromptTokens(q) + Budget(q, stage).evidence + output + SafetyTokens
                                     <= ContextTokens
                                /\ Budget(q, stage).evidence >= MinimumEvidence
                                /\ output >= Lesser(MinimumOutput, Asked(q))
            BY DEF PrivateCallsFit
        <3>1. turns[t].request \in Request /\ ~Direct(turns[t].request)
            BY DEF GInv, TurnsFit, TurnFits
        <3> QED
            BY <3>1, CallsFitTheContext
    <2>3. \A t \in Turn : turns[t].at = "served" => Accounted(t, turns[t], traces)
        BY DEF GInv, TurnsFit, Traced
    <2> QED
        BY <2>1, <2>2, <2>3 DEF ServedIsAccounted, Accounted, Accounts
<1> QED
    BY <1>1, <1>2, <1>3, PTL DEF Spec

\* A shadow record is about a traced turn and compares with what was served, one
\* per turn, and the join attributes it to no other attempt than its own.
\* (swarmTurnGateway.js:118-174; shadowDiagnostics.js:68-110)
THEOREM ShadowsStayAttributed == Spec => []ShadowIsOfTheServed
<1>1. Init => GInv
    BY GatewayStarts
<1>2. GInv /\ [Next]_vars => GInv'
    BY GatewayKept DEF GatewayKeeps
<1>3. GInv => ShadowIsOfTheServed
    <2> SUFFICES ASSUME GInv PROVE ShadowIsOfTheServed
        OBVIOUS
    <2>1. \A job \in pending : turns[job.turn].at \in {"reply", "served"}
        BY DEF GInv, PendingFit
    <2>2. ASSUME NEW i \in DOMAIN shadows.lines, shadows.lines[i] # Torn
          PROVE  LET record == shadows.lines[i]
                 IN  /\ Of(shadows, record.turn) = {i}
                     /\ Intact(traces) =>
                          \E j \in Of(traces, record.turn) : traces.lines[j].input = record.input
                     /\ turns[record.turn].at = "served" =>
                          /\ record.primary = turns[record.turn].reply.answer
                          /\ record.input = turns[record.turn].reply.input
        BY <2>2, ShadowedTurn DEF RecordFits
    <2>3. ASSUME Intact(shadows), NEW a \in accepted, NEW i \in Of(shadows, a.turn),
                 \A j \in DOMAIN shadows.lines : shadows.lines[j].request = a.request => j = i
          PROVE  Attributed(i) /\ Matches(i) = {a}
        <3> DEFINE r == shadows.lines[i]
        <3>1. i \in DOMAIN shadows.lines /\ r # Torn /\ r.turn = a.turn
            BY DEF Of
        <3>2. /\ a.request \in Missions /\ AttemptFits(a, turns[a.turn])
              /\ \A x \in accepted : x.request = a.request => x = a
            BY DEF GInv, AcceptedFit
        <3>3. r.request = a.request /\ r.input = a.input
            BY <3>1, <3>2, ShadowedTurn DEF RecordFits, AttemptFits
        <3> HIDE DEF r
        <3>4. IsRow(i)
            <4>1. DOMAIN shadows.lines = 1 .. Len(shadows.lines) /\ Len(shadows.lines) \in Nat
                BY DEF GInv, LogFits
            <4>2. \A j \in 1 .. (i - 1) : j \in DOMAIN shadows.lines /\ j # i
                BY <3>1, <4>1
            <4> QED
                BY <2>3, <3>2, <3>3, <4>2 DEF IsRow, r
        <3>5. Matches(i) = {a}
            BY <3>2, <3>3 DEF Matches, r
        <3>6. Cardinality({a}) = 1
            BY FS_Singleton
        <3> QED
            BY <3>4, <3>5, <3>6 DEF Attributed
    <2> QED
        BY <2>1, <2>2, <2>3 DEF ShadowIsOfTheServed
<1> QED
    BY <1>1, <1>2, <1>3, PTL DEF Spec
=============================================================================
