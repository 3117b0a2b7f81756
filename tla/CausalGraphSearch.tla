-------------------------- MODULE CausalGraphSearch --------------------------
(***************************************************************************)
(* The two work-list searches of src/causalGraph.ts, pass by pass, and the *)
(* claim that they end and compute the closures of CausalPaths.            *)
(***************************************************************************)
EXTENDS CausalGraph, SequencesExt

\* A search: its queue, what it visited, and whether it met its goal.
Begin(queue, visited) == [queue |-> queue, visited |-> visited, met |-> FALSE]
AtEnd(s) == s.queue = <<>> \/ s.met

\* The targets of edges, one entry per edge, in an order that is left open.
TargetsOf(found) ==
    LET listed == SetToSeq(found) IN [i \in 1 .. Len(listed) |-> listed[i].target]

\* A pass of #hasPath: a node is marked visited when it leaves the queue, and
\* is put in as often as an edge leads to it.
ForwardPass(E, to, s) ==
    LET current == Head(s.queue)
        onward == TargetsOf({e \in E : e.source = current})
    IN  IF AtEnd(s) THEN s
        ELSE IF current = to THEN [s EXCEPT !.met = TRUE]
        ELSE IF current \in s.visited THEN [s EXCEPT !.queue = Tail(@)]
        ELSE [s EXCEPT !.queue = Tail(@) \o onward, !.visited = @ \cup {current}]

\* Each pass takes one entry from the queue and each edge is put in once, so the
\* loop is over after this many.
Passes(E) == Cardinality(E) + 1

\* A slip the checks must notice: the start is never compared with the goal.
SearchPathSkippingStart(E, from, to) ==
    LET walk[n \in 0 .. Passes(E)] ==
            IF n = 0 THEN Begin(TargetsOf({e \in E : e.source = from}), {})
            ELSE ForwardPass(E, to, walk[n - 1])
    IN  walk[Passes(E)]

SearchPath(E, from, to) ==
    LET walk[n \in 0 .. Passes(E)] ==
            IF n = 0 THEN Begin(<<from>>, {}) ELSE ForwardPass(E, to, walk[n - 1])
    IN  walk[Passes(E)]

\* A pass of eligibleContributions: a source is marked visited when it enters
\* the queue, and an excluded source never enters it.
BackwardPass(E, s) ==
    LET found == {e.source : e \in {f \in E :
                    /\ f.target = Head(s.queue)
                    /\ f.kind \in CreditKind
                    /\ f.source \notin Excluded(E) \cup s.visited}}
    IN  IF AtEnd(s) THEN s
        ELSE [s EXCEPT !.queue = Tail(@) \o SetToSeq(found), !.visited = @ \cup found]

SearchLineage(E, v) ==
    LET walk[n \in 0 .. Passes(E)] ==
            IF n = 0 THEN Begin(<<v>>, {v}) ELSE BackwardPass(E, walk[n - 1])
    IN  walk[Passes(E)]

\* The cycle check and the credit walk of the code come to an end and return
\* exactly the reachability the rest of the project reasons about, for every
\* pair of nodes and every verifier of the graph.
SearchesAreExact ==
    /\ \A from, to \in nodes :
          LET end == SearchPath(edges, from, to)
          IN  AtEnd(end) /\ (end.met <=> HasPath(edges, from, to))
    /\ \A v \in passed :
          LET end == SearchLineage(edges, v)
          IN  AtEnd(end) /\ end.visited \cap Contribution = Eligible(edges, v)

=============================================================================
