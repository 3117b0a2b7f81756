----------------------------- MODULE MCLibraries -----------------------------
(* The components that a caller drives call by call and that share nothing: *)
(* the causal graph, the energy ledger, the swarm kernel, the task          *)
(* coordinator and the gates of an adapter.  An initial state says which    *)
(* one is explored; the others rest.                                        *)
EXTENDS CausalGraphSearch, EnergyLedger, SwarmKernel, TaskCoordinator, AdapterGates, TLC

CONSTANTS c1, c2, c3, d1, v1, m1, m2, e1, e2, a1, a2, r1, r2, r3, s1, s2, t1, t2, t3,
    Parts       \* which of the components are explored

VARIABLE part

\* A mission of two contributions, one host work and one verification, with a
\* contribution of a second mission beside it.
MCContribution == {c1, c2, c3}
MCHostWork == {d1}
MCVerifier == {v1}
MCMission == {m1, m2}
MCMissionOf == [n \in {c1, c2, c3, d1, v1} |-> IF n = c3 THEN m2 ELSE m1]

\* Two missions of two actors, three reservation ids.
MCMissionId == {e1, e2}
MCActorId == {a1, a2}
MCReservationId == {r1, r2, r3}

\* Two agents and three tasks, two of which may be offered as each other's
\* dependency; the third depends on both.
MCAgent == {s1, s2}
MCSwarmTask == {t1, t2, t3}
MCOffer == {<<t1, {}>>, <<t1, {t2}>>, <<t2, {}>>, <<t2, {t1}>>, <<t3, {t1, t2}>>}

\* Ids of one kind are interchangeable where no constant tells them apart.
MCSymmetry ==
    Permutations(MCReservationId) \cup Permutations(MCMissionId)

\* What a worker may bring to the board.
Item(kind, status, receipt) ==
    [statement |-> "done", kind |-> kind, status |-> status, receipt |-> receipt]
MCBoardEntry ==
    {Item("fact", "observed", FALSE), Item("artifact", "verified", TRUE),
     Item("artifact", "proposed", FALSE), Item("test", "verified", TRUE),
     Item("test", "verified", FALSE), Item("gap", "unresolved", FALSE),
     Item("decision", "verified", FALSE)}

\* Gradings and mission comparisons for and against the adapter, one grading of
\* another adapter, and a comparison of too few missions.
Comparison(kind, names, good, ready) ==
    [kind |-> kind, names |-> names, good |-> good, ready |-> ready]
MCReceipt ==
    {Comparison("grading", TRUE, TRUE, FALSE), Comparison("grading", TRUE, FALSE, FALSE),
     Comparison("grading", FALSE, TRUE, FALSE), Comparison("missions", TRUE, TRUE, TRUE),
     Comparison("missions", TRUE, FALSE, TRUE), Comparison("missions", TRUE, TRUE, FALSE)}

\* The given component takes a step.
InGraph == part = "graph" /\ UNCHANGED <<part, energyVars, swarmVars, taskVars, gateVars>>
InEnergy == part = "energy" /\ UNCHANGED <<part, graphVars, swarmVars, taskVars, gateVars>>
InSwarm == part = "swarm" /\ UNCHANGED <<part, graphVars, energyVars, taskVars, gateVars>>
InTasks == part = "tasks" /\ UNCHANGED <<part, graphVars, energyVars, swarmVars, gateVars>>
InGates == part = "gates" /\ UNCHANGED <<part, graphVars, energyVars, swarmVars, taskVars>>

MCInit ==
    /\ part \in Parts
    /\ GraphInit /\ EnergyInit /\ SwarmInit /\ TaskInit /\ GatesInit
    /\ part # "tasks" => maxUnits = RequiredUnits

MCNext ==
    \/ InGraph /\ \E c \in Contribution : AddContribution(c)
    \/ InGraph /\ \E n \in HostWork : AddHostWork(n)
    \/ InGraph /\ \E v \in Verifier, outcome \in {"pass", "fail"} : AddVerifier(v, outcome)
    \/ InGraph /\ \E e \in OfferedEdge, m \in Mission : AddHostEdge(e, m)
    \/ InEnergy /\ \E k \in Key, amount \in Amount : Allocate(k, amount)
    \/ InEnergy /\ \E r \in ReservationId, k \in Key, amount \in Amount :
          Reserve(r, k, amount)
    \/ InEnergy /\ \E r \in ReservationId, spent \in 0 .. MaxAllocation :
          SettleReservation(r, spent)
    \/ InEnergy /\ \E m \in MissionId : CloseMission(m)
    \/ InSwarm /\ \E a \in Agent : RegisterAgent(a)
    \/ InSwarm /\ \E offer \in Offer : AddTask(offer[1], offer[2])
    \/ InSwarm /\ Bids
    \/ InSwarm /\ \E limit \in 1 .. Cardinality(Agent) : SelfOrganize(limit)
    \/ InSwarm /\ \E a \in Agent, t \in SwarmTask, refs \in RefCounts, earned \in PartialPay :
          RecordPartialProgress(a, t, refs, earned)
    \/ InSwarm /\ \E a \in Agent, t \in SwarmTask, refs \in RefCounts :
          \E earned \in Pay, skilled \in BOOLEAN :
             RecordVerifiedOutcome(a, t, refs, earned, skilled)
    \/ InSwarm /\ \E a \in Agent, t \in SwarmTask, refs \in RefCounts :
          RecordFailedOutcome(a, t, refs)
    \/ InTasks /\ \E items \in Results("state-compiler") : Compile(items)
    \/ InTasks /\ \E items \in Results("solver-builder") : Build(items)
    \/ InTasks /\ \E items \in Results("repairer") : Repair(items)
    \/ InTasks /\ \E items \in Results("verifier"), status \in {"repair", "blocked"} :
          VerifyFails(items, status)
    \/ InTasks /\ \E items \in Results("verifier") :
          \E judgement \in Judgement(Len(items)) : VerifyPasses(items, judgement)
    \/ InTasks /\ \E items \in Results("integrator") : Integrate(items)
    \/ InTasks /\ Throws
    \/ InGates /\ \E training \in Receipt :
          \E gradings \in UNION {[1 .. n -> Receipt] : n \in 0 .. 2} :
             RecordThrough(training, gradings)
    \/ InGates /\ \E i \in DOMAIN Ladder, status \in GateStatus, receipt \in Receipt :
          RecordAdapterGate(i, status, receipt)
    \/ InGates /\ \E i \in DOMAIN Ladder, status \in GateStatus, receipt, payload \in Receipt :
          \E authority \in {"host", "organism"} :
             RecordHostAdapterGate(i, status, receipt, authority, payload)

MCSpec == MCInit /\ [][MCNext]_<<part, graphVars, energyVars, swarmVars, taskVars, gateVars>>
=============================================================================
