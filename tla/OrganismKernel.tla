--------------------------- MODULE OrganismKernel ---------------------------
(***************************************************************************)
(* OrganismKernel of src/organism.ts with the parts its operations change: *)
(* the causal graph, the fitness ledger, the gene outcomes and expressions *)
(* of the strategy archive, the energy accounts it closes, and the event   *)
(* store.  The process is single-threaded and may die between two appends; *)
(* an append may also throw, because the event id exists or because the    *)
(* write fails.  The constructor of the next process replays the log.      *)
(*                                                                         *)
(* "mem" is the state of the running process, "disk" what a replay of the  *)
(* log yields.  Replay is a left fold, so appending an event advances      *)
(* "disk" by the replay of that event; the event itself is kept in "log"   *)
(* when a later step looks at it.                                          *)
(***************************************************************************)
EXTENDS Integers, FiniteSets, Totals, CausalPaths

CONSTANTS
    Gene,               \* admitted strategy genes
    GeneOf,             \* the gene a contribution claims
    Credit,             \* what the host policy puts in escrow for it
    WorkEdge,           \* per host work, "produced" (artifact) or "consumed" (decision)
    Funding,            \* the missions the host allocates energy to
    Selection,          \* the expressions the host attests: a mission and its genes
    RegressionReceipt,  \* receipts of kind regression-recorded
    RegressionMission,  \* the mission such a receipt is for
    NoReceipt, NoMission,
    MaxEdges,           \* edges of the causal graph at most (bound)
    MaxRestarts,        \* deaths of the process considered (bound)
    MaxFaults           \* failed writes considered (bound)

\* A verification and its official-verification receipt share one id.
Receipt == Verifier \cup RegressionReceipt

ASSUME KernelAssumption ==
    /\ IsFiniteSet(Contribution)
    /\ GeneOf \in [Contribution -> Gene]
    /\ Credit \in [Contribution -> Nat]
    /\ WorkEdge \in [HostWork -> {"produced", "consumed"}]
    /\ Funding \subseteq Mission
    /\ Selection \subseteq Mission \X SUBSET Gene
    /\ RegressionMission \in [RegressionReceipt -> Mission]
    /\ Verifier \cap RegressionReceipt = {}
    /\ NoReceipt \notin Receipt
    /\ NoMission \notin Mission
    /\ MaxEdges \in Nat
    /\ MaxRestarts \in Nat
    /\ MaxFaults \in Nat

Status == {"none", "provisional", "vested", "clawed-back"}
Verdict == {"pass", "fail", "uncredited"}
Outcome == [gene : Gene, mission : Mission, receipt : Receipt,
            verdict : Verdict, fitness : Int]

\* An entry of the log that settles or punishes: fitness.mission-settled or
\* fitness.regression-recorded, with the outcome of the former.
Event == [receipt : Receipt, outcome : {"pass", "fail"},
          vested : SUBSET Contribution, clawedBack : SUBSET Contribution]

\* The part of the kernel the log is replayed into.
Projection ==
    [escrow : [Contribution -> Status],
     settledBy : [Contribution -> Receipt \cup {NoReceipt}],
     balance : [Gene -> Nat],
     outcomes : SUBSET Outcome,
     expressed : SUBSET (Mission \X Gene)]

VARIABLES
    mem,        \* escrows, balances, outcomes and expressions in memory
    disk,       \* the same as a replay of the log would rebuild them
    log,        \* the settlement and regression events appended
    nodes,      \* causality.#nodes, never replayed
    edges,      \* causality.#edges, never replayed
    funded,     \* missions that hold energy accounts, never replayed
    todo,       \* gene outcomes the running operation has yet to record
    settling,   \* the mission settle() is working on, or NoMission
    thrown,     \* an append has thrown in this process
    restarts, faults

vars == <<mem, disk, log, nodes, edges, funded, todo, settling, thrown,
          restarts, faults>>

graph == <<nodes, edges>>
bounds == <<restarts, faults>>

Fresh ==
    [escrow |-> [c \in Contribution |-> "none"],
     settledBy |-> [c \in Contribution |-> NoReceipt],
     balance |-> [g \in Gene |-> 0],
     outcomes |-> {},
     expressed |-> {}]

Init ==
    /\ mem = Fresh
    /\ disk = Fresh
    /\ log = {}
    /\ nodes = {}
    /\ edges = {}
    /\ funded = {}
    /\ todo = {}
    /\ settling = NoMission
    /\ thrown = FALSE
    /\ restarts = 0
    /\ faults = 0

-----------------------------------------------------------------------------
\* Sums over sets of contributions.
CreditOf(C) == Total(Credit, C)
OfGene(C, g) == {c \in C : GeneOf[c] = g}
InMission(C, m) == {c \in C : MissionOf[c] = m}
InStatus(p, status) == {c \in Contribution : p.escrow[c] = status}

\* The projection once these escrows have vested and these are clawed back.
Settled(p, vested, clawedBack, r) ==
    [p EXCEPT
        !.escrow = [c \in Contribution |-> IF c \in vested THEN "vested"
                                           ELSE IF c \in clawedBack THEN "clawed-back"
                                           ELSE p.escrow[c]],
        !.settledBy = [c \in Contribution |->
                          IF c \in vested \cup clawedBack THEN r ELSE p.settledBy[c]],
        !.balance = [g \in Gene |-> p.balance[g] + CreditOf(OfGene(vested, g))]]

Floor(n) == IF n < 0 THEN 0 ELSE n

\* Slip: a regression changes the status and leaves the balance alone.
RegressedStatusOnly(p, clawedBack, r) ==
    [p EXCEPT !.escrow = [c \in Contribution |->
                             IF c \in clawedBack THEN "clawed-back" ELSE p.escrow[c]]]

\* The projection once vested escrows are clawed back by a regression.
Regressed(p, clawedBack, r) ==
    [p EXCEPT
        !.escrow = [c \in Contribution |->
                       IF c \in clawedBack THEN "clawed-back" ELSE p.escrow[c]],
        !.settledBy = [c \in Contribution |->
                          IF c \in clawedBack THEN r ELSE p.settledBy[c]],
        !.balance = [g \in Gene |->
                        Floor(p.balance[g] - CreditOf(OfGene(clawedBack, g)))]]

\* Slips: replay trusts the event instead of the status; replay reads
\* settlements only.
ReplaySettlementUnchecked(p, e) == Settled(p, e.vested, e.clawedBack, e.receipt)
ReplayRegressionIgnored(p, e) == p

\* FitnessLedger.replay: #replaySettlement and #replayRegression skip an
\* escrow that is unknown or not in the status the event expects.
ReplaySettlement(p, e) ==
    Settled(p, e.vested \cap InStatus(p, "provisional"),
            e.clawedBack \cap InStatus(p, "provisional"), e.receipt)

ReplayRegression(p, e) ==
    Regressed(p, e.clawedBack \cap InStatus(p, "vested"), e.receipt)

\* FileEventStore.append refuses an id that was appended before.
Appended(r) == \E e \in log : e.receipt = r

-----------------------------------------------------------------------------
\* No operation runs: the process is between two calls.
Idle == todo = {} /\ settling = NoMission

\* allocate on the energy ledger.
Allocate(m) ==
    /\ Idle
    /\ funded' = funded \cup {m}
    /\ UNCHANGED <<mem, disk, log, graph, todo, settling, thrown, bounds>>

\* The append of the running operation went through, or it threw.
Persisted == UNCHANGED <<thrown, bounds>>
WriteFails ==
    /\ faults < MaxFaults
    /\ faults' = faults + 1
    /\ thrown' = TRUE
    /\ UNCHANGED restarts
RefusedAsDuplicate ==
    /\ thrown' = TRUE
    /\ UNCHANGED bounds

\* expressGenes: the archive remembers the expression, then it is appended.
ExpressGenes(m, genes) ==
    LET expressing(p) == [p EXCEPT !.expressed = @ \cup ({m} \X genes)]
    IN  /\ Idle
        /\ mem' = expressing(mem)
        /\ \/ disk' = expressing(disk) /\ Persisted
           \/ UNCHANGED disk /\ WriteFails
        /\ UNCHANGED <<log, graph, funded, todo, settling>>

\* recordContribution: the node is added first, so a refusal of the escrow
\* (none is due, or the contribution has one since before a restart) leaves
\* the node behind.
RecordContribution(c) ==
    LET opened(p) == [p EXCEPT !.escrow[c] = "provisional"]
    IN  /\ Idle
        /\ <<MissionOf[c], GeneOf[c]>> \in mem.expressed
        /\ c \notin nodes
        /\ nodes' = nodes \cup {c}
        /\ IF mem.escrow[c] # "none" \/ Credit[c] = 0
           THEN UNCHANGED <<mem, disk, thrown, bounds>>
           ELSE /\ mem' = opened(mem)
                /\ \/ disk' = opened(disk) /\ Persisted
                   \/ UNCHANGED disk /\ WriteFails
        /\ UNCHANGED <<log, edges, funded, todo, settling>>

-----------------------------------------------------------------------------
\* The edges the host may report into a node of mission m that it just
\* added: addHostEdge refuses every other source.
EdgesInto(n, kind, sources) == [kind : {kind}, source : sources, target : {n}]
SourcesFor(m) ==
    {S \in SUBSET InMission(nodes, m) : Cardinality(edges) + Cardinality(S) <= MaxEdges}

\* harvestArtifact and recordDecision: the node, then one edge per source.
\* A source addHostEdge refuses ends the call with the edges before it in
\* place, which is the effect of the call that names only those.
RecordHostWork(n, sources) ==
    /\ Idle
    /\ n \notin nodes
    /\ nodes' = nodes \cup {n}
    /\ edges' = edges \cup EdgesInto(n, WorkEdge[n], sources)
    /\ UNCHANGED <<mem, disk, log, funded, todo, settling, thrown, bounds>>

\* The host marks a node invalidated or duplicate through the graph itself.
Withdraw(source, target) ==
    LET e == [kind |-> "invalidated", source |-> source, target |-> target]
    IN  /\ Idle
        /\ e \notin edges
        /\ Cardinality(edges) < MaxEdges
        /\ source \in nodes /\ target \in nodes
        /\ MissionOf[source] = MissionOf[target]
        /\ ~HasPath(edges, target, source)
        /\ edges' = edges \cup {e}
        /\ UNCHANGED <<mem, disk, log, nodes, funded, todo, settling, thrown, bounds>>

-----------------------------------------------------------------------------
\* Slip: settle() reads every decided entry of the mission, also those an
\* earlier receipt decided.
SettlementOutcomesOfMission(p, m, r, verified, vested) ==
    LET decided == {c \in InMission(Contribution, m) : p.settledBy[c] # NoReceipt}
        fitness(g) == CreditOf(OfGene(decided \cap vested, g))
        verdict(g) == IF verified = "fail" THEN "fail"
                      ELSE IF fitness(g) > 0 THEN "pass" ELSE "uncredited"
    IN  {[gene |-> g, mission |-> m, receipt |-> r,
          verdict |-> verdict(g), fitness |-> fitness(g)] :
            g \in {GeneOf[c] : c \in decided}}

\* The gene outcomes settle() derives from the entries its receipt decided.
SettlementOutcomes(p, m, r, verified, vested) ==
    LET decided == {c \in Contribution : p.settledBy[c] = r /\ MissionOf[c] = m}
        fitness(g) == CreditOf(OfGene(decided \cap vested, g))
        verdict(g) == IF verified = "fail" THEN "fail"
                      ELSE IF fitness(g) > 0 THEN "pass" ELSE "uncredited"
    IN  {[gene |-> g, mission |-> m, receipt |-> r,
          verdict |-> verdict(g), fitness |-> fitness(g)] :
            g \in {GeneOf[c] : c \in decided}}

\* The gene outcomes recordRegression() derives from what it clawed back.
RegressionOutcomes(clawedBack, r) ==
    {[gene |-> g, mission |-> RegressionMission[r], receipt |-> r,
      verdict |-> "fail", fitness |-> -CreditOf(OfGene(clawedBack, g))] :
        g \in {GeneOf[c] : c \in clawedBack}}

\* Slips: credit that is not provisional any more is vested again; a passing
\* verdict vests the whole mission.
VestsAgain(v, verified, E) ==
    IF verified = "pass"
    THEN InMission(Contribution \ InStatus(mem, "none"), MissionOf[v]) \cap Eligible(E, v)
    ELSE {}
VestsWholeMission(v, verified, E) ==
    IF verified = "pass" THEN InMission(InStatus(mem, "provisional"), MissionOf[v]) ELSE {}

\* What settleMission vests: provisional credit of the verified mission on
\* a credit path of a passing verifier.
Vests(v, verified, E) ==
    IF verified = "pass"
    THEN InMission(InStatus(mem, "provisional"), MissionOf[v]) \cap Eligible(E, v)
    ELSE {}

\* settle up to its settlement event: the verifier node with its citations,
\* the fitness ledger, the append; then the gene outcomes are due, and the
\* mission's energy is closed when none is left.
Settle(v, verified, cited) ==
    LET m == MissionOf[v]
        E == edges \cup EdgesInto(v, "cited", cited)
        vested == Vests(v, verified, E)
        clawedBack == InMission(InStatus(mem, "provisional"), m) \ vested
        after == Settled(mem, vested, clawedBack, v)
        event == [receipt |-> v, outcome |-> verified,
                  vested |-> vested, clawedBack |-> clawedBack]
        due == SettlementOutcomes(after, m, v, verified, vested)
    IN  /\ Idle
        /\ v \notin nodes
        /\ nodes' = nodes \cup {v}
        /\ edges' = E
        /\ mem' = after
        /\ \/ /\ ~Appended(v)
              /\ disk' = ReplaySettlement(disk, event)
              /\ log' = log \cup {event}
              /\ todo' = due
              /\ settling' = IF due = {} THEN NoMission ELSE m
              /\ funded' = IF due = {} THEN funded \ {m} ELSE funded
              /\ Persisted
           \/ /\ IF Appended(v) THEN RefusedAsDuplicate ELSE WriteFails
              /\ UNCHANGED <<disk, log, todo, settling, funded>>

\* settle ends early when a citation is refused: nothing is settled.
SettleRefused(v, cited) ==
    /\ Idle
    /\ v \notin nodes
    /\ nodes' = nodes \cup {v}
    /\ edges' = edges \cup EdgesInto(v, "cited", cited)
    /\ UNCHANGED <<mem, disk, log, funded, todo, settling, thrown, bounds>>

\* recordRegression up to its event.  The call skips whatever it names that
\* is not vested, so Next lets it name vested contributions only.
RecordRegression(named, r) ==
    LET clawedBack == named \cap InStatus(mem, "vested")
        event == [receipt |-> r, outcome |-> "fail",
                  vested |-> {}, clawedBack |-> clawedBack]
    IN  /\ Idle
        /\ mem' = Regressed(mem, clawedBack, r)
        /\ \/ /\ ~Appended(r)
              /\ disk' = ReplayRegression(disk, event)
              /\ log' = log \cup {event}
              /\ todo' = RegressionOutcomes(clawedBack, r)
              /\ Persisted
           \/ /\ IF Appended(r) THEN RefusedAsDuplicate ELSE WriteFails
              /\ UNCHANGED <<disk, log, todo>>
        /\ UNCHANGED <<graph, funded, settling>>

\* One turn of the loops that record gene outcomes: the archive remembers
\* the outcome, then it is appended.  After the last one of a settlement
\* the mission's energy is closed.
RecordOutcome(o) ==
    LET recorded(p) == [p EXCEPT !.outcomes = @ \cup {o}]
    IN  /\ o \in todo
        /\ mem' = recorded(mem)
        /\ \/ /\ disk' = recorded(disk)
              /\ todo' = todo \ {o}
              /\ settling' = IF todo = {o} THEN NoMission ELSE settling
              /\ funded' = IF todo = {o} THEN funded \ {settling} ELSE funded
              /\ Persisted
           \/ /\ WriteFails
              /\ todo' = {}
              /\ settling' = NoMission
              /\ UNCHANGED <<disk, funded>>
        /\ UNCHANGED <<log, graph>>

-----------------------------------------------------------------------------
\* The process dies, at rest or between two appends, and the next one is
\* constructed from the log.
Restart ==
    /\ restarts < MaxRestarts
    /\ restarts' = restarts + 1
    /\ mem' = disk
    /\ nodes' = {}
    /\ edges' = {}
    /\ funded' = {}
    /\ todo' = {}
    /\ settling' = NoMission
    /\ thrown' = FALSE
    /\ UNCHANGED <<disk, log, faults>>

Next ==
    \/ \E m \in Funding : Allocate(m)
    \/ \E selected \in Selection : ExpressGenes(selected[1], selected[2])
    \/ \E c \in Contribution : RecordContribution(c)
    \/ \E n \in HostWork : \E S \in SourcesFor(MissionOf[n]) : RecordHostWork(n, S)
    \/ \E s, t \in Node : Withdraw(s, t)
    \/ \E v \in Verifier, verified \in {"pass", "fail"} :
          \E S \in SourcesFor(MissionOf[v]) : Settle(v, verified, S)
    \/ \E v \in Verifier : \E S \in SourcesFor(MissionOf[v]) : SettleRefused(v, S)
    \/ \E named \in SUBSET InStatus(mem, "vested"), r \in RegressionReceipt :
          RecordRegression(named, r)
    \/ \E o \in todo : RecordOutcome(o)
    \/ Restart

Spec == Init /\ [][Next]_vars

-----------------------------------------------------------------------------
\* Memory, replayed state, log and pending outcomes are well formed, and no
\* balance is negative.
TypeOK ==
    /\ {mem, disk} \subseteq Projection
    /\ log \subseteq Event
    /\ nodes \subseteq Node
    /\ edges \subseteq Edge
    /\ funded \subseteq Mission
    /\ todo \subseteq Outcome
    /\ settling \in Mission \cup {NoMission}
    /\ thrown \in BOOLEAN
    /\ restarts \in Nat
    /\ faults \in Nat

\* The balance a gene is credited with is what its vested escrows add up to,
\* in memory and after any replay: settlements, regressions of any mission
\* and restarts never make the two accounts of the same credit drift apart,
\* or one of them leave its type, as a negative balance would.
BalanceIsVestedCredit ==
    /\ TypeOK
    /\ \A p \in {mem, disk} : \A g \in Gene :
           p.balance[g] = CreditOf(OfGene(InStatus(p, "vested"), g))

\* As long as no append has thrown, a restart changes nothing: the live
\* code of settle and recordRegression and the replay code agree.
MemoryIsReplay == ~thrown => mem = disk

\* Every recorded gene outcome says exactly what one logged settlement or
\* regression did to that gene: the verdict and the vested or lost credit.
OutcomesAreExact ==
    \A o \in mem.outcomes : \E e \in log :
        LET mine(C) == OfGene(C, o.gene)
            gain == CreditOf(mine(e.vested))
        IN  /\ e.receipt = o.receipt
            /\ mine(e.vested \cup e.clawedBack) # {}
            /\ IF o.receipt \in Verifier
               THEN /\ o.fitness = gain
                    /\ o.mission = MissionOf[o.receipt]
                    /\ o.verdict = IF e.outcome = "fail" THEN "fail"
                                   ELSE IF mine(e.vested) # {} THEN "pass"
                                   ELSE "uncredited"
               ELSE /\ o.fitness = -CreditOf(mine(e.clawedBack))
                    /\ o.verdict = "fail"

\* While writes succeed no two verifications decide the same credit, across
\* restarts and retries with an old receipt.  (A contribution whose escrow
\* could not be written and that is recorded anew after a restart is decided
\* a second time: its first settlement names an escrow no replay knows.)
DecidedOnce ==
    faults = 0 => \A e, f \in {x \in log : x.receipt \in Verifier} :
                      e # f => (e.vested \cup e.clawedBack)
                                   \cap (f.vested \cup f.clawedBack) = {}

\* Credit vests in a step of the live process only on a host-attested path:
\* a verification of the contribution's own mission enters the graph in
\* that step and credit edges lead from it back to the contribution.
VestingNeedsLineage ==
    [][\A c \in Contribution :
          mem'.escrow[c] = "vested" /\ mem.escrow[c] # "vested" /\ restarts' = restarts =>
              \E v \in Verifier \cap (nodes' \ nodes) :
                  MissionOf[v] = MissionOf[c] /\ c \in Eligible(edges', v)]_vars

\* What the log says of every credit is a behaviour of CreditEscrow: decided
\* once, punished at most once, never resurrected.
Durable == INSTANCE CreditEscrow WITH credit <- disk.escrow
DurableCredit == Durable!Spec

\* Every gene that a logged settlement or regression touched keeps its
\* reward or punishment: at rest its outcome is in the archive.
NoVerdictIsLost ==
    Idle => \A e \in log : \A c \in e.vested \cup e.clawedBack :
                \E o \in mem.outcomes : o.receipt = e.receipt /\ o.gene = GeneOf[c]
=============================================================================
