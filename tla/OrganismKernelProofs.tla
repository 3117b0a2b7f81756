------------------------- MODULE OrganismKernelProofs -------------------------
(***************************************************************************)
(* Proofs about OrganismKernel for any finite set of contributions, any    *)
(* credit policy, any host evidence and any number of restarts and failed  *)
(* writes.                                                                 *)
(*                                                                         *)
(* Every operation changes memory and the replayed state by one of five    *)
(* projection steps (StepsOfProjections): what a projection promises is    *)
(* proved once per projection step, and what relates memory, log and       *)
(* replayed state once per action.                                         *)
(***************************************************************************)
EXTENDS OrganismKernel, DataProofs

\* No replay knows an escrow that memory has not opened.
DiskBehind == \A c \in Contribution : mem.escrow[c] = "none" => disk.escrow[c] = "none"

\* The balances of a projection are its vested credit.
Consistent(p) ==
    \A g \in Gene : p.balance[g] = CreditOf(OfGene(InStatus(p, "vested"), g))

\* What one operation, or its replay, does to a projection.
Unaffected(p, q) ==
    /\ q \in Projection
    /\ q.escrow = p.escrow
    /\ q.settledBy = p.settledBy
    /\ q.balance = p.balance

OpenedFor(p, q) ==
    \E c \in InStatus(p, "none") :
        Credit[c] # 0 /\ q = [p EXCEPT !.escrow[c] = "provisional"]

SettledBy(p, q) ==
    \E V, K \in SUBSET InStatus(p, "provisional"), r \in Verifier :
        V \cap K = {} /\ q = Settled(p, V, K, r)

RegressedBy(p, q) ==
    \E K \in SUBSET InStatus(p, "vested"), r \in RegressionReceipt : q = Regressed(p, K, r)

KeepingStep(p, q) ==
    \/ Unaffected(p, q)
    \/ SettledBy(p, q)
    \/ RegressedBy(p, q)

ProjectionStep(p, q) == OpenedFor(p, q) \/ KeepingStep(p, q)

\* What recordContribution does to memory and, if its append succeeds, to
\* the replayed state.
OpeningStep ==
    \E c \in InStatus(mem, "none") \cap InStatus(disk, "none") :
        /\ Credit[c] # 0
        /\ mem' = [mem EXCEPT !.escrow[c] = "provisional"]
        /\ disk' \in {disk, [disk EXCEPT !.escrow[c] = "provisional"]}

-----------------------------------------------------------------------------
\* Credit of a set of contributions, and of a gene in it.
LEMMA CreditType ==
    ASSUME NEW S \in SUBSET Contribution
    PROVE  CreditOf(S) \in Nat
<1>1. IsFiniteSet(S)
    BY KernelAssumption, FS_Subset
<1>2. \A c \in S : Credit[c] \in Nat
    BY KernelAssumption
<1> QED
    BY <1>1, <1>2, TotalType DEF CreditOf

LEMMA CreditOfUnion ==
    ASSUME NEW S \in SUBSET Contribution, NEW T \in SUBSET Contribution, S \cap T = {}
    PROVE  CreditOf(S \cup T) = CreditOf(S) + CreditOf(T)
<1>1. IsFiniteSet(S) /\ IsFiniteSet(T)
    BY KernelAssumption, FS_Subset
<1>2. \A c \in S \cup T : Credit[c] \in Nat
    BY KernelAssumption
<1> QED
    BY <1>1, <1>2, TotalOfUnion DEF CreditOf

\* A set with a contribution that is worth something is worth something.
LEMMA CreditPositive ==
    ASSUME NEW S \in SUBSET Contribution, NEW c \in S, Credit[c] # 0
    PROVE  CreditOf(S) > 0
<1>1. IsFiniteSet(S)
    BY KernelAssumption, FS_Subset
<1>2. \A x \in S : Credit[x] \in Nat
    BY KernelAssumption
<1>3. Credit[c] <= Total(Credit, S)
    BY <1>1, <1>2, TotalWithout
<1>4. Credit[c] > 0
    BY <1>2
<1>5. Total(Credit, S) \in Nat
    BY <1>1, <1>2, TotalType
<1> QED
    BY <1>2, <1>3, <1>4, <1>5 DEF CreditOf

-----------------------------------------------------------------------------
\* The fields of a settled projection.
LEMMA SettledType ==
    ASSUME NEW p \in Projection, NEW V \in SUBSET Contribution,
           NEW K \in SUBSET Contribution, NEW r \in Receipt
    PROVE  Settled(p, V, K, r) \in Projection
<1>1. \A g \in Gene : CreditOf(OfGene(V, g)) \in Nat
    BY CreditType DEF OfGene
<1>2. \A g \in Gene : p.balance[g] + CreditOf(OfGene(V, g)) \in Nat
    BY <1>1 DEF Projection
<1> QED
    BY <1>2 DEF Settled, Projection, Status

LEMMA SettledStatus ==
    ASSUME NEW p \in Projection, NEW V, NEW K, NEW r, NEW c \in Contribution
    PROVE  Settled(p, V, K, r).escrow[c] = IF c \in V THEN "vested"
                                           ELSE IF c \in K THEN "clawed-back"
                                           ELSE p.escrow[c]
BY DEF Settled, Projection

LEMMA SettledReceipt ==
    ASSUME NEW p \in Projection, NEW V, NEW K, NEW r, NEW c \in Contribution
    PROVE  Settled(p, V, K, r).settledBy[c] =
              IF c \in V \cup K THEN r ELSE p.settledBy[c]
BY DEF Settled, Projection

LEMMA SettledBalance ==
    ASSUME NEW p \in Projection, NEW V, NEW K, NEW r, NEW g \in Gene
    PROVE  Settled(p, V, K, r).balance[g] = p.balance[g] + CreditOf(OfGene(V, g))
BY DEF Settled, Projection

LEMMA SettledArchive ==
    ASSUME NEW p \in Projection, NEW V, NEW K, NEW r
    PROVE  Settled(p, V, K, r).outcomes = p.outcomes
BY DEF Settled, Projection

\* The fields of a regressed projection.
LEMMA FloorOfNat ==
    ASSUME NEW n \in Int
    PROVE  /\ Floor(n) \in Nat
           /\ n >= 0 => Floor(n) = n
BY DEF Floor

LEMMA RegressedType ==
    ASSUME NEW p \in Projection, NEW K \in SUBSET Contribution, NEW r \in Receipt
    PROVE  Regressed(p, K, r) \in Projection
<1>1. \A g \in Gene : CreditOf(OfGene(K, g)) \in Nat
    BY CreditType DEF OfGene
<1>2. \A g \in Gene : p.balance[g] - CreditOf(OfGene(K, g)) \in Int
    BY <1>1 DEF Projection
<1>3. \A g \in Gene : Floor(p.balance[g] - CreditOf(OfGene(K, g))) \in Nat
    BY <1>2, FloorOfNat
<1> QED
    BY <1>3 DEF Regressed, Projection, Status

LEMMA RegressedStatus ==
    ASSUME NEW p \in Projection, NEW K, NEW r, NEW c \in Contribution
    PROVE  Regressed(p, K, r).escrow[c] = IF c \in K THEN "clawed-back" ELSE p.escrow[c]
BY DEF Regressed, Projection

LEMMA RegressedReceipt ==
    ASSUME NEW p \in Projection, NEW K, NEW r, NEW c \in Contribution
    PROVE  Regressed(p, K, r).settledBy[c] = IF c \in K THEN r ELSE p.settledBy[c]
BY DEF Regressed, Projection

LEMMA RegressedBalance ==
    ASSUME NEW p \in Projection, NEW K, NEW r, NEW g \in Gene
    PROVE  Regressed(p, K, r).balance[g] = Floor(p.balance[g] - CreditOf(OfGene(K, g)))
BY DEF Regressed, Projection

LEMMA RegressedArchive ==
    ASSUME NEW p \in Projection, NEW K, NEW r
    PROVE  Regressed(p, K, r).outcomes = p.outcomes
BY DEF Regressed, Projection

\* An escrow that is opened changes its own status and nothing else.
LEMMA OpenedFields ==
    ASSUME NEW p \in Projection, NEW c \in Contribution
    PROVE  /\ [p EXCEPT !.escrow[c] = "provisional"] \in Projection
           /\ [p EXCEPT !.escrow[c] = "provisional"].settledBy = p.settledBy
           /\ [p EXCEPT !.escrow[c] = "provisional"].balance = p.balance
           /\ [p EXCEPT !.escrow[c] = "provisional"].outcomes = p.outcomes
BY DEF Projection, Status

LEMMA OpenedStatus ==
    ASSUME NEW p \in Projection, NEW c \in Contribution, NEW d \in Contribution
    PROVE  [p EXCEPT !.escrow[c] = "provisional"].escrow[d] =
              IF d = c THEN "provisional" ELSE p.escrow[d]
BY DEF Projection

-----------------------------------------------------------------------------
\* Each projection step keeps the balances equal to the vested credit.
LEMMA SettledConsistent ==
    ASSUME NEW p \in Projection, Consistent(p), NEW r \in Receipt,
           NEW V \in SUBSET InStatus(p, "provisional"),
           NEW K \in SUBSET InStatus(p, "provisional"), V \cap K = {}
    PROVE  Consistent(Settled(p, V, K, r))
<1> DEFINE q == Settled(p, V, K, r)
<1>1. V \in SUBSET Contribution /\ K \in SUBSET Contribution
    BY DEF InStatus
<1>2. InStatus(q, "vested") = InStatus(p, "vested") \cup V
    BY <1>1, SettledStatus DEF InStatus
<1> SUFFICES ASSUME NEW g \in Gene
             PROVE  q.balance[g] = CreditOf(OfGene(InStatus(q, "vested"), g))
    BY DEF Consistent
<1> DEFINE S == OfGene(InStatus(p, "vested"), g)
           T == OfGene(V, g)
<1>3. OfGene(InStatus(q, "vested"), g) = S \cup T
    BY <1>2 DEF OfGene
<1>4. S \in SUBSET Contribution /\ T \in SUBSET Contribution /\ S \cap T = {}
    BY DEF OfGene, InStatus
<1>5. CreditOf(S \cup T) = CreditOf(S) + CreditOf(T)
    BY <1>4, CreditOfUnion
<1>6. q.balance[g] = p.balance[g] + CreditOf(T)
    BY SettledBalance
<1>7. p.balance[g] = CreditOf(S)
    BY DEF Consistent
<1> QED
    BY <1>3, <1>5, <1>6, <1>7

LEMMA RegressedConsistent ==
    ASSUME NEW p \in Projection, Consistent(p), NEW r \in Receipt,
           NEW K \in SUBSET InStatus(p, "vested")
    PROVE  Consistent(Regressed(p, K, r))
<1> DEFINE q == Regressed(p, K, r)
<1>1. K \in SUBSET Contribution
    BY DEF InStatus
<1>2. InStatus(q, "vested") = InStatus(p, "vested") \ K
    BY <1>1, RegressedStatus DEF InStatus
<1> SUFFICES ASSUME NEW g \in Gene
             PROVE  q.balance[g] = CreditOf(OfGene(InStatus(q, "vested"), g))
    BY DEF Consistent
<1> DEFINE S == OfGene(InStatus(p, "vested") \ K, g)
           T == OfGene(K, g)
<1>3. OfGene(InStatus(p, "vested"), g) = S \cup T
    BY DEF OfGene
<1>4. S \in SUBSET Contribution /\ T \in SUBSET Contribution /\ S \cap T = {}
    BY DEF OfGene, InStatus
<1>5. CreditOf(S \cup T) = CreditOf(S) + CreditOf(T)
    BY <1>4, CreditOfUnion
<1>6. CreditOf(S) \in Nat /\ CreditOf(T) \in Nat
    BY <1>4, CreditType
<1>7. p.balance[g] = CreditOf(S) + CreditOf(T)
    BY <1>3, <1>5 DEF Consistent
<1>8. q.balance[g] = Floor(p.balance[g] - CreditOf(T))
    BY RegressedBalance
<1>9. p.balance[g] - CreditOf(T) = CreditOf(S)
    BY <1>6, <1>7
<1>10. q.balance[g] = CreditOf(S)
    BY <1>6, <1>8, <1>9, FloorOfNat
<1> QED
    BY <1>2, <1>10

LEMMA StepKeepsType ==
    ASSUME NEW p \in Projection, NEW q, ProjectionStep(p, q)
    PROVE  q \in Projection
<1>1. CASE Unaffected(p, q)
    BY <1>1 DEF Unaffected
<1>2. CASE OpenedFor(p, q)
    BY <1>2, OpenedFields DEF OpenedFor, InStatus
<1>3. CASE SettledBy(p, q)
    <2>1. PICK V, K \in SUBSET InStatus(p, "provisional"), r \in Verifier :
              q = Settled(p, V, K, r)
        BY <1>3 DEF SettledBy
    <2> QED
        BY <2>1, SettledType DEF Receipt, InStatus
<1>4. CASE RegressedBy(p, q)
    <2>1. PICK K \in SUBSET InStatus(p, "vested"), r \in RegressionReceipt :
              q = Regressed(p, K, r)
        BY <1>4 DEF RegressedBy
    <2> QED
        BY <2>1, RegressedType DEF Receipt, InStatus
<1> QED
    BY <1>1, <1>2, <1>3, <1>4 DEF ProjectionStep, KeepingStep

LEMMA StepKeepsConsistent ==
    ASSUME NEW p \in Projection, NEW q, Consistent(p), ProjectionStep(p, q)
    PROVE  Consistent(q)
<1>1. CASE Unaffected(p, q)
    BY <1>1 DEF Unaffected, Consistent, InStatus
<1>2. CASE OpenedFor(p, q)
    <2>1. PICK c \in InStatus(p, "none") : q = [p EXCEPT !.escrow[c] = "provisional"]
        BY <1>2 DEF OpenedFor
    <2>2. c \in Contribution /\ p.escrow[c] = "none"
        BY DEF InStatus
    <2>3. InStatus(q, "vested") = InStatus(p, "vested")
        BY <2>1, <2>2, OpenedStatus DEF InStatus
    <2> QED
        BY <2>1, <2>2, <2>3, OpenedFields DEF Consistent
<1>3. CASE SettledBy(p, q)
    <2>1. PICK V, K \in SUBSET InStatus(p, "provisional"), r \in Verifier :
              V \cap K = {} /\ q = Settled(p, V, K, r)
        BY <1>3 DEF SettledBy
    <2> QED
        BY <2>1, SettledConsistent DEF Receipt
<1>4. CASE RegressedBy(p, q)
    <2>1. PICK K \in SUBSET InStatus(p, "vested"), r \in RegressionReceipt :
              q = Regressed(p, K, r)
        BY <1>4 DEF RegressedBy
    <2> QED
        BY <2>1, RegressedConsistent DEF Receipt
<1> QED
    BY <1>1, <1>2, <1>3, <1>4 DEF ProjectionStep, KeepingStep

-----------------------------------------------------------------------------
\* Expressions and outcomes that are added leave every escrow alone.
LEMMA MoreExpressed ==
    ASSUME NEW p \in Projection, NEW selected \in Selection
    PROVE  Unaffected(p, [p EXCEPT !.expressed =
                                    p.expressed \cup ({selected[1]} \X selected[2])])
<1>1. selected[1] \in Mission /\ selected[2] \in SUBSET Gene
    BY KernelAssumption
<1>2. p.expressed \cup ({selected[1]} \X selected[2]) \in SUBSET (Mission \X Gene)
    BY <1>1 DEF Projection
<1> QED
    BY <1>2 DEF Unaffected, Projection

LEMMA MoreOutcomes ==
    ASSUME NEW p \in Projection, NEW o \in Outcome
    PROVE  /\ Unaffected(p, [p EXCEPT !.outcomes = p.outcomes \cup {o}])
           /\ [p EXCEPT !.outcomes = p.outcomes \cup {o}].outcomes = p.outcomes \cup {o}
BY DEF Unaffected, Projection

LEMMA UnaffectedSame ==
    ASSUME NEW p \in Projection
    PROVE  KeepingStep(p, p)
BY DEF KeepingStep, Unaffected

\* What settle() and recordRegression() decide is in the status they expect.
LEMMA VestsProvisional ==
    ASSUME NEW v, NEW verified, NEW E
    PROVE  Vests(v, verified, E) \subseteq
              {c \in InStatus(mem, "provisional") : MissionOf[c] = MissionOf[v]}
BY DEF Vests, InMission

\* The projection steps a settlement takes in memory and in a replay.
LEMMA SettleSteps ==
    ASSUME TypeOK, NEW v \in Verifier, NEW verified \in {"pass", "fail"}, NEW cited,
           Settle(v, verified, cited)
    PROVE  KeepingStep(mem, mem') /\ KeepingStep(disk, disk')
<1> DEFINE vested == Vests(v, verified, edges \cup EdgesInto(v, "cited", cited))
           clawedBack == InMission(InStatus(mem, "provisional"), MissionOf[v]) \ vested
           event == [receipt |-> v, outcome |-> verified,
                     vested |-> vested, clawedBack |-> clawedBack]
<1>1. mem \in Projection /\ disk \in Projection
    BY DEF TypeOK
<1>2. /\ vested \in SUBSET InStatus(mem, "provisional")
      /\ clawedBack \in SUBSET InStatus(mem, "provisional")
      /\ vested \cap clawedBack = {}
    BY VestsProvisional DEF InMission
<1>3. mem' = Settled(mem, vested, clawedBack, v)
    BY DEF Settle
<1>4. disk' = disk \/ disk' = ReplaySettlement(disk, event)
    BY DEF Settle
<1> HIDE DEF vested, clawedBack
<1>5. SettledBy(mem, mem')
    BY <1>2, <1>3 DEF SettledBy
<1>6. ASSUME disk' = ReplaySettlement(disk, event)
      PROVE  SettledBy(disk, disk')
    <2> DEFINE V == vested \cap InStatus(disk, "provisional")
               K == clawedBack \cap InStatus(disk, "provisional")
    <2>1. disk' = Settled(disk, V, K, v)
        BY <1>6 DEF ReplaySettlement
    <2>2. /\ V \in SUBSET InStatus(disk, "provisional")
          /\ K \in SUBSET InStatus(disk, "provisional")
          /\ V \cap K = {}
        BY <1>2
    <2> QED
        BY <2>1, <2>2 DEF SettledBy
<1> QED
    BY <1>1, <1>4, <1>5, <1>6, UnaffectedSame DEF KeepingStep

\* The projection steps a regression takes in memory and in a replay.
LEMMA RegressionSteps ==
    ASSUME TypeOK, NEW r \in RegressionReceipt, NEW named, RecordRegression(named, r)
    PROVE  KeepingStep(mem, mem') /\ KeepingStep(disk, disk')
<1> DEFINE clawedBack == named \cap InStatus(mem, "vested")
           event == [receipt |-> r, outcome |-> "fail",
                     vested |-> {}, clawedBack |-> clawedBack]
<1>1. mem \in Projection /\ disk \in Projection
    BY DEF TypeOK
<1>2. mem' = Regressed(mem, clawedBack, r)
    BY DEF RecordRegression
<1>3. disk' = disk \/ disk' = ReplayRegression(disk, event)
    BY DEF RecordRegression
<1>4. RegressedBy(mem, mem')
    BY <1>2 DEF RegressedBy
<1>5. ASSUME disk' = ReplayRegression(disk, event)
      PROVE  RegressedBy(disk, disk')
    BY <1>5 DEF RegressedBy, ReplayRegression
<1> QED
    BY <1>1, <1>3, <1>4, <1>5, UnaffectedSame DEF KeepingStep

\* The projection steps of a recorded contribution.
LEMMA ContributionSteps ==
    ASSUME TypeOK, DiskBehind, NEW c \in Contribution, RecordContribution(c)
    PROVE  OpeningStep \/ (mem' = mem /\ disk' = disk)
<1>1. CASE mem.escrow[c] # "none" \/ Credit[c] = 0
    BY <1>1 DEF RecordContribution
<1>2. CASE ~(mem.escrow[c] # "none" \/ Credit[c] = 0)
    <2>1. c \in InStatus(mem, "none") /\ c \in InStatus(disk, "none") /\ Credit[c] # 0
        BY <1>2 DEF InStatus, DiskBehind
    <2>2. /\ mem' = [mem EXCEPT !.escrow[c] = "provisional"]
          /\ disk' = [disk EXCEPT !.escrow[c] = "provisional"] \/ disk' = disk
        BY <1>2 DEF RecordContribution
    <2> QED
        BY <2>1, <2>2 DEF OpeningStep
<1> QED
    BY <1>1, <1>2

\* Every step opens one escrow, settles or punishes credit in memory and in
\* the replayed state, or restarts the process from the log.
LEMMA StepsOfProjections ==
    ASSUME TypeOK, DiskBehind, [Next]_vars
    PROVE  \/ OpeningStep
           \/ KeepingStep(mem, mem') /\ KeepingStep(disk, disk')
           \/ Restart
<1>1. mem \in Projection /\ disk \in Projection
    BY DEF TypeOK
<1>2. ASSUME mem' = mem, disk' = disk
      PROVE  KeepingStep(mem, mem') /\ KeepingStep(disk, disk')
    BY <1>1, <1>2, UnaffectedSame
<1>3. CASE UNCHANGED vars
    BY <1>2, <1>3 DEF vars
<1>4. ASSUME NEW m \in Funding, Allocate(m)
      PROVE  KeepingStep(mem, mem') /\ KeepingStep(disk, disk')
    BY <1>2, <1>4 DEF Allocate
<1>5. ASSUME NEW selected \in Selection, ExpressGenes(selected[1], selected[2])
      PROVE  KeepingStep(mem, mem') /\ KeepingStep(disk, disk')
    <2> DEFINE more(p) == [p EXCEPT !.expressed =
                                    p.expressed \cup ({selected[1]} \X selected[2])]
    <2>1. mem' = more(mem) /\ (disk' = more(disk) \/ disk' = disk)
        BY <1>5 DEF ExpressGenes
    <2>2. Unaffected(mem, more(mem)) /\ Unaffected(disk, more(disk))
        BY <1>1, MoreExpressed
    <2> QED
        BY <1>1, <2>1, <2>2, UnaffectedSame DEF KeepingStep
<1>6. ASSUME NEW c \in Contribution, RecordContribution(c)
      PROVE  OpeningStep \/ (KeepingStep(mem, mem') /\ KeepingStep(disk, disk'))
    BY <1>2, <1>6, ContributionSteps
<1>7. ASSUME NEW n \in HostWork, NEW S, RecordHostWork(n, S)
      PROVE  KeepingStep(mem, mem') /\ KeepingStep(disk, disk')
    BY <1>2, <1>7 DEF RecordHostWork
<1>8. ASSUME NEW t \in Node, NEW u \in Node, Withdraw(t, u)
      PROVE  KeepingStep(mem, mem') /\ KeepingStep(disk, disk')
    BY <1>2, <1>8 DEF Withdraw
<1>9. ASSUME NEW v \in Verifier, NEW verified \in {"pass", "fail"}, NEW S,
             Settle(v, verified, S)
      PROVE  KeepingStep(mem, mem') /\ KeepingStep(disk, disk')
    BY <1>9, SettleSteps
<1>10. ASSUME NEW v \in Verifier, NEW S, SettleRefused(v, S)
       PROVE  KeepingStep(mem, mem') /\ KeepingStep(disk, disk')
    BY <1>2, <1>10 DEF SettleRefused
<1>11. ASSUME NEW named, NEW r \in RegressionReceipt, RecordRegression(named, r)
       PROVE  KeepingStep(mem, mem') /\ KeepingStep(disk, disk')
    BY <1>11, RegressionSteps
<1>12. ASSUME NEW o \in todo, RecordOutcome(o)
       PROVE  KeepingStep(mem, mem') /\ KeepingStep(disk, disk')
    <2> DEFINE more(p) == [p EXCEPT !.outcomes = p.outcomes \cup {o}]
    <2>1. mem' = more(mem) /\ (disk' = more(disk) \/ disk' = disk)
        BY <1>12 DEF RecordOutcome
    <2>2. Unaffected(mem, more(mem)) /\ Unaffected(disk, more(disk))
        BY <1>1, MoreOutcomes DEF TypeOK
    <2> QED
        BY <1>1, <2>1, <2>2, UnaffectedSame DEF KeepingStep
<1> QED
    BY <1>3, <1>4, <1>5, <1>6, <1>7, <1>8, <1>9, <1>10, <1>11, <1>12 DEF Next

-----------------------------------------------------------------------------
\* No projection step forgets an escrow, opens one behind its back, or
\* brings credit back.
LEMMA StepKeepsOpened ==
    ASSUME NEW p \in Projection, NEW q, ProjectionStep(p, q), NEW c \in Contribution,
           p.escrow[c] # "none"
    PROVE  q.escrow[c] # "none"
<1>1. CASE Unaffected(p, q)
    BY <1>1 DEF Unaffected
<1>2. CASE OpenedFor(p, q)
    BY <1>2, OpenedStatus DEF OpenedFor, InStatus
<1>3. CASE SettledBy(p, q)
    BY <1>3, SettledStatus DEF SettledBy
<1>4. CASE RegressedBy(p, q)
    BY <1>4, RegressedStatus DEF RegressedBy
<1> QED
    BY <1>1, <1>2, <1>3, <1>4 DEF ProjectionStep, KeepingStep

LEMMA OthersOpenNone ==
    ASSUME NEW p \in Projection, NEW q, KeepingStep(p, q),
           NEW c \in Contribution, p.escrow[c] = "none"
    PROVE  q.escrow[c] = "none"
<1>1. CASE Unaffected(p, q)
    BY <1>1 DEF Unaffected
<1>2. CASE SettledBy(p, q)
    <2>1. PICK V, K \in SUBSET InStatus(p, "provisional"), r \in Verifier :
              q = Settled(p, V, K, r)
        BY <1>2 DEF SettledBy
    <2>2. c \notin V /\ c \notin K
        BY DEF InStatus
    <2> QED
        BY <2>1, <2>2, SettledStatus
<1>3. CASE RegressedBy(p, q)
    <2>1. PICK K \in SUBSET InStatus(p, "vested"), r \in RegressionReceipt :
              q = Regressed(p, K, r)
        BY <1>3 DEF RegressedBy
    <2>2. c \notin K
        BY DEF InStatus
    <2> QED
        BY <2>1, <2>2, RegressedStatus
<1> QED
    BY <1>1, <1>2, <1>3 DEF KeepingStep

LEMMA DiskBehindStep ==
    ASSUME TypeOK, DiskBehind, [Next]_vars
    PROVE  DiskBehind'
<1> SUFFICES ASSUME NEW c \in Contribution, disk'.escrow[c] # "none"
             PROVE  mem'.escrow[c] # "none"
    BY DEF DiskBehind
<1>1. mem \in Projection /\ disk \in Projection
    BY DEF TypeOK
<1>2. CASE OpeningStep
    <2>1. PICK d \in InStatus(mem, "none") \cap InStatus(disk, "none") :
              /\ mem' = [mem EXCEPT !.escrow[d] = "provisional"]
              /\ disk' \in {disk, [disk EXCEPT !.escrow[d] = "provisional"]}
        BY <1>2 DEF OpeningStep
    <2>2. d \in Contribution
        BY DEF InStatus
    <2>3. c = d \/ disk.escrow[c] # "none"
        <3>1. CASE disk' = disk
            BY <3>1
        <3>2. CASE disk' = [disk EXCEPT !.escrow[d] = "provisional"]
            BY <1>1, <2>2, <3>2, OpenedStatus
        <3> QED
            BY <2>1, <3>1, <3>2
    <2>4. mem'.escrow[c] = IF c = d THEN "provisional" ELSE mem.escrow[c]
        BY <1>1, <2>1, <2>2, OpenedStatus
    <2> QED
        BY <2>3, <2>4 DEF DiskBehind
<1>3. CASE KeepingStep(mem, mem') /\ KeepingStep(disk, disk')
    <2>1. disk.escrow[c] # "none"
        BY <1>1, <1>3, OthersOpenNone
    <2> QED
        BY <1>1, <1>3, <2>1, StepKeepsOpened DEF DiskBehind, ProjectionStep
<1>4. CASE Restart
    BY <1>4 DEF Restart
<1> QED
    BY <1>2, <1>3, <1>4, StepsOfProjections

-----------------------------------------------------------------------------
\* The gene outcomes an operation is to record are outcomes.
LEMMA SettlementOutcomesType ==
    ASSUME NEW p, NEW v \in Verifier, NEW verified \in {"pass", "fail"}, NEW vested
    PROVE  SettlementOutcomes(p, MissionOf[v], v, verified, vested) \subseteq Outcome
<1>1. MissionOf[v] \in Mission /\ v \in Receipt
    BY CausalAssumption DEF Node, Receipt
<1>2. \A c \in Contribution : GeneOf[c] \in Gene
    BY KernelAssumption
<1>3. \A S \in SUBSET Contribution, g \in Gene : CreditOf(OfGene(S, g)) \in Int
    BY CreditType DEF OfGene
<1> DEFINE decided == {c \in Contribution : p.settledBy[c] = v /\ MissionOf[c] = MissionOf[v]}
<1>4. decided \cap vested \in SUBSET Contribution
    OBVIOUS
<1>5. \A g \in Gene : CreditOf(OfGene(decided \cap vested, g)) \in Int
    BY <1>3, <1>4
<1>6. \A c \in decided : GeneOf[c] \in Gene
    BY <1>2
<1> SUFFICES ASSUME NEW o \in SettlementOutcomes(p, MissionOf[v], v, verified, vested)
             PROVE  o \in Outcome
    OBVIOUS
<1>7. PICK g \in {GeneOf[c] : c \in decided} :
          o = [gene |-> g, mission |-> MissionOf[v], receipt |-> v,
               verdict |-> IF verified = "fail" THEN "fail"
                           ELSE IF CreditOf(OfGene(decided \cap vested, g)) > 0
                                THEN "pass" ELSE "uncredited",
               fitness |-> CreditOf(OfGene(decided \cap vested, g))]
    BY DEF SettlementOutcomes
<1> HIDE DEF decided
<1>8. g \in Gene
    BY <1>6
<1> QED
    BY <1>1, <1>5, <1>7, <1>8 DEF Outcome, Verdict

LEMMA RegressionOutcomesType ==
    ASSUME NEW r \in RegressionReceipt, NEW K \in SUBSET Contribution
    PROVE  RegressionOutcomes(K, r) \subseteq Outcome
<1>1. RegressionMission[r] \in Mission /\ r \in Receipt
    BY KernelAssumption DEF Receipt
<1>2. \A c \in Contribution : GeneOf[c] \in Gene
    BY KernelAssumption
<1>3. \A g \in Gene : -CreditOf(OfGene(K, g)) \in Int
    BY CreditType DEF OfGene
<1> QED
    BY <1>1, <1>2, <1>3 DEF RegressionOutcomes, Outcome, Verdict

\* The rest of the state keeps its type.
RestOK ==
    /\ log \subseteq Event
    /\ nodes \subseteq Node
    /\ edges \subseteq Edge
    /\ funded \subseteq Mission
    /\ todo \subseteq Outcome
    /\ settling \in Mission \cup {NoMission}
    /\ thrown \in BOOLEAN
    /\ restarts \in Nat
    /\ faults \in Nat

LEMMA EdgesIntoType ==
    ASSUME NEW n \in Node, NEW kind \in CreditKind, NEW S \in SUBSET Node
    PROVE  EdgesInto(n, kind, S) \subseteq Edge
BY DEF EdgesInto, Edge

LEMMA SourcesAreNodes ==
    ASSUME RestOK, NEW m, NEW S \in SourcesFor(m)
    PROVE  S \in SUBSET Node
BY DEF SourcesFor, InMission, RestOK

\* What an append does to the flag and the counters, however it ends.
LEMMA AppendRest ==
    ASSUME RestOK, Persisted \/ RefusedAsDuplicate \/ WriteFails
    PROVE  thrown' \in BOOLEAN /\ restarts' \in Nat /\ faults' \in Nat
<1>1. thrown' = thrown \/ thrown' = TRUE
    BY DEF Persisted, RefusedAsDuplicate, WriteFails
<1>2. thrown' \in BOOLEAN
    BY <1>1, Zenon DEF RestOK
<1>3. restarts' = restarts /\ (faults' = faults \/ faults' = faults + 1)
    BY DEF Persisted, RefusedAsDuplicate, WriteFails, bounds
<1>4. restarts' \in Nat /\ faults' \in Nat
    BY <1>3 DEF RestOK
<1> QED
    BY <1>2, <1>4

LEMMA SettleRest ==
    ASSUME RestOK, NEW v \in Verifier, NEW verified \in {"pass", "fail"},
           NEW S \in SUBSET Node, Settle(v, verified, S)
    PROVE  RestOK'
<1> DEFINE m == MissionOf[v]
           vested == Vests(v, verified, edges \cup EdgesInto(v, "cited", S))
           clawedBack == InMission(InStatus(mem, "provisional"), m) \ vested
           after == Settled(mem, vested, clawedBack, v)
           event == [receipt |-> v, outcome |-> verified,
                     vested |-> vested, clawedBack |-> clawedBack]
           due == SettlementOutcomes(after, m, v, verified, vested)
<1>1. v \in Node /\ v \in Receipt /\ m \in Mission
    BY CausalAssumption DEF Node, Receipt
<1>2. EdgesInto(v, "cited", S) \subseteq Edge
    BY <1>1, EdgesIntoType DEF CreditKind
<1>3. vested \in SUBSET Contribution /\ clawedBack \in SUBSET Contribution
    BY VestsProvisional DEF InMission, InStatus
<1> HIDE DEF m, vested, clawedBack
<1>4. event \in Event
    BY <1>1, <1>3 DEF Event
<1>5. due \subseteq Outcome
    BY SettlementOutcomesType DEF m
<1> HIDE DEF event, due, after
<1>6. nodes' = nodes \cup {v} /\ edges' = edges \cup EdgesInto(v, "cited", S)
    BY DEF Settle
<1>7. \/ /\ log' = log \cup {event}
         /\ todo' = due
         /\ settling' = IF due = {} THEN NoMission ELSE m
         /\ funded' = IF due = {} THEN funded \ {m} ELSE funded
         /\ Persisted
      \/ /\ RefusedAsDuplicate \/ WriteFails
         /\ UNCHANGED <<log, todo, settling, funded>>
    BY DEF Settle, event, due, after, m, vested, clawedBack
<1>8. nodes' \subseteq Node /\ edges' \subseteq Edge
    BY <1>1, <1>2, <1>6 DEF RestOK
<1>9. /\ log' \subseteq Event
      /\ todo' \subseteq Outcome
      /\ settling' \in Mission \cup {NoMission}
      /\ funded' \subseteq Mission
    BY <1>1, <1>4, <1>5, <1>7 DEF RestOK
<1>10. thrown' \in BOOLEAN /\ restarts' \in Nat /\ faults' \in Nat
    BY <1>7, AppendRest
<1> QED
    BY <1>8, <1>9, <1>10 DEF RestOK

LEMMA RegressionRest ==
    ASSUME RestOK, NEW r \in RegressionReceipt, NEW named \in SUBSET Contribution,
           RecordRegression(named, r)
    PROVE  RestOK'
<1> DEFINE clawedBack == named \cap InStatus(mem, "vested")
           event == [receipt |-> r, outcome |-> "fail",
                     vested |-> {}, clawedBack |-> clawedBack]
<1>1. event \in Event
    BY DEF Event, Receipt
<1>2. RegressionOutcomes(clawedBack, r) \subseteq Outcome
    BY RegressionOutcomesType
<1>3. /\ UNCHANGED <<graph, funded, settling>>
      /\ \/ /\ log' = log \cup {event}
            /\ todo' = RegressionOutcomes(clawedBack, r)
            /\ Persisted
         \/ /\ RefusedAsDuplicate \/ WriteFails
            /\ UNCHANGED <<log, todo>>
    BY DEF RecordRegression
<1> HIDE DEF event, clawedBack
<1>4. UNCHANGED <<nodes, edges, funded, settling>>
    BY <1>3 DEF graph
<1>5. log' \subseteq Event /\ todo' \subseteq Outcome
    BY <1>1, <1>2, <1>3 DEF RestOK
<1>6. thrown' \in BOOLEAN /\ restarts' \in Nat /\ faults' \in Nat
    BY <1>3, AppendRest
<1> QED
    BY <1>4, <1>5, <1>6 DEF RestOK

LEMMA RestStep ==
    ASSUME RestOK, [Next]_vars
    PROVE  RestOK'
<1>1. CASE UNCHANGED vars
    BY <1>1 DEF vars, RestOK
<1>2. ASSUME NEW m \in Funding, Allocate(m)
      PROVE  RestOK'
    BY <1>2, KernelAssumption DEF Allocate, RestOK, graph, bounds
<1>3. ASSUME NEW selected \in Selection, ExpressGenes(selected[1], selected[2])
      PROVE  RestOK'
    <2>1. thrown' \in BOOLEAN /\ restarts' \in Nat /\ faults' \in Nat
        BY <1>3, AppendRest DEF ExpressGenes
    <2>2. UNCHANGED <<log, nodes, edges, funded, todo, settling>>
        BY <1>3 DEF ExpressGenes, graph
    <2> QED
        BY <2>1, <2>2 DEF RestOK
<1>4. ASSUME NEW c \in Contribution, RecordContribution(c)
      PROVE  RestOK'
    <2>1. UNCHANGED <<thrown, bounds>> \/ Persisted \/ WriteFails
        BY <1>4 DEF RecordContribution
    <2>2. thrown' \in BOOLEAN /\ restarts' \in Nat /\ faults' \in Nat
        BY <2>1, AppendRest DEF Persisted
    <2>3. /\ nodes' \subseteq Node
          /\ UNCHANGED <<log, edges, funded, todo, settling>>
        BY <1>4 DEF RecordContribution, RestOK, Node
    <2> QED
        BY <2>2, <2>3 DEF RestOK
<1>5. ASSUME NEW n \in HostWork, NEW S \in SourcesFor(MissionOf[n]), RecordHostWork(n, S)
      PROVE  RestOK'
    <2>1. n \in Node /\ WorkEdge[n] \in CreditKind /\ S \in SUBSET Node
        BY KernelAssumption, SourcesAreNodes DEF Node, CreditKind
    <2>2. EdgesInto(n, WorkEdge[n], S) \subseteq Edge
        BY <2>1, EdgesIntoType
    <2> QED
        BY <1>5, <2>1, <2>2 DEF RecordHostWork, RestOK, bounds
<1>6. ASSUME NEW t \in Node, NEW u \in Node, Withdraw(t, u)
      PROVE  RestOK'
    BY <1>6 DEF Withdraw, RestOK, Edge, ExclusionKind, bounds
<1>7. ASSUME NEW v \in Verifier, NEW verified \in {"pass", "fail"},
             NEW S \in SourcesFor(MissionOf[v]), Settle(v, verified, S)
      PROVE  RestOK'
    BY <1>7, SourcesAreNodes, SettleRest
<1>8. ASSUME NEW v \in Verifier, NEW S \in SourcesFor(MissionOf[v]), SettleRefused(v, S)
      PROVE  RestOK'
    <2>1. v \in Node /\ S \in SUBSET Node
        BY SourcesAreNodes DEF Node
    <2>2. EdgesInto(v, "cited", S) \subseteq Edge
        BY <2>1, EdgesIntoType DEF CreditKind
    <2> QED
        BY <1>8, <2>1, <2>2 DEF SettleRefused, RestOK, bounds
<1>9. ASSUME NEW named \in SUBSET Contribution, NEW r \in RegressionReceipt,
             RecordRegression(named, r)
      PROVE  RestOK'
    BY <1>9, RegressionRest
<1>10. ASSUME NEW o \in todo, RecordOutcome(o)
       PROVE  RestOK'
    <2>1. thrown' \in BOOLEAN /\ restarts' \in Nat /\ faults' \in Nat
        BY <1>10, AppendRest DEF RecordOutcome
    <2>2. /\ UNCHANGED <<log, nodes, edges>>
          /\ todo' \subseteq todo
          /\ settling' \in {settling, NoMission}
          /\ funded' \subseteq funded
        BY <1>10 DEF RecordOutcome, graph
    <2> QED
        BY <2>1, <2>2 DEF RestOK
<1>11. CASE Restart
    <2>1. thrown' \in BOOLEAN
        BY <1>11, Zenon DEF Restart
    <2>2. restarts' \in Nat /\ faults' \in Nat
        BY <1>11 DEF Restart, RestOK
    <2>3. /\ log' = log
          /\ nodes' = {} /\ edges' = {} /\ funded' = {} /\ todo' = {}
          /\ settling' = NoMission
        BY <1>11 DEF Restart
    <2> QED
        BY <2>1, <2>2, <2>3 DEF RestOK
<1>12. SUBSET InStatus(mem, "vested") \subseteq SUBSET Contribution
    BY DEF InStatus
<1> QED
    BY <1>1, <1>2, <1>3, <1>4, <1>5, <1>6, <1>7, <1>8, <1>9, <1>10, <1>11, <1>12 DEF Next

-----------------------------------------------------------------------------
\* Types, the order in which escrows reach memory and log, and balances.
Base == TypeOK /\ DiskBehind

LEMMA TypeIsParts == TypeOK <=> ({mem, disk} \subseteq Projection /\ RestOK)
BY DEF TypeOK, RestOK

LEMMA FreshType == Fresh \in Projection /\ Consistent(Fresh)
<1>1. Fresh \in Projection
    BY DEF Fresh, Projection, Status
<1>2. InStatus(Fresh, "vested") = {}
    BY DEF InStatus, Fresh
<1>3. \A g \in Gene : CreditOf(OfGene({}, g)) = 0
    <2> SUFFICES ASSUME NEW g \in Gene
                 PROVE  CreditOf(OfGene({}, g)) = 0
        OBVIOUS
    <2>1. OfGene({}, g) = {}
        BY DEF OfGene
    <2> QED
        BY <2>1, TotalOfNone DEF CreditOf
<1>4. \A g \in Gene : Fresh.balance[g] = 0
    BY DEF Fresh
<1> QED
    BY <1>1, <1>2, <1>3, <1>4 DEF Consistent

LEMMA InitBase == Init => Base
<1> SUFFICES ASSUME Init
             PROVE  Base
    OBVIOUS
<1>1. {mem, disk} \subseteq Projection /\ DiskBehind
    BY FreshType DEF Init, DiskBehind, Fresh
<1>2. thrown \in BOOLEAN
    BY Zenon DEF Init
<1>3. RestOK
    BY <1>2 DEF Init, RestOK
<1> QED
    BY <1>1, <1>3, TypeIsParts DEF Base

\* Both projections move by projection steps, or memory is read from disk.
LEMMA StepsOfBoth ==
    ASSUME Base, [Next]_vars
    PROVE  /\ ProjectionStep(mem, mem') \/ mem' = disk
           /\ ProjectionStep(disk, disk')
<1>1. mem \in Projection /\ disk \in Projection
    BY DEF Base, TypeOK
<1>2. CASE OpeningStep
    <2>1. PICK c \in InStatus(mem, "none") \cap InStatus(disk, "none") :
              /\ Credit[c] # 0
              /\ mem' = [mem EXCEPT !.escrow[c] = "provisional"]
              /\ disk' \in {disk, [disk EXCEPT !.escrow[c] = "provisional"]}
        BY <1>2 DEF OpeningStep
    <2>2. OpenedFor(mem, mem') /\ (disk' = disk \/ OpenedFor(disk, disk'))
        BY <2>1 DEF OpenedFor
    <2> QED
        BY <1>1, <2>2, UnaffectedSame DEF ProjectionStep
<1>3. CASE Restart
    BY <1>1, <1>3, UnaffectedSame DEF Restart, ProjectionStep
<1>4. CASE KeepingStep(mem, mem') /\ KeepingStep(disk, disk')
    BY <1>4 DEF ProjectionStep
<1> QED
    BY <1>2, <1>3, <1>4, StepsOfProjections DEF Base

LEMMA BaseStep ==
    ASSUME Base, [Next]_vars
    PROVE  Base'
<1>1. mem \in Projection /\ disk \in Projection
    BY DEF Base, TypeOK
<1>2. mem' \in Projection /\ disk' \in Projection
    BY <1>1, StepsOfBoth, StepKeepsType
<1>3. RestOK'
    BY RestStep, TypeIsParts DEF Base
<1>4. TypeOK'
    BY <1>2, <1>3 DEF TypeOK, RestOK
<1> QED
    BY <1>4, DiskBehindStep DEF Base

LEMMA BaseHolds == Spec => []Base
<1>1. Base /\ [Next]_vars => Base'
    BY BaseStep
<1> QED
    BY InitBase, <1>1, PTL DEF Spec

\* Memory, replayed state, log and pending outcomes stay well formed through
\* every operation, failed append and restart, and no balance gets negative.
THEOREM TypeCorrect == Spec => []TypeOK
<1>1. Base => TypeOK
    BY DEF Base
<1> QED
    BY BaseHolds, <1>1, PTL

\* The state is well formed and a gene's balance is the credit of its vested
\* escrows, in memory and after any replay: openEscrow, settleMission, recordRegression and replay of the
\* fitness ledger never let the two accounts of one credit drift apart.
THEOREM BalancesAreExact == Spec => []BalanceIsVestedCredit
<1> DEFINE Balanced == Consistent(mem) /\ Consistent(disk)
<1>1. TypeOK /\ Balanced => BalanceIsVestedCredit
    BY DEF BalanceIsVestedCredit, Consistent
<1>2. Init => Balanced
    BY FreshType DEF Init
<1>3. ASSUME Base, Balanced, [Next]_vars
      PROVE  Balanced'
    <2>1. mem \in Projection /\ disk \in Projection
        BY <1>3 DEF Base, TypeOK
    <2>2. Consistent(mem) /\ Consistent(disk)
        BY <1>3
    <2>3. /\ ProjectionStep(mem, mem') \/ mem' = disk
          /\ ProjectionStep(disk, disk')
        BY <1>3, StepsOfBoth
    <2>4. Consistent(mem')
        BY <2>1, <2>2, <2>3, StepKeepsConsistent
    <2>5. Consistent(disk')
        BY <2>1, <2>2, <2>3, StepKeepsConsistent
    <2> QED
        BY <2>4, <2>5 DEF Consistent
<1> QED
    BY BaseHolds, TypeCorrect, <1>1, <1>2, <1>3, PTL DEF Spec

-----------------------------------------------------------------------------
\* The live code and the replay code agree on a settlement: what memory finds
\* provisional is provisional for the replay too when both are the same.
LEMMA SettleAgrees ==
    ASSUME TypeOK, mem = disk, ~thrown, NEW v, NEW verified, NEW cited,
           Settle(v, verified, cited)
    PROVE  ~thrown' => mem' = disk'
<1> DEFINE vested == Vests(v, verified, edges \cup EdgesInto(v, "cited", cited))
           clawedBack == InMission(InStatus(mem, "provisional"), MissionOf[v]) \ vested
           event == [receipt |-> v, outcome |-> verified,
                     vested |-> vested, clawedBack |-> clawedBack]
<1>1. mem' = Settled(mem, vested, clawedBack, v)
    BY DEF Settle
<1>2. disk' = ReplaySettlement(disk, event) \/ RefusedAsDuplicate \/ WriteFails
    BY DEF Settle
<1>3. /\ vested \cap InStatus(disk, "provisional") = vested
      /\ clawedBack \cap InStatus(disk, "provisional") = clawedBack
    BY VestsProvisional DEF InMission
<1> HIDE DEF vested, clawedBack
<1>4. ReplaySettlement(disk, event) = Settled(mem, vested, clawedBack, v)
    BY <1>3 DEF ReplaySettlement
<1>5. RefusedAsDuplicate \/ WriteFails => thrown'
    BY DEF RefusedAsDuplicate, WriteFails
<1> QED
    BY <1>1, <1>2, <1>4, <1>5

LEMMA RegressionAgrees ==
    ASSUME TypeOK, mem = disk, ~thrown, NEW r, NEW named, RecordRegression(named, r)
    PROVE  ~thrown' => mem' = disk'
<1> DEFINE clawedBack == named \cap InStatus(mem, "vested")
           event == [receipt |-> r, outcome |-> "fail",
                     vested |-> {}, clawedBack |-> clawedBack]
<1>1. mem' = Regressed(mem, clawedBack, r)
    BY DEF RecordRegression
<1>2. disk' = ReplayRegression(disk, event) \/ RefusedAsDuplicate \/ WriteFails
    BY DEF RecordRegression
<1>3. clawedBack \cap InStatus(disk, "vested") = clawedBack
    OBVIOUS
<1> HIDE DEF clawedBack
<1>4. ReplayRegression(disk, event) = Regressed(mem, clawedBack, r)
    BY <1>3 DEF ReplayRegression
<1>5. RefusedAsDuplicate \/ WriteFails => thrown'
    BY DEF RefusedAsDuplicate, WriteFails
<1> QED
    BY <1>1, <1>2, <1>4, <1>5

\* Only a restart clears the flag that an append has thrown.
LEMMA ThrownStays ==
    ASSUME [Next]_vars, thrown, ~Restart
    PROVE  thrown'
<1>1. Persisted \/ WriteFails \/ RefusedAsDuplicate => thrown'
    BY DEF Persisted, WriteFails, RefusedAsDuplicate
<1>2. CASE UNCHANGED vars
    BY <1>2 DEF vars
<1>3. ASSUME NEW m \in Funding, Allocate(m)
      PROVE  thrown'
    BY <1>3 DEF Allocate
<1>4. ASSUME NEW selected \in Selection, ExpressGenes(selected[1], selected[2])
      PROVE  thrown'
    BY <1>1, <1>4 DEF ExpressGenes
<1>5. ASSUME NEW c \in Contribution, RecordContribution(c)
      PROVE  thrown'
    BY <1>1, <1>5 DEF RecordContribution
<1>6. ASSUME NEW n \in HostWork, NEW S, RecordHostWork(n, S)
      PROVE  thrown'
    BY <1>6 DEF RecordHostWork
<1>7. ASSUME NEW t \in Node, NEW u \in Node, Withdraw(t, u)
      PROVE  thrown'
    BY <1>7 DEF Withdraw
<1>8. ASSUME NEW v \in Verifier, NEW verified, NEW S, Settle(v, verified, S)
      PROVE  thrown'
    BY <1>1, <1>8 DEF Settle
<1>9. ASSUME NEW v \in Verifier, NEW S, SettleRefused(v, S)
      PROVE  thrown'
    BY <1>9 DEF SettleRefused
<1>10. ASSUME NEW named, NEW r \in RegressionReceipt, RecordRegression(named, r)
       PROVE  thrown'
    BY <1>1, <1>10 DEF RecordRegression
<1>11. ASSUME NEW o \in todo, RecordOutcome(o)
       PROVE  thrown'
    BY <1>1, <1>11 DEF RecordOutcome
<1> QED
    BY <1>2, <1>3, <1>4, <1>5, <1>6, <1>7, <1>8, <1>9, <1>10, <1>11 DEF Next

\* While no append has thrown a restart would change nothing: what settle,
\* recordRegression, expressGenes and the gene outcomes leave in memory is
\* what FitnessLedger.replay and the archive rebuild from the log.
THEOREM ReplayAgrees == Spec => []MemoryIsReplay
<1>1. Init => MemoryIsReplay
    BY DEF Init, MemoryIsReplay
<1>2. ASSUME Base, MemoryIsReplay, [Next]_vars
      PROVE  MemoryIsReplay'
    <2>1. TypeOK
        BY <1>2 DEF Base
    <2>2. CASE Restart
        BY <2>2 DEF Restart, MemoryIsReplay
    <2> SUFFICES ASSUME ~Restart, ~thrown'
                 PROVE  mem' = disk'
        BY <2>2 DEF MemoryIsReplay
    <2>3. ~thrown /\ mem = disk
        BY <1>2, ThrownStays DEF MemoryIsReplay
    <2>4. ~WriteFails /\ ~RefusedAsDuplicate
        BY DEF WriteFails, RefusedAsDuplicate
    <2>5. CASE UNCHANGED vars
        BY <2>3, <2>5 DEF vars
    <2>6. ASSUME NEW m \in Funding, Allocate(m)
          PROVE  mem' = disk'
        BY <2>3, <2>6 DEF Allocate
    <2>7. ASSUME NEW selected \in Selection, ExpressGenes(selected[1], selected[2])
          PROVE  mem' = disk'
        BY <2>3, <2>4, <2>7 DEF ExpressGenes
    <2>8. ASSUME NEW c \in Contribution, RecordContribution(c)
          PROVE  mem' = disk'
        BY <2>3, <2>4, <2>8 DEF RecordContribution
    <2>9. ASSUME NEW n \in HostWork, NEW S, RecordHostWork(n, S)
          PROVE  mem' = disk'
        BY <2>3, <2>9 DEF RecordHostWork
    <2>10. ASSUME NEW t \in Node, NEW u \in Node, Withdraw(t, u)
           PROVE  mem' = disk'
        BY <2>3, <2>10 DEF Withdraw
    <2>11. ASSUME NEW v \in Verifier, NEW verified, NEW S, Settle(v, verified, S)
           PROVE  mem' = disk'
        BY <2>1, <2>3, <2>11, SettleAgrees
    <2>12. ASSUME NEW v \in Verifier, NEW S, SettleRefused(v, S)
           PROVE  mem' = disk'
        BY <2>3, <2>12 DEF SettleRefused
    <2>13. ASSUME NEW named, NEW r \in RegressionReceipt, RecordRegression(named, r)
           PROVE  mem' = disk'
        BY <2>1, <2>3, <2>13, RegressionAgrees
    <2>14. ASSUME NEW o \in todo, RecordOutcome(o)
           PROVE  mem' = disk'
        BY <2>3, <2>4, <2>14 DEF RecordOutcome
    <2> QED
        BY <1>2, <2>5, <2>6, <2>7, <2>8, <2>9, <2>10, <2>11, <2>12, <2>13, <2>14 DEF Next
<1> QED
    BY BaseHolds, <1>1, <1>2, PTL DEF Spec

-----------------------------------------------------------------------------
\* A projection step is a step of CreditEscrow or changes no status.
LEMMA EscrowStep ==
    ASSUME NEW p \in Projection, NEW q \in Projection, ProjectionStep(p, q)
    PROVE  \/ q.escrow = p.escrow
           \/ \E c \in InStatus(p, "none") :
                 q.escrow = [p.escrow EXCEPT ![c] = "provisional"]
           \/ \E V, K \in SUBSET InStatus(p, "provisional") :
                 /\ V \cap K = {}
                 /\ q.escrow = [c \in Contribution |->
                                  IF c \in V THEN "vested"
                                  ELSE IF c \in K THEN "clawed-back" ELSE p.escrow[c]]
           \/ \E K \in SUBSET InStatus(p, "vested") :
                 q.escrow = [c \in Contribution |->
                                  IF c \in K THEN "clawed-back" ELSE p.escrow[c]]
<1>1. CASE Unaffected(p, q)
    BY <1>1 DEF Unaffected
<1>2. CASE OpenedFor(p, q)
    <2>1. PICK c \in InStatus(p, "none") : q = [p EXCEPT !.escrow[c] = "provisional"]
        BY <1>2 DEF OpenedFor
    <2>2. q.escrow = [p.escrow EXCEPT ![c] = "provisional"]
        BY <2>1 DEF Projection
    <2> QED
        BY <2>2
<1>3. CASE SettledBy(p, q)
    <2>1. PICK V, K \in SUBSET InStatus(p, "provisional"), r \in Verifier :
              V \cap K = {} /\ q = Settled(p, V, K, r)
        BY <1>3 DEF SettledBy
    <2>2. q.escrow = [c \in Contribution |->
                        IF c \in V THEN "vested"
                        ELSE IF c \in K THEN "clawed-back" ELSE p.escrow[c]]
        BY <2>1 DEF Settled, Projection
    <2> QED
        BY <2>1, <2>2
<1>4. CASE RegressedBy(p, q)
    <2>1. PICK K \in SUBSET InStatus(p, "vested"), r \in RegressionReceipt :
              q = Regressed(p, K, r)
        BY <1>4 DEF RegressedBy
    <2>2. q.escrow = [c \in Contribution |->
                        IF c \in K THEN "clawed-back" ELSE p.escrow[c]]
        BY <2>1 DEF Regressed, Projection
    <2> QED
        BY <2>1, <2>2
<1> QED
    BY <1>1, <1>2, <1>3, <1>4 DEF ProjectionStep, KeepingStep

\* The credit a replay of the log finds behaves as CreditEscrow promises, at
\* every moment the process may die: put in escrow once, decided by one
\* settlement, punished at most once and never resurrected.
THEOREM CreditIsDurable == Spec => DurableCredit
<1>1. Init => Durable!Init
    BY DEF Init, Fresh, Durable!Init
<1>2. ASSUME Base, Base', [Next]_vars
      PROVE  [Durable!Next]_(disk.escrow)
    <2>1. disk \in Projection /\ disk' \in Projection
        BY <1>2 DEF Base, TypeOK
    <2>2. ProjectionStep(disk, disk')
        BY <1>2, StepsOfBoth
    <2>3. \A status : Durable!In(status) = InStatus(disk, status)
        BY DEF Durable!In, InStatus
    <2>4. CASE disk'.escrow = disk.escrow
        BY <2>4
    <2>5. ASSUME NEW c \in InStatus(disk, "none"),
                 disk'.escrow = [disk.escrow EXCEPT ![c] = "provisional"]
          PROVE  Durable!Next
        BY <2>3, <2>5 DEF Durable!Next, Durable!Escrow, InStatus
    <2>6. ASSUME NEW V \in SUBSET InStatus(disk, "provisional"),
                 NEW K \in SUBSET InStatus(disk, "provisional"),
                 V \cap K = {},
                 disk'.escrow = [c \in Contribution |->
                                  IF c \in V THEN "vested"
                                  ELSE IF c \in K THEN "clawed-back" ELSE disk.escrow[c]]
          PROVE  Durable!Next
        <3>1. V \in SUBSET Contribution /\ K \in SUBSET Contribution
            BY DEF InStatus
        <3>2. Durable!Decide(V, K)
            BY <2>3, <2>6 DEF Durable!Decide
        <3> QED
            BY <3>1, <3>2 DEF Durable!Next
    <2>7. ASSUME NEW K \in SUBSET InStatus(disk, "vested"),
                 disk'.escrow = [c \in Contribution |->
                                  IF c \in K THEN "clawed-back" ELSE disk.escrow[c]]
          PROVE  Durable!Next
        <3>1. K \in SUBSET Contribution
            BY DEF InStatus
        <3>2. Durable!Punish(K)
            BY <2>3, <2>7 DEF Durable!Punish
        <3> QED
            BY <3>1, <3>2 DEF Durable!Next
    <2> QED
        BY ZenonT(60), <2>1, <2>2, <2>4, <2>5, <2>6, <2>7, EscrowStep
<1> QED
    BY BaseHolds, <1>1, <1>2, PTL DEF Spec, DurableCredit, Durable!Spec

-----------------------------------------------------------------------------
\* A step that changes no status, no recorded outcome and no event.
SameCredit(p, q) ==
    q.escrow = p.escrow /\ q.settledBy = p.settledBy /\ q.outcomes = p.outcomes

QuietStep ==
    /\ SameCredit(mem, mem') /\ SameCredit(disk, disk')
    /\ log' = log /\ todo' = todo
    /\ nodes \subseteq nodes'
    /\ faults' = faults \/ faults' = faults + 1

\* A step is quiet or one of the operations that decide about credit.
LEMMA NextCases ==
    ASSUME Base, [Next]_vars
    PROVE  \/ QuietStep
           \/ \E c \in Contribution : RecordContribution(c) /\ OpeningStep
           \/ \E v \in Verifier, verified \in {"pass", "fail"} : \E S : Settle(v, verified, S)
           \/ \E named \in SUBSET Contribution, r \in RegressionReceipt :
                 RecordRegression(named, r)
           \/ \E o \in todo : RecordOutcome(o)
           \/ Restart
<1>1. ASSUME UNCHANGED <<mem, disk, log, todo, faults>>, nodes \subseteq nodes'
      PROVE  QuietStep
    BY <1>1 DEF QuietStep, SameCredit
<1>2. CASE UNCHANGED vars
    BY <1>1, <1>2 DEF vars
<1>3. ASSUME NEW m \in Funding, Allocate(m)
      PROVE  QuietStep
    BY <1>1, <1>3 DEF Allocate, graph, bounds
<1>4. ASSUME NEW selected \in Selection, ExpressGenes(selected[1], selected[2])
      PROVE  QuietStep
    <2>1. mem \in Projection /\ disk \in Projection
        BY DEF Base, TypeOK
    <2> DEFINE more(p) == [p EXCEPT !.expressed =
                                    p.expressed \cup ({selected[1]} \X selected[2])]
    <2>2. mem' = more(mem) /\ (disk' = more(disk) \/ disk' = disk)
        BY <1>4 DEF ExpressGenes
    <2>3. SameCredit(mem, more(mem)) /\ SameCredit(disk, more(disk))
        BY <2>1 DEF SameCredit, Projection
    <2>4. SameCredit(mem, mem') /\ SameCredit(disk, disk')
        BY <2>2, <2>3 DEF SameCredit
    <2>5. log' = log /\ todo' = todo /\ nodes' = nodes
        BY <1>4 DEF ExpressGenes, graph
    <2>6. faults' = faults \/ faults' = faults + 1
        BY <1>4 DEF ExpressGenes, Persisted, WriteFails, bounds
    <2> QED
        BY <2>4, <2>5, <2>6 DEF QuietStep
<1>5. ASSUME NEW c \in Contribution, RecordContribution(c)
      PROVE  QuietStep \/ OpeningStep
    <2>1. CASE mem.escrow[c] # "none" \/ Credit[c] = 0
        BY <1>1, <1>5, <2>1 DEF RecordContribution, bounds
    <2>2. CASE ~(mem.escrow[c] # "none" \/ Credit[c] = 0)
        <3>1. c \in InStatus(mem, "none") /\ c \in InStatus(disk, "none") /\ Credit[c] # 0
            BY <2>2 DEF InStatus, Base, DiskBehind
        <3> QED
            BY <1>5, <2>2, <3>1 DEF RecordContribution, OpeningStep
    <2> QED
        BY <2>1, <2>2
<1>6. ASSUME NEW n \in HostWork, NEW S, RecordHostWork(n, S)
      PROVE  QuietStep
    BY <1>1, <1>6 DEF RecordHostWork, bounds
<1>7. ASSUME NEW t \in Node, NEW u \in Node, Withdraw(t, u)
      PROVE  QuietStep
    BY <1>1, <1>7 DEF Withdraw, bounds
<1>8. ASSUME NEW v \in Verifier, NEW S, SettleRefused(v, S)
      PROVE  QuietStep
    BY <1>1, <1>8 DEF SettleRefused, bounds
<1>9. SUBSET InStatus(mem, "vested") \subseteq SUBSET Contribution
    BY DEF InStatus
<1> QED
    BY <1>2, <1>3, <1>4, <1>5, <1>6, <1>7, <1>8, <1>9 DEF Next

\* The parts of settle() that the properties below look at.
SettleShape(v, verified, E, V, K) ==
    /\ V \in SUBSET InStatus(mem, "provisional")
    /\ K \in SUBSET InStatus(mem, "provisional")
    /\ V \cap K = {}
    /\ \A c \in V \cup K : MissionOf[c] = MissionOf[v]
    /\ V = Vests(v, verified, E)
    /\ v \notin nodes
    /\ nodes' = nodes \cup {v}
    /\ edges' = E
    /\ mem' = Settled(mem, V, K, v)

SettlePersists(v, verified, V, K) ==
    /\ ~Appended(v)
    /\ disk' = Settled(disk, V \cap InStatus(disk, "provisional"),
                       K \cap InStatus(disk, "provisional"), v)
    /\ log' = log \cup {[receipt |-> v, outcome |-> verified,
                         vested |-> V, clawedBack |-> K]}
    /\ todo' = SettlementOutcomes(mem', MissionOf[v], v, verified, V)
    /\ faults' = faults

SettleThrows ==
    /\ UNCHANGED <<disk, log, todo>>
    /\ faults' = faults \/ faults' = faults + 1

LEMMA SettleCases ==
    ASSUME NEW v \in Verifier, NEW verified, NEW S, Settle(v, verified, S)
    PROVE  \E E, V, K : /\ SettleShape(v, verified, E, V, K)
                        /\ SettlePersists(v, verified, V, K) \/ SettleThrows
<1> DEFINE E == edges \cup EdgesInto(v, "cited", S)
           V == Vests(v, verified, E)
           K == InMission(InStatus(mem, "provisional"), MissionOf[v]) \ V
<1>1. /\ V \in SUBSET InStatus(mem, "provisional")
      /\ K \in SUBSET InStatus(mem, "provisional")
      /\ V \cap K = {}
      /\ \A c \in V \cup K : MissionOf[c] = MissionOf[v]
    BY VestsProvisional DEF InMission
<1>2. /\ v \notin nodes
      /\ nodes' = nodes \cup {v}
      /\ edges' = E
      /\ mem' = Settled(mem, V, K, v)
    BY DEF Settle
<1>3. SettleShape(v, verified, E, V, K)
    BY <1>1, <1>2 DEF SettleShape
<1>4. SettlePersists(v, verified, V, K) \/ SettleThrows
    BY <1>2 DEF Settle, ReplaySettlement, SettlePersists, SettleThrows,
                Persisted, WriteFails, RefusedAsDuplicate, bounds
<1> QED
    BY <1>3, <1>4

\* In memory, credit vests only through settle(): on a path of host-attested
\* edges from a verification of the contribution's own mission that enters
\* the graph in the same step.
THEOREM VestingHasLineage == Spec => VestingNeedsLineage
<1>1. ASSUME Base, Next, NEW c \in Contribution,
             mem'.escrow[c] = "vested", mem.escrow[c] # "vested", restarts' = restarts
      PROVE  \E v \in Verifier \cap (nodes' \ nodes) :
                MissionOf[v] = MissionOf[c] /\ c \in Eligible(edges', v)
    <2>1. mem \in Projection /\ restarts \in Nat
        BY <1>1 DEF Base, TypeOK
    <2>2. ~QuietStep
        BY <1>1 DEF QuietStep, SameCredit
    <2>3. ~OpeningStep
        <3> SUFFICES ASSUME NEW d \in Contribution,
                            mem' = [mem EXCEPT !.escrow[d] = "provisional"]
                     PROVE  FALSE
            BY DEF OpeningStep, InStatus
        <3>1. mem'.escrow[c] = IF c = d THEN "provisional" ELSE mem.escrow[c]
            BY <2>1, OpenedStatus
        <3> QED
            BY <1>1, <3>1
    <2>4. ~Restart
        BY <1>1, <2>1 DEF Restart
    <2>5. ASSUME NEW named, NEW r, RecordRegression(named, r)
          PROVE  FALSE
        <3>1. mem' = Regressed(mem, named \cap InStatus(mem, "vested"), r)
            BY <2>5 DEF RecordRegression
        <3> QED
            BY <1>1, <2>1, <3>1, RegressedStatus
    <2>6. ASSUME NEW o, RecordOutcome(o)
          PROVE  FALSE
        <3>1. mem' = [mem EXCEPT !.outcomes = mem.outcomes \cup {o}]
            BY <2>6 DEF RecordOutcome
        <3> QED
            BY <1>1, <2>1, <3>1 DEF Projection
    <2>7. PICK v \in Verifier, verified \in {"pass", "fail"} : \E S : Settle(v, verified, S)
        BY <1>1, <2>2, <2>3, <2>4, <2>5, <2>6, NextCases
    <2>8. PICK E, V, K : SettleShape(v, verified, E, V, K)
        BY <2>7, SettleCases
    <2>9. c \in V
        BY <1>1, <2>1, <2>8, SettledStatus DEF SettleShape
    <2>10. MissionOf[v] = MissionOf[c] /\ c \in Eligible(edges', v)
        BY <2>8, <2>9 DEF SettleShape, Vests
    <2>11. v \in Verifier \cap (nodes' \ nodes)
        BY <2>8 DEF SettleShape
    <2> QED
        BY <2>10, <2>11
<1>2. ASSUME Base, [Next]_vars
      PROVE  [\A c \in Contribution :
                 mem'.escrow[c] = "vested" /\ mem.escrow[c] # "vested"
                     /\ restarts' = restarts =>
                 \E v \in Verifier \cap (nodes' \ nodes) :
                     MissionOf[v] = MissionOf[c] /\ c \in Eligible(edges', v)]_vars
    BY <1>1, <1>2
<1> QED
    BY BaseHolds, <1>2, PTL DEF Spec, VestingNeedsLineage

-----------------------------------------------------------------------------
\* While no write has failed, what memory holds in escrow a replay does too,
\* and what a logged verification decided a replay finds decided.
SameEscrows ==
    faults = 0 => \A c \in InStatus(mem, "provisional") : disk.escrow[c] = "provisional"

DecidedForGood ==
    faults = 0 =>
        \A e \in log : e.receipt \in Verifier =>
            \A c \in e.vested \cup e.clawedBack :
                c \in Contribution /\ disk.escrow[c] \in {"vested", "clawed-back"}

DecidedInv == SameEscrows /\ DecidedForGood /\ DecidedOnce

LEMMA DecidedByRegression ==
    ASSUME Base, DecidedInv, NEW r \in RegressionReceipt, NEW named \in SUBSET Contribution,
           RecordRegression(named, r), faults = 0, faults' = 0
    PROVE  DecidedInv'
<1> DEFINE K == named \cap InStatus(mem, "vested")
           D == K \cap InStatus(disk, "vested")
           event == [receipt |-> r, outcome |-> "fail", vested |-> {}, clawedBack |-> K]
<1>1. mem \in Projection /\ disk \in Projection
    BY DEF Base, TypeOK
<1>2. r \notin Verifier
    BY KernelAssumption
<1>3. /\ mem' = Regressed(mem, K, r)
      /\ disk' = disk \/ disk' = Regressed(disk, D, r)
      /\ log' = log \/ log' = log \cup {event}
    BY DEF RecordRegression, ReplayRegression
<1>4. \A e \in log' : e.receipt \in Verifier => e \in log
    BY <1>2, <1>3
<1>5. \A c \in Contribution :
         mem'.escrow[c] = IF c \in K THEN "clawed-back" ELSE mem.escrow[c]
    BY <1>1, <1>3, RegressedStatus
<1>6. \A c \in Contribution :
         \/ disk'.escrow[c] = disk.escrow[c]
         \/ disk.escrow[c] = "vested" /\ disk'.escrow[c] = "clawed-back"
    <2> SUFFICES ASSUME NEW c \in Contribution, disk' = Regressed(disk, D, r)
                 PROVE  \/ disk'.escrow[c] = disk.escrow[c]
                        \/ disk.escrow[c] = "vested" /\ disk'.escrow[c] = "clawed-back"
        BY <1>3
    <2>1. disk'.escrow[c] = IF c \in D THEN "clawed-back" ELSE disk.escrow[c]
        BY <1>1, RegressedStatus
    <2> QED
        BY <2>1 DEF InStatus
<1> HIDE DEF K, D, event
<1>7. SameEscrows'
    BY <1>5, <1>6 DEF SameEscrows, DecidedInv, InStatus
<1>8. DecidedForGood'
    BY <1>4, <1>6 DEF DecidedForGood, DecidedInv
<1>9. DecidedOnce'
    BY <1>4 DEF DecidedOnce, DecidedInv
<1> QED
    BY <1>7, <1>8, <1>9 DEF DecidedInv

LEMMA DecidedBySettle ==
    ASSUME Base, DecidedInv, NEW v \in Verifier, NEW verified, NEW S,
           Settle(v, verified, S), faults = 0, faults' = 0
    PROVE  DecidedInv'
<1>1. mem \in Projection /\ disk \in Projection
    BY DEF Base, TypeOK
<1>2. PICK E, V, K : /\ SettleShape(v, verified, E, V, K)
                     /\ SettlePersists(v, verified, V, K) \/ SettleThrows
    BY SettleCases
<1>3. \A c \in Contribution : mem'.escrow[c] = IF c \in V THEN "vested"
                                               ELSE IF c \in K THEN "clawed-back"
                                               ELSE mem.escrow[c]
    BY <1>1, <1>2, SettledStatus DEF SettleShape
<1>4. \A c \in V \cup K : /\ c \in Contribution
                          /\ mem.escrow[c] = "provisional"
                          /\ disk.escrow[c] = "provisional"
    BY <1>2 DEF SettleShape, InStatus, DecidedInv, SameEscrows
<1>5. CASE SettleThrows
    <2>1. disk' = disk /\ log' = log
        BY <1>5 DEF SettleThrows
    <2>2. SameEscrows'
        BY <1>3, <2>1 DEF SameEscrows, DecidedInv, InStatus
    <2>3. DecidedForGood'
        BY <2>1 DEF DecidedForGood, DecidedInv
    <2>4. DecidedOnce'
        BY <2>1 DEF DecidedOnce, DecidedInv
    <2> QED
        BY <2>2, <2>3, <2>4 DEF DecidedInv
<1>6. CASE SettlePersists(v, verified, V, K)
    <2> DEFINE event == [receipt |-> v, outcome |-> verified,
                         vested |-> V, clawedBack |-> K]
    <2>1. /\ disk' = Settled(disk, V \cap InStatus(disk, "provisional"),
                             K \cap InStatus(disk, "provisional"), v)
          /\ log' = log \cup {event}
        BY <1>6 DEF SettlePersists
    <2>2. event.vested = V /\ event.clawedBack = K
        OBVIOUS
    <2> HIDE DEF event
    <2>3. \A c \in Contribution : disk'.escrow[c] = IF c \in V THEN "vested"
                                                    ELSE IF c \in K THEN "clawed-back"
                                                    ELSE disk.escrow[c]
        BY <1>1, <1>4, <2>1, SettledStatus DEF InStatus
    <2>4. SameEscrows'
        BY <1>3, <2>3 DEF SameEscrows, DecidedInv, InStatus
    <2>5. DecidedForGood'
        <3> SUFFICES ASSUME NEW e \in log', e.receipt \in Verifier,
                            NEW c \in e.vested \cup e.clawedBack
                     PROVE  c \in Contribution /\ disk'.escrow[c] \in {"vested", "clawed-back"}
            BY DEF DecidedForGood
        <3>1. CASE e \in log
            BY <2>3, <3>1 DEF DecidedForGood, DecidedInv
        <3>2. CASE e = event
            BY <1>4, <2>2, <2>3, <3>2
        <3> QED
            BY <2>1, <3>1, <3>2
    <2>6. DecidedOnce'
        <3>1. \A e \in log : e.receipt \in Verifier =>
                  (e.vested \cup e.clawedBack) \cap (V \cup K) = {}
            BY <1>4 DEF DecidedForGood, DecidedInv
        <3> QED
            BY <2>1, <2>2, <3>1 DEF DecidedOnce, DecidedInv
    <2> QED
        BY <2>4, <2>5, <2>6 DEF DecidedInv
<1> QED
    BY <1>2, <1>5, <1>6

LEMMA DecidedBySame ==
    ASSUME DecidedInv, faults = 0, log' = log,
           SameCredit(mem, mem'), SameCredit(disk, disk')
    PROVE  DecidedInv'
BY DEF DecidedInv, SameEscrows, DecidedForGood, DecidedOnce, SameCredit, InStatus

\* No failed write is ever undone.
LEMMA FaultsGrow ==
    ASSUME Base, [Next]_vars, faults' = 0
    PROVE  faults = 0
<1>1. faults \in Nat
    BY DEF Base, TypeOK
<1>2. Persisted \/ WriteFails \/ RefusedAsDuplicate =>
          faults' = faults \/ faults' = faults + 1
    BY DEF Persisted, WriteFails, RefusedAsDuplicate, bounds
<1>3. CASE QuietStep
    BY <1>1, <1>3 DEF QuietStep
<1>4. ASSUME NEW c, RecordContribution(c)
      PROVE  faults = 0
    <2>1. UNCHANGED <<thrown, bounds>> \/ Persisted \/ WriteFails
        BY <1>4 DEF RecordContribution
    <2> QED
        BY <1>1, <1>2, <2>1 DEF bounds
<1>5. ASSUME NEW v \in Verifier, NEW verified, NEW S, Settle(v, verified, S)
      PROVE  faults = 0
    <2>1. PICK E, V, K : SettlePersists(v, verified, V, K) \/ SettleThrows
        BY <1>5, SettleCases
    <2> QED
        BY <1>1, <2>1 DEF SettlePersists, SettleThrows
<1>6. ASSUME NEW named, NEW r, RecordRegression(named, r)
      PROVE  faults = 0
    BY <1>1, <1>2, <1>6 DEF RecordRegression
<1>7. ASSUME NEW o, RecordOutcome(o)
      PROVE  faults = 0
    BY <1>1, <1>2, <1>7 DEF RecordOutcome
<1>8. CASE Restart
    BY <1>1, <1>8 DEF Restart
<1> QED
    BY <1>3, <1>4, <1>5, <1>6, <1>7, <1>8, NextCases

\* While no write fails, no two verifications decide the same credit,
\* however often the process restarts and whatever receipt is used again:
\* the status check of settleMission and of its replay sees to it.
THEOREM CreditDecidedOnce == Spec => []DecidedOnce
<1>1. Init => DecidedInv
    BY DEF Init, Fresh, DecidedInv, SameEscrows, DecidedForGood, DecidedOnce, InStatus
<1>2. ASSUME Base, DecidedInv, [Next]_vars
      PROVE  DecidedInv'
    <2>1. CASE faults' # 0
        BY <2>1 DEF DecidedInv, SameEscrows, DecidedForGood, DecidedOnce
    <2>2. CASE faults' = 0
        <3>1. faults = 0 /\ mem \in Projection /\ disk \in Projection
            BY <1>2, <2>2, FaultsGrow DEF Base, TypeOK
        <3>2. CASE QuietStep
            BY <1>2, <3>1, <3>2, DecidedBySame DEF QuietStep
        <3>3. ASSUME NEW c \in Contribution, RecordContribution(c), OpeningStep
              PROVE  DecidedInv'
            <4>1. log' = log
                BY <3>3 DEF RecordContribution
            <4>2. ~WriteFails
                BY <2>2, <3>1 DEF WriteFails
            <4>3. PICK d \in InStatus(mem, "none") \cap InStatus(disk, "none") :
                      mem' = [mem EXCEPT !.escrow[d] = "provisional"]
                BY <3>3 DEF OpeningStep
            <4>4. d = c /\ disk' = [disk EXCEPT !.escrow[c] = "provisional"]
                <5>1. d \in Contribution /\ mem.escrow[d] = "none"
                    BY DEF InStatus
                <5>2. mem'.escrow[d] = "provisional"
                    BY <3>1, <4>3, <5>1, OpenedStatus
                <5>3. mem' # mem
                    BY <5>1, <5>2
                <5>4. /\ mem' = [mem EXCEPT !.escrow[c] = "provisional"]
                      /\ disk' = [disk EXCEPT !.escrow[c] = "provisional"]
                    BY <3>3, <4>2, <5>3 DEF RecordContribution
                <5>5. mem'.escrow[d] = IF d = c THEN "provisional" ELSE mem.escrow[d]
                    BY <3>1, <5>1, <5>4, OpenedStatus
                <5> QED
                    BY <5>1, <5>2, <5>4, <5>5
            <4>5. \A b \in Contribution :
                     /\ mem'.escrow[b] = IF b = c THEN "provisional" ELSE mem.escrow[b]
                     /\ disk'.escrow[b] = IF b = c THEN "provisional" ELSE disk.escrow[b]
                BY <3>1, <4>3, <4>4, OpenedStatus
            <4>6. disk.escrow[c] = "none"
                BY <4>4 DEF InStatus
            <4>7. SameEscrows'
                BY <1>2, <3>1, <4>5 DEF SameEscrows, DecidedInv, InStatus
            <4>8. DecidedForGood'
                BY <1>2, <3>1, <4>1, <4>5, <4>6 DEF DecidedForGood, DecidedInv
            <4>9. DecidedOnce'
                BY <1>2, <3>1, <4>1 DEF DecidedOnce, DecidedInv
            <4> QED
                BY <4>7, <4>8, <4>9 DEF DecidedInv
        <3>4. ASSUME NEW v \in Verifier, NEW verified, NEW S, Settle(v, verified, S)
              PROVE  DecidedInv'
            BY <1>2, <2>2, <3>1, <3>4, DecidedBySettle
        <3>5. ASSUME NEW named \in SUBSET Contribution, NEW r \in RegressionReceipt,
                     RecordRegression(named, r)
              PROVE  DecidedInv'
            BY <1>2, <2>2, <3>1, <3>5, DecidedByRegression
        <3>6. ASSUME NEW o, RecordOutcome(o)
              PROVE  DecidedInv'
            <4> DEFINE more(p) == [p EXCEPT !.outcomes = p.outcomes \cup {o}]
            <4>1. /\ mem' = more(mem)
                  /\ disk' = more(disk) \/ disk' = disk
                  /\ log' = log
                BY <3>6 DEF RecordOutcome
            <4>2. mem'.escrow = mem.escrow /\ disk'.escrow = disk.escrow
                BY <3>1, <4>1 DEF Projection
            <4> QED
                BY <1>2, <3>1, <4>1, <4>2
                   DEF DecidedInv, SameEscrows, DecidedForGood, DecidedOnce, InStatus
        <3>7. CASE Restart
            <4>1. mem' = disk /\ disk' = disk /\ log' = log
                BY <3>7 DEF Restart
            <4> QED
                BY <1>2, <3>1, <4>1
                   DEF DecidedInv, SameEscrows, DecidedForGood, DecidedOnce, InStatus
        <3> QED
            BY <1>2, <3>2, <3>3, <3>4, <3>5, <3>6, <3>7, NextCases
    <2> QED
        BY <2>1, <2>2
<1>3. DecidedInv => DecidedOnce
    BY DEF DecidedInv
<1> QED
    BY BaseHolds, <1>1, <1>2, <1>3, PTL DEF Spec

-----------------------------------------------------------------------------
\* The outcome o says what event e did to its gene.
Says(o, e) ==
    /\ e.receipt = o.receipt
    /\ OfGene(e.vested \cup e.clawedBack, o.gene) # {}
    /\ o.receipt \in Verifier =>
          /\ o.fitness = CreditOf(OfGene(e.vested, o.gene))
          /\ o.mission = MissionOf[o.receipt]
          /\ o.verdict = IF e.outcome = "fail" THEN "fail"
                         ELSE IF OfGene(e.vested, o.gene) # {} THEN "pass"
                         ELSE "uncredited"
    /\ o.receipt \notin Verifier =>
          /\ o.fitness = -CreditOf(OfGene(e.clawedBack, o.gene))
          /\ o.verdict = "fail"

AllSaid == \A o \in mem.outcomes \cup disk.outcomes \cup todo : \E e \in log : Says(o, e)

\* A receipt that decided an entry has left its node or its event behind.
ReceiptsKnown ==
    \A c \in Contribution, v \in Verifier :
        /\ mem.settledBy[c] = v => v \in nodes \/ Appended(v)
        /\ disk.settledBy[c] = v => Appended(v)

\* Nothing is put in escrow for free.
EscrowsWorth == \A c \in Contribution : mem.escrow[c] # "none" => Credit[c] # 0

OutcomesInv == AllSaid /\ ReceiptsKnown /\ EscrowsWorth

LEMMA SaidIsExact == AllSaid => OutcomesAreExact
BY DEF AllSaid, Says, OutcomesAreExact

LEMMA AppendedStays ==
    ASSUME log \subseteq log', NEW r, Appended(r)
    PROVE  \E e \in log' : e.receipt = r
BY DEF Appended

\* The outcomes derived from a settlement say what it did.
LEMMA SettlementSays ==
    ASSUME Base, ReceiptsKnown, EscrowsWorth,
           NEW v \in Verifier, NEW verified, NEW E, NEW V, NEW K,
           SettleShape(v, verified, E, V, K), ~Appended(v),
           NEW o \in SettlementOutcomes(mem', MissionOf[v], v, verified, V)
    PROVE  Says(o, [receipt |-> v, outcome |-> verified, vested |-> V, clawedBack |-> K])
<1> DEFINE decided == {c \in Contribution : mem'.settledBy[c] = v /\ MissionOf[c] = MissionOf[v]}
<1>1. mem \in Projection
    BY DEF Base, TypeOK
<1>2. /\ V \in SUBSET Contribution /\ K \in SUBSET Contribution
      /\ \A c \in V : mem.escrow[c] = "provisional"
    BY DEF SettleShape, InStatus
<1>3. \A c \in Contribution :
         mem'.settledBy[c] = IF c \in V \cup K THEN v ELSE mem.settledBy[c]
    BY <1>1, SettledReceipt DEF SettleShape
<1>4. \A c \in Contribution : mem.settledBy[c] # v
    BY DEF ReceiptsKnown, SettleShape
<1>5. decided = V \cup K
    BY <1>2, <1>3, <1>4 DEF SettleShape
<1>6. PICK g \in {GeneOf[c] : c \in decided} :
          o = [gene |-> g, mission |-> MissionOf[v], receipt |-> v,
               verdict |-> IF verified = "fail" THEN "fail"
                           ELSE IF CreditOf(OfGene(decided \cap V, g)) > 0
                                THEN "pass" ELSE "uncredited",
               fitness |-> CreditOf(OfGene(decided \cap V, g))]
    BY DEF SettlementOutcomes
<1> HIDE DEF decided
<1>7. decided \cap V = V
    BY <1>5
<1>8. OfGene(V \cup K, g) # {}
    BY <1>5, <1>6 DEF OfGene
<1>9. CreditOf(OfGene(V, g)) > 0 <=> OfGene(V, g) # {}
    <2>1. OfGene(V, g) \in SUBSET Contribution
        BY <1>2 DEF OfGene
    <2>2. \A c \in OfGene(V, g) : Credit[c] # 0
        BY <1>2 DEF OfGene, EscrowsWorth
    <2>3. OfGene(V, g) # {} => CreditOf(OfGene(V, g)) > 0
        BY <2>1, <2>2, CreditPositive
    <2>4. CreditOf({}) = 0
        BY TotalOfNone DEF CreditOf
    <2> QED
        BY <2>3, <2>4
<1> QED
    BY <1>6, <1>7, <1>8, <1>9 DEF Says

LEMMA RegressionSays ==
    ASSUME NEW r \in RegressionReceipt, NEW K \in SUBSET Contribution,
           NEW o \in RegressionOutcomes(K, r)
    PROVE  Says(o, [receipt |-> r, outcome |-> "fail", vested |-> {}, clawedBack |-> K])
<1>1. PICK c \in K :
          o = [gene |-> GeneOf[c], mission |-> RegressionMission[r], receipt |-> r,
               verdict |-> "fail", fitness |-> -CreditOf(OfGene(K, GeneOf[c]))]
    BY DEF RegressionOutcomes
<1>2. c \in OfGene({} \cup K, GeneOf[c])
    BY DEF OfGene
<1>3. r \notin Verifier
    BY KernelAssumption
<1> QED
    BY <1>1, <1>2, <1>3 DEF Says

LEMMA OutcomesBySame ==
    ASSUME OutcomesInv, log' = log, todo' \subseteq todo, nodes \subseteq nodes',
           mem'.settledBy = mem.settledBy, disk'.settledBy = disk.settledBy,
           mem'.outcomes \cup disk'.outcomes \subseteq mem.outcomes \cup disk.outcomes \cup todo,
           \A c \in Contribution : mem'.escrow[c] # "none" => Credit[c] # 0
    PROVE  OutcomesInv'
<1>1. AllSaid'
    BY DEF OutcomesInv, AllSaid
<1>2. ReceiptsKnown'
    BY DEF OutcomesInv, ReceiptsKnown, Appended
<1>3. EscrowsWorth'
    BY DEF EscrowsWorth
<1> QED
    BY <1>1, <1>2, <1>3 DEF OutcomesInv

LEMMA OutcomesBySettle ==
    ASSUME Base, OutcomesInv, NEW v \in Verifier, NEW verified, NEW S,
           Settle(v, verified, S)
    PROVE  OutcomesInv'
<1>1. mem \in Projection /\ disk \in Projection
    BY DEF Base, TypeOK
<1>2. PICK E, V, K : /\ SettleShape(v, verified, E, V, K)
                     /\ SettlePersists(v, verified, V, K) \/ SettleThrows
    BY SettleCases
<1>3. /\ \A c \in Contribution :
            mem'.settledBy[c] = IF c \in V \cup K THEN v ELSE mem.settledBy[c]
      /\ \A c \in Contribution :
            mem'.escrow[c] = IF c \in V THEN "vested"
                             ELSE IF c \in K THEN "clawed-back" ELSE mem.escrow[c]
      /\ mem'.outcomes = mem.outcomes
      /\ nodes' = nodes \cup {v}
    BY <1>1, <1>2, SettledReceipt, SettledStatus, SettledArchive DEF SettleShape
<1>4. EscrowsWorth'
    <2>1. \A c \in V \cup K : mem.escrow[c] = "provisional"
        BY <1>2 DEF SettleShape, InStatus
    <2> QED
        BY <1>3, <2>1 DEF EscrowsWorth, OutcomesInv
<1>5. CASE SettleThrows
    <2>1. disk' = disk /\ log' = log /\ todo' = todo
        BY <1>5 DEF SettleThrows
    <2>2. AllSaid'
        BY <1>3, <2>1 DEF AllSaid, OutcomesInv
    <2>3. ReceiptsKnown'
        BY <1>3, <2>1 DEF ReceiptsKnown, OutcomesInv, Appended
    <2> QED
        BY <1>4, <2>2, <2>3 DEF OutcomesInv
<1>6. CASE SettlePersists(v, verified, V, K)
    <2> DEFINE event == [receipt |-> v, outcome |-> verified,
                         vested |-> V, clawedBack |-> K]
               VD == V \cap InStatus(disk, "provisional")
               KD == K \cap InStatus(disk, "provisional")
    <2>1. /\ disk' = Settled(disk, VD, KD, v)
          /\ log' = log \cup {event}
          /\ todo' = SettlementOutcomes(mem', MissionOf[v], v, verified, V)
        BY <1>6 DEF SettlePersists
    <2>2. \A o \in todo' : Says(o, event)
        BY <1>2, <1>6, <2>1, SettlementSays DEF SettlePersists, OutcomesInv
    <2>3. event.receipt = v
        OBVIOUS
    <2> HIDE DEF event
    <2>4. disk'.outcomes = disk.outcomes
        BY <1>1, <2>1, SettledArchive
    <2>5. \A c \in Contribution :
             disk'.settledBy[c] = IF c \in VD \cup KD THEN v ELSE disk.settledBy[c]
        BY <1>1, <2>1, SettledReceipt
    <2> HIDE DEF VD, KD
    <2>6. AllSaid'
        BY <1>3, <2>1, <2>2, <2>4 DEF AllSaid, OutcomesInv
    <2>7. ReceiptsKnown'
        BY <1>3, <2>1, <2>3, <2>5 DEF ReceiptsKnown, OutcomesInv, Appended
    <2> QED
        BY <1>4, <2>6, <2>7 DEF OutcomesInv
<1> QED
    BY <1>2, <1>5, <1>6

LEMMA OutcomesByRegression ==
    ASSUME Base, OutcomesInv, NEW named \in SUBSET Contribution, NEW r \in RegressionReceipt,
           RecordRegression(named, r)
    PROVE  OutcomesInv'
<1> DEFINE K == named \cap InStatus(mem, "vested")
           D == K \cap InStatus(disk, "vested")
           event == [receipt |-> r, outcome |-> "fail", vested |-> {}, clawedBack |-> K]
<1>1. mem \in Projection /\ disk \in Projection /\ r \notin Verifier
    BY KernelAssumption DEF Base, TypeOK
<1>2. /\ mem' = Regressed(mem, K, r)
      /\ nodes' = nodes
      /\ \/ disk' = disk /\ log' = log /\ todo' = todo
         \/ /\ disk' = Regressed(disk, D, r)
            /\ log' = log \cup {event}
            /\ todo' = RegressionOutcomes(K, r)
    BY DEF RecordRegression, ReplayRegression, graph
<1>3. \A o \in RegressionOutcomes(K, r) : Says(o, event)
    BY RegressionSays
<1>4. \A c \in K : mem.escrow[c] = "vested"
    BY DEF InStatus
<1> HIDE DEF K, D, event
<1>5. /\ \A c \in Contribution :
            mem'.settledBy[c] = IF c \in K THEN r ELSE mem.settledBy[c]
      /\ \A c \in Contribution :
            mem'.escrow[c] = IF c \in K THEN "clawed-back" ELSE mem.escrow[c]
      /\ mem'.outcomes = mem.outcomes
    BY <1>1, <1>2, RegressedReceipt, RegressedStatus, RegressedArchive
<1>6. /\ \A c \in Contribution :
            disk'.settledBy[c] = r \/ disk'.settledBy[c] = disk.settledBy[c]
      /\ disk'.outcomes = disk.outcomes
    <2>1. CASE disk' = disk
        BY <2>1
    <2>2. CASE disk' = Regressed(disk, D, r)
        BY <1>1, <2>2, RegressedReceipt, RegressedArchive
    <2> QED
        BY <1>2, <2>1, <2>2
<1>7. EscrowsWorth'
    BY <1>4, <1>5 DEF EscrowsWorth, OutcomesInv
<1>8. ReceiptsKnown'
    BY <1>1, <1>2, <1>5, <1>6 DEF ReceiptsKnown, OutcomesInv, Appended
<1>9. AllSaid'
    BY <1>2, <1>3, <1>5, <1>6 DEF AllSaid, OutcomesInv
<1> QED
    BY <1>7, <1>8, <1>9 DEF OutcomesInv

\* Every gene outcome in the archive says exactly what one logged settlement
\* or regression did to that gene: settle() derives it from the entries its
\* own receipt decided, and no earlier receipt's entries are among them.
THEOREM OutcomesSayWhatHappened == Spec => []OutcomesAreExact
<1>1. Init => OutcomesInv
    <2> SUFFICES ASSUME Init
                 PROVE  OutcomesInv
        OBVIOUS
    <2>1. \A c \in Contribution :
             /\ mem.settledBy[c] = NoReceipt /\ disk.settledBy[c] = NoReceipt
             /\ mem.escrow[c] = "none"
        BY DEF Init, Fresh
    <2>2. mem.outcomes \cup disk.outcomes \cup todo = {}
        BY DEF Init, Fresh
    <2>3. NoReceipt \notin Verifier
        BY KernelAssumption DEF Receipt
    <2> QED
        BY <2>1, <2>2, <2>3 DEF OutcomesInv, AllSaid, ReceiptsKnown, EscrowsWorth
<1>2. ASSUME Base, OutcomesInv, [Next]_vars
      PROVE  OutcomesInv'
    <2>1. mem \in Projection /\ disk \in Projection
        BY <1>2 DEF Base, TypeOK
    <2>2. CASE QuietStep
        BY <1>2, <2>2, OutcomesBySame DEF QuietStep, SameCredit, OutcomesInv, EscrowsWorth
    <2>3. ASSUME NEW c \in Contribution, RecordContribution(c), OpeningStep
          PROVE  OutcomesInv'
        <3>1. log' = log /\ todo' = todo /\ nodes \subseteq nodes'
            BY <2>3 DEF RecordContribution
        <3>2. PICK d \in InStatus(mem, "none") \cap InStatus(disk, "none") :
                  /\ Credit[d] # 0
                  /\ mem' = [mem EXCEPT !.escrow[d] = "provisional"]
                  /\ disk' \in {disk, [disk EXCEPT !.escrow[d] = "provisional"]}
            BY <2>3 DEF OpeningStep
        <3>3. d \in Contribution
            BY DEF InStatus
        <3>4. /\ mem'.settledBy = mem.settledBy /\ mem'.outcomes = mem.outcomes
              /\ disk'.settledBy = disk.settledBy /\ disk'.outcomes = disk.outcomes
            BY ZenonT(60), <2>1, <3>2, <3>3, OpenedFields
        <3>5. \A b \in Contribution :
                 mem'.escrow[b] = IF b = d THEN "provisional" ELSE mem.escrow[b]
            BY <2>1, <3>2, <3>3, OpenedStatus
        <3>6. \A b \in Contribution : mem'.escrow[b] # "none" => Credit[b] # 0
            BY <1>2, <3>2, <3>5 DEF OutcomesInv, EscrowsWorth
        <3> QED
            BY <1>2, <3>1, <3>4, <3>6, OutcomesBySame
    <2>4. ASSUME NEW v \in Verifier, NEW verified, NEW S, Settle(v, verified, S)
          PROVE  OutcomesInv'
        BY <1>2, <2>4, OutcomesBySettle
    <2>5. ASSUME NEW named \in SUBSET Contribution, NEW r \in RegressionReceipt,
                 RecordRegression(named, r)
          PROVE  OutcomesInv'
        BY <1>2, <2>5, OutcomesByRegression
    <2>6. ASSUME NEW o \in todo, RecordOutcome(o)
          PROVE  OutcomesInv'
        <3> DEFINE more(p) == [p EXCEPT !.outcomes = p.outcomes \cup {o}]
        <3>1. /\ mem' = more(mem)
              /\ disk' = more(disk) \/ disk' = disk
              /\ log' = log /\ nodes' = nodes /\ todo' \subseteq todo
            BY <2>6 DEF RecordOutcome, graph
        <3>2. /\ mem'.escrow = mem.escrow /\ mem'.settledBy = mem.settledBy
              /\ disk'.settledBy = disk.settledBy
              /\ mem'.outcomes = mem.outcomes \cup {o}
              /\ disk'.outcomes \subseteq disk.outcomes \cup {o}
            BY <2>1, <3>1 DEF Projection
        <3> QED
            BY <1>2, <3>1, <3>2, OutcomesBySame DEF OutcomesInv, EscrowsWorth
    <2>7. CASE Restart
        <3>1. mem' = disk /\ disk' = disk /\ log' = log /\ todo' = {}
            BY <2>7 DEF Restart
        <3>2. AllSaid'
            BY <1>2, <3>1 DEF OutcomesInv, AllSaid
        <3>3. ReceiptsKnown'
            BY <1>2, <3>1 DEF OutcomesInv, ReceiptsKnown, Appended
        <3>4. EscrowsWorth'
            BY <1>2, <3>1 DEF OutcomesInv, EscrowsWorth, Base, DiskBehind
        <3> QED
            BY <3>2, <3>3, <3>4 DEF OutcomesInv
    <2> QED
        BY <1>2, <2>2, <2>3, <2>4, <2>5, <2>6, <2>7, NextCases
<1>3. OutcomesInv => OutcomesAreExact
    BY SaidIsExact DEF OutcomesInv
<1> QED
    BY BaseHolds, <1>1, <1>2, <1>3, PTL DEF Spec
=============================================================================
