------------------------ MODULE ExperimentStoreProofs ------------------------
(***************************************************************************)
(* TLAPS proofs about the research plane.                                  *)
(* The experiment store, for any number of callers, proposals and          *)
(* operations: as long as no living caller lost its lock, callbacks exclude *)
(* each other and the heads stay contiguous; and even when locks are       *)
(* stolen, what a load returns continues everything the store has          *)
(* acknowledged (IInv).                                                    *)
(* The research protocol: what a verdict follows from (ResearchInv).       *)
(* The sleep cycle: what the queue file claims and what a task that starts *)
(* relies on, for any candidates, orders and quiet windows (NightInv).     *)
(***************************************************************************)
EXTENDS ExperimentStore, ResearchProtocol, SleepCycle, DataProofs, SequenceTheorems

-----------------------------------------------------------------------------
\* Ledgers and their beginnings.

\* The beginning of a ledger is a ledger of its proposal.
LEMMA CutIsLedger ==
    ASSUME NEW h \in Ledger, NEW n \in 0 .. Generation(h)
    PROVE  /\ Cut(h, n) \in Ledger
           /\ Generation(Cut(h, n)) = n
           /\ Cut(h, n).proposal = h.proposal
           /\ Cut(h, n).events = SubSeq(h.events, 1, n)
           /\ \A i \in 1 .. n : Cut(h, n).events[i] = h.events[i]
<1>1. h.events \in Seq(EventType) /\ Generation(h) \in Nat
    BY LenProperties DEF Ledger, Generation
<1>2. \A i \in 1 .. n : h.events[i] \in EventType
    BY <1>1, ElementOfSeq DEF Generation
<1>3. /\ SubSeq(h.events, 1, n) \in Seq(EventType)
      /\ Len(SubSeq(h.events, 1, n)) = n
      /\ \A i \in 1 .. n : SubSeq(h.events, 1, n)[i] = h.events[i]
    BY <1>1, <1>2, SubSeqProperties
<1> QED
    BY <1>1, <1>3 DEF Cut, Ledger, Generation

\* A ledger is its own last beginning.
LEMMA CutWhole ==
    ASSUME NEW h \in Ledger
    PROVE  Cut(h, Generation(h)) = h
<1>1. SubSeq(h.events, 1, Len(h.events)) = h.events
    BY SubSeqFull DEF Ledger
<1> QED
    BY <1>1 DEF Cut, Ledger, Generation

\* Two ledgers of one proposal with the same events are one.
LEMMA SameLedger ==
    ASSUME NEW g \in Ledger, NEW h \in Ledger, g.proposal = h.proposal,
           Generation(g) = Generation(h),
           \A i \in 1 .. Generation(h) : g.events[i] = h.events[i]
    PROVE  g = h
<1>1. g.events = h.events
    BY SeqEqual DEF Ledger, Generation
<1> QED
    BY <1>1 DEF Ledger

\* The beginning of a beginning is a beginning.
LEMMA CutOfCut ==
    ASSUME NEW h \in Ledger, NEW m \in 0 .. Generation(h), NEW n \in 0 .. m
    PROVE  Cut(Cut(h, m), n) = Cut(h, n)
<1>1. Generation(h) \in Nat
    BY LenProperties DEF Ledger, Generation
<1>2. n \in 0 .. Generation(h) /\ n \in 0 .. Generation(Cut(h, m))
    BY <1>1, CutIsLedger
<1> HIDE DEF Cut
<1> QED
    BY <1>1, <1>2, CutIsLedger, SameLedger

\* An event more: the older beginnings stay what they were.
LEMMA ExtendedIsLedger ==
    ASSUME NEW h \in Ledger, NEW e \in EventType
    PROVE  /\ Extended(h, e) \in Ledger
           /\ Generation(Extended(h, e)) = Generation(h) + 1
           /\ Extended(h, e).proposal = h.proposal
           /\ \A i \in 1 .. Generation(h) : Extended(h, e).events[i] = h.events[i]
           /\ Extended(h, e).events[Generation(h) + 1] = e
           /\ \A n \in 0 .. Generation(h) : Cut(Extended(h, e), n) = Cut(h, n)
<1>1. h.events \in Seq(EventType) /\ Generation(h) \in Nat
    BY LenProperties DEF Ledger, Generation
<1>2. /\ Extended(h, e) \in Ledger
      /\ Generation(Extended(h, e)) = Generation(h) + 1
      /\ Extended(h, e).proposal = h.proposal
      /\ \A i \in 1 .. Generation(h) : Extended(h, e).events[i] = h.events[i]
      /\ Extended(h, e).events[Generation(h) + 1] = e
    BY <1>1, AppendProperties DEF Extended, Ledger, Generation
<1>3. ASSUME NEW n \in 0 .. Generation(h)
      PROVE  Cut(Extended(h, e), n) = Cut(h, n)
    <2>1. n \in 0 .. Generation(Extended(h, e))
        BY <1>1, <1>2
    <2>2. \A i \in 1 .. n : Cut(Extended(h, e), n).events[i] = Cut(h, n).events[i]
        BY <1>1, <1>2, <2>1, CutIsLedger
    <2> QED
        BY <1>2, <2>1, <2>2, CutIsLedger, SameLedger
<1> QED
    BY <1>2, <1>3

\* A beginning of a path is a path.
LEMMA CutOfPath ==
    ASSUME NEW h \in Ledger, IsPath(h), NEW n \in 0 .. Generation(h)
    PROVE  IsPath(Cut(h, n))
<1>1. Generation(h) \in Nat /\ DOMAIN h.events = 1 .. Generation(h)
    BY LenProperties DEF Ledger, Generation
<1>2. Cut(h, n) \in Ledger /\ DOMAIN Cut(h, n).events = 1 .. n
    BY CutIsLedger, LenProperties DEF Ledger, Generation
<1>3. ASSUME NEW i \in 1 .. n
      PROVE  Accepts(Cut(Cut(h, n), i - 1), Cut(h, n).events[i])
    <2>1. i \in 1 .. Generation(h) /\ i - 1 \in 0 .. n
        BY <1>1
    <2>2. Cut(Cut(h, n), i - 1) = Cut(h, i - 1)
        BY <2>1, CutOfCut
    <2>3. Cut(h, n).events[i] = h.events[i]
        BY CutIsLedger
    <2> QED
        BY <1>1, <2>1, <2>2, <2>3 DEF IsPath
<1> QED
    BY <1>2, <1>3 DEF IsPath

\* A path and an event that its end accepts are a path.
LEMMA ExtendedPath ==
    ASSUME NEW h \in Ledger, IsPath(h), NEW e \in EventType, Accepts(h, e)
    PROVE  IsPath(Extended(h, e))
<1> DEFINE x == Extended(h, e)
<1>1. Generation(h) \in Nat /\ DOMAIN h.events = 1 .. Generation(h)
    BY LenProperties DEF Ledger, Generation
<1>2. x \in Ledger /\ DOMAIN x.events = 1 .. Generation(h) + 1
    BY ExtendedIsLedger, LenProperties DEF Ledger, Generation
<1>3. ASSUME NEW i \in 1 .. Generation(h) + 1
      PROVE  Accepts(Cut(x, i - 1), x.events[i])
    <2>1. i - 1 \in 0 .. Generation(h)
        BY <1>1
    <2>2. Cut(x, i - 1) = Cut(h, i - 1)
        BY <2>1, ExtendedIsLedger
    <2>3. CASE i = Generation(h) + 1
        <3>1. i - 1 = Generation(h)
            BY <1>1, <2>3
        <3> QED
            BY <2>2, <2>3, <3>1, CutWhole, ExtendedIsLedger
    <2>4. CASE i # Generation(h) + 1
        <3>1. i \in 1 .. Generation(h)
            BY <1>1, <2>4
        <3> QED
            BY <1>1, <2>2, <3>1, ExtendedIsLedger DEF IsPath
    <2> QED
        BY <2>3, <2>4
<1> HIDE DEF x
<1>4. IsPath(x)
    BY <1>2, <1>3 DEF IsPath
<1> QED
    BY <1>4 DEF x

-----------------------------------------------------------------------------
\* Sets of heads.

\* Every beginning of a head is a head.
Closed(H) == \A h \in H : \A n \in 0 .. Generation(h) : Cut(h, n) \in H
OnePerGeneration(H) == \A g, h \in H : Generation(g) = Generation(h) => g = h

\* Contiguous heads have a newest one: otherwise the N heads would have
\* their different generations below N - 1.
LEMMA NewestIsLast ==
    ASSUME NEW H \in SUBSET Ledger, IsFiniteSet(H), Contiguous(H)
    PROVE  /\ Newest(H) \in H
           /\ \A g \in H : Generation(g) <= Generation(Newest(H))
<1> DEFINE N == Cardinality(H)
           gen == [h \in H |-> Generation(h)]
<1>1. N \in Nat /\ N # 0
    BY FS_CardinalityType, FS_EmptySet DEF Contiguous
<1>2. \A h \in H : Generation(h) \in 0 .. N - 1
    <2>1. \A h \in H : Generation(h) \in Nat
        BY LenProperties DEF Ledger, Generation
    <2> QED
        BY <1>1, <2>1 DEF Contiguous
<1>3. \E h \in H : Generation(h) = N - 1
    <2>1. SUFFICES ASSUME \A h \in H : Generation(h) # N - 1
                   PROVE  FALSE
        OBVIOUS
    <2>2. gen \in [H -> 0 .. N - 2]
        BY <1>1, <1>2, <2>1
    <2>3. IsFiniteSet(0 .. N - 2) /\ Cardinality(0 .. N - 2) < N
        <3> HIDE DEF N
        <3>1. 0 \in Int /\ N - 2 \in Int
            BY <1>1
        <3>2. /\ IsFiniteSet(0 .. N - 2)
              /\ Cardinality(0 .. N - 2) = IF 0 > N - 2 THEN 0 ELSE N - 2 - 0 + 1
            BY <3>1, FS_Interval
        <3> QED
            BY <1>1, <3>2
    <2> HIDE DEF gen
    <2>4. \E g, h \in H : g # h /\ gen[g] = gen[h]
        BY <2>2, <2>3, FS_PigeonHole
    <2> USE DEF gen
    <2> QED
        BY <2>4 DEF Contiguous
<1>4. \E h \in H : \A g \in H : Generation(g) <= Generation(h)
    BY <1>1, <1>2, <1>3
<1> QED
    BY <1>4 DEF Newest

\* Contiguous heads are the beginnings of the newest one.
LEMMA HeadsArePrefixes ==
    ASSUME NEW H \in SUBSET Ledger, IsFiniteSet(H), Contiguous(H), Closed(H),
           NEW h \in H
    PROVE  IsPrefix(h.events, Newest(H).events)
<1> DEFINE top == Newest(H)
           n == Generation(h)
<1>1. top \in H /\ n <= Generation(top)
    BY NewestIsLast
<1> HIDE DEF top
<1>2. n \in Nat /\ Generation(top) \in Nat
    BY <1>1, LenProperties DEF Ledger, Generation
<1>3. Cut(top, n) \in H /\ Generation(Cut(top, n)) = n
    BY <1>1, <1>2, CutIsLedger DEF Closed
<1>4. Cut(top, n) = h
    BY <1>3 DEF Contiguous
<1>5. h.events = SubSeq(top.events, 1, n)
    BY <1>1, <1>2, <1>4, CutIsLedger
<1>6. h.events = SubSeq(h.events, 1, n)
    BY SubSeqFull DEF Ledger, Generation
<1>7. IsPrefix(h.events, top.events)
    BY <1>1, <1>5, <1>6 DEF IsPrefix, Generation
<1> QED
    BY <1>7 DEF top

\* Closed heads with one head a generation have no gap.
LEMMA ClosedIsContiguous ==
    ASSUME NEW H \in SUBSET Ledger, IsFiniteSet(H), Closed(H), OnePerGeneration(H),
           H # {}
    PROVE  Contiguous(H)
<1>1. ASSUME NEW h \in H
      PROVE  Generation(h) < Cardinality(H)
    <2> DEFINE n == Generation(h)
               cuts == [i \in 0 .. n |-> Cut(h, i)]
    <2>1. n \in Nat
        BY LenProperties DEF Ledger, Generation
    <2>2. \A i \in 0 .. n : Cut(h, i) \in H /\ Generation(Cut(h, i)) = i
        BY CutIsLedger DEF Closed
    <2> HIDE DEF Cut
    <2>3. cuts \in [0 .. n -> H]
        BY <2>2
    <2>4. \A i, j \in 0 .. n : cuts[i] = cuts[j] => i = j
        BY <2>2
    <2>5. cuts \in Injection(0 .. n, H)
        BY <2>3, <2>4 DEF Injection, IsInjective
    <2>6. Cardinality(0 .. n) <= Cardinality(H)
        BY <2>5, FS_Injection
    <2>7. Cardinality(0 .. n) = n + 1
        BY <2>1, FS_Interval
    <2> QED
        BY <2>1, <2>6, <2>7, FS_CardinalityType
<1> QED
    BY <1>1 DEF Contiguous, OnePerGeneration

\* One head more, whose beginning is there.
LEMMA ClosedGrows ==
    ASSUME NEW H \in SUBSET Ledger, Closed(H), NEW h \in H, NEW e \in EventType
    PROVE  Closed(H \cup {Extended(h, e)})
<1> DEFINE x == Extended(h, e)
<1>1. x \in Ledger /\ Generation(x) = Generation(h) + 1 /\ Generation(h) \in Nat
    BY ExtendedIsLedger, LenProperties DEF Ledger, Generation
<1>2. \A n \in 0 .. Generation(h) : Cut(x, n) = Cut(h, n)
    BY ExtendedIsLedger
<1> HIDE DEF x
<1>3. ASSUME NEW n \in 0 .. Generation(x)
      PROVE  Cut(x, n) \in H \cup {x}
    <2>1. CASE n = Generation(x)
        BY <1>1, <2>1, CutWhole
    <2>2. CASE n # Generation(x)
        <3>1. n \in 0 .. Generation(h)
            BY <1>1, <2>2
        <3> QED
            BY <1>2, <3>1 DEF Closed
    <2> QED
        BY <2>1, <2>2
<1>4. Closed(H \cup {x})
    BY <1>3 DEF Closed
<1> QED
    BY <1>4 DEF x

-----------------------------------------------------------------------------
\* The inductive invariant.

CallRecord ==
    [at : Step, op : Operations \cup {[kind |-> "none"]},
     ledger : Ledger \cup {NoLedger}, ok : BOOLEAN]

\* Steps of a call between the making of its lock file and its removal.
Critical == Callback \cup {"stamp", "release", "unlink"}
\* Steps at which an initialize has, and has not, its own references.
Initializing == {"proposal", "evaluation", "genesis", "reload"}
Returning == {"release", "unlink", "resolved", "rejected", "dead"}

\* What is linked: beginnings of paths, all of the proposal that the two
\* references name.
HeadsFit ==
    /\ IsFiniteSet(heads)
    /\ Closed(heads)
    /\ \A h \in heads : IsPath(h)
    /\ heads # {} =>
          /\ references["proposal"] # NoReference
          /\ references["evaluation"] = references["proposal"]
          /\ Genesis(references["proposal"]) \in heads
          /\ \A h \in heads : h.proposal = references["proposal"]

\* The ledger that c is about to link follows a head.
FollowsAHead(c) ==
    \E h \in heads : /\ Accepts(h, call[c].op.event)
                     /\ call[c].ledger = Extended(h, call[c].op.event)

\* What a call knows of the references and the heads, which only grow.
CallFits(c) ==
    /\ ~At(c, "idle") => call[c].op \in Operations
    /\ call[c].at \in Initializing => call[c].op.kind = "initialize"
    /\ call[c].at \in {"load", "link"} => call[c].op.kind # "initialize"
    /\ call[c].at \in Initializing \ {"proposal"} =>
          references["proposal"] = call[c].op.proposal
    /\ call[c].at \in {"genesis", "reload"} =>
          references["evaluation"] = call[c].op.proposal
    /\ At(c, "link") => FollowsAHead(c)
    /\ At(c, "reload") => call[c].ledger \in heads
    /\ call[c].ok => call[c].at \in Returning /\ call[c].ledger \in heads
    /\ At(c, "resolved") => call[c].ok

\* Without theft, who is in the lock owns the file, and nobody else links.
LockFits ==
    ~stolen =>
        /\ \A c \in Caller : call[c].at \in Critical =>
              HeldBy(c) /\ (lock.stamped <=> ~At(c, "stamp"))
        /\ OnePerGeneration(heads)
        /\ \A c \in Caller : At(c, "link") =>
              \A h \in heads : Generation(h) < Generation(call[c].ledger)

IInv ==
    /\ TypeOK
    /\ HeadsFit
    /\ \A c \in Caller : CallFits(c)
    /\ LockFits

USE DEF At

-----------------------------------------------------------------------------
\* What carries over from step to step.

\* A call at a step beyond "idle" has an operation.
LEMMA OperationOf ==
    ASSUME IInv, NEW c \in Caller, ~At(c, "idle")
    PROVE  /\ call[c].op \in Operations
           /\ call[c].op.kind = "initialize" => call[c].op.proposal \in Proposal
           /\ call[c].op.kind # "initialize" => call[c].op.event \in EventType
<1>1. call[c].op \in Operations
    BY DEF IInv, CallFits
<1>2. "outcome_recorded" \in EventType
    BY DEF EventType, Becomes
<1> QED
    BY <1>1, <1>2 DEF Operations

\* The heads stay what they are.
LEMMA HeadsStay ==
    ASSUME IInv, UNCHANGED <<references, heads>>
    PROVE  HeadsFit'
BY DEF IInv, HeadsFit, Closed

\* References are never rewritten and heads never removed, so a call that
\* takes no step knows what it knew.
LEMMA OthersFit ==
    ASSUME IInv, heads \subseteq heads',
           \A r \in {"proposal", "evaluation"} :
               references[r] # NoReference => references'[r] = references[r],
           NEW d \in Caller, call'[d] = call[d]
    PROVE  CallFits(d)'
<1>1. CallFits(d)
    BY DEF IInv
<1>2. call[d].at \in Initializing =>
          call[d].op.proposal \in Proposal /\ call[d].op.proposal # NoReference
    BY <1>1, OperationOf, StoreAssumption DEF CallFits, Initializing
<1>3. FollowsAHead(d) => FollowsAHead(d)'
    BY DEF FollowsAHead
<1> QED
    BY <1>1, <1>2, <1>3 DEF CallFits, Initializing

\* What a call is told of its record keeps it one.
LEMMA CallsTyped ==
    ASSUME TypeOK, NEW c \in Caller, NEW step \in Step,
           NEW l \in Ledger \cup {NoLedger}, NEW ok \in BOOLEAN,
           \/ call' = [call EXCEPT ![c].at = step, ![c].ledger = l]
           \/ call' = [call EXCEPT ![c].at = step, ![c].ok = ok]
    PROVE  call' \in [Caller -> CallRecord]
<1>1. call[c] \in CallRecord /\ call \in [Caller -> CallRecord]
    BY DEF TypeOK, CallRecord
<1>2. /\ [call[c] EXCEPT !.at = step, !.ledger = l] \in CallRecord
      /\ [call[c] EXCEPT !.at = step, !.ok = ok] \in CallRecord
    BY <1>1 DEF CallRecord
<1> QED
    BY <1>1, <1>2

\* A step of c alone that leaves the lock to whom it belongs.
LEMMA LockStays ==
    ASSUME IInv, NEW c \in Caller, UNCHANGED <<heads, lock, stolen>>,
           \A d \in Caller : d # c => call'[d] = call[d],
           call'[c].at \in Critical =>
               call[c].at \in Critical /\ ~At(c, "stamp") /\ call'[c].at # "stamp",
           call'[c].at # "link"
    PROVE  LockFits'
BY DEF IInv, LockFits, HeldBy, OnePerGeneration

-----------------------------------------------------------------------------
\* The invariant holds in the beginning.
LEMMA CallsBegin ==
    ASSUME Init
    PROVE  /\ call \in [Caller -> CallRecord]
           /\ crashes \in 0 .. MaxCrashes
           /\ \A c \in Caller : CallFits(c)
<1>1. [at |-> "idle", op |-> [kind |-> "none"], ledger |-> NoLedger, ok |-> FALSE] \in CallRecord
    BY DEF Step, CallRecord
<1>2. call \in [Caller -> CallRecord]
    BY <1>1 DEF Init
<1>3. \A c \in Caller : CallFits(c)
    BY DEF Init, CallFits, Initializing
<1>4. MaxCrashes \in Nat
    BY StoreAssumption
<1>5. crashes \in 0 .. MaxCrashes
    BY <1>4 DEF Init
<1> QED
    BY <1>2, <1>3, <1>5

LEMMA InitFits == Init => IInv
<1> SUFFICES ASSUME Init PROVE IInv
    OBVIOUS
<1>1. CASE heads = {} /\ references = [r \in {"proposal", "evaluation"} |-> NoReference]
    <2>1. HeadsFit
        BY <1>1, FS_EmptySet DEF HeadsFit, Closed
    <2>2. LockFits
        BY <1>1 DEF Init, LockFits, Critical, Callback, OnePerGeneration
    <2>3. references \in [{"proposal", "evaluation"} -> Proposal \cup {NoReference}]
        BY <1>1
    <2> QED
        BY <1>1, <2>1, <2>2, <2>3, CallsBegin DEF Init, IInv, TypeOK, CallRecord
<1>2. ASSUME NEW h \in Histories,
             heads = {Cut(h, n) : n \in 0 .. Generation(h)},
             references = [r \in {"proposal", "evaluation"} |-> h.proposal]
      PROVE  IInv
    <2>1. h \in Ledger /\ IsPath(h) /\ h.proposal \in Proposal /\ Generation(h) \in Nat
        BY StoreAssumption, HistoryAssumption, LenProperties DEF Ledger, Generation
    <2>2. \A n \in 0 .. Generation(h) :
              Cut(h, n) \in Ledger /\ Generation(Cut(h, n)) = n /\ IsPath(Cut(h, n))
                  /\ Cut(h, n).proposal = h.proposal
        BY <2>1, CutIsLedger, CutOfPath
    <2>3. IsFiniteSet(heads)
        <3> DEFINE cuts == [n \in 0 .. Generation(h) |-> Cut(h, n)]
        <3>1. cuts \in Surjection(0 .. Generation(h), heads)
            BY <1>2 DEF Surjection
        <3>2. IsFiniteSet(0 .. Generation(h))
            BY <2>1, FS_Interval
        <3> QED
            BY <3>1, <3>2, FS_Surjection
    <2>4. Closed(heads)
        <3>1. \A n \in 0 .. Generation(h) : \A m \in 0 .. n : Cut(Cut(h, n), m) = Cut(h, m)
            BY <2>1, CutOfCut
        <3>2. \A n \in 0 .. Generation(h) : \A m \in 0 .. n : m \in 0 .. Generation(h)
            BY <2>1
        <3> QED
            BY <1>2, <2>2, <3>1, <3>2 DEF Closed
    <2>5. Genesis(h.proposal) \in heads
        <3>1. 0 \in 0 .. Generation(h)
            BY <2>1
        <3>2. Genesis(h.proposal) \in Ledger /\ Generation(Genesis(h.proposal)) = 0
            BY <2>1, EmptySeq DEF Genesis, Ledger, Generation
        <3>3. Cut(h, 0) = Genesis(h.proposal)
            BY <2>2, <3>1, <3>2, SameLedger DEF Genesis
        <3> QED
            BY <1>2, <3>1, <3>3
    <2>6. OnePerGeneration(heads)
        BY <1>2, <2>2 DEF OnePerGeneration
    <2>7. TypeOK
        <3>1. references \in [{"proposal", "evaluation"} -> Proposal \cup {NoReference}]
            BY <1>2, <2>1
        <3> QED
            BY <1>2, <2>2, <3>1, CallsBegin DEF Init, TypeOK, CallRecord
    <2>8. HeadsFit
        BY <1>2, <2>1, <2>2, <2>3, <2>4, <2>5, StoreAssumption DEF HeadsFit
    <2>9. LockFits
        BY <2>6 DEF Init, LockFits, Critical, Callback
    <2> QED
        BY <2>7, <2>8, <2>9, CallsBegin DEF IInv
<1> QED
    BY <1>1, <1>2 DEF Init

-----------------------------------------------------------------------------
\* Steps of one call that change no file.  Each leaves the lock alone, and
\* what the call knows afterwards is checked step by step.
LEMMA StartKeeps ==
    ASSUME IInv, NEW c \in Caller, NEW op \in Operation[c], Start(c, op)
    PROVE  IInv'
<1>1. TypeOK /\ op \in Operations
    BY StoreAssumption DEF IInv
<1>2. TypeOK'
    BY <1>1 DEF Start, TypeOK, Step
<1>3. CallFits(c)'
    BY <1>1 DEF IInv, TypeOK, CallFits, Start, Initializing, Returning
<1>4. \A d \in Caller : d # c => CallFits(d)'
    BY <1>1, OthersFit DEF Start, TypeOK
<1>5. LockFits'
    BY <1>1, LockStays DEF Start, TypeOK, Critical, Callback
<1> QED
    BY <1>2, <1>3, <1>4, <1>5, HeadsStay DEF IInv, Start

LEMMA PrecheckKeeps ==
    ASSUME IInv, NEW c \in Caller, Precheck(c)
    PROVE  IInv'
<1>1. TypeOK
    BY DEF IInv
<1>2. TypeOK'
    BY <1>1 DEF Precheck, Go, TypeOK, Step, Settled
<1>3. CallFits(c)'
    BY <1>1 DEF IInv, TypeOK, CallFits, Precheck, Go, Initializing, Returning
<1>4. \A d \in Caller : d # c => CallFits(d)'
    BY <1>1, OthersFit DEF Precheck, Go, TypeOK
<1>5. LockFits'
    BY <1>1, LockStays DEF Precheck, Go, TypeOK, Critical, Callback
<1> QED
    BY <1>2, <1>3, <1>4, <1>5, HeadsStay DEF IInv, Precheck

LEMMA JudgeKeeps ==
    ASSUME IInv, NEW c \in Caller, Judge(c)
    PROVE  IInv'
<1>1. TypeOK
    BY DEF IInv
<1>2. TypeOK'
    BY <1>1 DEF Judge, Go, TypeOK, Step
<1>3. CallFits(c)'
    BY <1>1 DEF IInv, TypeOK, CallFits, Judge, Go, Initializing, Returning
<1>4. \A d \in Caller : d # c => CallFits(d)'
    BY <1>1, OthersFit DEF Judge, Go, TypeOK
<1>5. LockFits'
    BY <1>1, LockStays DEF Judge, Go, TypeOK, Critical, Callback
<1> QED
    BY <1>2, <1>3, <1>4, <1>5, HeadsStay DEF IInv, Judge

LEMMA WaitKeeps ==
    ASSUME IInv, NEW c \in Caller, Retry(c) \/ TimesOut(c)
    PROVE  IInv'
<1>1. TypeOK
    BY DEF IInv
<1>2. TypeOK'
    BY <1>1 DEF Retry, TimesOut, Go, TypeOK, Step, Settled
<1>3. CallFits(c)'
    BY <1>1 DEF IInv, TypeOK, CallFits, Retry, TimesOut, Go, Initializing, Returning
<1>4. \A d \in Caller : d # c => CallFits(d)'
    BY <1>1, OthersFit DEF Retry, TimesOut, Go, TypeOK
<1>5. LockFits'
    BY <1>1, LockStays DEF Retry, TimesOut, Go, TypeOK, Critical, Callback
<1> QED
    BY <1>2, <1>3, <1>4, <1>5, HeadsStay DEF IInv, Retry, TimesOut

LEMMA ReloadKeeps ==
    ASSUME IInv, NEW c \in Caller, Reload(c)
    PROVE  IInv'
<1>1. TypeOK
    BY DEF IInv
<1>2. TypeOK'
    <2>1. Loadable \in BOOLEAN
        BY DEF Loadable
    <2> QED
        BY ZenonT(60), <1>1, <2>1 DEF Reload, TypeOK, Step
<1>3. CallFits(c)'
    BY <1>1 DEF IInv, TypeOK, CallFits, Reload, Initializing, Returning
<1>4. \A d \in Caller : d # c => CallFits(d)'
    BY <1>1, OthersFit DEF Reload, TypeOK
<1>5. LockFits'
    BY <1>1, LockStays DEF Reload, TypeOK, Critical, Callback
<1> QED
    BY <1>2, <1>3, <1>4, <1>5, HeadsStay DEF IInv, Reload

LEMMA ReleaseKeeps ==
    ASSUME IInv, NEW c \in Caller, Release(c)
    PROVE  IInv'
<1>1. TypeOK
    BY DEF IInv
<1>2. TypeOK'
    BY <1>1 DEF Release, Outcome, Go, TypeOK, Step, Settled
<1>3. CallFits(c)'
    BY <1>1 DEF IInv, TypeOK, CallFits, Release, Outcome, Go, Initializing, Returning
<1>4. \A d \in Caller : d # c => CallFits(d)'
    BY <1>1, OthersFit DEF Release, Go, TypeOK
<1>5. LockFits'
    BY <1>1, LockStays DEF Release, Outcome, Go, TypeOK, Critical, Callback
<1> QED
    BY <1>2, <1>3, <1>4, <1>5, HeadsStay DEF IInv, Release

LEMMA CrashKeeps ==
    ASSUME IInv, NEW c \in Caller, Crash(c)
    PROVE  IInv'
<1>1. TypeOK /\ MaxCrashes \in Nat
    BY StoreAssumption DEF IInv
<1>2. TypeOK'
    BY <1>1 DEF Crash, Go, TypeOK, Step, Settled
<1>3. CallFits(c)'
    BY <1>1 DEF IInv, TypeOK, CallFits, Crash, Go, Initializing, Returning
<1>4. \A d \in Caller : d # c => CallFits(d)'
    BY <1>1, OthersFit DEF Crash, Go, TypeOK
<1>5. LockFits'
    BY <1>1, LockStays DEF Crash, Go, TypeOK, Critical, Callback
<1> QED
    BY <1>2, <1>3, <1>4, <1>5, HeadsStay DEF IInv, Crash

-----------------------------------------------------------------------------
\* Steps of the lock file.

\* A lock file is a file.
LEMMA LockIsFile ==
    ASSUME NEW c \in Caller
    PROVE  /\ Lock(c) \in [owner : Caller, stamped : BOOLEAN, old : BOOLEAN]
           /\ Lock(c) # NoLock
<1>1. Lock(c) \in [owner : Caller, stamped : BOOLEAN, old : BOOLEAN]
    BY DEF Lock
<1> QED
    BY <1>1, StoreAssumption

\* Who finds no lock file is alone: the others in the lock have one.
LEMMA AcquireKeeps ==
    ASSUME IInv, NEW c \in Caller, Acquire(c)
    PROVE  IInv'
<1>1. TypeOK
    BY DEF IInv
<1>2. TypeOK'
    BY <1>1, LockIsFile DEF Acquire, Go, TypeOK, Step
<1>3. CallFits(c)'
    BY <1>1 DEF IInv, TypeOK, CallFits, Acquire, Go, Initializing, Returning
<1>4. \A d \in Caller : d # c => CallFits(d)'
    BY <1>1, OthersFit DEF Acquire, Go, TypeOK
<1>5. LockFits'
    <2>1. CASE lock = NoLock
        <3>1. Lock(c) # NoLock
            BY LockIsFile
        <3>2. ~stolen => \A d \in Caller : call[d].at \notin Critical
            BY <2>1 DEF IInv, LockFits, HeldBy
        <3> QED
            BY <1>1, <2>1, <3>1, <3>2
               DEF IInv, LockFits, Acquire, Lock, Go, HeldBy, TypeOK, OnePerGeneration,
                   Critical, Callback
    <2>2. CASE lock # NoLock
        BY <1>1, <2>2, LockStays DEF Acquire, Go, TypeOK, Critical, Callback
    <2> QED
        BY <2>1, <2>2
<1> QED
    BY <1>2, <1>3, <1>4, <1>5, HeadsStay DEF IInv, Acquire

LEMMA StampKeeps ==
    ASSUME IInv, NEW c \in Caller, Stamp(c)
    PROVE  IInv'
<1>1. TypeOK
    BY DEF IInv
<1>2. TypeOK'
    <2>1. call' \in [Caller -> CallRecord]
        BY <1>1 DEF Stamp, Go, TypeOK, Step, Callback, CallRecord
    <2>2. lock' \in [owner : Caller, stamped : BOOLEAN, old : BOOLEAN] \cup {NoLock}
        BY <1>1 DEF Stamp, HeldBy, TypeOK
    <2> QED
        BY <1>1, <2>1, <2>2 DEF Stamp, TypeOK, CallRecord
<1>3. CallFits(c)'
    BY <1>1 DEF IInv, TypeOK, CallFits, Stamp, Go, Initializing, Returning
<1>4. \A d \in Caller : d # c => CallFits(d)'
    BY <1>1, OthersFit DEF Stamp, Go, TypeOK
<1>5. LockFits'
    <2> SUFFICES ASSUME ~stolen PROVE LockFits'
        BY DEF LockFits, Stamp
    <2>1. HeldBy(c) /\ \A d \in Caller : d # c => call[d].at \notin Critical
        BY DEF IInv, LockFits, Stamp, HeldBy, Critical
    <2>2. lock' = [lock EXCEPT !.stamped = TRUE, !.old = FALSE] /\ lock' # NoLock
        BY <1>1, <2>1, StoreAssumption DEF Stamp, TypeOK, HeldBy
    <2> QED
        BY <1>1, <2>1, <2>2
           DEF IInv, LockFits, Stamp, Go, HeldBy, TypeOK, OnePerGeneration, Critical, Callback
<1> QED
    BY <1>2, <1>3, <1>4, <1>5, HeadsStay DEF IInv, Stamp

\* Without theft the owner of a quarantined lock is dead: nobody is in it.
LEMMA QuarantineKeeps ==
    ASSUME IInv, NEW c \in Caller, Quarantine(c)
    PROVE  IInv'
<1>1. TypeOK
    BY DEF IInv
<1>2. TypeOK'
    BY <1>1 DEF Quarantine, Go, TypeOK, Step
<1>3. CallFits(c)'
    BY <1>1 DEF IInv, TypeOK, CallFits, Quarantine, Go, Initializing, Returning
<1>4. \A d \in Caller : d # c => CallFits(d)'
    BY <1>1, OthersFit DEF Quarantine, Go, TypeOK
<1>5. LockFits'
    <2> SUFFICES ASSUME ~stolen' PROVE LockFits'
        BY DEF LockFits
    <2>1. ~stolen /\ (lock # NoLock => At(lock.owner, "dead"))
        BY DEF Quarantine
    <2>2. \A d \in Caller : call[d].at \notin Critical
        BY <2>1 DEF IInv, LockFits, HeldBy, Critical, Callback
    <2> QED
        BY <1>1, <2>1, <2>2
           DEF IInv, LockFits, Quarantine, Go, TypeOK, OnePerGeneration, Critical, Callback
<1> QED
    BY <1>2, <1>3, <1>4, <1>5, HeadsStay DEF IInv, Quarantine

LEMMA UnlinkKeeps ==
    ASSUME IInv, NEW c \in Caller, Unlink(c)
    PROVE  IInv'
<1>1. TypeOK
    BY DEF IInv
<1>2. TypeOK'
    BY <1>1 DEF Unlink, Outcome, Go, TypeOK, Step, Settled
<1>3. CallFits(c)'
    BY <1>1 DEF IInv, TypeOK, CallFits, Unlink, Outcome, Go, Initializing, Returning
<1>4. \A d \in Caller : d # c => CallFits(d)'
    BY <1>1, OthersFit DEF Unlink, Go, TypeOK
<1>5. LockFits'
    <2> SUFFICES ASSUME ~stolen PROVE LockFits'
        BY DEF LockFits, Unlink
    <2>1. \A d \in Caller : d # c => call[d].at \notin Critical
        BY DEF IInv, LockFits, Unlink, HeldBy, Critical
    <2> QED
        BY <1>1, <2>1
           DEF IInv, LockFits, Unlink, Outcome, Go, TypeOK, OnePerGeneration, Critical, Callback
<1> QED
    BY <1>2, <1>3, <1>4, <1>5, HeadsStay DEF IInv, Unlink

LEMMA AgeKeeps ==
    ASSUME IInv, Age
    PROVE  IInv'
<1>1. TypeOK
    BY DEF IInv
<1>2. TypeOK' /\ (lock' # NoLock) /\ lock'.owner = lock.owner /\ lock'.stamped = lock.stamped
    BY <1>1, StoreAssumption DEF Age, TypeOK
<1>3. LockFits'
    BY <1>2 DEF IInv, LockFits, Age, HeldBy, OnePerGeneration
<1> QED
    BY <1>2, <1>3, HeadsStay, OthersFit DEF IInv, Age

-----------------------------------------------------------------------------
\* Steps of the callbacks.

\* A reference is written once, and before the first head.
LEMMA ProposalKeeps ==
    ASSUME IInv, NEW c \in Caller, WriteReference(c, "proposal", "evaluation")
    PROVE  IInv'
<1>1. TypeOK /\ call[c].op.proposal \in Proposal /\ NoReference \notin Proposal
    BY OperationOf, StoreAssumption DEF IInv, WriteReference, CallFits, Initializing
<1>2. TypeOK'
    BY <1>1 DEF WriteReference, Go, Fail, TypeOK, Step, Callback
<1>3. CallFits(c)'
    BY <1>1 DEF IInv, TypeOK, CallFits, WriteReference, Go, Fail, Initializing, Returning
<1>4. \A d \in Caller : d # c => CallFits(d)'
    BY <1>1, OthersFit DEF WriteReference, Go, Fail, TypeOK
<1>5. HeadsFit'
    BY <1>1 DEF IInv, HeadsFit, Closed, WriteReference, TypeOK
<1>6. LockFits'
    BY <1>1, LockStays DEF WriteReference, Go, Fail, TypeOK, Critical, Callback
<1> QED
    BY <1>2, <1>3, <1>4, <1>5, <1>6 DEF IInv

LEMMA EvaluationKeeps ==
    ASSUME IInv, NEW c \in Caller, WriteReference(c, "evaluation", "genesis")
    PROVE  IInv'
<1>1. TypeOK /\ call[c].op.proposal \in Proposal /\ NoReference \notin Proposal
    BY OperationOf, StoreAssumption DEF IInv, WriteReference, CallFits, Initializing
<1>2. TypeOK'
    BY <1>1 DEF WriteReference, Go, Fail, TypeOK, Step, Callback
<1>3. CallFits(c)'
    BY <1>1 DEF IInv, TypeOK, CallFits, WriteReference, Go, Fail, Initializing, Returning
<1>4. \A d \in Caller : d # c => CallFits(d)'
    BY <1>1, OthersFit DEF WriteReference, Go, Fail, TypeOK
<1>5. HeadsFit'
    BY <1>1 DEF IInv, HeadsFit, Closed, WriteReference, TypeOK
<1>6. LockFits'
    BY <1>1, LockStays DEF WriteReference, Go, Fail, TypeOK, Critical, Callback
<1> QED
    BY <1>2, <1>3, <1>4, <1>5, <1>6 DEF IInv

\* The first head is linked once: where there are heads it is one of them.
LEMMA LinkGenesisKeeps ==
    ASSUME IInv, NEW c \in Caller, LinkGenesis(c)
    PROVE  IInv'
<1> DEFINE g == Genesis(call[c].op.proposal)
<1>1. /\ TypeOK /\ call[c].op.proposal \in Proposal /\ NoReference \notin Proposal
      /\ references["proposal"] = call[c].op.proposal
      /\ references["evaluation"] = call[c].op.proposal
    BY OperationOf, StoreAssumption DEF IInv, LinkGenesis, CallFits, Initializing
<1>2. g \in Ledger /\ Generation(g) = 0 /\ g.events = <<>> /\ g.proposal = call[c].op.proposal
    BY <1>1, EmptySeq DEF Genesis, Ledger, Generation
<1>3. IsPath(g)
    BY <1>2 DEF IsPath
<1>4. heads # {} => heads' = heads
    BY <1>1 DEF IInv, HeadsFit, LinkGenesis
<1>5. heads = {} => heads' = {g}
    BY DEF LinkGenesis
<1> HIDE DEF g
<1>6. TypeOK'
    <2>1. call' = [call EXCEPT ![c].at = "reload", ![c].ledger = g]
        BY DEF LinkGenesis, g
    <2>2. call' \in [Caller -> CallRecord]
        <3>1. "reload" \in Step
            BY DEF Step, Callback
        <3> QED
            BY <1>1, <1>2, <2>1, <3>1, CallsTyped
    <2> QED
        BY <1>1, <1>2, <2>2 DEF LinkGenesis, TypeOK, CallRecord, g
<1>7. CallFits(c)'
    BY <1>1 DEF IInv, TypeOK, CallFits, LinkGenesis, Initializing, Returning
<1>8. \A d \in Caller : d # c => CallFits(d)'
    BY <1>1, OthersFit DEF LinkGenesis, TypeOK
<1>9. HeadsFit'
    <2>1. CASE heads # {}
        BY <1>4, <2>1, HeadsStay DEF LinkGenesis
    <2>2. CASE heads = {}
        <3>1. IsFiniteSet(heads')
            BY <1>5, <2>2, FS_Singleton
        <3>2. Closed(heads')
            BY <1>2, <1>5, <2>2, CutWhole DEF Closed
        <3> QED
            BY <1>1, <1>2, <1>3, <1>5, <2>2, <3>1, <3>2 DEF HeadsFit, LinkGenesis, g
    <2> QED
        BY <2>1, <2>2
<1>10. LockFits'
    <2>1. ~stolen => \A d \in Caller : ~At(d, "link")
        BY DEF IInv, LockFits, LinkGenesis, HeldBy, Critical, Callback
    <2>2. ~stolen => OnePerGeneration(heads')
        BY <1>4, <1>5 DEF IInv, LockFits, OnePerGeneration
    <2> QED
        BY <1>1, <2>1, <2>2 DEF IInv, LockFits, LinkGenesis, HeldBy, TypeOK, Critical, Callback
<1> QED
    BY <1>6, <1>7, <1>8, <1>9, <1>10 DEF IInv

\* What is loaded is the newest head, so the ledger to link is newer still.
LEMMA LoadKeeps ==
    ASSUME IInv, NEW c \in Caller, Load(c)
    PROVE  IInv'
<1> DEFINE event == call[c].op.event
           top == Newest(heads)
<1>1. TypeOK /\ event \in EventType /\ call[c].op.kind # "initialize"
    BY OperationOf DEF IInv, Load, CallFits
<1>2. \A d \in Caller : d # c => CallFits(d)'
    BY <1>1, OthersFit DEF Load, Fail, TypeOK
<1>3. CASE Loadable /\ Accepts(top, event)
    <2>1. top \in heads /\ \A h \in heads : Generation(h) <= Generation(top)
        BY <1>1, <1>3, NewestIsLast DEF IInv, HeadsFit, Loadable, TypeOK
    <2> HIDE DEF top
    <2>2. /\ Extended(top, event) \in Ledger
          /\ Generation(Extended(top, event)) = Generation(top) + 1
        BY <1>1, <2>1, ExtendedIsLedger DEF TypeOK
    <2>3. \A h \in heads : Generation(h) \in Nat
        BY <1>1, LenProperties DEF TypeOK, Ledger, Generation
    <2>4. call' = [call EXCEPT ![c].at = "link", ![c].ledger = Extended(top, event)]
        BY <1>3 DEF Load, top
    <2>5. TypeOK'
        BY <1>1, <2>2, <2>4 DEF Load, TypeOK, Step, Callback
    <2>6. CallFits(c)'
        BY <1>1, <1>3, <2>1, <2>4
           DEF IInv, TypeOK, CallFits, FollowsAHead, Load, Initializing, Returning
    <2>7. LockFits'
        <3>1. \A h \in heads : Generation(h) < Generation(call'[c].ledger)
            BY <1>1, <2>1, <2>2, <2>3, <2>4 DEF TypeOK
        <3> QED
            BY <1>1, <2>4, <3>1
               DEF IInv, LockFits, Load, HeldBy, TypeOK, OnePerGeneration, Critical, Callback
    <2> QED
        BY <1>2, <2>5, <2>6, <2>7, HeadsStay DEF IInv, Load
<1>4. CASE ~(Loadable /\ Accepts(top, event))
    <2>1. Fail(c) /\ UNCHANGED <<references, heads, lock, stolen, crashes>>
        BY <1>4 DEF Load
    <2>2. TypeOK'
        <3>1. call' \in [Caller -> CallRecord]
            <4>1. "release" \in Step /\ FALSE \in BOOLEAN /\ NoLedger \in Ledger \cup {NoLedger}
                BY DEF Step
            <4> QED
                BY <1>1, <2>1, <4>1, CallsTyped DEF Fail
        <3> QED
            BY <1>1, <2>1, <3>1 DEF TypeOK, CallRecord
    <2>3. CallFits(c)'
        BY <1>1, <2>1 DEF IInv, TypeOK, CallFits, Load, Fail, Initializing, Returning
    <2>4. LockFits'
        BY <1>1, <2>1, LockStays DEF Load, Fail, TypeOK, Critical, Callback
    <2> QED
        BY <1>2, <2>1, <2>2, <2>3, <2>4, HeadsStay DEF IInv
<1> QED
    BY <1>3, <1>4

\* The linked ledger follows a head, legally; without theft it is the newest.
LEMMA LinkKeeps ==
    ASSUME IInv, NEW c \in Caller, Link(c)
    PROVE  IInv'
<1> DEFINE x == call[c].ledger
           e == call[c].op.event
<1>1. TypeOK /\ e \in EventType
    BY OperationOf DEF IInv, Link, CallFits
<1>2. PICK h \in heads : Accepts(h, e) /\ x = Extended(h, e)
    BY DEF IInv, CallFits, Link, FollowsAHead
<1>3. h \in Ledger /\ IsPath(h) /\ heads # {} /\ h.proposal = references["proposal"]
    BY <1>1 DEF IInv, HeadsFit, TypeOK
<1>4. x \in Ledger /\ x.proposal = h.proposal /\ IsPath(x)
    BY <1>1, <1>2, <1>3, ExtendedIsLedger, ExtendedPath
<1>5. heads' = heads \cup {x}
    BY DEF Link
<1>6. IsFiniteSet(heads') /\ Closed(heads')
    BY <1>1, <1>2, <1>5, FS_AddElement, ClosedGrows DEF IInv, HeadsFit, TypeOK
<1> HIDE DEF x
<1>7. TypeOK'
    <2>1. call' \in [Caller -> CallRecord]
        <3>1. "release" \in Step /\ TRUE \in BOOLEAN
            BY DEF Step
        <3> QED
            BY <1>1, <1>4, <3>1, CallsTyped DEF Link
    <2> QED
        BY <1>1, <1>4, <1>5, <2>1 DEF Link, TypeOK, CallRecord
<1>8. HeadsFit'
    BY <1>3, <1>4, <1>5, <1>6 DEF IInv, HeadsFit, Link
<1>9. CallFits(c)'
    BY <1>1, <1>5 DEF IInv, TypeOK, CallFits, Link, Initializing, Returning, x
<1>10. \A d \in Caller : d # c => CallFits(d)'
    BY <1>1, OthersFit DEF Link, TypeOK
<1>11. LockFits'
    <2> SUFFICES ASSUME ~stolen PROVE LockFits'
        BY DEF LockFits, Link
    <2>1. HeldBy(c) /\ \A d \in Caller : d # c => call[d].at \notin Critical
        BY DEF IInv, LockFits, Link, HeldBy, Critical, Callback
    <2>2. \A g \in heads : Generation(g) < Generation(x)
        BY DEF IInv, LockFits, Link, x
    <2>3. \A g \in heads' : Generation(g) \in Nat
        BY <1>7, LenProperties DEF TypeOK, Ledger, Generation
    <2>4. OnePerGeneration(heads')
        BY <1>5, <2>2, <2>3 DEF IInv, LockFits, OnePerGeneration
    <2> QED
        BY <1>1, <2>1, <2>4 DEF IInv, LockFits, Link, HeldBy, TypeOK, Critical, Callback
<1> QED
    BY <1>7, <1>8, <1>9, <1>10, <1>11 DEF IInv

-----------------------------------------------------------------------------
\* Every step keeps the invariant.
LEMMA NextKeeps ==
    ASSUME IInv, [Next]_vars
    PROVE  IInv'
<1>1. CASE UNCHANGED vars
    BY <1>1, HeadsStay DEF vars, IInv, TypeOK, CallFits, LockFits, FollowsAHead, HeldBy,
                           OnePerGeneration
<1>2. ASSUME NEW c \in Caller, Advance(c)
      PROVE  IInv'
    BY <1>2, PrecheckKeeps, AcquireKeeps, StampKeeps, JudgeKeeps, QuarantineKeeps, WaitKeeps,
       ProposalKeeps, EvaluationKeeps, LinkGenesisKeeps, ReloadKeeps, LoadKeeps, LinkKeeps,
       ReleaseKeeps, UnlinkKeeps DEF Advance
<1> QED
    BY <1>1, <1>2, StartKeeps, WaitKeeps, CrashKeeps, AgeKeeps DEF Next

\* The invariant says both what callers exclude and what loads return.
LEMMA InvariantSerializes == IInv => SerializedUnlessStolen
<1> SUFFICES ASSUME IInv, ~stolen PROVE SerializedUnlessStolen
    BY DEF SerializedUnlessStolen
<1>1. \A c, d \in Caller : call[c].at \in Callback /\ call[d].at \in Callback => c = d
    BY DEF IInv, LockFits, HeldBy, Critical
<1>2. heads # {} => Contiguous(heads)
    BY ClosedIsContiguous DEF IInv, TypeOK, HeadsFit, LockFits
<1> QED
    BY <1>1, <1>2 DEF SerializedUnlessStolen

LEMMA InvariantAcknowledges == IInv => AcknowledgedOrUnreadable
<1> SUFFICES ASSUME IInv PROVE AcknowledgedOrUnreadable
    OBVIOUS
<1>1. HistoryIsLegal
    BY DEF IInv, HeadsFit, HistoryIsLegal
<1>2. ASSUME Loadable, NEW c \in Caller, At(c, "resolved")
      PROVE  IsPrefix(call[c].ledger.events, Newest(heads).events)
    <2>1. call[c].ledger \in heads
        BY <1>2 DEF IInv, CallFits
    <2> QED
        BY <1>2, <2>1, HeadsArePrefixes DEF IInv, TypeOK, HeadsFit, Loadable
<1> QED
    BY <1>1, <1>2 DEF AcknowledgedOrUnreadable

\* withLock: as long as the quarantine of a stale lock hit no living owner,
\* callbacks run one at a time and the linked heads are readable, whoever
\* dies, waits or times out.
THEOREM StoreIsSerialized == Spec => []SerializedUnlessStolen
<1>1. Spec => []IInv
    BY InitFits, NextKeeps, PTL DEF Spec
<1> QED
    BY <1>1, InvariantSerializes, PTL

\* appendEvent, initializeExperiment and loadExperiment: also when living
\* callers lose their locks, every head is a legal history, and a load
\* returns one that continues whatever was acknowledged, or throws.
THEOREM StoreKeepsWhatItAcknowledged == Spec => []AcknowledgedOrUnreadable
<1>1. Spec => []IInv
    BY InitFits, NextKeeps, PTL DEF Spec
<1> QED
    BY <1>1, InvariantAcknowledges, PTL

-----------------------------------------------------------------------------
(***************************************************************************)
(* The research protocol.  That better evidence does not make a candidate  *)
(* ineligible is arithmetic, one clause of the decision at a time; that    *)
(* nobody goes on without a word of somebody who is no model follows from  *)
(* the walk that the ledger's events are (Walk).                           *)
(***************************************************************************)

\* The evidence b is in no respect worse than o.
NoWorse(p, m, o, b) ==
    /\ b.status = o.status /\ b.artifact = o.artifact /\ b.safe = o.safe
    /\ b.usage \in Int /\ b.usage <= o.usage
    /\ b.receipts \in Int /\ b.receipts >= o.receipts
    /\ o.reproductions \subseteq b.reproductions
    /\ b.measured \in [DOMAIN o.measured -> [delta : Int, repetitions : Int]]
    /\ \A key \in DOMAIN o.measured :
          /\ b.measured[key].repetitions >= o.measured[key].repetitions
          /\ LessIsBetter(p, m, key) => b.measured[key].delta <= o.measured[key].delta
          /\ ~LessIsBetter(p, m, key) => b.measured[key].delta >= o.measured[key].delta

\* What an outcome is made of.
OutcomeForm(o) ==
    /\ {"status", "artifact", "usage", "safe", "receipts", "reproductions", "measured"}
          \subseteq DOMAIN o
    /\ o.usage \in Int /\ o.receipts \in Int
    /\ o.measured \in [DOMAIN o.measured -> [delta : Int, repetitions : Int]]

\* Evidence that is better in one respect is worse in none.
LEMMA BetterIsNoWorse ==
    ASSUME NEW p, NEW m, NEW o, OutcomeForm(o), NEW b \in Better(p, m, o)
    PROVE  NoWorse(p, m, o, b)
<1> DEFINE further(key) == IF LessIsBetter(p, m, key) THEN -1 ELSE 1
<1>1. ASSUME NEW key \in DOMAIN o.measured,
             b = [o EXCEPT !.measured[key].delta = @ + further(key)]
      PROVE  NoWorse(p, m, o, b)
    <2>1. /\ b.status = o.status /\ b.artifact = o.artifact /\ b.safe = o.safe
          /\ b.usage = o.usage /\ b.receipts = o.receipts /\ b.reproductions = o.reproductions
          /\ b.measured = [o.measured EXCEPT ![key].delta = @ + further(key)]
        BY <1>1 DEF OutcomeForm
    <2>2. further(key) \in Int
        OBVIOUS
    <2>3. o.measured[key] \in [delta : Int, repetitions : Int]
        BY DEF OutcomeForm
    <2>4. /\ b.measured \in [DOMAIN o.measured -> [delta : Int, repetitions : Int]]
          /\ b.measured[key].delta = o.measured[key].delta + further(key)
          /\ b.measured[key].repetitions = o.measured[key].repetitions
          /\ \A k \in DOMAIN o.measured \ {key} : b.measured[k] = o.measured[k]
        <3> HIDE DEF further
        <3> QED
            BY <2>1, <2>2, <2>3 DEF OutcomeForm
    <2> QED
        BY <2>1, <2>3, <2>4 DEF NoWorse, OutcomeForm
<1>2. ASSUME NEW key \in DOMAIN o.measured,
             b = [o EXCEPT !.measured[key].repetitions = @ + 1]
      PROVE  NoWorse(p, m, o, b)
    <2>1. /\ b.status = o.status /\ b.artifact = o.artifact /\ b.safe = o.safe
          /\ b.usage = o.usage /\ b.receipts = o.receipts /\ b.reproductions = o.reproductions
          /\ b.measured = [o.measured EXCEPT ![key].repetitions = @ + 1]
        BY <1>2 DEF OutcomeForm
    <2>2. o.measured[key] \in [delta : Int, repetitions : Int]
        BY DEF OutcomeForm
    <2>3. /\ b.measured \in [DOMAIN o.measured -> [delta : Int, repetitions : Int]]
          /\ b.measured[key].repetitions = o.measured[key].repetitions + 1
          /\ b.measured[key].delta = o.measured[key].delta
          /\ \A k \in DOMAIN o.measured \ {key} : b.measured[k] = o.measured[k]
        BY <2>1, <2>2 DEF OutcomeForm
    <2> QED
        BY <2>1, <2>2, <2>3 DEF NoWorse, OutcomeForm
<1>3. CASE b = [o EXCEPT !.usage = @ - 1]
    BY <1>3 DEF NoWorse, OutcomeForm
<1>4. CASE b = [o EXCEPT !.receipts = @ + 1]
    BY <1>4 DEF NoWorse, OutcomeForm
<1>5. CASE b = [o EXCEPT !.reproductions = @ \cup {[independent |-> TRUE, matched |-> TRUE]}]
    BY <1>5 DEF NoWorse, OutcomeForm
<1> QED
    BY <1>1, <1>2, <1>3, <1>4, <1>5 DEF Better

\* What a manifest and a proposal are made of.
ManifestForm(m) ==
    /\ m.direction \in [m.metrics -> {"increase", "decrease", "floor"}]
    /\ m.lift \in Int /\ m.slack \in Int /\ m.floor \in Int /\ m.repetitions \in Int
    /\ ValidManifest(m)
ProposalForm(p) ==
    /\ p.budget \in Int /\ \A x \in p.predictions : x.delta \in Int
    /\ ValidPredictions(p.predictions)

\* A prediction alone says how its measurement is read, and none is about the
\* measurements that the rest of the decision looks at.
LEMMA PredictionReads ==
    ASSUME NEW p, NEW m, ProposalForm(p), NEW x \in p.predictions
    PROVE  LessIsBetter(p, m, <<x.metric, x.partition>>) <=> x.direction = "decrease"
<1> DEFINE about == {y \in p.predictions : <<y.metric, y.partition>> = <<x.metric, x.partition>>}
<1>1. about = {x}
    BY DEF ProposalForm, ValidPredictions
<1>2. LessIsBetter(p, m, <<x.metric, x.partition>>) <=>
          IF about = {} THEN m.direction[<<x.metric, x.partition>>[1]] = "decrease"
          ELSE \E y \in about : y.direction = "decrease"
    BY DEF LessIsBetter
<1> HIDE DEF about
<1> QED
    BY <1>1, <1>2

LEMMA DecisionReads ==
    ASSUME NEW p, NEW m, ProposalForm(p), NEW metric, NEW partition \in {"sealed", "canary"}
    PROVE  LessIsBetter(p, m, <<metric, partition>>) <=> m.direction[metric] = "decrease"
<1>1. {y \in p.predictions : <<y.metric, y.partition>> = <<metric, partition>>} = {}
    BY DEF ProposalForm, ValidPredictions
<1>2. <<metric, partition>>[1] = metric
    OBVIOUS
<1> QED
    BY <1>1, <1>2 DEF LessIsBetter

LEMMA PredictionsStillHold ==
    ASSUME NEW p, NEW m, NEW o, NEW b, ProposalForm(p), OutcomeForm(o),
           NoWorse(p, m, o, b), NEW x \in p.predictions, PredictionHolds(x, o)
    PROVE  PredictionHolds(x, b)
<1> DEFINE key == <<x.metric, x.partition>>
<1>1. /\ key \in DOMAIN o.measured /\ PredictionPassed(x, o.measured[key].delta)
      /\ o.measured[key].delta \in Int /\ b.measured[key].delta \in Int
      /\ DOMAIN b.measured = DOMAIN o.measured /\ x.delta \in Int
    BY DEF PredictionHolds, OutcomeForm, NoWorse, ProposalForm
<1>2. /\ x.direction = "decrease" => b.measured[key].delta <= o.measured[key].delta
      /\ x.direction # "decrease" => b.measured[key].delta >= o.measured[key].delta
    BY <1>1, PredictionReads DEF NoWorse
<1> DEFINE d == o.measured[key].delta
           e == b.measured[key].delta
           y == x.delta
<1>3. d \in Int /\ e \in Int /\ y \in Int
    BY <1>1
<1>4. PredictionPassed(x, e)
    <2>1. CASE x.direction = "increase"
        <3>1. d >= y /\ e >= d
            BY <1>1, <1>2, <2>1 DEF PredictionPassed
        <3> HIDE DEF d, e, y
        <3>2. e >= y
            BY <1>3, <3>1
        <3> QED
            BY <2>1, <3>2 DEF PredictionPassed, y
    <2>2. CASE x.direction = "decrease"
        <3>1. -d >= y /\ e <= d
            BY <1>1, <1>2, <2>2 DEF PredictionPassed
        <3> HIDE DEF d, e, y
        <3>2. -e >= y
            BY <1>3, <3>1
        <3> QED
            BY <2>2, <3>2 DEF PredictionPassed, y
    <2>3. CASE x.direction \notin {"increase", "decrease"}
        <3>1. d >= -y /\ e >= d
            BY <1>1, <1>2, <2>3 DEF PredictionPassed
        <3> HIDE DEF d, e, y
        <3>2. e >= -y
            BY <1>3, <3>1
        <3> QED
            BY <2>3, <3>2 DEF PredictionPassed, y
    <2> QED
        BY <2>1, <2>2, <2>3
<1> QED
    BY <1>1, <1>4 DEF PredictionHolds

LEMMA PrimaryStillImproved ==
    ASSUME NEW p, NEW m, NEW o, NEW b, ManifestForm(m), ProposalForm(p), OutcomeForm(o), NoWorse(p, m, o, b),
           PrimaryImproved(m, o)
    PROVE  PrimaryImproved(m, b)
<1> DEFINE key == <<m.primary, "sealed">>
<1>1. /\ key \in DOMAIN o.measured /\ DOMAIN b.measured = DOMAIN o.measured
      /\ key[1] = m.primary
      /\ o.measured[key] \in [delta : Int, repetitions : Int]
      /\ b.measured[key] \in [delta : Int, repetitions : Int]
    BY DEF PrimaryImproved, OutcomeForm, NoWorse
<1> DEFINE d == o.measured[key].delta
           e == b.measured[key].delta
           r == o.measured[key].repetitions
           t == b.measured[key].repetitions
           n == m.direction[m.primary]
           l == m.lift
<1>2. d \in Int /\ e \in Int /\ r \in Int /\ t \in Int /\ l \in Int /\ m.repetitions \in Int
    BY <1>1 DEF ManifestForm
<1>3. /\ r >= m.repetitions /\ t >= r
      /\ n = "decrease" => e <= d
      /\ n # "decrease" => e >= d
    <2>1. LessIsBetter(p, m, key) <=> n = "decrease"
        BY DecisionReads
    <2> QED
        BY <1>1, <2>1 DEF PrimaryImproved, NoWorse
<1>4. Improved(n, d, l)
    BY DEF PrimaryImproved
<1> HIDE DEF d, e, r, t, n, l
<1>5. t >= m.repetitions
    BY <1>2, <1>3
<1>6. Improved(n, e, l)
    <2>1. CASE n = "increase"
        BY <1>2, <1>3, <1>4, <2>1 DEF Improved
    <2>2. CASE n = "decrease"
        BY <1>2, <1>3, <1>4, <2>2 DEF Improved
    <2>3. CASE n \notin {"increase", "decrease"}
        BY <2>3 DEF Improved
    <2> QED
        BY <2>1, <2>2, <2>3
<1> QED
    BY <1>1, <1>5, <1>6 DEF PrimaryImproved, e, t, n, l

LEMMA FloorsStillHold ==
    ASSUME NEW p, NEW m, NEW o, NEW b, ManifestForm(m), ProposalForm(p), OutcomeForm(o), NoWorse(p, m, o, b),
           NEW x \in m.safety, FloorHolds(x, m, o)
    PROVE  FloorHolds(x, m, b)
<1>1. m.direction[x] = "floor" /\ m.floor \in Int
    BY DEF ManifestForm, ValidManifest, Floors
<1>2. ASSUME NEW partition \in {"sealed", "canary"}, <<x, partition>> \in DOMAIN o.measured,
             o.measured[<<x, partition>>].delta >= m.floor
      PROVE  b.measured[<<x, partition>>].delta >= m.floor
    <2> DEFINE key == <<x, partition>>
               d == o.measured[key].delta
               e == b.measured[key].delta
    <2>1. d \in Int /\ e \in Int /\ e >= d /\ d >= m.floor
        BY <1>1, <1>2, DecisionReads DEF NoWorse, OutcomeForm
    <2> HIDE DEF d, e
    <2>2. e >= m.floor
        BY <1>1, <2>1
    <2> QED
        BY <2>2 DEF e
<1>3. DOMAIN b.measured = DOMAIN o.measured
    BY DEF NoWorse
<1> QED
    BY <1>2, <1>3 DEF FloorHolds

LEMMA SecondariesStillBounded ==
    ASSUME NEW p, NEW m, NEW o, NEW b, ManifestForm(m), ProposalForm(p), OutcomeForm(o), NoWorse(p, m, o, b),
           SecondaryBounded(m, o)
    PROVE  SecondaryBounded(m, b)
<1> SUFFICES ASSUME NEW x \in m.metrics \ (Floors(m) \cup {m.primary}),
                    <<x, "sealed">> \in DOMAIN b.measured
             PROVE  Regression(m.direction[x], b.measured[<<x, "sealed">>].delta) <= m.slack
    BY DEF SecondaryBounded
<1> DEFINE key == <<x, "sealed">>
           d == o.measured[key].delta
           e == b.measured[key].delta
           n == m.direction[x]
<1>1. key \in DOMAIN o.measured /\ key[1] = x
    BY DEF NoWorse
<1>2. d \in Int /\ e \in Int /\ m.slack \in Int /\ n \in {"increase", "decrease"}
    BY <1>1 DEF NoWorse, OutcomeForm, ManifestForm, Floors
<1>3. (n = "decrease" => e <= d) /\ (n # "decrease" => e >= d)
    <2>1. LessIsBetter(p, m, key) <=> n = "decrease"
        BY DecisionReads
    <2> QED
        BY <1>1, <2>1 DEF NoWorse
<1>4. Regression(n, d) <= m.slack
    BY <1>1 DEF SecondaryBounded
<1> HIDE DEF d, e, n
<1>5. Regression(n, e) <= m.slack
    <2>1. CASE n = "increase"
        BY <1>2, <1>3, <1>4, <2>1 DEF Regression
    <2>2. CASE n = "decrease"
        BY <1>2, <1>3, <1>4, <2>2 DEF Regression
    <2> QED
        BY <1>2, <2>1, <2>2
<1> QED
    BY <1>5 DEF e, n

\* evaluateResearchPromotion: better evidence never makes a candidate ineligible,
\* for every manifest, proposal and outcome that passes the field checks.  Which
\* way a measurement gets better says the prediction about it before its metric
\* does (LessIsBetter): under no_regression it must not fall, whatever its metric.
THEOREM BetterEvidenceKeepsEligible ==
    ASSUME NEW p, NEW m, NEW o, ManifestForm(m), ProposalForm(p), OutcomeForm(o),
           PromotionEligible(p, m, o), NEW b \in Better(p, m, o)
    PROVE  PromotionEligible(p, m, b)
<1>1. NoWorse(p, m, o, b)
    BY BetterIsNoWorse
<1>2. \A x \in p.predictions : x.required => PredictionHolds(x, b)
    BY <1>1, PredictionsStillHold DEF PromotionEligible
<1>3. PrimaryImproved(m, b)
    BY <1>1, PrimaryStillImproved DEF PromotionEligible
<1>4. \A x \in m.safety : FloorHolds(x, m, b)
    BY <1>1, FloorsStillHold DEF PromotionEligible
<1>5. SecondaryBounded(m, b)
    BY <1>1, SecondariesStillBounded DEF PromotionEligible
<1>6. b.usage <= p.budget /\ b.receipts > 0
    <2>1. b.usage \in Int /\ o.usage \in Int /\ p.budget \in Int /\ b.usage <= o.usage
          /\ o.usage <= p.budget /\ b.receipts \in Int /\ o.receipts \in Int
          /\ b.receipts >= o.receipts /\ o.receipts > 0
        BY <1>1 DEF NoWorse, OutcomeForm, ProposalForm, PromotionEligible
    <2> QED
        BY <2>1
<1> QED
    BY <1>1, <1>2, <1>3, <1>4, <1>5, <1>6 DEF PromotionEligible, NoWorse

\* The states that a ledger's events lead through.
Walk(path, es) ==
    /\ path \in Seq(DOMAIN Transition \cup {"rejected", "quarantined", "aborted", "reverted"})
    /\ Len(path) = Len(es)
    /\ Len(es) > 0
    /\ path[1] = "proposed"
    /\ \A i \in 2 .. Len(es) :
          /\ path[i - 1] \in DOMAIN Transition
          /\ es[i].type \in DOMAIN Transition[path[i - 1]]
          /\ path[i] = Transition[path[i - 1]][es[i].type]

\* The ledger's state is the last of its walk.
LEMMA WalkEnds ==
    ASSUME events \in Seq([type : EventTypes \cup {"proposal_recorded"},
                           by : {"human", "model", "hybrid", "service"}]),
           NEW path, Walk(path, events)
    PROVE  LedgerState = path[Len(events)]
<1> DEFINE n == Len(events)
           Solves(at) == at = [i \in 1 .. n |-> IF i = 1 THEN "proposed"
                                                ELSE Transition[at[i - 1]][events[i].type]]
           at == CHOOSE f : Solves(f)
           S == {k \in 0 .. n - 1 : at[k + 1] = path[k + 1]}
<1>1. n \in Nat /\ n > 0 /\ DOMAIN path = 1 .. n
    BY DEF Walk
<1>2. path = [i \in 1 .. n |-> path[i]]
    BY <1>1 DEF Walk
<1>3. Solves(path)
    <2>1. \A i \in 1 .. n : path[i] = IF i = 1 THEN "proposed"
                                      ELSE Transition[path[i - 1]][events[i].type]
        BY <1>1 DEF Walk
    <2> QED
        BY <1>2, <2>1
<1>4. Solves(at)
    <2> HIDE DEF Solves
    <2> QED
        BY <1>3
<1>5. \A i \in 1 .. n : at[i] = IF i = 1 THEN "proposed" ELSE Transition[at[i - 1]][events[i].type]
    <2> HIDE DEF at
    <2> QED
        BY <1>4
<1> HIDE DEF at
<1>6. 0 \in S
    BY <1>1, <1>5 DEF Walk
<1>7. ASSUME NEW k \in 1 .. n - 1, k - 1 \in S
      PROVE  k \in S
    <2>1. at[k] = path[k] /\ k + 1 \in 2 .. n /\ k + 1 \in 1 .. n /\ k + 1 # 1 /\ (k + 1) - 1 = k
        BY <1>1, <1>7
    <2>2. at[k + 1] = Transition[at[k]][events[k + 1].type]
        BY <1>5, <2>1
    <2>3. path[k + 1] = Transition[path[k]][events[k + 1].type]
        BY <2>1 DEF Walk
    <2> QED
        BY <1>1, <2>1, <2>2, <2>3
<1> HIDE DEF S
<1>8. 0 .. n - 1 \subseteq S
    <2>1. n - 1 \in Nat
        BY <1>1
    <2> QED
        BY <1>6, <1>7, <2>1, Induction
<1>9. n - 1 \in S
    BY <1>1, <1>8
<1>10. at[n] = path[n]
    BY <1>1, <1>9 DEF S
<1> QED
    BY <1>10 DEF LedgerState, StateAfter, at

WalkTells ==
    events \in Seq([type : EventTypes \cup {"proposal_recorded"},
                    by : {"human", "model", "hybrid", "service"}]) =>
        \A path : Walk(path, events) => LedgerState = path[Len(events)]

\* It is so after a step as well.
LEMMA WalkTellsNext == WalkTells'
<1>1. WalkTells
    BY WalkEnds DEF WalkTells
<1> QED
    BY <1>1, PTL

\* Somebody who is not a model has approved, up to the n-th event.
ApprovedIn(es, n) == \E h \in 1 .. n : es[h].type = "approved" /\ es[h].by # "model"

ResearchInv ==
    /\ ResearchTypeOK
    /\ attestation \in [outcome : OfferedOutcome \cup {NoOutcome}, eligible : BOOLEAN, signed : BOOLEAN]
    /\ attestation.signed => attestation.outcome \in OfferedOutcome
    /\ experiment = NoProposal => evidence = Nothing /\ events = << >>
    /\ experiment # NoProposal =>
          /\ experiment.manifest \in OfferedManifest
          /\ ValidProposal(experiment, experiment.manifest)
          /\ \E path : Walk(path, events)
          /\ LedgerState \in {"approved", "running", "evaluating", "promoted", "reverted"} =>
                ApprovedIn(events, Len(events))
    /\ evidence # Nothing =>
          /\ evidence.outcome \in OfferedOutcome
          /\ evidence.eligible <=> PromotionEligible(experiment, experiment.manifest, evidence.outcome)
    /\ \A i \in DOMAIN events :
          /\ events[i].type \in {"promoted", "rejected", "reverted"} => events[i].by # "model"
          /\ events[i].type \in {"started", "outcome_recorded", "promoted", "reverted"} =>
                ApprovedIn(events, i - 1)

LEMMA ResearchInitFits == ResearchInit => ResearchInv
BY ResearchAssumption DEF ResearchInit, ResearchInv, ResearchTypeOK, Nothing

\* The steps of the ledger, by the state they leave.
LEMMA TransitionsAre ==
    ASSUME NEW s \in DOMAIN Transition, NEW type \in DOMAIN Transition[s]
    PROVE  /\ Transition[s][type] \in
                 DOMAIN Transition \cup {"rejected", "quarantined", "aborted", "reverted"}
           /\ type \in EventTypes /\ type # "proposal_recorded"
           /\ type \in {"started", "outcome_recorded", "promoted", "reverted"} =>
                 s \in {"approved", "running", "evaluating", "promoted"}
           /\ Transition[s][type] = "approved" => type = "approved"
           /\ Transition[s][type] \in {"running", "evaluating", "promoted", "reverted"} =>
                 s \in {"approved", "running", "evaluating", "promoted"}
<1>1. DOMAIN Transition = {"proposed", "approved", "running", "evaluating", "promoted"}
    BY DEF Transition
<1>2. type \in EventTypes
    BY DEF EventTypes
<1>3. CASE s = "proposed"
    <2>1. Transition[s] = [approved |-> "approved", rejected |-> "rejected",
                           quarantined |-> "quarantined"]
        BY <1>3 DEF Transition
    <2> QED
        BY <1>1, <1>2, <1>3, <2>1
<1>4. CASE s = "approved"
    <2>1. Transition[s] = [started |-> "running", aborted |-> "aborted",
                           quarantined |-> "quarantined"]
        BY <1>4 DEF Transition
    <2> QED
        BY <1>1, <1>2, <1>4, <2>1
<1>5. CASE s = "running"
    <2>1. Transition[s] = [outcome_recorded |-> "evaluating", aborted |-> "aborted",
                           quarantined |-> "quarantined"]
        BY <1>5 DEF Transition
    <2> QED
        BY <1>1, <1>2, <1>5, <2>1
<1>6. CASE s = "evaluating"
    <2>1. Transition[s] = [promoted |-> "promoted", rejected |-> "rejected",
                           quarantined |-> "quarantined"]
        BY <1>6 DEF Transition
    <2> QED
        BY <1>1, <1>2, <1>6, <2>1
<1>7. CASE s = "promoted"
    <2>1. Transition[s] = [reverted |-> "reverted"]
        BY <1>7 DEF Transition
    <2> QED
        BY <1>1, <1>2, <1>7, <2>1
<1> QED
    BY <1>1, <1>3, <1>4, <1>5, <1>6, <1>7

\* What an event that the ledger takes leaves of its walk and of the approvals.
LEMMA EventKeeps ==
    ASSUME ResearchInv, experiment # NoProposal, NEW type,
           NEW by \in {"human", "model", "hybrid", "service"},
           LedgerState \in DOMAIN Transition, type \in DOMAIN Transition[LedgerState],
           MayRecord(type, by), events' = Append(events, [type |-> type, by |-> by])
    PROVE  /\ events' \in Seq([type : EventTypes \cup {"proposal_recorded"},
                               by : {"human", "model", "hybrid", "service"}])
           /\ (\E path : Walk(path, events))'
           /\ (LedgerState \in {"approved", "running", "evaluating", "promoted", "reverted"} =>
                 ApprovedIn(events, Len(events)))'
           /\ (\A i \in DOMAIN events :
                 /\ events[i].type \in {"promoted", "rejected", "reverted"} => events[i].by # "model"
                 /\ events[i].type \in {"started", "outcome_recorded", "promoted", "reverted"} =>
                       ApprovedIn(events, i - 1))'
<1> DEFINE Event == [type : EventTypes \cup {"proposal_recorded"},
                     by : {"human", "model", "hybrid", "service"}]
           n == Len(events)
           new == Transition[LedgerState][type]
<1>1. events \in Seq(Event) /\ n \in Nat
    BY DEF ResearchInv, ResearchTypeOK
<1>2. PICK path : Walk(path, events)
    BY DEF ResearchInv
<1>3. n > 0 /\ LedgerState = path[n]
    BY <1>1, <1>2, WalkEnds DEF Walk
<1>4. /\ new \in DOMAIN Transition \cup {"rejected", "quarantined", "aborted", "reverted"}
      /\ type \in EventTypes
    BY TransitionsAre
<1>5. [type |-> type, by |-> by] \in Event
    BY <1>4
<1>6. /\ events' \in Seq(Event) /\ Len(events') = n + 1
      /\ \A i \in 1 .. n : events'[i] = events[i]
      /\ events'[n + 1].type = type /\ events'[n + 1].by = by
    <2> HIDE DEF Event
    <2> QED
        BY <1>1, <1>5
<1>7. Walk(Append(path, new), events')
    <2> DEFINE States == DOMAIN Transition \cup {"rejected", "quarantined", "aborted", "reverted"}
               longer == Append(path, new)
    <2>1. path \in Seq(States) /\ Len(path) = n
        BY <1>2 DEF Walk
    <2>2. /\ longer \in Seq(States) /\ Len(longer) = n + 1 /\ longer[n + 1] = new
          /\ \A i \in 1 .. n : longer[i] = path[i]
        <3> HIDE DEF States, new
        <3> QED
            BY <1>4, <2>1 DEF States
    <2> HIDE DEF longer
    <2>3. ASSUME NEW i \in 2 .. n + 1
          PROVE  /\ longer[i - 1] \in DOMAIN Transition
                 /\ events'[i].type \in DOMAIN Transition[longer[i - 1]]
                 /\ longer[i] = Transition[longer[i - 1]][events'[i].type]
        <3>1. CASE i = n + 1
            <4>1. longer[n] = LedgerState /\ i - 1 = n
                BY <1>1, <1>3, <2>2, <3>1
            <4> QED
                BY <1>6, <2>2, <3>1, <4>1
        <3>2. CASE i \in 2 .. n
            <4>1. longer[i - 1] = path[i - 1] /\ longer[i] = path[i] /\ events'[i] = events[i]
                BY <1>1, <1>6, <2>2, <3>2
            <4> QED
                BY <1>2, <3>2, <4>1 DEF Walk
        <3> QED
            BY <1>1, <3>1, <3>2
    <2>4. longer[1] = "proposed"
        <3>1. path[1] = "proposed" /\ 1 \in 1 .. n
            BY <1>1, <1>2, <1>3 DEF Walk
        <3> QED
            BY <2>2, <3>1
    <2> QED
        BY <1>1, <1>6, <2>2, <2>3, <2>4 DEF Walk, longer
<1>8. LedgerState' = new
    <2>1. Append(path, new)[n + 1] = new
        BY <1>2, <1>1 DEF Walk
    <2>2. LedgerState' = Append(path, new)[Len(events')]
        <3> HIDE DEF new
        <3>1. events' \in Seq([type : EventTypes \cup {"proposal_recorded"},
                               by : {"human", "model", "hybrid", "service"}])
            BY <1>6
        <3> QED
            BY <1>7, <3>1, WalkTellsNext DEF WalkTells
    <2> QED
        BY <1>6, <2>1, <2>2
<1>9. LedgerState' \in {"approved", "running", "evaluating", "promoted", "reverted"} =>
          ApprovedIn(events', n + 1)
    <2> SUFFICES ASSUME new \in {"approved", "running", "evaluating", "promoted", "reverted"}
                 PROVE  ApprovedIn(events', n + 1)
        BY <1>8
    <2>1. CASE new = "approved"
        <3>1. type = "approved"
            BY <2>1, TransitionsAre
        <3>2. by # "model"
            BY <3>1 DEF MayRecord, Governed
        <3>3. n + 1 \in 1 .. n + 1
            BY <1>1
        <3> QED
            BY <1>6, <3>1, <3>2, <3>3 DEF ApprovedIn
    <2>2. CASE new # "approved"
        <3>1. LedgerState \in {"approved", "running", "evaluating", "promoted", "reverted"}
            BY <2>2, TransitionsAre
        <3>2. ApprovedIn(events, n)
            BY <3>1 DEF ResearchInv
        <3>3. PICK h \in 1 .. n : events[h].type = "approved" /\ events[h].by # "model"
            BY <3>2 DEF ApprovedIn
        <3>4. h \in 1 .. n + 1
            BY <1>1
        <3> QED
            BY <1>6, <3>3, <3>4 DEF ApprovedIn
    <2> QED
        BY <2>1, <2>2
<1>10. ASSUME NEW i \in 1 .. n
       PROVE  ApprovedIn(events, i - 1) => ApprovedIn(events', i - 1)
    <2> SUFFICES ASSUME NEW h \in 1 .. i - 1, events[h].type = "approved", events[h].by # "model"
                 PROVE  ApprovedIn(events', i - 1)
        BY DEF ApprovedIn
    <2>1. h \in 1 .. n
        BY <1>1
    <2> QED
        BY <1>6, <2>1 DEF ApprovedIn
<1>11. ASSUME NEW i \in 1 .. n + 1
       PROVE  /\ events'[i].type \in {"promoted", "rejected", "reverted"} => events'[i].by # "model"
              /\ events'[i].type \in {"started", "outcome_recorded", "promoted", "reverted"} =>
                    ApprovedIn(events', i - 1)
    <2>1. CASE i = n + 1
        <3>1. type \in {"started", "outcome_recorded", "promoted", "reverted"} => ApprovedIn(events, n)
            BY TransitionsAre DEF ResearchInv
        <3>2. ApprovedIn(events, n) => ApprovedIn(events', n)
            BY <1>6 DEF ApprovedIn
        <3>3. type \in {"promoted", "rejected", "reverted"} => by # "model"
            BY DEF MayRecord, Governed
        <3>4. i - 1 = n
            BY <1>1, <2>1
        <3>5. ApprovedIn(events', n) => ApprovedIn(events', i - 1)
            BY <3>4 DEF ApprovedIn
        <3>6. events'[i].type = type /\ events'[i].by = by
            BY <1>6, <2>1
        <3> QED
            BY <3>1, <3>2, <3>3, <3>5, <3>6
    <2>2. CASE i \in 1 .. n
        <3>1. events'[i] = events[i] /\ i \in DOMAIN events
            BY <1>1, <1>6, <2>2
        <3> QED
            BY <1>10, <2>2, <3>1 DEF ResearchInv
    <2> QED
        BY <1>1, <2>1, <2>2
<1>12. DOMAIN events' = 1 .. n + 1
    BY <1>6
<1>13. ApprovedIn(events', n + 1) => ApprovedIn(events', Len(events'))
    BY <1>6 DEF ApprovedIn
<1>14. (\E pa : Walk(pa, events))'
    BY <1>7
<1>15. (\A i \in DOMAIN events :
           /\ events[i].type \in {"promoted", "rejected", "reverted"} => events[i].by # "model"
           /\ events[i].type \in {"started", "outcome_recorded", "promoted", "reverted"} =>
                 ApprovedIn(events, i - 1))'
    BY <1>11, <1>12
<1> QED
    BY <1>6, <1>9, <1>13, <1>14, <1>15

LEMMA InitializeResearchKeeps ==
    ASSUME ResearchInv, NEW p \in OfferedProposal, NEW m \in OfferedManifest, InitializeResearch(p, m)
    PROVE  ResearchInv'
<1> DEFINE first == [type |-> "proposal_recorded", by |-> p.proposer]
           Event == [type : EventTypes \cup {"proposal_recorded"},
                     by : {"human", "model", "hybrid", "service"}]
<1>1. /\ experiment = NoProposal /\ experiment' = p /\ p # NoProposal
      /\ events' = <<first>> /\ attestation' = attestation /\ evidence' = evidence
      /\ evidence = Nothing
    BY ResearchAssumption DEF InitializeResearch, ResearchInv
<1>2. p.manifest = m /\ ValidProposal(p, p.manifest)
    BY DEF InitializeResearch, ValidProposal
<1>3. first \in Event
    BY ResearchAssumption
<1>4. /\ events' \in Seq(Event) /\ Len(events') = 1 /\ DOMAIN events' = {1}
      /\ events'[1].type = "proposal_recorded"
    <2> HIDE DEF Event
    <2>1. DOMAIN <<first>> = {1}
        OBVIOUS
    <2> QED
        BY <1>1, <1>3, <2>1
<1>5. Walk(<<"proposed">>, events')
    BY <1>4 DEF Walk, Transition
<1>6. LedgerState' = "proposed"
    <2>1. events' \in Seq([type : EventTypes \cup {"proposal_recorded"},
                           by : {"human", "model", "hybrid", "service"}])
        BY <1>4
    <2>2. LedgerState' = <<"proposed">>[Len(events')]
        BY <1>5, <2>1, WalkTellsNext DEF WalkTells
    <2> QED
        BY <1>4, <2>2
<1>7. ResearchTypeOK'
    BY <1>1, <1>4 DEF ResearchInv, ResearchTypeOK
<1>8. (\E path : Walk(path, events))'
    BY <1>5
<1> QED
    BY <1>1, <1>2, <1>4, <1>6, <1>7, <1>8 DEF ResearchInv

LEMMA AppendResearchEventKeeps ==
    ASSUME ResearchInv, NEW type \in EventTypes, NEW by \in ActorKind, AppendResearchEvent(type, by)
    PROVE  ResearchInv'
<1>1. by \in {"human", "model", "hybrid", "service"}
    BY ResearchAssumption
<1>2. /\ experiment # NoProposal /\ UNCHANGED <<experiment, attestation, evidence>>
      /\ LedgerState \in DOMAIN Transition /\ type \in DOMAIN Transition[LedgerState]
      /\ MayRecord(type, by) /\ events' = Append(events, [type |-> type, by |-> by])
    BY DEF AppendResearchEvent
<1>3. /\ events' \in Seq([type : EventTypes \cup {"proposal_recorded"},
                          by : {"human", "model", "hybrid", "service"}])
      /\ (\E path : Walk(path, events))'
      /\ (LedgerState \in {"approved", "running", "evaluating", "promoted", "reverted"} =>
            ApprovedIn(events, Len(events)))'
      /\ (\A i \in DOMAIN events :
            /\ events[i].type \in {"promoted", "rejected", "reverted"} => events[i].by # "model"
            /\ events[i].type \in {"started", "outcome_recorded", "promoted", "reverted"} =>
                  ApprovedIn(events, i - 1))'
    BY <1>1, <1>2, EventKeeps
<1>4. ResearchTypeOK'
    BY <1>2, <1>3 DEF ResearchInv, ResearchTypeOK
<1> QED
    BY <1>2, <1>3, <1>4 DEF ResearchInv

LEMMA CreateAttestationKeeps ==
    ASSUME ResearchInv, NEW o \in OfferedOutcome, CreateAttestation(o)
    PROVE  ResearchInv'
<1> DEFINE eligible == PromotionEligible(experiment, experiment.manifest, o)
<1>1. /\ attestation' = [outcome |-> o, signed |-> TRUE, eligible |-> eligible]
      /\ UNCHANGED <<experiment, events, evidence>>
    BY DEF CreateAttestation
<1>2. eligible \in BOOLEAN
    BY DEF PromotionEligible
<1> HIDE DEF eligible
<1>3. /\ attestation' \in [outcome : OfferedOutcome \cup {NoOutcome}, eligible : BOOLEAN,
                           signed : BOOLEAN]
      /\ attestation'.outcome = o
    BY <1>1, <1>2
<1>4. ResearchTypeOK'
    BY <1>1, <1>3 DEF ResearchInv, ResearchTypeOK
<1> QED
    BY SMTT(40), <1>1, <1>3, <1>4 DEF ResearchInv, LedgerState, StateAfter, ApprovedIn

LEMMA AlterKeeps ==
    ASSUME ResearchInv, Alter
    PROVE  ResearchInv'
<1>1. /\ attestation' \in [outcome : OfferedOutcome \cup {NoOutcome}, eligible : BOOLEAN,
                           signed : BOOLEAN]
      /\ attestation'.outcome \in OfferedOutcome
      /\ UNCHANGED <<experiment, events, evidence>>
    BY DEF Alter, ResearchInv
<1>2. ResearchTypeOK'
    BY <1>1 DEF ResearchInv, ResearchTypeOK
<1> QED
    BY <1>1, <1>2 DEF ResearchInv, LedgerState, StateAfter, ApprovedIn

LEMMA RecordAttestedOutcomeKeeps ==
    ASSUME ResearchInv, NEW o \in OfferedOutcome, RecordAttestedOutcome(o)
    PROVE  ResearchInv'
<1>1. /\ experiment # NoProposal /\ UNCHANGED <<experiment, attestation>>
      /\ evidence' = attestation
      /\ attestation.outcome = o
      /\ attestation.eligible = PromotionEligible(experiment, experiment.manifest, o)
      /\ LedgerState = "running"
      /\ events' = Append(events, [type |-> "outcome_recorded", by |-> "service"])
    BY DEF RecordAttestedOutcome, AttestationHolds
<1>2. /\ LedgerState \in DOMAIN Transition /\ "outcome_recorded" \in DOMAIN Transition[LedgerState]
      /\ MayRecord("outcome_recorded", "service")
    <2>1. Transition["running"] = [outcome_recorded |-> "evaluating", aborted |-> "aborted",
                                   quarantined |-> "quarantined"]
        BY DEF Transition
    <2> QED
        BY <1>1, <2>1 DEF Transition, MayRecord
<1>3. /\ events' \in Seq([type : EventTypes \cup {"proposal_recorded"},
                          by : {"human", "model", "hybrid", "service"}])
      /\ (\E path : Walk(path, events))'
      /\ (LedgerState \in {"approved", "running", "evaluating", "promoted", "reverted"} =>
            ApprovedIn(events, Len(events)))'
      /\ (\A i \in DOMAIN events :
            /\ events[i].type \in {"promoted", "rejected", "reverted"} => events[i].by # "model"
            /\ events[i].type \in {"started", "outcome_recorded", "promoted", "reverted"} =>
                  ApprovedIn(events, i - 1))'
    BY <1>1, <1>2, EventKeeps
<1>4. ResearchTypeOK'
    BY <1>1, <1>3 DEF ResearchInv, ResearchTypeOK
<1>5. (evidence.eligible <=> PromotionEligible(experiment, experiment.manifest, evidence.outcome))'
    BY <1>1 DEF PromotionEligible
<1> QED
    BY <1>1, <1>3, <1>4, <1>5 DEF ResearchInv

LEMMA ResearchNextKeeps == ResearchInv /\ [ResearchNext]_researchVars => ResearchInv'
<1> SUFFICES ASSUME ResearchInv, [ResearchNext]_researchVars
             PROVE  ResearchInv'
    OBVIOUS
<1>1. CASE UNCHANGED researchVars
    <2>1. /\ experiment' = experiment /\ events' = events
          /\ attestation' = attestation /\ evidence' = evidence
        BY <1>1 DEF researchVars
    <2>2. LedgerState' = LedgerState
        BY <2>1 DEF LedgerState, StateAfter
    <2>3. ResearchTypeOK'
        BY <2>1 DEF ResearchInv, ResearchTypeOK
    <2>4. (experiment # NoProposal =>
              /\ experiment.manifest \in OfferedManifest
              /\ ValidProposal(experiment, experiment.manifest)
              /\ \E path : Walk(path, events)
              /\ LedgerState \in {"approved", "running", "evaluating", "promoted", "reverted"} =>
                    ApprovedIn(events, Len(events)))'
        BY <2>1, <2>2 DEF ResearchInv
    <2>5. (evidence.eligible <=> PromotionEligible(experiment, experiment.manifest, evidence.outcome))'
              = (evidence.eligible <=>
                    PromotionEligible(experiment, experiment.manifest, evidence.outcome))
        BY <2>1
    <2> QED
        BY <2>1, <2>3, <2>4, <2>5 DEF ResearchInv
<1> QED
    BY <1>1, InitializeResearchKeeps, AppendResearchEventKeeps, CreateAttestationKeeps, AlterKeeps,
       RecordAttestedOutcomeKeeps DEF ResearchNext

\* A recorded verdict follows its evidence, and an experiment goes on by somebody's
\* word who is no model, for any manifests, proposals and outcomes.
THEOREM VerdictsFollowEvidence == ResearchSpec => []VerdictFollowsEvidence
<1>1. ASSUME ResearchInv
      PROVE  VerdictFollowsEvidence
    <2> USE <1>1
    <2>1. ASSUME evidence # Nothing, evidence.eligible,
                 NEW o \in Better(experiment, experiment.manifest, evidence.outcome)
          PROVE  PromotionEligible(experiment, experiment.manifest, o)
        <3>1. /\ experiment # NoProposal /\ experiment \in OfferedProposal
              /\ experiment.manifest \in OfferedManifest
              /\ ValidProposal(experiment, experiment.manifest)
              /\ evidence.outcome \in OfferedOutcome
              /\ PromotionEligible(experiment, experiment.manifest, evidence.outcome)
            BY <2>1 DEF ResearchInv, ResearchTypeOK
        <3>2. ManifestForm(experiment.manifest)
            BY <3>1, ResearchAssumption DEF ManifestForm, ValidProposal
        <3>3. ProposalForm(experiment)
            BY <3>1, ResearchAssumption DEF ProposalForm, ValidProposal
        <3>4. OutcomeForm(evidence.outcome)
            BY <3>1, ResearchAssumption DEF OutcomeForm
        <3> QED
            BY <2>1, <3>1, <3>2, <3>3, <3>4, BetterEvidenceKeepsEligible
    <2> QED
        BY <2>1 DEF ResearchInv, VerdictFollowsEvidence, ApprovedIn
<1> QED
    BY <1>1, ResearchInitFits, ResearchNextKeeps, PTL DEF ResearchSpec

-----------------------------------------------------------------------------
(***************************************************************************)
(* The sleep cycle.  The registry of a cycle holds what the queue file     *)
(* will hold, so it is the registry whose verdicts have to be witnessed,   *)
(* by the ledger or by the tasks whose record is yet to be appended; and a *)
(* quiet window is what the samples before the cycle have counted.         *)
(***************************************************************************)

DaemonRec ==
    [at : DaemonStage, registry : [Candidate -> Verdicts],
     items : SUBSET (Candidate \cup Order), tasks : Seq(Task),
     samples : Seq(ServerLoad), aborted : BOOLEAN]

\* The stages from the queue that was read to the queue that is written.
Working == {"waiting", "cycle", "task", "append", "queue"}

SeenVerdict(c, g, v) == <<c, g>> \in hidden \/ Recorded(c, g, v)
Judges(c, g, v) == [item |-> c, status |-> v, gate |-> g] \in ToSet(daemon.tasks)

QueueSeen ==
    queue # Torn => \A c \in Candidate : \A g \in DOMAIN queue[c] : SeenVerdict(c, g, queue[c][g])
LedgerClimbs == \A r \in ledger.gates : r.gate > 1 => Recorded(r.candidate, r.gate - 1, "passed")
HiddenAreLast == \A h \in hidden : h[2] = Len(Gates)
RegistrySeen ==
    daemon.at \in Working =>
        \A c \in Candidate : \A g \in DOMAIN daemon.registry[c] :
            \/ SeenVerdict(c, g, daemon.registry[c][g])
            \/ daemon.at \in {"cycle", "task", "append"} /\ Judges(c, g, daemon.registry[c][g])
TasksClimb ==
    \A t \in ToSet(daemon.tasks) :
        t.item \in Candidate /\ t.status # "errored" /\ t.gate > 1 =>
            Recorded(t.item, t.gate - 1, "passed") \/ Judges(t.item, t.gate - 1, "passed")
QueueBehind ==
    daemon.at \in Working =>
        /\ queue # Torn
        /\ \A c \in Candidate : Len(queue[c]) <= Len(daemon.registry[c])
ItemsFit ==
    /\ daemon.at \in {"waiting", "cycle", "task"} =>
          /\ \A c \in daemon.items \cap Candidate :
                daemon.registry[c] = queue[c] /\ Runnable(queue[c])
          /\ daemon.items \cap Order \cap recent = {}
    /\ daemon.at = "task" => daemon.items # {}
CalmLongEnough == daemon.at \in {"cycle", "task"} => calm > Window
SamplesCount(samples, n) ==
    \A k \in 1..(Window + 1) :
        k <= Len(samples) /\ (\A i \in 1..k : samples[i] # "busy") => k <= n
GatesCovered ==
    deaths = 0 =>
        /\ queue \in [Candidate -> Verdicts]
        /\ \A r \in ledger.gates :
              IF daemon.at = "queue" THEN r.gate <= Len(daemon.registry[r.candidate])
              ELSE r.gate <= Len(queue[r.candidate])
TasksCovered ==
    daemon.at \in {"cycle", "task", "append"} =>
        \A t \in ToSet(daemon.tasks) :
            t.item \in Candidate /\ t.status # "errored" => t.gate <= Len(daemon.registry[t.item])

NightInv ==
    /\ NightTypeOK
    /\ QueueSeen /\ LedgerClimbs /\ HiddenAreLast
    /\ RegistrySeen /\ TasksClimb /\ QueueBehind /\ ItemsFit
    /\ CalmLongEnough /\ (daemon.at = "waiting" => SamplesCount(daemon.samples, calm))
    /\ GatesCovered /\ TasksCovered

LEMMA NightData ==
    /\ Len(Gates) = 2
    /\ Verdicts = {<<>>, <<"passed">>, <<"failed">>, <<"passed", "passed">>, <<"passed", "failed">>}
    /\ After("append") = "queue" /\ After("queue") = "readback" /\ After("readback") = "read"
    /\ Saves[1] = "append"
<1>1. DOMAIN Saves = 1..4 /\ Saves[1] = "append" /\ Saves[2] = "queue" /\ Saves[3] = "readback"
      /\ Saves[4] = "read"
    BY DEF Saves
<1>2. After("append") = "queue"
    <2>1. (CHOOSE i \in DOMAIN Saves : Saves[i] = "append") = 1
        BY <1>1
    <2> QED
        BY <1>1, <2>1 DEF After
<1>3. After("queue") = "readback"
    <2>1. (CHOOSE i \in DOMAIN Saves : Saves[i] = "queue") = 2
        BY <1>1
    <2> QED
        BY <1>1, <2>1 DEF After
<1>4. After("readback") = "read"
    <2>1. (CHOOSE i \in DOMAIN Saves : Saves[i] = "readback") = 3
        BY <1>1
    <2> QED
        BY <1>1, <2>1 DEF After
<1>5. Len(Gates) = 2
    BY DEF Gates
<1>6. Verdicts = {<<>>, <<"passed">>, <<"failed">>, <<"passed", "passed">>, <<"passed", "failed">>}
    BY DEF Verdicts, Verdict
<1> QED
    BY <1>1, <1>2, <1>3, <1>4, <1>5, <1>6

LEMMA AppendIs ==
    ASSUME NEW T, NEW s \in Seq(T), NEW t \in T
    PROVE  /\ Append(s, t) \in Seq(T) /\ Len(Append(s, t)) = Len(s) + 1
           /\ \A i \in 1..Len(s) : Append(s, t)[i] = s[i]
           /\ Append(s, t)[Len(s) + 1] = t /\ Len(s) \in Nat
BY AppendProperties

LEMMA AppendToOne ==
    ASSUME NEW T, NEW w \in Seq(T), NEW y \in T
    PROVE  Len(w) = 1 => Append(w, y) = <<w[1], y>>
<1> DEFINE a == Append(w, y)
           b == <<w[1], y>>
<1>1. a \in Seq(T) /\ Len(a) = Len(w) + 1 /\ a[Len(w) + 1] = y
      /\ \A i \in 1..Len(w) : a[i] = w[i]
    BY AppendIs
<1> HAVE Len(w) = 1
<1>2. b \in Seq({w[1], y}) /\ Len(b) = 2 /\ b[1] = w[1] /\ b[2] = y
    OBVIOUS
<1> HIDE DEF a, b
<1>3. a \in Seq(T) /\ Len(a) = 2 /\ a[2] = y /\ a[1] = w[1]
    BY <1>1
<1>4. DOMAIN a = 1..2 /\ a = [i \in 1..2 |-> a[i]]
    BY <1>3
<1>5. DOMAIN b = 1..2 /\ b = [i \in 1..2 |-> b[i]]
    BY <1>2
<1>6. \A i \in 1..2 : a[i] = b[i]
    <2>1. \A i \in 1..2 : i = 1 \/ i = 2
        OBVIOUS
    <2> QED
        BY <1>2, <1>3, <2>1
<1>7. a = b
    BY <1>4, <1>5, <1>6
<1> QED
    BY <1>7 DEF a, b

\* A verdict more, for a candidate whose gates so far were passed.
LEMMA VerdictsGrow ==
    ASSUME NEW v \in Verdicts, Runnable(v), NEW x \in Verdict
    PROVE  /\ Append(v, x) \in Verdicts /\ Len(v) \in 0..1 /\ Len(Append(v, x)) = Len(v) + 1
           /\ \A g \in DOMAIN Append(v, x) :
                 \/ g = Len(v) + 1 /\ Append(v, x)[g] = x
                 \/ g \in DOMAIN v /\ Append(v, x)[g] = v[g]
           /\ Len(v) = 1 => 1 \in DOMAIN v /\ v[1] = "passed"
<1>1. v \in {<<>>, <<"passed">>}
    <2>1. CASE v = <<"failed">>
        <3>1. 1 \in DOMAIN v /\ v[1] = "failed"
            BY <2>1
        <3> QED
            BY <3>1 DEF Runnable, ToSet
    <2>2. CASE v \in {<<"passed", "passed">>, <<"passed", "failed">>}
        <3>1. Len(v) = 2
            BY <2>2
        <3> QED
            BY <3>1, NightData DEF Runnable
    <2> QED
        BY <2>1, <2>2, NightData
<1>2. x \in {"passed", "failed"}
    BY DEF Verdict
<1>3. CASE v = <<>>
    <2>1. Append(v, x) = <<x>> /\ Len(v) = 0 /\ DOMAIN <<x>> = {1} /\ Len(<<x>>) = 1 /\ <<x>>[1] = x
        BY <1>3
    <2>2. <<x>> \in Verdicts
        BY <1>2, NightData
    <2> QED
        BY <2>1, <2>2
<1>4. CASE v = <<"passed">>
    <2>1. Append(<<"passed">>, x) = <<"passed", x>>
        <3>1. <<"passed">> \in Seq({"passed", x}) /\ Len(<<"passed">>) = 1 /\ <<"passed">>[1] = "passed"
            OBVIOUS
        <3> QED
            BY <3>1, AppendToOne
    <2>2. Len(<<"passed">>) = 1 /\ DOMAIN <<"passed">> = {1} /\ <<"passed">>[1] = "passed"
        OBVIOUS
    <2>3. <<"passed", x>> \in Verdicts
        BY <1>2, NightData
    <2>4. DOMAIN <<"passed", x>> = {1, 2} /\ Len(<<"passed", x>>) = 2
          /\ <<"passed", x>>[1] = "passed" /\ <<"passed", x>>[2] = x
        OBVIOUS
    <2>5. Append(v, x) = <<"passed", x>> /\ Len(v) = 1 /\ DOMAIN v = {1} /\ v[1] = "passed"
        BY <1>4, <2>1, <2>2
    <2>6. \A g \in {1, 2} : g = 1 + 1 \/ g = 1
        OBVIOUS
    <2> QED
        BY <2>3, <2>4, <2>5, <2>6
<1> QED
    BY <1>1, <1>3, <1>4

LEMMA VerdictsHold ==
    ASSUME NEW v \in Verdicts, NEW g \in DOMAIN v
    PROVE  v[g] \in Verdict
BY DEF Verdicts, Verdict

LEMMA VerdictsLen ==
    ASSUME NEW v \in Verdicts
    PROVE  Len(v) \in 0..2 /\ DOMAIN v = 1..Len(v)
BY NightData

\* The first of some work items is one of them.
LEMMA FirstIsOne ==
    ASSUME NEW items \in SUBSET (Candidate \cup Order), items # {}
    PROVE  First(items) \in items
<1> DEFINE plan == Candidates \o Orders
           S == {i \in DOMAIN plan : plan[i] \in items}
<1>1. /\ Candidates \in Seq(Candidate) /\ Orders \in Seq(Order)
      /\ Candidate = {Candidates[i] : i \in DOMAIN Candidates}
      /\ Order = {Orders[i] : i \in DOMAIN Orders}
    BY SleepAssumption DEF Candidate, Order, ToSet
<1>2. /\ Len(plan) = Len(Candidates) + Len(Orders) /\ DOMAIN plan = 1..Len(plan)
      /\ \A i \in 1..Len(Candidates) : plan[i] = Candidates[i]
      /\ \A i \in 1..Len(Orders) : plan[Len(Candidates) + i] = Orders[i]
    <2>1. Candidates \in Seq(Candidate \cup Order) /\ Orders \in Seq(Candidate \cup Order)
        BY <1>1
    <2>2. plan \in Seq(Candidate \cup Order) /\ Len(plan) = Len(Candidates) + Len(Orders)
        BY <2>1
    <2>3. \A i \in 1..Len(Orders) :
              /\ Len(Candidates) + i \in 1..(Len(Candidates) + Len(Orders))
              /\ ~(Len(Candidates) + i <= Len(Candidates))
              /\ (Len(Candidates) + i) - Len(Candidates) = i
        BY <2>1
    <2> QED
        BY <2>1, <2>2, <2>3
<1>3. PICK x : x \in items
    OBVIOUS
<1>4. S # {}
    <2>1. CASE x \in Candidate
        <3>1. PICK i \in DOMAIN Candidates : x = Candidates[i]
            BY <1>1, <2>1
        <3>2. i \in 1..Len(Candidates) /\ i \in DOMAIN plan
            BY <1>1, <1>2
        <3> QED
            BY <1>2, <1>3, <3>1, <3>2
    <2>2. CASE x \in Order
        <3>1. PICK i \in DOMAIN Orders : x = Orders[i]
            BY <1>1, <2>2
        <3>2. i \in 1..Len(Orders) /\ Len(Candidates) + i \in DOMAIN plan
            BY <1>1, <1>2
        <3> QED
            BY <1>2, <1>3, <3>1, <3>2
    <2> QED
        BY <1>3, <2>1, <2>2
<1>5. S \subseteq Nat
    BY <1>2
<1> HIDE DEF plan
<1>6. PICK i \in S : \A k \in S : i <= k
    <2> HIDE DEF S
    <2> QED
        BY <1>4, <1>5, LeastNumber
<1>7. i \in DOMAIN plan /\ plan[i] \in items /\ i \in Nat
    BY <1>5, <1>6
<1>8. \A k \in 1..(i - 1) : plan[k] \notin items
    <2> SUFFICES ASSUME NEW k \in 1..(i - 1), plan[k] \in items
                 PROVE  FALSE
        OBVIOUS
    <2>1. k \in DOMAIN plan /\ ~(i <= k)
        BY <1>2, <1>7
    <2> QED
        BY <1>6, <2>1
<1> QED
    BY <1>7, <1>8 DEF First, plan

\* The set of a sequence that gets one more.
LEMMA ToSetOfAppend ==
    ASSUME NEW T, NEW s \in Seq(T), NEW t \in T
    PROVE  ToSet(Append(s, t)) = ToSet(s) \cup {t} /\ Append(s, t) \in Seq(T)
<1>1. /\ Append(s, t) \in Seq(T) /\ DOMAIN Append(s, t) = 1..(Len(s) + 1) /\ DOMAIN s = 1..Len(s)
      /\ \A i \in 1..Len(s) : Append(s, t)[i] = s[i]
      /\ Append(s, t)[Len(s) + 1] = t /\ Len(s) \in Nat
    OBVIOUS
<1>2. \A i \in 1..(Len(s) + 1) : i \in 1..Len(s) \/ i = Len(s) + 1
    BY <1>1
<1>3. Len(s) + 1 \in 1..(Len(s) + 1) /\ \A i \in 1..Len(s) : i \in 1..(Len(s) + 1)
    BY <1>1
<1> QED
    BY <1>1, <1>2, <1>3 DEF ToSet

LEMMA NightInitFits == NightInit => NightInv
<1> SUFFICES ASSUME NightInit
             PROVE  NightInv
    OBVIOUS
<1>1. ToSet(<<>>) = {}
    BY DEF ToSet
<1>2. <<>> \in Verdicts /\ DOMAIN <<>> = {}
    BY NightData
<1>3. queue \in [Candidate -> Verdicts] /\ daemon \in DaemonRec /\ daemon.at = "down"
      /\ daemon.tasks = <<>>
    BY <1>2 DEF NightInit, Down, DaemonRec, DaemonStage
<1>4. ledger \in [tail : {"ended", "unended", "torn"}, gates : SUBSET GateRecord] /\ ledger.gates = {}
    BY DEF NightInit
<1>5. NightTypeOK
    BY <1>3, <1>4, SleepAssumption DEF NightInit, NightTypeOK, DaemonRec
<1> QED
    BY <1>1, <1>2, <1>3, <1>4, <1>5
       DEF NightInit, NightInv, QueueSeen, LedgerClimbs, HiddenAreLast, RegistrySeen, TasksClimb,
           QueueBehind, ItemsFit, CalmLongEnough, GatesCovered, TasksCovered, Working

LEMMA NightType ==
    ASSUME NightInv
    PROVE  /\ daemon \in DaemonRec
           /\ ledger \in [tail : {"ended", "unended", "torn"}, gates : SUBSET GateRecord]
           /\ Window \in Nat \ {0} /\ MaxThrows \in Nat /\ MaxSignals \in Nat /\ MaxDeaths \in Nat
           /\ calm \in 0..(Window + 1) /\ recent \subseteq Order /\ hidden \subseteq Candidate \X (1..Len(Gates))
           /\ throws \in 0..MaxThrows /\ signals \in 0..MaxSignals /\ deaths \in 0..MaxDeaths
           /\ load \in ServerLoad /\ queue \in [Candidate -> Verdicts] \cup {Torn}
BY SleepAssumption DEF NightInv, NightTypeOK, DaemonRec

LEMMA DownIs ==
    /\ Down \in DaemonRec /\ Down.at = "down" /\ Down.tasks = <<>>
    /\ LET d == [Down EXCEPT !.at = "read"]
       IN  d \in DaemonRec /\ d.at = "read" /\ d.tasks = <<>>
    /\ \A d \in DaemonRec :
          LET e == [Down EXCEPT !.at = "read", !.aborted = d.aborted]
          IN  e \in DaemonRec /\ e.at = "read" /\ e.tasks = <<>>
<1>1. [c \in Candidate |-> <<>>] \in [Candidate -> Verdicts]
    BY NightData
<1>2. {} \in SUBSET (Candidate \cup Order) /\ <<>> \in Seq(Task) /\ <<>> \in Seq(ServerLoad)
    OBVIOUS
<1>3. Down \in DaemonRec /\ Down.at = "down" /\ Down.tasks = <<>>
    BY <1>1, <1>2 DEF Down, DaemonRec, DaemonStage
<1>4. ASSUME NEW d \in DaemonRec
      PROVE  LET e == [Down EXCEPT !.at = "read", !.aborted = d.aborted]
             IN  e \in DaemonRec /\ e.at = "read" /\ e.tasks = <<>>
    BY <1>1, <1>2 DEF Down, DaemonRec, DaemonStage
<1>5. LET d == [Down EXCEPT !.at = "read"]
      IN  d \in DaemonRec /\ d.at = "read" /\ d.tasks = <<>>
    BY <1>1, <1>2 DEF Down, DaemonRec, DaemonStage
<1> QED
    BY <1>3, <1>4, <1>5

\* A daemon that has read no queue has nothing to account for.
LEMMA NothingInHand ==
    ASSUME daemon' \in DaemonRec, daemon'.at \in {"down", "read"}, daemon'.tasks = <<>>
    PROVE  /\ RegistrySeen' /\ TasksClimb' /\ QueueBehind' /\ ItemsFit'
           /\ CalmLongEnough' /\ (daemon.at = "waiting" => SamplesCount(daemon.samples, calm))'
           /\ TasksCovered'
<1>1. ToSet(<<>>) = {}
    BY DEF ToSet
<1> QED
    BY <1>1 DEF RegistrySeen, TasksClimb, QueueBehind, ItemsFit, CalmLongEnough, TasksCovered, Working

\* The files and what was hidden are left alone.
LEMMA FilesAlone ==
    ASSUME NightInv, UNCHANGED <<queue, ledger, hidden>>
    PROVE  QueueSeen' /\ LedgerClimbs' /\ HiddenAreLast'
BY DEF NightInv, QueueSeen, LedgerClimbs, HiddenAreLast, SeenVerdict, Recorded

LEMMA DaemonStartsKeeps ==
    ASSUME NightInv, DaemonStarts
    PROVE  NightInv'
<1>1. UNCHANGED <<queue, ledger, recent, load, calm, hidden, throws, signals, deaths>>
    BY DEF DaemonStarts
<1>2. daemon' \in DaemonRec /\ daemon'.at = "read" /\ daemon'.tasks = <<>> /\ daemon.at = "down"
    BY DownIs DEF DaemonStarts
<1>4. NightTypeOK'
    BY <1>1, <1>2 DEF NightInv, NightTypeOK, DaemonRec
<1>7. GatesCovered'
    BY <1>1, <1>2 DEF NightInv, GatesCovered
<1> QED
    BY <1>1, <1>2, <1>4, <1>7, FilesAlone, NothingInHand DEF NightInv

LEMMA ReadKeeps ==
    ASSUME NightInv, Read
    PROVE  NightInv'
<1>1. UNCHANGED <<queue, ledger, recent, load, calm, hidden, throws, signals, deaths>>
    BY DEF Read
<1>3. QueueSeen' /\ LedgerClimbs' /\ HiddenAreLast'
    BY <1>1, FilesAlone
<1>4. CASE daemon' = daemon
    BY <1>1, <1>4 DEF NightInv, NightTypeOK, QueueSeen, LedgerClimbs, HiddenAreLast, SeenVerdict,
                      Recorded, RegistrySeen, TasksClimb, Judges, QueueBehind, ItemsFit, CalmLongEnough,
                      GatesCovered, TasksCovered, SamplesCount
<1>5. CASE daemon' = Down
    <2>1. daemon' \in DaemonRec /\ daemon'.at = "down" /\ daemon'.tasks = <<>> /\ daemon.at = "read"
        BY <1>5, DownIs DEF Read
    <2>2. NightTypeOK'
        BY <1>1, <2>1 DEF NightInv, NightTypeOK, DaemonRec
    <2>4. GatesCovered'
        BY <1>1, <2>1 DEF NightInv, GatesCovered
    <2> QED
        BY <1>3, <2>1, <2>2, <2>4, NothingInHand DEF NightInv
<1>6. CASE /\ queue # Torn
           /\ daemon' = [daemon EXCEPT !.at = "waiting", !.registry = Source(queue),
                                       !.items = Work(Source(queue), recent), !.samples = <<>>]
    <2>1. queue \in [Candidate -> Verdicts]
        BY <1>6, NightType
    <2>2. Work(queue, recent) \subseteq Candidate \cup Order
        BY DEF Work
    <2> DEFINE work == Work(queue, recent)
    <2> HIDE DEF work
    <2>3. /\ daemon' \in DaemonRec /\ daemon'.at = "waiting" /\ daemon'.registry = queue
          /\ daemon'.items = work /\ daemon'.samples = <<>>
          /\ daemon'.tasks = daemon.tasks /\ daemon.at = "read"
        <3>1. daemon \in DaemonRec /\ "waiting" \in DaemonStage /\ <<>> \in Seq(ServerLoad)
              /\ work \in SUBSET (Candidate \cup Order)
            BY <2>2, NightType DEF DaemonStage, work
        <3>2. daemon' = [daemon EXCEPT !.at = "waiting", !.registry = queue, !.items = work, !.samples = <<>>]
            BY <1>6 DEF Source, work
        <3> QED
            BY <2>1, <3>1, <3>2 DEF Read, DaemonRec
    <2>4. NightTypeOK'
        BY <1>1, <2>3 DEF NightInv, NightTypeOK, DaemonRec
    <2>5. RegistrySeen'
        BY <1>1, <1>6, <2>3 DEF NightInv, RegistrySeen, QueueSeen, SeenVerdict, Recorded
    <2>6. TasksClimb'
        BY <1>1, <2>3 DEF NightInv, TasksClimb, Judges, Recorded
    <2>7. QueueBehind'
        <3>1. \A c \in Candidate : Len(queue[c]) <= Len(queue[c])
            BY <2>1, VerdictsLen
        <3> QED
            BY <1>1, <1>6, <2>3, <3>1 DEF QueueBehind
    <2>8. ItemsFit'
        <3>1. work \cap Order \cap recent = {} /\ \A c \in work \cap Candidate : Runnable(queue[c])
            BY SleepAssumption DEF work, Work, Candidate, Order
        <3> QED
            BY <1>1, <2>3, <3>1 DEF ItemsFit
    <2>9. SamplesCount(<<>>, calm)
        BY NightType DEF SamplesCount
    <2>10. (daemon.at = "waiting" => SamplesCount(daemon.samples, calm))'
        BY <1>1, <2>3, <2>9 DEF SamplesCount
    <2>11. CalmLongEnough' /\ TasksCovered'
        BY <2>3 DEF CalmLongEnough, TasksCovered
    <2>12. GatesCovered'
        BY <1>1, <2>3 DEF NightInv, GatesCovered
    <2> QED
        BY <1>3, <2>4, <2>5, <2>6, <2>7, <2>8, <2>10, <2>11, <2>12 DEF NightInv
<1> QED
    BY <1>4, <1>5, <1>6 DEF Read

\* Nothing but the daemon changes, and it keeps what it has read and done.
LEMMA SameWork ==
    ASSUME NightInv, UNCHANGED <<queue, ledger, hidden>>,
           daemon' \in DaemonRec, daemon'.registry = daemon.registry, daemon'.tasks = daemon.tasks
    PROVE  /\ daemon.at \in Working => QueueBehind'
           /\ TasksClimb'
           /\ daemon.at \in Working /\ (daemon.at \in {"cycle", "task", "append"} =>
                                          daemon'.at \in {"cycle", "task", "append"}) => RegistrySeen'
           /\ daemon.at \in {"cycle", "task", "append"} => TasksCovered'
           /\ deaths' = deaths /\ daemon.at # "queue" /\ daemon'.at # "queue" => GatesCovered'
<1>1. daemon.at \in Working => QueueBehind'
    BY DEF NightInv, QueueBehind
<1>2. TasksClimb'
    BY DEF NightInv, TasksClimb, Judges, Recorded
<1>3. daemon.at \in {"cycle", "task", "append"} => TasksCovered'
    BY DEF NightInv, TasksCovered
<1>4. deaths' = deaths /\ daemon.at # "queue" /\ daemon'.at # "queue" => GatesCovered'
    BY DEF NightInv, GatesCovered
<1>5. ASSUME daemon.at \in Working,
             daemon.at \in {"cycle", "task", "append"} => daemon'.at \in {"cycle", "task", "append"}
      PROVE  RegistrySeen'
    BY <1>5 DEF NightInv, RegistrySeen, SeenVerdict, Judges, Recorded
<1> QED
    BY <1>1, <1>2, <1>3, <1>4, <1>5

\* One more look: the samples still count the calm looks, and asleep means that
\* there were as many as a quiet window is long.
LEMMA OneMoreSample ==
    ASSUME NEW samples \in Seq(ServerLoad), NEW sample \in ServerLoad,
           NEW n \in 0..(Window + 1), SamplesCount(samples, n),
           NEW m \in Nat, m = IF sample = "busy" THEN 0 ELSE IF n <= Window THEN n + 1 ELSE n,
           NEW new, new = Remembered(<<sample>> \o samples)
    PROVE  /\ new \in Seq(ServerLoad) /\ m \in 0..(Window + 1)
           /\ SamplesCount(new, m)
           /\ Asleep(new) => m > Window
<1> DEFINE all == <<sample>> \o samples
           K == IF Len(all) < 2 * Window THEN Len(all) ELSE 2 * Window
<1>1. Window \in Nat \ {0}
    BY SleepAssumption
<1>2. /\ all \in Seq(ServerLoad) /\ Len(all) = Len(samples) + 1 /\ all[1] = sample
      /\ \A i \in 1..Len(samples) : all[i + 1] = samples[i]
    <2>1. <<sample>> \in Seq(ServerLoad) /\ Len(<<sample>>) = 1 /\ <<sample>>[1] = sample
        OBVIOUS
    <2> DEFINE one == <<sample>>
    <2> HIDE DEF one
    <2>2. one \in Seq(ServerLoad) /\ Len(one) = 1 /\ one[1] = sample
        BY <2>1 DEF one
    <2>3. /\ one \o samples \in Seq(ServerLoad) /\ Len(one \o samples) = Len(one) + Len(samples)
          /\ \A i \in 1..(Len(one) + Len(samples)) :
                (one \o samples)[i] = IF i <= Len(one) THEN one[i] ELSE samples[i - Len(one)]
        BY <2>2, ConcatProperties
    <2>4. \A i \in 1..Len(samples) : /\ i + 1 \in 1..(1 + Len(samples)) /\ ~(i + 1 <= 1) /\ (i + 1) - 1 = i
        OBVIOUS
    <2>5. Len(samples) \in Nat
        OBVIOUS
    <2>6. /\ one \o samples \in Seq(ServerLoad) /\ Len(one \o samples) = Len(samples) + 1
          /\ (one \o samples)[1] = sample
          /\ \A i \in 1..Len(samples) : (one \o samples)[i + 1] = samples[i]
        BY <2>2, <2>3, <2>4, <2>5
    <2> QED
        BY <2>6 DEF one
<1> HIDE DEF all
<1>3. K \in Nat /\ K <= Len(all) /\ 1 <= K
    BY <1>1, <1>2
<1>4. new = SubSeq(all, 1, K)
    BY DEF Remembered, all
<1> HIDE DEF K
<1>5. new \in Seq(ServerLoad) /\ Len(new) = K /\ \A i \in 1..K : new[i] = all[i]
    <2>1. \A i \in 1..K : i \in 1..Len(all) /\ (1 + i) - 1 = i
        BY <1>2, <1>3
    <2>2. /\ SubSeq(all, 1, K) \in Seq(ServerLoad) /\ Len(SubSeq(all, 1, K)) = K
          /\ \A i \in 1..K : SubSeq(all, 1, K)[i] = all[i]
        BY <1>2, <1>3, <2>1
    <2> QED
        BY <1>4, <2>2
<1>6. m \in 0..(Window + 1)
    BY <1>1
<1>7. SamplesCount(new, m)
    <2> SUFFICES ASSUME NEW k \in 1..(Window + 1), k <= Len(new), \A i \in 1..k : new[i] # "busy"
                 PROVE  k <= m
        BY DEF SamplesCount
    <2>1. 1 \in 1..k /\ 1 \in 1..K /\ k <= K
        BY <1>3, <1>5
    <2>2. sample # "busy"
        BY <1>2, <1>5, <2>1
    <2>3. CASE k = 1
        BY <1>1, <2>2, <2>3
    <2>4. CASE k # 1
        <3>1. k - 1 \in 1..(Window + 1) /\ k - 1 <= Len(samples)
            BY <1>1, <1>2, <1>3, <2>1, <2>4
        <3>2. ASSUME NEW i \in 1..(k - 1)
              PROVE  samples[i] # "busy"
            <4>1. i + 1 \in 1..k /\ i + 1 \in 1..K /\ i \in 1..Len(samples)
                <5>1. i \in Nat /\ 1 <= i /\ i <= k - 1 /\ k \in Nat /\ K \in Nat /\ Len(samples) \in Nat
                    BY <1>1, <1>3
                <5> QED
                    BY <2>1, <3>1, <5>1
            <4> QED
                BY <1>2, <1>5, <4>1
        <3>3. k - 1 <= n
            BY <3>1, <3>2 DEF SamplesCount
        <3> QED
            BY <1>1, <2>2, <3>3
    <2> QED
        BY <2>3, <2>4
<1>8. ASSUME Asleep(new)
      PROVE  m > Window
    <2>1. PICK oldest \in Observed(new) :
              oldest > Window /\ \A i \in Observed(new) : i <= oldest => new[i] = "quiet"
        BY <1>8 DEF Asleep
    <2>2. DOMAIN new = 1..K
        BY <1>3, <1>5
    <2>3. oldest \in 1..K /\ Window + 1 <= oldest /\ Window + 1 \in 1..(Window + 1)
        BY <1>1, <2>1, <2>2 DEF Observed
    <2>4. ASSUME NEW i \in 1..(Window + 1)
          PROVE  new[i] # "busy"
        <3>1. i \in 1..K /\ i <= oldest
            BY <1>1, <1>3, <2>3
        <3> QED
            BY <2>1, <2>2, <3>1 DEF Observed
    <2>5. Window + 1 <= Len(new)
        BY <1>1, <1>3, <1>5, <2>3
    <2>6. Window + 1 <= m
        BY <1>7, <2>3, <2>4, <2>5 DEF SamplesCount
    <2> QED
        BY <1>1, <2>6
<1> QED
    BY <1>5, <1>6, <1>7, <1>8

LEMMA PollKeeps ==
    ASSUME NightInv, Poll
    PROVE  NightInv'
<1>1. UNCHANGED <<queue, ledger, recent, load, hidden, throws, signals, deaths>> /\ daemon.at = "waiting"
    BY DEF Poll
<1>2. daemon.at \in Working /\ daemon \in DaemonRec
    BY <1>1, NightType DEF Working
<1>3. QueueSeen' /\ LedgerClimbs' /\ HiddenAreLast'
    BY <1>1, FilesAlone
<1>4. CASE daemon' = Down /\ calm' = calm
    <2>1. daemon' \in DaemonRec /\ daemon'.at = "down" /\ daemon'.tasks = <<>>
        BY <1>4, DownIs
    <2>2. NightTypeOK'
        BY <1>1, <1>4, <2>1 DEF NightInv, NightTypeOK, DaemonRec
    <2>3. GatesCovered'
        BY <1>1, <2>1 DEF NightInv, GatesCovered
    <2> QED
        BY <1>3, <2>1, <2>2, <2>3, NothingInHand DEF NightInv
<1>5. CASE daemon' # Down \/ calm' # calm
    <2> DEFINE new == Remembered(<<load>> \o daemon.samples)
               m == IF load = "busy" THEN 0 ELSE IF calm <= Window THEN calm + 1 ELSE calm
    <2>1. /\ daemon' = IF Asleep(new) THEN [daemon EXCEPT !.at = "cycle", !.tasks = <<>>, !.samples = <<>>]
                       ELSE [daemon EXCEPT !.samples = new]
          /\ calm' = m
        BY <1>5 DEF Poll, Noticed
    <2> HIDE DEF new
    <2>2. m \in Nat /\ daemon.samples \in Seq(ServerLoad) /\ SamplesCount(daemon.samples, calm)
        BY <1>1, NightType DEF NightInv, DaemonRec
    <2>3. /\ new \in Seq(ServerLoad) /\ calm' \in 0..(Window + 1)
          /\ SamplesCount(new, calm') /\ (Asleep(new) => calm' > Window)
        BY SMTT(40), <2>1, <2>2, NightType, OneMoreSample DEF new
    <2>4. CASE Asleep(new)
        <3>1. <<>> \in Seq(Task) /\ <<>> \in Seq(ServerLoad) /\ ToSet(<<>>) = {}
            BY DEF ToSet
        <3>2. /\ daemon' \in DaemonRec /\ daemon'.at = "cycle" /\ daemon'.tasks = <<>>
              /\ daemon'.registry = daemon.registry /\ daemon'.items = daemon.items
            BY <1>2, <2>1, <2>4, <3>1 DEF DaemonRec, DaemonStage
        <3>3. NightTypeOK'
            BY <1>1, <2>3, <3>2 DEF NightInv, NightTypeOK, DaemonRec
        <3>4. TasksClimb' /\ TasksCovered'
            BY <3>1, <3>2 DEF TasksClimb, TasksCovered
        <3>5. RegistrySeen'
            BY <1>1, <1>2, <3>2 DEF NightInv, RegistrySeen, SeenVerdict, Recorded
        <3>6. QueueBehind' /\ ItemsFit'
            BY <1>1, <1>2, <3>2 DEF NightInv, QueueBehind, ItemsFit
        <3>7. CalmLongEnough' /\ (daemon.at = "waiting" => SamplesCount(daemon.samples, calm))'
            BY <2>3, <2>4, <3>2 DEF CalmLongEnough
        <3>8. GatesCovered'
            BY <1>1, <3>2 DEF NightInv, GatesCovered
        <3> QED
            BY <1>3, <3>3, <3>4, <3>5, <3>6, <3>7, <3>8 DEF NightInv
    <2>5. CASE ~Asleep(new)
        <3>2. /\ daemon' \in DaemonRec /\ daemon'.at = "waiting" /\ daemon'.tasks = daemon.tasks
              /\ daemon'.registry = daemon.registry /\ daemon'.items = daemon.items
              /\ daemon'.samples = new
            BY <1>1, <1>2, <2>1, <2>3, <2>5 DEF DaemonRec
        <3>3. NightTypeOK'
            BY <1>1, <2>3, <3>2 DEF NightInv, NightTypeOK, DaemonRec
        <3>4. RegistrySeen' /\ TasksClimb' /\ QueueBehind' /\ GatesCovered'
            BY <1>1, <1>2, <3>2, SameWork
        <3>5. ItemsFit'
            BY <1>1, <3>2 DEF NightInv, ItemsFit
        <3>6. CalmLongEnough' /\ TasksCovered'
            BY <3>2 DEF CalmLongEnough, TasksCovered
        <3>7. (daemon.at = "waiting" => SamplesCount(daemon.samples, calm))'
            BY <2>3, <3>2 DEF SamplesCount
        <3> QED
            BY <1>3, <3>3, <3>4, <3>5, <3>6, <3>7 DEF NightInv
    <2> QED
        BY <2>4, <2>5
<1> QED
    BY <1>4, <1>5

LEMMA EndCycleKeeps ==
    ASSUME NightInv, EndCycle
    PROVE  NightInv'
<1>1. UNCHANGED <<queue, ledger, recent, load, calm, hidden, throws, signals, deaths>> /\ daemon.at = "cycle"
    BY DEF EndCycle
<1>2. daemon.at \in Working /\ daemon \in DaemonRec
    BY <1>1, NightType DEF Working
<1>3. /\ daemon' \in DaemonRec /\ daemon'.at = "append" /\ daemon'.tasks = daemon.tasks
      /\ daemon'.registry = daemon.registry
    BY <1>2, NightData DEF EndCycle, DaemonRec, DaemonStage
<1>4. NightTypeOK'
    BY <1>1, <1>3 DEF NightInv, NightTypeOK, DaemonRec
<1>5. RegistrySeen' /\ TasksClimb' /\ QueueBehind' /\ GatesCovered' /\ TasksCovered'
    BY <1>1, <1>2, <1>3, SameWork
<1>6. ItemsFit' /\ CalmLongEnough' /\ (daemon.at = "waiting" => SamplesCount(daemon.samples, calm))'
    BY <1>3 DEF ItemsFit, CalmLongEnough
<1> QED
    BY <1>1, <1>4, <1>5, <1>6, FilesAlone DEF NightInv

LEMMA LookAtLoadKeeps ==
    ASSUME NightInv, LookAtLoad
    PROVE  NightInv'
<1>1. UNCHANGED <<queue, ledger, recent, load, hidden, throws, signals, deaths>> /\ daemon.at = "cycle"
      /\ daemon.items # {}
    BY DEF LookAtLoad, Spent
<1>2. daemon.at \in Working /\ daemon \in DaemonRec
    BY <1>1, NightType DEF Working
<1>3. /\ daemon' \in DaemonRec /\ daemon'.at = (IF load = "quiet" THEN "task" ELSE "append")
      /\ daemon'.tasks = daemon.tasks
      /\ daemon'.registry = daemon.registry /\ daemon'.items = daemon.items
    BY <1>2, NightData DEF LookAtLoad, DaemonRec, DaemonStage
<1>4. calm' \in 0..(Window + 1) /\ (load = "quiet" /\ calm > Window => calm' > Window)
    BY NightType DEF LookAtLoad, Noticed
<1>5. NightTypeOK'
    BY <1>1, <1>3, <1>4 DEF NightInv, NightTypeOK, DaemonRec
<1>6. RegistrySeen' /\ TasksClimb' /\ QueueBehind' /\ GatesCovered' /\ TasksCovered'
    BY <1>1, <1>2, <1>3, SameWork
<1>7. ItemsFit'
    BY <1>1, <1>3 DEF NightInv, ItemsFit
<1>8. CalmLongEnough'
    BY <1>1, <1>3, <1>4 DEF NightInv, CalmLongEnough
<1>9. (daemon.at = "waiting" => SamplesCount(daemon.samples, calm))'
    BY <1>3
<1> QED
    BY <1>1, <1>5, <1>6, <1>7, <1>8, <1>9, FilesAlone DEF NightInv

\* A task that has ended: what its record says, and what is left to do.
LEMMA TaskEnds ==
    ASSUME NightInv, daemon.at = "task", UNCHANGED <<queue, recent, calm>>,
           NEW status \in Verdict \cup {"errored"},
           NEW registry \in [Candidate -> Verdicts], Done(status, registry),
           NEW first, first = First(daemon.items),
           \A c \in Candidate :
              \/ registry[c] = daemon.registry[c]
              \/ c = first /\ Len(registry[c]) = Len(daemon.registry[c]) + 1
    PROVE  /\ daemon' \in DaemonRec /\ daemon'.at = "cycle" /\ daemon'.registry = registry
           /\ first \in daemon.items /\ TaskOf(first, status) \in Task
           /\ ToSet(daemon'.tasks) = ToSet(daemon.tasks) \cup {TaskOf(first, status)}
           /\ QueueBehind' /\ ItemsFit' /\ CalmLongEnough'
           /\ (daemon.at = "waiting" => SamplesCount(daemon.samples, calm))'
<1> DEFINE t == TaskOf(first, status)
           items == daemon.items \ {first}
<1>1. daemon \in DaemonRec /\ daemon.at \in Working
    BY NightType DEF Working
<1>2. daemon.items \in SUBSET (Candidate \cup Order) /\ daemon.items # {} /\ daemon.tasks \in Seq(Task)
      /\ daemon.registry \in [Candidate -> Verdicts]
    BY <1>1 DEF NightInv, ItemsFit, DaemonRec
<1>3. first \in daemon.items
    BY <1>2, FirstIsOne
<1>4. t \in Task
    <2>1. first \in Candidate \cup Order
        BY <1>2, <1>3
    <2>2. first \in Candidate =>
              /\ Len(daemon.registry[first]) \in 0..1
              /\ Len(daemon.registry[first]) + 1 \in 1..Len(Gates)
        <3> SUFFICES ASSUME first \in Candidate
                     PROVE  /\ Len(daemon.registry[first]) \in 0..1
                            /\ Len(daemon.registry[first]) + 1 \in 1..Len(Gates)
            OBVIOUS
        <3>1. daemon.registry[first] \in Verdicts /\ Runnable(daemon.registry[first])
            BY <1>2, <1>3 DEF NightInv, ItemsFit
        <3>2. Len(daemon.registry[first]) \in 0..2 /\ Len(daemon.registry[first]) < 2
            BY <3>1, VerdictsLen, NightData DEF Runnable
        <3> DEFINE n == Len(daemon.registry[first])
        <3> HIDE DEF n
        <3>3. n \in 0..2 /\ n < 2
            BY <3>2 DEF n
        <3>4. n \in 0..1 /\ n + 1 \in 1..2
            BY <3>3
        <3> QED
            BY <3>4, NightData DEF n
    <2>3. first \in Candidate \/ first \in Order
        BY <1>2, <1>3
    <2> DEFINE g == IF first \in Candidate THEN Len(daemon.registry[first]) + 1 ELSE 0
    <2>4. (first \in Candidate /\ g \in 1..Len(Gates)) \/ (first \in Order /\ g = 0)
        <3>1. CASE first \in Candidate
            <4>1. g = Len(daemon.registry[first]) + 1
                BY <3>1
            <4> HIDE DEF g
            <4> QED
                BY <2>2, <3>1, <4>1
        <3>2. CASE first \notin Candidate
            BY <2>3, <3>2
        <3> QED
            BY <3>1, <3>2
    <2>5. t = [item |-> first, status |-> status, gate |-> g]
        BY DEF TaskOf
    <2> HIDE DEF g, t
    <2> QED
        BY <2>4, <2>5 DEF Task
<1> DEFINE tasks == Append(daemon.tasks, t)
<1>5. ToSet(tasks) = ToSet(daemon.tasks) \cup {t} /\ tasks \in Seq(Task)
    <2> HIDE DEF t
    <2> QED
        BY <1>2, <1>4, ToSetOfAppend
<1>6. daemon' = [daemon EXCEPT !.at = "cycle", !.items = items, !.tasks = tasks, !.registry = registry]
    BY DEF Done
<1> HIDE DEF tasks, t
<1>7. /\ daemon' \in DaemonRec /\ daemon'.at = "cycle" /\ daemon'.registry = registry
      /\ daemon'.items = items /\ daemon'.tasks = tasks
    <2>1. items \in SUBSET (Candidate \cup Order)
        BY <1>2
    <2> HIDE DEF items
    <2> QED
        BY <1>1, <1>5, <1>6, <2>1 DEF DaemonRec, DaemonStage
<1>8. QueueBehind'
    <2>1. queue # Torn /\ queue \in [Candidate -> Verdicts]
          /\ \A c \in Candidate : Len(queue[c]) <= Len(daemon.registry[c])
        BY <1>1, NightType DEF NightInv, QueueBehind
    <2>2. ASSUME NEW c \in Candidate
          PROVE  Len(queue[c]) <= Len(registry[c])
        <3>1. Len(queue[c]) \in Nat /\ Len(daemon.registry[c]) \in Nat
            BY <1>2, <2>1, VerdictsLen
        <3> QED
            BY <2>1, <3>1
    <2> QED
        BY <1>7, <2>1, <2>2 DEF QueueBehind
<1>9. ItemsFit'
    <2>1. \A c \in items \cap Candidate : registry[c] = queue[c] /\ Runnable(queue[c])
        BY <1>2 DEF NightInv, ItemsFit
    <2>2. items \cap Order \cap recent = {}
        BY DEF NightInv, ItemsFit
    <2> QED
        BY <1>7, <2>1, <2>2 DEF ItemsFit
<1>10. CalmLongEnough' /\ (daemon.at = "waiting" => SamplesCount(daemon.samples, calm))'
    BY <1>7 DEF NightInv, CalmLongEnough
<1> QED
    BY <1>3, <1>4, <1>5, <1>7, <1>8, <1>9, <1>10 DEF t

\* A gate that is judged: its candidate, and the verdicts it has afterwards.
LEMMA GateJudged ==
    ASSUME NightInv, daemon.at = "task", NEW verdict \in Verdict,
           NEW c, c = First(daemon.items), c \in Candidate
    PROVE  /\ c \in daemon.items
           /\ Advanced(c, verdict) \in [Candidate -> Verdicts]
           /\ \A d \in Candidate : d # c => Advanced(c, verdict)[d] = daemon.registry[d]
           /\ Len(Advanced(c, verdict)[c]) = Len(daemon.registry[c]) + 1
           /\ Len(daemon.registry[c]) \in 0..1
           /\ \A g \in DOMAIN Advanced(c, verdict)[c] :
                 \/ g = Len(daemon.registry[c]) + 1 /\ Advanced(c, verdict)[c][g] = verdict
                 \/ g \in DOMAIN daemon.registry[c] /\ Advanced(c, verdict)[c][g] = daemon.registry[c][g]
           /\ Len(daemon.registry[c]) = 1 =>
                 1 \in DOMAIN daemon.registry[c] /\ daemon.registry[c][1] = "passed"
<1>1. daemon.registry \in [Candidate -> Verdicts] /\ daemon.items \in SUBSET (Candidate \cup Order)
      /\ daemon.items # {}
    BY NightType DEF NightInv, ItemsFit, DaemonRec
<1>2. c \in daemon.items
    BY <1>1, FirstIsOne
<1> DEFINE v == daemon.registry[c]
           w == Append(v, verdict)
<1>3. v \in Verdicts /\ Runnable(v)
    BY <1>1, <1>2 DEF NightInv, ItemsFit
<1> HIDE DEF v
<1>4. /\ w \in Verdicts /\ Len(v) \in 0..1 /\ Len(w) = Len(v) + 1
      /\ \A g \in DOMAIN w : \/ g = Len(v) + 1 /\ w[g] = verdict
                             \/ g \in DOMAIN v /\ w[g] = v[g]
      /\ Len(v) = 1 => 1 \in DOMAIN v /\ v[1] = "passed"
    BY <1>3, VerdictsGrow
<1>5. Advanced(c, verdict) = [daemon.registry EXCEPT ![c] = w]
    BY DEF Advanced, v
<1> HIDE DEF w
<1>6. /\ Advanced(c, verdict) \in [Candidate -> Verdicts]
      /\ Advanced(c, verdict)[c] = w
      /\ \A d \in Candidate : d # c => Advanced(c, verdict)[d] = daemon.registry[d]
    BY <1>1, <1>4, <1>5
<1> QED
    BY <1>2, <1>4, <1>6 DEF v

\* A verdict of a gate is claimed after a gate that was passed.
LEMMA GateBeforePassed ==
    ASSUME NightInv, daemon.at = "task", NEW c \in Candidate, Len(daemon.registry[c]) = 1,
           1 \in DOMAIN daemon.registry[c], daemon.registry[c][1] = "passed"
    PROVE  Recorded(c, 1, "passed") \/ Judges(c, 1, "passed")
<1>1. <<c, 1>> \notin hidden
    BY NightData DEF NightInv, HiddenAreLast
<1>2. daemon.at \in Working
    BY DEF Working
<1> QED
    BY <1>1, <1>2 DEF NightInv, RegistrySeen, SeenVerdict

LEMMA JudgeGateKeeps ==
    ASSUME NightInv, NEW verdict \in Verdict, JudgeGate(verdict)
    PROVE  NightInv'
<1> DEFINE c == First(daemon.items)
           registry == Advanced(c, verdict)
           t == TaskOf(c, verdict)
<1>1. UNCHANGED <<queue, ledger, recent, load, calm, hidden, throws, signals, deaths>> /\ daemon.at = "task"
      /\ c \in Candidate /\ Done(verdict, registry)
    BY DEF JudgeGate
<1> HIDE DEF c
<1>2. /\ c \in daemon.items
      /\ registry \in [Candidate -> Verdicts]
      /\ \A d \in Candidate : d # c => registry[d] = daemon.registry[d]
      /\ Len(registry[c]) = Len(daemon.registry[c]) + 1
      /\ Len(daemon.registry[c]) \in 0..1
      /\ \A g \in DOMAIN registry[c] :
            \/ g = Len(daemon.registry[c]) + 1 /\ registry[c][g] = verdict
            \/ g \in DOMAIN daemon.registry[c] /\ registry[c][g] = daemon.registry[c][g]
      /\ Len(daemon.registry[c]) = 1 =>
            1 \in DOMAIN daemon.registry[c] /\ daemon.registry[c][1] = "passed"
    BY <1>1, GateJudged DEF c
<1> HIDE DEF registry
<1>3. /\ daemon' \in DaemonRec /\ daemon'.at = "cycle" /\ daemon'.registry = registry
      /\ t \in Task
      /\ ToSet(daemon'.tasks) = ToSet(daemon.tasks) \cup {t}
      /\ QueueBehind' /\ ItemsFit' /\ CalmLongEnough'
      /\ (daemon.at = "waiting" => SamplesCount(daemon.samples, calm))'
    BY <1>1, <1>2, TaskEnds DEF c
<1>4. t = [item |-> c, status |-> verdict, gate |-> Len(daemon.registry[c]) + 1]
    BY <1>1 DEF TaskOf
<1> HIDE DEF t
<1>5. t.item = c /\ t.status = verdict /\ t.gate = Len(daemon.registry[c]) + 1
    BY <1>4
<1>6. \A d, g, v : Judges(d, g, v) => Judges(d, g, v)'
    BY <1>3 DEF Judges
<1>7. \A d, g, v : (SeenVerdict(d, g, v) => SeenVerdict(d, g, v)') /\ (Recorded(d, g, v) => Recorded(d, g, v)')
    BY <1>1 DEF SeenVerdict, Recorded
<1>8. ASSUME NEW d, NEW g, d = c, g = Len(daemon.registry[c]) + 1
      PROVE  Judges(d, g, verdict)'
    BY <1>3, <1>4, <1>8 DEF Judges
<1>9. NightTypeOK'
    BY <1>1, <1>3 DEF NightInv, NightTypeOK, DaemonRec
<1>10. RegistrySeen'
    <2>1. \A d \in Candidate : \A g \in DOMAIN daemon.registry[d] :
              SeenVerdict(d, g, daemon.registry[d][g]) \/ Judges(d, g, daemon.registry[d][g])
        BY <1>1 DEF NightInv, RegistrySeen, Working
    <2>2. ASSUME NEW d \in Candidate, NEW g \in DOMAIN registry[d], NEW v, v = registry[d][g]
          PROVE  SeenVerdict(d, g, v)' \/ Judges(d, g, v)'
        <3>1. CASE g \in DOMAIN daemon.registry[d] /\ v = daemon.registry[d][g]
            BY <1>6, <1>7, <2>1, <3>1
        <3>2. CASE ~(g \in DOMAIN daemon.registry[d] /\ v = daemon.registry[d][g])
            BY <1>2, <1>8, <2>2, <3>2
        <3> QED
            BY <3>1, <3>2
    <2> QED
        BY <1>3, <2>2 DEF RegistrySeen
<1>11. TasksClimb'
    <2>1. ASSUME t.gate > 1, NEW d, d = c, NEW g, g = t.gate - 1
          PROVE  Recorded(d, g, "passed")' \/ Judges(d, g, "passed")'
        <3>1. Len(daemon.registry[c]) = 1 /\ g = 1
            BY <1>2, <1>5, <2>1
        <3>2. Recorded(c, 1, "passed") \/ Judges(c, 1, "passed")
            BY <1>1, <1>2, <3>1, GateBeforePassed
        <3> QED
            BY <1>6, <1>7, <2>1, <3>1, <3>2
    <2>2. ASSUME NEW u \in ToSet(daemon'.tasks), u.item \in Candidate, u.status # "errored", u.gate > 1,
                 NEW d, d = u.item, NEW g, g = u.gate - 1
          PROVE  Recorded(d, g, "passed")' \/ Judges(d, g, "passed")'
        <3>1. CASE u \in ToSet(daemon.tasks)
            <4>1. Recorded(d, g, "passed") \/ Judges(d, g, "passed")
                BY <2>2, <3>1 DEF NightInv, TasksClimb
            <4> QED
                BY <1>6, <1>7, <4>1
        <3>2. CASE u = t
            BY <1>5, <2>1, <2>2, <3>2
        <3> QED
            BY <1>3, <2>2, <3>1, <3>2
    <2> QED
        BY <2>2 DEF TasksClimb
<1>12. TasksCovered'
    <2>1. ASSUME NEW u \in ToSet(daemon.tasks), u.item \in Candidate, u.status # "errored"
          PROVE  u.gate <= Len(registry[u.item])
        <3>1. u.gate <= Len(daemon.registry[u.item])
            BY <1>1, <2>1 DEF NightInv, TasksCovered
        <3>2. u.gate \in Nat
            <4>1. daemon.tasks \in Seq(Task)
                BY NightType DEF DaemonRec
            <4>2. u \in Task
                BY <4>1 DEF ToSet
            <4> QED
                BY <4>2, NightData DEF Task
        <3> QED
            BY <1>2, <2>1, <3>1, <3>2
    <2>2. t.gate <= Len(registry[c])
        BY <1>2, <1>5
    <2> QED
        BY <1>3, <1>5, <2>1, <2>2 DEF TasksCovered
<1>13. GatesCovered'
    BY <1>1, <1>3 DEF NightInv, GatesCovered
<1> QED
    BY <1>1, <1>3, <1>9, <1>10, <1>11, <1>12, <1>13, FilesAlone DEF NightInv

LEMMA JudgeUnharvestedKeeps ==
    ASSUME NightInv, NEW verdict \in Verdict, JudgeUnharvested(verdict)
    PROVE  NightInv'
<1> DEFINE c == First(daemon.items)
           registry == Advanced(c, verdict)
           t == TaskOf(c, "errored")
           gate == Len(daemon.registry[c]) + 1
<1>1. UNCHANGED <<queue, ledger, recent, load, calm, signals, deaths>> /\ daemon.at = "task"
      /\ c \in Candidate /\ Done("errored", registry) /\ throws' = throws + 1 /\ throws < MaxThrows
      /\ Gates[gate] = "real-qwen-phase-probes"
      /\ hidden' = hidden \cup {<<c, gate>>}
    BY DEF JudgeUnharvested
<1> HIDE DEF c
<1>2. /\ c \in daemon.items
      /\ registry \in [Candidate -> Verdicts]
      /\ \A d \in Candidate : d # c => registry[d] = daemon.registry[d]
      /\ Len(registry[c]) = Len(daemon.registry[c]) + 1
      /\ Len(daemon.registry[c]) \in 0..1
      /\ \A g \in DOMAIN registry[c] :
            \/ g = gate /\ registry[c][g] = verdict
            \/ g \in DOMAIN daemon.registry[c] /\ registry[c][g] = daemon.registry[c][g]
    BY <1>1, GateJudged DEF c
<1>3. gate = Len(Gates)
    <2>1. Gates[1] = "immutable-artifact-replay"
        BY DEF Gates
    <2> QED
        BY <1>1, <1>2, <2>1, NightData
<1> HIDE DEF registry, gate
<1>4. /\ daemon' \in DaemonRec /\ daemon'.at = "cycle" /\ daemon'.registry = registry
      /\ ToSet(daemon'.tasks) = ToSet(daemon.tasks) \cup {t}
      /\ QueueBehind' /\ ItemsFit' /\ CalmLongEnough'
      /\ (daemon.at = "waiting" => SamplesCount(daemon.samples, calm))'
    BY SMTT(40), <1>1, <1>2, TaskEnds DEF c
<1>5. t.status = "errored"
    BY DEF TaskOf
<1> HIDE DEF t
<1>6. \A d, g, v : Judges(d, g, v) => Judges(d, g, v)'
    BY <1>4 DEF Judges
<1>7. \A d, g, v : (SeenVerdict(d, g, v) => SeenVerdict(d, g, v)') /\ (Recorded(d, g, v) => Recorded(d, g, v)')
    BY <1>1 DEF SeenVerdict, Recorded
<1>8. ASSUME NEW d, NEW g, d = c, g = gate
      PROVE  SeenVerdict(d, g, verdict)'
    BY <1>1, <1>8 DEF SeenVerdict
<1>9. NightTypeOK'
    <2>1. hidden' \subseteq Candidate \X (1..Len(Gates)) /\ throws' \in 0..MaxThrows
        BY <1>1, <1>3, NightType, NightData
    <2> QED
        BY <1>1, <1>4, <2>1 DEF NightInv, NightTypeOK, DaemonRec
<1>10. QueueSeen' /\ LedgerClimbs' /\ HiddenAreLast'
    <2>1. QueueSeen'
        BY <1>1, <1>7 DEF NightInv, QueueSeen
    <2>2. LedgerClimbs'
        BY <1>1 DEF NightInv, LedgerClimbs, Recorded
    <2>3. HiddenAreLast'
        BY <1>1, <1>3 DEF NightInv, HiddenAreLast
    <2> QED
        BY <2>1, <2>2, <2>3
<1>11. RegistrySeen'
    <2>1. \A d \in Candidate : \A g \in DOMAIN daemon.registry[d] :
              SeenVerdict(d, g, daemon.registry[d][g]) \/ Judges(d, g, daemon.registry[d][g])
        BY <1>1 DEF NightInv, RegistrySeen, Working
    <2>2. ASSUME NEW d \in Candidate, NEW g \in DOMAIN registry[d], NEW v, v = registry[d][g]
          PROVE  SeenVerdict(d, g, v)' \/ Judges(d, g, v)'
        <3>1. CASE g \in DOMAIN daemon.registry[d] /\ v = daemon.registry[d][g]
            BY <1>6, <1>7, <2>1, <3>1
        <3>2. CASE ~(g \in DOMAIN daemon.registry[d] /\ v = daemon.registry[d][g])
            BY <1>2, <1>8, <2>2, <3>2
        <3> QED
            BY <3>1, <3>2
    <2> QED
        BY <1>4, <2>2 DEF RegistrySeen
<1>12. TasksClimb'
    BY <1>4, <1>5, <1>6, <1>7 DEF NightInv, TasksClimb
<1>13. TasksCovered'
    <2>1. ASSUME NEW u \in ToSet(daemon.tasks), u.item \in Candidate, u.status # "errored"
          PROVE  u.gate <= Len(registry[u.item])
        <3>1. u.gate <= Len(daemon.registry[u.item])
            BY <1>1, <2>1 DEF NightInv, TasksCovered
        <3>2. u.gate \in Nat
            <4>1. daemon.tasks \in Seq(Task)
                BY NightType DEF DaemonRec
            <4>2. u \in Task
                BY <4>1 DEF ToSet
            <4> QED
                BY <4>2, NightData DEF Task
        <3> QED
            BY <1>2, <2>1, <3>1, <3>2
    <2> QED
        BY <1>4, <1>5, <2>1 DEF TasksCovered
<1>14. GatesCovered'
    BY <1>1, <1>4 DEF NightInv, GatesCovered
<1> QED
    BY <1>4, <1>9, <1>10, <1>11, <1>12, <1>13, <1>14 DEF NightInv

\* A task that leaves the registry as it was and has no verdict of a candidate.
LEMMA NoVerdictKeeps ==
    ASSUME NightInv, daemon.at = "task", NEW status \in Verdict \cup {"errored"},
           Done(status, daemon.registry), First(daemon.items) \in Order \/ status = "errored",
           UNCHANGED <<queue, ledger, recent, load, calm, hidden, signals, deaths>>,
           throws' \in 0..MaxThrows
    PROVE  NightInv'
<1> DEFINE t == TaskOf(First(daemon.items), status)
<1>1. daemon.registry \in [Candidate -> Verdicts] /\ \A c \in Candidate : daemon.registry[c] = daemon.registry[c]
    BY NightType DEF DaemonRec
<1>2. /\ daemon' \in DaemonRec /\ daemon'.at = "cycle" /\ daemon'.registry = daemon.registry
      /\ ToSet(daemon'.tasks) = ToSet(daemon.tasks) \cup {t}
      /\ QueueBehind' /\ ItemsFit' /\ CalmLongEnough'
      /\ (daemon.at = "waiting" => SamplesCount(daemon.samples, calm))'
    BY <1>1, TaskEnds
<1>3. t.item \notin Candidate \/ t.status = "errored"
    BY SleepAssumption DEF TaskOf, Candidate, Order
<1> HIDE DEF t
<1>4. \A d, g, v : Judges(d, g, v) => Judges(d, g, v)'
    BY <1>2 DEF Judges
<1>5. \A d, g, v : (SeenVerdict(d, g, v) => SeenVerdict(d, g, v)') /\ (Recorded(d, g, v) => Recorded(d, g, v)')
    BY DEF SeenVerdict, Recorded
<1>6. NightTypeOK'
    BY <1>2 DEF NightInv, NightTypeOK, DaemonRec
<1>7. RegistrySeen'
    BY <1>2, <1>4, <1>5 DEF NightInv, RegistrySeen, Working
<1>8. TasksClimb' /\ TasksCovered'
    BY <1>2, <1>3, <1>4, <1>5 DEF NightInv, TasksClimb, TasksCovered
<1>9. GatesCovered'
    BY <1>2 DEF NightInv, GatesCovered
<1> QED
    BY <1>2, <1>6, <1>7, <1>8, <1>9, FilesAlone DEF NightInv

LEMMA GradeKeeps ==
    ASSUME NightInv, Grade
    PROVE  NightInv'
<1>1. PICK status \in Verdict : Done(status, daemon.registry)
    BY DEF Grade, Verdict
<1>2. /\ daemon.at = "task" /\ First(daemon.items) \in Order
      /\ UNCHANGED <<queue, ledger, recent, load, calm, hidden, throws, signals, deaths>>
    BY DEF Grade
<1> QED
    BY <1>1, <1>2, NoVerdictKeeps, NightType

LEMMA ThrowKeeps ==
    ASSUME NightInv, Throw
    PROVE  NightInv'
<1>1. /\ daemon.at = "task" /\ Done("errored", daemon.registry)
      /\ UNCHANGED <<queue, ledger, recent, load, calm, hidden, signals, deaths>>
    BY DEF Throw
<1>2. throws' \in 0..MaxThrows
    BY NightType DEF Throw
<1> QED
    BY <1>1, <1>2, NoVerdictKeeps

\* The record of a cycle, however its line ends: its verdicts are witnessed,
\* and each follows a recorded pass of the gate before.
LEMMA RecordIsKept ==
    ASSUME NightInv, NEW tail \in {"ended", "unended"}, RecordOnDisk(tail), UNCHANGED <<queue, hidden>>
    PROVE  /\ ledger' \in [tail : {"ended", "unended", "torn"}, gates : SUBSET GateRecord]
           /\ recent' \subseteq Order
           /\ ledger'.gates = ledger.gates \cup GateRecords(daemon.tasks)
           /\ QueueSeen' /\ LedgerClimbs' /\ HiddenAreLast'
           /\ \A c \in Candidate : \A g, v : Judges(c, g, v) /\ v \in Verdict => Recorded(c, g, v)'
           /\ \A c, g, v : (SeenVerdict(c, g, v) => SeenVerdict(c, g, v)')
                           /\ (Recorded(c, g, v) => Recorded(c, g, v)')
<1>1. daemon.tasks \in Seq(Task) /\ ToSet(daemon.tasks) \subseteq Task
    <2>1. daemon.tasks \in Seq(Task)
        BY NightType DEF DaemonRec
    <2> QED
        BY <2>1 DEF ToSet
<1>2. GateRecords(daemon.tasks) \subseteq GateRecord
    <2> SUFFICES ASSUME NEW t \in ToSet(daemon.tasks), t.item \in Candidate, t.status # "errored"
                 PROVE  [candidate |-> t.item, gate |-> t.gate, verdict |-> t.status] \in GateRecord
        BY DEF GateRecords
    <2>1. t \in Task /\ t.status \in Verdict
        BY <1>1 DEF Task
    <2>2. t.gate \in 1..Len(Gates)
        BY <1>1, SleepAssumption DEF Task, Candidate, Order
    <2> QED
        BY <2>1, <2>2 DEF GateRecord
<1>3. /\ ledger' = [tail |-> IF ledger.tail = "ended" THEN tail ELSE "torn",
                    gates |-> ledger.gates \cup GateRecords(daemon.tasks)]
      /\ recent' = recent \cup OrderRuns(daemon.tasks)
    BY DEF RecordOnDisk
<1>4. /\ ledger' \in [tail : {"ended", "unended", "torn"}, gates : SUBSET GateRecord]
      /\ ledger'.gates = ledger.gates \cup GateRecords(daemon.tasks)
    BY <1>2, <1>3, NightType
<1>5. recent' \subseteq Order
    BY <1>3, NightType DEF OrderRuns
<1>6. \A c, g, v : (SeenVerdict(c, g, v) => SeenVerdict(c, g, v)')
                   /\ (Recorded(c, g, v) => Recorded(c, g, v)')
    BY <1>4 DEF SeenVerdict, Recorded
<1>7. ASSUME NEW c \in Candidate, NEW g, NEW v \in Verdict, Judges(c, g, v)
      PROVE  Recorded(c, g, v)'
    <2>1. [candidate |-> c, gate |-> g, verdict |-> v] \in GateRecords(daemon.tasks)
        <3> DEFINE t == [item |-> c, status |-> v, gate |-> g]
        <3>1. t \in ToSet(daemon.tasks) /\ t.item = c /\ t.status = v /\ t.gate = g
            BY <1>7 DEF Judges
        <3>2. v # "errored"
            BY DEF Verdict
        <3> HIDE DEF t
        <3> QED
            BY <3>1, <3>2 DEF GateRecords
    <2> QED
        BY <1>4, <2>1 DEF Recorded
<1>8. QueueSeen' /\ HiddenAreLast'
    BY <1>6 DEF NightInv, QueueSeen, HiddenAreLast
<1>9. LedgerClimbs'
    <2> SUFFICES ASSUME NEW r \in ledger'.gates, r.gate > 1, NEW d, d = r.candidate, NEW g, g = r.gate - 1
                 PROVE  Recorded(d, g, "passed")'
        BY DEF LedgerClimbs
    <2>1. CASE r \in ledger.gates
        <3>1. Recorded(d, g, "passed")
            BY <2>1 DEF NightInv, LedgerClimbs
        <3> QED
            BY <1>6, <3>1
    <2>2. CASE r \in GateRecords(daemon.tasks)
        <3>1. PICK t \in ToSet(daemon.tasks) :
                  /\ t.item \in Candidate /\ t.status # "errored"
                  /\ r = [candidate |-> t.item, gate |-> t.gate, verdict |-> t.status]
            BY <2>2 DEF GateRecords
        <3>2. d = t.item /\ g = t.gate - 1 /\ t.gate > 1
            BY <3>1
        <3>3. Recorded(d, g, "passed") \/ Judges(d, g, "passed")
            BY <3>1, <3>2 DEF NightInv, TasksClimb
        <3> QED
            BY <1>6, <1>7, <3>1, <3>2, <3>3 DEF Verdict
    <2> QED
        BY <1>4, <2>1, <2>2
<1> QED
    BY <1>4, <1>5, <1>6, <1>7, <1>8, <1>9

LEMMA AppendRecordKeeps ==
    ASSUME NightInv, AppendRecord
    PROVE  NightInv'
<1>1. UNCHANGED <<queue, load, calm, hidden, throws, signals, deaths>> /\ daemon.at = "append"
      /\ RecordOnDisk("ended")
    BY DEF AppendRecord
<1>2. daemon.at \in Working /\ daemon \in DaemonRec
    BY <1>1, NightType DEF Working
<1>3. /\ daemon' \in DaemonRec /\ daemon'.at = "queue" /\ daemon'.tasks = daemon.tasks
      /\ daemon'.registry = daemon.registry
    BY <1>2, NightData DEF AppendRecord, DaemonRec, DaemonStage
<1>4. /\ ledger' \in [tail : {"ended", "unended", "torn"}, gates : SUBSET GateRecord]
      /\ recent' \subseteq Order
      /\ ledger'.gates = ledger.gates \cup GateRecords(daemon.tasks)
      /\ QueueSeen' /\ LedgerClimbs' /\ HiddenAreLast'
    BY <1>1, RecordIsKept
<1>5. /\ \A c \in Candidate : \A g, v : Judges(c, g, v) /\ v \in Verdict => Recorded(c, g, v)'
      /\ \A c, g, v : (SeenVerdict(c, g, v) => SeenVerdict(c, g, v)')
                      /\ (Recorded(c, g, v) => Recorded(c, g, v)')
    BY <1>1, RecordIsKept
<1>6. NightTypeOK'
    BY <1>1, <1>3, <1>4 DEF NightInv, NightTypeOK, DaemonRec
<1>7. RegistrySeen'
    <2> SUFFICES ASSUME NEW c \in Candidate, NEW g \in DOMAIN daemon.registry[c],
                        NEW v, v = daemon.registry[c][g]
                 PROVE  SeenVerdict(c, g, v)'
        BY <1>3 DEF RegistrySeen
    <2>1. SeenVerdict(c, g, v) \/ Judges(c, g, v)
        BY <1>1, <1>2 DEF NightInv, RegistrySeen
    <2>2. v \in Verdict
        <3>1. daemon.registry[c] \in Verdicts
            BY <1>2 DEF DaemonRec
        <3> QED
            BY <3>1, NightData, VerdictsHold
    <2> QED
        BY <1>5, <2>1, <2>2 DEF SeenVerdict
<1>8. TasksClimb'
    <2>1. \A c, g, v : Judges(c, g, v) => Judges(c, g, v)'
        BY <1>3 DEF Judges
    <2> QED
        BY <1>3, <1>5, <2>1 DEF NightInv, TasksClimb
<1>9. QueueBehind'
    BY <1>1, <1>2, <1>3 DEF NightInv, QueueBehind
<1>10. GatesCovered'
    <2> SUFFICES ASSUME deaths = 0
                 PROVE  /\ queue \in [Candidate -> Verdicts]
                        /\ \A r \in ledger'.gates : r.gate <= Len(daemon.registry[r.candidate])
        BY <1>1, <1>3 DEF GatesCovered
    <2>1. queue \in [Candidate -> Verdicts]
        BY DEF NightInv, GatesCovered
    <2>2. ASSUME NEW r \in ledger.gates
          PROVE  r.gate <= Len(daemon.registry[r.candidate])
        <3>1. r.gate <= Len(queue[r.candidate])
            BY <1>1 DEF NightInv, GatesCovered
        <3>2. r.candidate \in Candidate /\ r.gate \in Nat
            BY NightType, NightData DEF GateRecord
        <3>3. Len(queue[r.candidate]) <= Len(daemon.registry[r.candidate])
            BY <1>2, <3>2 DEF NightInv, QueueBehind
        <3>4. Len(queue[r.candidate]) \in Nat /\ Len(daemon.registry[r.candidate]) \in Nat
            BY <1>2, <2>1, <3>2, VerdictsLen DEF DaemonRec
        <3> QED
            BY <3>1, <3>2, <3>3, <3>4
    <2>3. ASSUME NEW r \in GateRecords(daemon.tasks)
          PROVE  r.gate <= Len(daemon.registry[r.candidate])
        BY <1>1 DEF NightInv, TasksCovered, GateRecords
    <2> QED
        BY <1>4, <2>1, <2>2, <2>3
<1>11. ItemsFit' /\ CalmLongEnough' /\ TasksCovered'
       /\ (daemon.at = "waiting" => SamplesCount(daemon.samples, calm))'
    BY <1>3 DEF ItemsFit, CalmLongEnough, TasksCovered
<1> QED
    BY <1>4, <1>6, <1>7, <1>8, <1>9, <1>10, <1>11 DEF NightInv

LEMMA WriteQueueKeeps ==
    ASSUME NightInv, WriteQueue
    PROVE  NightInv'
<1>1. UNCHANGED <<ledger, recent, load, calm, hidden, throws, signals, deaths>> /\ daemon.at = "queue"
      /\ queue' = daemon.registry
    BY DEF WriteQueue
<1>2. daemon.at \in Working /\ daemon \in DaemonRec
    BY <1>1, NightType DEF Working
<1>3. /\ daemon' \in DaemonRec /\ daemon'.at = "readback" /\ daemon'.tasks = daemon.tasks
    BY <1>2, NightData DEF WriteQueue, DaemonRec, DaemonStage
<1>4. queue' \in [Candidate -> Verdicts]
    BY <1>1, <1>2 DEF DaemonRec
<1>5. NightTypeOK'
    BY <1>1, <1>3, <1>4 DEF NightInv, NightTypeOK, DaemonRec
<1>6. QueueSeen'
    BY <1>1, <1>2 DEF NightInv, RegistrySeen, QueueSeen, SeenVerdict, Recorded
<1>7. LedgerClimbs' /\ HiddenAreLast' /\ TasksClimb'
    BY <1>1, <1>3 DEF NightInv, LedgerClimbs, HiddenAreLast, TasksClimb, Judges, Recorded
<1>8. GatesCovered'
    BY <1>1, <1>3, <1>4 DEF NightInv, GatesCovered
<1>9. RegistrySeen' /\ QueueBehind' /\ ItemsFit' /\ CalmLongEnough' /\ TasksCovered'
      /\ (daemon.at = "waiting" => SamplesCount(daemon.samples, calm))'
    BY <1>3 DEF RegistrySeen, QueueBehind, ItemsFit, CalmLongEnough, TasksCovered, Working
<1> QED
    BY <1>5, <1>6, <1>7, <1>8, <1>9 DEF NightInv

LEMMA ReadLedgerBackKeeps ==
    ASSUME NightInv, ReadLedgerBack
    PROVE  NightInv'
<1>1. UNCHANGED <<queue, ledger, recent, load, calm, hidden, throws, signals, deaths>> /\ daemon.at = "readback"
    BY DEF ReadLedgerBack
<1>2. daemon' \in DaemonRec /\ daemon'.at \in {"down", "read"} /\ daemon'.tasks = <<>>
    <2>1. daemon \in DaemonRec
        BY NightType
    <2>2. daemon' = Down \/ daemon' = [Down EXCEPT !.at = "read", !.aborted = daemon.aborted]
        BY NightData DEF ReadLedgerBack
    <2> QED
        BY <2>1, <2>2, DownIs
<1>3. NightTypeOK'
    BY <1>1, <1>2 DEF NightInv, NightTypeOK, DaemonRec
<1>4. GatesCovered'
    BY <1>1, <1>2 DEF NightInv, GatesCovered
<1> QED
    BY <1>1, <1>2, <1>3, <1>4, FilesAlone, NothingInHand DEF NightInv

LEMMA DaemonDiesKeeps ==
    ASSUME NightInv, DaemonDies
    PROVE  NightInv'
<1>1. UNCHANGED <<load, calm, hidden, throws, signals>> /\ daemon' = Down
      /\ deaths' = deaths + 1 /\ deaths < MaxDeaths
    BY DEF DaemonDies
<1>2. daemon' \in DaemonRec /\ daemon'.at = "down" /\ daemon'.tasks = <<>>
    BY <1>1, DownIs
<1>3. deaths' \in 0..MaxDeaths /\ deaths' # 0
    BY <1>1, NightType
<1>4. GatesCovered'
    BY <1>3 DEF GatesCovered
<1>5. /\ ledger' \in [tail : {"ended", "unended", "torn"}, gates : SUBSET GateRecord]
      /\ recent' \subseteq Order /\ queue' \in [Candidate -> Verdicts] \cup {Torn}
      /\ QueueSeen' /\ LedgerClimbs' /\ HiddenAreLast'
    <2>1. CASE UNCHANGED <<queue, ledger, recent>>
        BY <1>1, <2>1, NightType, FilesAlone
    <2>2. CASE UNCHANGED queue /\ \E tail \in {"ended", "unended"} : RecordOnDisk(tail)
        BY <1>1, <2>2, NightType, RecordIsKept
    <2>3. CASE UNCHANGED queue /\ ledger' = [ledger EXCEPT !.tail = "torn"] /\ UNCHANGED recent
        <3>1. ledger' \in [tail : {"ended", "unended", "torn"}, gates : SUBSET GateRecord]
              /\ ledger'.gates = ledger.gates
            BY <2>3, NightType
        <3> QED
            BY <1>1, <2>3, <3>1, NightType
               DEF NightInv, QueueSeen, LedgerClimbs, HiddenAreLast, SeenVerdict, Recorded
    <2>4. CASE daemon.at = "queue" /\ UNCHANGED <<ledger, recent>> /\ queue' \in {daemon.registry, Torn}
        <3>1. queue' \in [Candidate -> Verdicts] \cup {Torn}
            BY <2>4, NightType DEF DaemonRec
        <3>2. QueueSeen'
            BY <1>1, <2>4 DEF NightInv, RegistrySeen, QueueSeen, SeenVerdict, Recorded, Working
        <3> QED
            BY <1>1, <2>4, <3>1, <3>2, NightType DEF NightInv, LedgerClimbs, HiddenAreLast, Recorded
    <2> QED
        BY <2>1, <2>2, <2>3, <2>4 DEF DaemonDies
<1>6. NightTypeOK'
    BY <1>1, <1>2, <1>3, <1>5 DEF NightInv, NightTypeOK, DaemonRec
<1> QED
    BY <1>2, <1>4, <1>5, <1>6, NothingInHand DEF NightInv

LEMMA SignalKeeps ==
    ASSUME NightInv, Signal
    PROVE  NightInv'
<1>1. UNCHANGED <<queue, ledger, recent, load, calm, hidden, throws, deaths>>
    BY DEF Signal
<1>2. /\ daemon' \in DaemonRec /\ daemon'.at = daemon.at /\ daemon'.tasks = daemon.tasks
      /\ daemon'.registry = daemon.registry /\ daemon'.items = daemon.items
      /\ daemon'.samples = daemon.samples
    BY NightType DEF Signal, DaemonRec
<1>3. signals' \in 0..MaxSignals
    BY NightType DEF Signal
<1>4. NightTypeOK'
    BY <1>1, <1>2, <1>3 DEF NightInv, NightTypeOK, DaemonRec
<1>5. RegistrySeen'
    BY <1>1, <1>2 DEF NightInv, RegistrySeen, SeenVerdict, Judges, Recorded
<1>6. TasksClimb' /\ QueueBehind' /\ ItemsFit' /\ TasksCovered'
    BY <1>1, <1>2 DEF NightInv, TasksClimb, Judges, Recorded, QueueBehind, ItemsFit, TasksCovered
<1>7. CalmLongEnough' /\ GatesCovered'
    BY <1>1, <1>2 DEF NightInv, CalmLongEnough, GatesCovered
<1>8. (daemon.at = "waiting" => SamplesCount(daemon.samples, calm))'
    BY <1>1, <1>2 DEF NightInv, SamplesCount
<1> QED
    BY <1>1, <1>4, <1>5, <1>6, <1>7, <1>8, FilesAlone DEF NightInv

\* The load of the server and the intervals of the orders.
LEMMA SurroundingsKeep ==
    ASSUME NightInv, UNCHANGED <<queue, ledger, daemon, calm, hidden, throws, signals, deaths>>,
           load' \in ServerLoad, recent' \subseteq recent
    PROVE  NightInv'
<1>1. NightTypeOK'
    BY DEF NightInv, NightTypeOK
<1>2. RegistrySeen' /\ TasksClimb' /\ QueueBehind'
    BY DEF NightInv, RegistrySeen, SeenVerdict, TasksClimb, Judges, Recorded, QueueBehind
<1>3. ItemsFit' /\ TasksCovered' /\ CalmLongEnough' /\ GatesCovered'
    BY DEF NightInv, ItemsFit, TasksCovered, CalmLongEnough, GatesCovered
<1>4. (daemon.at = "waiting" => SamplesCount(daemon.samples, calm))'
    BY DEF NightInv, SamplesCount
<1> QED
    BY <1>1, <1>2, <1>3, <1>4, FilesAlone DEF NightInv

LEMMA NightNextKeeps == NightInv /\ [NightNext]_nightVars => NightInv'
<1> SUFFICES ASSUME NightInv, [NightNext]_nightVars
             PROVE  NightInv'
    OBVIOUS
<1>1. CASE DaemonStarts
    BY <1>1, DaemonStartsKeeps
<1>2. CASE Read
    BY <1>2, ReadKeeps
<1>3. CASE Poll
    BY <1>3, PollKeeps
<1>4. CASE EndCycle
    BY <1>4, EndCycleKeeps
<1>5. CASE LookAtLoad
    BY <1>5, LookAtLoadKeeps
<1>6. CASE \E v \in Verdict : JudgeGate(v) \/ JudgeUnharvested(v)
    BY <1>6, JudgeGateKeeps, JudgeUnharvestedKeeps
<1>7. CASE Grade
    BY <1>7, GradeKeeps
<1>8. CASE Throw
    BY <1>8, ThrowKeeps
<1>9. CASE AppendRecord
    BY <1>9, AppendRecordKeeps
<1>10. CASE WriteQueue
    BY <1>10, WriteQueueKeeps
<1>11. CASE ReadLedgerBack
    BY <1>11, ReadLedgerBackKeeps
<1>12. CASE DaemonDies
    BY <1>12, DaemonDiesKeeps
<1>13. CASE Signal
    BY <1>13, SignalKeeps
<1>14. CASE LoadChanges \/ \E o \in Order : IntervalPasses(o)
    BY <1>14, SurroundingsKeep, NightType DEF LoadChanges, IntervalPasses
<1>15. CASE UNCHANGED nightVars
    BY <1>15, SurroundingsKeep, NightType DEF nightVars
<1> QED
    BY <1>1, <1>2, <1>3, <1>4, <1>5, <1>6, <1>7, <1>8, <1>9, <1>10, <1>11, <1>12, <1>13, <1>14, <1>15
       DEF NightNext, DaemonStep

\* A verdict the queue file claims is in the ledger wherever the daemon died
\* between the two files, but for a gate whose harvest threw; and the ledger
\* has no verdict of a gate without a recorded pass of the gate before.
THEOREM QueueStaysWitnessed == NightSpec => []QueueIsWitnessed
<1>1. NightInv => QueueIsWitnessed
    BY DEF NightInv, QueueIsWitnessed, QueueSeen, LedgerClimbs, SeenVerdict
<1> QED
    BY <1>1, NightInitFits, NightNextKeeps, PTL DEF NightSpec

\* What a task that starts relies on: LookAtLoad is the only step that starts one.
LEMMA StartsJustified ==
    ASSUME NightInv, [NightNext]_nightVars, NEW item, Starts(item)
    PROVE  /\ calm > Window /\ load = "quiet" /\ queue # Torn
           /\ item \in Candidate => Runnable(queue[item])
           /\ item \in Order => item \notin recent
           /\ item \in Candidate /\ deaths = 0 =>
                 \A r \in ledger.gates : r.candidate = item => r.gate <= Len(queue[item])
<1>1. daemon.at = "cycle" /\ daemon'.at = "task" /\ First(daemon.items) = item
    BY DEF Starts
<1>2. daemon \in DaemonRec /\ Down.at = "down"
    BY NightType, DownIs
<1>3. LookAtLoad
    <2>1. ~DaemonStarts /\ ~Read /\ ~Poll /\ ~Grade /\ ~Throw /\ ~AppendRecord /\ ~WriteQueue
          /\ ~ReadLedgerBack /\ \A v \in Verdict : ~JudgeGate(v) /\ ~JudgeUnharvested(v)
        BY <1>1 DEF DaemonStarts, Read, Poll, Grade, Throw, AppendRecord, WriteQueue, ReadLedgerBack,
                    JudgeGate, JudgeUnharvested
    <2>2. ~EndCycle
        BY <1>1, <1>2, NightData DEF EndCycle, DaemonRec
    <2>3. ~DaemonDies
        BY <1>1, <1>2 DEF DaemonDies
    <2>4. ~Signal
        BY <1>1, <1>2 DEF Signal, DaemonRec
    <2>5. ~LoadChanges /\ \A o \in Order : ~IntervalPasses(o)
        BY <1>1 DEF LoadChanges, IntervalPasses
    <2>6. nightVars' # nightVars
        BY <1>1 DEF nightVars
    <2> QED
        BY <2>1, <2>2, <2>3, <2>4, <2>5, <2>6 DEF NightNext, DaemonStep
<1>4. load = "quiet" /\ daemon.items # {}
    BY <1>1, <1>2, <1>3, NightData DEF LookAtLoad, Spent, DaemonRec
<1>5. item \in daemon.items
    <2>1. daemon.items \in SUBSET (Candidate \cup Order)
        BY <1>2 DEF DaemonRec
    <2> QED
        BY <1>1, <1>4, <2>1, FirstIsOne
<1>6. calm > Window /\ queue # Torn
    BY <1>1 DEF NightInv, CalmLongEnough, QueueBehind, Working
<1>7. item \in Candidate => Runnable(queue[item])
    BY <1>1, <1>5 DEF NightInv, ItemsFit
<1>8. item \in Order => item \notin recent
    BY <1>1, <1>5 DEF NightInv, ItemsFit
<1>9. item \in Candidate /\ deaths = 0 =>
          \A r \in ledger.gates : r.candidate = item => r.gate <= Len(queue[item])
    BY <1>1 DEF NightInv, GatesCovered
<1> QED
    BY <1>4, <1>6, <1>7, <1>8, <1>9

\* A task starts only after a quiet window in which no live request was seen, a
\* candidate's never at a gate that the queue file has decided, and at one with
\* a recorded verdict only after a death; an order's never inside its interval.
THEOREM NightStartsAreJustified == NightSpec => StartsAreJustified
<1>1. NightInv /\ [NightNext]_nightVars =>
        [/\ \A c \in Candidate : Starts(c) =>
              /\ calm > Window /\ load = "quiet"
              /\ queue # Torn /\ Runnable(queue[c])
              /\ deaths = 0 => \A r \in ledger.gates :
                   r.candidate = c => r.gate <= Len(queue[c])
         /\ \A o \in Order : Starts(o) => calm > Window /\ o \notin recent]_nightVars
    BY StartsJustified
<1> QED
    BY <1>1, NightInitFits, NightNextKeeps, PTL DEF NightSpec, StartsAreJustified
=============================================================================
