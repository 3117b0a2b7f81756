--------------------------- MODULE ExperimentStore ---------------------------
(***************************************************************************)
(* The research experiment store of swarm/src/experimentStore.js, for one  *)
(* experiment: its two immutable references, its ledger heads (one file    *)
(* per generation and content) and the lock file that callers in several   *)
(* processes race for.  One caller is one call of the store; a step is     *)
(* what a call does between two awaits that touch the shared directory.    *)
(* Objects are content-addressed and written before a head refers to them, *)
(* so a ledger stands for its own digest.                                  *)
(***************************************************************************)
EXTENDS Integers, FiniteSets, Sequences, SequencesExt

CONSTANTS
    Caller,         \* calls of the store, each made at most once
    Proposal,       \* proposals that claim the id of the experiment
    Operation,      \* per caller, what the call may ask for
    Histories,      \* ledgers the store may hold in the beginning
    Stalls,         \* callers that may hold the lock longer than staleLockMs
    MaxCrashes,     \* callers that may die (bound)
    NoLock, NoLedger, NoReference

\* LEDGER_TRANSITIONS, and the state each event leads to.
Transitions ==
    [proposed |-> {"approved", "rejected", "quarantined"},
     approved |-> {"started", "aborted", "quarantined"},
     running |-> {"outcome_recorded", "aborted", "quarantined"},
     evaluating |-> {"promoted", "rejected", "quarantined"},
     promoted |-> {"reverted"}]

Becomes ==
    [approved |-> "approved", rejected |-> "rejected", quarantined |-> "quarantined",
     started |-> "running", aborted |-> "aborted", outcome_recorded |-> "evaluating",
     promoted |-> "promoted", reverted |-> "reverted"]

EventType == DOMAIN Becomes
Ledger == [proposal : Proposal, events : Seq(EventType)]
Operations ==
    [kind : {"initialize"}, proposal : Proposal]
        \cup [kind : {"append"}, event : EventType]
        \cup [kind : {"attest"}, event : {"outcome_recorded"}]

ASSUME StoreAssumption ==
    /\ Operation \in [Caller -> SUBSET Operations]
    /\ Histories \subseteq Ledger
    /\ Stalls \subseteq Caller
    /\ MaxCrashes \in Nat
    /\ NoLock \notin [owner : Caller, stamped : BOOLEAN, old : BOOLEAN]
    /\ NoLedger \notin Ledger
    /\ NoReference \notin Proposal

VARIABLES
    references,     \* proposal.ref and evaluation.ref
    heads,          \* the ledgers linked under heads/
    lock,           \* the lock file: its creator, token written, older than staleLockMs
    call,           \* per caller: next step, operation, ledger to link, success
    stolen,         \* history: a quarantine took the lock of a living caller
    crashes

vars == <<references, heads, lock, call, stolen, crashes>>

Callback == {"proposal", "evaluation", "genesis", "reload", "load", "link"}
Settled == {"resolved", "rejected", "dead"}
Step == Callback \cup Settled \cup
        {"idle", "precheck", "acquire", "stamp", "judge", "quarantine", "wait",
         "release", "unlink"}

-----------------------------------------------------------------------------
\* Ledgers.  The generation of a ledger is the number of its later events.
Genesis(p) == [proposal |-> p, events |-> <<>>]
Generation(ledger) == Len(ledger.events)
StateOf(ledger) ==
    IF ledger.events = <<>> THEN "proposed" ELSE Becomes[Last(ledger.events)]
Extended(ledger, event) == [ledger EXCEPT !.events = Append(@, event)]

\* appendResearchExperimentEvent accepts the event.
Accepts(ledger, event) ==
    /\ StateOf(ledger) \in DOMAIN Transitions
    /\ event \in Transitions[StateOf(ledger)]

\* Slip: only gaps are refused, not a second head of a generation.
ContiguousWithDuplicates(H) ==
    H # {} /\ {Generation(h) : h \in H} = 0 .. Cardinality({Generation(h) : h \in H}) - 1

\* readHeads: the generations are 0, 1, 2, ... without gap or duplicate.
Contiguous(H) ==
    /\ H # {}
    /\ \A h \in H : Generation(h) < Cardinality(H)
    /\ \A g, h \in H : Generation(g) = Generation(h) => g = h
Newest(H) == CHOOSE h \in H : \A g \in H : Generation(g) <= Generation(h)

\* The ledger after its first n later events, and a ledger each event of
\* which the state before it allowed.
Cut(ledger, n) == [ledger EXCEPT !.events = SubSeq(@, 1, n)]
IsPath(ledger) ==
    \A i \in DOMAIN ledger.events : Accepts(Cut(ledger, i - 1), ledger.events[i])

\* The store began with what earlier appends could leave.
ASSUME HistoryAssumption == \A h \in Histories : IsPath(h)

\* loadExperiment returns, instead of throwing.
Loadable ==
    /\ references["proposal"] # NoReference
    /\ references["evaluation"] = references["proposal"]
    /\ Contiguous(heads)
    /\ Newest(heads).proposal = references["proposal"]

-----------------------------------------------------------------------------
\* The store holds every generation of one history, or nothing yet.
Init ==
    /\ \/ /\ heads = {}
          /\ references = [r \in {"proposal", "evaluation"} |-> NoReference]
       \/ \E h \in Histories :
            /\ heads = {Cut(h, n) : n \in 0 .. Generation(h)}
            /\ references = [r \in {"proposal", "evaluation"} |-> h.proposal]
    /\ lock = NoLock
    /\ call = [c \in Caller |-> [at |-> "idle", op |-> [kind |-> "none"],
                                 ledger |-> NoLedger, ok |-> FALSE]]
    /\ stolen = FALSE
    /\ crashes = 0

At(c, step) == call[c].at = step
Go(c, step) == call' = [call EXCEPT ![c].at = step]

\* The call throws inside the callback; the lock is still released.
Fail(c) == call' = [call EXCEPT ![c].at = "release", ![c].ok = FALSE]

Lock(c) == [owner |-> c, stamped |-> FALSE, old |-> FALSE]
HeldBy(c) == lock # NoLock /\ lock.owner = c

Start(c, op) ==
    /\ At(c, "idle")
    /\ call' = [call EXCEPT ![c].op = op,
                            ![c].at = IF op.kind = "attest" THEN "precheck" ELSE "acquire"]
    /\ UNCHANGED <<references, heads, lock, stolen, crashes>>

\* recordAttestedOutcome looks at the ledger before it takes the lock.
Precheck(c) ==
    /\ At(c, "precheck")
    /\ Go(c, IF Loadable /\ StateOf(Newest(heads)) = "running" THEN "acquire" ELSE "rejected")
    /\ UNCHANGED <<references, heads, lock, stolen, crashes>>

-----------------------------------------------------------------------------
\* Slip: the lock file is opened with "w".
AcquireAnyway(c) ==
    /\ At(c, "acquire")
    /\ lock' = Lock(c)
    /\ Go(c, "stamp")
    /\ UNCHANGED <<references, heads, stolen, crashes>>

\* withLock: open with "wx", then the token is written into the new file,
\* wherever that file is by then.
Acquire(c) ==
    /\ At(c, "acquire")
    /\ IF lock = NoLock
       THEN lock' = Lock(c) /\ Go(c, "stamp")
       ELSE UNCHANGED lock /\ Go(c, "judge")
    /\ UNCHANGED <<references, heads, stolen, crashes>>

Stamp(c) ==
    /\ At(c, "stamp")
    /\ lock' = IF HeldBy(c) THEN [lock EXCEPT !.stamped = TRUE, !.old = FALSE] ELSE lock
    /\ Go(c, IF call[c].op.kind = "initialize" THEN "proposal" ELSE "load")
    /\ UNCHANGED <<references, heads, stolen, crashes>>

\* lockIsStale reads the age of whatever lock file is there now.
Judge(c) ==
    /\ At(c, "judge")
    /\ Go(c, IF lock # NoLock /\ lock.old THEN "quarantine" ELSE "wait")
    /\ UNCHANGED <<references, heads, lock, stolen, crashes>>

\* quarantineStaleLock moves whatever lock file is there by now.
Quarantine(c) ==
    /\ At(c, "quarantine")
    /\ lock' = NoLock
    /\ stolen' = (stolen \/ (lock # NoLock /\ ~At(lock.owner, "dead")))
    /\ Go(c, "acquire")
    /\ UNCHANGED <<references, heads, crashes>>

Retry(c) ==
    /\ At(c, "wait")
    /\ Go(c, "acquire")
    /\ UNCHANGED <<references, heads, lock, stolen, crashes>>

\* Slip: the loop has no deadline.
TimesOutNever(c) == FALSE /\ UNCHANGED vars

\* The lock could not be had within lockTimeoutMs.
TimesOut(c) ==
    /\ At(c, "wait")
    /\ Go(c, "rejected")
    /\ UNCHANGED <<references, heads, lock, stolen, crashes>>

-----------------------------------------------------------------------------
\* initializeExperiment in the lock: two immutable references, which refuse
\* other content, the head of generation 0, and a load.
WriteReference(c, reference, next) ==
    LET p == call[c].op.proposal
    IN  /\ At(c, reference)
        /\ IF references[reference] \in {NoReference, p}
           THEN references' = [references EXCEPT ![reference] = p] /\ Go(c, next)
           ELSE UNCHANGED references /\ Fail(c)
        /\ UNCHANGED <<heads, lock, stolen, crashes>>

LinkGenesis(c) ==
    LET genesis == Genesis(call[c].op.proposal)
    IN  /\ At(c, "genesis")
        /\ heads' = heads \cup {genesis}
        /\ call' = [call EXCEPT ![c].at = "reload", ![c].ledger = genesis]
        /\ UNCHANGED <<references, lock, stolen, crashes>>

Reload(c) ==
    /\ At(c, "reload")
    /\ call' = [call EXCEPT ![c].at = "release", ![c].ok = Loadable]
    /\ UNCHANGED <<references, heads, lock, stolen, crashes>>

\* appendEvent in the lock: load, extend, link the head of the next
\* generation.
Load(c) ==
    LET event == call[c].op.event
    IN  /\ At(c, "load")
        /\ IF Loadable /\ Accepts(Newest(heads), event)
           THEN call' = [call EXCEPT ![c].at = "link",
                                     ![c].ledger = Extended(Newest(heads), event)]
           ELSE Fail(c)
        /\ UNCHANGED <<references, heads, lock, stolen, crashes>>

Link(c) ==
    /\ At(c, "link")
    /\ heads' = heads \cup {call[c].ledger}
    /\ call' = [call EXCEPT ![c].at = "release", ![c].ok = TRUE]
    /\ UNCHANGED <<references, lock, stolen, crashes>>

-----------------------------------------------------------------------------
Outcome(c) == IF call[c].ok THEN "resolved" ELSE "rejected"

\* releaseOwnedLock: the token is read, and a lock file without one makes
\* JSON.parse throw; then whatever lock file is there by now is unlinked.
Release(c) ==
    /\ At(c, "release")
    /\ Go(c, IF lock = NoLock THEN Outcome(c)
             ELSE IF ~lock.stamped THEN "rejected"
             ELSE IF lock.owner = c THEN "unlink" ELSE Outcome(c))
    /\ UNCHANGED <<references, heads, lock, stolen, crashes>>

Unlink(c) ==
    /\ At(c, "unlink")
    /\ lock' = NoLock
    /\ Go(c, Outcome(c))
    /\ UNCHANGED <<references, heads, stolen, crashes>>

\* The clock: the lock file becomes older than staleLockMs, because its
\* creator died or stalls.
Age ==
    /\ lock # NoLock
    /\ ~lock.old
    /\ At(lock.owner, "dead") \/ lock.owner \in Stalls
    /\ lock' = [lock EXCEPT !.old = TRUE]
    /\ UNCHANGED <<references, heads, call, stolen, crashes>>

Crash(c) ==
    /\ crashes < MaxCrashes
    /\ call[c].at \notin Settled \cup {"idle"}
    /\ crashes' = crashes + 1
    /\ Go(c, "dead")
    /\ UNCHANGED <<references, heads, lock, stolen>>

Advance(c) ==
    \/ Precheck(c)
    \/ Acquire(c)
    \/ Stamp(c)
    \/ Judge(c)
    \/ Quarantine(c)
    \/ Retry(c)
    \/ WriteReference(c, "proposal", "evaluation")
    \/ WriteReference(c, "evaluation", "genesis")
    \/ LinkGenesis(c)
    \/ Reload(c)
    \/ Load(c)
    \/ Link(c)
    \/ Release(c)
    \/ Unlink(c)

Next ==
    \/ \E c \in Caller : \E op \in Operation[c] : Start(c, op)
    \/ \E c \in Caller : Advance(c)
    \/ \E c \in Caller : TimesOut(c)
    \/ \E c \in Caller : Crash(c)
    \/ Age

\* The event loop runs every pending continuation, and a waiting call reads
\* the clock on every attempt.
Fairness == \A c \in Caller : WF_vars(Advance(c)) /\ SF_vars(TimesOut(c))

Spec == Init /\ [][Next]_vars
FairSpec == Spec /\ Fairness

-----------------------------------------------------------------------------
TypeOK ==
    /\ references \in [{"proposal", "evaluation"} -> Proposal \cup {NoReference}]
    /\ heads \subseteq Ledger
    /\ lock \in [owner : Caller, stamped : BOOLEAN, old : BOOLEAN] \cup {NoLock}
    /\ call \in [Caller -> [at : Step, op : Operations \cup {[kind |-> "none"]},
                            ledger : Ledger \cup {NoLedger}, ok : BOOLEAN]]
    /\ stolen \in BOOLEAN
    /\ crashes \in 0 .. MaxCrashes

\* As long as no quarantine took the lock of a living caller, one caller at
\* a time runs its callback and the heads stay readable: dead owners, their
\* quarantine and unlocked readers never get in between.
SerializedUnlessStolen ==
    ~stolen =>
        /\ \A c, d \in Caller : call[c].at \in Callback /\ call[d].at \in Callback => c = d
        /\ heads # {} => Contiguous(heads)

\* Every linked ledger is a path of LEDGER_TRANSITIONS, although the check
\* of recordAttestedOutcome may be out of date when the lock is had.
HistoryIsLegal ==
    /\ TypeOK
    /\ \A h \in heads : IsPath(h)

\* What the store acknowledged it never loses, even when a lock is stolen: a
\* load that succeeds returns a legal ledger that continues every ledger a
\* resolved call returned; otherwise the load throws.
AcknowledgedOrUnreadable ==
    /\ HistoryIsLegal
    /\ Loadable =>
          \A c \in Caller :
              At(c, "resolved") => IsPrefix(call[c].ledger.events, Newest(heads).events)

\* Every call settles: dead owners and crowds of waiters hang nobody.
CallsSettle ==
    \A c \in Caller : ~At(c, "idle") ~> call[c].at \in Settled

\* Each generation has one head.
OneHeadPerGeneration ==
    \A g, h \in heads : Generation(g) = Generation(h) => g = h
=============================================================================
