------------------------- MODULE MCExperimentStore -------------------------
(* Services that go on by themselves: three calls race on the store of      *)
(* experiments, empty or with one that runs, or the sleep daemon works on a *)
(* candidate and two standing orders.  An initial state says which of the   *)
(* two is explored; they share nothing.                                     *)
EXTENDS ExperimentStore, SleepCycle

CONSTANTS s1, s2, s3, p1, p2, c1, o1, o2,
    Parts       \* which of the two are explored

VARIABLE part

MCCaller == {s1, s2, s3}
MCProposal == {p1, p2}
MCInitialize(p) == [kind |-> "initialize", proposal |-> p]
MCAppend(event) == [kind |-> "append", event |-> event]
MCAttest == [kind |-> "attest", event |-> "outcome_recorded"]
MCOperation ==
    (s1 :> {MCInitialize(p1), MCAttest}) @@ (s2 :> {MCAppend("aborted")})
        @@ (s3 :> {MCInitialize(p2), MCAppend("aborted")})
MCHistories == {[proposal |-> p1, events |-> <<"approved", "started">>]}
MCStalls == {s1}
MCNoStalls == {}

MCCandidates == <<c1>>
MCOrders == <<o1, o2>>

InStore == part = "store" /\ UNCHANGED <<part, nightVars>>
InNight == part = "night" /\ UNCHANGED <<part, vars>>

MCInit ==
    /\ part \in Parts /\ Init /\ NightInit
    /\ part # "night" => load = "busy"
    /\ part # "store" => heads = {}

MCNext ==
    \/ InStore /\ \E c \in Caller : \E op \in Operation[c] : Start(c, op)
    \/ InStore /\ \E c \in Caller : Precheck(c)
    \/ InStore /\ \E c \in Caller : Acquire(c)
    \/ InStore /\ \E c \in Caller : Stamp(c)
    \/ InStore /\ \E c \in Caller : Judge(c)
    \/ InStore /\ \E c \in Caller : Quarantine(c)
    \/ InStore /\ \E c \in Caller : Retry(c)
    \/ InStore /\ \E c \in Caller : WriteReference(c, "proposal", "evaluation")
    \/ InStore /\ \E c \in Caller : WriteReference(c, "evaluation", "genesis")
    \/ InStore /\ \E c \in Caller : LinkGenesis(c)
    \/ InStore /\ \E c \in Caller : Reload(c)
    \/ InStore /\ \E c \in Caller : Load(c)
    \/ InStore /\ \E c \in Caller : Link(c)
    \/ InStore /\ \E c \in Caller : Release(c)
    \/ InStore /\ \E c \in Caller : Unlink(c)
    \/ InStore /\ \E c \in Caller : TimesOut(c)
    \/ InStore /\ \E c \in Caller : Crash(c)
    \/ InStore /\ Age
    \/ InNight /\ DaemonStarts
    \/ InNight /\ Read
    \/ InNight /\ Poll
    \/ InNight /\ EndCycle
    \/ InNight /\ LookAtLoad
    \/ InNight /\ \E v \in Verdict : JudgeGate(v)
    \/ InNight /\ \E v \in Verdict : JudgeUnharvested(v)
    \/ InNight /\ Grade
    \/ InNight /\ Throw
    \/ InNight /\ AppendRecord
    \/ InNight /\ WriteQueue
    \/ InNight /\ ReadLedgerBack
    \/ InNight /\ DaemonDies
    \/ InNight /\ Signal
    \/ InNight /\ LoadChanges
    \/ InNight /\ \E o \in Order : IntervalPasses(o)

MCSpec == MCInit /\ [][MCNext]_<<part, vars, nightVars>>

\* The fairness of ExperimentStore and of SleepCycle.
MCFairSpec ==
    /\ MCSpec
    /\ \A c \in Caller :
          /\ WF_vars(part = "store" /\ Advance(c))
          /\ SF_vars(part = "store" /\ TimesOut(c))
    /\ WF_nightVars(part = "night" /\ DaemonStarts)
    /\ WF_nightVars(part = "night" /\ DaemonStep)
=============================================================================
