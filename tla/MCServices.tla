------------------------------ MODULE MCServices ------------------------------
(* Three services that share nothing: the swarm turn gateway, with two turns *)
(* over two requests, a Mission that leaves exactly the minimum for the      *)
(* private stages and a chat that leaves less; the learning controller, with *)
(* two failed observations, the later one imported first or together with    *)
(* the earlier, and a payload that contradicts the first; the intake of      *)
(* Platform episodes with its publisher.  An initial state says which one is *)
(* explored.                                                                 *)
EXTENDS TurnGateway, PersistentLearning, PlatformIntake, TLC

CONSTANTS
    mission, chat,              \* requests
    primary, alternative,       \* roles
    plan, prose, cut,           \* answers
    l1, l2, x1,                 \* observations
    i1, n1, n2,                 \* a development input, ids
    e1, e1x, m1, forged,        \* messages of the Platform
    Parts                       \* which of the services are explored

VARIABLE part

MCRequest == {mission, chat}
MCMissions == {mission}
MCRoles == <<primary, alternative>>
MCAnswer == {plan, prose, cut}
MCComplete == {plan, prose}
MCPlans == {plan}
MCSays(stage) ==
    CASE stage = primary -> {plan, cut}
      [] stage = alternative -> {prose}
      [] stage \in {"critic", "critic:recovery"} -> {prose, cut}
      [] stage = "mission:contract-recovery" -> {plan, prose}
      [] OTHER -> MCAnswer
MCPromptTokens(q) == IF q = mission THEN 14 ELSE 15
MCMaxTokens(q) == 0

MCObservation == {l1, l2, x1}
MCIdentity == {n1, n2}
MCIdOf == (l1 :> n1) @@ (l2 :> n2) @@ (x1 :> n1)
MCRank == (l1 :> 2) @@ (l2 :> 1) @@ (x1 :> 3)
MCFailing == {l1, l2}
MCBatches == {{l1}, {l1, l2}, {x1, l2}}
MCInput == {i1}
MCModes == {TRUE, FALSE}

\* One episode in two versions, its manifest, and a message that fails a check.
MCMessage == {e1, e1x, m1, forged}
MCSound == {e1, e1x, m1}
MCKind == [m \in MCMessage |-> IF m = m1 THEN "manifest" ELSE "episode"]
MCEpisodeOf == (e1 :> 1) @@ (e1x :> 1) @@ (m1 :> 1) @@ (forged :> 2)
MCBody == (e1 :> 1) @@ (e1x :> 2) @@ (m1 :> 1) @@ (forged :> 2)

\* The given service takes a step.
InGateway == part = "gateway" /\ UNCHANGED <<part, controllerVars, intakeVars>>
InLearning == part = "learning" /\ UNCHANGED <<part, vars, intakeVars>>
InIntake == part = "intake" /\ UNCHANGED <<part, vars, controllerVars>>

MCInit ==
    /\ part \in Parts /\ Init /\ ControllerInit /\ IntakeInit
    /\ part # "learning" => observations = {l1} /\ input = BadInput

MCNext ==
    \/ InGateway /\ \E t \in Turn, q \in Request : Ask(t, q)
    \/ /\ InGateway
       /\ \E t \in Turn, r \in CandidateRole : \E a \in Says(r) : CandidateAnswers(t, r, a)
    \/ /\ InGateway
       /\ \E t \in Turn : turns[t].at \in Asking /\ \E a \in Says(turns[t].at) : StageAnswers(t, a)
    \/ InGateway /\ \E t \in Turn : CallFails(t)
    \/ InGateway /\ \E t \in Turn, extent \in Extent : WriteTrace(t, extent)
    \/ InGateway /\ \E t \in Turn, reaches \in BOOLEAN : Reply(t, reaches)
    \/ InGateway /\ \E t \in Turn : ShadowAdvance(t)
    \/ InGateway /\ Restart
    \/ InLearning /\ StartController
    \/ InLearning /\ Tick
    \/ InLearning /\ \E o \in LearningObservation : Ingest(o)
    \/ InLearning /\ Plan
    \/ InLearning /\ Bind
    \/ InLearning /\ Reflect
    \/ InLearning /\ Resume
    \/ InLearning /\ Submit
    \/ InLearning /\ Reuse
    \/ InLearning /\ Reconcile
    \/ InLearning /\ AskReconcile
    \/ InLearning /\ Unresolve
    \/ InLearning /\ StartWork
    \/ InLearning /\ Execute
    \/ InLearning /\ ExecutorEnds
    \/ InLearning /\ Adopt
    \/ InLearning /\ Snapshot
    \/ InLearning /\ StopController
    \/ InLearning /\ Crash
    \/ InLearning /\ Edit
    \/ InIntake /\ StartReceiver
    \/ InIntake /\ Stop
    \/ InIntake /\ \E m \in Message : RefuseMessage(m)
    \/ InIntake /\ \E m \in Message : Repeat(m)
    \/ InIntake /\ \E m \in Message : Write(m)
    \/ InIntake /\ WriteWhole
    \/ InIntake /\ FallShort
    \/ InIntake /\ \E extent \in Log!Extent : Throw(extent)
    \/ InIntake /\ \E extent \in Log!Extent : ReceiverDies(extent)
    \/ InIntake /\ Derive
    \/ InIntake /\ RenameSnapshot
    \/ InIntake /\ RenameDigest
    \/ InIntake /\ UploadSnapshot
    \/ InIntake /\ UploadDigest
    \/ InIntake /\ Abandon

MCSpec == MCInit /\ [][MCNext]_<<part, vars, controllerVars, intakeVars>>

\* The fairness of TurnGateway, of PersistentLearning and of PlatformIntake.
MCFairSpec ==
    /\ MCSpec
    /\ \A t \in Turn :
          /\ WF_vars(part = "gateway" /\ Advance(t))
          /\ WF_vars(part = "gateway" /\ ShadowAdvance(t))
    /\ WF_controllerVars(part = "learning" /\ TickAdvances)
    /\ WF_intakeVars(part = "intake" /\ StartReceiver)
    /\ WF_intakeVars(part = "intake" /\ Finish)
    /\ WF_intakeVars(part = "intake" /\ Publish)
    /\ \A m \in Sound : []<>(part # "intake") \/ KeepsDelivering(m)
=============================================================================
