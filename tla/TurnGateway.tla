---------------------------- MODULE TurnGateway ----------------------------
(***************************************************************************)
(* The swarm turn gateway (swarm/src/swarmTurnGateway.js) as it is served  *)
(* (swarm/scripts/runSwarmTurnGateway.js), with the accounts that leave    *)
(* it: the trace of each served turn, the metadata in the reply            *)
(* (gatewayRecoveryEvidence.js) and the shadow log, and the join of that   *)
(* log with the attempts the Platform reports (shadowDiagnostics.js).      *)
(* Turns run concurrently.  A turn asks the candidates in parallel, then a *)
(* critic and an integrator, each with one recovery call, or serves a      *)
(* candidate when the prompt leaves no room; a Mission turn may make one   *)
(* more call for a well formed plan.  The trace is written before the      *)
(* reply, the shadow of the final call runs behind it.                     *)
(***************************************************************************)
EXTENDS Integers, Sequences, SequencesExt, FiniteSets

CONSTANTS
    Turns,          \* number of turns, in the order they are asked
    Request,        \* requests; a request may be asked again
    Missions,       \* those with the Platform's planner envelope
    Roles,          \* sequence of the candidate roles
    Answer,         \* what a backend returns
    Complete,       \* answers that are visible and not cut by a limit
    Plans,          \* answers from which a Mission plan can be read
    Says(_),        \* answers to expect in a stage
    PromptTokens(_), MaxTokens(_),  \* of a request; MaxTokens is 0 if not given
    ContextTokens, SafetyTokens, InternalMaxTokens,
    MinimumOutput, MinimumEvidence,
    NoAnswer,       \* a backend call that failed
    Torn,           \* a line that is not JSON
    MaxFaults, MaxRestarts      \* bounds

CandidateRole == ToSet(Roles)
Turn == 1..Turns
Corrections == {"critic:recovery", "integrator:recovery", "mission:contract-recovery"}
Stage == CandidateRole \cup {"critic", "integrator"} \cup Corrections

Observations == [stage : Stage, message : Answer]
Inputs == [request : Request, stage : Stage, quotes : Seq(Answer)]

\* The lines of the trace file and of the shadow file.
TraceLine == [turn : Turn, request : Request, stages : Seq(Observations), input : Inputs,
              corrections : Nat]
ShadowLine == [turn : Turn, request : Request, input : Inputs, primary : Answer]

ASSUME GatewayAssumption ==
    /\ Turns \in Nat /\ Missions \subseteq Request
    /\ Roles \in Seq(CandidateRole) /\ Roles # <<>>
    /\ \A i, j \in DOMAIN Roles : Roles[i] = Roles[j] => i = j
    /\ CandidateRole \cap ({"critic", "integrator"} \cup Corrections) = {}
    /\ \A s \in Stage : Says(s) \subseteq Answer
    /\ Complete \subseteq Answer /\ Plans \subseteq Answer /\ NoAnswer \notin Answer
    /\ Torn \notin TraceLine \cup ShadowLine
    /\ MaxFaults \in Nat /\ MaxRestarts \in Nat
ASSUME TokenAssumption ==
    /\ \A q \in Request : PromptTokens(q) \in Nat /\ MaxTokens(q) \in Nat
    /\ ContextTokens \in Nat /\ SafetyTokens \in Nat /\ InternalMaxTokens \in Nat
    /\ MinimumOutput \in Nat \ {0} /\ MinimumEvidence \in Nat
    /\ MinimumOutput <= InternalMaxTokens

VARIABLES
    turns,      \* the turns
    traces,     \* the lines of the trace file
    shadows,    \* the lines of the shadow file
    pending,    \* shadow calls in flight
    accepted,   \* attempts the Platform reports: the replies it took
    faults, restarts

vars == <<turns, traces, shadows, pending, accepted, faults, restarts>>

-----------------------------------------------------------------------------
\* The budget of a private stage, in tokens.

\* What the context leaves beside the prompt, negative when the prompt is too
\* long.
Room(q) == ContextTokens - PromptTokens(q) - SafetyTokens

\* No room for critic and integrator: a candidate is served.
Direct(q) == Room(q) < MinimumOutput + MinimumEvidence

Lesser(a, b) == IF a < b THEN a ELSE b
Greater(a, b) == IF a < b THEN b ELSE a
Asked(q) == IF MaxTokens(q) = 0 THEN InternalMaxTokens ELSE MaxTokens(q)

\* What a stage may be wished to return.
Desired(q, stage) ==
    IF stage \in {"critic", "critic:recovery"} THEN InternalMaxTokens
    ELSE Greater(MaxTokens(q), InternalMaxTokens)

\* privateStageBudget.
Budget(q, stage) ==
    LET output == Lesser(Desired(q, stage), Room(q) - MinimumEvidence)
    IN  [output |-> output, evidence |-> Room(q) - output]

\* max_tokens of a call: the first call of the integrator keeps the limit the
\* request asked for.
OutputTokens(q, stage) ==
    IF stage = "integrator" THEN Lesser(Asked(q), Budget(q, stage).output)
    ELSE Budget(q, stage).output

-----------------------------------------------------------------------------
\* A turn: `calls` holds what the backend returned, `stages` what the turn has
\* observed of it, `answer` and `input` the response that is served and the
\* compiled input it answers, `reply` what the caller got.

Asking == {"candidates", "critic", "critic:recovery", "integrator",
           "integrator:recovery", "mission:contract-recovery"}
Running == Asking \cup {"trace", "reply"}
Ends == {"served", "failed", "lost"}

Unasked ==
    [at |-> "unasked", request |-> NoAnswer, calls |-> <<>>, stages |-> <<>>,
     answer |-> NoAnswer, input |-> NoAnswer, reply |-> NoAnswer]
Over(asked, how) == [Unasked EXCEPT !.at = how, !.request = asked.request]
Refused(asked) == Over(asked, "failed")

\* The compiled input of a call: the request, the role or stage, and the
\* private answers the prompt quotes.  A critique quotes the candidates, an
\* integration the last critique as well.
Board(asked) == [i \in DOMAIN Roles |-> asked.calls[Roles[i]]]
Critique(asked) ==
    asked.calls[IF "critic:recovery" \in DOMAIN asked.calls THEN "critic:recovery" ELSE "critic"]
Input(asked, stage) ==
    [request |-> asked.request,
     stage |-> stage,
     quotes |-> CASE stage \in CandidateRole -> <<>>
                  [] stage \in {"critic", "critic:recovery"} -> Board(asked)
                  [] stage \in {"integrator", "integrator:recovery"} ->
                        Append(Board(asked), Critique(asked))
                  [] OTHER -> <<asked.answer>>]

Observation(stage, answer) == [stage |-> stage, message |-> answer]
Extend(calls, stage, answer) ==
    [s \in DOMAIN calls \cup {stage} |-> IF s = stage THEN answer ELSE calls[s]]

\* A call after the candidates returned and was observed.
Observed(asked, answer) ==
    [asked EXCEPT !.calls = Extend(@, asked.at, answer),
                  !.stages = Append(@, Observation(asked.at, answer))]

\* The answer of a stage is the one to serve: a Mission needs a plan, and one
\* more call is made for it.
Chosen(asked, stage) ==
    [asked EXCEPT !.answer = asked.calls[stage],
                  !.input = Input(asked, stage),
                  !.at = IF asked.request \in Missions /\ asked.calls[stage] \notin Plans
                         THEN "mission:contract-recovery" ELSE "trace"]

\* completedCandidateResponse: the first complete candidate in the order of the
\* roles, whichever came first.
CompletedCandidate(asked) ==
    LET complete == {i \in DOMAIN Roles : asked.calls[Roles[i]] \in Complete}
    IN  IF complete = {} THEN Refused(asked) ELSE Chosen(asked, Roles[Min(complete)])

\* Every candidate has answered: Promise.all resolves.
Deliberated(asked) ==
    LET seen == [asked EXCEPT
                   !.stages = [i \in DOMAIN Roles |-> Observation(Roles[i], asked.calls[Roles[i]])]]
    IN  IF Direct(asked.request) THEN CompletedCandidate(seen)
        ELSE [seen EXCEPT !.at = "critic"]

\* Slip: a recovery without visible guidance starts the critique anew.
CriticizedForever(asked) ==
    IF asked.calls[asked.at] \in Complete THEN [asked EXCEPT !.at = "integrator"]
    ELSE IF asked.at = "critic" THEN [asked EXCEPT !.at = "critic:recovery"]
    ELSE [asked EXCEPT !.at = "critic", !.calls = [r \in CandidateRole |-> @[r]],
                       !.stages = SubSeq(@, 1, Len(Roles))]

\* After a critique: one recovery, then the turn fails.
Criticized(asked) ==
    IF asked.calls[asked.at] \in Complete THEN [asked EXCEPT !.at = "integrator"]
    ELSE IF asked.at = "critic" THEN [asked EXCEPT !.at = "critic:recovery"]
    ELSE Refused(asked)

\* After an integration: one recovery, then the turn fails.
Integrated(asked) ==
    IF asked.calls[asked.at] \in Complete THEN Chosen(asked, asked.at)
    ELSE IF asked.at = "integrator" THEN [asked EXCEPT !.at = "integrator:recovery"]
    ELSE Refused(asked)

\* Slip: the served answer changes and the input it is accounted under does not.
RecoveredUnattributed(asked) ==
    IF asked.calls[asked.at] \in Plans
    THEN [asked EXCEPT !.answer = asked.calls[asked.at], !.at = "trace"]
    ELSE Refused(asked)

\* After the one call for a well formed plan.
Recovered(asked) ==
    IF asked.calls[asked.at] \in Plans
    THEN [asked EXCEPT !.answer = asked.calls[asked.at],
                       !.input = Input(asked, asked.at),
                       !.at = "trace"]
    ELSE Refused(asked)

-----------------------------------------------------------------------------
\* Files: a line that is cut takes the next one with it.

AddLine(file, line, extent) ==
    CASE extent = "none" -> file
      [] extent = "part" -> IF file.ended THEN [lines |-> Append(file.lines, Torn), ended |-> FALSE]
                            ELSE file
      [] OTHER -> [lines |-> IF file.ended THEN Append(file.lines, line) ELSE file.lines,
                   ended |-> TRUE]
EmptyLog == [lines |-> <<>>, ended |-> TRUE]
Extent == {"none", "part", "whole"}

\* Every line is JSON: parseJsonl reads the file.
Intact(file) == \A i \in DOMAIN file.lines : file.lines[i] # Torn
Of(file, t) == {i \in DOMAIN file.lines : file.lines[i] # Torn /\ file.lines[i].turn = t}

\* The account of a turn: onTrace, and the metadata of the reply taken from it.
TraceOf(t) ==
    [turn |-> t, request |-> turns[t].request, stages |-> turns[t].stages,
     input |-> turns[t].input,
     corrections |-> Cardinality({i \in DOMAIN turns[t].stages :
                                    turns[t].stages[i].stage \in Corrections})]
ReplyOf(t) ==
    [answer |-> turns[t].answer, input |-> TraceOf(t).input,
     corrections |-> TraceOf(t).corrections]

\* A shadow call: the served input again, for another model.  Its record says
\* the same and what that model answered, which is left out.
ShadowOf(t) ==
    [turn |-> t, request |-> turns[t].request, input |-> turns[t].input,
     primary |-> turns[t].answer]

-----------------------------------------------------------------------------
Init ==
    /\ turns = [t \in Turn |-> Unasked]
    /\ traces = EmptyLog /\ shadows = EmptyLog
    /\ pending = {} /\ accepted = {}
    /\ faults = 0 /\ restarts = 0

\* A turn is asked; the candidate calls start.
Ask(t, q) ==
    /\ turns[t].at = "unasked"
    /\ \A s \in Turn : s < t => turns[s].at # "unasked"
    /\ turns' = [turns EXCEPT ![t].at = "candidates", ![t].request = q]
    /\ UNCHANGED <<traces, shadows, pending, accepted, faults, restarts>>

\* One candidate answers, in any order; the last one lets the turn go on.
CandidateAnswers(t, r, a) ==
    /\ turns[t].at = "candidates" /\ r \notin DOMAIN turns[t].calls
    /\ LET asked == [turns[t] EXCEPT !.calls = Extend(@, r, a)]
       IN  turns' = [turns EXCEPT ![t] = IF DOMAIN asked.calls = CandidateRole
                                       THEN Deliberated(asked) ELSE asked]
    /\ UNCHANGED <<traces, shadows, pending, accepted, faults, restarts>>

\* The critic, the integrator or the plan recovery answers.
StageAnswers(t, a) ==
    /\ turns[t].at \in Asking \ {"candidates"}
    /\ LET asked == Observed(turns[t], a)
       IN  turns' = [turns EXCEPT ![t] =
             CASE asked.at \in {"critic", "critic:recovery"} -> Criticized(asked)
               [] asked.at \in {"integrator", "integrator:recovery"} -> Integrated(asked)
               [] OTHER -> Recovered(asked)]
    /\ UNCHANGED <<traces, shadows, pending, accepted, faults, restarts>>

\* A call fails, runs into its timeout or meets the deadline of the turn; one
\* failed candidate fails the turn.
CallFails(t) ==
    /\ turns[t].at \in Asking
    /\ turns' = [turns EXCEPT ![t] = Refused(@)]
    /\ UNCHANGED <<traces, shadows, pending, accepted, faults, restarts>>

Fault(extent) ==
    /\ extent # "whole" => faults < MaxFaults
    /\ faults' = IF extent = "whole" THEN faults ELSE faults + 1

\* Slip: the shadow starts although the trace could not be written.
StartedAnyway(t, extent) == pending \cup {ShadowOf(t)}

\* The shadow starts behind a trace that was written.
Started(t, extent) == IF extent = "whole" THEN pending \cup {ShadowOf(t)} ELSE pending

\* onTrace, and behind it the shadow; a trace that cannot be written fails the
\* turn, whose answer is lost.
WriteTrace(t, extent) ==
    /\ turns[t].at = "trace"
    /\ Fault(extent)
    /\ traces' = AddLine(traces, TraceOf(t), extent)
    /\ pending' = Started(t, extent)
    /\ turns' = [turns EXCEPT ![t] = IF extent = "whole" THEN [@ EXCEPT !.at = "reply"]
                                   ELSE Refused(@)]
    /\ UNCHANGED <<shadows, accepted, restarts>>

\* The reply leaves.  The Platform keeps the attempt of the first reply to a
\* Mission request that reaches it.
Reply(t, reaches) ==
    /\ turns[t].at = "reply"
    /\ turns' = [turns EXCEPT ![t] = [Over(turns[t], "served") EXCEPT !.reply = ReplyOf(t)]]
    /\ accepted' =
         IF /\ reaches /\ turns[t].request \in Missions
            /\ \A a \in accepted : a.request # turns[t].request
         THEN accepted \cup {[turn |-> t, request |-> turns[t].request, input |-> turns[t].input]}
         ELSE accepted
    /\ UNCHANGED <<traces, shadows, pending, faults, restarts>>

\* A shadow call returns or fails, which the record says; a record that cannot
\* be written is dropped.
ShadowEnds(job, extent) ==
    /\ job \in pending
    /\ Fault(extent)
    /\ pending' = pending \ {job}
    /\ shadows' = AddLine(shadows, job, extent)
    /\ UNCHANGED <<turns, traces, accepted, restarts>>

\* The container stops and systemd starts it again: turns and shadow calls in
\* flight are gone.
Restart ==
    /\ restarts < MaxRestarts
    /\ restarts' = restarts + 1
    /\ turns' = [t \in Turn |->
                   IF turns[t].at \in Running THEN Over(turns[t], "lost") ELSE turns[t]]
    /\ pending' = {}
    /\ UNCHANGED <<traces, shadows, accepted, faults>>

Advance(t) ==
    \/ \E r \in CandidateRole : \E a \in Says(r) : CandidateAnswers(t, r, a)
    \/ turns[t].at \in Asking /\ \E a \in Says(turns[t].at) : StageAnswers(t, a)
    \/ CallFails(t)
    \/ \E extent \in Extent : WriteTrace(t, extent)
    \/ \E reaches \in BOOLEAN : Reply(t, reaches)
ShadowAdvance(t) ==
    \E job \in pending : job.turn = t /\ \E extent \in Extent : ShadowEnds(job, extent)

Next ==
    \/ \E t \in Turn : \E q \in Request : Ask(t, q)
    \/ \E t \in Turn : Advance(t)
    \/ \E t \in Turn : ShadowAdvance(t)
    \/ Restart

Spec == Init /\ [][Next]_vars

\* Every call has a timeout, so a turn and a shadow call go on.
FairSpec ==
    Spec /\ \A t \in Turn : WF_vars(Advance(t)) /\ WF_vars(ShadowAdvance(t))

-----------------------------------------------------------------------------
\* What the gateway promises.

TypeOK ==
    /\ \A t \in Turn :
         /\ turns[t].at \in {"unasked"} \cup Running \cup Ends
         /\ turns[t].request \in Request \cup {NoAnswer}
         /\ DOMAIN turns[t].calls \subseteq Stage
         /\ turns[t].stages \in Seq(Observations)
         /\ turns[t].input \in Inputs \cup {NoAnswer}
    /\ accepted \subseteq [turn : Turn, request : Missions, input : Inputs]
    /\ faults \in 0..MaxFaults /\ restarts \in 0..MaxRestarts

\* A private stage whose answer is cut or empty.
Unanswered(seen) == seen.stage \in {"critic", "integrator"} /\ seen.message \notin Complete
RecoveryOf == [critic |-> "critic:recovery", integrator |-> "integrator:recovery"]

\* Candidates in the order of their roles, each later stage once, a correction
\* behind the answer it corrects and only there.
Legal(request, stages) ==
    /\ Len(stages) >= Len(Roles)
    /\ \A i \in DOMAIN Roles : stages[i].stage = Roles[i]
    /\ \A i, j \in DOMAIN stages : stages[i].stage = stages[j].stage => i = j
    /\ \A i \in DOMAIN stages :
         Unanswered(stages[i]) => /\ i < Len(stages)
                                  /\ stages[i + 1].stage = RecoveryOf[stages[i].stage]
    /\ \A i \in DOMAIN stages :
         /\ stages[i].stage = "mission:contract-recovery" =>
                /\ request \in Missions /\ i = Len(stages)
                /\ stages[i - 1].stage \in CandidateRole \/ stages[i - 1].message \notin Plans
         /\ stages[i].stage \in {"critic:recovery", "integrator:recovery"} =>
                Unanswered(stages[i - 1])

\* A private stage never asks for more than the context holds: prompt, quoted
\* evidence, output and safety margin fit, and the output is not starved below
\* the minimum unless the request asks for less.  (privateStageBudget,
\* swarmTurnGateway.js:508-536, with the limits of lines 246-313)
PrivateCallsFit ==
    \A t \in Turn :
      turns[t].at \in {"critic", "critic:recovery", "integrator", "integrator:recovery"} =>
        LET q == turns[t].request
            stage == turns[t].at
            output == OutputTokens(q, stage)
        IN  /\ PromptTokens(q) + Budget(q, stage).evidence + output + SafetyTokens
                 <= ContextTokens
            /\ Budget(q, stage).evidence >= MinimumEvidence
            /\ output >= Lesser(MinimumOutput, Asked(q))

\* A served answer is accounted for: its turn has one trace, which lists every
\* call in order with its correction, and both the trace and the reply name the
\* input of the very call whose answer is served, recovery or fallback included.
\* A Mission gets a plan and a chat a complete answer.  (finish and
\* mergedCompletion, swarmTurnGateway.js:182-234 and 567-595; a trace glued to a
\* torn line is the exception.)  And private calls fit.
ServedIsAccounted ==
    /\ TypeOK /\ PrivateCallsFit
    /\ \A t \in Turn : turns[t].at = "served" =>
         LET reply == turns[t].reply
             answered == IF turns[t].request \in Missions THEN Plans ELSE Complete
         IN  /\ reply.answer \in answered
             /\ Intact(traces) =>
                  \E i \in DOMAIN traces.lines :
                    LET trace == traces.lines[i]
                        served == Observation(trace.input.stage, reply.answer)
                    IN  /\ Of(traces, t) = {i}
                        /\ trace.input = reply.input
                        /\ trace.corrections = reply.corrections
                        /\ Legal(trace.request, trace.stages)
                        /\ IF trace.input.stage \in CandidateRole
                           THEN served \in ToSet(trace.stages)
                           ELSE served = Last(trace.stages)
                        /\ trace.corrections = 0 <=>
                             trace.input.stage \notin Corrections
                               /\ \A j \in DOMAIN trace.stages :
                                    trace.stages[j].stage # "critic:recovery"

\* The row that joinShadowWithEpisodes makes of a shadow record, if it makes
\* one: the first record of a Mission request.
IsRow(i) ==
    /\ shadows.lines[i].request \in Missions
    /\ \A j \in 1..(i - 1) : shadows.lines[j].request # shadows.lines[i].request
\* The reported attempts it may be about; exactly one makes it attributed.
Matches(i) ==
    {a \in accepted : /\ a.request = shadows.lines[i].request
                      /\ a.input = shadows.lines[i].input}
Attributed(i) == IsRow(i) /\ Cardinality(Matches(i)) = 1

\* A shadow record is about a turn that was traced and compares with the answer
\* that was served, on the same compiled input; there is at most one per turn.
\* The join attributes the record of a reported attempt to that attempt, unless
\* another turn of the same request left a record as well.  (#shadow,
\* swarmTurnGateway.js:118-174; shadowDiagnostics.js:68-110)
ShadowIsOfTheServed ==
    /\ \A job \in pending : turns[job.turn].at \in {"reply", "served"}
    /\ \A i \in DOMAIN shadows.lines : shadows.lines[i] # Torn =>
         LET record == shadows.lines[i]
         IN  /\ Of(shadows, record.turn) = {i}
             /\ Intact(traces) =>
                  \E j \in Of(traces, record.turn) : traces.lines[j].input = record.input
             /\ turns[record.turn].at = "served" =>
                  /\ record.primary = turns[record.turn].reply.answer
                  /\ record.input = turns[record.turn].reply.input
    /\ Intact(shadows) =>
         \A a \in accepted : \A i \in Of(shadows, a.turn) :
           (\A j \in DOMAIN shadows.lines : shadows.lines[j].request = a.request => j = i)
             => Attributed(i) /\ Matches(i) = {a}

\* Every turn that was asked is answered or dies with the process, and every
\* shadow call comes to an end: no recovery repeats itself and nothing waits for
\* the shadow.  (complete, swarmTurnGateway.js:176-332; #callBackend, 340-375)
TurnsEnd ==
    []<>(/\ \A t \in Turn : turns[t].at \in {"unasked"} \cup Ends
         /\ pending = {})
=============================================================================
