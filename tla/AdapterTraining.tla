-------------------------- MODULE AdapterTraining --------------------------
(***************************************************************************)
(* The runner of swarm/scripts/runAdapterConsolidation.js with the plan    *)
(* and ledger of swarm/src/adapterConsolidation.js.  A runner takes the    *)
(* first job its ledger does not call finished, starts the trainer         *)
(* machine, sends it a command, waits for the machine to stop and records  *)
(* what it finds in S3.  Nothing keeps two runners of one run id apart, a  *)
(* runner may die anywhere, and may be told not to wait.                   *)
(* The command removes the container that runs; the shell that waited for  *)
(* that container then turns the machine off, under the new container.     *)
(* Modelled is the driver "ssm".                                           *)
(***************************************************************************)
EXTENDS Naturals, Sequences, SequencesExt

CONSTANTS
    Jobs,           \* the jobs of the plan, in their order
    Runner,         \* invocations of the script with one run id
    MaxMishaps,     \* AWS calls that fail, or do not what they say (bound)
    NoJob

Job == ToSet(Jobs)

ASSUME TrainingAssumption == NoJob \notin Job /\ MaxMishaps \in Nat

VARIABLES
    runners,        \* per runner: next step, job, whether it waits, what it found
    machine,        \* the trainer: up or not, the job in the container, a shutdown due
    results,        \* jobs with a stage0-result.json in S3
    jobLedger,      \* consolidation-ledger.jsonl: its entries, and whether a line is torn
    trained,        \* per job, how many containers were started for it
    crashed,        \* jobs whose trainer failed by itself
    cut,            \* jobs whose container was removed or lost its machine
    disturbed,      \* a runner began while another, or the machine, was running
    mishaps

trainingVars ==
    <<runners, machine, results, jobLedger, trained, crashed, cut, disturbed, mishaps>>

Calling == {"choose", "look", "boot", "send", "submit", "watch", "judge", "record"}
Active(w) == runners[w].at \in Calling
Off == [up |-> FALSE, job |-> NoJob, closing |-> FALSE]

TrainingInit ==
    /\ runners = [w \in Runner |-> [at |-> "new", job |-> NoJob, waits |-> TRUE, found |-> "none"]]
    /\ machine = Off
    /\ results = {}
    /\ jobLedger = [entries |-> {}, torn |-> FALSE]
    /\ trained = [j \in Job |-> 0]
    /\ crashed = {} /\ cut = {}
    /\ disturbed = FALSE
    /\ mishaps = 0

Moved(w, step) == [runners EXCEPT ![w].at = step]
Does(w, from, to) == runners[w].at = from /\ runners' = Moved(w, to)
Mishap == mishaps < MaxMishaps /\ mishaps' = mishaps + 1

-----------------------------------------------------------------------------
\* The runner.
BeginRun(w, waits) ==
    /\ runners[w].at = "new"
    /\ runners' = [runners EXCEPT ![w].at = "choose", ![w].waits = waits]
    /\ disturbed' = (disturbed \/ machine.up \/ \E v \in Runner : Active(v))
    /\ UNCHANGED <<machine, results, jobLedger, trained, crashed, cut, mishaps>>

\* Slip: what was handed to the trainer counts as finished.
OverOrSent == {j \in Job : \E s \in {"submitted", "completed", "failed"} :
                                   <<j, s>> \in jobLedger.entries}

Over == {j \in Job : \E s \in {"completed", "failed"} : <<j, s>> \in jobLedger.entries}

\* readLedger, which throws at a torn line, and nextConsolidationJob.
Choose(w) ==
    /\ runners[w].at = "choose"
    /\ LET open == {i \in DOMAIN Jobs : Jobs[i] \notin Over}
       IN  \/ jobLedger.torn /\ runners' = Moved(w, "threw")
           \/ ~jobLedger.torn /\ open = {} /\ runners' = Moved(w, "done")
           \/ /\ ~jobLedger.torn
              /\ \E first \in open :
                    /\ \A i \in open : first <= i
                    /\ runners' = [runners EXCEPT ![w].at = "look", ![w].job = Jobs[first]]
    /\ UNCHANGED <<machine, results, jobLedger, trained, crashed, cut, disturbed, mishaps>>

\* Slip: nothing is looked up before a job is trained.
NothingSeen(w) == FALSE

\* resultAlreadyInS3
Seen(w) == runners[w].job \in results

\* A listing that fails says that there is no result.
Look(w) ==
    /\ \/ Does(w, "look", IF Seen(w) THEN "judge" ELSE "boot") /\ UNCHANGED mishaps
       \/ Does(w, "look", "boot") /\ Mishap
    /\ UNCHANGED <<machine, results, jobLedger, trained, crashed, cut, disturbed>>

\* startInstanceWithRetry and waitForSsmOnline: a machine that runs stays up.
Boot(w) ==
    /\ Does(w, "boot", "send")
    /\ machine' = [machine EXCEPT !.up = TRUE]
    /\ UNCHANGED <<results, jobLedger, trained, crashed, cut, disturbed, mishaps>>

\* sendTrainerCommand: throws when the machine is off again; the script takes
\* the container that runs away and starts its own, or fails unnoticed before.
Send(w) ==
    /\ \/ /\ machine.up
          /\ Does(w, "send", "submit")
          /\ machine' = [up |-> TRUE, job |-> runners[w].job,
                         closing |-> machine.closing \/ machine.job # NoJob]
          /\ cut' = cut \cup ({machine.job} \ {NoJob})
          /\ trained' = [trained EXCEPT ![runners[w].job] = @ + 1]
          /\ UNCHANGED mishaps
       \/ /\ machine.up
          /\ Does(w, "send", "submit") /\ Mishap
          /\ UNCHANGED <<machine, cut, trained>>
       \/ /\ ~machine.up
          /\ Does(w, "send", "threw")
          /\ UNCHANGED <<machine, cut, trained, mishaps>>
    /\ UNCHANGED <<results, jobLedger, crashed, disturbed>>

Entered(w, status) ==
    jobLedger' = [jobLedger EXCEPT !.entries = @ \cup {<<runners[w].job, status>>}]

Submit(w) ==
    /\ Does(w, "submit", IF runners[w].waits THEN "watch" ELSE "done")
    /\ Entered(w, "submitted")
    /\ UNCHANGED <<machine, results, trained, crashed, cut, disturbed, mishaps>>

\* waitForStop has no deadline.
Watch(w) ==
    /\ ~machine.up
    /\ Does(w, "watch", "judge")
    /\ UNCHANGED <<machine, results, jobLedger, trained, crashed, cut, disturbed, mishaps>>

\* Slip: a job whose machine has stopped counts as built.
FoundByStop(w) == IF trained[runners[w].job] > 0 THEN "completed" ELSE "failed"

\* What the synced result says.
Found(w) == IF runners[w].job \in results THEN "completed" ELSE "failed"

\* finalizeJob: whatever throws on the way makes the job a failed one.
JudgeJob(w) ==
    /\ runners[w].at = "judge"
    /\ \/ runners' = [runners EXCEPT ![w].at = "record", ![w].found = Found(w)]
          /\ UNCHANGED mishaps
       \/ runners' = [runners EXCEPT ![w].at = "record", ![w].found = "failed"] /\ Mishap
    /\ UNCHANGED <<machine, results, jobLedger, trained, crashed, cut, disturbed>>

Record(w) ==
    /\ Does(w, "record", "choose")
    /\ Entered(w, runners[w].found)
    /\ UNCHANGED <<machine, results, trained, crashed, cut, disturbed, mishaps>>

\* An AWS call that throws ends the run.
CallThrows(w) ==
    /\ runners[w].at \in {"boot", "send", "watch"}
    /\ Does(w, runners[w].at, "threw") /\ Mishap
    /\ UNCHANGED <<machine, results, jobLedger, trained, crashed, cut, disturbed>>

\* A death in the middle of an append leaves a torn line.
RunnerDies(w) ==
    /\ Active(w)
    /\ runners' = Moved(w, "dead")
    /\ \/ UNCHANGED jobLedger
       \/ runners[w].at \in {"submit", "record"} /\ jobLedger' = [jobLedger EXCEPT !.torn = TRUE]
    /\ UNCHANGED <<machine, results, trained, crashed, cut, disturbed, mishaps>>

-----------------------------------------------------------------------------
\* The machine (train_stage0.py and the shell that runs the container).
TrainerEnds(built) ==
    /\ machine.job # NoJob
    /\ machine' = [machine EXCEPT !.job = NoJob, !.closing = TRUE]
    /\ IF built
       THEN results' = results \cup {machine.job} /\ UNCHANGED crashed
       ELSE crashed' = crashed \cup {machine.job} /\ UNCHANGED results
    /\ UNCHANGED <<runners, jobLedger, trained, cut, disturbed, mishaps>>

PowerOff ==
    /\ machine.closing
    /\ machine' = Off
    /\ cut' = cut \cup ({machine.job} \ {NoJob})
    /\ UNCHANGED <<runners, results, jobLedger, trained, crashed, disturbed, mishaps>>

Proceed(w) ==
    \/ Choose(w) \/ Look(w) \/ Boot(w) \/ Send(w) \/ Submit(w) \/ Watch(w)
    \/ JudgeJob(w) \/ Record(w)

TrainingNext ==
    \/ \E w \in Runner : \/ \E waits \in BOOLEAN : BeginRun(w, waits)
                         \/ Proceed(w) \/ CallThrows(w) \/ RunnerDies(w)
    \/ \E built \in BOOLEAN : TrainerEnds(built)
    \/ PowerOff

TrainingSpec == TrainingInit /\ [][TrainingNext]_trainingVars

\* A runner that lives goes on, a container ends, a shutdown takes effect.
TrainingFairness ==
    /\ \A w \in Runner : WF_trainingVars(Proceed(w))
    /\ WF_trainingVars(\E built \in BOOLEAN : TrainerEnds(built))
    /\ WF_trainingVars(PowerOff)

-----------------------------------------------------------------------------
TrainingTypeOK ==
    /\ runners \in [Runner ->
          [at : Calling \cup {"new", "done", "threw", "dead"}, job : Job \cup {NoJob},
           waits : BOOLEAN, found : {"none", "completed", "failed"}]]
    /\ machine \in [up : BOOLEAN, job : Job \cup {NoJob}, closing : BOOLEAN]
    /\ results \cup crashed \cup cut \subseteq Job
    /\ jobLedger \in [entries : SUBSET (Job \X {"submitted", "completed", "failed"}),
                      torn : BOOLEAN]
    /\ trained \in [Job -> Nat]
    /\ disturbed \in BOOLEAN
    /\ mishaps \in 0 .. MaxMishaps

\* The ledger calls a job completed only with its result in S3, and failed only
\* after its training failed or was cut off, or an AWS call did not do its work;
\* and a training is cut off only when a runner began beside another or beside a
\* running machine.  (runAdapterConsolidation.js:109-136, 165-200, 259-277)
LedgerIsHonest ==
    /\ TrainingTypeOK
    /\ \A j \in Job :
          /\ <<j, "completed">> \in jobLedger.entries => j \in results
          /\ <<j, "failed">> \in jobLedger.entries => j \in crashed \cup cut \/ mishaps > 0
    /\ cut # {} => disturbed

\* A job is not trained twice: no container is started for a job whose result is
\* in S3.  (runAdapterConsolidation.js:111-117)
NotTrainedTwice ==
    [][\A j \in results : trained'[j] = trained[j]]_trainingVars

\* It is not trained twice by runs that follow each other, each begun with the
\* machine off, whichever of them died, as long as S3 can be listed.
\* (runAdapterConsolidation.js:108-136, 250-257)
NotTrainedTwiceInTurn ==
    [][\A j \in results : trained'[j] = trained[j] \/ disturbed \/ mishaps > 0]_trainingVars

\* The machine runs, and nobody is left who would use it or turn it off.
Stranded ==
    /\ machine.up /\ machine.job = NoJob /\ ~machine.closing
    /\ \A w \in Runner : runners[w].at # "send"

Settled(j) == {<<j, "completed">>, <<j, "failed">>} \cap jobLedger.entries # {}

\* In the end no run that waits is still going on, and one that has come to its
\* end has seen every job of the plan settled; unless it was ended by a death or
\* a call that throws, or waits for a machine that nobody is left to turn off.
\* (runAdapterConsolidation.js:108-136, 279-286)
JobsSettle ==
    <>[](\/ Stranded
         \/ \A w \in Runner : runners[w].waits =>
                \/ runners[w].at \in {"new", "dead", "threw"}
                \/ runners[w].at = "done" /\ \A j \in Job : Settled(j))
=============================================================================
