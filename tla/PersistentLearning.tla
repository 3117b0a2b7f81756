------------------------- MODULE PersistentLearning -------------------------
(***************************************************************************)
(* The persistent learning controller: the tick of                         *)
(* scripts/runPersistentLearningController.ts over its journal             *)
(* (src/eventStore.ts), the planning and reflection of                     *)
(* src/persistentLearningController.ts, and the dispatch of one selected   *)
(* piece of development work (swarm/src/persistentLearning*.js).           *)
(* The controller holds the directory lock (module ControllerLock), so     *)
(* there is one.  Every append to the journal is a step of its own: the    *)
(* process may die before or after it; it may throw with nothing, all or   *)
(* part of its line on disk; and it may return with part of it there,      *)
(* since FileEventStore.append ignores how much was written.  The tick     *)
(* then goes on with a store that holds more than the file.                *)
(***************************************************************************)
EXTENDS Naturals, FiniteSets

CONSTANTS
    LearningObservation,    \* payloads an operator may import
    Identity,       \* their ids
    IdOf, Rank,     \* id and position by observation time, per observation
    Failing,        \* observations with passed < total
    Batches,        \* contents the observation file may have
    WorkInput,          \* valid contents of the development input file
    BadInput,       \* the file is missing or invalid
    Modes,          \* SUBSET BOOLEAN: may --development-work be given?
    Reconciles,     \* BOOLEAN: the dispatch has a reconcile hook
    MaxCrashes, MaxJournalFaults,  \* bounds
    Nobody, NoSelection

Selection == [of : LearningObservation, input : WorkInput]

ASSUME LearningAssumption ==
    /\ IdOf \in [LearningObservation -> Identity]
    /\ Rank \in [LearningObservation -> Nat]
    /\ \A o, p \in LearningObservation : Rank[o] = Rank[p] => o = p
    /\ Failing \subseteq LearningObservation
    /\ Batches \subseteq SUBSET LearningObservation
    /\ BadInput \notin WorkInput
    /\ Modes \subseteq BOOLEAN
    /\ Reconciles \in BOOLEAN
    /\ MaxCrashes \in Nat /\ MaxJournalFaults \in Nat
    /\ Nobody \notin LearningObservation
    /\ NoSelection \notin Selection

VARIABLES
    journal,    \* what the lines of events.jsonl say, or said when last readable
    tail,       \* how its last line ends, or why it cannot be read any more
    observations, input,    \* the operator's two files
    mind,       \* the process: next step, its store, batch, action, target
    work,       \* outside: the work selected, its executions, one returned
    journalFaults, crashes

controllerVars ==
    <<journal, tail, observations, input, mind, work, journalFaults, crashes>>

DispatchState == {"submitted", "running", "reconciling", "unresolved", "completed"}
Journal ==
    [observed : SUBSET LearningObservation, reflected : SUBSET LearningObservation,
     selection : Selection \cup {NoSelection}, record : DispatchState \cup {"none"}]
EmptyJournal ==
    [observed |-> {}, reflected |-> {}, selection |-> NoSelection, record |-> "none"]
Step ==
    {"down", "waiting", "ingest", "bind", "reflect", "resume", "dispatch", "ask",
     "unresolve", "start", "execute", "executing", "adopt", "snapshot"}
Mind ==
    [at : Step, store : Journal, batch : SUBSET LearningObservation, first : BOOLEAN,
     develops : BOOLEAN, action : LearningObservation \cup {Nobody}, target : Step]
Off ==
    [at |-> "down", store |-> EmptyJournal, batch |-> {}, first |-> FALSE,
     develops |-> FALSE, action |-> Nobody, target |-> "down"]

-----------------------------------------------------------------------------
\* Slip: the batch is checked against itself only.
AcceptableAlone(batch, observed) ==
    \A o, p \in batch : IdOf[o] = IdOf[p] => o = p

\* ingestObservation accepts every observation of the batch: one id, one payload.
Acceptable(batch, observed) ==
    \A o \in batch, p \in batch \cup observed : IdOf[o] = IdOf[p] => o = p

\* planNext: the earliest failed observation without a reflection.
Unreflected(store) == (store.observed \cap Failing) \ store.reflected
Planned(store) ==
    IF Unreflected(store) = {} THEN {Nobody}
    ELSE {o \in Unreflected(store) : \A p \in Unreflected(store) : Rank[o] <= Rank[p]}

ControllerInit ==
    /\ journal = EmptyJournal /\ tail = "whole"
    /\ observations \in Batches /\ input \in WorkInput \cup {BadInput}
    /\ mind = Off
    /\ work = [selected |-> NoSelection, runs |-> 0, returned |-> FALSE]
    /\ journalFaults = 0 /\ crashes = 0

At(step) == mind.at = step
Go(step) == mind' = [mind EXCEPT !.at = step]

\* A reader gets what was written: a last line without its newline parses.
Readable == tail \in {"whole", "unended"}

\* How much of its line a write puts on disk: nothing, a part, all but the
\* newline, all of it.
LineExtent == {"none", "part", "unended", "whole"}

\* The line reaches the file.  It glues to a line that has no newline, and it
\* does not continue the chain of a process that holds other events.
Lands(entry, extent) ==
    IF extent = "none" THEN UNCHANGED <<journal, tail>>
    ELSE IF extent = "part" \/ tail # "whole" THEN tail' = "torn" /\ UNCHANGED journal
    ELSE IF mind.store # journal THEN tail' = "forked" /\ UNCHANGED journal
    ELSE journal' = entry /\ tail' = extent

\* FileEventStore.append of one event, and where the tick goes on: the call
\* returns, its line whole or cut short, or it throws.
AppendEvent(entry, step, onThrow) ==
    \/ /\ \/ Lands(entry, "whole") /\ UNCHANGED journalFaults
          \/ /\ journalFaults < MaxJournalFaults /\ journalFaults' = journalFaults + 1
             /\ \E extent \in {"part", "unended"} : Lands(entry, extent)
       /\ mind' = [mind EXCEPT !.store = entry, !.at = step]
    \/ /\ journalFaults < MaxJournalFaults /\ journalFaults' = journalFaults + 1
       /\ \E extent \in LineExtent : Lands(entry, extent)
       /\ Go(onThrow)

Record(state, step) == AppendEvent([mind.store EXCEPT !.record = state], step, "snapshot")
World == <<observations, input, work, crashes>>
Quiet == <<journal, tail, journalFaults>>

-----------------------------------------------------------------------------
\* The process starts: both preflights must pass.  The first tick works on
\* the batch read here.
StartController ==
    /\ At("down")
    /\ Readable /\ Acceptable(observations, journal.observed)
    /\ \E develops \in Modes :
          mind' = [Off EXCEPT !.at = "waiting", !.batch = observations, !.first = TRUE,
                               !.develops = develops]
    /\ UNCHANGED <<Quiet, World>>

\* A tick reopens the journal and checks the whole batch against it first.
Tick ==
    /\ At("waiting")
    /\ LET batch == IF mind.first THEN mind.batch ELSE observations
           fit == Readable /\ Acceptable(batch, journal.observed)
       IN mind' = [mind EXCEPT !.first = FALSE, !.action = Nobody,
                      !.batch = batch,
                      !.store = IF fit THEN journal ELSE @,
                      !.at = IF fit THEN "ingest" ELSE "waiting"]
    /\ UNCHANGED <<Quiet, World>>

Ingest(o) ==
    /\ At("ingest")
    /\ o \in mind.batch \ mind.store.observed
    /\ AppendEvent([mind.store EXCEPT !.observed = @ \cup {o}], "ingest", "waiting")
    /\ UNCHANGED World

\* Slip: the reflection is consumed first, the selection bound after it.
PlanReflectingFirst ==
    /\ At("ingest") /\ mind.batch \subseteq mind.store.observed
    /\ \E action \in Planned(mind.store) :
       LET rest == IF ~mind.develops THEN "snapshot"
                   ELSE IF mind.store.selection # NoSelection THEN "resume"
                   ELSE IF action \in mind.batch THEN "bind" ELSE "snapshot"
       IN mind' = [mind EXCEPT !.action = action, !.target = rest,
                      !.at = IF action = Nobody THEN rest ELSE "reflect"]
    /\ UNCHANGED <<Quiet, World>>

\* Slip: without a new action the tick is over.
PlanForgettingSelection ==
    /\ At("ingest") /\ mind.batch \subseteq mind.store.observed
    /\ \E action \in Planned(mind.store) :
       LET rest == IF mind.develops /\ mind.store.selection # NoSelection
                   THEN "resume" ELSE "snapshot"
           binds == mind.develops /\ rest = "snapshot" /\ action \in mind.batch
       IN mind' = [mind EXCEPT !.action = action, !.target = rest,
                      !.at = IF action = Nobody THEN "snapshot"
                             ELSE IF binds THEN "bind" ELSE "reflect"]
    /\ UNCHANGED <<Quiet, World>>

\* Everything is imported: planNext, and what developmentTick makes of it.
Plan ==
    /\ At("ingest") /\ mind.batch \subseteq mind.store.observed
    /\ \E action \in Planned(mind.store) :
       LET rest == IF mind.develops /\ mind.store.selection # NoSelection
                   THEN "resume" ELSE "snapshot"
           binds == mind.develops /\ rest = "snapshot" /\ action \in mind.batch
       IN mind' = [mind EXCEPT !.action = action, !.target = rest,
                      !.at = IF action = Nobody THEN rest
                             ELSE IF binds THEN "bind" ELSE "reflect"]
    /\ UNCHANGED <<Quiet, World>>

\* The selection is appended before the reflection is consumed; an invalid
\* input consumes nothing.  It counts as selected once the process or a reader
\* of the file has it.
Bind ==
    /\ At("bind")
    /\ \/ input = BadInput /\ Go("snapshot") /\ UNCHANGED <<Quiet, work>>
       \/ LET selection == [of |-> mind.action, input |-> input]
              entry == [mind.store EXCEPT !.selection = selection]
          IN  /\ input # BadInput
              /\ AppendEvent(entry, "reflect", "waiting")
              /\ work' = [work EXCEPT !.selected =
                             IF entry \in {mind'.store, journal'} THEN selection ELSE @]
    /\ UNCHANGED <<observations, input, crashes>>

\* A selection bound in this tick is dispatched without reading the input again.
Reflect ==
    /\ At("reflect")
    /\ LET bound == mind.store.selection # NoSelection /\ mind.target = "snapshot"
                        /\ mind.develops
       IN AppendEvent([mind.store EXCEPT !.reflected = @ \cup {mind.action}],
                 IF bound THEN "dispatch" ELSE mind.target, "waiting")
    /\ UNCHANGED World

\* The selection was bound to what the input file says now.
OverInput(selection) == selection \in [of : LearningObservation, input : {input}]

\* A later tick dispatches only over the input the selection was bound to.
Resume ==
    /\ At("resume")
    /\ Go(IF OverInput(mind.store.selection) THEN "dispatch" ELSE "snapshot")
    /\ UNCHANGED <<Quiet, World>>

-----------------------------------------------------------------------------
\* dispatchInner, over the record of the selected action.
Submit ==
    /\ At("dispatch") /\ mind.store.record = "none"
    /\ Record("submitted", "start")
    /\ UNCHANGED World

Reuse ==
    /\ At("dispatch") /\ mind.store.record = "completed"
    /\ Go("snapshot")
    /\ UNCHANGED <<Quiet, World>>

Reconcile ==
    /\ At("dispatch") /\ mind.store.record \notin {"none", "completed"}
    /\ Record("reconciling", "ask")
    /\ UNCHANGED World

\* What a truthful reconcile hook can answer; without a hook, "unknown".
Answers ==
    {"unknown"} \cup
    IF ~Reconciles THEN {}
    ELSE IF work.runs = 0 THEN {"not-started"}
    ELSE IF work.returned THEN {"completed"} ELSE {"running"}

\* Slip: a job nobody knows anything about is started again.
AskReconcileTrustingSilence ==
    /\ At("ask")
    /\ \E answer \in Answers :
          Go(IF answer = "completed" THEN "adopt"
             ELSE IF answer \in {"not-started", "unknown"} THEN "start" ELSE "unresolve")
    /\ UNCHANGED <<Quiet, World>>

AskReconcile ==
    /\ At("ask")
    /\ \E answer \in Answers :
          Go(IF answer = "completed" THEN "adopt"
             ELSE IF answer = "not-started" THEN "start" ELSE "unresolve")
    /\ UNCHANGED <<Quiet, World>>

Unresolve ==
    /\ At("unresolve")
    /\ Record("unresolved", "snapshot")
    /\ UNCHANGED World

StartWork ==
    /\ At("start")
    /\ Record("running", "execute")
    /\ UNCHANGED World

Execute ==
    /\ At("execute")
    /\ work' = [work EXCEPT !.runs = @ + 1]
    /\ Go("executing")
    /\ UNCHANGED <<Quiet, observations, input, crashes>>

\* The executor returns a receipt, or throws.
ExecutorEnds ==
    /\ At("executing")
    /\ \/ work' = [work EXCEPT !.returned = TRUE] /\ Go("adopt")
       \/ UNCHANGED work /\ Go("snapshot")
    /\ UNCHANGED <<Quiet, observations, input, crashes>>

Adopt ==
    /\ At("adopt")
    /\ Record("completed", "snapshot")
    /\ UNCHANGED World

\* snapshot.json is derived from the store and never read back.
Snapshot ==
    /\ At("snapshot")
    /\ Go("waiting")
    /\ UNCHANGED <<Quiet, World>>

-----------------------------------------------------------------------------
\* SIGTERM or --once: the process ends between two ticks.
StopController ==
    /\ At("waiting")
    /\ mind' = Off
    /\ UNCHANGED <<Quiet, World>>

Crash ==
    /\ ~At("down")
    /\ crashes < MaxCrashes /\ crashes' = crashes + 1
    /\ mind' = Off
    /\ UNCHANGED <<Quiet, observations, input, work>>

\* The operator rewrites a file, at any time.
Edit ==
    /\ \/ observations' \in Batches /\ UNCHANGED input
       \/ input' \in WorkInput \cup {BadInput} /\ UNCHANGED observations
    /\ UNCHANGED <<Quiet, mind, work, crashes>>

TickAdvances ==
    \/ Tick \/ (\E o \in LearningObservation : Ingest(o)) \/ Plan \/ Bind \/ Reflect \/ Resume
    \/ Submit \/ Reuse \/ Reconcile \/ AskReconcile \/ Unresolve \/ StartWork \/ Execute
    \/ ExecutorEnds \/ Adopt \/ Snapshot

ControllerNext == StartController \/ TickAdvances \/ StopController \/ Crash \/ Edit

ControllerSpec == ControllerInit /\ [][ControllerNext]_controllerVars

\* The event loop runs the tick, and starts the next one when the timer fires.
FairControllerSpec == ControllerSpec /\ WF_controllerVars(TickAdvances)

-----------------------------------------------------------------------------
ControllerTypeOK ==
    /\ journal \in Journal
    /\ tail \in {"whole", "unended", "torn", "forked"}
    /\ observations \subseteq LearningObservation /\ input \in WorkInput \cup {BadInput}
    /\ mind \in Mind
    /\ work \in [selected : Selection \cup {NoSelection}, runs : Nat, returned : BOOLEAN]
    /\ journalFaults \in Nat /\ crashes \in Nat

\* Whatever an append does, the controller never adds a whole line of other
\* events to a journal that reads: only a line that was cut short, and what is
\* glued to it, makes the journal unreadable.
ChainNeverForks == tail # "forked"

\* The selection is in the journal before its work is executed, as long as the
\* journal reads: a selection whose line falls short is executed all the same.
DispatchIsBound == work.runs > 0 /\ Readable => journal.selection = work.selected

\* The journal is well formed and replays: a replay of the lines never throws.
\* Ids are unique, every reflection and selection follows its failed
\* observation, and no append that threw or fell short makes a later one break
\* the chain; and work that was executed has its selection there.
\* (#replay, src/persistentLearningController.ts; the reopened store and the
\* bound selection, scripts/runPersistentLearningController.ts:237-239, :198-203)
JournalReplays ==
    /\ ControllerTypeOK
    /\ ChainNeverForks
    /\ Acceptable(journal.observed, journal.observed)
    /\ journal.reflected \subseteq journal.observed \cap Failing
    /\ journal.selection # NoSelection => journal.selection.of \in journal.observed
    /\ journal.record # "none" => journal.selection # NoSelection
    /\ DispatchIsBound

\* With development work on, the reflection of an observation the operator
\* supplies is not consumed before a selection is durable.  (developmentTick)
NothingConsumedUnbound ==
    [][\A o \in mind.batch \cap (journal'.reflected \ journal.reflected) :
          mind.develops => journal.selection # NoSelection]_controllerVars

\* The service and the executor keep the promise of WorkOnce: one selection,
\* executed at most once over all ticks, crashes and failed appends, and a
\* receipt only for work that ran.
Promise == INSTANCE WorkOnce WITH
    selected <- work.selected,
    runs <- work.runs,
    receipted <- journal.record = "completed"

WorkIsDoneOnce == Promise!Spec

Halted == At("down") \/ ~Readable \/ ~Acceptable(observations, journal.observed)

\* What a tick owes: reflections on failed observations, unless an invalid input
\* file holds them up, and the dispatch of a selection whose input is unchanged.
OwesReflection == Unreflected(journal) # {} /\ ~(mind.develops /\ input = BadInput)
OwesDispatch ==
    /\ journal.selection # NoSelection /\ journal.record = "none"
    /\ mind.develops /\ OverInput(journal.selection)

\* Whatever happened between an observation, its selection and the dispatch, the
\* ticks after a restart take it up again: unless the service is stopped, its
\* journal cannot be read, or the observations are unusable, failures are in the
\* end reflected on and a selection is dispatched.
\* (runPersistentLearningController.ts:180-262)
DebtsArePaid == []<>(Halted \/ (~OwesReflection /\ ~OwesDispatch))
=============================================================================
