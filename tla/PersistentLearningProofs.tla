---------------------- MODULE PersistentLearningProofs ----------------------
(***************************************************************************)
(* TLAPS proofs about the persistent learning controller, for any          *)
(* observations, operator files and crashes, and appends that fail or fall *)
(* short: the journal always replays and never forks, no reflection is     *)
(* consumed before its selection is durable, and selected work is executed *)
(* at most once.                                                           *)
(***************************************************************************)
EXTENDS PersistentLearning, TLAPS

\* The steps of a tick at which it goes by its store.
Reading == Step \ {"down", "waiting", "snapshot"}
\* The steps inside a dispatch.
Dispatching == {"ask", "unresolve", "start", "execute", "executing", "adopt"}

\* What JournalReplays says of a journal j, and what its record says of the
\* work: no record and "submitted" mean it has not run, "completed" that it has.
Replays(j) ==
    /\ Acceptable(j.observed, j.observed)
    /\ j.reflected \subseteq j.observed \cap Failing
    /\ j.selection # NoSelection => j.selection.of \in j.observed
    /\ j.record # "none" => j.selection # NoSelection
Truthful(j) ==
    /\ j.record \in {"none", "submitted"} => work.runs = 0
    /\ j.record = "completed" => work.runs = 1

RanOnce == work.runs \in {0, 1} /\ (work.returned => work.runs = 1)

\* A journal that reads is up to date.  One that is torn stays as it was, and
\* may lack the selection; but it says nothing that is false.
JournalFits ==
    /\ Replays(journal)
    /\ journal.record = "completed" => work.runs = 1
    /\ Readable => Truthful(journal) /\ journal.selection = work.selected
    /\ tail = "torn" => journal.selection \in {NoSelection, work.selected}

\* The store of a tick is up to date, and it is what the file says, unless a
\* line fell short.
StoreFits ==
    mind.at \in Reading =>
        /\ (Readable /\ mind.store = journal) \/ tail = "torn"
        /\ Replays(mind.store) /\ Truthful(mind.store)
        /\ mind.store.selection = work.selected

\* What the steps of a tick have established.
BatchFits == mind.at = "ingest" => Acceptable(mind.batch, mind.store.observed)
ActionIsPending ==
    mind.at \in {"bind", "reflect"} => mind.action \in Unreflected(mind.store)
SelectionIsMade ==
    /\ mind.at = "bind" => mind.store.selection = NoSelection /\ mind.target = "snapshot"
    /\ mind.at = "reflect" =>
          /\ mind.target \in {"resume", "snapshot"}
          /\ mind.target = "resume" => mind.store.selection # NoSelection
          /\ (mind.develops /\ mind.action \in mind.batch) =>
                mind.store.selection # NoSelection
    /\ mind.at \in Dispatching \cup {"resume", "dispatch"} =>
          mind.store.selection # NoSelection
WorkIsKnown ==
    /\ mind.at \in Dispatching => mind.store.record # "completed"
    /\ mind.at \in {"ask", "unresolve"} => mind.store.record = "reconciling"
    /\ mind.at \in {"start", "execute"} => work.runs = 0
    /\ mind.at \in {"execute", "executing"} => mind.store.record = "running"
    /\ mind.at \in {"executing", "adopt"} => work.runs = 1

Tracked ==
    /\ StoreFits /\ BatchFits /\ ActionIsPending
    /\ SelectionIsMade /\ WorkIsKnown

IInv == ControllerTypeOK /\ JournalFits /\ ChainNeverForks /\ RanOnce /\ Tracked

USE DEF At, Quiet, World, Reading, Dispatching, Step, ChainNeverForks, Readable

-----------------------------------------------------------------------------
\* Between ticks and at the end of one nothing is claimed about the store.
LEMMA RestingIsTracked ==
    ASSUME mind.at \in {"down", "waiting", "snapshot"} PROVE Tracked
BY DEF Tracked, StoreFits, BatchFits, ActionIsPending, SelectionIsMade, WorkIsKnown

LEMMA DownIsTyped == Off \in Mind /\ Off.at = "down"
BY DEF Off, Mind, Journal, EmptyJournal

LEMMA InitHolds == ControllerInit => IInv
<1> SUFFICES ASSUME ControllerInit PROVE IInv
  OBVIOUS
<1>1. EmptyJournal \in Journal
  BY DEF EmptyJournal, Journal
<1>2. ControllerTypeOK
  BY <1>1, DownIsTyped, LearningAssumption DEF ControllerInit, ControllerTypeOK
<1>3. JournalFits /\ RanOnce
  BY <1>1 DEF ControllerInit, EmptyJournal, JournalFits, Replays, Truthful, RanOnce, Acceptable
<1>4. Tracked
  BY RestingIsTracked, DownIsTyped DEF ControllerInit
<1> QED BY <1>2, <1>3, <1>4 DEF IInv, ControllerInit

\* A step that changes at most the process and keeps the journal and the work.
LEMMA QuietSteps ==
    ASSUME IInv, UNCHANGED <<journal, tail, work>>,
           mind' \in Mind, Tracked', observations' \subseteq LearningObservation,
           input' \in WorkInput \cup {BadInput}, journalFaults' \in Nat, crashes' \in Nat
    PROVE  IInv'
BY DEF IInv, ControllerTypeOK, JournalFits, Replays, Truthful, RanOnce

LEMMA GoTyped ==
    ASSUME ControllerTypeOK, NEW step \in Step, Go(step)
    PROVE  /\ mind' \in Mind /\ mind'.at = step
           /\ mind'.store = mind.store /\ mind'.batch = mind.batch
           /\ mind'.action = mind.action /\ mind'.target = mind.target
           /\ mind'.develops = mind.develops
BY DEF ControllerTypeOK, Mind, Go

\* A line reaches the file as the next one of its chain, or not at all, or it is
\* torn; only a store that is what the file says adds to the journal.
LEMMA Landing ==
    ASSUME IInv, mind.at \in Reading, NEW entry, NEW extent \in LineExtent, Lands(entry, extent)
    PROVE  \/ UNCHANGED <<journal, tail>>
           \/ journal' = entry /\ mind.store = journal /\ Readable' /\ extent # "none"
           \/ tail' = "torn" /\ UNCHANGED journal
<1>1. tail \in {"whole", "unended", "torn"} /\ (tail = "whole" => mind.store = journal)
  BY DEF IInv, ControllerTypeOK, Tracked, StoreFits
<1> QED BY <1>1 DEF Lands, LineExtent

LEMMA WholeLands ==
    ASSUME IInv, mind.at \in Reading, NEW entry, NEW extent \in LineExtent \ {"none"},
           Lands(entry, extent)
    PROVE  \/ journal' = entry /\ mind.store = journal /\ Readable'
           \/ tail' = "torn" /\ UNCHANGED journal
<1>1. tail \in {"whole", "unended", "torn"} /\ (tail = "whole" => mind.store = journal)
  BY DEF IInv, ControllerTypeOK, Tracked, StoreFits
<1> QED BY <1>1 DEF Lands, LineExtent

\* An append either returns, and the process holds the entry, or throws, and the
\* tick goes to where it is caught.
LEMMA Appending ==
    ASSUME IInv, mind.at \in Reading, NEW entry \in Journal,
           NEW step \in Step, NEW onThrow \in {"waiting", "snapshot"},
           AppendEvent(entry, step, onThrow)
    PROVE  /\ mind' \in Mind /\ journalFaults' \in Nat
           /\ mind'.batch = mind.batch /\ mind'.action = mind.action
           /\ mind'.target = mind.target /\ mind'.develops = mind.develops
           /\ \/ journal' = entry /\ mind.store = journal /\ Readable'
              \/ UNCHANGED journal /\ tail' = "torn"
              \/ UNCHANGED <<journal, tail>> /\ mind'.at = onThrow
           /\ \/ mind'.at = step /\ mind'.store = entry
              \/ mind'.at = onThrow /\ mind'.store = mind.store
<1>1. mind \in Mind /\ journalFaults \in Nat
  BY DEF IInv, ControllerTypeOK
<1>2. CASE /\ \/ Lands(entry, "whole") /\ UNCHANGED journalFaults
              \/ /\ journalFaults < MaxJournalFaults /\ journalFaults' = journalFaults + 1
                 /\ \E extent \in {"part", "unended"} : Lands(entry, extent)
           /\ mind' = [mind EXCEPT !.store = entry, !.at = step]
  <2>1. PICK extent \in {"part", "unended", "whole"} : Lands(entry, extent)
    BY <1>2
  <2>2. \/ journal' = entry /\ mind.store = journal /\ Readable'
        \/ tail' = "torn" /\ UNCHANGED journal
    BY <2>1, WholeLands DEF LineExtent
  <2>3. /\ mind' \in Mind /\ mind'.at = step /\ mind'.store = entry
        /\ mind'.batch = mind.batch /\ mind'.action = mind.action
        /\ mind'.target = mind.target /\ mind'.develops = mind.develops
    BY <1>1, <1>2 DEF Mind
  <2> QED BY <1>1, <1>2, <2>2, <2>3
<1>3. CASE /\ journalFaults < MaxJournalFaults /\ journalFaults' = journalFaults + 1
           /\ \E extent \in LineExtent : Lands(entry, extent)
           /\ Go(onThrow)
  <2>1. \/ UNCHANGED <<journal, tail>>
        \/ journal' = entry /\ mind.store = journal /\ Readable'
        \/ tail' = "torn" /\ UNCHANGED journal
    BY <1>3, Landing
  <2>2. onThrow \in Step
    OBVIOUS
  <2>3. /\ mind' \in Mind /\ mind'.at = onThrow /\ mind'.store = mind.store
        /\ mind'.batch = mind.batch /\ mind'.action = mind.action
        /\ mind'.target = mind.target /\ mind'.develops = mind.develops
    BY <1>3, <2>2, GoTyped DEF IInv
  <2> QED BY <1>1, <1>3, <2>1, <2>3
<1> QED BY <1>2, <1>3 DEF AppendEvent

\* What an append says of the work and of the selection leaves the journal fit.
LEMMA AppendedFits ==
    ASSUME IInv, mind.at \in Reading, NEW entry \in Journal, Replays(entry),
           NEW step \in Step, NEW onThrow \in {"waiting", "snapshot"},
           AppendEvent(entry, step, onThrow), UNCHANGED <<observations, input, crashes, work>>,
           Truthful(entry), entry.selection = work.selected
    PROVE  /\ ControllerTypeOK' /\ JournalFits' /\ ChainNeverForks' /\ RanOnce'
           /\ mind'.batch = mind.batch /\ mind'.action = mind.action
           /\ mind'.target = mind.target /\ mind'.develops = mind.develops
           /\ \/ mind'.at = step /\ mind'.store = entry /\ StoreFits'
              \/ Tracked'
<1>1. /\ mind' \in Mind /\ journalFaults' \in Nat
      /\ mind'.batch = mind.batch /\ mind'.action = mind.action
      /\ mind'.target = mind.target /\ mind'.develops = mind.develops
      /\ \/ journal' = entry /\ mind.store = journal /\ Readable'
         \/ UNCHANGED journal /\ tail' = "torn"
         \/ UNCHANGED <<journal, tail>> /\ mind'.at = onThrow
      /\ \/ mind'.at = step /\ mind'.store = entry
         \/ mind'.at = onThrow /\ mind'.store = mind.store
  BY Appending
<1>2. ControllerTypeOK' /\ ChainNeverForks' /\ RanOnce'
  BY <1>1 DEF IInv, ControllerTypeOK, RanOnce
<1>3. /\ Replays(entry)' <=> Replays(entry)
      /\ Truthful(entry)' <=> Truthful(entry)
      /\ work' = work
  BY DEF Replays, Truthful
<1>4. JournalFits'
  <2>1. CASE journal' = entry /\ Readable'
    BY <1>3, <2>1 DEF JournalFits, Truthful, Replays
  <2>2. CASE UNCHANGED journal /\ tail' = "torn"
    <3>1. journal.selection \in {NoSelection, work.selected}
      BY DEF IInv, ControllerTypeOK, JournalFits
    <3> QED BY <1>3, <2>2, <3>1 DEF IInv, JournalFits, Replays
  <2>3. CASE UNCHANGED <<journal, tail>>
    BY <1>3, <2>3 DEF IInv, JournalFits, Replays, Truthful
  <2> QED BY <1>1, <2>1, <2>2, <2>3
<1>5. CASE mind'.at = onThrow
  BY <1>1, <1>2, <1>4, <1>5 DEF Tracked, StoreFits, BatchFits, ActionIsPending, SelectionIsMade,
     WorkIsKnown
<1>6. CASE mind'.at = step /\ mind'.store = entry /\ mind'.at # onThrow
  <2>1. (Readable' /\ mind'.store = journal') \/ tail' = "torn"
    BY <1>1, <1>6
  <2>2. StoreFits'
    BY <1>3, <1>6, <2>1 DEF StoreFits, Replays, Truthful
  <2> QED BY <1>1, <1>2, <1>4, <1>6, <2>2
<1> QED BY <1>1, <1>5, <1>6

-----------------------------------------------------------------------------
LEMMA RestKeeps ==
    ASSUME IInv, UNCHANGED <<journal, tail, work>>, mind' \in Mind,
           mind'.at \in {"down", "waiting", "snapshot"},
           observations' \subseteq LearningObservation, input' \in WorkInput \cup {BadInput},
           journalFaults' \in Nat, crashes' \in Nat
    PROVE  IInv'
<1>1. Tracked'
  BY DEF Tracked, StoreFits, BatchFits, ActionIsPending, SelectionIsMade, WorkIsKnown
<1> QED BY <1>1, QuietSteps

LEMMA StartKeeps == ASSUME IInv, StartController PROVE IInv'
<1>1. PICK develops \in Modes :
          mind' = [Off EXCEPT !.at = "waiting", !.batch = observations, !.first = TRUE,
                               !.develops = develops]
  BY DEF StartController
<1>2. Off \in Mind /\ observations \subseteq LearningObservation /\ develops \in BOOLEAN
  BY DownIsTyped, LearningAssumption DEF IInv, ControllerTypeOK
<1>3. mind' \in Mind /\ mind'.at = "waiting"
  BY <1>1, <1>2 DEF Mind
<1> QED BY <1>3, RestKeeps DEF IInv, ControllerTypeOK, StartController

\* A step inside a tick that only goes on.
LEMMA GoKeeps ==
    ASSUME IInv, mind.at \in Reading, NEW step \in Step, Go(step),
           UNCHANGED <<Quiet, World>>,
           step \notin {"ingest", "bind", "reflect", "execute", "executing"},
           step \in Dispatching \cup {"resume", "dispatch"} =>
               mind.store.selection # NoSelection,
           step \in Dispatching => mind.store.record = "reconciling",
           step = "start" => work.runs = 0,
           step = "adopt" => work.runs = 1
    PROVE  IInv'
<1>1. mind' \in Mind /\ mind'.at = step /\ mind'.store = mind.store
  BY GoTyped DEF IInv
<1>2. StoreFits'
  BY <1>1 DEF IInv, Tracked, StoreFits, Replays, Truthful
<1>3. Tracked'
  BY <1>1, <1>2 DEF IInv, Tracked, BatchFits, ActionIsPending, SelectionIsMade, WorkIsKnown
<1> QED BY <1>1, <1>3, QuietSteps DEF IInv, ControllerTypeOK

LEMMA TickKeeps == ASSUME IInv, Tick PROVE IInv'
<1> DEFINE batch == IF mind.first THEN mind.batch ELSE observations
           fit == Readable /\ Acceptable(batch, journal.observed)
           store == IF fit THEN journal ELSE mind.store
           at == IF fit THEN "ingest" ELSE "waiting"
<1>1. mind \in Mind /\ batch \subseteq LearningObservation /\ store \in Journal /\ at \in Step
  BY DEF IInv, ControllerTypeOK, Mind
<1>2. mind' = [mind EXCEPT !.first = FALSE, !.action = Nobody, !.batch = batch,
                           !.store = store, !.at = at]
  BY DEF Tick
<1>3. mind' \in Mind /\ mind'.at = at /\ mind'.store = store /\ mind'.batch = batch
  BY <1>1, <1>2 DEF Mind
<1>4. CASE fit
  <2>1. StoreFits'
    BY <1>3, <1>4 DEF IInv, Tick, JournalFits, StoreFits, Replays, Truthful
  <2>2. Tracked'
    BY <1>3, <1>4, <2>1 DEF Tick, Tracked, BatchFits, ActionIsPending,
       SelectionIsMade, WorkIsKnown
  <2> QED BY <1>3, <2>2, QuietSteps DEF IInv, ControllerTypeOK, Tick
<1>5. CASE ~fit
  BY <1>3, <1>5, RestKeeps DEF IInv, ControllerTypeOK, Tick
<1> QED BY <1>4, <1>5

\* What a tick knows of its store.
LEMMA StoreFacts ==
    ASSUME IInv, mind.at \in Reading
    PROVE  /\ mind \in Mind /\ mind.store \in Journal
           /\ Replays(mind.store) /\ Truthful(mind.store)
           /\ mind.store.selection = work.selected
           /\ mind.at \in Dispatching \cup {"resume", "dispatch"} =>
                  mind.store.selection # NoSelection
           /\ mind.at \in {"start", "execute"} => work.runs = 0
           /\ mind.at \in {"executing", "adopt"} => work.runs = 1
           /\ mind.at \in {"ask", "unresolve"} => mind.store.record = "reconciling"
           /\ work.returned => work.runs = 1
BY DEF IInv, ControllerTypeOK, Mind, Tracked, StoreFits, SelectionIsMade, WorkIsKnown, RanOnce

LEMMA IngestKeeps ==
    ASSUME IInv, NEW o \in LearningObservation, Ingest(o) PROVE IInv'
<1> DEFINE entry == [mind.store EXCEPT !.observed = @ \cup {o}]
<1>1. /\ mind.at = "ingest" /\ mind.store \in Journal
      /\ Replays(mind.store) /\ Truthful(mind.store) /\ mind.store.selection = work.selected
      /\ Acceptable(mind.batch, mind.store.observed) /\ o \in mind.batch
  BY StoreFacts DEF IInv, Tracked, BatchFits, Ingest
<1>2. /\ entry \in Journal
      /\ entry.observed = mind.store.observed \cup {o}
      /\ entry.reflected = mind.store.reflected /\ entry.selection = mind.store.selection
      /\ entry.record = mind.store.record
  BY <1>1 DEF Journal
<1>3. /\ Acceptable(entry.observed, entry.observed)
      /\ Acceptable(mind.batch, entry.observed)
  BY <1>1, <1>2 DEF Replays, Acceptable
<1>4. Replays(entry) /\ Truthful(entry)
  BY <1>1, <1>2, <1>3 DEF Replays, Truthful
<1>5. AppendEvent(entry, "ingest", "waiting") /\ UNCHANGED World
  BY DEF Ingest
<1> HIDE DEF entry
<1>6. /\ ControllerTypeOK' /\ JournalFits' /\ ChainNeverForks' /\ RanOnce'
      /\ mind'.batch = mind.batch
      /\ \/ mind'.at = "ingest" /\ mind'.store = entry /\ StoreFits'
         \/ Tracked'
  BY <1>1, <1>2, <1>4, <1>5, AppendedFits
<1>7. CASE mind'.at = "ingest" /\ mind'.store = entry /\ StoreFits'
  BY <1>3, <1>6, <1>7 DEF IInv, Tracked, BatchFits, ActionIsPending, SelectionIsMade, WorkIsKnown
<1> QED BY <1>6, <1>7 DEF IInv

\* What planNext finds is pending; developmentTick binds or resumes.
LEMMA PlanKeeps == ASSUME IInv, Plan PROVE IInv'
<1>1. mind.at = "ingest" /\ mind \in Mind /\ mind.store \in Journal
  BY StoreFacts DEF Plan
<1>2. PICK action \in Planned(mind.store) :
         LET rest == IF mind.develops /\ mind.store.selection # NoSelection
                     THEN "resume" ELSE "snapshot"
             binds == mind.develops /\ rest = "snapshot" /\ action \in mind.batch
         IN mind' = [mind EXCEPT !.action = action, !.target = rest,
                        !.at = IF action = Nobody THEN rest
                               ELSE IF binds THEN "bind" ELSE "reflect"]
  BY DEF Plan
<1> DEFINE rest == IF mind.develops /\ mind.store.selection # NoSelection
                   THEN "resume" ELSE "snapshot"
           binds == mind.develops /\ rest = "snapshot" /\ action \in mind.batch
           at == IF action = Nobody THEN rest ELSE IF binds THEN "bind" ELSE "reflect"
<1>3. /\ action \in LearningObservation \cup {Nobody}
      /\ action # Nobody => action \in Unreflected(mind.store)
  BY <1>1, <1>2 DEF Planned, Unreflected, Journal
<1>4. at \in {"resume", "snapshot", "bind", "reflect"} /\ rest \in {"resume", "snapshot"}
  OBVIOUS
<1>5. /\ mind' \in Mind /\ mind'.at = at /\ mind'.action = action
      /\ mind'.target = rest /\ mind'.store = mind.store /\ mind'.batch = mind.batch
      /\ mind'.develops = mind.develops
  <2>1. mind' = [mind EXCEPT !.action = action, !.target = rest, !.at = at]
    BY <1>2
  <2> HIDE DEF at, rest
  <2> QED BY <1>1, <1>3, <1>4, <2>1 DEF Mind
<1>6. UNCHANGED <<journal, tail, work, observations, input, journalFaults, crashes>>
  BY DEF Plan
<1>7. StoreFits'
  BY <1>1, <1>5, <1>6 DEF IInv, Tracked, StoreFits, Replays, Truthful
<1>8. Tracked'
  BY <1>1, <1>3, <1>5, <1>6, <1>7 DEF Tracked, BatchFits, ActionIsPending,
     SelectionIsMade, WorkIsKnown
<1> QED BY <1>5, <1>6, <1>8, QuietSteps DEF IInv, ControllerTypeOK

\* The selection counts as made from the moment the process or the file has it.
LEMMA BindKeeps == ASSUME IInv, Bind PROVE IInv'
<1>1. /\ mind.at = "bind" /\ mind.store \in Journal
      /\ Replays(mind.store) /\ Truthful(mind.store)
      /\ mind.action \in Unreflected(mind.store)
      /\ mind.store.selection = NoSelection /\ work.selected = NoSelection
      /\ mind.target = "snapshot"
  BY StoreFacts DEF IInv, Tracked, ActionIsPending, SelectionIsMade, Bind
<1>2. CASE input = BadInput /\ Go("snapshot") /\ UNCHANGED <<Quiet, work>>
  BY <1>1, <1>2, GoKeeps DEF Bind
<1>3. CASE input # BadInput
  <2> DEFINE chosen == [of |-> mind.action, input |-> input]
             entry == [mind.store EXCEPT !.selection = chosen]
  <2>1. chosen \in Selection /\ chosen # NoSelection /\ chosen.of \in mind.store.observed
    BY <1>1, <1>3, LearningAssumption DEF IInv, ControllerTypeOK, Selection, Unreflected, Journal
  <2>2. /\ AppendEvent(entry, "reflect", "waiting") /\ UNCHANGED <<observations, input, crashes>>
        /\ work' = [work EXCEPT !.selected =
                       IF entry \in {mind'.store, journal'} THEN chosen ELSE @]
    BY <1>3 DEF Bind
  <2> HIDE DEF chosen
  <2>3. /\ entry \in Journal /\ entry.selection = chosen
        /\ entry.observed = mind.store.observed /\ entry.reflected = mind.store.reflected
        /\ entry.record = mind.store.record
    BY <1>1, <2>1 DEF Journal
  <2>4. Replays(entry) /\ Truthful(entry)
    BY <1>1, <2>1, <2>3 DEF Replays, Truthful
  <2> HIDE DEF entry
  <2>5. /\ mind' \in Mind /\ journalFaults' \in Nat
        /\ mind'.batch = mind.batch /\ mind'.action = mind.action
        /\ mind'.target = mind.target /\ mind'.develops = mind.develops
        /\ \/ journal' = entry /\ mind.store = journal /\ Readable'
           \/ UNCHANGED journal /\ tail' = "torn"
           \/ UNCHANGED <<journal, tail>> /\ mind'.at = "waiting"
        /\ \/ mind'.at = "reflect" /\ mind'.store = entry
           \/ mind'.at = "waiting" /\ mind'.store = mind.store
    BY <1>1, <2>2, <2>3, Appending
  <2>6. /\ work' \in [selected : Selection \cup {NoSelection}, runs : Nat, returned : BOOLEAN]
        /\ work'.runs = work.runs /\ work'.returned = work.returned
        /\ entry \in {mind'.store, journal'} => work'.selected = chosen
        /\ entry \notin {mind'.store, journal'} => work'.selected = NoSelection
    BY <1>1, <2>1, <2>2 DEF IInv, ControllerTypeOK
  <2>7. journal.selection = NoSelection /\ journal \in Journal /\ Replays(journal)
    BY <1>1 DEF IInv, ControllerTypeOK, JournalFits
  <2>8. ControllerTypeOK' /\ ChainNeverForks' /\ RanOnce'
    BY <2>2, <2>3, <2>5, <2>6 DEF IInv, ControllerTypeOK, RanOnce
  <2>9. \A j : Truthful(j)' <=> Truthful(j)
    BY <2>6 DEF Truthful
  <2>10. JournalFits'
    <3>1. CASE journal' = entry /\ Readable'
      BY <2>3, <2>4, <2>6, <2>9, <3>1 DEF JournalFits, Replays, Truthful
    <3>2. CASE UNCHANGED journal /\ tail' = "torn"
      BY <2>6, <2>7, <3>2 DEF IInv, JournalFits, Replays
    <3>3. CASE UNCHANGED <<journal, tail>> /\ mind'.at = "waiting"
      <4>1. entry # mind'.store /\ entry # journal'
        BY <1>1, <2>1, <2>3, <2>5, <2>7, <3>3
      <4>2. work'.selected = work.selected
        BY <1>1, <2>6, <4>1
      <4> QED BY <2>6, <3>3, <4>2 DEF IInv, JournalFits, Replays, Truthful
    <3> QED BY <2>5, <3>1, <3>2, <3>3
  <2>11. CASE mind'.at = "waiting"
    BY <2>8, <2>10, <2>11 DEF IInv, Tracked, StoreFits, BatchFits, ActionIsPending, SelectionIsMade,
       WorkIsKnown
  <2>12. CASE mind'.at = "reflect" /\ mind'.store = entry
    <3>1. (Readable' /\ mind'.store = journal') \/ tail' = "torn"
      BY <2>5, <2>12
    <3>2. StoreFits'
      BY <2>3, <2>4, <2>6, <2>12, <3>1 DEF StoreFits, Replays, Truthful
    <3> QED BY <1>1, <2>1, <2>3, <2>5, <2>8, <2>10, <2>12, <3>2 DEF IInv, Tracked, BatchFits,
         ActionIsPending, SelectionIsMade, WorkIsKnown, Unreflected
  <2> QED BY <2>5, <2>11, <2>12
<1> QED BY <1>2, <1>3 DEF Bind

LEMMA ReflectKeeps == ASSUME IInv, Reflect PROVE IInv'
<1> DEFINE entry == [mind.store EXCEPT !.reflected = @ \cup {mind.action}]
           bound == /\ mind.store.selection # NoSelection /\ mind.target = "snapshot"
                    /\ mind.develops
           step == IF bound THEN "dispatch" ELSE mind.target
<1>1. /\ mind.at = "reflect" /\ mind.store \in Journal
      /\ Replays(mind.store) /\ Truthful(mind.store) /\ mind.store.selection = work.selected
      /\ mind.action \in Unreflected(mind.store) /\ mind.target \in {"resume", "snapshot"}
      /\ mind.target = "resume" => mind.store.selection # NoSelection
  BY StoreFacts DEF IInv, Tracked, ActionIsPending, SelectionIsMade, Reflect
<1>2. /\ entry \in Journal /\ entry.selection = mind.store.selection
      /\ entry.observed = mind.store.observed /\ entry.record = mind.store.record
      /\ entry.reflected = mind.store.reflected \cup {mind.action}
  BY <1>1 DEF Journal, Unreflected
<1>3. Replays(entry) /\ Truthful(entry)
  BY <1>1, <1>2 DEF Replays, Truthful, Unreflected
<1>4. AppendEvent(entry, step, "waiting") /\ UNCHANGED World
  BY DEF Reflect
<1>5. /\ step \in {"dispatch", "resume", "snapshot"}
      /\ step # "snapshot" => mind.store.selection # NoSelection
  BY <1>1
<1> HIDE DEF entry, step
<1>6. /\ ControllerTypeOK' /\ JournalFits' /\ ChainNeverForks' /\ RanOnce'
      /\ \/ mind'.at = step /\ mind'.store = entry /\ StoreFits'
         \/ Tracked'
  BY <1>1, <1>2, <1>3, <1>4, <1>5, AppendedFits
<1>7. CASE mind'.at = step /\ mind'.store = entry /\ StoreFits'
  BY <1>2, <1>5, <1>6, <1>7 DEF IInv, Tracked, BatchFits, ActionIsPending, SelectionIsMade,
     WorkIsKnown
<1> QED BY <1>6, <1>7 DEF IInv

LEMMA ResumeKeeps == ASSUME IInv, Resume PROVE IInv'
<1>1. mind.at = "resume" /\ mind.store.selection # NoSelection
  BY StoreFacts DEF Resume
<1>2. PICK step \in {"dispatch", "snapshot"} : Go(step)
  BY DEF Resume
<1> QED BY <1>1, <1>2, GoKeeps DEF Resume

-----------------------------------------------------------------------------
\* A dispatch record of the selected work is appended.
LEMMA RecordKeeps ==
    ASSUME IInv, mind.at \in Dispatching \cup {"dispatch"},
           NEW state \in DispatchState, NEW step \in Step, Record(state, step),
           UNCHANGED World,
           state \in {"none", "submitted"} => work.runs = 0,
           state = "completed" => work.runs = 1 /\ step = "snapshot",
           step \in {"snapshot", "ask", "start", "execute"},
           step = "ask" => state = "reconciling",
           step \in {"start", "execute"} => work.runs = 0,
           step = "execute" => state = "running"
    PROVE  IInv'
<1> DEFINE entry == [mind.store EXCEPT !.record = state]
<1>1. /\ mind.store \in Journal /\ Replays(mind.store)
      /\ mind.store.selection # NoSelection /\ mind.store.selection = work.selected
  BY StoreFacts
<1>2. /\ entry \in Journal /\ entry.record = state
      /\ entry.selection = mind.store.selection
      /\ entry.observed = mind.store.observed /\ entry.reflected = mind.store.reflected
  BY <1>1 DEF Journal
<1>3. Replays(entry) /\ Truthful(entry)
  BY <1>1, <1>2 DEF Replays, Truthful
<1>4. AppendEvent(entry, step, "snapshot")
  BY DEF Record
<1> HIDE DEF entry
<1>5. /\ ControllerTypeOK' /\ JournalFits' /\ ChainNeverForks' /\ RanOnce'
      /\ \/ mind'.at = step /\ mind'.store = entry /\ StoreFits'
         \/ Tracked'
  BY <1>1, <1>2, <1>3, <1>4, AppendedFits
<1>6. CASE mind'.at = step /\ mind'.store = entry /\ StoreFits'
  BY <1>1, <1>2, <1>5, <1>6 DEF IInv, Tracked, BatchFits, ActionIsPending, SelectionIsMade,
     WorkIsKnown, DispatchState
<1> QED BY <1>5, <1>6 DEF IInv

LEMMA RecordsKeep ==
    ASSUME IInv, Submit \/ Reconcile \/ Unresolve \/ StartWork \/ Adopt PROVE IInv'
<1>1. CASE Submit
  <2>1. work.runs = 0
    BY <1>1, StoreFacts DEF Submit, Truthful
  <2> QED BY <1>1, <2>1, RecordKeeps DEF Submit, DispatchState
<1>2. CASE Reconcile
  BY <1>2, RecordKeeps DEF Reconcile, DispatchState
<1>3. CASE Unresolve
  BY <1>3, RecordKeeps DEF Unresolve, DispatchState
<1>4. CASE StartWork
  BY <1>4, RecordKeeps, StoreFacts DEF StartWork, DispatchState
<1>5. CASE Adopt
  BY <1>5, RecordKeeps, StoreFacts DEF Adopt, DispatchState
<1> QED BY <1>1, <1>2, <1>3, <1>4, <1>5

LEMMA ReuseKeeps == ASSUME IInv, Reuse PROVE IInv'
BY GoKeeps DEF Reuse

\* Only a hook that tells the truth can say that the work never started.
LEMMA AskKeeps == ASSUME IInv, AskReconcile PROVE IInv'
<1>1. PICK answer \in Answers :
          Go(IF answer = "completed" THEN "adopt"
             ELSE IF answer = "not-started" THEN "start" ELSE "unresolve")
  BY DEF AskReconcile
<1>2. /\ answer = "completed" => work.runs = 1
      /\ answer = "not-started" => work.runs = 0
  BY DEF Answers, IInv, RanOnce
<1> QED BY <1>1, <1>2, GoKeeps, StoreFacts DEF AskReconcile

LEMMA ExecuteKeeps == ASSUME IInv, Execute PROVE IInv'
<1>1. /\ mind.at = "execute" /\ work.runs = 0 /\ ~work.returned
      /\ work \in [selected : Selection \cup {NoSelection}, runs : Nat, returned : BOOLEAN]
      /\ mind.store.record = "running" /\ mind.store.selection # NoSelection
  BY StoreFacts DEF IInv, ControllerTypeOK, Tracked, WorkIsKnown, RanOnce, Execute
<1>2. /\ work' \in [selected : Selection \cup {NoSelection}, runs : Nat, returned : BOOLEAN]
      /\ work'.runs = 1 /\ ~work'.returned /\ work'.selected = work.selected
  BY <1>1 DEF Execute
<1>3. mind' \in Mind /\ mind'.at = "executing" /\ mind'.store = mind.store
  BY GoTyped DEF IInv, Execute
<1>4. UNCHANGED <<journal, tail, journalFaults, observations, input, crashes>>
  BY DEF Execute
<1>5. JournalFits'
  <2>1. Readable => journal.record = "running"
    BY <1>1 DEF IInv, Tracked, StoreFits
  <2> QED BY <1>2, <1>4, <2>1 DEF IInv, JournalFits, Replays, Truthful
<1>6. ControllerTypeOK' /\ RanOnce' /\ ChainNeverForks'
  BY <1>1, <1>2, <1>3, <1>4 DEF IInv, ControllerTypeOK, RanOnce
<1>7. StoreFits'
  BY <1>1, <1>2, <1>3, <1>4 DEF IInv, Tracked, StoreFits, Replays, Truthful
<1>8. Tracked'
  BY <1>1, <1>2, <1>3, <1>4, <1>7 DEF Tracked, BatchFits, ActionIsPending, SelectionIsMade,
     WorkIsKnown
<1> QED BY <1>5, <1>6, <1>8 DEF IInv

LEMMA FinishKeeps == ASSUME IInv, ExecutorEnds PROVE IInv'
<1>1. CASE UNCHANGED work /\ Go("snapshot")
  BY <1>1, GoKeeps DEF ExecutorEnds
<1>2. CASE work' = [work EXCEPT !.returned = TRUE] /\ Go("adopt")
  <2>1. /\ mind.at = "executing" /\ work.runs = 1
        /\ work \in [selected : Selection \cup {NoSelection}, runs : Nat, returned : BOOLEAN]
        /\ mind.store.record = "running" /\ mind.store.selection # NoSelection
    BY StoreFacts DEF IInv, ControllerTypeOK, Tracked, WorkIsKnown, ExecutorEnds
  <2>2. /\ work' \in [selected : Selection \cup {NoSelection}, runs : Nat, returned : BOOLEAN]
        /\ work'.runs = 1 /\ work'.selected = work.selected
    BY <1>2, <2>1
  <2>3. mind' \in Mind /\ mind'.at = "adopt" /\ mind'.store = mind.store
    BY <1>2, GoTyped DEF IInv
  <2>4. UNCHANGED <<journal, tail, journalFaults, observations, input, crashes>>
    BY DEF ExecutorEnds
  <2>5. JournalFits' /\ ControllerTypeOK' /\ RanOnce' /\ ChainNeverForks'
    BY <2>1, <2>2, <2>3, <2>4 DEF IInv, JournalFits, ControllerTypeOK, RanOnce, Replays, Truthful
  <2>6. StoreFits'
    BY <2>1, <2>2, <2>3, <2>4 DEF IInv, Tracked, StoreFits, Replays, Truthful
  <2>7. Tracked'
    BY <2>1, <2>2, <2>3, <2>4, <2>6 DEF Tracked, BatchFits, ActionIsPending, SelectionIsMade,
       WorkIsKnown
  <2> QED BY <2>5, <2>7 DEF IInv
<1> QED BY <1>1, <1>2 DEF ExecutorEnds

LEMMA SnapshotKeeps == ASSUME IInv, Snapshot PROVE IInv'
<1>1. mind' \in Mind /\ mind'.at = "waiting"
  BY GoTyped DEF IInv, Snapshot
<1> QED BY <1>1, RestKeeps DEF IInv, ControllerTypeOK, Snapshot

LEMMA StopKeeps == ASSUME IInv, StopController \/ Crash PROVE IInv'
BY RestKeeps, DownIsTyped DEF IInv, ControllerTypeOK, StopController, Crash

LEMMA EditKeeps == ASSUME IInv, Edit PROVE IInv'
<1>1. observations' \subseteq LearningObservation /\ input' \in WorkInput \cup {BadInput}
  BY LearningAssumption DEF IInv, ControllerTypeOK, Edit
<1>2. Tracked' /\ mind' \in Mind
  BY DEF IInv, ControllerTypeOK, Edit, Tracked, StoreFits, Replays, Truthful, BatchFits,
     ActionIsPending, SelectionIsMade, WorkIsKnown
<1> QED BY <1>1, <1>2, QuietSteps DEF IInv, ControllerTypeOK, Edit

LEMMA NextKeeps == IInv /\ [ControllerNext]_controllerVars => IInv'
<1> SUFFICES ASSUME IInv, [ControllerNext]_controllerVars PROVE IInv'
  OBVIOUS
<1>1. CASE ControllerNext
  BY <1>1, StartKeeps, TickKeeps, IngestKeeps, PlanKeeps, BindKeeps, ReflectKeeps,
     ResumeKeeps, RecordsKeep, ReuseKeeps, AskKeeps, ExecuteKeeps, FinishKeeps,
     SnapshotKeeps, StopKeeps, EditKeeps DEF ControllerNext, TickAdvances
<1>2. CASE UNCHANGED controllerVars
  BY <1>2, QuietSteps DEF controllerVars, IInv, ControllerTypeOK, Tracked, StoreFits, Replays,
     Truthful, BatchFits, ActionIsPending, SelectionIsMade, WorkIsKnown
<1> QED BY <1>1, <1>2

-----------------------------------------------------------------------------
\* The inductive invariant of the controller: what the journal, the store of a
\* tick and the selected work tell of each other, also after a line that fell
\* short.
THEOREM ControllerInvariant == ControllerSpec => []IInv
<1>1. IInv /\ [ControllerNext]_controllerVars => IInv'
  BY NextKeeps
<1> QED BY <1>1, InitHolds, PTL DEF ControllerSpec

\* Every reachable state has the right types.
THEOREM TypeCorrect == ControllerSpec => []ControllerTypeOK
<1>1. IInv => ControllerTypeOK
  BY DEF IInv
<1> QED BY <1>1, ControllerInvariant, PTL

\* The journal never forks, replaying it never throws, and executed work is the
\* selection it holds, after any crash and any append that failed or fell short.
\* (#replay, src/persistentLearningController.ts:131-162)
THEOREM ReplayNeverThrows == ControllerSpec => []JournalReplays
<1>1. IInv => JournalReplays
  BY DEF IInv, JournalFits, Replays, JournalReplays, DispatchIsBound
<1> QED BY <1>1, ControllerInvariant, PTL

\* Only a line that was cut short makes the journal unreadable: no whole line is
\* ever added that does not continue it, since a tick reopens the store, and a
\* store that is ahead of the file writes behind the line that it lacks.
\* (scripts/runPersistentLearningController.ts:237-239, src/eventStore.ts:69)
THEOREM NoFork == ControllerSpec => []ChainNeverForks
<1>1. IInv => ChainNeverForks
  BY DEF IInv
<1> QED BY <1>1, ControllerInvariant, PTL

\* An entry becomes what the journal says only over the store that it says already.
LEMMA AppendsFromJournal ==
    ASSUME IInv, mind.at \in Reading, NEW entry \in Journal, NEW step \in Step,
           NEW onThrow \in {"waiting", "snapshot"}, AppendEvent(entry, step, onThrow)
    PROVE  journal' = journal \/ (journal' = entry /\ mind.store = journal)
BY Appending

\* With development work on, a supplied observation is reflected on only after
\* a selection is durable.
\* (developmentTick, scripts/runPersistentLearningController.ts:165-208)
THEOREM BindsFirst == ControllerSpec => NothingConsumedUnbound
<1> DEFINE Unbound ==
        \A o \in mind.batch \cap (journal'.reflected \ journal.reflected) :
            mind.develops => journal.selection # NoSelection
<1>1. ASSUME IInv, Reflect PROVE Unbound
  <2> DEFINE entry == [mind.store EXCEPT !.reflected = @ \cup {mind.action}]
  <2>1. /\ mind.at = "reflect" /\ mind.store \in Journal /\ mind.target \in Step
        /\ mind.action \in Unreflected(mind.store)
        /\ (mind.develops /\ mind.action \in mind.batch) => mind.store.selection # NoSelection
    BY <1>1, StoreFacts DEF IInv, Tracked, ActionIsPending, SelectionIsMade, Reflect
  <2>2. entry \in Journal /\ entry.reflected = mind.store.reflected \cup {mind.action}
    BY <2>1 DEF Journal, Unreflected
  <2>3. PICK step \in Step : AppendEvent(entry, step, "waiting")
    BY <1>1, <2>1 DEF Reflect
  <2> HIDE DEF entry
  <2>4. journal' = journal \/ (journal' = entry /\ mind.store = journal)
    BY <1>1, <2>1, <2>2, <2>3, AppendsFromJournal
  <2> QED BY <2>1, <2>2, <2>4
<1>2. ASSUME IInv, [ControllerNext]_controllerVars, ~Reflect
      PROVE  journal'.reflected = journal.reflected
  <2>1. \A entry : \A step \in Step : \A onThrow \in {"waiting", "snapshot"} :
            mind.at \in Reading /\ entry \in Journal /\ AppendEvent(entry, step, onThrow) =>
                journal' = journal \/ (journal' = entry /\ mind.store = journal)
    BY <1>2, AppendsFromJournal
  <2>2. mind.at \in Reading => mind.store \in Journal
    BY <1>2, StoreFacts
  <2>3. ASSUME NEW o \in LearningObservation, Ingest(o) PROVE journal'.reflected = journal.reflected
    <3> DEFINE entry == [mind.store EXCEPT !.observed = @ \cup {o}]
    <3>1. entry \in Journal /\ entry.reflected = mind.store.reflected
      BY <2>2, <2>3 DEF Ingest, Journal
    <3>2. AppendEvent(entry, "ingest", "waiting") /\ mind.at = "ingest"
      BY <2>3 DEF Ingest
    <3> HIDE DEF entry
    <3> QED BY <2>1, <3>1, <3>2
  <2>4. ASSUME Bind PROVE journal'.reflected = journal.reflected
    <3> DEFINE entry == [mind.store EXCEPT !.selection = [of |-> mind.action, input |-> input]]
    <3>1. CASE input # BadInput
      <4>1. /\ mind.at = "bind" /\ mind.store \in Journal
            /\ mind.action \in LearningObservation /\ input \in WorkInput
        BY <1>2, <2>2, <2>4, <3>1 DEF Bind, IInv, ControllerTypeOK, Tracked, ActionIsPending,
           Unreflected, Journal
      <4>2. entry \in Journal /\ entry.reflected = mind.store.reflected
        BY <4>1 DEF Journal, Selection
      <4>3. AppendEvent(entry, "reflect", "waiting")
        BY <2>4, <3>1 DEF Bind
      <4> HIDE DEF entry
      <4> QED BY <2>1, <4>1, <4>2, <4>3
    <3> QED BY <2>4, <3>1 DEF Bind
  <2>5. ASSUME Submit \/ Reconcile \/ Unresolve \/ StartWork \/ Adopt
        PROVE  journal'.reflected = journal.reflected
    <3>1. PICK state \in DispatchState, step \in Step : Record(state, step)
      BY <2>5 DEF Submit, Reconcile, Unresolve, StartWork, Adopt, DispatchState
    <3> DEFINE entry == [mind.store EXCEPT !.record = state]
    <3>2. mind.at \in Reading
      BY <2>5 DEF Submit, Reconcile, Unresolve, StartWork, Adopt
    <3>3. entry \in Journal /\ entry.reflected = mind.store.reflected
      BY <2>2, <3>2 DEF Journal
    <3>4. AppendEvent(entry, step, "snapshot")
      BY <3>1 DEF Record
    <3> HIDE DEF entry
    <3> QED BY <2>1, <3>2, <3>3, <3>4
  <2> QED BY <1>2, <2>3, <2>4, <2>5 DEF ControllerNext, TickAdvances, StartController, Tick, Plan,
           Resume, Reuse, AskReconcile, Execute, ExecutorEnds, Snapshot, StopController, Crash, Edit,
           controllerVars
<1>3. IInv /\ [ControllerNext]_controllerVars => [Unbound]_controllerVars
  BY <1>1, <1>2
<1> QED BY <1>3, ControllerInvariant, PTL DEF ControllerSpec, NothingConsumedUnbound

-----------------------------------------------------------------------------
\* A step leaves what the promise speaks of, or is a step of the promise.
Stutters == work'.selected = work.selected /\ work'.runs = work.runs
            /\ (journal'.record = "completed" <=> journal.record = "completed")

LEMMA AppendsKeepPromise ==
    ASSUME IInv, mind.at \in Reading, NEW entry \in Journal, NEW step \in Step,
           NEW onThrow \in {"waiting", "snapshot"}, AppendEvent(entry, step, onThrow),
           UNCHANGED work, entry.record = "completed" <=> mind.store.record = "completed"
    PROVE  Stutters
BY AppendsFromJournal DEF Stutters

LEMMA ReflectionsStutter ==
    ASSUME IInv, Reflect \/ \E o \in LearningObservation : Ingest(o) PROVE Stutters
<1>1. CASE Reflect
  <2> DEFINE entry == [mind.store EXCEPT !.reflected = @ \cup {mind.action}]
  <2>1. /\ mind.at = "reflect" /\ mind.store \in Journal /\ mind.target \in Step
        /\ mind.action \in Unreflected(mind.store) /\ UNCHANGED work
    BY <1>1, StoreFacts DEF IInv, Tracked, ActionIsPending, SelectionIsMade, Reflect
  <2>2. entry \in Journal /\ entry.record = mind.store.record
    BY <2>1 DEF Journal, Unreflected
  <2>3. PICK step \in Step : AppendEvent(entry, step, "waiting")
    BY <1>1, <2>1 DEF Reflect
  <2> HIDE DEF entry
  <2> QED BY <2>1, <2>2, <2>3, AppendsKeepPromise
<1>2. ASSUME NEW o \in LearningObservation, Ingest(o) PROVE Stutters
  <2> DEFINE entry == [mind.store EXCEPT !.observed = @ \cup {o}]
  <2>1. mind.at = "ingest" /\ mind.store \in Journal /\ UNCHANGED work
    BY <1>2, StoreFacts DEF Ingest
  <2>2. entry \in Journal /\ entry.record = mind.store.record
    BY <2>1 DEF Journal
  <2>3. AppendEvent(entry, "ingest", "waiting")
    BY <1>2 DEF Ingest
  <2> HIDE DEF entry
  <2> QED BY <2>1, <2>2, <2>3, AppendsKeepPromise
<1> QED BY <1>1, <1>2

LEMMA RecordsStutter ==
    ASSUME IInv, Submit \/ Reconcile \/ Unresolve \/ StartWork PROVE Stutters
<1>1. PICK state \in DispatchState \ {"completed"}, step \in Step : Record(state, step)
  BY DEF Submit, Reconcile, Unresolve, StartWork, DispatchState
<1> DEFINE entry == [mind.store EXCEPT !.record = state]
<1>2. /\ mind.at \in Reading /\ mind.store.record # "completed" /\ mind.store \in Journal
      /\ UNCHANGED work
  BY StoreFacts DEF IInv, Tracked, WorkIsKnown, Submit, Reconcile, Unresolve, StartWork
<1>3. entry \in Journal /\ entry.record # "completed"
  BY <1>1, <1>2 DEF Journal
<1>4. AppendEvent(entry, step, "snapshot")
  BY <1>1 DEF Record
<1> HIDE DEF entry
<1> QED BY <1>2, <1>3, <1>4, AppendsKeepPromise

LEMMA BindSelects ==
    ASSUME IInv, Bind PROVE Stutters \/ \E s \in Selection : Promise!Select(s)
<1> DEFINE chosen == [of |-> mind.action, input |-> input]
           entry == [mind.store EXCEPT !.selection = chosen]
<1>1. /\ mind.at = "bind" /\ mind.store \in Journal /\ work.selected = NoSelection
      /\ mind.action \in Unreflected(mind.store)
  BY StoreFacts DEF IInv, Tracked, SelectionIsMade, ActionIsPending, Bind
<1>2. CASE input = BadInput /\ UNCHANGED <<Quiet, work>>
  BY <1>2 DEF Stutters
<1>3. CASE input # BadInput
  <2>1. chosen \in Selection
    BY <1>1, <1>3 DEF IInv, ControllerTypeOK, Selection, Unreflected, Journal
  <2>2. entry \in Journal /\ entry.record = mind.store.record
    BY <1>1, <2>1 DEF Journal
  <2>3. /\ AppendEvent(entry, "reflect", "waiting")
        /\ work' = [work EXCEPT !.selected =
                       IF entry \in {mind'.store, journal'} THEN chosen ELSE @]
    BY <1>3 DEF Bind
  <2> HIDE DEF entry, chosen
  <2>4. journal' = journal \/ (journal' = entry /\ mind.store = journal)
    BY <1>1, <2>2, <2>3, AppendsFromJournal
  <2>5. work'.runs = work.runs /\ work'.selected \in {chosen, work.selected}
    BY <2>3 DEF IInv, ControllerTypeOK
  <2>6. journal'.record = journal.record
    BY <2>2, <2>4
  <2>7. CASE work'.selected = work.selected
    BY <2>5, <2>6, <2>7 DEF Stutters
  <2>8. CASE work'.selected = chosen
    <3>1. Promise!Select(chosen)
      BY <1>1, <2>5, <2>6, <2>8 DEF Promise!Select
    <3> QED BY <2>1, <3>1
  <2> QED BY <2>5, <2>7, <2>8
<1> QED BY <1>2, <1>3 DEF Bind

LEMMA ExecutesOnce == ASSUME IInv, Execute PROVE Promise!Execute
<1>1. /\ mind.store.selection # NoSelection /\ work.selected = mind.store.selection
      /\ work.runs = 0 /\ journal.record # "completed"
  BY StoreFacts DEF IInv, JournalFits, Execute
<1>2. journal' = journal /\ work'.runs = 1 /\ work'.selected = work.selected
  BY <1>1 DEF IInv, ControllerTypeOK, Execute
<1> QED BY <1>1, <1>2 DEF Promise!Execute

LEMMA AdoptsRunWork == ASSUME IInv, Adopt PROVE Stutters \/ Promise!Receipt
<1> DEFINE entry == [mind.store EXCEPT !.record = "completed"]
<1>1. mind.at = "adopt" /\ mind.store \in Journal /\ work.runs = 1 /\ UNCHANGED work
  BY StoreFacts DEF Adopt
<1>2. entry \in Journal /\ entry.record = "completed"
  BY <1>1 DEF Journal, DispatchState
<1>3. AppendEvent(entry, "snapshot", "snapshot")
  BY DEF Adopt, Record
<1> HIDE DEF entry
<1>4. journal' = journal \/ journal' = entry
  BY <1>1, <1>2, <1>3, AppendsFromJournal
<1>5. CASE journal' = journal
  BY <1>1, <1>5 DEF Stutters
<1>6. CASE journal' = entry
  BY <1>1, <1>2, <1>6 DEF Promise!Receipt
<1> QED BY <1>4, <1>5, <1>6

LEMMA OthersStutter ==
    ASSUME IInv, StartController \/ Tick \/ Plan \/ Resume \/ Reuse \/ AskReconcile
                 \/ ExecutorEnds \/ Snapshot \/ StopController \/ Crash \/ Edit
                 \/ UNCHANGED controllerVars
    PROVE  Stutters
<1>1. journal' = journal
  BY DEF StartController, Tick, Plan, Resume, Reuse, AskReconcile, ExecutorEnds, Snapshot,
     StopController, Crash, Edit, controllerVars
<1>2. work'.runs = work.runs /\ work'.selected = work.selected
  BY DEF IInv, ControllerTypeOK, StartController, Tick, Plan, Resume, Reuse, AskReconcile,
     ExecutorEnds, Snapshot, StopController, Crash, Edit, controllerVars
<1> QED BY <1>1, <1>2 DEF Stutters

\* The controller implements WorkOnce: over all ticks, crashes and appends that
\* failed or fell short one selection is made, its work is executed at most once,
\* and only executed work gets a receipt, which stays.  It keeps the promise by
\* its store where a line fell short: the journal may then lack the selection.
\* (developmentTick, and dispatchInner of persistentLearningDispatchAdapter.js)
THEOREM ImplementsWorkOnce == ControllerSpec => WorkIsDoneOnce
<1>1. ControllerInit => Promise!Init
  BY DEF ControllerInit, EmptyJournal, Promise!Init
<1>2. IInv /\ [ControllerNext]_controllerVars => [Promise!Next]_(Promise!vars)
  <2> SUFFICES ASSUME IInv, [ControllerNext]_controllerVars
               PROVE  Promise!Next \/ UNCHANGED Promise!vars
    OBVIOUS
  <2>1. Stutters => UNCHANGED Promise!vars
    BY DEF Stutters, Promise!vars
  <2>2. Stutters \/ (\E s \in Selection : Promise!Select(s)) \/ Promise!Execute
        \/ Promise!Receipt
    BY ReflectionsStutter, RecordsStutter, BindSelects, ExecutesOnce, AdoptsRunWork, OthersStutter
       DEF ControllerNext, TickAdvances
  <2> QED BY <2>1, <2>2 DEF Promise!Next
<1> QED BY <1>1, <1>2, ControllerInvariant, PTL DEF ControllerSpec, WorkIsDoneOnce, Promise!Spec
=============================================================================
