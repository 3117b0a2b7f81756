# TLA+ models of amos-organism

Specifications of the parts of this repository that keep state across calls,
processes and restarts, with TLC configurations that check them on small
instances, and TLAPS proofs of every safety property those configurations check
for all instances.

All paths below are relative to the repository root.

## 1. The system and its parts

Two programs live in the repository. `src/*.ts` is the **organism kernel**: a
library a host process links. The model proposes work; only the host, with
receipts its gate verifies (`src/host.ts`), can add evidence, settle a mission
and so turn provisional credit into fitness. `swarm/src/*.js` is the **swarm**:
the research side that runs missions, keeps experiments, sleeps, grades and
trains. They meet in digests, contracts and the kernel's event log.

| part | state it keeps | operations | what is hard |
|---|---|---|---|
| causal graph `src/causalGraph.ts` | nodes, edges | addContribution, addHostNode, addHostEdge, eligibleContributions | observations in any order; cycles; credit across missions; withdrawals after the fact |
| energy ledger `src/energyLedger.ts` | accounts, reservations | allocate, reserve, settleReservation, closeMission | settlements after the mission was closed or funded again |
| fitness ledger `src/fitnessLedger.ts` | escrows, balances | openEscrow, settleMission, recordRegression, replay | live code and replay must agree; punishment must survive |
| kernel `src/organism.ts` | owns the ledgers and archives | expressGenes, recordContribution, harvestArtifact, recordDecision, settle, recordRegression | several appends per operation, memory changed before them |
| event store `src/eventStore.ts` | hash-chained JSONL file | append, events, constructor | torn lines, a second writer, an append that throws after the line is durable |
| strategy genes `src/strategyGenes.ts` | genes, outcomes, expressions | register, recordOutcome, select, express, replay | outcomes decide later expressions |
| candidate evolution `src/candidateEvolution.ts` | versions, incumbent, selections | initialize, consider, replay | memory before append; events are not trusted on replay |
| persistent learning `src/persistentLearningController.ts`, `scripts/runPersistentLearningController.ts` | event log, lock directory, snapshot | ingest, plan, reflect, tick | a crash anywhere in a tick; lock reclaim |
| dispatch `swarm/src/persistentLearningDispatchAdapter.js` | one record per dispatch key | dispatch | reconcile before retry, overlapping calls |
| research experiments `swarm/src/experimentStore.js`, `experimentProtocol.js` | references, ledger heads, lock file | initializeExperiment, appendEvent, recordAttestedOutcome, loadExperiment | several processes, stale locks, crashes |
| task coordinator `swarm/src/swarmTaskCoordinator.js` | board, stages | run | verify/repair loop at its limits; what a pass may rest on |
| turn gateway `swarm/src/swarmTurnGateway.js`, `gatewayRecoveryEvidence.js`, `shadowDiagnostics.js` | turns in flight, trace file, shadow file | complete, onTrace, shadow | concurrent turns, recovery calls, three accounts of one answer |
| swarm kernel `swarm/src/holographicSwarmKernel.js` | task graph, agents, energy events, outcomes | registerAgent, addTask, selfOrganize, recordPartialProgress, recordVerifiedOutcome, recordFailedOutcome | partial mutation before a refusal |
| sleep cycle `swarm/src/sleepCycle*.js`, `swarm/scripts/runSleepCycle.js` | queue file, ledger file, load samples | wait, run due work, record, save | wake-ups, ledger before queue, files that are not written atomically |
| adapter training `swarm/src/adapterConsolidation.js`, `swarm/scripts/runAdapterConsolidation.js` | ledger of a run, a machine, results in S3 | nextConsolidationJob, the runner, the trainer's shell | jobs offered again, two runners on one machine, no deadline |
| adapter gates `swarm/src/adapterCandidates.js`, `swarm/scripts/recordAdapterCandidateGates.js` | a candidate with its gates | recordAdapterGate, recordHostAdapterGate | calls in any order, with receipts of other adapters |
| intake `src/platformEpisode*.ts`, `scripts/servePlatformEpisodeIntake.ts`, `src/traceIntake.ts` | its own event log | ingest episode, manifest, trace | any order, redelivery, short writes, restarts |
| snapshot publisher `scripts/publishLearningSelectionSnapshot.ts`, `install-snapshot-publisher.sh` | two files on disk, two objects in S3 | derive, rename, upload | reads the log while it is written; four steps, any of them the last |
| learning stores `swarm/src/swarmLearningStore.js`, `persistentReplayMemory.js` | write-once files | record, read, list | a writer that dies half way; several writers of one name |
| research contracts `swarm/src/experimentProtocol.js`, `evaluationAttestation.js` | manifest, proposal, outcome, ledger events | validate, evaluate, attest, append | one rule spelled out per kind of metric; an altered verdict; events asked for by a model |
| skill learning `swarm/src/sequentialSkillLearning.js`, `checkedProcedure.js`, `persistentSkillLibrary.js`, `swarm/evals/sequentialSkillFixture.js`, `swarm/scripts/runSequentialSkillLearning.js` | a synthetic world per task, a library, an output directory per stage | tools of the world, the loop of a task, acquire, the two stages | mutations with an unknown effect; files that have to agree, left behind by a dead process |
| simulators, arenas, curricula, graders, model clients, infrastructure | - | - | data transformation and I/O |

The kernel calls its parts synchronously in one thread. The order inside an
operation is: change memory (graph, ledger), append an event, change memory,
append. Nothing is rolled back when an append throws. The next process replays
the log into the fitness ledger, the gene archive and the candidate archive;
the causal graph and the energy ledger start empty. The intake service has a
process and a log of its own over the same event store; the turn gateway and the
sleep daemon share a model server with the Platform's live requests.

`PROJECT.json` lists every component with its status and every hazard with the
line where it bites and the properties that cover it.

Cross-component protocol, in one picture:

```
operator files --> controller tick --> events.jsonl <-- kernel operations <-- host (receipts)
                     |  lock dir          ^  replay            |
                     v                    |                    v
                  dispatch record     EventStore       graph / energy / fitness / genes
researchers -> experimentStore: lock file, refs/, heads/ (one file per generation)
Platform --> intake service --> platform-events.jsonl --> publisher --> disk --> S3
Platform --> turn gateway --> model server <-- sleep daemon --> ledger, then queue
                |  trace file, reply, shadow file --> join with the Platform's attempts
```

## 2. Modules and how they correspond to the code

`map` in `PROJECT.json` names the lines of every definition. A definition whose
comment begins with `Slip:` is a plausible wrong version of the definition after
it; it is used by no specification and exists so that each property can be seen
to fail when the code is changed that way (`mutants`).

**CausalPaths, CausalGraph, CausalGraphSearch** (`src/causalGraph.ts`).
`CausalPaths` has nodes, edges, reachability and credit eligibility as plain
set definitions (least closed sets), shared by the graph and the kernel.
`CausalGraph` is the class: `AddContribution`, `AddHostWork`, `AddVerifier`,
`AddHostEdge`; `EdgeAllowed` holds the refusals of `addHostEdge` in their order.
`CausalGraphSearch` has the two work-list loops of the code. `ForwardPass` and
`BackwardPass` are one round of each, `SearchPath` and `SearchLineage` the state after as many
rounds as there are edges and one more; `SearchesAreExact` says that the loops
are over by then and have computed the closures.

**EnergyLedger** (`src/energyLedger.ts`), with **Totals** (sums over a set). One
action per method; `closeMission` settles every open reservation with zero and
deletes the accounts in one step because the method cannot be interrupted.
`granted` and `snapshots` are history variables for the conservation law and for what a close returns.

**OrganismKernel** (`src/organism.ts` with `fitnessLedger.ts`, the outcome and
expression part of `strategyGenes.ts`, and `append` of `eventStore.ts`).
`mem` is what the running process believes, `disk` what a replay of the log
yields. Because replay is a left fold, appending an event moves `disk` by the
replay of that event: `Settled`/`Regressed` are the live code,
`ReplaySettlement`/`ReplayRegression` the replay code, and that the two agree is
a property (`MemoryIsReplay`), not an assumption. Every append is a step of its
own: it goes through, is refused as a duplicate, or throws (`WriteFails`);
`todo` and `settling` remember where in the operation the process is.
`Restart` is death at any of these points followed by the constructor. A clean
restart is a death at rest. **CreditEscrow** is the abstract promise about one
escrow: none, provisional, vested or clawed back, decided once, punished at
most once, never resurrected; the log implements it (`DurableCredit`).

**ArchiveStore, CandidateEvolution, StrategyGenes, KernelArchives**
(`src/candidateEvolution.ts`, admission and verdicts of `src/strategyGenes.ts`,
the constructor of `src/organism.ts`). `ArchiveStore` is the event store as an
archive meets it: memory is changed, then `append` goes through (`Persists`) or
throws for a known id or a failing write (`Throws`), and nothing is rolled back.
As in the kernel, `archive` and `pool` are memory, `archived` and `pooled` what a replay
of the log yields; they move with each appended event by the replay of that
event. An event that a replay refuses makes the log `broken`: the constructor of
the next kernel throws. `Initialize` and `Consider` are the two operations of the
candidate archive, with `Judgement` in the order of the code; the id of a version is a
digest of the proposal and the id of its parent, so a version is the sequence of proposals
that led to it. `Register` and `RecordVerdict` are those of the gene archive; an
admission event may be named after the candidate a gene came from, so two genes may claim one id.
`KernelArchives` composes the two over one log: what breaks the log for one breaks
it for the other. `thrown` and `astray` are history variables.

**ExperimentStore** (`swarm/src/experimentStore.js`, transition table of
`experimentProtocol.js`). One caller is one call; a step is what it does
between two awaits that touch the shared directory: `Acquire`, `Stamp` (token
written), `Judge`, `Quarantine`, `Retry`, `TimesOut`, the callback steps
(`WriteReference`, `LinkGenesis`, `Reload`, `Load`, `Link`), `Release`, `Unlink`,
and the environment's `Age` and `Crash`.

**PersistentLearning** (`scripts/runPersistentLearningController.ts`,
`src/persistentLearningController.ts`, `swarm/src/persistentLearning*.js`).
`journal` is what the lines of `events.jsonl` say, `mind.store` the array of the
store object the tick works with; `mind.at` is the program counter.
`StartController` is `main` up to the loop with its preflights, `Tick` the
reopening and preflight of one round, `Ingest` one append of the import, `Plan`
is `planNext` with the branches of `developmentTick`, `Bind`/`Reflect`/`Resume`
their appends, and `Submit` .. `Adopt` are `dispatchInner`. `AppendEvent` is
`append`: it returns with its line whole, torn or without its newline, because
the count that `writeSync` returns is ignored, or it throws with none, any or all
of its line there; `Lands` is what the line makes of the file. After a short
write the tick goes on with a store that the file does not have, and what it
appends then stands behind the line that is missing, so the file cannot be read
any more. An exception ends up where the code catches it: in the loop for the
import, selection and reflection, in `developmentTick` for the dispatch. `work`
is outside the program: which work was selected, by the process or by the file,
how often the executor was started and whether it returned. **WorkOnce** is the
abstract promise: one selection, executed at most once, a receipt only for
executed work.

**ControllerLock** (`lock`, `deadLocalPid` and the returned `unlock` of the same
script). One process is one run of the script and therefore the token it
writes. Every file-system call of `lock()` is an action; pids and inode numbers
are used again.

**EventLog** (`src/eventStore.ts`). The file as a reader sees it: whole lines,
and a last line that is cut or lacks its newline. `LineFor` numbers and chains a
line from the **memory** of the process that writes it, as `append` does, not
from the file; `Written` says what a disturbed write leaves; `Readable` and `Read` are `readAndVerify`.

**PlatformIntake** (`src/platformEpisodeReceiver.ts`, `platformEpisodeIntake.ts`,
the serving script, the publisher script and its unit) drives `EventLog` through
`Log == INSTANCE EventLog`. A request is handled without interruption; `Write`
begins the line, and `WriteWhole`, `FallShort` (the byte count that `writeSync`
returns is ignored), `Throw` or `ReceiverDies` ends it. After `Throw` the process goes on
with a store that may no longer be the file; that is the interesting state. `Repeat`
is a redelivery that meets its id: it returns the held event or
conflicts. `Derive`, `RenameSnapshot`, `RenameDigest`, `UploadSnapshot`,
`UploadDigest` are the publisher, `Abandon` its end at any of them. `given` is a history variable: what the
Platform was told is stored.

**SleepCycle** (`swarm/scripts/runSleepCycle.js`, `sleepCycle.js`,
`sleepCycleExecutors.js`, gates of `swarmOrganismLearningCycle.js`). `daemon.at`
is the place in the loop: `Read` the queue and the ledger, `Poll` until
`decideSleepState` says asleep, `LookAtLoad` before each task, run it
(`JudgeGate`, `JudgeUnharvested`, `Grade`, `Throw`), then `AppendRecord`,
`WriteQueue`, `ReadLedgerBack` in the order of `Saves`. A candidate is the sequence of
its gate verdicts. `calm` (looks since a live request was seen) and `hidden`
(gates whose verdict the ledger records as an error) are history variables.

**TurnGateway** (`swarm/src/swarmTurnGateway.js` and its serving script,
`gatewayRecoveryEvidence.js`, `shadowDiagnostics.js`). One record per turn:
which calls answered, what was observed, the answer chosen and the compiled
`input` it is the answer to, with the private answers that its prompt quotes. `Deliberated`, `Criticized`, `Integrated`,
`Recovered` are the continuations after a call; `Budget` and `OutputTokens` are
`privateStageBudget` and the limits of the calls. The three accounts of a turn
are the line of the trace file, the metadata of the reply and the line of the shadow file; the join
of the shadow file with the attempts the Platform reports is `Matches`.

**SwarmKernel** (`swarm/src/holographicSwarmKernel.js`). One action per method
of the kernel, with the calls it makes on the task graph. A method that throws
half way is one of the outcomes of its action: what it changed before stays, and
`unfinished` remembers that it happened. `logged` is the sum of an agent's
energy events, to be compared with the energy the agent has. References are
counted, because the limits of task and pheromone field differ.

**TaskCoordinator** (`swarm/src/swarmTaskCoordinator.js`). One action per unit of
`run`: `Compile`, `Build`, `VerifyFails` or `VerifyPasses`, `Repair`,
`Integrate`, and `Throws` for a worker that fails, a clock that has run out or an
entry that is refused. `Proven` is `assertVerifiedCompletion`; `turn` is the
program counter, `stages` the units that ran with the size of the board each saw.

**AdapterGates** (`swarm/src/adapterCandidates.js`,
`swarm/scripts/recordAdapterCandidateGates.js`). `RecordAdapterGate` and
`RecordHostAdapterGate` are called with any gate, status and receipt;
`RecordThrough` is the script that makes the gates of training and holdout from
gradings. A receipt is what it was made from: the kind of the comparison, whether it
names this adapter, whether it speaks for it, whether it is ready.

**AdapterTraining** (`swarm/scripts/runAdapterConsolidation.js`,
`nextConsolidationJob` of `adapterConsolidation.js`). A runner's steps are its
calls to AWS and the lines of its ledger: `Choose`, `Look` (is the result in
S3?), `Boot`, `Send`, `Submit`, `Watch`, `JudgeJob`, `Record`. `machine` is the one trainer
with the container and the shell that will shut it down; `TrainerEnds` and
`PowerOff` are the shell's steps. `disturbed` (a run began beside another or
beside a running machine), `cut` (a container was removed in its work) and `trained`
are history variables.

**LearningStore** (`swarm/src/swarmLearningStore.js`). Every exclusive creation,
write and comparison of `writeImmutable` is a step, first for the object, then for the
reference; a capsule is read back before it is acknowledged. A file is missing,
begun, or the record in it. `owed` remembers what a listing has to show.

**ResearchProtocol** (`swarm/src/experimentProtocol.js`,
`evaluationAttestation.js`, `recordAttestedOutcome` of `experimentStore.js`).
`ValidManifest`, `ValidProposal` and `ValidOutcome` are the rules that relate the
parts of the three contracts, `PromotionEligible` is
`evaluateResearchPromotion` with one operator per kind of metric. `events` is the
ledger with the kind of its actors; `attestation` is on its way from the
evaluator to the store and may be altered (`Alter`), `evidence` is what was
recorded. The files of an experiment are `ExperimentStore`'s business.

**SkillLearning** (the study of skill learning). `world` is the fixture: lines
reserved, orders confirmed, invoices, and the records whose last mutation has
an unknown effect (`pending`); `taken` counts what each line took from stock.
`ReserveLine` .. `InspectRecord` are the tools; `Ask`, `EndTurn`, `InvokeSkill` are the
loop of a task, whose model may call anything at any time, as may a skill;
`Teach*` is the deterministic teacher. `run` and `output` are the
stage processes and the directories they write: every file is `Torn` before it
is whole, except the library, which is linked under its name.

`MC*` modules give the constants of these specifications small values.
`MCLibraries`, `MCProcesses`, `MCServices`, `MCExperimentStore` and `MCStudies` put components that share nothing into one run: an
initial state chooses the `part` that is explored, the others rest, so the state
spaces are added, not multiplied.

How they compose: `KernelArchives` extends the two archives over `ArchiveStore`;
`OrganismKernel` extends `CausalPaths` and `Totals`, and
refines `CreditEscrow`; `PersistentLearning` refines `WorkOnce` and stands on
what `ControllerLock` guarantees, that there is one writer. `PlatformIntake`
composes the receiver, the event file and the publisher over one `EventLog`.
What `PersistentLearning` takes as an append (it returns or throws, and leaves
nothing, a line, a torn line or one without its newline) is what `EventLog` writes
line by line. `OrganismKernel` and `ArchiveStore` take less of it: there an append
goes through with its whole line or throws with nothing (section 7).

## 3. Runs

| run | states | question | bounds |
|---|---|---|---|
| `libraries` | 396,720 | Graph: do late observations break credit, and are the code's searches the closures? Energy: is every unit accounted for? Swarm kernel: do agents and tasks agree? Coordinator: is a completed run proven? Gates: does an adapter go up the ladder, and to the host's gates and the shadow on what the code asks for them? | graph: 3 contributions, 1 host work, 1 verifier, 2 missions, 4 edges; energy: 2 missions x 2 actors, 3 reservations, 2 units per grant, 2 closes; swarm: 2 agents, 3 tasks, 4 claims; coordinator: 1 criterion, 1 item per unit, 1 repair, board of 5; gates: 6 receipts, 2 gradings per script |
| `kernel` | 360,244 | Is credit exact over two missions that share a gene, in any order of observations, verdicts and a regression, and does it survive failed writes, duplicates and deaths between appends? | credits 2 and 1, 1 artifact, 2 verifications, 1 regression receipt, 2 edges; 1 restart, and in worlds of one contribution 2 restarts, 2 failed writes and the energy accounts (see below) |
| `kernel_verdicts` | - | Is every reward or punishment of a gene kept? (violated, see 6) | as `kernel`, no failed writes |
| `archives` | 689,708 | Does an incumbent ever weaken, is the log inherited whole and does a kernel come up from it, when appends throw and processes die? | 2 missions, 5 proposals, lineages of 3; 3 genes, 2 of one admission id; 2 failed writes, restarts unbounded |
| `store` | 221,607 | Experiment store: are callers serialized, histories legal and acknowledged ledgers kept, and does every call end? Sleep daemon: does it work only in quiet hours, never twice, keep its two files in step, and get its work done? | store: 3 callers, 2 proposals, empty or running experiment, one may stall, one may die; daemon: 1 candidate with 2 gates, 2 orders, 2 tasks per cycle, window of 1 poll; 1 throw, 1 signal, 1 death |
| `store_race` | - | Is there one head per generation when nobody stalls? (violated, see 6) | as `store`, no stalls |
| `services` | 395,188 | Gateway: do trace, reply and shadow tell the same of each answer when turns overlap, calls fail and the process restarts, and does every turn end? Learning: is anything lost, forked, reflected too early or executed twice over ticks, edits, a crash and an append that throws or falls short? Intake: is what was acknowledged in the log and, in the end, in S3, whatever order messages come in and however a write ends? | gateway: 2 turns over a Mission and a chat request, 2 roles, 3 answers, 1 torn or lost line, 1 restart; learning: 3 payloads of 2 ids, 3 batches, a valid and an invalid input, 1 crash, 1 append that throws or falls short, edits and ticks unbounded; intake: 1 episode in 2 versions, its manifest, 1 unsound message, 1 disturbed write or upload, restarts unbounded |
| `manifests` | - | Is a message that was accepted answered as a duplicate when it comes again? (violated, see 6) | as `services`, intake only, no disturbed write |
| `processes` | 320,428 | Lock: can a late reclaim take the lock of a living controller, does a dead one block the service? Training: is the ledger honest, is a job trained twice, does every run end? Store: does what was acknowledged stay readable? | lock: 3 processes of one host, 2 with one pid, 1 of another host, 2 inode numbers, 2 attempts; training: 2 runners, 2 jobs, 1 failing call; store: 3 records of 2 names, 2 recorders, 1 listing, 1 failing write |
| `studies` | 571,958 | Contracts: does the recorded verdict follow from the evidence, can better evidence cost it, and may a model alone move an experiment? Tasks: is an unknown effect ever taken for granted or had twice? Stages: is what says it is completed whole, and does stage B go on from it? | contracts: 5 proposals, 3 manifests, outcomes with one thing wrong over 24 sets of measurements, ledgers until they end; tasks: 2 orders of 2 lines, every family and variant, 2 model calls, 5 tool calls; stages: 3 dispatches on 2 directories, 2 replicates |
| `holdouts` | - | Does a holdout gate rest on a comparison that speaks for the adapter? (violated, see 6) | as `libraries`, gates only |
| `retraining` | - | Is no job trained twice while every AWS call does its work? (violated, see 6) | as `processes`, training only, no failing call |

Why the bounds are enough for the cases that matter:

* `libraries`, graph: four edges over five nodes close every cycle shape a depth-first
  search distinguishes (self, two, three nodes) and leave one edge for an
  exclusion on a path. `MaxEdges` is in the guard of `AddHostEdge`.
* `libraries`, energy: `MaxAllocation` = 2 and three reservations give exact exhaustion,
  zero and full settlements, and a reservation left over from before a close
  while the key is funded again. `MaxCloses` bounds the repetition.
* `libraries`, the others: two tasks that may name each other are the least
  cycle, a third that waits for both the least that one completed dependency must not
  open. One reference more than the field takes and one more than the task takes
  throw at the two places. Five, six and seven units are one less than, exactly
  and one more than one repair needs. Receipts for, against and of another adapter,
  and a comparison that is not ready, are every answer a gate distinguishes.
* `kernel`: different credits show an outcome that counts the wrong escrow; the
  regression receipt of the other mission shows cross-mission punishment; two
  verifications of one mission show a second decision. Two faults and two
  restarts are needed for "an append threw, the process went on, died, and the
  next process met the same id again". The state space is the product of all of it, so
  `CONSTRAINT FaultsInSmallWorlds` explores parts of it side by side: host work
  and a second edge only in worlds without the second mission's contribution;
  failed writes, the second death and energy accounts only where a single
  contribution was made. The parts share one state graph and every property is
  checked in all.
* `archives`: a first candidate, a better one, a rash one (better in quality at
  the price of a milestone) and one built on the better one give every reason
  of a selection and a promotion on top of one the log does not have. A gene with
  a child, and another gene of the child's admission id, give a refused parent and a
  refused id. Two faults hit both archives in one life.
* `store`: three callers are the least that show a second waiter renaming the
  lock of a first one; the caller with an attested outcome meets an abort
  between its check and its lock; a second proposal claims the same id.
* `services`, learning: the second observation is older than the first one and may be
  imported later, so that "the next gap" changes under a pending one; a third
  payload contradicts an imported id. One crash and one fault can hit every
  append, and after a line that fell short every later append of the tick is met with
  it; with `Reconciles` the hook may also answer truthfully, which the
  service of today never does, so the run covers a superset of its behaviours.
* `services`, intake: two versions of one episode make a conflict; the manifest before and
  after its episode gives both values of `episodeKnownAtReceipt`; one fault is
  the least for "a write threw or fell short, the process went on, and the next
  write met what it had left". The theorems are for any number of them. The unsound message fires the refusal. Starts and stops are
  unbounded because they add no state.
* `store`, the daemon: a candidate with two gates has every verdict prefix; two tasks per
  cycle leave the third item to the next one; two orders show that the one
  before takes the cycle. A window of one poll keeps two samples, the least
  for which "kept for two windows" differs from "kept for one".
* `services`, gateway: two turns may be two attempts of one request, the case in which the
  join is ambiguous, or a Mission and a chat side by side. The Mission leaves exactly the
  minimum for the private stages and the chat one token less, so both sides of
  the comparison are met. The answers differ in what the code asks of them:
  complete, and readable as a plan.
* `processes`, lock: `Attempts` is 3 in the code and 2 here, so that with three local
  processes the limit is met. The code's value only adds a repetition of the
  same loop; the proof is for any number.
* `processes`, the others: two runners are the least for one that sends while
  another's container works, two jobs for one that is cut off by the next. Two
  records of one name are the least for a conflict, and two callers for one that
  reads what the other has only begun.

* `studies`: an offered outcome is the sound one with one thing changed, over costs
  that fall, stay, rise by what is allowed and by more, and floors that are measured sealed, as a
  canary, or not; so each refusal and each conjunct of the verdict is met alone. One proposal
  predicts that a cost does not regress. Two
  orders are what a composed task has; two lines make one that is reserved
  and one that is not. Five calls are an unknown effect, its inspection and what a
  wrong reconciliation would do next; the teacher is not bounded by them. Two dispatches of
  stage A were given one directory, one of them of another replicate, and a stage B that goes on
  from there may be begun before, during and after them.

`CHECK_DEADLOCK FALSE` is set where the system may stop: bounded histories run
out (all callers settled, all processes ended, edges, units or turns exhausted).

The type invariant of a module, and consequences a reader may look for by name,
are conjuncts of the properties the runs check: `Acyclic` in
`CreditStaysInMission`, `CloseRefundsReserves` in `BooksBalance`, `TypeOK` of the
kernel in `BalanceIsVestedCredit`, `ChainNeverForks` in `JournalReplays`,
`AdmissionIsKept` in `LogIsInherited`, `HistoryIsLegal` in
`AcknowledgedOrUnreadable`, `PublishedIsPrefix` in `LogTellsTheTruth`,
`StatusIsEarned` in `AgentsAndTasksAgree`, `PrivateCallsFit` in
`ServedIsAccounted`, `RedeliveryIsStable` in `DeliveredIsPublished`,
`DispatchIsBound` in `JournalReplays`, `OwesReflection` and `OwesDispatch` in
`DebtsArePaid`.

Some properties are conditional, and say so. `RestartChangesNothing` and
`LogIsInherited` hold until an append has thrown, or until a process goes on to
append after that: then a log may come about from which no kernel can be
constructed, and logged verdicts of a gene may be dropped; `AdmissionIsKept`
speaks of registrations that did not follow a throw of the same one. `SerializedUnlessStolen`: once a
quarantine has taken the lock of a living caller, callers do overlap, which is
the `store_race` finding. `DecidedOnce` speaks of executions without failed writes: an
escrow that could not be written and is recorded anew after a restart is
decided a second time, because its first decision names an escrow no replay
knows. `NotTrainedTwiceInTurn` speaks of runs that follow each other; the `retraining`
finding is what happens when they overlap. `RedeliveryIsStable` lets a manifest that
was answered 200 before its episode be answered 409 after it, and
`DeliveredIsPublished` counts it as delivered: its event is in the log. A message
whose line became durable in an append that threw was answered 400; it is delivered
again, and ends with 200 or, if it is a manifest and its episode came in between, with 409
(`Outrun`). Both disagree with the documents (the `manifests` run and section 6).
`GatesAreEarned` asks of a holdout gate its place in the ladder and nothing of its
receipt, since `recordAdapterGate` asks nothing (`holdouts`, section 6). Better
evidence, in `VerdictFollowsEvidence`, is better as the decision reads it: a
measurement under a prediction of `no_regression` gets better by not falling, also
where its metric is to decrease (section 6). In `JournalReplays` executed work has its
selection in the journal as long as the journal reads. `LedgerIsHonest` allows a training
that was cut off to be recorded failed, and says when that can happen.

## 4. Fairness

* `store`: weak fairness of `Advance(c)` per call, since the event loop runs
  every pending continuation; strong fairness of `TimesOut(c)`, because a waiter
  compares the clock with its deadline on each round of an unbounded loop and is
  past the deadline in all of them eventually. `Age`, `Crash` and `Start` have none.
* `services`, learning: weak fairness of `TickAdvances`: while the process is up the tick goes
  on and the timer starts the next one. None for `StartController`,
  `StopController`, `Crash`, `Edit`; the liveness property therefore ends in the cases in which the
  service is stopped or an operator file is unusable.
* `processes`, lock: weak fairness of `Advance(p)` per process: a running process makes its
  next call. When a controller is started, told to stop or dies is open.
* `processes`, training: weak fairness of a living runner's next step (its calls
  return or throw), of the end of a container and of a shutdown that was ordered.
  None for beginning a run, for failing calls or deaths: `JobsSettle` names
  them, and the machine that nobody is left to turn off, as its exceptions.
  The learning store promises nothing about time.
* `services`, intake: weak fairness of `StartReceiver` (systemd restarts the service whenever it
  ends), `Finish` (a request that writes ends) and `Publish` (the unit runs every
  hour); and `KeepsDelivering` of each sound message: the Platform delivers it
  again and again until it is answered with 200 or 409, unless the log is damaged.
  `Stop` and the faults have none.
* `store`, the daemon: weak fairness of `DaemonStarts` (systemd) and of the daemon's next step.
  Live requests have none: `NightWorkIsDone` supposes that they stop for good. It
  also names the case in which an order is not reached, an earlier order that is
  due in every cycle and takes its places.
* `services`, gateway: weak fairness of each turn and each shadow call, because every call
  to a backend has a timeout and its failure is one of the ways to go on. None
  for asking a turn or for the restart.
* `studies`: none. A task may stop at any call and a stage may hang until its
  deadline, which fails it.
* The libraries (graph, energy, swarm kernel, coordinator, gates, kernel, archives) promise nothing about time: a host calls
  them or does not, and no fairness is assumed.

## 5. Proofs

The proof modules show for **every** value of the constants what TLC shows for
small ones. They assume only the `ASSUME` of the specification they extend, which
says of its constants

* what they are: limits are natural numbers, and positive where the code demands it
  (`positive` of `sequentialSkillLearning.js`, the ranges of the gateway's
  settings); histories the experiment store starts with are paths of the
  transition table; functions have the domains and values of the code;
* that a sentinel (`NoLock`, `Torn`, `Nil`, `NoRecord`) is none of the values it
  stands beside;
* finiteness where the code has it and a sum or a count needs it: of
  contributions, of agents and of tasks;
* three facts that the code establishes itself: no two observations have one rank
  (`sortedObservations` breaks ties by id), no two deliberators of a gateway have one id and
  none has the id of a private stage (`validateRoles`), and a stage B is
  given the directory of some dispatch.

One module holds the proofs about one side of the system:

| module | components |
|---|---|
| `DataProofs` | sums, least numbers, induction and iteration, for the others |
| `OrganismKernelProofs` | the kernel with graph, fitness and energy |
| `KernelArchivesProofs` | candidate archive, gene archive and their log |
| `PersistentLearningProofs` | the learning service and its dispatch |
| `ExperimentStoreProofs` | experiment store, research contracts, sleep daemon |
| `PlatformIntakeProofs` | intake, event file, publisher |
| `ProcessProofs` | controller lock, learning store, adapter training, skill learning |
| `SwarmProofs` | causal graph with its searches, energy ledger, adapter gates, swarm kernel, task coordinator, turn gateway |

**Data.** The sum over a finite set is a natural number, empty sums are zero, and it is
additive over disjoint sets: obtained from cardinalities of sets of units. The
induction rules of the library take a predicate, which the provers cannot
instantiate; `Induction` and `Iteration` have a set in its place and follow from
the least element of a set of naturals (`LeastNumber`), which in turn is the
well-foundedness of `<`.

**Causal graph.** `Reach` is the least set closed under edges, so facts
about paths follow by exhibiting a closed set. An edge `s -> t` with no path
from `t` to `s` keeps the graph acyclic; credit edges stay in a mission; a
credit edge only adds to, an exclusion only takes from eligibility.
The *searches* (`SearchesStayExact`): what a search has visited or queued is
reachable and whatever an edge of a visited node leads to is visited or queued
(`Tracks`; `Gathers` for the credit walk), so an empty queue means that the visited
nodes are a closed set. What is queued and what may still be put in the queue gets
less in each round (`InTime`, `OnTime`), so the loop ends. Nothing is used of the
order in which the edges are listed.

**Energy ledger.** The theorem `Books` is `BooksBalance`, the types and the
conservation laws in one. Its invariant adds what makes it inductive: grants exist only
for held accounts, `available` and `spent` are non-negative, and the open
reservations of a key are finite (otherwise `closeMission` could not be compared with a
sum).

**Kernel archives.** Memory and replay agree on a mission's incumbent, or
memory has one that is not among the versions a replay knows (`InStep`). In the
first case replay does what `consider` did; in the second no later mutation of
the incumbent can be replayed, because its parent is missing, and the durable
incumbent stays where it was. `Ahead` (a version promoted over its parent is not
behind the incumbent) is what makes a mutation whose append threw new to the
log. From this follow `IncumbentNeverWeakens`, `RestartChangesNothing` and, with the
bookkeeping of genes that memory has and the log has not, `LogIsInherited` and `AdmissionIsKept`.

**Kernel.** The base invariant is `TypeOK` with `DiskBehind`: an
escrow that memory has no credit for is absent from disk too. Every action
is reduced to what it does to a projection (opened, settled, regressed or
unaffected), once for `mem` and once for `disk`; from these steps follow the
balance law, `MemoryIsReplay`, the refinement of `CreditEscrow` and the lineage
of vesting. `DecidedOnce` needs `SameEscrows` and `DecidedForGood` (what a
logged verification decided, replay finds decided). `OutcomesAreExact` needs
`AllSaid`, which covers the pending outcomes and the disk as well, and
`ReceiptsKnown`, that a receipt that decided an escrow left its node or its
event behind, so no later settlement can use it.

**Learning service.** `IInv` says what each step of a tick knows. Inside a tick
either the store is what the file says (it is reopened after an append that threw)
or a line fell short, the file is torn and stays so (`StoreFits`); a journal that
reads is up to date with the work that was selected and run, a torn one may lack it but says
nothing false (`JournalFits`). By the store, the planned action is pending, the
selection is there before reflection and dispatch, and the record tells the truth
about the executor. From it: an entry gets into the journal only over a store that
is the journal (`AppendsFromJournal`), so the journal replays and never forks and
no reflection precedes its selection; and the specification implements `WorkOnce`,
by the store where the file has failed.

**Experiment store.** `HeadsFit`: the heads are beginnings of paths of the
transition table, none is there without those before it, and all are of the
proposal that both references name; `CallFits`: a call is about to link only what follows
a head, and has acknowledged only what is one; `LockFits`: as long as
nobody lost a lock, a caller in the critical steps holds it, there is one head
per generation, and whoever is about to link has a ledger longer than all. When a lock
is stolen only the last part goes, and two heads of one generation make every load throw; so what
a load does return continues everything acknowledged.

**Research contracts.** `ResearchInv`: the ledger's events are a walk through the
transition table (`Walk`), which passes through "approved" before it runs, and the
approval was not a model's; the recorded evidence carries the verdict recomputed from
it. Monotonicity of the verdict is a theorem of its own
(`BetterEvidenceKeepsEligible`), per kind of metric. It needs that predictions are
about the development and validation measurements and the decision's own conditions about the sealed and canary
ones (`ValidPredictions`), so that a measurement is read one way only (`PredictionReads`, `DecisionReads`).

**Sleep daemon.** `NightInv`: a verdict in the queue file is in the ledger, or was recorded
there as an error (`QueueSeen`); one in the registry of the running cycle may also
be that of a task whose record is yet to be appended (`RegistrySeen`); the records and the
tasks of a candidate climb one gate at a time (`LedgerClimbs`, `TasksClimb`); if nothing
died, no record is beyond the queue that will be written (`GatesCovered`, `TasksCovered`). And
when a task starts, the looks without a live request are a whole window, because the samples have
counted them (`SamplesCount`).

**Intake.** `ServiceFits`: the store of a running service has every event that was
acknowledged; as long as the file is readable the store is a beginning of its chain, which
lacks the event of a write that threw, and while no write was disturbed it is all
of it (`FileFits`). `PublisherFits` orders the four copies: each is a prefix of the one it was made
from, and of the chain. `LogTellsTheTruth` follows, and
`RedeliveryIsStable` (theorem `RedeliveryStaysStable`).

**Controller lock.** A process makes at most one lock directory in its life
and never runs again after it finished. So an owner judged dead stays
finished, whoever has its pid (`JudgedAreFinished`); its directory can only
disappear through a rename; a claim in that directory stays and is exclusive
(`ClaimsStay`, `OneClaim`); and whoever has compared the owner after claiming
still finds that directory under the name (`ComparedStays`). The inode
comparison is not needed for safety.

**Learning store.** `LInv` says that only the one caller that began a
reference may still write it (`OneRefWriter`: nobody opens a file a
second time), that whoever is past the object finds it whole, that a whole
reference leads to a whole object, and that what a listing owes is whole and
either read or still to be read. The first part is what makes an acknowledged
reference stay: without it a second writer might overwrite it with a record of the same name.

**Adapter training.** `TrainingInv`: a finding is recorded as what the look at S3
came to, and a job whose result is missing crashed, was cut off, or met a call
that did not do its work (`EndsKnown`); a runner that began alone finds the machine
off before it boots it, and without a container before it sends (`Alone`). The
second part gives `NotTrainedTwiceInTurn`, the first `LedgerIsHonest`.

**Skill learning.** `WorkerInv`: what the worker last read of a record is so
unless the record has a mutation of unknown effect (`Accurate`), stock is taken once for
each line reserved (`Booked`), and at each step of the teacher the part of the target before
it is done, at most one of its calls fails, and what that pass has left the next
one makes up for (`TeacherFits`). `StagesInv`:
an output directory is written by the dispatch that made it, file by file in the order
of the program (`Wrote`), and a stage B past its checks goes on from the library of a completed stage
A of its replicate (`Follows`).

**Adapter gates.** A candidate's gates are the ladder's in order, all but the
last passed (`Climbed`), and its status, next gate and releases follow from
them (`Standing`).

**Swarm kernel.** `AgentsAndTasksAgree` is inductive as it stands; the work is in
the refresh of blocked tasks, which is stated as what it does to one task and
composed with each method.

**Task coordinator.** `TaskInv`: how many units have run is known from whose turn it
is (`UnitsBefore`); when it is the integrator's, the last unit was a
verifier that saw the board as it is and whose verdict is proven (`Judged`); and what completed
rests on that (`RestsOnEvidence`).

**Turn gateway.** `Told` says for each place of a turn which calls it has
made, in which order, and with what answers; `Attributes` that its answer is that of the call its
account names, and `Final` that the account of a finished turn is legal and its answer fit to be served.
`GInv` adds the files: a turn that has replied has one line in an intact trace, which is its account
(`Traced`); a shadow record is about such a turn and compares with what it served (`RecordFits`);
what the Platform accepted for a request is what one of its turns served (`AttemptFits`).

Only model-checked are the liveness properties, `CallsSettle`, `DebtsArePaid`,
`ReclaimOpensTheLock`, `DeliveredIsPublished`, `NightWorkIsDone`, `TurnsEnd` and
`JobsSettle`, because TLAPS has no support for `ENABLED`, on which fairness
rests. `RedeliveryIsStable`, the safety part of `DeliveredIsPublished`, is proved.

## 6. Where code and documents disagree

* `kernel_verdicts` / `NoVerdictIsLost`: `settle()` appends the settlement first
  and one gene outcome per gene afterwards (`src/organism.ts:224-278`). A death
  in between loses the gene's verdict for good: replay reads outcomes only from
  their own events and the receipt cannot be settled again. `README.md:63-65`
  promises that neither reward nor punishment disappears on restart.
* `store_race` / `OneHeadPerGeneration`: two waiters judge the lock of a dead
  owner stale; the first quarantines it and takes the lock, the second renames
  the fresh lock away (`swarm/src/experimentStore.js:398-406`), and both link a
  head of the same generation. Every later load throws.
  `docs/swarm/RESEARCH_EXPERIMENT_PROTOCOL.md:162-164` says that the lock
  serializes writers and that stale locks are recoverable. `ControllerLock`
  solves the same problem with an exclusive claim inside the directory and a
  second look, and there the property holds and is proved.

* `retraining` / `NotTrainedTwice`: the runner looks for a job's result once, then
  starts the machine and waits for it before it sends its command
  (`swarm/scripts/runAdapterConsolidation.js:109-139`). When a second runner is
  begun while the first one's container works, the result may come in between, and
  the job is trained again. Its comment at `:121` says of
  this very case "do not train twice".
* `manifests` / `AcceptedIsDuplicate`: `episodeKnownAtReceipt` is part of the payload
  that `appendIdempotent` compares (`src/platformEpisodeIntake.ts:142`,
  `:189-203`), so a content manifest that was answered 200 before its episode is
  answered 409 when it is delivered again after it. The title of
  `test/platformContentManifest.test.ts:49` and `docs/PLATFORM_EPISODE_INTAKE.md:35-37`,
  `:99` say that it is accepted before or after its episode and that a duplicate is
  answered 200. The event of the first delivery stays.
* `holdouts` / `HoldoutsAreCompared`: the comment on `recordAdapterGate`
  (`swarm/src/adapterCandidates.js:77-84`) says that a holdout gate requires a paired
  comparison receipt that names this adapter and passes only in its favour. The
  function (`:85-106`) looks at a comparison for the shadow gate only; a holdout passes with
  whatever status and receipt the caller brings. `recordAdapterCandidateGates.js`
  makes the two from gradings; other callers need not.

Disagreements that no run is made for:

* `docs/PLATFORM_EPISODE_INTAKE.md:36-37` says "No event is written on any
  non-200 path". When `append` throws after its line is durable (a failed `fsync`), the receiver
  answers 400 (`src/platformEpisodeReceiver.ts:128-141`) and the event is in the
  file. `Throw` in `PlatformIntake` does this; `LogTellsTheTruth` holds with it, because it
  speaks of what was answered 200, and the next delivery is answered 200, or 409 if the episode
  came in between.
* `scripts/runPersistentLearningController.ts:116-117`, `:198` call the selection durable before the
  reflection is consumed and the work dispatched. `append` takes a short
  write for a whole line (`src/eventStore.ts:69`): the tick goes on, and the work is
  dispatched over a journal that lacks its selection and cannot be read again.
  `JournalReplays` and `WorkIsDoneOnce` cover this case: the executor still runs at most
  once, because no later tick gets past the torn file.
* A required prediction of `no_regression` asks for `delta >= -minimumDelta`
  whatever the direction of its metric (`swarm/src/experimentProtocol.js:807-811`), while the
  regression of a secondary metric (`:606-616`) is measured in the metric's direction. On a metric that is to
  decrease an improvement by more than `minimumDelta` fails the prediction and
  costs the verdict, and a worsening passes it.
* The comment at `swarm/src/sleepCycleExecutors.js:230` speaks of each standing
  order's last **successful** run. The code skips runs that errored and counts those whose
  verdict is a failure; so does `OrderRuns`.

## 7. What is abstracted, and what is not modelled

* Receipts are identified with the mission or verification they are for; a
  verification and its official receipt share one id. The gate accepts them.
* Credit and energy are whole units; `quality` and other observations are left
  out where no guard reads them. In `OrganismKernel` genes are admitted
  beforehand; their admission is `StrategyGenes`.
* In the archives the receipt checks pass, evidence is well formed, and of the
  gene archive `select`, `retentionSet` and `proposeVariations` are left out:
  they rank by floating-point scores and change no state.
* In the kernel and archive models a failing append writes nothing, and one that
  returns has written its whole line. That a failing append may leave a whole or torn
  line, and that one may return with a part of its line (`append` ignores the count
  of `writeSync`), is modelled in `PersistentLearning`, where the service reopens its
  store each tick, and in `PlatformIntake`, where it does not. For the kernel a
  line that is cut in its middle means that no later kernel is constructed from the file.
* In the experiment store a ledger stands for its own digest, an evaluation
  manifest for its proposal, objects exist before a head refers to them, an
  append to a missing experiment fails like a load that fails; signatures and
  temporary files are left out.
* In the learning service one selection is made in a journal's life, so the
  record is the record of that selection; the executor's effect counts from its
  start; `controller.json` and the refusals about a dedicated directory are left
  out; `snapshot.json` is derived and never read back.
* In the lock the removal of the retired directory is private to its process and
  left out; a process that fails to write `owner.json` for any reason takes the
  same path.

* In the intake every check of a message (bearer, size, signature, contract,
  digests, identity) is one verdict, `Sound`; an event is its id, its body and
  whether the episode was known. A death of the machine between `writeSync` and
  `fsyncSync`, after a reader has seen the line, is left out. What a snapshot selects is a function
  of the chain it was derived from, so the chain stands for it.
* In the sleep cycle time passes in polls, the orders file does not change, and
  what an executor computes is its verdict. `recent` stands for the ledger's
  last runs that are inside their interval.
* In the gateway, text and its truncation are tokens of a budget; the agreement
  text, tenant policy and HTTP status codes are left out (every refusal is
  `failed`), as is what the shadow model answered. The Platform is external: it
  keeps the first reply to a request that reaches it.

* In the swarm kernel scores, vectors and the decay of pheromones are left out: a
  score only orders bids, so any order of bids is possible. A reward is one of a few
  amounts.
* In the coordinator an entry is its kind, status and whether it has a receipt;
  a criterion cites positions of the board. What a worker computes is any entry
  it may bring.
* In the gates an adapter is one that a receipt names or does not; digests and
  schemas are taken as checked. How a plan, its contracts and its datasets are
  compiled is left out of the training, as are instances that AWS replaces.
* In the learning store a record stands for its digest and its contents; the
  directory listing that `readdir` returns is the set of names there at that moment.

* In the research contracts ids, dates, digests and the well-formedness of a
  single field are taken as checked; a metric's baseline is 0, so that its value is its
  delta, and a signature is whether it is of what it stands beside.
* In skill learning quantities and revisions are left out: a line is reserved or not,
  and a call with a stale revision is one of the refused calls, which change
  nothing. What a checked procedure calls is open, and so are the
  answers of a model; prompts, tokenizer and transport accounting are left out.

Not modelled at all, with reasons in `PROJECT.json`: numeric parts (vector
algebra, decay, statistics), validation and digests, simulators, graders,
curricula, model clients, infrastructure and training code.

## 8. Plan

Done: the kernel with graph, energy, fitness and its archives, the experiment
store, the learning service with its lock, the event file with the intake and the
publisher, the sleep daemon, the turn gateway, the swarm kernel, the task
coordinator, adapter training and gates, the learning store, the research contracts
and the study of skill learning. Left, most important
first:

1. Proofs of the safety half of the liveness arguments: a rank that every step of a
   reclaim, a turn, a call or a training lowers. The fairness that then ends it stays
   with TLC.
2. Overlapping dispatches of one key and the single-flight queue of the adapter;
   the kernel with a reused regression receipt (memory is clawed back before the
   duplicate append throws).
3. The state directory of the learning service (`controller.json`, a death that
   leaves a stray file), and the length of its journal under dispatches that are
   never resolved.
4. The replay memory as a file beside `LearningStore`, with the link that makes a
   whole file appear at once.

Running it: `tlc -config MCOrganismKernel.cfg MCOrganismKernel` and so on for the
runs in `PROJECT.json`; `tlapm OrganismKernelProofs.tla` and so on for the proof
modules of section 5, which take between one and ten minutes each.
