----------------------------- MODULE SleepCycle -----------------------------
(***************************************************************************)
(* The sleep-cycle daemon (swarm/scripts/runSleepCycle.js) with the idle   *)
(* decision and the cycle of swarm/src/sleepCycle.js, the executors and    *)
(* the candidate registry of swarm/src/sleepCycleExecutors.js and the      *)
(* gates of swarm/src/swarmOrganismLearningCycle.js.                       *)
(* The daemon polls the load of the model server.  When the quiet window   *)
(* is covered it runs the due work items one after another, looking at the *)
(* load before each, and stops at the first live request.  Then it appends *)
(* the cycle record to the ledger and writes the advanced candidates to    *)
(* the queue file; neither write is atomic.  systemd starts it again.      *)
(***************************************************************************)
EXTENDS Naturals, Sequences, SequencesExt

CONSTANTS
    Candidates,     \* sequence of the candidates, in the order of their ids
    Orders,         \* sequence of the standing orders
    Window,         \* quietMilliseconds in polls
    MaxTasks,       \* policy.maxTasksPerCycle
    MaxThrows, MaxSignals, MaxDeaths,   \* bounds
    Torn            \* a file that is not JSON

ASSUME SleepAssumption ==
    /\ Window \in Nat \ {0} /\ MaxTasks \in Nat \ {0}
    /\ MaxThrows \in Nat /\ MaxSignals \in Nat /\ MaxDeaths \in Nat
    /\ Candidates \in Seq(ToSet(Candidates)) /\ Orders \in Seq(ToSet(Orders))
    /\ ToSet(Candidates) \cap ToSet(Orders) = {}

Candidate == ToSet(Candidates)
Order == ToSet(Orders)

VARIABLES
    queue,      \* the queue file: the verdicts each candidate has, or Torn
    ledger,     \* the ledger file: how it ends, and the gate verdicts it records
    recent,     \* orders with a recorded run inside their minimum interval
    daemon,     \* the process
    load,       \* of the model server
    calm,       \* looks since a live request was seen last, up to Window + 1
    hidden,     \* gates a candidate passed or failed in a task that errored
    throws, signals, deaths

nightVars == <<queue, ledger, recent, daemon, load, calm, hidden, throws, signals, deaths>>

\* Gates after the simulation that are run in sleep.
Gates == <<"immutable-artifact-replay", "real-qwen-phase-probes">>
Verdict == {"passed", "failed"}
Verdicts == {<<>>} \cup {<<v>> : v \in Verdict} \cup {<<"passed", v>> : v \in Verdict}
ServerLoad == {"quiet", "busy", "dark"}   \* dark: the metrics cannot be read

GateRecord == [candidate : Candidate, gate : 1..Len(Gates), verdict : Verdict]
Task ==
    [item : Candidate, gate : 1..Len(Gates), status : Verdict \cup {"errored"}]
        \cup [item : Order, gate : {0}, status : Verdict \cup {"errored"}]
DaemonStage == {"down", "read", "waiting", "cycle", "task", "append", "queue", "readback"}
Down ==
    [at |-> "down", registry |-> [c \in Candidate |-> <<>>], items |-> {},
     tasks |-> <<>>, samples |-> <<>>, aborted |-> FALSE]

NightInit ==
    /\ queue = [c \in Candidate |-> <<>>]
    /\ ledger = [tail |-> "ended", gates |-> {}]
    /\ recent = {}
    /\ daemon = Down
    /\ load \in ServerLoad /\ calm = 0
    /\ hidden = {}
    /\ throws = 0 /\ signals = 0 /\ deaths = 0

-----------------------------------------------------------------------------
\* What is to do.

\* nextOrganismLearningAction yields a gate that runs in sleep.
Runnable(verdicts) == Len(verdicts) < Len(Gates) /\ "failed" \notin ToSet(verdicts)

\* sleepWorkFromCandidates, then sleepWorkFromStandingOrders: an order is due
\* when no run of it that did not error is recorded inside its interval.
Work(candidates, lastRuns) ==
    {c \in Candidate : Runnable(candidates[c])} \cup (Order \ lastRuns)

\* Candidates go first, each list in its order.
First(items) ==
    LET plan == Candidates \o Orders
    IN  plan[CHOOSE i \in DOMAIN plan :
                plan[i] \in items /\ \A k \in 1..(i - 1) : plan[k] \notin items]

\* Slip: the promotion queue is preferred to the queue the daemon wrote.
SourceFirst(file) == [c \in Candidate |-> <<>>]

\* firstExisting: the queue the daemon wrote, else the promotion queue.
Source(file) == file

\* A restart of the container: the daemon begins with its first round.
DaemonStarts ==
    /\ daemon.at = "down"
    /\ daemon' = [Down EXCEPT !.at = "read"]
    /\ UNCHANGED <<queue, ledger, recent, load, calm, hidden, throws, signals, deaths>>

\* A round begins: a signal has ended the loop, a torn file ends the process,
\* nothing to do waits and looks again, else the daemon waits for sleep.
Read ==
    /\ daemon.at = "read"
    /\ daemon' =
         IF daemon.aborted \/ queue = Torn \/ ledger.tail = "torn" THEN Down
         ELSE LET items == Work(Source(queue), recent) IN
              IF items = {} THEN daemon
              ELSE [daemon EXCEPT !.at = "waiting", !.registry = Source(queue),
                                  !.items = items, !.samples = <<>>]
    /\ UNCHANGED <<queue, ledger, recent, load, calm, hidden, throws, signals, deaths>>

-----------------------------------------------------------------------------
\* The idle decision.

\* Slip: samples older than one quiet window are dropped.
RememberedShort(samples) == SubSeq(samples, 1, IF Len(samples) < Window THEN Len(samples) ELSE Window)

\* Samples, the newest first, are kept for two quiet windows.
Remembered(samples) ==
    SubSeq(samples, 1, IF Len(samples) < 2 * Window THEN Len(samples) ELSE 2 * Window)

\* The sample at position i is i - 1 polls and a moment old.
Observed(samples) == {i \in DOMAIN samples : samples[i] # "dark"}

\* decideSleepState says asleep: the newest observation is at most two polls
\* old, and the quiet run that ends with it began before the window.
Asleep(samples) ==
    \E newest, oldest \in Observed(samples) :
        /\ \A i \in Observed(samples) : newest <= i
        /\ newest <= 2
        /\ oldest > Window
        /\ \A i \in Observed(samples) : i <= oldest => samples[i] = "quiet"

\* The load was looked at: a live request starts the count anew.
Noticed ==
    calm' = IF load = "busy" THEN 0
            ELSE IF calm <= Window THEN calm + 1 ELSE calm

\* waitUntilAsleep: one poll.
Poll ==
    /\ daemon.at = "waiting"
    /\ IF daemon.aborted THEN daemon' = Down /\ UNCHANGED calm
       ELSE LET samples == Remembered(<<load>> \o daemon.samples) IN
            /\ daemon' = IF Asleep(samples)
                         THEN [daemon EXCEPT !.at = "cycle", !.tasks = <<>>, !.samples = <<>>]
                         ELSE [daemon EXCEPT !.samples = samples]
            /\ Noticed
    /\ UNCHANGED <<queue, ledger, recent, load, hidden, throws, signals, deaths>>

-----------------------------------------------------------------------------
\* The cycle: runSleepCycle.

\* An order that is due is run whole; one of the candidates at its next gate.
TaskOf(item, status) ==
    [item |-> item, status |-> status,
     gate |-> IF item \in Candidate THEN Len(daemon.registry[item]) + 1 ELSE 0]

\* Slip: the queue is written before the record is appended.
SavesQueueFirst == <<"queue", "append", "readback", "read">>

\* The record first, then the queue, then the ledger is read for the summary.
Saves == <<"append", "queue", "readback", "read">>
After(step) == Saves[(CHOOSE i \in DOMAIN Saves : Saves[i] = step) + 1]

\* After the last item, at the task limit, on a signal or when the time budget
\* is spent the cycle ends; otherwise the load is looked at, and a live request
\* or unreadable metrics end it too.
Spent == daemon.items = {} \/ daemon.aborted \/ Len(daemon.tasks) >= MaxTasks
EndCycle ==
    /\ daemon.at = "cycle"
    /\ Spent \/ daemon.tasks # <<>>
    /\ daemon' = [daemon EXCEPT !.at = Saves[1]]
    /\ UNCHANGED <<queue, ledger, recent, load, calm, hidden, throws, signals, deaths>>
LookAtLoad ==
    /\ daemon.at = "cycle" /\ ~Spent
    /\ daemon' = [daemon EXCEPT !.at = IF load = "quiet" THEN "task" ELSE Saves[1]]
    /\ Noticed
    /\ UNCHANGED <<queue, ledger, recent, load, hidden, throws, signals, deaths>>

Done(status, registry) ==
    daemon' = [daemon EXCEPT !.at = "cycle", !.items = daemon.items \ {First(daemon.items)},
                             !.tasks = Append(daemon.tasks, TaskOf(First(daemon.items), status)),
                             !.registry = registry]
Advanced(c, verdict) == [daemon.registry EXCEPT ![c] = Append(daemon.registry[c], verdict)]

\* An executor judges the gate and puts the advanced candidate into the
\* registry.
JudgeGate(verdict) ==
    /\ daemon.at = "task" /\ First(daemon.items) \in Candidate
    /\ Done(verdict, Advanced(First(daemon.items), verdict))
    /\ UNCHANGED <<queue, ledger, recent, load, calm, hidden, throws, signals, deaths>>

\* The phase probes put the candidate into the registry, then harvest
\* preference pairs; when the harvest throws the task is recorded as errored.
JudgeUnharvested(verdict) ==
    LET c == First(daemon.items) IN
    /\ daemon.at = "task" /\ c \in Candidate
    /\ Gates[Len(daemon.registry[c]) + 1] = "real-qwen-phase-probes"
    /\ throws < MaxThrows /\ throws' = throws + 1
    /\ Done("errored", Advanced(c, verdict))
    /\ hidden' = hidden \cup {<<c, Len(daemon.registry[c]) + 1>>}
    /\ UNCHANGED <<queue, ledger, recent, load, calm, signals, deaths>>

\* Grading of an order: every model is graded, or a signal cuts it short and it
\* is reported as failed when a model was left out.
Grade ==
    /\ daemon.at = "task" /\ First(daemon.items) \in Order
    /\ \E status \in {"passed"} \cup IF daemon.aborted THEN {"failed"} ELSE {} :
         Done(status, daemon.registry)
    /\ UNCHANGED <<queue, ledger, recent, load, calm, hidden, throws, signals, deaths>>

\* An executor throws before it has changed anything.
Throw ==
    /\ daemon.at = "task" /\ throws < MaxThrows /\ throws' = throws + 1
    /\ Done("errored", daemon.registry)
    /\ UNCHANGED <<queue, ledger, recent, load, calm, hidden, signals, deaths>>

-----------------------------------------------------------------------------
\* What is kept.

GateRecords(tasks) ==
    {[candidate |-> t.item, gate |-> t.gate, verdict |-> t.status] :
        t \in {u \in ToSet(tasks) : u.item \in Candidate /\ u.status # "errored"}}

\* lastStandingOrderRuns: every run that did not error counts.
OrderRuns(tasks) == {t.item : t \in {u \in ToSet(tasks) : u.item \in Order /\ u.status # "errored"}}

\* appendFile of the record.  After a line without its newline it makes one
\* unreadable line with it, after which the ledger cannot be read.
RecordOnDisk(tail) ==
    /\ ledger' = [tail |-> IF ledger.tail = "ended" THEN tail ELSE "torn",
                  gates |-> ledger.gates \cup GateRecords(daemon.tasks)]
    /\ recent' = recent \cup OrderRuns(daemon.tasks)

AppendRecord ==
    /\ daemon.at = "append" /\ RecordOnDisk("ended")
    /\ daemon' = [daemon EXCEPT !.at = After("append")]
    /\ UNCHANGED <<queue, load, calm, hidden, throws, signals, deaths>>
WriteQueue ==
    /\ daemon.at = "queue" /\ queue' = daemon.registry
    /\ daemon' = [daemon EXCEPT !.at = After("queue")]
    /\ UNCHANGED <<ledger, recent, load, calm, hidden, throws, signals, deaths>>
ReadLedgerBack ==
    /\ daemon.at = "readback"
    /\ daemon' = IF ledger.tail = "torn" THEN Down
                 ELSE [Down EXCEPT !.at = After("readback"), !.aborted = daemon.aborted]
    /\ UNCHANGED <<queue, ledger, recent, load, calm, hidden, throws, signals, deaths>>

\* The process is killed, or a write fails and the exception ends it: the file
\* that is being written keeps its content, is torn, or is written whole.
DaemonDies ==
    /\ daemon.at # "down" /\ deaths < MaxDeaths /\ deaths' = deaths + 1
    /\ daemon' = Down
    /\ \/ UNCHANGED <<queue, ledger, recent>>
       \/ /\ daemon.at = "append" /\ UNCHANGED queue
          /\ \/ \E tail \in {"ended", "unended"} : RecordOnDisk(tail)
             \/ ledger' = [ledger EXCEPT !.tail = "torn"] /\ UNCHANGED recent
       \/ /\ daemon.at = "queue" /\ UNCHANGED <<ledger, recent>>
          /\ queue' \in {daemon.registry, Torn}
    /\ UNCHANGED <<load, calm, hidden, throws, signals>>

\* SIGTERM or SIGINT: the loop ends at its next check.
Signal ==
    /\ daemon.at # "down" /\ ~daemon.aborted
    /\ signals < MaxSignals /\ signals' = signals + 1
    /\ daemon' = [daemon EXCEPT !.aborted = TRUE]
    /\ UNCHANGED <<queue, ledger, recent, load, calm, hidden, throws, deaths>>

\* Requests come and go, the metrics endpoint too, and intervals pass.
LoadChanges ==
    /\ load' \in ServerLoad \ {load}
    /\ UNCHANGED <<queue, ledger, recent, daemon, calm, hidden, throws, signals, deaths>>
IntervalPasses(o) ==
    /\ o \in recent /\ recent' = recent \ {o}
    /\ UNCHANGED <<queue, ledger, daemon, load, calm, hidden, throws, signals, deaths>>

DaemonStep ==
    \/ Read \/ Poll \/ EndCycle \/ LookAtLoad
    \/ \E v \in Verdict : JudgeGate(v) \/ JudgeUnharvested(v)
    \/ Grade \/ Throw
    \/ AppendRecord \/ WriteQueue \/ ReadLedgerBack

NightNext ==
    \/ DaemonStarts \/ DaemonStep \/ DaemonDies \/ Signal
    \/ LoadChanges \/ \E o \in Order : IntervalPasses(o)

NightSpec == NightInit /\ [][NightNext]_nightVars

\* systemd starts the daemon again (Restart=always); a running process goes on.
FairNightSpec == NightSpec /\ WF_nightVars(DaemonStarts) /\ WF_nightVars(DaemonStep)

-----------------------------------------------------------------------------
NightTypeOK ==
    /\ queue \in [Candidate -> Verdicts] \cup {Torn}
    /\ ledger \in [tail : {"ended", "unended", "torn"}, gates : SUBSET GateRecord]
    /\ recent \subseteq Order
    /\ daemon \in [at : DaemonStage, registry : [Candidate -> Verdicts],
                   items : SUBSET (Candidate \cup Order), tasks : Seq(Task),
                   samples : Seq(ServerLoad), aborted : BOOLEAN]
    /\ load \in ServerLoad /\ calm \in 0..(Window + 1)
    /\ hidden \subseteq Candidate \X (1..Len(Gates))
    /\ throws \in 0..MaxThrows /\ signals \in 0..MaxSignals /\ deaths \in 0..MaxDeaths

Recorded(c, gate, verdict) ==
    [candidate |-> c, gate |-> gate, verdict |-> verdict] \in ledger.gates

\* A verdict that the queue file claims for a candidate is in the ledger,
\* wherever the process died between the two files, except for a gate whose
\* harvest threw after the candidate was advanced; and the ledger records
\* verdicts of a gate only for a candidate with a recorded pass of the gate before.
QueueIsWitnessed ==
    /\ NightTypeOK
    /\ queue # Torn =>
         \A c \in Candidate : \A g \in DOMAIN queue[c] :
             <<c, g>> \in hidden \/ Recorded(c, g, queue[c][g])
    /\ \A r \in ledger.gates : r.gate > 1 => Recorded(r.candidate, r.gate - 1, "passed")

Starts(item) == daemon.at = "cycle" /\ daemon'.at = "task" /\ First(daemon.items) = item

\* A task starts only when no live request was seen for a whole quiet window; a
\* candidate never at a gate the queue file has decided or after a failed gate;
\* a gate with a recorded verdict only after a death; an order never inside
\* its interval.
StartsAreJustified ==
    [][/\ \A c \in Candidate : Starts(c) =>
            /\ calm > Window /\ load = "quiet"
            /\ queue # Torn /\ Runnable(queue[c])
            /\ deaths = 0 => \A r \in ledger.gates :
                 r.candidate = c => r.gate <= Len(queue[c])
       /\ \A o \in Order : Starts(o) => calm > Window /\ o \notin recent]_nightVars

Unusable == queue = Torn \/ ledger.tail = "torn"

\* When the box is left alone, every candidate comes to the gate that does not
\* run in sleep, or is rejected, and every order gets a recorded run, unless a
\* death in the middle of a write has torn a file, or an order before it in the
\* file is due again and again and takes the cycle.
NightWorkIsDone ==
    <>[](load = "quiet") =>
        /\ \A c \in Candidate : <>(Unusable \/ ~Runnable(queue[c]))
        /\ \A j \in DOMAIN Orders :
             \/ <>(Unusable \/ Orders[j] \in recent)
             \/ []<>(\E i \in 1..(j - 1) : Orders[i] \notin recent)
=============================================================================
