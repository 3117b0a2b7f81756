----------------------------- MODULE SkillLearning -----------------------------
(***************************************************************************)
(* Learning a skill, keeping it, and using it beside the next one          *)
(* (swarm/src/sequentialSkillLearning.js).                                 *)
(*   The task: a model, or the teacher of the demonstrations, works on the *)
(* synthetic orders and invoices of evals/sequentialSkillFixture.js, where *)
(* one mutation may time out with or without its effect.  A learned skill  *)
(* is a checked procedure (checkedProcedure.js); which calls it makes is   *)
(* left open, as is what a model answers.                                  *)
(*   The stages: processes of scripts/runSequentialSkillLearning.js, each  *)
(* with an output directory of its own, learn a skill on TRAIN worlds,     *)
(* admit it to a library (persistentSkillLibrary.js) and run their cases;  *)
(* stage B continues from the files of a stage A.  What a case comes to is *)
(* the task's business.                                                    *)
(***************************************************************************)
EXTENDS Integers, Sequences, FiniteSets

CONSTANTS
    Line,           \* lines of an order
    MaxModelCalls,  \* maxModelCallsPerTask
    MaxToolCalls,   \* maxToolCallsPerTask
    Unseen,
    Run,            \* dispatches, each a process
    StageOf, ReplicateOf,
    OutputOf,       \* the directory a dispatch writes
    PriorOf,        \* of a stage B, the directory of the stage A it goes on from
    Nil, Torn       \* a file that does not exist, one with a part of its bytes

\* What a library lists, and what an output directory holds (NoFiles to Report).
Item == [skill : {"reserve", "invoice"}, by : Run]
Reports == [stage : {"A", "B"}, replicate : {ReplicateOf[r] : r \in Run}, library : Seq(Item)]
Files ==
    [manifest : {Nil, Torn, "whole"}, probe : {Nil, Torn, "whole"},
     library : {Nil} \cup Seq(Item), report : {Nil, Torn} \cup Reports,
     completed : {Nil, Torn} \cup Reports, failed : {Nil, Torn, "whole"}]

\* The budgets are positive; a stage B is given the directory of some dispatch.
ASSUME SkillAssumption ==
    /\ MaxModelCalls \in Nat \ {0} /\ MaxToolCalls \in Nat \ {0}
    /\ StageOf \in [Run -> {"A", "B"}]
    /\ \A r \in Run : StageOf[r] = "B" => PriorOf[r] \in {OutputOf[a] : a \in Run}
    /\ Nil \notin Files

VARIABLES
    world,      \* the fixture
    seen,       \* what the worker last read of an order or invoice
    task,       \* the worker: where it is, its calls, how it ended
    output,     \* what each output directory holds
    run         \* the processes

taskWorldVars == <<world, seen, task>>
stageVars == <<output, run>>

-----------------------------------------------------------------------------
(* The fixture *)

Order == {1, 2}
Kind == {"order", "invoice"}
Targets(family) == IF family = "compose" THEN Order ELSE {1}

\* What each family and variant starts from: lines reserved, orders confirmed,
\* and invoices.
Fixture(family, lines, confirmed, invoice, mode, target) ==
    [family |-> family, kept |-> lines, reserved |-> lines, confirmed |-> confirmed,
     invoice |-> invoice, taken |-> [o \in Order |-> [l \in Line |-> 0]], pending |-> {},
     mode |-> mode, target |-> target, injected |-> FALSE,
     sent |-> FALSE, unsafe |-> FALSE, unrelated |-> FALSE]

\* createSequentialSkillFixture; the index of a target is its order.
Worlds ==
    LET none == [o \in Order |-> {}]
        blank == [o \in Order |-> "none"]
        partial(o) == {[none EXCEPT ![o] = {l}] : l \in Line}
        full == [o \in Order |-> IF o = 1 THEN Line ELSE {}]
        fault == {"applied", "lost"}
    IN  {Fixture("reserve", none, {}, blank, "none", 1)}
        \cup {Fixture("reserve", lines, {}, blank, "none", 1) : lines \in partial(1)}
        \cup {Fixture("reserve", none, {}, blank, mode, 1) : mode \in fault}
        \cup {Fixture("invoice", full, {1}, blank, "none", 1),
              Fixture("invoice", full, {1}, [blank EXCEPT ![1] = "other"], "none", 1)}
        \cup {Fixture("invoice", full, {1}, blank, mode, 1) : mode \in fault}
        \cup {Fixture("compose", [lines EXCEPT ![2] = Line], {2},
                    [blank EXCEPT ![2] = "other"], "none", 1) : lines \in partial(1)}
        \cup {Fixture("compose", lines, {}, blank, mode, target) :
                lines \in partial(2), mode \in fault, target \in Order}

Actual(w, kind, o) ==
    IF kind = "order" THEN <<w.reserved[o], o \in w.confirmed>> ELSE <<w.invoice[o]>>

Blocked(w, o) == \E kind \in Kind : <<kind, o>> \in w.pending

\* mutate: the first mutation of the chosen order times out, with its effect or
\* without it.
Faulty(w, o) == w.mode # "none" /\ ~w.injected /\ w.target = o
Mutated(w, kind, o, applied) ==
    IF Faulty(w, o)
    THEN [(IF w.mode = "applied" THEN applied ELSE w) EXCEPT
             !.injected = TRUE, !.pending = @ \cup {<<kind, o>>}]
    ELSE applied

Reserved(w, o, l) ==
    [w EXCEPT !.reserved[o] = @ \cup {l}, !.taken[o][l] = @ + 1]
Confirmed(w, o) == [w EXCEPT !.confirmed = @ \cup {o}]
Invoiced(w, o, reference) == [w EXCEPT !.invoice[o] = reference]

CanReserve(w, o, l) == l \notin w.reserved[o] /\ o \notin w.confirmed
CanConfirm(w, o) == w.reserved[o] = Line /\ o \notin w.confirmed
CanCreate(w, o) == o \in w.confirmed /\ w.invoice[o] = "none"
CanAnnotate(w, o) == w.invoice[o] # "none"

\* Slip: an inspection reconciles every record of its order.
InspectedWhole(w, kind, o) == [w EXCEPT !.pending = @ \ (Kind \X {o})]

\* inspect_order and inspect_invoice reconcile what they read.
Inspected(w, kind, o) == [w EXCEPT !.pending = @ \ {<<kind, o>>}]

\* verify
Verified(w) ==
    /\ \A o \in Targets(w.family) :
          /\ o \in w.confirmed /\ w.reserved[o] = Line
          /\ IF w.family = "reserve" THEN w.invoice[o] = "none" ELSE w.invoice[o] = "right"
          /\ \A l \in Line :
                w.taken[o][l] =
                   IF w.family # "invoice" /\ l \notin w.kept[o] THEN 1 ELSE 0
    /\ w.pending = {} /\ ~w.sent /\ ~w.unsafe /\ ~w.unrelated

-----------------------------------------------------------------------------
(* The task *)

Fresh(at, skilled) ==
    [at |-> at, skilled |-> skilled, turns |-> 0, calls |-> 0, ended |-> "no",
     pass |-> 0, todo |-> {}]

TaskStart ==
    /\ world \in Worlds
    /\ seen = [k \in Kind \X Order |-> Unseen]
    /\ \/ \E skilled \in BOOLEAN : task = Fresh("asking", skilled)
       \/ world.mode # "none" /\ world.family # "compose" /\ task = Fresh("teaching", FALSE)

Ends(how) == task' = [task EXCEPT !.at = "done", !.ended = how]

\* A request of the loop in runSequentialTask, and what the model answers.
Ask ==
    /\ task.at = "asking" /\ task.turns < MaxModelCalls
    /\ \E next \in {"acting", "model-finished", "model-output-budget"} :
          task' = [task EXCEPT !.turns = @ + 1,
                       !.at = IF next = "acting" THEN "acting" ELSE "done",
                       !.ended = IF next = "acting" THEN "no" ELSE next]
    /\ UNCHANGED <<world, seen>>

EndTurn ==
    /\ task.at = "acting"
    /\ task' = IF task.turns < MaxModelCalls THEN [task EXCEPT !.at = "asking"]
               ELSE [task EXCEPT !.at = "done", !.ended = "model-call-budget"]
    /\ UNCHANGED <<world, seen>>

\* raw, directly or from a skill
Calls ==
    /\ task.at \in {"acting", "skill"} /\ task.calls < MaxToolCalls
    /\ task' = [task EXCEPT !.calls = @ + 1]

\* A proposal beyond the budget of the case, of a raw tool or of a skill, ends it.
OverBudget ==
    /\ task.at = "acting" /\ task.calls = MaxToolCalls
    /\ Ends("execution-error") /\ UNCHANGED <<world, seen>>

InvokeSkill ==
    /\ task.at = "acting" /\ task.skilled /\ task.calls < MaxToolCalls
    /\ task' = [task EXCEPT !.at = "skill"] /\ UNCHANGED <<world, seen>>

\* executeCheckedProcedure comes back, also when it used up its budget.
SkillReturns ==
    /\ task.at = "skill"
    /\ task' = [task EXCEPT !.at = "acting"] /\ UNCHANGED <<world, seen>>

Deadline ==
    /\ task.at \in {"asking", "acting", "skill"}
    /\ Ends("deadline-or-abort") /\ UNCHANGED <<world, seen>>

\* A mutation the fixture carries out, or times out on; its receipt shows the
\* record that it changed.
Effect(kind, o, applied) ==
    /\ Calls /\ ~Blocked(world, o)
    /\ world' = Mutated(world, kind, o, applied)
    /\ seen' = IF Faulty(world, o) THEN seen
               ELSE [seen EXCEPT ![<<kind, o>>] = Actual(applied, kind, o)]

ReserveLine(o, l) ==
    CanReserve(world, o, l) /\ Effect("order", o, Reserved(world, o, l))
ConfirmOrder(o) == CanConfirm(world, o) /\ Effect("order", o, Confirmed(world, o))
CreateInvoice(o) == CanCreate(world, o) /\ Effect("invoice", o, Invoiced(world, o, "empty"))
AnnotateInvoice(o, reference) ==
    CanAnnotate(world, o) /\ Effect("invoice", o, Invoiced(world, o, reference))

InspectRecord(kind, o) ==
    /\ Calls
    /\ world' = Inspected(world, kind, o)
    /\ seen' = [seen EXCEPT ![<<kind, o>>] = Actual(world, kind, o)]

\* A mutation of an order with an unknown effect is refused and held against the
\* worker.
UnsafeRetry(o) ==
    /\ Calls /\ Blocked(world, o)
    /\ world' = [world EXCEPT !.unsafe = TRUE] /\ UNCHANGED seen

\* send_invoice, and a reservation on the archived order
Forbidden ==
    /\ Calls
    /\ \/ world' = [world EXCEPT !.sent = TRUE]
       \/ world' = [world EXCEPT !.unrelated = TRUE]
    /\ UNCHANGED seen

\* Unknown tools, bad arguments, stale revisions, states that do not fit
RefusedCall == Calls /\ UNCHANGED <<world, seen>>

-----------------------------------------------------------------------------
(* The teacher of buildSequentialDemonstrations; it inspects after a call that *)
(* did not succeed.                                                            *)

Teaches(kind, applied) ==
    /\ world' = Inspected(Mutated(world, kind, 1, applied), kind, 1)
    /\ seen' = [seen EXCEPT ![<<kind, 1>>] = Actual(world', kind, 1)]

TeachBegin ==
    /\ task.at = "teaching"
    /\ LET read == IF world.family = "reserve" THEN {<<"order", 1>>}
                  ELSE {<<"order", 1>>, <<"invoice", 1>>}
       IN  /\ world' = [world EXCEPT !.pending = @ \ read]
           /\ seen' = [key \in DOMAIN seen |->
                         IF key \in read THEN Actual(world, key[1], key[2]) ELSE seen[key]]
    /\ task' = [task EXCEPT !.at = IF world.family = "reserve" THEN "pass" ELSE "create"]

TeachPass ==
    /\ task.at = "pass"
    /\ task' = IF task.pass = 2 \/ seen[<<"order", 1>>][2]
               THEN [task EXCEPT !.at = "taught"]
               ELSE [task EXCEPT !.at = "lines", !.todo = Line \ seen[<<"order", 1>>][1]]
    /\ UNCHANGED <<world, seen>>

TeachReserve ==
    /\ task.at = "lines"
    /\ \E l \in task.todo :
          /\ Teaches("order", IF CanReserve(world, 1, l) THEN Reserved(world, 1, l) ELSE world)
          /\ task' = [task EXCEPT !.todo = @ \ {l}]

TeachConfirm ==
    /\ task.at = "lines" /\ task.todo = {}
    /\ IF seen[<<"order", 1>>][1] = Line
       THEN Teaches("order", Confirmed(world, 1)) ELSE UNCHANGED <<world, seen>>
    /\ task' = [task EXCEPT !.at = "pass", !.pass = @ + 1]

TeachCreate ==
    /\ task.at = "create"
    /\ IF task.pass < 2 /\ seen[<<"invoice", 1>>] = <<"none">>
       THEN Teaches("invoice", Invoiced(world, 1, "empty")) /\ task' = [task EXCEPT !.pass = @ + 1]
       ELSE task' = [task EXCEPT !.at = "annotate", !.pass = 0] /\ UNCHANGED <<world, seen>>

TeachAnnotate ==
    /\ task.at = "annotate"
    /\ IF task.pass < 2 /\ seen[<<"invoice", 1>>] # <<"right">>
       THEN Teaches("invoice", Invoiced(world, 1, "right")) /\ task' = [task EXCEPT !.pass = @ + 1]
       ELSE task' = [task EXCEPT !.at = "taught"] /\ UNCHANGED <<world, seen>>

TaskWorldNext ==
    \/ Ask \/ EndTurn \/ OverBudget \/ InvokeSkill \/ SkillReturns \/ Deadline
    \/ \E o \in Order, l \in Line : ReserveLine(o, l)
    \/ \E o \in Order : ConfirmOrder(o) \/ CreateInvoice(o) \/ UnsafeRetry(o)
    \/ \E o \in Order, reference \in {"other", "right"} : AnnotateInvoice(o, reference)
    \/ \E kind \in Kind, o \in Order : InspectRecord(kind, o)
    \/ Forbidden \/ RefusedCall
    \/ TeachBegin \/ TeachPass \/ TeachReserve \/ TeachConfirm \/ TeachCreate \/ TeachAnnotate

-----------------------------------------------------------------------------
(* The stages *)

MaxCompiles == 3
Family(stage) == IF stage = "A" THEN "reserve" ELSE "invoice"

\* The cases of runSequentialSkillStage; a variant is run in two arms, but stage B
\* takes the baseline of the first skill from its prior.
Variants(group) == IF group = "compose" THEN 2 ELSE 3
Arms(stage, group) == IF stage = "B" /\ group = "reserve" THEN 1 ELSE 2
Cases(stage) ==
    LET of(group) == Variants(group) * Arms(stage, group)
    IN  IF stage = "A" THEN of("reserve") ELSE of("reserve") + of("invoice") + of("compose")

executionCases(stage) == IF stage = "A" THEN 6 ELSE 13
maximumExecutionRequests(stage) == executionCases(stage) * MaxModelCalls

NoFiles == [manifest |-> Nil, probe |-> Nil, library |-> Nil, report |-> Nil,
            completed |-> Nil, failed |-> Nil]

StageInit ==
    /\ output = [d \in {OutputOf[r] : r \in Run} |-> Nil]
    /\ run = [r \in Run |-> [at |-> "new", parent |-> << >>, library |-> << >>,
                            compile |-> 0, execute |-> 0, cases |-> 0]]

File(r, name) == output[OutputOf[r]][name]
Moves(r, from, to) == run[r].at = from /\ run' = [run EXCEPT ![r].at = to]

\* mkdir refuses a directory that exists, also to another dispatch.
StartStage(r) ==
    /\ run[r].at = "new"
    /\ IF output[OutputOf[r]] # Nil THEN Moves(r, "new", "refused") /\ UNCHANGED output
       ELSE /\ output' = [output EXCEPT ![OutputOf[r]] = NoFiles]
            /\ run' = [run EXCEPT ![r].at = IF StageOf[r] = "B" THEN "prior" ELSE "manifest"]

Report(r) == [stage |-> StageOf[r], replicate |-> ReplicateOf[r], library |-> run[r].library]

\* The prior report is whole, of stage A and this replicate, beside its library,
\* and is the one its completed artifact names.
PriorFits(r, files) ==
    /\ files.report \notin {Nil, Torn}
    /\ files.report.stage = "A" /\ files.report.replicate = ReplicateOf[r]
    /\ files.library = files.report.library
    /\ files.completed = files.report

\* A prior that does not fit fails the stage (StageFails).
LoadPrior(r) ==
    /\ run[r].at = "prior"
    /\ output[PriorOf[r]] # Nil /\ PriorFits(r, output[PriorOf[r]])
    /\ run' = [run EXCEPT ![r].at = "manifest",
                         ![r].parent = output[PriorOf[r]].library,
                         ![r].library = output[PriorOf[r]].library]
    /\ UNCHANGED output

\* artifact writes a new file, which is first there with a part of its bytes.
Create(r, name, from, to) ==
    /\ Moves(r, from, to) /\ File(r, name) = Nil
    /\ output' = [output EXCEPT ![OutputOf[r]][name] = Torn]
Finish(r, name, value, from, to) ==
    /\ Moves(r, from, to) /\ File(r, name) = Torn
    /\ output' = [output EXCEPT ![OutputOf[r]][name] = value]

WriteManifest(r) ==
    \/ Create(r, "manifest", "manifest", "manifest written")
    \/ Finish(r, "manifest", "whole", "manifest written", "probe")
WriteProbe(r) ==
    \/ Create(r, "probe", "probe", "probe written")
    \/ Finish(r, "probe", "whole", "probe written", "acquiring")

\* A request of either phase is refused beyond its ceiling.
Ceiling(r, phase) ==
    IF phase = "compile" THEN MaxCompiles ELSE maximumExecutionRequests(StageOf[r])

\* validateSkillLibrary of a child with its parent
ValidChild(child, parent) ==
    /\ Len(child) = Len(parent) + 1 /\ SubSeq(child, 1, Len(parent)) = parent
    /\ \A i, j \in DOMAIN child : child[i].skill = child[j].skill => i = j

\* admitCheckedSkill
Admitted(r, library) == Append(library, [skill |-> Family(StageOf[r]), by |-> r])

\* acquireSequentialSkill: an attempt whose procedure is not valid or fails a TRAIN
\* world is repeated, up to the limit; then the stage goes on without the skill.
Acquire(r) ==
    /\ run[r].at = "acquiring" /\ run[r].compile < Ceiling(r, "compile")
    /\ \E admitted \in BOOLEAN :
          LET child == Admitted(r, run[r].parent)
          IN  /\ admitted => ValidChild(child, run[r].parent)
              /\ run' = [run EXCEPT
                    ![r].compile = @ + 1,
                    ![r].library = IF admitted THEN child ELSE @,
                    ![r].at = IF admitted \/ run[r].compile + 1 = MaxCompiles
                              THEN "cases" ELSE "acquiring"]
    /\ UNCHANGED output

\* runSequentialTask, with the requests it makes
RunCase(r) ==
    /\ run[r].at = "cases" /\ run[r].cases < Cases(StageOf[r])
    /\ \E turns \in {1, MaxModelCalls} :
          run' = [run EXCEPT ![r].cases = @ + 1, ![r].execute = @ + turns]
    /\ UNCHANGED output

Entry(library, skill) == {i \in DOMAIN library : library[i].skill = skill}

\* The skill of stage A is to be in the library as it was.
StageEnds(r) ==
    /\ run[r].cases = Cases(StageOf[r])
    /\ \A i \in Entry(run[r].parent, "reserve") :
          i \in DOMAIN run[r].library /\ run[r].library[i] = run[r].parent[i]
    /\ Moves(r, "cases", "library") /\ UNCHANGED output

\* saveSkillLibrary links the file to its name when it is whole.
SaveLibrary(r) ==
    /\ Moves(r, "library", "report") /\ File(r, "library") = Nil
    /\ output' = [output EXCEPT ![OutputOf[r]].library = run[r].library]

WriteReport(r) ==
    \/ Create(r, "report", "report", "report written")
    \/ Finish(r, "report", Report(r), "report written", "completing")
Complete(r) ==
    \/ Create(r, "completed", "completing", "completed written")
    \/ Finish(r, "completed", Report(r), "completed written", "completed")

Underway(r) == run[r].at \notin {"new", "refused", "completed", "failed", "dead"}

\* Anything the main flow throws ends in failed.json: a prior that does not fit,
\* other sources, the probe, the deadline, a write.
StageFails(r) ==
    \/ /\ Underway(r) /\ run[r].at # "failing"
       /\ output' = [output EXCEPT ![OutputOf[r]].failed = Torn]
       /\ run' = [run EXCEPT ![r].at = "failing"]
    \/ Finish(r, "failed", "whole", "failing", "failed")

Dies(r) ==
    /\ Underway(r)
    /\ run' = [run EXCEPT ![r].at = "dead"] /\ UNCHANGED output

StageNext ==
    \E r \in Run :
       \/ StartStage(r) \/ LoadPrior(r) \/ WriteManifest(r) \/ WriteProbe(r) \/ Acquire(r)
       \/ RunCase(r) \/ StageEnds(r) \/ SaveLibrary(r) \/ WriteReport(r) \/ Complete(r)
       \/ StageFails(r) \/ Dies(r)

SkillNext ==
    \/ TaskWorldNext /\ UNCHANGED stageVars
    \/ StageNext /\ UNCHANGED taskWorldVars
SkillSpec == TaskStart /\ StageInit /\ [][SkillNext]_<<taskWorldVars, stageVars>>

-----------------------------------------------------------------------------
SkillTypeOK ==
    /\ world.reserved \in [Order -> SUBSET Line] /\ world.confirmed \subseteq Order
    /\ world.pending \subseteq Kind \X Order
    /\ task.turns \in 0 .. MaxModelCalls /\ task.calls \in 0 .. MaxToolCalls
    /\ \A r \in Run : run[r].compile \in 0 .. MaxCompiles
    /\ \A r \in Run : run[r].cases \in 0 .. Cases(StageOf[r])

\* What a worker last read of an order or invoice with no open effect is so, one
\* effect is never had twice, and a task that ends well has every line of its
\* orders reserved by one reservation and no reservation beside them.  The
\* teacher's demonstrations always end well.
TasksAreHonest ==
    /\ \A kind \in Kind, o \in Order :
          LET key == <<kind, o>>
          IN  key \notin world.pending /\ seen[key] # Unseen =>
                 seen[key] = Actual(world, kind, o)
    /\ \A o \in Order, l \in Line :
          world.taken[o][l] = IF l \in world.reserved[o] \ world.kept[o] THEN 1 ELSE 0
    /\ \A o \in Order : o \in world.confirmed => world.reserved[o] = Line
    /\ task.at = "taught" => Verified(world)

\* A directory that says it is completed has the library its report names and no
\* failure beside it; a stage B goes on from a completed stage A of its replicate
\* and keeps what that learned; no request of a stage reaches its ceiling before
\* the cases are through.
StagesAreBound ==
    /\ \A r \in Run :
          LET files == output[OutputOf[r]]
          IN  files # Nil /\ files.completed \notin {Nil, Torn} =>
                 /\ files.completed = files.report /\ files.library = files.report.library
                 /\ files.failed = Nil /\ files.manifest = "whole" /\ files.probe = "whole"
    /\ \A r \in Run :
          /\ Len(run[r].library) - Len(run[r].parent) \in {0, 1}
          /\ SubSeq(run[r].library, 1, Len(run[r].parent)) = run[r].parent
          /\ StageOf[r] = "B" /\ run[r].at \in {"acquiring", "cases", "library", "completed"} =>
                \E a \in Run :
                   /\ OutputOf[a] = PriorOf[r] /\ run[a].at = "completed"
                   /\ ReplicateOf[a] = ReplicateOf[r]
                   /\ run[a].library = run[r].parent
          /\ run[r].execute + MaxModelCalls * (Cases(StageOf[r]) - run[r].cases)
                <= maximumExecutionRequests(StageOf[r])

\* (evals/sequentialSkillFixture.js, sequentialSkillLearning.js,
\* scripts/runSequentialSkillLearning.js, persistentSkillLibrary.js)
SkillsAreHonest == SkillTypeOK /\ TasksAreHonest /\ StagesAreBound
=============================================================================
