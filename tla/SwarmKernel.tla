---------------------------- MODULE SwarmKernel ----------------------------
(***************************************************************************)
(* HolographicSwarmKernel of swarm/src/holographicSwarmKernel.js with its  *)
(* SwarmTaskGraph: agents bid for open tasks with energy, claim them, and  *)
(* the host records progress, a verified outcome or a failure.  Scores     *)
(* only order the bids, so any order is possible.  A call may throw half   *)
(* way: what it changed before stays changed.                              *)
(* Result references are counted.  More of them than the pheromone field   *)
(* takes make the deposit throw; more than a task takes stand for a list   *)
(* that the task refuses for any reason.                                   *)
(***************************************************************************)
EXTENDS Integers, FiniteSets

CONSTANTS
    Agent, SwarmTask,
    Offer,              \* tasks with the dependencies the caller may name for them
    Endowment,          \* energy an agent is registered with
    ClaimCost,
    PartialPay, Pay,    \* amounts progress and verified completion may earn
    RefCounts,          \* how many references a call may bring
    FieldRefs, TaskRefs,    \* at most so many in a pheromone and in a task
    MaxAssignments,     \* claims considered (bound)
    Absent, NoAgent, NoTask

\* Energies and rewards are not negative (boundedNumber), here counted in units.
ASSUME SwarmAssumption ==
    /\ IsFiniteSet(Agent) /\ IsFiniteSet(SwarmTask)
    /\ NoAgent \notin Agent /\ NoTask \notin SwarmTask
    /\ Offer \subseteq SwarmTask \X SUBSET SwarmTask
    /\ {Endowment, ClaimCost, TaskRefs, MaxAssignments} \subseteq Nat
    /\ PartialPay \cup Pay \cup RefCounts \subseteq Nat
    /\ Absent \notin [energy : Nat, active : SwarmTask \cup {NoTask}]
    /\ Absent \notin [status : {"blocked", "open", "claimed", "completed", "failed"},
                       holder : Agent \cup {NoAgent}, dependencies : SUBSET SwarmTask,
                       refs : 0..TaskRefs]

VARIABLES
    tasks,          \* graph.tasks
    agents,         \* agents, with the task each works on
    logged,         \* per agent, the sum of the energy events
    outcomes,       \* outcomes, without what they earned
    assigned,       \* how many assignments were made
    unfinished      \* the calls that threw half way

swarmVars == <<tasks, agents, logged, outcomes, assigned, unfinished>>

SwarmInit ==
    /\ tasks = [t \in SwarmTask |-> Absent]
    /\ agents = [a \in Agent |-> Absent]
    /\ logged = [a \in Agent |-> 0]
    /\ outcomes = {}
    /\ assigned = 0
    /\ unfinished = {}

Known(T) == {t \in SwarmTask : T[t] # Absent}
Registered == {a \in Agent : agents[a] # Absent}
WithStatus(T, status) == {t \in Known(T) : T[t].status = status}

\* registerAgent; the endowment is the first energy event.
RegisterAgent(a) ==
    /\ a \notin Registered
    /\ agents' = [agents EXCEPT ![a] = [energy |-> Endowment, active |-> NoTask]]
    /\ logged' = [logged EXCEPT ![a] = Endowment]
    /\ UNCHANGED <<tasks, outcomes, assigned, unfinished>>

-----------------------------------------------------------------------------
\* Slip: one completed dependency opens a task.
RefreshedByAny(T) ==
    [t \in SwarmTask |->
        IF t \in WithStatus(T, "blocked")
              /\ T[t].dependencies \cap WithStatus(T, "completed") # {}
        THEN [T[t] EXCEPT !.status = "open"] ELSE T[t]]

\* #refreshOpenTasks
Refreshed(T) ==
    [t \in SwarmTask |->
        IF t \in WithStatus(T, "blocked")
              /\ T[t].dependencies \subseteq WithStatus(T, "completed")
        THEN [T[t] EXCEPT !.status = "open"] ELSE T[t]]

\* #assertAcyclic walks every task and throws at an unknown dependency or a
\* cycle: a set of tasks that each depend on one of the set.
Sound(T) ==
    /\ \A t \in Known(T) : T[t].dependencies \subseteq Known(T)
    /\ \A S \in SUBSET Known(T) \ {{}} : \E t \in S : T[t].dependencies \cap S = {}

\* addTask: the task is in the graph before the graph is looked at, and stays
\* there when the call throws.
AddTask(t, dependencies) ==
    LET added == [tasks EXCEPT ![t] =
                     [status |-> IF dependencies = {} THEN "open" ELSE "blocked",
                      holder |-> NoAgent, dependencies |-> dependencies, refs |-> 0]]
    IN  /\ t \notin Known(tasks)
        /\ tasks' = IF Sound(added) THEN Refreshed(added) ELSE added
        /\ UNCHANGED <<agents, logged, outcomes, assigned, unfinished>>

\* bids: looking for open tasks opens what has become ready.
Bids ==
    /\ tasks' = Refreshed(tasks)
    /\ UNCHANGED <<agents, logged, outcomes, assigned, unfinished>>

\* The agents that may bid.
Bidders == {a \in Registered : agents[a].active = NoTask /\ agents[a].energy >= ClaimCost}

Least(S) == CHOOSE n \in S : \A k \in S : n <= k

\* selfOrganize takes the bids one by one, at most one per agent and task, as
\* many as the caller allows.
SelfOrganize(limit) ==
    LET ready == Refreshed(tasks)
        open == WithStatus(ready, "open")
        size == Least({limit, Cardinality(Bidders), Cardinality(open)})
    IN  /\ assigned + size <= MaxAssignments
        /\ \E chosen \in {S \in SUBSET Bidders : Cardinality(S) = size} :
           \E task \in [chosen -> open] :
             /\ \A a, b \in chosen : task[a] = task[b] => a = b
             /\ tasks' = [t \in SwarmTask |->
                   IF \E a \in chosen : task[a] = t
                   THEN [ready[t] EXCEPT !.status = "claimed",
                                         !.holder = CHOOSE a \in chosen : task[a] = t]
                   ELSE ready[t]]
             /\ agents' = [a \in Agent |->
                   IF a \in chosen
                   THEN [energy |-> agents[a].energy - ClaimCost, active |-> task[a]]
                   ELSE agents[a]]
             /\ logged' = [a \in Agent |->
                   IF a \in chosen THEN logged[a] - ClaimCost ELSE logged[a]]
        /\ assigned' = assigned + size
        /\ UNCHANGED <<outcomes, unfinished>>

-----------------------------------------------------------------------------
\* #activeAgent and the check of the task graph: anything else throws before
\* it changes anything.
Works(a, t) ==
    /\ a \in Registered /\ agents[a].active = t
    /\ t \in Known(tasks) /\ tasks[t].status = "claimed" /\ tasks[t].holder = a

Released(a, earned) ==
    [agents EXCEPT ![a] = [energy |-> agents[a].energy + earned, active |-> NoTask]]

\* The deposit is the last step but the outcome: it throws when the task has
\* more references than a pheromone takes.
Deposited(a, t, status, call, refs) ==
    IF refs <= FieldRefs
    THEN outcomes' = outcomes \cup {<<t, a, status>>} /\ UNCHANGED unfinished
    ELSE unfinished' = unfinished \cup {<<a, t, call>>} /\ UNCHANGED outcomes

\* The task has taken its new status and refuses the references: the agent is
\* not released.
RefsRefused(a, t, call) ==
    /\ unfinished' = unfinished \cup {<<a, t, call>>}
    /\ UNCHANGED <<agents, logged, outcomes, assigned>>

\* recordPartialProgress: the task is open again and keeps its references.
RecordPartialProgress(a, t, refs, earned) ==
    LET open == [tasks[t] EXCEPT !.status = "open", !.holder = NoAgent]
    IN  /\ Works(a, t)
        /\ \/ /\ open.refs + refs > TaskRefs
              /\ tasks' = [tasks EXCEPT ![t] = open]
              /\ RefsRefused(a, t, "refs")
           \/ /\ open.refs + refs <= TaskRefs
              /\ tasks' = [tasks EXCEPT ![t] = [open EXCEPT !.refs = @ + refs]]
              /\ agents' = Released(a, earned)
              /\ logged' = [logged EXCEPT ![a] = @ + earned]
              /\ Deposited(a, t, "progressed", "deposit", open.refs + refs)
              /\ UNCHANGED assigned

\* recordVerifiedOutcome: the score is positive.  Learned skills that are no
\* texts throw between the reward and its energy event.
RecordVerifiedOutcome(a, t, refs, earned, skilled) ==
    LET done == [tasks EXCEPT ![t].status = "completed"]
    IN  /\ Works(a, t)
        /\ \/ /\ refs > TaskRefs
              /\ tasks' = done
              /\ RefsRefused(a, t, "refs")
           \/ /\ refs <= TaskRefs
              /\ tasks' = Refreshed([done EXCEPT ![t].refs = refs])
              /\ agents' = Released(a, earned)
              /\ IF skilled
                 THEN /\ logged' = [logged EXCEPT ![a] = @ + earned]
                      /\ Deposited(a, t, "completed", "deposit", refs)
                 ELSE /\ unfinished' = unfinished \cup {<<a, t, "skills">>}
                      /\ UNCHANGED <<logged, outcomes>>
              /\ UNCHANGED assigned

\* recordFailedOutcome
RecordFailedOutcome(a, t, refs) ==
    LET failed == [tasks EXCEPT ![t].status = "failed"]
    IN  /\ Works(a, t)
        /\ \/ /\ refs > TaskRefs
              /\ tasks' = failed
              /\ RefsRefused(a, t, "refs")
           \/ /\ refs <= TaskRefs
              /\ tasks' = [failed EXCEPT ![t].refs = refs]
              /\ agents' = Released(a, 0)
              /\ Deposited(a, t, "failed", "deposit", refs)
              /\ UNCHANGED <<logged, assigned>>

SwarmNext ==
    \/ \E a \in Agent : RegisterAgent(a)
    \/ \E offer \in Offer : AddTask(offer[1], offer[2])
    \/ Bids
    \/ \E limit \in 1..Cardinality(Agent) : SelfOrganize(limit)
    \/ \E a \in Agent, t \in SwarmTask, refs \in RefCounts :
          \/ \E earned \in PartialPay : RecordPartialProgress(a, t, refs, earned)
          \/ \E earned \in Pay, skilled \in BOOLEAN :
                RecordVerifiedOutcome(a, t, refs, earned, skilled)
          \/ RecordFailedOutcome(a, t, refs)

SwarmSpec == SwarmInit /\ [][SwarmNext]_swarmVars

-----------------------------------------------------------------------------
SwarmTypeOK ==
    /\ tasks \in [SwarmTask ->
          [status : {"blocked", "open", "claimed", "completed", "failed"},
           holder : Agent \cup {NoAgent}, dependencies : SUBSET SwarmTask,
           refs : 0..TaskRefs] \cup {Absent}]
    /\ agents \in [Agent -> [energy : Nat, active : SwarmTask \cup {NoTask}] \cup {Absent}]
    /\ logged \in [Agent -> Int]
    /\ outcomes \subseteq SwarmTask \X Agent \X {"progressed", "completed", "failed"}
    /\ assigned \in 0..MaxAssignments
    /\ unfinished \subseteq Agent \X SwarmTask \X {"refs", "skills", "deposit"}

Threw(a, t, call) == <<a, t, call>> \in unfinished
ThrewOn(t) == \E a \in Agent, call \in {"refs", "skills", "deposit"} : Threw(a, t, call)

\* A claimed task and its holder name each other, so of two agents one at most
\* works on a task; an agent whose call was refused half way may be left
\* working on what it no longer holds.  (holographicSwarmKernel.js:350-391, 691-698)
HoldersMatch ==
    /\ \A t \in WithStatus(tasks, "claimed") :
          tasks[t].holder \in Registered /\ agents[tasks[t].holder].active = t
    /\ \A a \in Registered : \A t \in {agents[a].active} \ {NoTask} :
          Works(a, t) \/ Threw(a, t, "refs")

\* The energy events add up to what an agent has; it has more only when
\* learned skills were refused between the reward and its event.
\* (holographicSwarmKernel.js:487, 539-540, 578-580, 616-625)
EnergyIsOnRecord ==
    \A a \in Registered :
        /\ agents[a].energy >= logged[a]
        /\ agents[a].energy = logged[a] \/ \E t \in SwarmTask : Threw(a, t, "skills")

\* A task leaves "blocked" after all it depends on has been completed, also in
\* a graph that kept a task addTask refused; so no task on a cycle is ever worked
\* on.  A completed or failed task is so by its one recorded outcome, or the call
\* that was to record it threw.
\* (holographicSwarmKernel.js:322-341, 358-391, 409-417, 605-672)
StatusIsEarned ==
    /\ \A t \in Known(tasks) :
          tasks[t].status # "blocked" =>
              tasks[t].dependencies \subseteq WithStatus(tasks, "completed")
    /\ \A t \in WithStatus(tasks, "completed") \cup WithStatus(tasks, "failed") :
          <<t, tasks[t].holder, tasks[t].status>> \in outcomes \/ ThrewOn(t)
    /\ \A o \in outcomes :
          o[3] # "progressed" => /\ o[1] \in Known(tasks)
                                 /\ tasks[o[1]].status = o[3] /\ tasks[o[1]].holder = o[2]

\* What agents and tasks say of each other, of energy and of recorded outcomes
\* agrees through any order of claims, progress, outcomes and calls that throw
\* half way.  (holographicSwarmKernel.js:322-698)
AgentsAndTasksAgree ==
    /\ SwarmTypeOK
    /\ HoldersMatch
    /\ EnergyIsOnRecord
    /\ StatusIsEarned
=============================================================================
