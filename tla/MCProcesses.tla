----------------------------- MODULE MCProcesses -----------------------------
(* The components in which processes meet over files or a machine and share *)
(* nothing with each other: the controllers' lock, the runners of adapter   *)
(* training, the callers of the learning store.  An initial state says      *)
(* which one is explored; the others rest.                                  *)
EXTENDS ControllerLock, AdapterTraining, LearningStore, TLC

CONSTANTS p1, p2, p3, f1, here, there, j1, j2, x, y, z, nx, nz,
    Parts       \* which of the components are explored

VARIABLE part

\* Three processes of one host, one of which gets the pid of another, and a
\* process of a second host that shares the directory.
MCProcess == {p1, p2, p3, f1}
MCHostOf == (p1 :> here) @@ (p2 :> here) @@ (p3 :> here) @@ (f1 :> there)
MCPidOf == (p1 :> 1) @@ (p2 :> 2) @@ (p3 :> 1) @@ (f1 :> 2)
MCInode == {1, 2}

MCJobs == <<j1, j2>>

\* Two records that claim one name, and a third.
MCStoredRecord == {x, y, z}
MCNameOf == (x :> nx) @@ (y :> nx) @@ (z :> nz)

\* The given component takes a step.
InLock == part = "lock" /\ UNCHANGED <<part, trainingVars, storeVars>>
InTraining == part = "training" /\ UNCHANGED <<part, vars, storeVars>>
InStore == part = "store" /\ UNCHANGED <<part, vars, trainingVars>>

MCInit == part \in Parts /\ Init /\ TrainingInit /\ LearningInit

MCNext ==
    \/ InLock /\ \E p \in Process : Start(p)
    \/ InLock /\ \E p \in Process : MakeDir(p)
    \/ InLock /\ \E p \in Process : WriteOwner(p)
    \/ InLock /\ \E p \in Process : ReadOwner(p)
    \/ InLock /\ \E p \in Process : Judge(p)
    \/ InLock /\ \E p \in Process : Stat(p)
    \/ InLock /\ \E p \in Process : Claim(p)
    \/ InLock /\ \E p \in Process : CompareOwner(p)
    \/ InLock /\ \E p \in Process : Inspect(p)
    \/ InLock /\ \E p \in Process : Rename(p)
    \/ InLock /\ \E p \in Process : Unlock(p)
    \/ InLock /\ \E p \in Process : CheckOwner(p)
    \/ InLock /\ \E p \in Process : RemoveFiles(p)
    \/ InLock /\ \E p \in Process : RemoveDir(p)
    \/ InLock /\ \E p \in Process : Die(p)
    \/ InTraining /\ \E w \in Runner, waits \in BOOLEAN : BeginRun(w, waits)
    \/ InTraining /\ \E w \in Runner : Choose(w)
    \/ InTraining /\ \E w \in Runner : Look(w)
    \/ InTraining /\ \E w \in Runner : Boot(w)
    \/ InTraining /\ \E w \in Runner : Send(w)
    \/ InTraining /\ \E w \in Runner : Submit(w)
    \/ InTraining /\ \E w \in Runner : Watch(w)
    \/ InTraining /\ \E w \in Runner : JudgeJob(w)
    \/ InTraining /\ \E w \in Runner : Record(w)
    \/ InTraining /\ \E w \in Runner : CallThrows(w)
    \/ InTraining /\ \E w \in Runner : RunnerDies(w)
    \/ InTraining /\ \E built \in BOOLEAN : TrainerEnds(built)
    \/ InTraining /\ PowerOff
    \/ InStore /\ \E c \in Recorder, e \in StoredRecord : BeginRecord(c, e)
    \/ InStore /\ \E c \in Recorder : OpenObject(c)
    \/ InStore /\ \E c \in Recorder : WriteObject(c)
    \/ InStore /\ \E c \in Recorder : CompareObject(c)
    \/ InStore /\ \E c \in Recorder : OpenRef(c)
    \/ InStore /\ \E c \in Recorder : WriteRef(c)
    \/ InStore /\ \E c \in Recorder : CompareRef(c)
    \/ InStore /\ \E c \in Recorder : ReadBack(c)
    \/ InStore /\ \E c \in Recorder : RecorderDies(c)
    \/ InStore /\ \E l \in Lister : BeginList(l)
    \/ InStore /\ \E l \in Lister, n \in RefName : ReadListed(l, n)
    \/ InStore /\ \E l \in Lister : EndList(l)

MCSpec == MCInit /\ [][MCNext]_<<part, vars, trainingVars, storeVars>>

\* The fairness of ControllerLock and of AdapterTraining.
MCFairSpec ==
    /\ MCSpec
    /\ \A p \in Process : WF_vars(part = "lock" /\ Advance(p))
    /\ \A w \in Runner : WF_trainingVars(part = "training" /\ Proceed(w))
    /\ WF_trainingVars(part = "training" /\ \E built \in BOOLEAN : TrainerEnds(built))
    /\ WF_trainingVars(part = "training" /\ PowerOff)
=============================================================================
