---------------------------- MODULE ProcessProofs ----------------------------
(***************************************************************************)
(* TLAPS proofs about the components in which processes meet over files.   *)
(* The controller lock: however many processes of however many hosts race, *)
(* and wherever they die, a controller that holds the lock still has its   *)
(* own owner.json under the lock's name (LockInv).                         *)
(* The write-once files of the learning store: however many callers record *)
(* and list, wherever they die and whatever writes fail, a whole reference *)
(* leads to its whole object, what was acknowledged stays, and a returned  *)
(* list has all of it (LInv).                                              *)
(* The training of adapters: what the ledger says of a job is so, and a    *)
(* runner that began alone finds the machine as it left it (TrainingInv).  *)
(* The study of skill learning: what a worker has read and no open effect  *)
(* touches is so, the teacher's demonstrations end well (WorkerInv), and   *)
(* each output directory is written by one dispatch, in order (StagesInv). *)
(***************************************************************************)
EXTENDS ControllerLock, LearningStore, AdapterTraining, SkillLearning, SequenceTheorems, TLAPS

\* Processes between the directory they made and its removal.
Making == {"own", "hold", "check", "remove", "rmdir"}
\* Processes that found the owner dead, and those that put a claim.
Judged == {"stat", "claim", "compare", "inspect", "rename"}
Claiming == {"compare", "inspect", "rename"}

\* The lock of a process between making and removing it is its own.
Mine ==
    \A p \in Process : life[p].at \in Making =>
        /\ dir # NoDir
        /\ dir.maker = p
        /\ dir.written <=> Holds(p)

\* An owner.json was written by a process that has, or had, the lock.
OwnersStarted ==
    Owned => life[dir.maker].at \in Making \cup Finished
ReadOwnersStarted ==
    \A p \in Process : At(p, "judge") =>
        /\ life[p].original \in Process
        /\ life[life[p].original].at \in Making \cup Finished

\* What was judged dead stays dead: nobody runs twice.
JudgedAreFinished ==
    \A p \in Process : life[p].at \in Judged =>
        /\ life[p].original \in Process
        /\ life[life[p].original].at \in Finished

\* A claim put into the judged owner's directory stays in it.
ClaimsStay ==
    \A p \in Process :
        (life[p].at \in Claiming /\ dir # NoDir /\ dir.maker = life[p].original)
            => dir.claimed

\* The claim is exclusive.
OneClaim ==
    \A p, q \in Process :
        /\ life[p].at \in Claiming /\ life[q].at \in Claiming
        /\ dir # NoDir
        /\ dir.maker = life[p].original /\ dir.maker = life[q].original
        => p = q

\* Once compared, the judged owner's directory keeps the name.
ComparedStays ==
    \A p \in Process : life[p].at \in {"inspect", "rename"} =>
        Owned /\ dir.maker = life[p].original

LockInv ==
    /\ TypeOK
    /\ Mine /\ OwnersStarted /\ ReadOwnersStarted /\ JudgedAreFinished
    /\ ClaimsStay /\ OneClaim /\ ComparedStays

USE DEF At, Owned, Holds, Working, Finished, Making, Judged, Claiming

-----------------------------------------------------------------------------
LEMMA InitHolds == Init => LockInv
BY LockAssumption DEF Init, LockInv, TypeOK, Life, Mine, OwnersStarted, ReadOwnersStarted,
   JudgedAreFinished, ClaimsStay, OneClaim, ComparedStays


-----------------------------------------------------------------------------
\* One process moves on and reads nothing: what most steps do to life.
Proceeds(p) ==
    /\ life' \in [Process -> Life]
    /\ life[p].at \notin Finished
    /\ life'[p].original = life[p].original
    /\ \A q \in Process \ {p} : life'[q] = life[q]

LEMMA GoMoves ==
    ASSUME TypeOK, NEW p \in Process, NEW step \in {"new"} \cup Working \cup Finished,
           Go(p, step), life[p].at \notin Finished
    PROVE  Proceeds(p) /\ life'[p].at = step
BY DEF TypeOK, Life, Go, Proceeds

\* A move that leaves the directory alone keeps the invariant if it enters no
\* state of which the invariant asks more than of the state it leaves.
LEMMA QuietMoves ==
    ASSUME LockInv, NEW p \in Process, Proceeds(p), dir' = dir,
           life'[p].at # "judge",
           life'[p].at \in Making => life[p].at \in Making /\ (Holds(p)' <=> Holds(p)),
           life[p].at \in Making => life'[p].at \in Making \cup Finished,
           life'[p].at \in Judged =>
               \/ life[p].at \in Judged
               \/ life[p].at = "judge" /\ life[life[p].original].at \in Finished,
           life'[p].at \in Claiming => life[p].at \in Claiming,
           life'[p].at \in {"inspect", "rename"} =>
               \/ life[p].at \in {"inspect", "rename"}
               \/ Owned /\ dir.maker = life[p].original
    PROVE  LockInv'
<1>1. TypeOK'
  BY DEF LockInv, TypeOK, Proceeds
<1>2. Mine'
  BY DEF LockInv, Mine, Proceeds
<1>3. OwnersStarted'
  BY DEF LockInv, TypeOK, Directory, OwnersStarted, Proceeds
<1>4. ReadOwnersStarted'
  BY DEF LockInv, ReadOwnersStarted, Proceeds
<1>5. JudgedAreFinished'
  BY DEF LockInv, JudgedAreFinished, ReadOwnersStarted, Proceeds
<1>6. ClaimsStay'
  BY DEF LockInv, ClaimsStay, Proceeds
<1>7. OneClaim'
  <2> SUFFICES ASSUME NEW q \in Process, NEW r \in Process, q # r, dir # NoDir,
                      life'[q].at \in Claiming, life'[r].at \in Claiming,
                      dir.maker = life'[q].original, dir.maker = life'[r].original
               PROVE  FALSE
    BY DEF OneClaim
  <2>1. life[q].at \in Claiming /\ life[q].original = life'[q].original
    BY DEF Proceeds
  <2>2. life[r].at \in Claiming /\ life[r].original = life'[r].original
    BY DEF Proceeds
  <2> QED BY <2>1, <2>2 DEF LockInv, OneClaim
<1>8. ComparedStays'
  BY DEF LockInv, ComparedStays, Proceeds
<1> QED BY <1>1, <1>2, <1>3, <1>4, <1>5, <1>6, <1>7, <1>8 DEF LockInv

\* The name goes to another directory, or to none: nobody else relied on it.
LEMMA NameMoves ==
    ASSUME LockInv, NEW p \in Process, Proceeds(p),
           dir' \in Directory \cup {NoDir},
           life'[p].at \notin {"judge"} \cup Judged,
           life'[p].at \in Making =>
               dir' # NoDir /\ dir'.maker = p /\ (dir'.written <=> Holds(p)'),
           dir' # NoDir => dir'.maker = p /\ life'[p].at \in Making,
           life[p].at \in Making => life'[p].at \in Making \cup Finished,
           \A q \in Process \ {p} : life[q].at \notin Making \cup {"inspect", "rename"}
    PROVE  LockInv'
<1>1. TypeOK'
  BY DEF LockInv, TypeOK, Proceeds
<1>2. Mine'
  BY DEF LockInv, Mine, Proceeds
<1>3. OwnersStarted'
  BY DEF LockInv, OwnersStarted, Proceeds
<1>4. ReadOwnersStarted'
  BY DEF LockInv, ReadOwnersStarted, Proceeds
<1>5. JudgedAreFinished'
  BY DEF LockInv, JudgedAreFinished, Proceeds
<1>6. \A q \in Process : life'[q].at \in Judged =>
          life'[q] = life[q] /\ life[q].original \in Process /\ life[q].original # p
  BY DEF LockInv, JudgedAreFinished, Proceeds
<1>7. ClaimsStay' /\ OneClaim'
  BY <1>6 DEF ClaimsStay, OneClaim
<1>8. ComparedStays'
  BY DEF ComparedStays, Proceeds
<1> QED BY <1>1, <1>2, <1>3, <1>4, <1>5, <1>7, <1>8 DEF LockInv

\* A process that makes or holds the lock, or has verified a claim, is alone.
LEMMA LoneMaker ==
    ASSUME LockInv, NEW p \in Process, NEW q \in Process, q # p,
           life[p].at \in Making \cup {"inspect", "rename"}
    PROVE  life[q].at \notin Making \cup {"inspect", "rename"}
<1>1. CASE life[p].at \in Making /\ life[q].at \in Making
  BY <1>1 DEF LockInv, Mine
<1>2. CASE life[p].at \in Making /\ life[q].at \in {"inspect", "rename"}
  BY <1>2 DEF LockInv, Mine, ComparedStays, JudgedAreFinished
<1>3. CASE life[p].at \in {"inspect", "rename"} /\ life[q].at \in Making
  BY <1>3 DEF LockInv, Mine, ComparedStays, JudgedAreFinished
<1>4. CASE life[p].at \in {"inspect", "rename"} /\ life[q].at \in {"inspect", "rename"}
  BY <1>4 DEF LockInv, ComparedStays, OneClaim
<1> QED BY <1>1, <1>2, <1>3, <1>4

\* Without the directory nobody is.
LEMMA NobodyWithoutDir ==
    ASSUME LockInv, dir = NoDir, NEW q \in Process
    PROVE  life[q].at \notin Making \cup {"inspect", "rename"}
BY DEF LockInv, Mine, ComparedStays

-----------------------------------------------------------------------------
LEMMA StartKeeps == ASSUME LockInv, NEW p \in Process, Start(p) PROVE LockInv'
<1>1. Proceeds(p) /\ life'[p].at = "mkdir"
  BY GoMoves DEF LockInv, Start
<1> QED BY <1>1, QuietMoves DEF Start

LEMMA MakeDirKeeps == ASSUME LockInv, NEW p \in Process, MakeDir(p) PROVE LockInv'
<1>1. CASE dir = NoDir
  <2>1. PICK i \in Inode :
            dir' = [maker |-> p, written |-> FALSE, claimed |-> FALSE, inode |-> i]
    BY <1>1 DEF MakeDir
  <2>2. dir' \in Directory /\ dir'.maker = p /\ ~dir'.written
    BY <2>1 DEF Directory
  <2>3. dir' # NoDir
    BY <2>2, LockAssumption
  <2>4. Proceeds(p) /\ life'[p].at = "own"
    BY <1>1, GoMoves DEF LockInv, MakeDir
  <2> QED BY <1>1, <2>2, <2>3, <2>4, NobodyWithoutDir, NameMoves DEF MakeDir
<1>2. CASE dir # NoDir
  <2>1. Proceeds(p) /\ life'[p].at = "read" /\ dir' = dir
    BY <1>2, GoMoves DEF LockInv, MakeDir
  <2> QED BY <2>1, QuietMoves DEF MakeDir
<1> QED BY <1>1, <1>2

LEMMA WriteOwnerKeeps == ASSUME LockInv, NEW p \in Process, WriteOwner(p) PROVE LockInv'
<1>1. dir # NoDir /\ dir \in Directory /\ dir.maker = p /\ life[p].at = "own"
  BY DEF LockInv, TypeOK, Mine, WriteOwner
<1>2. \A q \in Process \ {p} : life[q].at \notin Making \cup {"inspect", "rename"}
  BY <1>1, LoneMaker
<1>3. CASE dir' = NoDir /\ Go(p, "failed")
  <2>1. Proceeds(p) /\ life'[p].at = "failed"
    BY <1>1, <1>3, GoMoves DEF LockInv
  <2> QED BY <1>2, <1>3, <2>1, NameMoves
<1>4. CASE dir' = [dir EXCEPT !.maker = p, !.written = TRUE] /\ Go(p, "hold")
  <2>1. dir' \in Directory /\ dir'.maker = p /\ dir'.written
    BY <1>1, <1>4 DEF Directory
  <2>2. Proceeds(p) /\ life'[p].at = "hold"
    BY <1>1, <1>4, GoMoves DEF LockInv
  <2> QED BY <1>1, <1>2, <2>1, <2>2, LockAssumption, NameMoves
<1> QED BY <1>3, <1>4 DEF WriteOwner

LEMMA ReadOwnerKeeps == ASSUME LockInv, NEW p \in Process, ReadOwner(p) PROVE LockInv'
<1>1. CASE ~Owned
  <2>1. Proceeds(p) /\ life'[p].at = "refused" /\ dir' = dir
    BY <1>1, GoMoves DEF LockInv, ReadOwner, Refuse
  <2> QED BY <2>1, QuietMoves DEF ReadOwner
<1>2. CASE Owned
  <2>1. dir' = dir /\ dir \in Directory /\ life[p].at = "read"
    BY <1>2 DEF LockInv, TypeOK, ReadOwner, Refuse
  <2>2. life' = [life EXCEPT ![p].original = dir.maker, ![p].at = "judge"]
    BY <1>2 DEF ReadOwner
  <2>3. dir.maker \in Process
    BY <2>1 DEF Directory
  <2>4. /\ life' \in [Process -> Life]
        /\ life'[p].at = "judge" /\ life'[p].original = dir.maker
        /\ \A q \in Process \ {p} : life'[q] = life[q]
    <3>1. life \in [Process -> Life]
      BY DEF LockInv, TypeOK
    <3>2. [life[p] EXCEPT !.original = dir.maker, !.at = "judge"] \in Life
      BY <2>3, <3>1 DEF Life
    <3>3. life' = [life EXCEPT ![p] = [life[p] EXCEPT !.original = dir.maker, !.at = "judge"]]
      BY <2>2, <3>1
    <3>4. life' \in [Process -> Life] /\ \A q \in Process \ {p} : life'[q] = life[q]
      BY <3>1, <3>2, <3>3
    <3>5. life'[p].at = "judge" /\ life'[p].original = dir.maker
      BY <3>1, <3>3 DEF Life
    <3> QED BY <3>4, <3>5
  <2>5. life'[dir.maker].at \in Making \cup Finished
    <3>1. life[dir.maker].at \in Making \cup Finished
      BY <1>2 DEF LockInv, OwnersStarted
    <3>2. dir.maker # p
      BY <2>1, <3>1
    <3> QED BY <2>3, <2>4, <3>1, <3>2
  <2>6. TypeOK' /\ Mine' /\ OwnersStarted'
    BY <2>1, <2>4, <2>5 DEF LockInv, TypeOK, Mine, OwnersStarted
  <2>7. ReadOwnersStarted'
    BY <2>1, <2>3, <2>4, <2>5 DEF LockInv, ReadOwnersStarted
  <2>8. JudgedAreFinished' /\ ClaimsStay' /\ ComparedStays'
    BY <2>1, <2>4 DEF LockInv, JudgedAreFinished, ClaimsStay, ComparedStays
  <2>9. OneClaim'
    BY <2>1, <2>4 DEF LockInv, OneClaim
  <2> QED BY <2>6, <2>7, <2>8, <2>9 DEF LockInv
<1> QED BY <1>1, <1>2

LEMMA JudgeKeeps == ASSUME LockInv, NEW p \in Process, Judge(p) PROVE LockInv'
<1>1. life[p].at = "judge" /\ life[p].original \in Process
      /\ life[life[p].original].at \in Making \cup Finished
  BY DEF LockInv, ReadOwnersStarted, Judge
<1>2. CASE DeadPid(life[p].original) /\ Go(p, "stat") /\ dir' = dir
  <2>1. life[life[p].original].at \in Finished
    BY <1>1, <1>2 DEF DeadPid, Alive
  <2>2. Proceeds(p) /\ life'[p].at = "stat"
    BY <1>1, <1>2, GoMoves DEF LockInv
  <2> QED BY <1>1, <1>2, <2>1, <2>2, QuietMoves
<1>3. CASE Refuse(p)
  <2>1. Proceeds(p) /\ life'[p].at = "refused" /\ dir' = dir
    BY <1>1, <1>3, GoMoves DEF LockInv, Refuse
  <2> QED BY <2>1, QuietMoves
<1> QED BY <1>2, <1>3 DEF Judge

LEMMA StatKeeps == ASSUME LockInv, NEW p \in Process, Stat(p) PROVE LockInv'
<1>1. CASE dir = NoDir
  <2>1. Proceeds(p) /\ life'[p].at = "refused" /\ dir' = dir
    BY <1>1, GoMoves DEF LockInv, Stat, Refuse
  <2> QED BY <2>1, QuietMoves
<1>2. CASE dir # NoDir
  <2>1. dir.inode \in Inode
    BY <1>2 DEF LockInv, TypeOK, Directory
  <2>2. Proceeds(p) /\ life'[p].at = "claim" /\ dir' = dir
    BY <1>2, <2>1 DEF LockInv, TypeOK, Life, Proceeds, Stat, Refuse
  <2> QED BY <2>2, QuietMoves DEF Stat
<1> QED BY <1>1, <1>2

\* The claim is new in the directory, so no other claim is in it.
LEMMA ClaimKeeps == ASSUME LockInv, NEW p \in Process, Claim(p) PROVE LockInv'
<1>1. CASE Refuse(p)
  <2>1. Proceeds(p) /\ life'[p].at = "refused" /\ dir' = dir
    BY <1>1, GoMoves DEF LockInv, Claim, Refuse
  <2> QED BY <2>1, QuietMoves
<1>2. CASE ~Refuse(p)
  <2>1. dir # NoDir /\ ~dir.claimed /\ Go(p, "compare") /\ life[p].at = "claim"
        /\ dir' = [dir EXCEPT !.claimed = TRUE] /\ dir \in Directory
    BY <1>2 DEF LockInv, TypeOK, Claim
  <2>2. dir' \in Directory /\ dir'.claimed
        /\ dir'.maker = dir.maker /\ dir'.written = dir.written
    BY <2>1 DEF Directory
  <2>3. dir' # NoDir
    BY <2>2, LockAssumption
  <2>4. Proceeds(p) /\ life'[p].at = "compare"
    BY <2>1, GoMoves DEF LockInv
  <2>5. TypeOK' /\ Mine' /\ OwnersStarted'
    BY <2>1, <2>2, <2>3, <2>4 DEF LockInv, TypeOK, Directory, Mine, OwnersStarted, Proceeds
  <2>6. ReadOwnersStarted' /\ JudgedAreFinished'
    BY <2>1, <2>4 DEF LockInv, ReadOwnersStarted, JudgedAreFinished, Proceeds
  <2>7. ClaimsStay' /\ ComparedStays'
    BY <2>1, <2>2, <2>3, <2>4 DEF LockInv, ClaimsStay, ComparedStays, Proceeds
  <2>8. \A q \in Process : life[q].at \in Claiming => dir.maker # life[q].original
    BY <2>1 DEF LockInv, ClaimsStay
  <2>9. OneClaim'
    <3> SUFFICES ASSUME NEW q \in Process, NEW r \in Process, q # r,
                        life'[q].at \in Claiming, life'[r].at \in Claiming,
                        dir'.maker = life'[q].original, dir'.maker = life'[r].original
                 PROVE  FALSE
      BY DEF OneClaim
    <3>1. PICK s \in {q, r} : s # p
      OBVIOUS
    <3>2. life'[s] = life[s] /\ dir'.maker = life'[s].original /\ life'[s].at \in Claiming
      BY <2>4, <3>1 DEF Proceeds
    <3> QED BY <2>2, <2>8, <3>1, <3>2
  <2> QED BY <2>5, <2>6, <2>7, <2>9 DEF LockInv
<1> QED BY <1>1, <1>2

LEMMA CompareOwnerKeeps == ASSUME LockInv, NEW p \in Process, CompareOwner(p) PROVE LockInv'
<1>1. CASE Refuse(p)
  <2>1. Proceeds(p) /\ life'[p].at = "refused" /\ dir' = dir
    BY <1>1, GoMoves DEF LockInv, CompareOwner, Refuse
  <2> QED BY <2>1, QuietMoves DEF CompareOwner
<1>2. CASE Owned /\ dir.maker = life[p].original /\ Go(p, "inspect") /\ dir' = dir
  <2>1. Proceeds(p) /\ life'[p].at = "inspect" /\ life[p].at = "compare"
    BY <1>2, GoMoves DEF LockInv, CompareOwner
  <2> QED BY <1>2, <2>1, QuietMoves
<1> QED BY <1>1, <1>2 DEF CompareOwner

LEMMA InspectKeeps == ASSUME LockInv, NEW p \in Process, Inspect(p) PROVE LockInv'
<1>1. PICK step \in {"rename", "refused"} : Go(p, step) /\ dir' = dir
  BY DEF Inspect, Refuse
<1>2. Proceeds(p) /\ life'[p].at = step /\ life[p].at = "inspect"
  BY <1>1, GoMoves DEF LockInv, Inspect
<1> QED BY <1>1, <1>2, QuietMoves

LEMMA RenameKeeps == ASSUME LockInv, NEW p \in Process, Rename(p) PROVE LockInv'
<1>1. Proceeds(p) /\ life[p].at = "rename" /\ life'[p].at \in {"mkdir", "refused"}
  <2> DEFINE again == dir # NoDir /\ life[p].attempt < Attempts
             next == IF again THEN life[p].attempt + 1 ELSE life[p].attempt
             step == IF again THEN "mkdir" ELSE "refused"
  <2>1. life[p] \in Life /\ life[p].at = "rename"
    BY DEF LockInv, TypeOK, Rename
  <2>2. next \in 1 .. Attempts
    BY <2>1, LockAssumption DEF Life
  <2>3. life' = [life EXCEPT ![p].at = step, ![p].attempt = next]
    BY DEF Rename
  <2>4. step \in {"mkdir", "refused"}
    OBVIOUS
  <2> HIDE DEF next, step
  <2> QED BY <2>1, <2>2, <2>3, <2>4 DEF LockInv, TypeOK, Life, Proceeds
<1>2. \A q \in Process \ {p} : life[q].at \notin Making \cup {"inspect", "rename"}
  BY <1>1, LoneMaker
<1> QED BY <1>1, <1>2, NameMoves DEF Rename

LEMMA UnlockKeeps == ASSUME LockInv, NEW p \in Process, Unlock(p) PROVE LockInv'
<1>1. Proceeds(p) /\ life'[p].at = "check" /\ life[p].at = "hold" /\ dir' = dir
  BY GoMoves DEF LockInv, Unlock
<1> QED BY <1>1, QuietMoves

LEMMA CheckOwnerKeeps == ASSUME LockInv, NEW p \in Process, CheckOwner(p) PROVE LockInv'
<1>1. PICK step \in {"remove", "ended"} : Go(p, step) /\ dir' = dir
  BY DEF CheckOwner
<1>2. Proceeds(p) /\ life'[p].at = step /\ life[p].at = "check"
  BY <1>1, GoMoves DEF LockInv, CheckOwner
<1> QED BY <1>1, <1>2, QuietMoves

LEMMA RemoveFilesKeeps == ASSUME LockInv, NEW p \in Process, RemoveFiles(p) PROVE LockInv'
<1>1. dir # NoDir /\ dir \in Directory /\ dir.maker = p /\ life[p].at = "remove"
  BY DEF LockInv, TypeOK, Mine, RemoveFiles
<1>2. dir' = [dir EXCEPT !.written = FALSE, !.claimed = FALSE]
  BY <1>1 DEF RemoveFiles
<1>3. dir' \in Directory /\ dir'.maker = p /\ ~dir'.written
  BY <1>1, <1>2 DEF Directory
<1>4. Proceeds(p) /\ life'[p].at = "rmdir"
  BY <1>1, GoMoves DEF LockInv, RemoveFiles
<1>5. \A q \in Process \ {p} : life[q].at \notin Making \cup {"inspect", "rename"}
  BY <1>1, LoneMaker
<1> QED BY <1>1, <1>3, <1>4, <1>5, LockAssumption, NameMoves

LEMMA RemoveDirKeeps == ASSUME LockInv, NEW p \in Process, RemoveDir(p) PROVE LockInv'
<1>1. Proceeds(p) /\ life'[p].at = "ended" /\ life[p].at = "rmdir"
  BY GoMoves DEF LockInv, RemoveDir
<1>2. CASE dir' = NoDir
  <2>1. \A q \in Process \ {p} : life[q].at \notin Making \cup {"inspect", "rename"}
    BY <1>1, LoneMaker
  <2> QED BY <1>1, <1>2, <2>1, NameMoves
<1>3. CASE dir' = dir
  BY <1>1, <1>3, QuietMoves
<1> QED BY <1>2, <1>3 DEF RemoveDir

LEMMA DieKeeps == ASSUME LockInv, NEW p \in Process, Die(p) PROVE LockInv'
<1>1. Proceeds(p) /\ life'[p].at = "dead" /\ dir' = dir
  BY GoMoves DEF LockInv, Die, Alive
<1> QED BY <1>1, QuietMoves

-----------------------------------------------------------------------------
LEMMA NextKeeps == LockInv /\ [Next]_vars => LockInv'
<1> SUFFICES ASSUME LockInv, [Next]_vars PROVE LockInv'
  OBVIOUS
<1>1. CASE Next
  BY <1>1, StartKeeps, MakeDirKeeps, WriteOwnerKeeps, ReadOwnerKeeps, JudgeKeeps,
     StatKeeps, ClaimKeeps, CompareOwnerKeeps, InspectKeeps, RenameKeeps, UnlockKeeps,
     CheckOwnerKeeps, RemoveFilesKeeps, RemoveDirKeeps, DieKeeps DEF Next, Advance
<1>2. CASE UNCHANGED vars
  BY <1>2 DEF vars, LockInv, TypeOK, Mine, OwnersStarted, ReadOwnersStarted,
     JudgedAreFinished, ClaimsStay, OneClaim, ComparedStays
<1> QED BY <1>1, <1>2

\* Every reachable state has the right types and the invariant holds in it.
\* (lock, scripts/runPersistentLearningController.ts:68-102)
THEOREM LockInvariant == Spec => []LockInv
<1>1. LockInv /\ [Next]_vars => LockInv'
  BY NextKeeps
<1> QED BY <1>1, InitHolds, PTL DEF Spec

\* For any number of processes and hosts, with pids and inodes used again: a
\* controller that works on the journal has its own lock under the lock's name.
THEOREM HoldersOwnTheLock == Spec => []HolderOwnsLock
<1>1. LockInv => HolderOwnsLock
  BY DEF LockInv, Mine, HolderOwnsLock
<1> QED BY <1>1, LockInvariant, PTL

\* So there is never a second writer of the journal.
THEOREM OneWriter ==
    Spec => [](\A p, q \in Process : Holds(p) /\ Holds(q) => p = q)
<1>1. HolderOwnsLock => \A p, q \in Process : Holds(p) /\ Holds(q) => p = q
  BY DEF HolderOwnsLock
<1> QED BY <1>1, HoldersOwnTheLock, PTL

HIDE DEF At, Owned, Holds, Working, Finished, Making, Judged, Claiming

-----------------------------------------------------------------------------
\* The learning store.

\* A call past its object has a whole object behind it.
Behind == RefStep \cup {"read-back", "stored"}
ObjectsFirst ==
    \A c \in Recorder :
        /\ recorders[c].at # "new" => RecordOf(c) \in StoredRecord
        /\ recorders[c].at \in Behind => objects[RecordOf(c)] = RecordOf(c)

\* Who writes a reference has begun it, alone.
OneRefWriter ==
    \A c \in Recorder : recorders[c].at = "write-ref" =>
        /\ RefOf(RecordOf(c)) = Begun
        /\ \A d \in Recorder :
              recorders[d].at = "write-ref" /\ NameOf[RecordOf(d)] = NameOf[RecordOf(c)]
                  => d = c

\* Who has written or compared a reference finds its own record there.
RefsStay ==
    \A c \in Recorder :
        recorders[c].at \in {"read-back", "stored"} => RefOf(RecordOf(c)) = RecordOf(c)

WholeRefs == \A n \in RefName : refs[n] \in StoredRecord => Resolves(n)

\* What a list owes is in place, and is still to be read or read.
ListsOwe ==
    \A l \in Lister : \A e \in owed[l] :
        /\ RefOf(e) = e
        /\ listers[l].at = "reading" => NameOf[e] \in listers[l].left \/ e \in listers[l].read
        /\ listers[l].at = "listed" => e \in listers[l].read

LInv ==
    /\ LearningTypeOK
    /\ ObjectsFirst /\ OneRefWriter /\ RefsStay /\ WholeRefs /\ ListsOwe

USE DEF RecordOf, RefOf

-----------------------------------------------------------------------------
LEMMA StoreInitHolds == LearningInit => LInv
BY StoreAssumption
   DEF LearningInit, LInv, LearningTypeOK, FilesTypeOK, RecordersTypeOK, ListersTypeOK,
       RecorderStep, ObjectStep, RefStep, Behind,
       ObjectsFirst, OneRefWriter, RefsStay, WholeRefs, ListsOwe

\* A record has a name.
LEMMA Named == \A e \in StoredRecord : NameOf[e] \in RefName
BY DEF RefName

\* A step of one call is its own.
LEMMA StepsMove ==
    ASSUME RecordersTypeOK, NEW c \in Recorder,
           NEW from, NEW to \in RecorderStep, Steps(c, from, to)
    PROVE  /\ RecordersTypeOK'
           /\ recorders[c].at = from /\ recorders'[c].at = to
           /\ recorders'[c].record = recorders[c].record
           /\ \A d \in Recorder \ {c} : recorders'[d] = recorders[d]
BY DEF RecordersTypeOK, Steps

-----------------------------------------------------------------------------
\* What a call does to itself: it reaches a step whose claims hold already.
Claims(c, to) ==
    /\ to \in Behind => objects[RecordOf(c)] = RecordOf(c)
    /\ to \in {"read-back", "stored"} => RefOf(RecordOf(c)) = RecordOf(c)

\* The steps that change no file: the call goes on to where its claims hold.
LEMMA CallMoves ==
    ASSUME LInv, UNCHANGED <<objects, refs, failedWrites, listers, owed>>,
           NEW c \in Recorder, NEW from \in RecorderStep \ {"new"},
           NEW to \in RecorderStep \ {"new", "write-ref"},
           Steps(c, from, to), Claims(c, to)
    PROVE  LInv'
<1>1. /\ RecordersTypeOK'
      /\ recorders[c].at = from /\ recorders'[c].at = to
      /\ recorders'[c].record = recorders[c].record
      /\ \A d \in Recorder \ {c} : recorders'[d] = recorders[d]
  BY StepsMove DEF LInv, LearningTypeOK
<1>2. LearningTypeOK'
  BY <1>1 DEF LInv, LearningTypeOK, FilesTypeOK, ListersTypeOK
<1>3. ObjectsFirst'
  BY <1>1 DEF LInv, ObjectsFirst, Claims
<1>4. OneRefWriter'
  BY <1>1 DEF LInv, OneRefWriter
<1>5. RefsStay'
  BY <1>1 DEF LInv, RefsStay, Claims
<1>6. (WholeRefs /\ ListsOwe)'
  BY DEF LInv, WholeRefs, Resolves, ListsOwe
<1> QED
  BY <1>2, <1>3, <1>4, <1>5, <1>6 DEF LInv

LEMMA CompareObjectKeeps ==
    ASSUME LInv, NEW c \in Recorder, CompareObject(c)
    PROVE  LInv'
<1>1. PICK to \in {"open-ref", "threw"} :
         /\ Steps(c, "compare-object", to)
         /\ to = "open-ref" => objects[RecordOf(c)] = RecordOf(c)
  BY DEF CompareObject, Same
<1>2. Claims(c, to)
  BY <1>1 DEF Claims, Behind, RefStep
<1> QED
  BY <1>1, <1>2, CallMoves
     DEF CompareObject, FilesStay, ListsStay, RecorderStep, ObjectStep, RefStep

LEMMA CompareRefKeeps ==
    ASSUME LInv, NEW c \in Recorder, CompareRef(c)
    PROVE  LInv'
<1>1. PICK to \in {"read-back", "threw"} :
         /\ Steps(c, "compare-ref", to)
         /\ to = "read-back" => RefOf(RecordOf(c)) = RecordOf(c)
  BY DEF CompareRef, Same
<1>2. Claims(c, to)
  BY <1>1 DEF LInv, ObjectsFirst, Steps, Claims, Behind, RefStep
<1> QED
  BY <1>1, <1>2, CallMoves
     DEF CompareRef, FilesStay, ListsStay, RecorderStep, ObjectStep, RefStep

LEMMA ReadBackKeeps ==
    ASSUME LInv, NEW c \in Recorder, ReadBack(c)
    PROVE  LInv'
<1>1. PICK to \in {"stored", "threw"} : Steps(c, "read-back", to)
  BY DEF ReadBack
<1>2. Claims(c, to)
  BY <1>1 DEF LInv, ObjectsFirst, RefsStay, Steps, Claims, Behind, RefStep
<1> QED
  BY <1>1, <1>2, CallMoves
     DEF ReadBack, FilesStay, ListsStay, RecorderStep, ObjectStep, RefStep

LEMMA RecorderDiesKeeps ==
    ASSUME LInv, NEW c \in Recorder, RecorderDies(c)
    PROVE  LInv'
<1>1. /\ recorders[c].at \in RecorderStep \ {"new"}
      /\ Steps(c, recorders[c].at, "dead")
  BY DEF LInv, RecorderDies, Recording, Steps, RecorderStep, ObjectStep, RefStep
<1>2. Claims(c, "dead")
  BY DEF Claims, Behind, RefStep
<1> QED
  BY <1>1, <1>2, CallMoves
     DEF RecorderDies, FilesStay, ListsStay, RecorderStep, ObjectStep, RefStep

LEMMA BeginRecordKeeps ==
    ASSUME LInv, NEW c \in Recorder, NEW e \in StoredRecord, BeginRecord(c, e)
    PROVE  LInv'
<1>1. LearningTypeOK'
  BY DEF LInv, LearningTypeOK, FilesTypeOK, RecordersTypeOK, ListersTypeOK, RecorderStep,
         ObjectStep, BeginRecord, FilesStay, ListsStay
<1>2. (ObjectsFirst /\ OneRefWriter /\ RefsStay)'
  BY DEF LInv, LearningTypeOK, RecordersTypeOK, BeginRecord, FilesStay, Behind, RefStep,
         ObjectsFirst, OneRefWriter, RefsStay
<1>3. (WholeRefs /\ ListsOwe)'
  BY DEF LInv, BeginRecord, FilesStay, ListsStay, WholeRefs, Resolves, ListsOwe
<1> QED
  BY <1>1, <1>2, <1>3 DEF LInv

-----------------------------------------------------------------------------
\* A step that changes one object: a whole object stays whole.
LEMMA ObjectGrows ==
    ASSUME LInv, UNCHANGED <<refs, listers, owed>>, failedWrites' \in 0 .. WriteFaults,
           NEW c \in Recorder, NEW from \in RecorderStep \ {"new"},
           NEW to \in RecorderStep \ ({"new", "read-back", "stored"} \cup (RefStep \ {"open-ref"})),
           Steps(c, from, to),
           NEW file \in {objects[RecordOf(c)], Begun, RecordOf(c)},
           objects' = [objects EXCEPT ![RecordOf(c)] = file],
           file = Begun => objects[RecordOf(c)] # RecordOf(c),
           to = "open-ref" => file = RecordOf(c)
    PROVE  LInv'
<1>1. /\ RecordersTypeOK'
      /\ recorders[c].at = from /\ recorders'[c].at = to
      /\ recorders'[c].record = recorders[c].record
      /\ \A d \in Recorder \ {c} : recorders'[d] = recorders[d]
  BY StepsMove DEF LInv, LearningTypeOK
<1>2. RecordOf(c) \in StoredRecord
  BY <1>1 DEF LInv, ObjectsFirst
<1>3. FilesTypeOK'
  BY <1>2 DEF LInv, LearningTypeOK, FilesTypeOK
<1>4. \A e \in StoredRecord : objects[e] = e => objects'[e] = e
  BY <1>2 DEF LInv, LearningTypeOK, FilesTypeOK
<1>5. objects'[RecordOf(c)] = file
  BY <1>2 DEF LInv, LearningTypeOK, FilesTypeOK
<1>6. ObjectsFirst'
  BY <1>1, <1>2, <1>4, <1>5 DEF LInv, ObjectsFirst, Behind, RefStep
<1>7. (OneRefWriter /\ RefsStay)'
  BY <1>1 DEF LInv, OneRefWriter, RefsStay, RefStep
<1>8. (WholeRefs /\ ListsOwe /\ ListersTypeOK)'
  BY <1>4 DEF LInv, LearningTypeOK, ListersTypeOK, WholeRefs, Resolves, ListsOwe
<1> QED
  BY <1>1, <1>3, <1>6, <1>7, <1>8 DEF LInv, LearningTypeOK

LEMMA OpenObjectKeeps ==
    ASSUME LInv, NEW c \in Recorder, OpenObject(c)
    PROVE  LInv'
<1>1. CASE objects[RecordOf(c)] = Missing
  <2>1. /\ Steps(c, "open-object", "write-object")
        /\ objects' = [objects EXCEPT ![RecordOf(c)] = Begun]
        /\ UNCHANGED <<refs, failedWrites, listers, owed>>
    BY <1>1 DEF OpenObject, ListsStay
  <2>2. objects[RecordOf(c)] # RecordOf(c)
    BY <1>1, <2>1, StoreAssumption DEF LInv, ObjectsFirst, Steps
  <2> QED
    <3>1. failedWrites' \in 0 .. WriteFaults
      BY <2>1 DEF LInv, LearningTypeOK, FilesTypeOK
    <3>2. "open-object" \in RecorderStep \ {"new"} /\ "write-object" \in RecorderStep
      BY DEF RecorderStep, ObjectStep
    <3> QED
      <4>1. PICK file \in {objects[RecordOf(c)], Begun, RecordOf(c)} : file = Begun
        OBVIOUS
      <4>2. PICK to \in RecorderStep : to = "write-object"
        BY <3>2
      <4>3. /\ to \notin {"new", "read-back", "stored"} \cup (RefStep \ {"open-ref"})
            /\ to # "open-ref"
        BY <4>2 DEF RefStep
      <4> QED
        BY <2>1, <2>2, <3>1, <3>2, <4>1, <4>2, <4>3, ObjectGrows
<1>2. CASE objects[RecordOf(c)] # Missing
  <2>1. Claims(c, "compare-object")
    BY DEF Claims, Behind, RefStep
  <2> QED
    BY <1>2, <2>1, CallMoves
       DEF OpenObject, ListsStay, RecorderStep, ObjectStep, RefStep
<1> QED
  BY <1>1, <1>2

LEMMA WriteObjectKeeps ==
    ASSUME LInv, NEW c \in Recorder, WriteObject(c)
    PROVE  LInv'
<1>1. failedWrites' \in 0 .. WriteFaults /\ UNCHANGED <<refs, listers, owed>>
  BY StoreAssumption DEF LInv, LearningTypeOK, FilesTypeOK, WriteObject, ListsStay
<1>2. PICK to \in {"open-ref", "threw"}, file \in {objects[RecordOf(c)], RecordOf(c)} :
         /\ Steps(c, "write-object", to)
         /\ objects' = [objects EXCEPT ![RecordOf(c)] = file]
         /\ to = "open-ref" => file = RecordOf(c)
  BY DEF LInv, LearningTypeOK, FilesTypeOK, WriteObject
<1>3. RecordOf(c) \in StoredRecord
  BY <1>2 DEF LInv, ObjectsFirst, Steps
<1>4. CASE file = RecordOf(c)
  BY <1>1, <1>2, <1>3, <1>4, ObjectGrows, StoreAssumption
     DEF RecorderStep, ObjectStep, RefStep
<1>5. CASE file # RecordOf(c)
  <2>1. UNCHANGED objects
    BY <1>2, <1>5 DEF LInv, LearningTypeOK, FilesTypeOK
  <2>2. file = objects[RecordOf(c)] /\ objects[RecordOf(c)] # RecordOf(c)
    BY <1>2, <1>5
  <2> QED
    BY <1>1, <1>2, <2>2, ObjectGrows DEF RecorderStep, ObjectStep, RefStep
<1> QED
  BY <1>4, <1>5

-----------------------------------------------------------------------------
LEMMA OpenRefKeeps ==
    ASSUME LInv, NEW c \in Recorder, OpenRef(c)
    PROVE  LInv'
<1> DEFINE n == NameOf[RecordOf(c)]
<1>1. recorders[c].at = "open-ref" /\ RecordOf(c) \in StoredRecord /\ n \in RefName
  BY Named DEF LInv, ObjectsFirst, OpenRef
<1>2. objects[RecordOf(c)] = RecordOf(c)
  BY <1>1 DEF LInv, ObjectsFirst, Behind, RefStep
<1>3. CASE refs[n] # Missing
  <2>1. Claims(c, "compare-ref")
    BY <1>2 DEF Claims
  <2> QED
    BY <1>3, <2>1, CallMoves DEF OpenRef, ListsStay, RecorderStep, ObjectStep, RefStep
<1>4. CASE refs[n] = Missing
  <2>1. /\ Steps(c, "open-ref", "write-ref")
        /\ refs' = [refs EXCEPT ![n] = Begun]
        /\ UNCHANGED <<objects, failedWrites, listers, owed>>
    BY <1>4 DEF OpenRef, ListsStay
  <2>2. /\ RecordersTypeOK'
        /\ recorders'[c].at = "write-ref"
        /\ recorders'[c].record = recorders[c].record
        /\ \A d \in Recorder \ {c} : recorders'[d] = recorders[d]
    BY <2>1, StepsMove DEF LInv, LearningTypeOK, RecorderStep, RefStep
  <2>3. refs'[n] = Begun /\ \A k \in RefName \ {n} : refs'[k] = refs[k]
    BY <1>1, <2>1 DEF LInv, LearningTypeOK, FilesTypeOK
  <2>4. FilesTypeOK' /\ ListersTypeOK'
    BY <1>1, <2>1, <2>3, StoreAssumption DEF LInv, LearningTypeOK, FilesTypeOK, ListersTypeOK
  <2>5. ObjectsFirst'
    BY <1>1, <1>2, <2>1, <2>2 DEF LInv, ObjectsFirst
  <2>6. \A d \in Recorder \ {c} : recorders[d].at = "write-ref" => NameOf[RecordOf(d)] # n
    BY <1>4, StoreAssumption DEF LInv, OneRefWriter
  <2>7. \A e \in StoredRecord : RefOf(e) = e => NameOf[e] # n
    BY <1>4, StoreAssumption
  <2>8. OneRefWriter'
    BY <2>2, <2>3, <2>6, Named DEF LInv, OneRefWriter, ObjectsFirst
  <2>9. RefsStay'
    BY <2>2, <2>3, <2>7, Named DEF LInv, RefsStay, ObjectsFirst
  <2>10. WholeRefs'
    BY <2>1, <2>3, StoreAssumption DEF LInv, WholeRefs, Resolves
  <2>11. ListsOwe'
    BY <2>1, <2>3, <2>7, Named DEF LInv, LearningTypeOK, ListersTypeOK, ListsOwe
  <2> QED
    BY <2>2, <2>4, <2>5, <2>8, <2>9, <2>10, <2>11 DEF LInv, LearningTypeOK
<1> QED
  BY <1>3, <1>4

LEMMA WriteRefKeeps ==
    ASSUME LInv, NEW c \in Recorder, WriteRef(c)
    PROVE  LInv'
<1> DEFINE n == NameOf[RecordOf(c)]
<1>1. recorders[c].at = "write-ref" /\ RecordOf(c) \in StoredRecord /\ n \in RefName
  BY Named DEF LInv, ObjectsFirst, WriteRef, Steps
<1>2. /\ objects[RecordOf(c)] = RecordOf(c)
      /\ refs[n] = Begun
  BY <1>1 DEF LInv, ObjectsFirst, OneRefWriter, Behind, RefStep
<1>3. failedWrites' \in 0 .. WriteFaults /\ UNCHANGED <<objects, listers, owed>>
  BY StoreAssumption DEF LInv, LearningTypeOK, FilesTypeOK, WriteRef, ListsStay
<1>4. PICK to \in {"read-back", "threw"}, file \in {Begun, RecordOf(c)} :
         /\ Steps(c, "write-ref", to)
         /\ refs' = [refs EXCEPT ![n] = file]
         /\ to = "read-back" => file = RecordOf(c)
  BY <1>1, <1>2 DEF LInv, LearningTypeOK, FilesTypeOK, WriteRef
<1>5. /\ RecordersTypeOK'
      /\ recorders'[c].at = to
      /\ recorders'[c].record = recorders[c].record
      /\ \A d \in Recorder \ {c} : recorders'[d] = recorders[d]
  BY <1>4, StepsMove DEF LInv, LearningTypeOK, RecorderStep, RefStep
<1>6. refs'[n] = file /\ \A k \in RefName \ {n} : refs'[k] = refs[k]
  BY <1>1, <1>4 DEF LInv, LearningTypeOK, FilesTypeOK
<1>7. FilesTypeOK' /\ ListersTypeOK'
  <2>1. refs' \in [RefName -> StoredRecord \cup {Missing, Begun}]
    BY <1>1, <1>4 DEF LInv, LearningTypeOK, FilesTypeOK
  <2>2. \A k \in RefName : refs'[k] \in StoredRecord => NameOf[refs'[k]] = k
    BY <1>1, <1>4, <1>6, StoreAssumption DEF LInv, LearningTypeOK, FilesTypeOK
  <2> QED
    BY <1>3, <2>1, <2>2 DEF LInv, LearningTypeOK, FilesTypeOK, ListersTypeOK
<1>8. ObjectsFirst'
  BY <1>1, <1>2, <1>3, <1>5 DEF LInv, ObjectsFirst
<1>9. \A d \in Recorder \ {c} : recorders[d].at = "write-ref" => NameOf[RecordOf(d)] # n
  BY <1>1 DEF LInv, OneRefWriter
<1>10. \A e \in StoredRecord : RefOf(e) = e => NameOf[e] # n
  BY <1>2, StoreAssumption
<1>11. OneRefWriter'
  BY <1>5, <1>6, <1>9, Named DEF LInv, OneRefWriter, ObjectsFirst
<1>12. RefsStay'
  BY <1>4, <1>5, <1>6, <1>10, Named DEF LInv, RefsStay, ObjectsFirst
<1>13. WholeRefs'
  BY <1>2, <1>3, <1>6, StoreAssumption DEF LInv, WholeRefs, Resolves
<1>14. ListsOwe'
  BY <1>3, <1>6, <1>10, Named DEF LInv, LearningTypeOK, ListersTypeOK, ListsOwe
<1> QED
  BY <1>5, <1>7, <1>8, <1>11, <1>12, <1>13, <1>14 DEF LInv, LearningTypeOK

-----------------------------------------------------------------------------
\* The steps of a list change the list.
LEMMA ListMoves ==
    ASSUME LInv, UNCHANGED <<objects, refs, failedWrites, recorders>>, ListersTypeOK', ListsOwe'
    PROVE  LInv'
<1>1. LearningTypeOK'
  BY DEF LInv, LearningTypeOK, FilesTypeOK, RecordersTypeOK
<1>2. (ObjectsFirst /\ OneRefWriter /\ RefsStay /\ WholeRefs)'
  BY DEF LInv, ObjectsFirst, OneRefWriter, RefsStay, WholeRefs, Resolves
<1> QED
  BY <1>1, <1>2 DEF LInv

LEMMA BeginListKeeps ==
    ASSUME LInv, NEW l \in Lister, BeginList(l)
    PROVE  LInv'
<1>1. Acknowledged \subseteq StoredRecord /\ \A e \in Acknowledged : RefOf(e) = e
  BY DEF LInv, ObjectsFirst, RefsStay, Acknowledged
<1>2. ListersTypeOK'
  BY <1>1 DEF LInv, LearningTypeOK, ListersTypeOK, BeginList, FilesStay
<1>3. \A e \in Acknowledged : NameOf[e] \in {n \in RefName : refs[n] # Missing}
  BY <1>1, Named, StoreAssumption
<1>4. ListsOwe'
  BY <1>1, <1>3 DEF LInv, LearningTypeOK, ListersTypeOK, BeginList, FilesStay, ListsOwe
<1> QED
  BY <1>2, <1>4, ListMoves DEF BeginList, FilesStay

LEMMA ReadListedKeeps ==
    ASSUME LInv, NEW l \in Lister, NEW n \in RefName, ReadListed(l, n)
    PROVE  LInv'
<1>1. CASE Resolves(n)
  <2>1. /\ listers' = [listers EXCEPT ![l].left = @ \ {n}, ![l].read = @ \cup {refs[n]}]
        /\ UNCHANGED <<owed, refs>>
    BY <1>1 DEF ReadListed, FilesStay
  <2>2. refs[n] \in StoredRecord
    BY <1>1 DEF Resolves
  <2>3. ListersTypeOK'
    BY <2>1, <2>2 DEF LInv, LearningTypeOK, ListersTypeOK
  <2>4. /\ listers'[l].at = "reading"
        /\ listers'[l].left = listers[l].left \ {n}
        /\ listers'[l].read = listers[l].read \cup {refs[n]}
        /\ listers[l].at = "reading"
        /\ \A k \in Lister \ {l} : listers'[k] = listers[k]
    BY <2>1 DEF LInv, LearningTypeOK, ListersTypeOK, ReadListed
  <2>5. ListsOwe'
    <3> SUFFICES ASSUME NEW k \in Lister, NEW e \in owed[k]
                 PROVE  /\ RefOf(e) = e
                        /\ listers'[k].at = "reading"
                              => NameOf[e] \in listers'[k].left \/ e \in listers'[k].read
                        /\ listers'[k].at = "listed" => e \in listers'[k].read
      BY <2>1 DEF ListsOwe
    <3>1. RefOf(e) = e
      BY DEF LInv, ListsOwe
    <3>2. CASE k = l
      BY <2>4, <3>1, <3>2 DEF LInv, ListsOwe
    <3>3. CASE k # l
      BY <2>4, <3>1, <3>3 DEF LInv, ListsOwe
    <3> QED
      BY <3>2, <3>3
  <2> QED
    BY <2>3, <2>5, ListMoves DEF ReadListed, FilesStay
<1>2. CASE ~Resolves(n)
  <2>1. listers' = [listers EXCEPT ![l].at = "threw"] /\ UNCHANGED <<owed, refs>>
    BY <1>2 DEF ReadListed, FilesStay
  <2>2. ListersTypeOK'
    BY <2>1 DEF LInv, LearningTypeOK, ListersTypeOK
  <2>3. ListsOwe'
    BY <2>1 DEF LInv, LearningTypeOK, ListersTypeOK, ListsOwe
  <2> QED
    BY <2>2, <2>3, ListMoves DEF ReadListed, FilesStay
<1> QED
  BY <1>1, <1>2

LEMMA EndListKeeps ==
    ASSUME LInv, NEW l \in Lister, EndList(l)
    PROVE  LInv'
<1>1. ListersTypeOK'
  BY DEF LInv, LearningTypeOK, ListersTypeOK, EndList
<1>2. ListsOwe'
  BY DEF LInv, LearningTypeOK, ListersTypeOK, EndList, FilesStay, ListsOwe
<1> QED
  BY <1>1, <1>2, ListMoves DEF EndList, FilesStay

-----------------------------------------------------------------------------
LEMMA StoreStepHolds == LInv /\ [LearningNext]_storeVars => LInv'
<1> SUFFICES ASSUME LInv, [LearningNext]_storeVars
             PROVE  LInv'
  OBVIOUS
<1>1. CASE UNCHANGED storeVars
  BY <1>1, ListMoves DEF storeVars, LInv, LearningTypeOK, ListersTypeOK, ListsOwe
<1>2. ASSUME NEW c \in Recorder, NEW e \in StoredRecord, BeginRecord(c, e)
      PROVE  LInv'
  BY <1>2, BeginRecordKeeps
<1>3. ASSUME NEW c \in Recorder,
             OpenObject(c) \/ WriteObject(c) \/ CompareObject(c) \/ OpenRef(c)
             \/ WriteRef(c) \/ CompareRef(c) \/ ReadBack(c) \/ RecorderDies(c)
      PROVE  LInv'
  BY <1>3, OpenObjectKeeps, WriteObjectKeeps, CompareObjectKeeps, OpenRefKeeps,
     WriteRefKeeps, CompareRefKeeps, ReadBackKeeps, RecorderDiesKeeps
<1>4. ASSUME NEW l \in Lister,
             BeginList(l) \/ EndList(l) \/ \E n \in RefName : ReadListed(l, n)
      PROVE  LInv'
  BY <1>4, BeginListKeeps, EndListKeeps, ReadListedKeeps
<1> QED
  BY <1>1, <1>2, <1>3, <1>4 DEF LearningNext

LEMMA LInvImpliesRecordsResolve == LInv => RecordsResolve
<1> SUFFICES ASSUME LInv PROVE RecordsResolve
  OBVIOUS
<1>1. \A e \in Acknowledged : RefOf(e) = e
  BY DEF LInv, RefsStay, Acknowledged
<1>2. \A l \in Lister : listers[l].at = "listed" => owed[l] \subseteq listers[l].read
  BY DEF LInv, ListsOwe
<1> QED
  BY <1>1, <1>2 DEF LInv, WholeRefs, RecordsResolve

\* Whatever callers record and list, die and fail at, references resolve, what
\* was acknowledged stays, and a list that is returned has all of it.
THEOREM RecordsStay == LearningSpec => []RecordsResolve
<1>1. LearningSpec => []LInv
  BY StoreInitHolds, StoreStepHolds, PTL DEF LearningSpec
<1> QED
  BY <1>1, LInvImpliesRecordsResolve, PTL

HIDE DEF RecordOf, RefOf

-----------------------------------------------------------------------------
(***************************************************************************)
(* Adapter training.  As long as every runner began alone and with the     *)
(* machine off, the machine is where the step of the one that goes on says *)
(* it is (Alone); and whoever waits for a job's end will find what made it *)
(* end (EndsKnown).                                                        *)
(***************************************************************************)

RunnerRec ==
    [at : Calling \cup {"new", "done", "threw", "dead"}, job : Job \cup {NoJob},
     waits : BOOLEAN, found : {"none", "completed", "failed"}]

\* Something says why a job's training is over.
Explained(j) == j \in results \cup crashed \cup cut \/ mishaps > 0

\* A runner that has chosen has a job; one that has sent its command finds it in
\* the machine, or why it is not there.
EndsKnown ==
    \A w \in Runner :
       /\ runners[w].at \in Calling \ {"choose"} => runners[w].job \in Job
       /\ runners[w].at \in {"submit", "watch"} =>
             Explained(runners[w].job) \/ machine.job = runners[w].job
       /\ runners[w].at = "judge" => Explained(runners[w].job)
       /\ runners[w].at = "record" =>
             \/ runners[w].found = "completed" /\ runners[w].job \in results
             \/ /\ runners[w].found = "failed"
                /\ runners[w].job \in crashed \cup cut \/ mishaps > 0

\* What the steps of a runner that began alone say of the machine.
Alone ==
    /\ cut = {}
    /\ machine.closing => machine.job = NoJob
    /\ \A v, w \in Runner : Active(v) /\ Active(w) => v = w
    /\ \A w \in Runner :
          /\ runners[w].at \in {"choose", "look", "boot", "judge", "record"} => machine = Off
          /\ runners[w].at = "send" => machine.job = NoJob /\ ~machine.closing
          /\ runners[w].at \in {"boot", "send"} /\ mishaps = 0 => runners[w].job \notin results

TrainingInv ==
    /\ LedgerIsHonest
    /\ machine.up \/ machine = Off
    /\ EndsKnown
    /\ disturbed \/ Alone

LEMMA TrainingInitFits == TrainingInit => TrainingInv
<1> SUFFICES ASSUME TrainingInit
             PROVE  TrainingInv
    OBVIOUS
<1>1. /\ runners \in [Runner -> RunnerRec]
      /\ machine \in [up : BOOLEAN, job : Job \cup {NoJob}, closing : BOOLEAN]
    BY DEF TrainingInit, RunnerRec, Off
<1>2. /\ jobLedger \in [entries : SUBSET (Job \X {"submitted", "completed", "failed"}),
                        torn : BOOLEAN]
      /\ trained \in [Job -> Nat]
      /\ results \cup crashed \cup cut \subseteq Job
      /\ mishaps \in 0 .. MaxMishaps
    BY TrainingAssumption DEF TrainingInit
<1>3. TrainingTypeOK
    BY <1>1, <1>2 DEF TrainingInit, TrainingTypeOK, RunnerRec
<1> QED
    BY <1>3 DEF TrainingInit, TrainingInv, LedgerIsHonest, EndsKnown, Alone, Active, Calling, Off

\* A runner that goes from one step to another changes nothing else of itself.
LEMMA MovedIs ==
    ASSUME runners \in [Runner -> RunnerRec], NEW w \in Runner,
           NEW to \in Calling \cup {"new", "done", "threw", "dead"}
    PROVE  /\ Moved(w, to) \in [Runner -> RunnerRec]
           /\ Moved(w, to)[w].at = to
           /\ Moved(w, to)[w].job = runners[w].job
           /\ Moved(w, to)[w].waits = runners[w].waits
           /\ Moved(w, to)[w].found = runners[w].found
           /\ \A v \in Runner \ {w} : Moved(w, to)[v] = runners[v]
BY DEF Moved, RunnerRec

\* A runner that only ends or does not go on leaves everything in place.
LEMMA RunnerDiesKeeps ==
    ASSUME TrainingInv, NEW w \in Runner, RunnerDies(w)
    PROVE  TrainingInv'
<1>1. runners \in [Runner -> RunnerRec]
    BY DEF TrainingInv, LedgerIsHonest, TrainingTypeOK, RunnerRec
<1>2. runners' = Moved(w, "dead")
    BY DEF RunnerDies
<1>3. /\ runners' \in [Runner -> RunnerRec]
      /\ runners'[w].at = "dead"
      /\ \A v \in Runner \ {w} : runners'[v] = runners[v]
    BY <1>1, <1>2, MovedIs
<1>4. /\ jobLedger' \in [entries : SUBSET (Job \X {"submitted", "completed", "failed"}),
                         torn : BOOLEAN]
      /\ jobLedger'.entries = jobLedger.entries
      /\ UNCHANGED <<machine, results, trained, crashed, cut, disturbed, mishaps>>
    BY DEF RunnerDies, TrainingInv, LedgerIsHonest, TrainingTypeOK
<1>5. TrainingTypeOK'
    BY <1>3, <1>4 DEF TrainingInv, LedgerIsHonest, TrainingTypeOK, RunnerRec
<1>8. LedgerIsHonest'
    BY <1>4, <1>5 DEF TrainingInv, LedgerIsHonest
<1>6. EndsKnown'
    BY <1>3, <1>4 DEF TrainingInv, EndsKnown, Explained, Calling
<1>7. (disturbed \/ Alone)'
    BY <1>3, <1>4 DEF TrainingInv, Alone, Active, Calling
<1> QED
    BY <1>4, <1>6, <1>7, <1>8 DEF TrainingInv, Off

LEMMA CallThrowsKeeps ==
    ASSUME TrainingInv, NEW w \in Runner, CallThrows(w)
    PROVE  TrainingInv'
<1>1. runners \in [Runner -> RunnerRec] /\ mishaps \in 0 .. MaxMishaps /\ MaxMishaps \in Nat
    BY TrainingAssumption DEF TrainingInv, LedgerIsHonest, TrainingTypeOK, RunnerRec
<1>2. runners' = Moved(w, "threw") /\ mishaps' = mishaps + 1 /\ mishaps < MaxMishaps
    BY DEF CallThrows, Does, Mishap
<1>3. /\ runners' \in [Runner -> RunnerRec]
      /\ runners'[w].at = "threw"
      /\ \A v \in Runner \ {w} : runners'[v] = runners[v]
    BY <1>1, <1>2, MovedIs
<1>4. UNCHANGED <<machine, results, jobLedger, trained, crashed, cut, disturbed>>
    BY DEF CallThrows
<1>5. mishaps' \in 0 .. MaxMishaps /\ mishaps' > 0
    BY <1>1, <1>2
<1>6. LedgerIsHonest'
    BY <1>3, <1>4, <1>5 DEF TrainingInv, LedgerIsHonest, TrainingTypeOK, RunnerRec
<1>7. EndsKnown'
    BY <1>3, <1>4, <1>5 DEF TrainingInv, EndsKnown, Explained, Calling
<1>8. (disturbed \/ Alone)'
    BY <1>3, <1>4, <1>5 DEF TrainingInv, Alone, Active, Calling
<1> QED
    BY <1>4, <1>6, <1>7, <1>8 DEF TrainingInv, Off

LEMMA BeginRunKeeps ==
    ASSUME TrainingInv, NEW w \in Runner, NEW waits \in BOOLEAN, BeginRun(w, waits)
    PROVE  TrainingInv'
<1>1. runners \in [Runner -> RunnerRec]
    BY DEF TrainingInv, LedgerIsHonest, TrainingTypeOK, RunnerRec
<1>2. /\ runners' \in [Runner -> RunnerRec]
      /\ runners'[w].at = "choose"
      /\ \A v \in Runner \ {w} : runners'[v] = runners[v]
    BY ZenonT(60), <1>1 DEF BeginRun, RunnerRec, Calling
<1>3. /\ UNCHANGED <<machine, results, jobLedger, trained, crashed, cut, mishaps>>
      /\ disturbed' = (disturbed \/ machine.up \/ \E v \in Runner : Active(v))
    BY DEF BeginRun
<1>4. disturbed' \in BOOLEAN
    BY <1>3
<1>5. TrainingTypeOK'
    BY <1>2, <1>3, <1>4 DEF TrainingInv, LedgerIsHonest, TrainingTypeOK, RunnerRec
<1>6. LedgerIsHonest'
    BY <1>3, <1>5 DEF TrainingInv, LedgerIsHonest
<1>7. EndsKnown'
    BY <1>2, <1>3 DEF TrainingInv, EndsKnown, Explained, Calling
<1>8. ASSUME ~disturbed'
      PROVE  Alone'
    <2>1. ~disturbed /\ ~machine.up /\ \A v \in Runner : ~Active(v)
        BY <1>3, <1>8
    <2>2. machine = Off
        BY <2>1 DEF TrainingInv
    <2>3. \A v \in Runner : Active(v)' => v = w
        BY <1>2, <2>1 DEF Active
    <2>4. Alone'
        BY <1>2, <1>3, <2>1, <2>2, <2>3 DEF TrainingInv, Alone, Active, Calling
    <2> QED
        BY <2>4
<1> QED
    BY <1>3, <1>6, <1>7, <1>8 DEF TrainingInv, Off

LEMMA ChooseKeeps ==
    ASSUME TrainingInv, NEW w \in Runner, Choose(w)
    PROVE  TrainingInv'
<1>1. runners \in [Runner -> RunnerRec] /\ runners[w].at = "choose"
    BY DEF TrainingInv, LedgerIsHonest, TrainingTypeOK, RunnerRec, Choose
<1>2. UNCHANGED <<machine, results, jobLedger, trained, crashed, cut, disturbed, mishaps>>
    BY DEF Choose
<1>3. /\ runners' \in [Runner -> RunnerRec]
      /\ \/ runners'[w].at \in {"threw", "done"}
         \/ runners'[w].at = "look" /\ runners'[w].job \in Job
      /\ \A v \in Runner \ {w} : runners'[v] = runners[v]
    <2>1. CASE \E to \in {"threw", "done"} : runners' = Moved(w, to)
        BY <1>1, <2>1, MovedIs
    <2>2. ASSUME NEW i \in DOMAIN Jobs,
                 runners' = [runners EXCEPT ![w].at = "look", ![w].job = Jobs[i]]
          PROVE  <1>3
        <3>1. Jobs[i] \in Job
            BY DEF Job, ToSet
        <3> QED
            BY ZenonT(60), <1>1, <2>2, <3>1 DEF RunnerRec, Calling
    <2> QED
        BY <2>1, <2>2 DEF Choose
<1>4. LedgerIsHonest'
    BY <1>2, <1>3 DEF TrainingInv, LedgerIsHonest, TrainingTypeOK, RunnerRec
<1>5. EndsKnown'
    BY <1>2, <1>3 DEF TrainingInv, EndsKnown, Explained, Calling
<1>6. ASSUME ~disturbed
      PROVE  Alone'
    <2>1. Alone /\ machine = Off
        BY <1>1, <1>6 DEF TrainingInv, Alone
    <2>2. \A v \in Runner : Active(v)' => Active(v)
        BY <1>1, <1>3 DEF Active, Calling
    <2>3. Alone'
        BY <1>2, <1>3, <2>1, <2>2 DEF Alone
    <2> QED
        BY <2>3
<1> QED
    BY <1>2, <1>4, <1>5, <1>6 DEF TrainingInv, Off

LEMMA LookKeeps ==
    ASSUME TrainingInv, NEW w \in Runner, Look(w)
    PROVE  TrainingInv'
<1>1. /\ runners \in [Runner -> RunnerRec] /\ runners[w].at = "look"
      /\ mishaps \in 0 .. MaxMishaps /\ MaxMishaps \in Nat
    BY TrainingAssumption DEF TrainingInv, LedgerIsHonest, TrainingTypeOK, RunnerRec, Look, Does
<1>2. UNCHANGED <<machine, results, jobLedger, trained, crashed, cut, disturbed>>
    BY DEF Look
<1>3. /\ runners' \in [Runner -> RunnerRec]
      /\ runners'[w].job = runners[w].job
      /\ runners'[w].at \in {"judge", "boot"}
      /\ \A v \in Runner \ {w} : runners'[v] = runners[v]
    BY <1>1, MovedIs DEF Look, Does, Calling
<1>4. /\ mishaps' \in 0 .. MaxMishaps
      /\ mishaps > 0 => mishaps' > 0
      /\ mishaps' = 0 => mishaps = 0
    BY <1>1 DEF Look, Mishap
<1>5. /\ runners'[w].at = "judge" => runners[w].job \in results
      /\ runners'[w].at = "boot" /\ mishaps' = 0 => runners[w].job \notin results
    <2>1. CASE Does(w, "look", IF Seen(w) THEN "judge" ELSE "boot")
        BY <1>1, <2>1, MovedIs DEF Does, Seen, Calling
    <2>2. CASE Does(w, "look", "boot") /\ Mishap
        BY <1>1, <2>2, MovedIs DEF Does, Calling, Mishap
    <2> QED
        BY <2>1, <2>2 DEF Look
<1>6. runners[w].job \in Job
    BY <1>1 DEF TrainingInv, EndsKnown, Calling
<1>7. LedgerIsHonest'
    BY <1>2, <1>3, <1>4 DEF TrainingInv, LedgerIsHonest, TrainingTypeOK, RunnerRec
<1>8. EndsKnown'
    BY <1>2, <1>3, <1>4, <1>5, <1>6 DEF TrainingInv, EndsKnown, Explained, Calling
<1>9. ASSUME ~disturbed
      PROVE  Alone'
    <2>1. Alone /\ machine = Off
        BY <1>1, <1>9 DEF TrainingInv, Alone
    <2>2. \A v \in Runner : Active(v)' => Active(v)
        BY <1>1, <1>3 DEF Active, Calling
    <2>3. Alone'
        BY <1>2, <1>3, <1>4, <1>5, <2>1, <2>2 DEF Alone
    <2> QED
        BY <2>3
<1> QED
    BY <1>2, <1>7, <1>8, <1>9 DEF TrainingInv, Off

LEMMA BootKeeps ==
    ASSUME TrainingInv, NEW w \in Runner, Boot(w)
    PROVE  TrainingInv'
<1>1. /\ runners \in [Runner -> RunnerRec] /\ runners[w].at = "boot"
      /\ machine \in [up : BOOLEAN, job : Job \cup {NoJob}, closing : BOOLEAN]
    BY DEF TrainingInv, LedgerIsHonest, TrainingTypeOK, RunnerRec, Boot, Does
<1>2. UNCHANGED <<results, jobLedger, trained, crashed, cut, disturbed, mishaps>>
    BY DEF Boot
<1>3. /\ runners' \in [Runner -> RunnerRec]
      /\ runners'[w].job = runners[w].job
      /\ runners'[w].at = "send"
      /\ \A v \in Runner \ {w} : runners'[v] = runners[v]
    BY <1>1, MovedIs DEF Boot, Does, Calling
<1>4. /\ machine' \in [up : BOOLEAN, job : Job \cup {NoJob}, closing : BOOLEAN]
      /\ machine'.up /\ machine'.job = machine.job /\ machine'.closing = machine.closing
    BY <1>1 DEF Boot
<1>5. runners[w].job \in Job
    BY <1>1 DEF TrainingInv, EndsKnown, Calling
<1>6. LedgerIsHonest'
    BY <1>2, <1>3, <1>4 DEF TrainingInv, LedgerIsHonest, TrainingTypeOK, RunnerRec
<1>7. EndsKnown'
    BY <1>2, <1>3, <1>4, <1>5 DEF TrainingInv, EndsKnown, Explained, Calling
<1>8. ASSUME ~disturbed
      PROVE  Alone'
    <2>1. Alone /\ machine = Off
        BY <1>1, <1>8 DEF TrainingInv, Alone
    <2>2. \A v \in Runner : Active(v)' => Active(v)
        BY <1>1, <1>3 DEF Active, Calling
    <2>3. \A v \in Runner \ {w} : ~Active(v)
        BY <1>1, <2>1 DEF Alone, Active, Calling
    <2>4. Alone'
        BY <1>1, <1>2, <1>3, <1>4, <2>1, <2>2, <2>3 DEF Alone, Active, Calling, Off
    <2> QED
        BY <2>4
<1> QED
    BY <1>2, <1>4, <1>6, <1>7, <1>8 DEF TrainingInv

LEMMA SendKeeps ==
    ASSUME TrainingInv, NEW w \in Runner, Send(w)
    PROVE  TrainingInv'
<1>1. /\ runners \in [Runner -> RunnerRec] /\ runners[w].at = "send"
      /\ machine \in [up : BOOLEAN, job : Job \cup {NoJob}, closing : BOOLEAN]
      /\ mishaps \in 0 .. MaxMishaps /\ MaxMishaps \in Nat
    BY TrainingAssumption DEF TrainingInv, LedgerIsHonest, TrainingTypeOK, RunnerRec, Send, Does
<1>2. UNCHANGED <<results, jobLedger, crashed, disturbed>>
    BY DEF Send
<1>3. runners[w].job \in Job
    BY <1>1 DEF TrainingInv, EndsKnown, Calling
<1>4. /\ runners' \in [Runner -> RunnerRec]
      /\ runners'[w].job = runners[w].job
      /\ runners'[w].at \in {"submit", "threw"}
      /\ \A v \in Runner \ {w} : runners'[v] = runners[v]
    BY <1>1, MovedIs DEF Send, Does, Calling
<1>5. /\ machine' \in [up : BOOLEAN, job : Job \cup {NoJob}, closing : BOOLEAN]
      /\ machine'.up \/ machine' = machine
      /\ \/ machine' = machine /\ cut' = cut
         \/ /\ machine'.job = runners[w].job
            /\ machine'.closing = (machine.closing \/ machine.job # NoJob)
            /\ cut' = cut \cup ({machine.job} \ {NoJob})
    <2>1. CASE UNCHANGED <<machine, cut>>
        BY <1>1, <2>1
    <2>2. CASE /\ machine' = [up |-> TRUE, job |-> runners[w].job,
                              closing |-> machine.closing \/ machine.job # NoJob]
               /\ cut' = cut \cup ({machine.job} \ {NoJob})
        <3>1. (machine.closing \/ machine.job # NoJob) \in BOOLEAN
            BY <1>1
        <3> QED
            BY <1>3, <2>2, <3>1
    <2> QED
        BY <2>1, <2>2 DEF Send
<1>6. /\ mishaps' \in 0 .. MaxMishaps
      /\ mishaps > 0 => mishaps' > 0
      /\ mishaps' = 0 => mishaps = 0
    BY <1>1 DEF Send, Mishap
<1>7. runners'[w].at = "submit" => mishaps' > 0 \/ machine'.job = runners[w].job
    BY <1>1, MovedIs DEF Send, Does, Calling, Mishap
<1>8. trained' \in [Job -> Nat]
    BY <1>3 DEF Send, TrainingInv, LedgerIsHonest, TrainingTypeOK
<1>9. /\ cut \subseteq cut' /\ cut' \subseteq Job
      /\ machine.job # NoJob => machine'.job = machine.job \/ machine.job \in cut'
    <2>1. cut \subseteq Job
        BY DEF TrainingInv, LedgerIsHonest, TrainingTypeOK
    <2>2. machine.job \in Job \cup {NoJob}
        BY <1>1
    <2> QED
        BY <1>5, <2>1, <2>2
<1>10. TrainingTypeOK'
    BY <1>2, <1>4, <1>5, <1>6, <1>8, <1>9
       DEF TrainingInv, LedgerIsHonest, TrainingTypeOK, RunnerRec
<1>11. ASSUME ~disturbed
       PROVE  cut' = cut /\ (machine'.closing = machine.closing)
    <2>1. machine.job = NoJob /\ ~machine.closing
        BY <1>1, <1>11 DEF TrainingInv, Alone
    <2>2. machine'.closing = machine.closing
        BY <1>1, <1>5, <2>1
    <2> QED
        BY <1>5, <2>1, <2>2
<1>12. LedgerIsHonest'
    BY <1>2, <1>6, <1>9, <1>10, <1>11 DEF TrainingInv, LedgerIsHonest
<1>13. EndsKnown'
    <2>1. ASSUME NEW j \in Job, Explained(j) \/ machine.job = j
          PROVE  Explained(j)' \/ machine'.job = j
        BY <1>2, <1>5, <1>6, <1>9, <2>1, TrainingAssumption DEF Explained
    <2>2. ASSUME NEW j \in Job, Explained(j)
          PROVE  Explained(j)'
        BY <1>2, <1>6, <1>9, <2>2 DEF Explained
    <2>3. ASSUME NEW v \in Runner
          PROVE  /\ runners'[v].at \in Calling \ {"choose"} => runners'[v].job \in Job
                 /\ runners'[v].at \in {"submit", "watch"} =>
                       Explained(runners[v].job)' \/ machine'.job = runners'[v].job
                 /\ runners'[v].at = "judge" => Explained(runners[v].job)'
                 /\ runners'[v].at = "record" =>
                       \/ runners'[v].found = "completed" /\ runners'[v].job \in results'
                       \/ /\ runners'[v].found = "failed"
                          /\ runners'[v].job \in crashed' \cup cut' \/ mishaps' > 0
        <3>1. CASE v = w
            BY <1>3, <1>4, <1>7, <3>1 DEF Explained
        <3>2. CASE v # w
            <4>1. runners'[v] = runners[v]
                BY <1>4, <3>2
            <4>2. runners[v].at \in {"submit", "watch", "judge"} => runners[v].job \in Job
                BY DEF TrainingInv, EndsKnown, Calling
            <4> QED
                BY <1>2, <1>6, <1>9, <2>1, <2>2, <4>1, <4>2 DEF TrainingInv, EndsKnown
        <3> QED
            BY <3>1, <3>2
    <2> QED
        BY <2>3 DEF EndsKnown
<1>14. ASSUME ~disturbed
       PROVE  Alone'
    <2>1. Alone
        BY <1>14 DEF TrainingInv
    <2>2. \A v \in Runner : Active(v)' => Active(v)
        BY <1>1, <1>4 DEF Active, Calling
    <2>3. \A v \in Runner \ {w} : ~Active(v)
        BY <1>1, <2>1 DEF Alone, Active, Calling
    <2>4. ~machine'.closing
        BY <1>1, <1>11, <1>14, <2>1 DEF Alone
    <2> QED
        BY <1>1, <1>2, <1>4, <1>11, <1>14, <2>1, <2>2, <2>3, <2>4 DEF Alone, Active, Calling
<1>15. machine'.up \/ machine' = Off
    BY <1>5 DEF TrainingInv
<1> QED
    BY <1>2, <1>12, <1>13, <1>14, <1>15 DEF TrainingInv

LEMMA SubmitKeeps ==
    ASSUME TrainingInv, NEW w \in Runner, Submit(w)
    PROVE  TrainingInv'
<1>1. /\ runners \in [Runner -> RunnerRec] /\ runners[w].at = "submit"
    BY DEF TrainingInv, LedgerIsHonest, TrainingTypeOK, RunnerRec, Submit, Does
<1>2. UNCHANGED <<machine, results, trained, crashed, cut, disturbed, mishaps>>
    BY DEF Submit
<1>3. runners[w].job \in Job
    BY <1>1 DEF TrainingInv, EndsKnown, Calling
<1>4. /\ runners' \in [Runner -> RunnerRec]
      /\ runners'[w].job = runners[w].job
      /\ runners'[w].at \in {"watch", "done"}
      /\ \A v \in Runner \ {w} : runners'[v] = runners[v]
    BY <1>1, MovedIs DEF Submit, Does, Calling
<1>5. /\ jobLedger' \in [entries : SUBSET (Job \X {"submitted", "completed", "failed"}),
                         torn : BOOLEAN]
      /\ jobLedger'.entries = jobLedger.entries \cup {<<runners[w].job, "submitted">>}
    BY <1>3 DEF Submit, Entered, TrainingInv, LedgerIsHonest, TrainingTypeOK
<1>6. TrainingTypeOK'
    BY <1>2, <1>4, <1>5 DEF TrainingInv, LedgerIsHonest, TrainingTypeOK, RunnerRec
<1>7. LedgerIsHonest'
    BY <1>2, <1>5, <1>6 DEF TrainingInv, LedgerIsHonest
<1>8. EndsKnown'
    BY <1>1, <1>2, <1>3, <1>4 DEF TrainingInv, EndsKnown, Explained, Calling
<1>9. ASSUME ~disturbed
      PROVE  Alone'
    <2>1. Alone
        BY <1>9 DEF TrainingInv
    <2>2. \A v \in Runner : Active(v)' => Active(v)
        BY <1>1, <1>4 DEF Active, Calling
    <2> QED
        BY <1>2, <1>4, <2>1, <2>2 DEF Alone
<1> QED
    BY <1>2, <1>7, <1>8, <1>9 DEF TrainingInv, Off

LEMMA WatchKeeps ==
    ASSUME TrainingInv, NEW w \in Runner, Watch(w)
    PROVE  TrainingInv'
<1>1. /\ runners \in [Runner -> RunnerRec] /\ runners[w].at = "watch" /\ ~machine.up
    BY DEF TrainingInv, LedgerIsHonest, TrainingTypeOK, RunnerRec, Watch, Does
<1>2. UNCHANGED <<machine, results, jobLedger, trained, crashed, cut, disturbed, mishaps>>
    BY DEF Watch
<1>3. machine = Off
    BY <1>1 DEF TrainingInv
<1>4. runners[w].job \in Job /\ Explained(runners[w].job)
    BY <1>1, <1>3, TrainingAssumption DEF TrainingInv, EndsKnown, Calling, Off
<1>5. /\ runners' \in [Runner -> RunnerRec]
      /\ runners'[w].job = runners[w].job
      /\ runners'[w].at = "judge"
      /\ \A v \in Runner \ {w} : runners'[v] = runners[v]
    BY <1>1, MovedIs DEF Watch, Does, Calling
<1>6. LedgerIsHonest'
    BY <1>2, <1>5 DEF TrainingInv, LedgerIsHonest, TrainingTypeOK, RunnerRec
<1>7. EndsKnown'
    BY <1>2, <1>4, <1>5 DEF TrainingInv, EndsKnown, Explained, Calling
<1>8. ASSUME ~disturbed
      PROVE  Alone'
    <2>1. Alone
        BY <1>8 DEF TrainingInv
    <2>2. \A v \in Runner : Active(v)' => Active(v)
        BY <1>1, <1>5 DEF Active, Calling
    <2> QED
        BY <1>2, <1>3, <1>5, <2>1, <2>2 DEF Alone
<1> QED
    BY <1>2, <1>6, <1>7, <1>8 DEF TrainingInv, Off

LEMMA JudgeJobKeeps ==
    ASSUME TrainingInv, NEW w \in Runner, JudgeJob(w)
    PROVE  TrainingInv'
<1>1. /\ runners \in [Runner -> RunnerRec] /\ runners[w].at = "judge"
      /\ mishaps \in 0 .. MaxMishaps /\ MaxMishaps \in Nat
    BY TrainingAssumption DEF TrainingInv, LedgerIsHonest, TrainingTypeOK, RunnerRec, JudgeJob
<1>2. UNCHANGED <<machine, results, jobLedger, trained, crashed, cut, disturbed>>
    BY DEF JudgeJob
<1>3. runners[w].job \in Job /\ Explained(runners[w].job)
    BY <1>1 DEF TrainingInv, EndsKnown, Calling
<1>4. /\ runners' \in [Runner -> RunnerRec]
      /\ runners'[w].job = runners[w].job
      /\ runners'[w].at = "record"
      /\ \/ runners'[w].found = Found(w) /\ mishaps' = mishaps
         \/ runners'[w].found = "failed" /\ mishaps' = mishaps + 1 /\ mishaps < MaxMishaps
      /\ \A v \in Runner \ {w} : runners'[v] = runners[v]
    <2>1. Found(w) \in {"completed", "failed"}
        BY DEF Found
    <2>2. PICK f \in {"completed", "failed"} :
              /\ runners' = [runners EXCEPT ![w].at = "record", ![w].found = f]
              /\ \/ f = Found(w) /\ mishaps' = mishaps
                 \/ f = "failed" /\ mishaps' = mishaps + 1 /\ mishaps < MaxMishaps
        BY <2>1 DEF JudgeJob, Mishap
    <2> QED
        BY <1>1, <2>2 DEF RunnerRec, Calling
<1>5. /\ mishaps' \in 0 .. MaxMishaps
      /\ mishaps > 0 => mishaps' > 0
      /\ mishaps' = 0 => mishaps = 0
    BY <1>1, <1>4
<1>6. \/ runners'[w].found = "completed" /\ runners[w].job \in results
      \/ runners'[w].found = "failed" /\ (runners[w].job \in crashed \cup cut \/ mishaps' > 0)
    BY <1>1, <1>3, <1>4 DEF Found, Explained
<1>7. LedgerIsHonest'
    BY <1>2, <1>4, <1>5 DEF TrainingInv, LedgerIsHonest, TrainingTypeOK, RunnerRec
<1>8. EndsKnown'
    BY <1>2, <1>3, <1>4, <1>5, <1>6 DEF TrainingInv, EndsKnown, Explained, Calling
<1>9. ASSUME ~disturbed
      PROVE  Alone'
    <2>1. Alone /\ machine = Off
        BY <1>1, <1>9 DEF TrainingInv, Alone
    <2>2. \A v \in Runner : Active(v)' => Active(v)
        BY <1>1, <1>4 DEF Active, Calling
    <2> QED
        BY <1>2, <1>4, <1>5, <2>1, <2>2 DEF Alone
<1> QED
    BY <1>2, <1>7, <1>8, <1>9 DEF TrainingInv, Off

LEMMA RecordKeeps ==
    ASSUME TrainingInv, NEW w \in Runner, Record(w)
    PROVE  TrainingInv'
<1>1. /\ runners \in [Runner -> RunnerRec] /\ runners[w].at = "record"
    BY DEF TrainingInv, LedgerIsHonest, TrainingTypeOK, RunnerRec, Record, Does
<1>2. UNCHANGED <<machine, results, trained, crashed, cut, disturbed, mishaps>>
    BY DEF Record
<1>3. /\ runners[w].job \in Job
      /\ \/ runners[w].found = "completed" /\ runners[w].job \in results
         \/ /\ runners[w].found = "failed"
            /\ runners[w].job \in crashed \cup cut \/ mishaps > 0
    BY <1>1 DEF TrainingInv, EndsKnown, Calling
<1>4. /\ runners' \in [Runner -> RunnerRec]
      /\ runners'[w].at = "choose"
      /\ \A v \in Runner \ {w} : runners'[v] = runners[v]
    BY <1>1, MovedIs DEF Record, Does, Calling
<1>5. /\ jobLedger' \in [entries : SUBSET (Job \X {"submitted", "completed", "failed"}),
                         torn : BOOLEAN]
      /\ jobLedger'.entries = jobLedger.entries \cup {<<runners[w].job, runners[w].found>>}
    BY <1>3 DEF Record, Entered, TrainingInv, LedgerIsHonest, TrainingTypeOK
<1>6. TrainingTypeOK'
    BY <1>2, <1>4, <1>5 DEF TrainingInv, LedgerIsHonest, TrainingTypeOK, RunnerRec
<1>7. LedgerIsHonest'
    BY <1>2, <1>3, <1>5, <1>6 DEF TrainingInv, LedgerIsHonest
<1>8. EndsKnown'
    BY <1>2, <1>4 DEF TrainingInv, EndsKnown, Explained, Calling
<1>9. ASSUME ~disturbed
      PROVE  Alone'
    <2>1. Alone /\ machine = Off
        BY <1>1, <1>9 DEF TrainingInv, Alone
    <2>2. \A v \in Runner : Active(v)' => Active(v)
        BY <1>1, <1>4 DEF Active, Calling
    <2> QED
        BY <1>2, <1>4, <2>1, <2>2 DEF Alone
<1> QED
    BY <1>2, <1>7, <1>8, <1>9 DEF TrainingInv, Off

LEMMA TrainerEndsKeeps ==
    ASSUME TrainingInv, NEW built \in BOOLEAN, TrainerEnds(built)
    PROVE  TrainingInv'
<1>1. /\ machine \in [up : BOOLEAN, job : Job \cup {NoJob}, closing : BOOLEAN]
      /\ machine.job # NoJob
    BY DEF TrainingInv, LedgerIsHonest, TrainingTypeOK, TrainerEnds
<1>2. UNCHANGED <<runners, jobLedger, trained, cut, disturbed, mishaps>>
    BY DEF TrainerEnds
<1>3. /\ machine' \in [up : BOOLEAN, job : Job \cup {NoJob}, closing : BOOLEAN]
      /\ machine'.up = machine.up /\ machine'.job = NoJob /\ machine'.closing
    BY <1>1 DEF TrainerEnds
<1>4. /\ results \subseteq results' /\ crashed \subseteq crashed'
      /\ results' \cup crashed' = results \cup crashed \cup {machine.job}
    BY DEF TrainerEnds
<1>5. machine.up
    BY <1>1 DEF TrainingInv, Off
<1>6. TrainingTypeOK'
    BY <1>1, <1>2, <1>3, <1>4 DEF TrainingInv, LedgerIsHonest, TrainingTypeOK
<1>7. LedgerIsHonest'
    BY <1>2, <1>4, <1>6 DEF TrainingInv, LedgerIsHonest
<1>8. EndsKnown'
    BY <1>2, <1>4 DEF TrainingInv, EndsKnown, Explained, Calling
<1>9. ASSUME ~disturbed
      PROVE  Alone'
    <2>1. Alone
        BY <1>9 DEF TrainingInv
    <2>2. \A v \in Runner : runners[v].at \notin {"choose", "look", "boot", "send", "judge", "record"}
        BY <1>1, <1>5, <2>1 DEF Alone, Off
    <2> QED
        BY <1>2, <1>3, <2>1, <2>2 DEF Alone, Active
<1> QED
    BY <1>2, <1>3, <1>5, <1>7, <1>8, <1>9 DEF TrainingInv

LEMMA PowerOffKeeps ==
    ASSUME TrainingInv, PowerOff
    PROVE  TrainingInv'
<1>1. /\ machine \in [up : BOOLEAN, job : Job \cup {NoJob}, closing : BOOLEAN]
      /\ machine.closing
    BY DEF TrainingInv, LedgerIsHonest, TrainingTypeOK, PowerOff
<1>2. UNCHANGED <<runners, jobLedger, results, trained, crashed, disturbed, mishaps>>
    BY DEF PowerOff
<1>3. /\ machine' \in [up : BOOLEAN, job : Job \cup {NoJob}, closing : BOOLEAN]
      /\ machine' = Off
    BY DEF PowerOff, Off
<1>4. /\ cut \subseteq cut'
      /\ cut' = cut \cup ({machine.job} \ {NoJob})
    BY DEF PowerOff
<1>5. TrainingTypeOK'
    BY <1>1, <1>2, <1>3, <1>4 DEF TrainingInv, LedgerIsHonest, TrainingTypeOK
<1>6. ~disturbed => cut' = cut
    BY <1>1, <1>4 DEF TrainingInv, Alone
<1>7. LedgerIsHonest'
    BY <1>2, <1>4, <1>5, <1>6 DEF TrainingInv, LedgerIsHonest
<1>8. EndsKnown'
    <2>1. ASSUME NEW j \in Job, Explained(j) \/ machine.job = j
          PROVE  Explained(j)'
        BY <1>2, <1>4, <2>1, TrainingAssumption DEF Explained
    <2> QED
        BY <1>2, <1>4, <2>1 DEF TrainingInv, EndsKnown, Explained, Calling
<1>9. ASSUME ~disturbed
      PROVE  Alone'
    BY <1>2, <1>3, <1>6, <1>9 DEF TrainingInv, Alone, Active, Off
<1> QED
    BY <1>2, <1>3, <1>7, <1>8, <1>9 DEF TrainingInv

LEMMA TrainingNextKeeps == TrainingInv /\ [TrainingNext]_trainingVars => TrainingInv'
<1> SUFFICES ASSUME TrainingInv, [TrainingNext]_trainingVars
             PROVE  TrainingInv'
    OBVIOUS
<1>1. CASE UNCHANGED trainingVars
    BY <1>1 DEF trainingVars, TrainingInv, LedgerIsHonest, TrainingTypeOK, EndsKnown, Explained,
                Alone, Active, Off
<1> QED
    BY <1>1, BeginRunKeeps, ChooseKeeps, LookKeeps, BootKeeps, SendKeeps, SubmitKeeps, WatchKeeps,
       JudgeJobKeeps, RecordKeeps, CallThrowsKeeps, RunnerDiesKeeps, TrainerEndsKeeps,
       PowerOffKeeps DEF TrainingNext, Proceed

\* The ledger of adapter training says what happened, with any jobs and runners.
THEOREM TrainingLedgerIsHonest == TrainingSpec => []LedgerIsHonest
<1>1. TrainingInv => LedgerIsHonest
    BY DEF TrainingInv
<1> QED
    BY <1>1, TrainingInitFits, TrainingNextKeeps, PTL DEF TrainingSpec

\* Only a command starts a container, and the one whose turn it is finds no result
\* when every runner began alone and every call did its work.
LEMMA OnlySendTrains ==
    ASSUME TrainingInv, [TrainingNext]_trainingVars, ~disturbed, mishaps = 0, NEW j \in results
    PROVE  trained'[j] = trained[j]
<1>1. CASE \E w \in Runner : Send(w)
    <2>1. PICK w \in Runner : Send(w)
        BY <1>1
    <2>2. runners[w].at = "send"
        BY <2>1 DEF Send, Does
    <2>3. runners[w].job # j
        BY <2>2 DEF TrainingInv, Alone
    <2>4. trained \in [Job -> Nat] /\ j \in Job
        BY DEF TrainingInv, LedgerIsHonest, TrainingTypeOK
    <2> QED
        BY <2>1, <2>3, <2>4 DEF Send
<1>2. CASE UNCHANGED trained
    BY <1>2
<1> QED
    BY <1>1, <1>2 DEF TrainingNext, Proceed, trainingVars, BeginRun, Choose, Look, Boot, Submit, Watch,
                      JudgeJob, Record, CallThrows, RunnerDies, TrainerEnds, PowerOff

\* Runs that follow each other do not train a job again that has its result in S3,
\* whichever of them died.
THEOREM TrainedOnceInTurn == TrainingSpec => NotTrainedTwiceInTurn
<1>1. TrainingInv /\ [TrainingNext]_trainingVars =>
          [\A j \in results : trained'[j] = trained[j] \/ disturbed \/ mishaps > 0]_trainingVars
    <2> SUFFICES ASSUME TrainingInv, [TrainingNext]_trainingVars, NEW j \in results
                 PROVE  trained'[j] = trained[j] \/ disturbed \/ mishaps > 0
        OBVIOUS
    <2>1. disturbed \in BOOLEAN /\ mishaps \in Nat
        BY TrainingAssumption DEF TrainingInv, LedgerIsHonest, TrainingTypeOK
    <2> QED
        BY <2>1, OnlySendTrains
<1> QED
    BY <1>1, TrainingInitFits, TrainingNextKeeps, PTL DEF TrainingSpec, NotTrainedTwiceInTurn

-----------------------------------------------------------------------------
(* The study of skill learning *)

World ==
    [family : {"reserve", "invoice", "compose"}, kept : [Order -> SUBSET Line],
     reserved : [Order -> SUBSET Line], confirmed : SUBSET Order,
     invoice : [Order -> {"none", "other", "empty", "right"}],
     taken : [Order -> [Line -> Nat]], pending : SUBSET (Kind \X Order),
     mode : {"none", "applied", "lost"}, target : Order, injected : BOOLEAN,
     sent : BOOLEAN, unsafe : BOOLEAN, unrelated : BOOLEAN]

Worker ==
    [at : {"asking", "acting", "skill", "done", "teaching", "pass", "lines", "create",
           "annotate", "taught"},
     skilled : BOOLEAN, turns : 0 .. MaxModelCalls, calls : 0 .. MaxToolCalls,
     ended : {"no", "model-finished", "model-output-budget", "model-call-budget",
              "execution-error", "deadline-or-abort"}, pass : 0 .. 2, todo : SUBSET Line]

\* What stock and orders say of each other.
Booked(w) ==
    /\ \A o \in Order, l \in Line :
          w.taken[o][l] = IF l \in w.reserved[o] \ w.kept[o] THEN 1 ELSE 0
    /\ \A o \in Order : w.kept[o] \subseteq w.reserved[o]
    /\ \A o \in Order : o \in w.confirmed => w.reserved[o] = Line

\* What was read is so, unless an effect is open.
Accurate(w, s) ==
    \A kind \in Kind, o \in Order :
       <<kind, o>> \notin w.pending /\ s[<<kind, o>>] # Unseen =>
          s[<<kind, o>>] = Actual(w, kind, o)

\* The teacher: at most one call of its world fails, and it reads what it changed.
Teaching == {"teaching", "pass", "lines", "create", "annotate", "taught"}

TeachesOne(w) ==
    /\ w.mode # "none" /\ w.target = 1
    /\ w.pending = {} /\ ~w.sent /\ ~w.unsafe /\ ~w.unrelated

TeachesLines(w, s, t) ==
    /\ t.at \in {"teaching", "pass", "lines", "taught"} /\ w.invoice[1] = "none"
    /\ t.at # "teaching" => s[<<"order", 1>>] = Actual(w, "order", 1)
    /\ t.at = "pass" => (t.pass >= 1 => 1 \in w.confirmed \/ w.injected)
                        /\ (t.pass = 2 => 1 \in w.confirmed)
    /\ t.at = "lines" =>
          /\ t.pass \in {0, 1} /\ 1 \notin w.confirmed /\ t.todo \cap w.reserved[1] = {}
          /\ t.pass = 1 => w.injected
          /\ Line \ w.reserved[1] \subseteq t.todo \/ (w.injected /\ t.pass = 0)

TeachesInvoice(w, s, t) ==
    /\ t.at \in {"teaching", "create", "annotate", "taught"}
    /\ w.kept[1] = Line /\ 1 \in w.confirmed
    /\ t.at # "teaching" => /\ s[<<"order", 1>>] = Actual(w, "order", 1)
                            /\ s[<<"invoice", 1>>] = Actual(w, "invoice", 1)
    /\ t.at = "create" => (t.pass >= 1 => w.invoice[1] # "none" \/ w.injected)
                          /\ (t.pass = 2 => w.invoice[1] # "none")
    /\ t.at = "annotate" => (t.pass >= 1 => w.invoice[1] = "right" \/ w.injected)
                            /\ (t.pass = 2 => w.invoice[1] = "right")

TeacherFits(w, s, t) ==
    t.at \in Teaching =>
       /\ TeachesOne(w)
       /\ t.at = "teaching" => t.pass = 0
       /\ \/ w.family = "reserve" /\ TeachesLines(w, s, t)
          \/ w.family = "invoice" /\ TeachesInvoice(w, s, t)
       /\ t.at = "taught" => Verified(w)

Learned(w, s, t) ==
    /\ w \in World /\ t \in Worker /\ s = [k \in Kind \X Order |-> s[k]]
    /\ Booked(w) /\ Accurate(w, s) /\ TeacherFits(w, s, t)

WorkerInv == Learned(world, seen, task)

-----------------------------------------------------------------------------
\* The stages.
Ended == {"completed", "failed", "dead", "failing"}
Stage ==
    [at : {"new", "refused", "prior", "manifest", "manifest written", "probe", "probe written",
           "acquiring", "cases", "library", "report", "report written", "completing",
           "completed written"} \cup Ended,
     parent : Seq(Item), library : Seq(Item), compile : 0 .. MaxCompiles,
     execute : Nat, cases : Nat]

Idle == {"new", "refused"}
\* A dispatch that made its directory.
Owns(r) == run[r].at \notin Idle
\* Places before a skill may have been added, and those at which a stage B has no
\* prior yet, or need not have it.
Before == Idle \cup {"prior", "manifest", "manifest written", "probe", "probe written", "acquiring"}
Unfollowed == Idle \cup {"prior", "failing", "failed", "dead"}

\* What a directory holds at each place of its stage.
Wrote(r, x, f) ==
    LET named == [stage |-> StageOf[r], replicate |-> ReplicateOf[r], library |-> x.library]
    IN  /\ x.at \in {"prior", "manifest"} => f = NoFiles
        /\ x.at = "manifest written" => f = [NoFiles EXCEPT !.manifest = Torn]
        /\ x.at = "probe" => f = [NoFiles EXCEPT !.manifest = "whole"]
        /\ x.at = "probe written" => f = [NoFiles EXCEPT !.manifest = "whole", !.probe = Torn]
        /\ x.at \notin {"prior", "manifest", "manifest written", "probe", "probe written",
                        "failing", "failed", "dead"} =>
              f.manifest = "whole" /\ f.probe = "whole" /\ f.failed = Nil
        /\ x.at \in {"report", "report written", "completing", "completed written", "completed"} =>
              f.library = x.library
        /\ x.at \in {"completing", "completed written", "completed"} => f.report = named
        /\ x.at = "completed" => f.completed = named
        /\ x.at # "completed" => f.completed \in {Nil, Torn}

\* A directory has files once one dispatch made it, and no other one writes it.
OutputOwned ==
    /\ \A r \in Run : Owns(r) => output[OutputOf[r]] \in Files
    /\ \A d \in DOMAIN output : output[d] # Nil => \E r \in Run : Owns(r) /\ OutputOf[r] = d
    /\ \A r, s \in Run : Owns(r) /\ Owns(s) /\ OutputOf[r] = OutputOf[s] => r = s

\* What a stage has learned, and that stage B has it from a completed stage A.
Follows(runs, r, library) ==
    \E a \in Run :
       /\ OutputOf[a] = PriorOf[r] /\ runs[a].at = "completed"
       /\ ReplicateOf[a] = ReplicateOf[r] /\ runs[a].library = library
Learns(runs, r, x) ==
    /\ x.library = x.parent \/ \E item \in Item : x.library = Append(x.parent, item)
    /\ x.at \in Before => x.library = x.parent
    /\ x.at = "prior" => StageOf[r] = "B"
    /\ StageOf[r] = "B" /\ x.at \notin Unfollowed => Follows(runs, r, x.parent)
Bounded(r, x) ==
    /\ x.cases \in 0 .. Cases(StageOf[r])
    /\ x.execute + MaxModelCalls * (Cases(StageOf[r]) - x.cases)
          <= maximumExecutionRequests(StageOf[r])

StagesInv ==
    /\ run \in [Run -> Stage] /\ DOMAIN output = {OutputOf[r] : r \in Run}
    /\ output = [d \in DOMAIN output |-> output[d]]
    /\ OutputOwned
    /\ \A r \in Run : /\ Owns(r) => Wrote(r, run[r], output[OutputOf[r]])
                      /\ Learns(run, r, run[r]) /\ Bounded(r, run[r])

-----------------------------------------------------------------------------
(* The worker and its world *)

LEMMA WorldInit == SkillAssumption /\ TaskStart => WorkerInv
<1> SUFFICES ASSUME SkillAssumption, TaskStart PROVE WorkerInv
    OBVIOUS
<1> DEFINE FitWorld(w) ==
        /\ w \in World /\ Booked(w) /\ w.pending = {} /\ ~w.sent /\ ~w.unsafe /\ ~w.unrelated
        /\ w.mode # "none" /\ w.family # "compose" => w.target = 1
        /\ w.mode # "none" /\ w.family = "reserve" => w.invoice[1] = "none"
        /\ w.mode # "none" /\ w.family = "invoice" => w.kept[1] = Line /\ 1 \in w.confirmed
<1>1. \A family \in {"reserve", "invoice", "compose"}, lines \in [Order -> SUBSET Line],
        confirmed \in SUBSET Order, invoice \in [Order -> {"none", "other", "empty", "right"}],
        mode \in {"none", "applied", "lost"}, target \in Order :
           LET w == Fixture(family, lines, confirmed, invoice, mode, target)
           IN  /\ (\A o \in confirmed : lines[o] = Line)
               /\ (mode # "none" /\ family # "compose" => target = 1)
               /\ (mode # "none" /\ family = "reserve" => invoice[1] = "none")
               /\ (mode # "none" /\ family = "invoice" => lines[1] = Line /\ 1 \in confirmed)
               => FitWorld(w)
    BY DEF Fixture, World, Booked, Order
<1>2. \A w \in Worlds : FitWorld(w)
  <2> HIDE DEF FitWorld
  <2> DEFINE none == [o \in Order |-> {}]
             blank == [o \in Order |-> "none"]
             full == [o \in Order |-> IF o = 1 THEN Line ELSE {}]
             one(o) == {[none EXCEPT ![o] = {l}] : l \in Line}
  <2>1. /\ none \in [Order -> SUBSET Line] /\ full \in [Order -> SUBSET Line]
        /\ \A o \in Order : \A lines \in one(o) :
              /\ lines \in [Order -> SUBSET Line]
              /\ [lines EXCEPT ![2] = Line] \in [Order -> SUBSET Line]
              /\ [lines EXCEPT ![2] = Line][2] = Line
        /\ full[1] = Line /\ blank[1] = "none"
        /\ blank \in [Order -> {"none", "other", "empty", "right"}]
        /\ [blank EXCEPT ![1] = "other"] \in [Order -> {"none", "other", "empty", "right"}]
        /\ [blank EXCEPT ![2] = "other"] \in [Order -> {"none", "other", "empty", "right"}]
      BY DEF Order
  <2> SUFFICES ASSUME NEW w \in Worlds PROVE FitWorld(w)
      OBVIOUS
  <2>2. \/ w = Fixture("reserve", none, {}, blank, "none", 1)
        \/ \E lines \in one(1) : w = Fixture("reserve", lines, {}, blank, "none", 1)
        \/ \E mode \in {"applied", "lost"} : w = Fixture("reserve", none, {}, blank, mode, 1)
        \/ w = Fixture("invoice", full, {1}, blank, "none", 1)
        \/ w = Fixture("invoice", full, {1}, [blank EXCEPT ![1] = "other"], "none", 1)
        \/ \E mode \in {"applied", "lost"} : w = Fixture("invoice", full, {1}, blank, mode, 1)
        \/ \E lines \in one(1) : w = Fixture("compose", [lines EXCEPT ![2] = Line], {2},
                                       [blank EXCEPT ![2] = "other"], "none", 1)
        \/ \E lines \in one(2), mode \in {"applied", "lost"}, target \in Order :
              w = Fixture("compose", lines, {}, blank, mode, target)
    <3> DEFINE ws1 == {Fixture("reserve", none, {}, blank, "none", 1)}
               ws2 == {Fixture("reserve", lines, {}, blank, "none", 1) : lines \in one(1)}
               ws3 == {Fixture("reserve", none, {}, blank, mode, 1) : mode \in {"applied", "lost"}}
               ws4 == {Fixture("invoice", full, {1}, blank, "none", 1),
                       Fixture("invoice", full, {1}, [blank EXCEPT ![1] = "other"], "none", 1)}
               ws5 == {Fixture("invoice", full, {1}, blank, mode, 1) : mode \in {"applied", "lost"}}
               ws6 == {Fixture("compose", [lines EXCEPT ![2] = Line], {2},
                               [blank EXCEPT ![2] = "other"], "none", 1) : lines \in one(1)}
               ws7 == {Fixture("compose", lines, {}, blank, mode, target) :
                          lines \in one(2), mode \in {"applied", "lost"}, target \in Order}
    <3>1. Worlds = ws1 \cup ws2 \cup ws3 \cup ws4 \cup ws5 \cup ws6 \cup ws7
        BY DEF Worlds
    <3> HIDE DEF none, blank, full, one
    <3>2. w \in ws1 \/ w \in ws2 \/ w \in ws3 \/ w \in ws4 \/ w \in ws5 \/ w \in ws6 \/ w \in ws7
      <4> HIDE DEF ws1, ws2, ws3, ws4, ws5, ws6, ws7
      <4> QED BY <3>1
    <3>3. w \in ws7 => \E lines \in one(2), mode \in {"applied", "lost"}, target \in Order :
              w = Fixture("compose", lines, {}, blank, mode, target)
        OBVIOUS
    <3>4. w \in ws6 => \E lines \in one(1) : w = Fixture("compose", [lines EXCEPT ![2] = Line], {2},
                                       [blank EXCEPT ![2] = "other"], "none", 1)
        OBVIOUS
    <3>5. w \in ws5 => \E mode \in {"applied", "lost"} : w = Fixture("invoice", full, {1}, blank, mode, 1)
        OBVIOUS
    <3>6. w \in ws4 => \/ w = Fixture("invoice", full, {1}, blank, "none", 1)
                       \/ w = Fixture("invoice", full, {1}, [blank EXCEPT ![1] = "other"], "none", 1)
        OBVIOUS
    <3>7. w \in ws3 => \E mode \in {"applied", "lost"} : w = Fixture("reserve", none, {}, blank, mode, 1)
        OBVIOUS
    <3>8. w \in ws2 => \E lines \in one(1) : w = Fixture("reserve", lines, {}, blank, "none", 1)
        OBVIOUS
    <3>9. w \in ws1 => w = Fixture("reserve", none, {}, blank, "none", 1)
        OBVIOUS
    <3> HIDE DEF ws1, ws2, ws3, ws4, ws5, ws6, ws7
    <3> QED BY <3>2, <3>3, <3>4, <3>5, <3>6, <3>7, <3>8, <3>9
  <2> HIDE DEF none, blank, full, one
  <2>3. CASE w = Fixture("reserve", none, {}, blank, "none", 1)
      BY <1>1, <2>1, <2>3 DEF Order
  <2>4. CASE \E lines \in one(1) : w = Fixture("reserve", lines, {}, blank, "none", 1)
      BY <1>1, <2>1, <2>4 DEF Order
  <2>5. CASE \E mode \in {"applied", "lost"} : w = Fixture("reserve", none, {}, blank, mode, 1)
      BY <1>1, <2>1, <2>5 DEF Order
  <2>6. CASE w = Fixture("invoice", full, {1}, blank, "none", 1)
      BY <1>1, <2>1, <2>6 DEF Order
  <2>7. CASE w = Fixture("invoice", full, {1}, [blank EXCEPT ![1] = "other"], "none", 1)
      BY <1>1, <2>1, <2>7 DEF Order
  <2>8. CASE \E mode \in {"applied", "lost"} : w = Fixture("invoice", full, {1}, blank, mode, 1)
      BY <1>1, <2>1, <2>8 DEF Order
  <2>9. CASE \E lines \in one(1) : w = Fixture("compose", [lines EXCEPT ![2] = Line], {2},
                                       [blank EXCEPT ![2] = "other"], "none", 1)
    <3> PICK lines \in one(1) : w = Fixture("compose", [lines EXCEPT ![2] = Line], {2},
                                            [blank EXCEPT ![2] = "other"], "none", 1)
        BY <2>9
    <3> DEFINE both == [lines EXCEPT ![2] = Line]
               noted == [blank EXCEPT ![2] = "other"]
    <3>1. both \in [Order -> SUBSET Line] /\ both[2] = Line
          /\ noted \in [Order -> {"none", "other", "empty", "right"}]
        BY <2>1 DEF Order
    <3> HIDE DEF both, noted
    <3>2. FitWorld(Fixture("compose", both, {2}, noted, "none", 1))
        BY <1>1, <3>1 DEF Order
    <3> QED BY <3>2 DEF both, noted
  <2>10. CASE \E lines \in one(2), mode \in {"applied", "lost"}, target \in Order :
              w = Fixture("compose", lines, {}, blank, mode, target)
      BY <1>1, <2>1, <2>10 DEF Order
  <2> QED BY <2>2, <2>3, <2>4, <2>5, <2>6, <2>7, <2>8, <2>9, <2>10
<1>3. FitWorld(world)
    BY <1>2 DEF TaskStart
<1>4. task \in Worker
  <2>1. \E at \in {"asking", "teaching"}, skilled \in BOOLEAN : task = Fresh(at, skilled)
      BY DEF TaskStart
  <2>2. 0 \in 0 .. MaxModelCalls /\ 0 \in 0 .. MaxToolCalls /\ 0 \in 0 .. 2
      BY DEF SkillAssumption
  <2> PICK at \in {"asking", "teaching"}, skilled \in BOOLEAN : task = Fresh(at, skilled)
      BY <2>1
  <2> QED BY <2>2 DEF Fresh, Worker
<1>5. seen = [k \in Kind \X Order |-> seen[k]] /\ Accurate(world, seen)
    BY DEF TaskStart, Accurate
<1>6. TeacherFits(world, seen, task)
  <2>1. CASE task.at = "teaching"
    <3>1. world.mode # "none" /\ world.family # "compose" /\ task.pass = 0
        BY <2>1 DEF TaskStart, Fresh
    <3>2. world.family \in {"reserve", "invoice"}
        BY <1>3, <3>1 DEF World
    <3> QED BY <1>3, <2>1, <3>1, <3>2 DEF TeacherFits, TeachesOne, TeachesLines, TeachesInvoice
  <2>2. CASE task.at # "teaching"
      BY <2>2 DEF TaskStart, Fresh, TeacherFits, Teaching
  <2> QED BY <2>1, <2>2
<1> QED BY <1>3, <1>4, <1>5, <1>6 DEF WorkerInv, Learned

\* What an effect does to stock and orders.
LEMMA ReservedFits ==
    ASSUME NEW w \in World, Booked(w), NEW o \in Order, NEW l \in Line, l \notin w.reserved[o]
    PROVE  Reserved(w, o, l) \in World /\ Booked(Reserved(w, o, l))
<1> DEFINE v == Reserved(w, o, l)
           lines == [w.reserved EXCEPT ![o] = @ \cup {l}]
           counts == [w.taken EXCEPT ![o][l] = @ + 1]
<1>1. w.taken[o][l] = 0
    BY DEF Booked
<1>2. /\ w.taken \in [Order -> [Line -> Nat]] /\ w.reserved \in [Order -> SUBSET Line]
      /\ w.kept \in [Order -> SUBSET Line]
    BY DEF World
<1>3. w.taken[o] \in [Line -> Nat] /\ [w.taken[o] EXCEPT ![l] = @ + 1] \in [Line -> Nat]
    BY <1>2
<1>4. counts = [w.taken EXCEPT ![o] = [w.taken[o] EXCEPT ![l] = @ + 1]]
    OBVIOUS
<1>5. lines \in [Order -> SUBSET Line] /\ counts \in [Order -> [Line -> Nat]]
    BY <1>2, <1>3, <1>4
<1>6. \A o2 \in Order : lines[o2] = IF o2 = o THEN w.reserved[o2] \cup {l} ELSE w.reserved[o2]
    BY <1>2
<1>7. \A o2 \in Order, l2 \in Line :
         counts[o2][l2] = IF o2 = o /\ l2 = l THEN w.taken[o2][l2] + 1 ELSE w.taken[o2][l2]
    BY <1>2, <1>3, <1>4
<1>8. v = [w EXCEPT !.reserved = lines, !.taken = counts]
    BY DEF Reserved, World
<1> HIDE DEF v, lines, counts
<1>9. v \in World
    BY <1>5, <1>8 DEF World
<1>10. /\ v.kept = w.kept /\ v.confirmed = w.confirmed
       /\ v.reserved = lines /\ v.taken = counts
    BY <1>8 DEF World
<1>11. ASSUME NEW o2 \in Order, NEW l2 \in Line
       PROVE  v.taken[o2][l2] = IF l2 \in v.reserved[o2] \ v.kept[o2] THEN 1 ELSE 0
  <2>1. w.taken[o2][l2] = IF l2 \in w.reserved[o2] \ w.kept[o2] THEN 1 ELSE 0
      BY DEF Booked
  <2>2. l \notin w.kept[o]
      BY DEF Booked
  <2>3. CASE o2 = o /\ l2 = l
    <3>1. l2 \in v.reserved[o2] \ v.kept[o2]
        BY <1>6, <1>10, <2>2, <2>3
    <3>2. v.taken[o2][l2] = 1
        BY <1>1, <1>7, <1>10, <2>3
    <3> QED BY <3>1, <3>2
  <2>4. CASE ~(o2 = o /\ l2 = l)
    <3>1. l2 \in v.reserved[o2] <=> l2 \in w.reserved[o2]
        BY <1>6, <1>10, <2>4
    <3>2. v.taken[o2][l2] = w.taken[o2][l2]
        BY <1>7, <1>10, <2>4
    <3> QED BY <1>10, <2>1, <3>1, <3>2
  <2> QED BY <2>3, <2>4
<1>12. \A o2 \in Order : v.kept[o2] \subseteq v.reserved[o2]
    BY <1>6, <1>10 DEF Booked
<1>13. \A o2 \in Order : o2 \in v.confirmed => v.reserved[o2] = Line
    BY <1>6, <1>10 DEF Booked
<1> QED BY <1>9, <1>11, <1>12, <1>13 DEF Booked, v

LEMMA ConfirmedFits ==
    ASSUME NEW w \in World, Booked(w), NEW o \in Order, w.reserved[o] = Line
    PROVE  Confirmed(w, o) \in World /\ Booked(Confirmed(w, o))
<1>1. w.confirmed \cup {o} \in SUBSET Order
    BY DEF World
<1>2. Confirmed(w, o) \in World
    BY <1>1 DEF Confirmed, World
<1>3. LET v == Confirmed(w, o)
      IN  /\ v.confirmed = w.confirmed \cup {o} /\ v.reserved = w.reserved
          /\ v.kept = w.kept /\ v.taken = w.taken
    BY DEF Confirmed, World
<1> QED BY <1>2, <1>3 DEF Booked

LEMMA InvoicedFits ==
    ASSUME NEW w \in World, Booked(w), NEW o \in Order,
           NEW reference \in {"other", "empty", "right"}
    PROVE  Invoiced(w, o, reference) \in World /\ Booked(Invoiced(w, o, reference))
BY DEF Invoiced, World, Booked

LEMMA MutatedFits ==
    ASSUME NEW w \in World, Booked(w), NEW v \in World, Booked(v),
           NEW kind \in Kind, NEW o \in Order
    PROVE  Mutated(w, kind, o, v) \in World /\ Booked(Mutated(w, kind, o, v))
<1> DEFINE timed(u) == [u EXCEPT !.injected = TRUE, !.pending = @ \cup {<<kind, o>>}]
<1>1. ASSUME NEW u \in World, Booked(u)
      PROVE  timed(u) \in World /\ Booked(timed(u))
  <2>1. u.pending \cup {<<kind, o>>} \in SUBSET (Kind \X Order)
      BY DEF World
  <2>2. timed(u) \in World
      BY <2>1 DEF World
  <2>3. /\ timed(u).taken = u.taken /\ timed(u).reserved = u.reserved
        /\ timed(u).kept = u.kept /\ timed(u).confirmed = u.confirmed
      BY DEF World
  <2> HIDE DEF timed
  <2> QED BY <1>1, <2>2, <2>3 DEF Booked
<1>2. Mutated(w, kind, o, v) \in {v, timed(v), timed(w)}
    BY DEF Mutated
<1> HIDE DEF timed
<1> QED BY <1>1, <1>2

LEMMA InspectedFits ==
    ASSUME NEW w \in World, Booked(w), NEW kind \in Kind, NEW o \in Order
    PROVE  Inspected(w, kind, o) \in World /\ Booked(Inspected(w, kind, o))
BY DEF Inspected, World, Booked

\* A step of the loop leaves the world and what was read of it alone.
LEMMA LoopSteps ==
    ASSUME SkillAssumption, WorkerInv,
           Ask \/ EndTurn \/ OverBudget \/ InvokeSkill \/ SkillReturns \/ Deadline
    PROVE  WorkerInv'
<1>1. task \in Worker /\ MaxModelCalls \in Nat
    BY DEF WorkerInv, Learned, SkillAssumption
<1>2. world' = world /\ seen' = seen
    BY DEF Ask, EndTurn, OverBudget, InvokeSkill, SkillReturns, Deadline
<1>3. task' \in Worker /\ task'.at \notin Teaching
  <2>1. CASE Ask
    <3> PICK next \in {"acting", "model-finished", "model-output-budget"} :
            task' = [task EXCEPT !.turns = @ + 1,
                         !.at = IF next = "acting" THEN "acting" ELSE "done",
                         !.ended = IF next = "acting" THEN "no" ELSE next]
        BY <2>1 DEF Ask
    <3>1. task.turns + 1 \in 0 .. MaxModelCalls
        BY <1>1, <2>1 DEF Ask, Worker
    <3> QED BY <1>1, <3>1 DEF Worker, Teaching
  <2>2. CASE EndTurn
      BY <1>1, <2>2 DEF EndTurn, Worker, Teaching
  <2>3. CASE OverBudget
      BY <1>1, <2>3 DEF OverBudget, Ends, Worker, Teaching
  <2>4. CASE InvokeSkill
      BY <1>1, <2>4 DEF InvokeSkill, Worker, Teaching
  <2>5. CASE SkillReturns
      BY <1>1, <2>5 DEF SkillReturns, Worker, Teaching
  <2>6. CASE Deadline
      BY <1>1, <2>6 DEF Deadline, Ends, Worker, Teaching
  <2> QED BY <2>1, <2>2, <2>3, <2>4, <2>5, <2>6
<1> QED BY <1>2, <1>3 DEF WorkerInv, Learned, TeacherFits

LEMMA CallCounts ==
    ASSUME SkillAssumption, task \in Worker, Calls
    PROVE  task' \in Worker /\ task'.at \notin Teaching
<1>1. task.calls + 1 \in 0 .. MaxToolCalls
    BY DEF SkillAssumption, Calls, Worker
<1> QED BY <1>1 DEF Calls, Worker, Teaching

\* What a record shows depends on its lines, its confirmation and its invoice.
LEMMA SameShown ==
    ASSUME NEW w, NEW v, v.reserved = w.reserved, v.confirmed = w.confirmed,
           v.invoice = w.invoice
    PROVE  \A kind, o : Actual(v, kind, o) = Actual(w, kind, o)
BY DEF Actual

\* A mutation that goes through or times out, with or without its effect.
LEMMA MutatedShows ==
    ASSUME NEW w \in World, NEW v \in World, NEW kind, NEW o,
           v.pending = w.pending
    PROVE  LET u == Mutated(w, kind, o, v)
           IN  /\ ~Faulty(w, o) => u = v
               /\ Faulty(w, o) =>
                     /\ u.pending = w.pending \cup {<<kind, o>>} /\ u.injected
                     /\ \/ \A k2, o2 : Actual(u, k2, o2) = Actual(v, k2, o2)
                        \/ \A k2, o2 : Actual(u, k2, o2) = Actual(w, k2, o2)
<1> DEFINE timed(u) == [u EXCEPT !.injected = TRUE, !.pending = @ \cup {<<kind, o>>}]
<1>1. ASSUME NEW u \in World
      PROVE  /\ timed(u).pending = u.pending \cup {<<kind, o>>} /\ timed(u).injected
             /\ timed(u).reserved = u.reserved /\ timed(u).confirmed = u.confirmed
             /\ timed(u).invoice = u.invoice
    BY DEF World
<1>2. /\ ~Faulty(w, o) => Mutated(w, kind, o, v) = v
      /\ Faulty(w, o) => Mutated(w, kind, o, v) = timed(v) \/ Mutated(w, kind, o, v) = timed(w)
    BY DEF Mutated
<1> HIDE DEF timed
<1>3. \A k2, o2 : Actual(timed(v), k2, o2) = Actual(v, k2, o2)
    BY <1>1, SameShown
<1>4. \A k2, o2 : Actual(timed(w), k2, o2) = Actual(w, k2, o2)
    BY <1>1, SameShown
<1> QED BY <1>1, <1>2, <1>3, <1>4

LEMMA EffectKeeps ==
    ASSUME SkillAssumption, WorkerInv, NEW kind \in Kind, NEW o \in Order,
           NEW v \in World, Booked(v), v.pending = world.pending,
           \A k2 \in Kind, o2 \in Order :
              <<k2, o2>> # <<kind, o>> => Actual(v, k2, o2) = Actual(world, k2, o2),
           Effect(kind, o, v)
    PROVE  WorkerInv'
<1>1. world \in World /\ Booked(world) /\ Accurate(world, seen) /\ task \in Worker
      /\ seen = [k \in Kind \X Order |-> seen[k]]
    BY DEF WorkerInv, Learned
<1>2. task' \in Worker /\ task'.at \notin Teaching
    BY <1>1, CallCounts DEF Effect
<1>3. world' = Mutated(world, kind, o, v) /\ <<kind, o>> \notin world.pending
    BY DEF Effect, Blocked
<1>4. world' \in World /\ Booked(world')
    BY <1>1, <1>3, MutatedFits
<1>5. /\ ~Faulty(world, o) => world' = v /\ seen' = [seen EXCEPT ![<<kind, o>>] = Actual(v, kind, o)]
      /\ Faulty(world, o) =>
            /\ seen' = seen
            /\ world'.pending = world.pending \cup {<<kind, o>>}
            /\ \/ \A k2, o2 : Actual(world', k2, o2) = Actual(v, k2, o2)
               \/ \A k2, o2 : Actual(world', k2, o2) = Actual(world, k2, o2)
    BY <1>1, <1>3, MutatedShows DEF Effect
<1>6. seen' = [k \in Kind \X Order |-> seen'[k]]
    BY <1>1, <1>5
<1>7. Accurate(world', seen')
  <2> SUFFICES ASSUME NEW k2 \in Kind, NEW o2 \in Order,
                      <<k2, o2>> \notin world'.pending, seen'[<<k2, o2>>] # Unseen
               PROVE  seen'[<<k2, o2>>] = Actual(world', k2, o2)
      BY DEF Accurate
  <2>1. <<k2, o2>> \in DOMAIN seen
      BY <1>1
  <2>2. <<k2, o2>> \notin world.pending
      BY <1>5
  <2>3. CASE <<k2, o2>> = <<kind, o>>
      BY <1>5, <2>1, <2>3
  <2>4. CASE <<k2, o2>> # <<kind, o>>
    <3>1. seen'[<<k2, o2>>] = seen[<<k2, o2>>]
        BY <1>5, <2>1, <2>4
    <3>2. Actual(world', k2, o2) = Actual(world, k2, o2)
        BY <1>5, <2>4
    <3> QED BY <1>1, <2>2, <3>1, <3>2 DEF Accurate
  <2> QED BY <2>3, <2>4
<1> QED BY <1>2, <1>4, <1>6, <1>7 DEF WorkerInv, Learned, TeacherFits

LEMMA ToolEffects ==
    ASSUME SkillAssumption, WorkerInv,
           \/ \E o \in Order, l \in Line : ReserveLine(o, l)
           \/ \E o \in Order : ConfirmOrder(o) \/ CreateInvoice(o)
           \/ \E o \in Order, reference \in {"other", "right"} : AnnotateInvoice(o, reference)
    PROVE  WorkerInv'
<1>1. world \in World /\ Booked(world)
    BY DEF WorkerInv, Learned
<1>2. ASSUME NEW o \in Order, NEW l \in Line, ReserveLine(o, l) PROVE WorkerInv'
  <2> DEFINE v == Reserved(world, o, l)
  <2>1. v \in World /\ Booked(v)
      BY <1>1, <1>2, ReservedFits DEF ReserveLine, CanReserve
  <2>2. v.pending = world.pending /\ v.confirmed = world.confirmed /\ v.invoice = world.invoice
        /\ v.reserved = [world.reserved EXCEPT ![o] = @ \cup {l}]
      BY <1>1 DEF Reserved, World
  <2>3. Effect("order", o, v)
      BY <1>2 DEF ReserveLine
  <2> HIDE DEF v
  <2>4. \A k2 \in Kind, o2 \in Order :
           <<k2, o2>> # <<"order", o>> => Actual(v, k2, o2) = Actual(world, k2, o2)
      BY <2>2 DEF Actual, Kind
  <2> QED BY <2>1, <2>2, <2>3, <2>4, EffectKeeps DEF Kind
<1>3. ASSUME NEW o \in Order, ConfirmOrder(o) PROVE WorkerInv'
  <2> DEFINE v == Confirmed(world, o)
  <2>1. v \in World /\ Booked(v)
      BY <1>1, <1>3, ConfirmedFits DEF ConfirmOrder, CanConfirm
  <2>2. v.pending = world.pending /\ v.reserved = world.reserved /\ v.invoice = world.invoice
        /\ v.confirmed = world.confirmed \cup {o}
      BY <1>1 DEF Confirmed, World
  <2>3. Effect("order", o, v)
      BY <1>3 DEF ConfirmOrder
  <2> HIDE DEF v
  <2>4. \A k2 \in Kind, o2 \in Order :
           <<k2, o2>> # <<"order", o>> => Actual(v, k2, o2) = Actual(world, k2, o2)
      BY <2>2 DEF Actual, Kind
  <2> QED BY <2>1, <2>2, <2>3, <2>4, EffectKeeps DEF Kind
<1>4. ASSUME NEW o \in Order, NEW reference \in {"other", "empty", "right"},
             Effect("invoice", o, Invoiced(world, o, reference))
      PROVE  WorkerInv'
  <2> DEFINE v == Invoiced(world, o, reference)
  <2>1. v \in World /\ Booked(v)
      BY <1>1, InvoicedFits
  <2>2. v.pending = world.pending /\ v.reserved = world.reserved /\ v.confirmed = world.confirmed
        /\ v.invoice = [world.invoice EXCEPT ![o] = reference]
      BY <1>1 DEF Invoiced, World
  <2>3. Effect("invoice", o, v)
      BY <1>4
  <2> HIDE DEF v
  <2>4. \A k2 \in Kind, o2 \in Order :
           <<k2, o2>> # <<"invoice", o>> => Actual(v, k2, o2) = Actual(world, k2, o2)
      BY <2>2 DEF Actual, Kind
  <2> QED BY <2>1, <2>2, <2>3, <2>4, EffectKeeps DEF Kind
<1>5. ASSUME NEW o \in Order, CreateInvoice(o) PROVE WorkerInv'
    BY <1>4, <1>5 DEF CreateInvoice
<1>6. ASSUME NEW o \in Order, NEW reference \in {"other", "right"}, AnnotateInvoice(o, reference)
      PROVE  WorkerInv'
    BY <1>4, <1>6 DEF AnnotateInvoice
<1> QED BY <1>2, <1>3, <1>5, <1>6

LEMMA OtherCalls ==
    ASSUME SkillAssumption, WorkerInv,
           \/ \E kind \in Kind, o \in Order : InspectRecord(kind, o)
           \/ (\E o \in Order : UnsafeRetry(o)) \/ Forbidden \/ RefusedCall
    PROVE  WorkerInv'
<1>1. world \in World /\ Booked(world) /\ Accurate(world, seen) /\ task \in Worker
      /\ seen = [k \in Kind \X Order |-> seen[k]]
    BY DEF WorkerInv, Learned
<1>2. task' \in Worker /\ task'.at \notin Teaching
    BY <1>1, CallCounts DEF InspectRecord, UnsafeRetry, Forbidden, RefusedCall
<1>3. ASSUME NEW kind \in Kind, NEW o \in Order, InspectRecord(kind, o)
      PROVE  WorkerInv'
  <2>1. world' = Inspected(world, kind, o) /\ seen' = [seen EXCEPT ![<<kind, o>>] = Actual(world, kind, o)]
      BY <1>3 DEF InspectRecord
  <2>2. world' \in World /\ Booked(world')
      BY <1>1, <2>1, InspectedFits
  <2>3. world'.pending = world.pending \ {<<kind, o>>}
        /\ \A k2, o2 : Actual(world', k2, o2) = Actual(world, k2, o2)
    <3>1. world'.pending = world.pending \ {<<kind, o>>} /\ world'.reserved = world.reserved
          /\ world'.confirmed = world.confirmed /\ world'.invoice = world.invoice
        BY <1>1, <2>1 DEF Inspected, World
    <3> QED BY <3>1, SameShown
  <2>4. Accurate(world', seen')
    <3> SUFFICES ASSUME NEW k2 \in Kind, NEW o2 \in Order,
                        <<k2, o2>> \notin world'.pending, seen'[<<k2, o2>>] # Unseen
                 PROVE  seen'[<<k2, o2>>] = Actual(world', k2, o2)
        BY DEF Accurate
    <3>1. CASE <<k2, o2>> = <<kind, o>>
        BY <1>1, <2>1, <2>3, <3>1
    <3>2. CASE <<k2, o2>> # <<kind, o>>
      <4>1. seen'[<<k2, o2>>] = seen[<<k2, o2>>] /\ <<k2, o2>> \notin world.pending
          BY <1>1, <2>1, <2>3, <3>2
      <4> QED BY <1>1, <2>3, <4>1 DEF Accurate
    <3> QED BY <3>1, <3>2
  <2>5. seen' = [k \in Kind \X Order |-> seen'[k]]
      BY <1>1, <2>1
  <2> QED BY <1>2, <2>2, <2>4, <2>5 DEF WorkerInv, Learned, TeacherFits
<1>4. ASSUME world' \in World, world'.reserved = world.reserved, world'.kept = world.kept,
             world'.confirmed = world.confirmed, world'.taken = world.taken,
             world'.pending = world.pending, world'.invoice = world.invoice, seen' = seen
      PROVE  WorkerInv'
  <2>1. Booked(world')
      BY <1>1, <1>4 DEF Booked
  <2>2. Accurate(world', seen')
      BY <1>1, <1>4 DEF Accurate, Actual
  <2> QED BY <1>1, <1>2, <1>4, <2>1, <2>2 DEF WorkerInv, Learned, TeacherFits
<1>5. CASE \E o \in Order : UnsafeRetry(o)
  <2>1. world' = [world EXCEPT !.unsafe = TRUE] /\ seen' = seen
      BY <1>5 DEF UnsafeRetry
  <2> QED BY <1>1, <1>4, <2>1 DEF World
<1>6. CASE Forbidden
  <2>1. seen' = seen
      BY <1>6 DEF Forbidden
  <2>2. world' = [world EXCEPT !.sent = TRUE] \/ world' = [world EXCEPT !.unrelated = TRUE]
      BY <1>6 DEF Forbidden
  <2>3. CASE world' = [world EXCEPT !.sent = TRUE]
      BY <1>1, <1>4, <2>1, <2>3 DEF World
  <2>4. CASE world' = [world EXCEPT !.unrelated = TRUE]
      BY <1>1, <1>4, <2>1, <2>4 DEF World
  <2> QED BY <2>2, <2>3, <2>4
<1>7. CASE RefusedCall
  <2>1. world' = world /\ seen' = seen
      BY <1>7 DEF RefusedCall
  <2> QED BY <1>1, <1>4, <2>1
<1> QED BY <1>3, <1>5, <1>6, <1>7

-----------------------------------------------------------------------------
(* The teacher *)

\* What no call of the teacher changes.
Alike(v, w) ==
    /\ v.family = w.family /\ v.kept = w.kept /\ v.mode = w.mode /\ v.target = w.target
    /\ v.pending = w.pending /\ v.sent = w.sent /\ v.unsafe = w.unsafe
    /\ v.unrelated = w.unrelated
Shows(v, w) == v.reserved = w.reserved /\ v.confirmed = w.confirmed /\ v.invoice = w.invoice

LEMMA TaughtOutcome ==
    ASSUME NEW w \in World, NEW v \in World, NEW kind \in Kind,
           TeachesOne(w), Alike(v, w), v.injected = w.injected, Booked(w), Booked(v)
    PROVE  LET u == Inspected(Mutated(w, kind, 1, v), kind, 1)
           IN  /\ u \in World /\ Booked(u) /\ Alike(u, w)
               /\ w.injected => u.injected /\ Shows(u, v)
               /\ Shows(u, v) \/ (Shows(u, w) /\ u.injected)
<1> DEFINE timed(x) == [x EXCEPT !.injected = TRUE, !.pending = @ \cup {<<kind, 1>>}]
           m == Mutated(w, kind, 1, v)
<1>1. m \in World /\ Booked(m)
    BY MutatedFits DEF Order
<1>2. Inspected(m, kind, 1) \in World /\ Booked(Inspected(m, kind, 1))
    BY <1>1, InspectedFits DEF Order
<1>3. ASSUME NEW x \in World, Alike(x, w)
      PROVE  /\ Shows(timed(x), x) /\ timed(x).injected
             /\ timed(x).pending \subseteq {<<kind, 1>>}
             /\ Alike([timed(x) EXCEPT !.pending = w.pending], w)
    BY <1>3 DEF World, Shows, Alike, TeachesOne
<1>4. /\ ~Faulty(w, 1) => m = v
      /\ Faulty(w, 1) => ~w.injected /\ (m = timed(v) \/ m = timed(w))
    BY DEF Mutated, Faulty
<1>5. /\ Shows(Inspected(m, kind, 1), m)
      /\ Inspected(m, kind, 1).injected = m.injected
      /\ Inspected(m, kind, 1).pending = m.pending \ {<<kind, 1>>}
      /\ Inspected(m, kind, 1) = [m EXCEPT !.pending = m.pending \ {<<kind, 1>>}]
    BY <1>1 DEF Inspected, World, Shows
<1> HIDE DEF timed
<1>6. Alike(w, w)
    BY DEF Alike
<1>7. ~Faulty(w, 1) => w.injected
    BY DEF Faulty, TeachesOne
<1>8. CASE ~Faulty(w, 1)
  <2>1. m = v /\ m.pending \ {<<kind, 1>>} = w.pending
      BY <1>4, <1>8 DEF Alike, TeachesOne
  <2>2. Alike(Inspected(m, kind, 1), w)
    <3>1. Inspected(m, kind, 1) = [m EXCEPT !.pending = w.pending]
        BY <1>5, <2>1
    <3>2. Alike([v EXCEPT !.pending = w.pending], w)
        BY DEF Alike, World
    <3> QED BY <2>1, <3>1, <3>2
  <2>3. Shows(Inspected(m, kind, 1), v) /\ Inspected(m, kind, 1).injected
      BY <1>5, <1>7, <1>8, <2>1
  <2> QED BY <1>2, <2>2, <2>3
<1>9. CASE Faulty(w, 1)
  <2>1. PICK x \in {v, w} : m = timed(x)
      BY <1>4, <1>9
  <2>2. Alike(x, w) /\ x \in World
      BY <1>6
  <2>3. /\ Shows(m, x) /\ m.injected /\ m.pending \subseteq {<<kind, 1>>}
        /\ Alike([m EXCEPT !.pending = w.pending], w)
      BY <1>3, <2>1, <2>2
  <2>4. m.pending \ {<<kind, 1>>} = w.pending
      BY <2>3 DEF TeachesOne
  <2>5. Alike(Inspected(m, kind, 1), w)
      BY <1>5, <2>3, <2>4
  <2>6. Shows(Inspected(m, kind, 1), x)
      BY <1>5, <2>3 DEF Shows
  <2> QED BY <1>2, <1>4, <1>5, <1>9, <2>3, <2>5, <2>6
<1> QED BY <1>8, <1>9

\* A call of the teacher, which then reads the record that it changed.
LEMMA TeachesKeeps ==
    ASSUME WorkerInv, task.at \in Teaching, NEW kind \in Kind, NEW v \in World,
           Booked(v), Alike(v, world), v.injected = world.injected,
           \A k2 \in Kind, o2 \in Order :
              <<k2, o2>> # <<kind, 1>> => Actual(v, k2, o2) = Actual(world, k2, o2),
           Teaches(kind, v)
    PROVE  /\ world' \in World /\ Booked(world') /\ Accurate(world', seen')
           /\ TeachesOne(world') /\ Alike(world', world)
           /\ world.injected => world'.injected /\ Shows(world', v)
           /\ Shows(world', v) \/ (Shows(world', world) /\ world'.injected)
           /\ seen' = [k \in Kind \X Order |-> seen'[k]]
           /\ \A k2 \in Kind, o2 \in Order :
                 seen[<<k2, o2>>] = Actual(world, k2, o2) => seen'[<<k2, o2>>] = Actual(world', k2, o2)
           /\ seen'[<<kind, 1>>] = Actual(world', kind, 1)
<1>1. world \in World /\ Booked(world) /\ Accurate(world, seen)
      /\ seen = [k \in Kind \X Order |-> seen[k]] /\ TeachesOne(world)
    BY DEF WorkerInv, Learned, TeacherFits
<1>2. world' = Inspected(Mutated(world, kind, 1, v), kind, 1)
      /\ seen' = [seen EXCEPT ![<<kind, 1>>] = Actual(world', kind, 1)]
    BY DEF Teaches
<1>3. /\ world' \in World /\ Booked(world') /\ Alike(world', world)
      /\ world.injected => world'.injected /\ Shows(world', v)
      /\ Shows(world', v) \/ (Shows(world', world) /\ world'.injected)
    BY <1>1, <1>2, TaughtOutcome
<1>4. TeachesOne(world')
    BY <1>1, <1>3 DEF TeachesOne, Alike
<1>5. <<kind, 1>> \in Kind \X Order
    BY DEF Order
<1>6. seen'[<<kind, 1>>] = Actual(world', kind, 1)
      /\ seen' = [k \in Kind \X Order |-> seen'[k]]
    BY <1>1, <1>2, <1>5
<1>7. \A k2 \in Kind, o2 \in Order :
         <<k2, o2>> # <<kind, 1>> => /\ seen'[<<k2, o2>>] = seen[<<k2, o2>>]
                                     /\ Actual(world', k2, o2) = Actual(world, k2, o2)
  <2>1. (\A k2, o2 : Actual(world', k2, o2) = Actual(v, k2, o2))
        \/ (\A k2, o2 : Actual(world', k2, o2) = Actual(world, k2, o2))
      BY <1>3, SameShown DEF Shows
  <2>2. ASSUME NEW k2 \in Kind, NEW o2 \in Order, <<k2, o2>> # <<kind, 1>>
        PROVE  seen'[<<k2, o2>>] = seen[<<k2, o2>>]
      BY <1>1, <1>2, <2>2
  <2> QED BY <2>1, <2>2
<1>8. \A k2 \in Kind, o2 \in Order :
         seen[<<k2, o2>>] = Actual(world, k2, o2) => seen'[<<k2, o2>>] = Actual(world', k2, o2)
    BY <1>6, <1>7
<1>9. Accurate(world', seen')
  <2>1. world.pending = {}
      BY <1>1 DEF TeachesOne
  <2> SUFFICES ASSUME NEW k2 \in Kind, NEW o2 \in Order, seen'[<<k2, o2>>] # Unseen
               PROVE  seen'[<<k2, o2>>] = Actual(world', k2, o2)
      BY DEF Accurate
  <2>2. CASE <<k2, o2>> = <<kind, 1>>
      BY <1>6, <2>2
  <2>3. CASE <<k2, o2>> # <<kind, 1>>
    <3>1. seen[<<k2, o2>>] # Unseen
        BY <1>7, <2>3
    <3>2. seen[<<k2, o2>>] = Actual(world, k2, o2)
        BY <1>1, <2>1, <3>1 DEF Accurate
    <3> QED BY <1>8, <3>2
  <2> QED BY <2>2, <2>3
<1> QED BY <1>3, <1>4, <1>6, <1>8, <1>9

\* The teacher goes on with what it read; the world stays as it was.
LEMMA TeacherMoves ==
    ASSUME WorkerInv, task.at \in Teaching, task' \in Worker, world' = world, seen' = seen,
           \/ world.family = "reserve" /\ TeachesLines(world, seen, task')
           \/ world.family = "invoice" /\ TeachesInvoice(world, seen, task'),
           task'.at # "teaching", task'.at = "taught" => Verified(world)
    PROVE  WorkerInv'
BY DEF WorkerInv, Learned, TeacherFits

\* The orders of the teacher's world when it is through.
LEMMA LinesVerified ==
    ASSUME NEW w \in World, Booked(w), TeachesOne(w), w.family = "reserve",
           w.invoice[1] = "none", 1 \in w.confirmed
    PROVE  Verified(w)
<1>1. Targets(w.family) = {1}
    BY DEF Targets
<1>2. w.reserved[1] = Line
    BY DEF Booked, Order
<1>3. \A l \in Line : w.taken[1][l] = IF l \notin w.kept[1] THEN 1 ELSE 0
    BY <1>2 DEF Booked, Order
<1> QED BY <1>1, <1>2, <1>3 DEF Verified, TeachesOne

LEMMA InvoiceVerified ==
    ASSUME NEW w \in World, Booked(w), TeachesOne(w), w.family = "invoice",
           w.kept[1] = Line, w.invoice[1] = "right", 1 \in w.confirmed
    PROVE  Verified(w)
<1>1. Targets(w.family) = {1}
    BY DEF Targets
<1>2. w.reserved[1] = Line
    BY DEF Booked, Order
<1>3. \A l \in Line : w.taken[1][l] = 0
    BY <1>2 DEF Booked, Order
<1> QED BY <1>1, <1>2, <1>3 DEF Verified, TeachesOne

LEMMA TeacherStarts ==
    ASSUME WorkerInv, TeachBegin
    PROVE  WorkerInv'
<1>1. /\ world \in World /\ Booked(world) /\ Accurate(world, seen) /\ task \in Worker
      /\ seen = [k \in Kind \X Order |-> seen[k]] /\ TeachesOne(world)
      /\ \/ world.family = "reserve" /\ TeachesLines(world, seen, task)
         \/ world.family = "invoice" /\ TeachesInvoice(world, seen, task)
      /\ task.at = "teaching" /\ task.pass = 0
    BY DEF WorkerInv, Learned, TeacherFits, TeachBegin, Teaching
<1> DEFINE read == IF world.family = "reserve" THEN {<<"order", 1>>}
                   ELSE {<<"order", 1>>, <<"invoice", 1>>}
<1>2. /\ world' = [world EXCEPT !.pending = @ \ read]
      /\ seen' = [key \in DOMAIN seen |->
                    IF key \in read THEN Actual(world, key[1], key[2]) ELSE seen[key]]
      /\ task' = [task EXCEPT !.at = IF world.family = "reserve" THEN "pass" ELSE "create"]
    BY DEF TeachBegin
<1>3. world' = world
    BY <1>1, <1>2 DEF TeachesOne, World
<1>4. seen' = [k \in Kind \X Order |-> seen'[k]]
    BY <1>1, <1>2
<1>5. \A k2 \in Kind, o2 \in Order :
         seen'[<<k2, o2>>] = IF <<k2, o2>> \in read THEN Actual(world, k2, o2) ELSE seen[<<k2, o2>>]
    BY <1>1, <1>2
<1>6. Accurate(world', seen')
  <2> SUFFICES ASSUME NEW k2 \in Kind, NEW o2 \in Order,
                      <<k2, o2>> \notin world'.pending, seen'[<<k2, o2>>] # Unseen
               PROVE  seen'[<<k2, o2>>] = Actual(world', k2, o2)
      BY DEF Accurate
  <2>1. CASE <<k2, o2>> \in read
      BY <1>3, <1>5, <2>1
  <2>2. CASE <<k2, o2>> \notin read
    <3>1. seen'[<<k2, o2>>] = seen[<<k2, o2>>]
        BY <1>5, <2>2
    <3> QED BY <1>1, <1>3, <3>1 DEF Accurate
  <2> QED BY <2>1, <2>2
<1>7. /\ seen'[<<"order", 1>>] = Actual(world, "order", 1)
      /\ world.family # "reserve" => seen'[<<"invoice", 1>>] = Actual(world, "invoice", 1)
    BY <1>5 DEF Kind, Order
<1>8. task' \in Worker /\ task'.pass = 0
      /\ task'.at = IF world.family = "reserve" THEN "pass" ELSE "create"
    BY <1>1, <1>2 DEF Worker
<1>9. \/ world'.family = "reserve" /\ TeachesLines(world', seen', task')
      \/ world'.family = "invoice" /\ TeachesInvoice(world', seen', task')
    BY <1>1, <1>3, <1>7, <1>8 DEF TeachesLines, TeachesInvoice
<1>10. TeacherFits(world', seen', task')
    BY <1>1, <1>3, <1>8, <1>9 DEF TeacherFits
<1> QED BY <1>1, <1>3, <1>4, <1>6, <1>8, <1>10 DEF WorkerInv, Learned

LEMMA TeacherPasses ==
    ASSUME WorkerInv, TeachPass
    PROVE  WorkerInv'
<1>1. /\ world \in World /\ Booked(world) /\ task \in Worker /\ TeachesOne(world)
      /\ world.family = "reserve" /\ TeachesLines(world, seen, task)
      /\ task.at = "pass" /\ task.at \in Teaching
    BY DEF WorkerInv, Learned, TeacherFits, TeachPass, Teaching, TeachesInvoice
<1>2. world' = world /\ seen' = seen
    BY DEF TeachPass
<1>3. seen[<<"order", 1>>][1] = world.reserved[1] /\ seen[<<"order", 1>>][2] = (1 \in world.confirmed)
    BY <1>1 DEF TeachesLines, Actual
<1>4. CASE task.pass = 2 \/ 1 \in world.confirmed
  <2>1. task' = [task EXCEPT !.at = "taught"]
      BY <1>3, <1>4 DEF TeachPass
  <2>2. 1 \in world.confirmed
      BY <1>1, <1>4 DEF TeachesLines
  <2>3. task' \in Worker /\ task'.at = "taught"
      BY <1>1, <2>1 DEF Worker
  <2>4. Verified(world)
      BY <1>1, <2>2, LinesVerified DEF TeachesLines
  <2>5. TeachesLines(world, seen, task')
      BY <1>1, <2>3 DEF TeachesLines
  <2> QED BY <1>1, <1>2, <2>3, <2>4, <2>5, TeacherMoves
<1>5. CASE ~(task.pass = 2 \/ 1 \in world.confirmed)
  <2>1. task' = [task EXCEPT !.at = "lines", !.todo = Line \ world.reserved[1]]
      BY <1>3, <1>5 DEF TeachPass
  <2>2. task' \in Worker /\ task'.at = "lines" /\ task'.pass = task.pass
        /\ task'.todo = Line \ world.reserved[1]
      BY <1>1, <2>1 DEF Worker
  <2>3. task.pass \in {0, 1}
      BY <1>1, <1>5 DEF Worker
  <2>4. TeachesLines(world, seen, task')
      BY <1>1, <1>5, <2>2, <2>3 DEF TeachesLines
  <2> QED BY <1>1, <1>2, <2>2, <2>4, TeacherMoves
<1> QED BY <1>4, <1>5

LEMMA TeacherReserves ==
    ASSUME WorkerInv, TeachReserve
    PROVE  WorkerInv'
<1>1. /\ world \in World /\ Booked(world) /\ task \in Worker /\ TeachesOne(world)
      /\ world.family = "reserve" /\ TeachesLines(world, seen, task)
      /\ task.at = "lines" /\ task.at \in Teaching
    BY DEF WorkerInv, Learned, TeacherFits, TeachReserve, Teaching, TeachesInvoice
<1>2. /\ task.pass \in {0, 1} /\ 1 \notin world.confirmed /\ task.todo \cap world.reserved[1] = {}
      /\ task.pass = 1 => world.injected
      /\ Line \ world.reserved[1] \subseteq task.todo \/ (world.injected /\ task.pass = 0)
      /\ seen[<<"order", 1>>] = Actual(world, "order", 1) /\ world.invoice[1] = "none"
    BY <1>1 DEF TeachesLines
<1>3. task.todo \subseteq Line
    BY <1>1 DEF Worker
<1> PICK l \in task.todo :
        /\ Teaches("order", IF CanReserve(world, 1, l) THEN Reserved(world, 1, l) ELSE world)
        /\ task' = [task EXCEPT !.todo = @ \ {l}]
    BY DEF TeachReserve
<1> DEFINE v == Reserved(world, 1, l)
<1>4. CanReserve(world, 1, l) /\ l \in Line /\ l \notin world.reserved[1]
    BY <1>2, <1>3 DEF CanReserve
<1>5. v \in World /\ Booked(v)
    BY <1>1, <1>4, ReservedFits DEF Order
<1>6. /\ Alike(v, world) /\ v.injected = world.injected /\ v.confirmed = world.confirmed
      /\ v.invoice = world.invoice /\ v.reserved = [world.reserved EXCEPT ![1] = @ \cup {l}]
    BY <1>1 DEF Reserved, World, Alike
<1>7. Teaches("order", v)
    BY <1>4
<1> HIDE DEF v
<1>8. \A k2 \in Kind, o2 \in Order :
         <<k2, o2>> # <<"order", 1>> => Actual(v, k2, o2) = Actual(world, k2, o2)
    BY <1>6 DEF Actual, Kind
<1>9. /\ world' \in World /\ Booked(world') /\ Accurate(world', seen')
      /\ TeachesOne(world') /\ Alike(world', world)
      /\ world.injected => world'.injected /\ Shows(world', v)
      /\ Shows(world', v) \/ (Shows(world', world) /\ world'.injected)
      /\ seen' = [k \in Kind \X Order |-> seen'[k]]
      /\ seen'[<<"order", 1>>] = Actual(world', "order", 1)
    BY <1>1, <1>5, <1>6, <1>7, <1>8, TeachesKeeps DEF Kind
<1>10. task' \in Worker /\ task'.at = "lines" /\ task'.pass = task.pass /\ task'.todo = task.todo \ {l}
    BY <1>1 DEF Worker
<1>11. v.reserved[1] = world.reserved[1] \cup {l}
    BY <1>1, <1>6 DEF World, Order
<1>12. /\ 1 \notin world'.confirmed /\ world'.invoice[1] = "none"
       /\ task'.todo \cap world'.reserved[1] = {}
       /\ task'.pass = 1 => world'.injected
       /\ Line \ world'.reserved[1] \subseteq task'.todo \/ (world'.injected /\ task'.pass = 0)
  <2>1. CASE Shows(world', v)
    <3>1. world'.reserved[1] = world.reserved[1] \cup {l}
        BY <1>11, <2>1 DEF Shows
    <3>2. 1 \notin world'.confirmed /\ world'.invoice[1] = "none"
        BY <1>2, <1>6, <2>1 DEF Shows
    <3>3. world.injected => world'.injected
        BY <1>9
    <3> QED BY <1>2, <1>10, <3>1, <3>2, <3>3
  <2>2. CASE Shows(world', world) /\ world'.injected /\ ~Shows(world', v)
    <3>1. ~world.injected
        BY <1>9, <2>2
    <3>2. task.pass = 0
        BY <1>2, <3>1
    <3> QED BY <1>2, <1>10, <2>2, <3>2 DEF Shows
  <2> QED BY <1>9, <2>1, <2>2
<1>13. TeachesLines(world', seen', task')
    BY <1>2, <1>9, <1>10, <1>12 DEF TeachesLines
<1>14. TeacherFits(world', seen', task')
    BY <1>1, <1>9, <1>10, <1>13 DEF TeacherFits, Alike
<1> QED BY <1>9, <1>10, <1>14 DEF WorkerInv, Learned

LEMMA TeacherConfirms ==
    ASSUME WorkerInv, TeachConfirm
    PROVE  WorkerInv'
<1>1. /\ world \in World /\ Booked(world) /\ task \in Worker /\ TeachesOne(world)
      /\ world.family = "reserve" /\ TeachesLines(world, seen, task)
      /\ task.at = "lines" /\ task.at \in Teaching /\ task.todo = {}
    BY DEF WorkerInv, Learned, TeacherFits, TeachConfirm, Teaching, TeachesInvoice
<1>2. /\ task.pass \in {0, 1} /\ 1 \notin world.confirmed
      /\ task.pass = 1 => world.injected
      /\ Line \ world.reserved[1] \subseteq task.todo \/ (world.injected /\ task.pass = 0)
      /\ seen[<<"order", 1>>] = Actual(world, "order", 1) /\ world.invoice[1] = "none"
    BY <1>1 DEF TeachesLines
<1>3. seen[<<"order", 1>>][1] = world.reserved[1] /\ world.reserved[1] \subseteq Line
    BY <1>1, <1>2 DEF Actual, World, Order
<1>4. task' = [task EXCEPT !.at = "pass", !.pass = @ + 1]
    BY DEF TeachConfirm
<1>5. task' \in Worker /\ task'.at = "pass" /\ task'.pass = task.pass + 1
  <2>1. task.pass + 1 \in 0 .. 2
      BY <1>2
  <2> QED BY <1>1, <1>4, <2>1 DEF Worker
<1>6. CASE world.reserved[1] = Line
  <2> DEFINE v == Confirmed(world, 1)
  <2>1. v \in World /\ Booked(v)
      BY <1>1, <1>6, ConfirmedFits DEF Order
  <2>2. /\ Alike(v, world) /\ v.injected = world.injected
        /\ v.confirmed = world.confirmed \cup {1} /\ v.invoice = world.invoice
        /\ v.reserved = world.reserved
      BY <1>1 DEF Confirmed, World, Alike
  <2>3. Teaches("order", v)
      BY <1>3, <1>6 DEF TeachConfirm
  <2> HIDE DEF v
  <2>4. \A k2 \in Kind, o2 \in Order :
           <<k2, o2>> # <<"order", 1>> => Actual(v, k2, o2) = Actual(world, k2, o2)
      BY <2>2 DEF Actual, Kind
  <2>5. /\ world' \in World /\ Booked(world') /\ Accurate(world', seen')
        /\ TeachesOne(world') /\ Alike(world', world)
        /\ world.injected => world'.injected /\ Shows(world', v)
        /\ Shows(world', v) \/ (Shows(world', world) /\ world'.injected)
        /\ seen' = [k \in Kind \X Order |-> seen'[k]]
        /\ seen'[<<"order", 1>>] = Actual(world', "order", 1)
      BY <1>1, <2>1, <2>2, <2>3, <2>4, TeachesKeeps DEF Kind
  <2>6. 1 \in world'.confirmed \/ (world'.injected /\ task.pass = 0)
      BY <1>2, <2>2, <2>5 DEF Shows
  <2>7. world'.invoice[1] = "none"
      BY <1>2, <2>2, <2>5 DEF Shows
  <2>8. TeachesLines(world', seen', task')
      BY <1>2, <1>5, <2>5, <2>6, <2>7 DEF TeachesLines
  <2>9. TeacherFits(world', seen', task')
      BY <1>1, <1>5, <2>5, <2>8 DEF TeacherFits, Alike
  <2> QED BY <1>5, <2>5, <2>9 DEF WorkerInv, Learned
<1>7. CASE world.reserved[1] # Line
  <2>1. world' = world /\ seen' = seen
      BY <1>3, <1>7 DEF TeachConfirm
  <2>2. world.injected /\ task.pass = 0
      BY <1>1, <1>2, <1>3, <1>7
  <2>3. TeachesLines(world, seen, task')
      BY <1>2, <1>5, <2>2 DEF TeachesLines
  <2> QED BY <1>1, <1>5, <2>1, <2>3, TeacherMoves
<1> QED BY <1>6, <1>7

\* A call that makes or notes the invoice of the teacher's order.
LEMMA TeachesNote ==
    ASSUME WorkerInv, task.at \in {"create", "annotate"}, NEW reference \in {"empty", "right"},
           Teaches("invoice", Invoiced(world, 1, reference))
    PROVE  /\ world' \in World /\ Booked(world') /\ Accurate(world', seen')
           /\ TeachesOne(world') /\ world'.family = "invoice" /\ world.family = "invoice"
           /\ seen' = [k \in Kind \X Order |-> seen'[k]]
           /\ world'.kept[1] = Line /\ 1 \in world'.confirmed
           /\ seen'[<<"order", 1>>] = Actual(world', "order", 1)
           /\ seen'[<<"invoice", 1>>] = Actual(world', "invoice", 1)
           /\ world.injected => world'.injected /\ world'.invoice[1] = reference
           /\ world'.invoice[1] = reference \/ (world'.invoice[1] = world.invoice[1] /\ world'.injected)
<1> DEFINE v == Invoiced(world, 1, reference)
<1>1. /\ world \in World /\ Booked(world) /\ task.at \in Teaching
      /\ world.family = "invoice" /\ TeachesInvoice(world, seen, task)
    BY DEF WorkerInv, Learned, TeacherFits, Teaching, TeachesLines
<1>2. v \in World /\ Booked(v)
    BY <1>1, InvoicedFits DEF Order
<1>3. /\ Alike(v, world) /\ v.injected = world.injected /\ v.confirmed = world.confirmed
      /\ v.reserved = world.reserved /\ v.invoice = [world.invoice EXCEPT ![1] = reference]
    BY <1>1 DEF Invoiced, World, Alike
<1>4. v.invoice[1] = reference
    BY <1>1, <1>3 DEF World, Order
<1> HIDE DEF v
<1>5. \A k2 \in Kind, o2 \in Order :
         <<k2, o2>> # <<"invoice", 1>> => Actual(v, k2, o2) = Actual(world, k2, o2)
    BY <1>3 DEF Actual, Kind
<1>6. Teaches("invoice", v)
    BY DEF v
<1>7. /\ world' \in World /\ Booked(world') /\ Accurate(world', seen')
      /\ TeachesOne(world') /\ Alike(world', world)
      /\ world.injected => world'.injected /\ Shows(world', v)
      /\ Shows(world', v) \/ (Shows(world', world) /\ world'.injected)
      /\ seen' = [k \in Kind \X Order |-> seen'[k]]
      /\ \A k2 \in Kind, o2 \in Order :
            seen[<<k2, o2>>] = Actual(world, k2, o2) => seen'[<<k2, o2>>] = Actual(world', k2, o2)
      /\ seen'[<<"invoice", 1>>] = Actual(world', "invoice", 1)
    BY <1>1, <1>2, <1>3, <1>5, <1>6, TeachesKeeps DEF Kind
<1>8. seen'[<<"order", 1>>] = Actual(world', "order", 1)
    BY <1>1, <1>7 DEF TeachesInvoice, Kind, Order
<1>9. world'.kept[1] = Line /\ 1 \in world'.confirmed /\ world'.family = "invoice"
    BY <1>1, <1>3, <1>7 DEF TeachesInvoice, Alike, Shows
<1> QED BY <1>1, <1>3, <1>4, <1>7, <1>8, <1>9 DEF Shows

LEMMA TeacherCreates ==
    ASSUME WorkerInv, TeachCreate
    PROVE  WorkerInv'
<1>1. /\ world \in World /\ Booked(world) /\ task \in Worker /\ TeachesOne(world)
      /\ world.family = "invoice" /\ TeachesInvoice(world, seen, task)
      /\ task.at = "create" /\ task.at \in Teaching
    BY DEF WorkerInv, Learned, TeacherFits, TeachCreate, Teaching, TeachesLines
<1>2. /\ task.pass >= 1 => world.invoice[1] # "none" \/ world.injected
      /\ task.pass = 2 => world.invoice[1] # "none"
      /\ seen[<<"order", 1>>] = Actual(world, "order", 1)
      /\ seen[<<"invoice", 1>>] = <<world.invoice[1]>>
      /\ world.kept[1] = Line /\ 1 \in world.confirmed
    BY <1>1 DEF TeachesInvoice, Actual
<1>3. CASE task.pass < 2 /\ world.invoice[1] = "none"
  <2>1. Teaches("invoice", Invoiced(world, 1, "empty")) /\ task' = [task EXCEPT !.pass = @ + 1]
      BY <1>2, <1>3 DEF TeachCreate
  <2>2. task.pass + 1 \in 0 .. 2
      BY <1>1, <1>3 DEF Worker
  <2>3. task' \in Worker /\ task'.at = "create" /\ task'.pass = task.pass + 1
      BY <1>1, <2>1, <2>2 DEF Worker
  <2>4. /\ world' \in World /\ Booked(world') /\ Accurate(world', seen')
        /\ TeachesOne(world') /\ world'.family = "invoice"
        /\ seen' = [k \in Kind \X Order |-> seen'[k]]
        /\ world'.kept[1] = Line /\ 1 \in world'.confirmed
        /\ seen'[<<"order", 1>>] = Actual(world', "order", 1)
        /\ seen'[<<"invoice", 1>>] = Actual(world', "invoice", 1)
        /\ world.injected => world'.injected /\ world'.invoice[1] = "empty"
        /\ world'.invoice[1] = "empty" \/ world'.injected
      BY <1>1, <2>1, TeachesNote
  <2>5. task.pass = 1 => world'.invoice[1] = "empty"
      BY <1>2, <1>3, <2>4
  <2>6. TeachesInvoice(world', seen', task')
      BY <1>1, <2>3, <2>4, <2>5 DEF TeachesInvoice, Worker
  <2>7. TeacherFits(world', seen', task')
      BY <2>3, <2>4, <2>6 DEF TeacherFits
  <2> QED BY <2>3, <2>4, <2>7 DEF WorkerInv, Learned
<1>4. CASE ~(task.pass < 2 /\ world.invoice[1] = "none")
  <2>1. task' = [task EXCEPT !.at = "annotate", !.pass = 0] /\ world' = world /\ seen' = seen
      BY <1>2, <1>4 DEF TeachCreate
  <2>2. task' \in Worker /\ task'.at = "annotate" /\ task'.pass = 0
    <3>1. 0 \in 0 .. 2
        OBVIOUS
    <3> QED BY <1>1, <2>1, <3>1 DEF Worker
  <2>3. TeachesInvoice(world, seen, task')
      BY <1>1, <2>2 DEF TeachesInvoice
  <2> QED BY <1>1, <2>1, <2>2, <2>3, TeacherMoves
<1> QED BY <1>3, <1>4

LEMMA TeacherAnnotates ==
    ASSUME WorkerInv, TeachAnnotate
    PROVE  WorkerInv'
<1>1. /\ world \in World /\ Booked(world) /\ task \in Worker /\ TeachesOne(world)
      /\ world.family = "invoice" /\ TeachesInvoice(world, seen, task)
      /\ task.at = "annotate" /\ task.at \in Teaching
    BY DEF WorkerInv, Learned, TeacherFits, TeachAnnotate, Teaching, TeachesLines
<1>2. /\ task.pass >= 1 => world.invoice[1] = "right" \/ world.injected
      /\ task.pass = 2 => world.invoice[1] = "right"
      /\ seen[<<"order", 1>>] = Actual(world, "order", 1)
      /\ seen[<<"invoice", 1>>] = <<world.invoice[1]>>
      /\ world.kept[1] = Line /\ 1 \in world.confirmed
    BY <1>1 DEF TeachesInvoice, Actual
<1>3. CASE task.pass < 2 /\ world.invoice[1] # "right"
  <2>1. Teaches("invoice", Invoiced(world, 1, "right")) /\ task' = [task EXCEPT !.pass = @ + 1]
      BY <1>2, <1>3 DEF TeachAnnotate
  <2>2. task.pass + 1 \in 0 .. 2
      BY <1>1, <1>3 DEF Worker
  <2>3. task' \in Worker /\ task'.at = "annotate" /\ task'.pass = task.pass + 1
      BY <1>1, <2>1, <2>2 DEF Worker
  <2>4. /\ world' \in World /\ Booked(world') /\ Accurate(world', seen')
        /\ TeachesOne(world') /\ world'.family = "invoice"
        /\ seen' = [k \in Kind \X Order |-> seen'[k]]
        /\ world'.kept[1] = Line /\ 1 \in world'.confirmed
        /\ seen'[<<"order", 1>>] = Actual(world', "order", 1)
        /\ seen'[<<"invoice", 1>>] = Actual(world', "invoice", 1)
        /\ world.injected => world'.injected /\ world'.invoice[1] = "right"
        /\ world'.invoice[1] = "right" \/ world'.injected
      BY <1>1, <2>1, TeachesNote
  <2>5. task.pass = 1 => world'.invoice[1] = "right"
      BY <1>2, <1>3, <2>4
  <2>6. TeachesInvoice(world', seen', task')
      BY <1>1, <2>3, <2>4, <2>5 DEF TeachesInvoice, Worker
  <2>7. TeacherFits(world', seen', task')
      BY <2>3, <2>4, <2>6 DEF TeacherFits
  <2> QED BY <2>3, <2>4, <2>7 DEF WorkerInv, Learned
<1>4. CASE ~(task.pass < 2 /\ world.invoice[1] # "right")
  <2>1. task' = [task EXCEPT !.at = "taught"] /\ world' = world /\ seen' = seen
      BY <1>2, <1>4 DEF TeachAnnotate
  <2>2. task' \in Worker /\ task'.at = "taught"
      BY <1>1, <2>1 DEF Worker
  <2>3. world.invoice[1] = "right"
      BY <1>1, <1>2, <1>4 DEF Worker
  <2>4. Verified(world)
      BY <1>1, <1>2, <2>3, InvoiceVerified
  <2>5. TeachesInvoice(world, seen, task')
      BY <1>1, <2>2 DEF TeachesInvoice
  <2> QED BY <1>1, <2>1, <2>2, <2>4, <2>5, TeacherMoves
<1> QED BY <1>3, <1>4

LEMMA WorkerSteps ==
    ASSUME SkillAssumption, WorkerInv, TaskWorldNext
    PROVE  WorkerInv'
BY LoopSteps, ToolEffects, OtherCalls, TeacherStarts, TeacherPasses, TeacherReserves,
   TeacherConfirms, TeacherCreates, TeacherAnnotates DEF TaskWorldNext

LEMMA TasksStayHonest ==
    ASSUME WorkerInv PROVE TasksAreHonest
<1> QED BY DEF WorkerInv, Learned, Booked, Accurate, TeacherFits, Teaching, TasksAreHonest

-----------------------------------------------------------------------------
(* The stages *)

LEMMA StagesBegin == SkillAssumption /\ StageInit => StagesInv
<1> SUFFICES ASSUME SkillAssumption, StageInit PROVE StagesInv
    OBVIOUS
<1>1. << >> \in Seq(Item)
    OBVIOUS
<1>2. run \in [Run -> Stage]
    BY <1>1 DEF StageInit, Stage, MaxCompiles
<1>3. \A r \in Run : run[r].at = "new" /\ run[r].parent = run[r].library
                     /\ run[r].execute = 0 /\ run[r].cases = 0
    BY DEF StageInit
<1>4. DOMAIN output = {OutputOf[r] : r \in Run} /\ output = [d \in DOMAIN output |-> output[d]]
      /\ \A d \in DOMAIN output : output[d] = Nil
    BY DEF StageInit
<1>5. \A r \in Run : ~Owns(r)
    BY <1>3 DEF Owns, Idle
<1>6. OutputOwned
    BY <1>4, <1>5 DEF OutputOwned
<1>7. ASSUME NEW r \in Run PROVE Learns(run, r, run[r]) /\ Bounded(r, run[r])
  <2>1. Learns(run, r, run[r])
      BY <1>3 DEF Learns, Unfollowed, Idle
  <2>2. StageOf[r] \in {"A", "B"} /\ MaxModelCalls \in Nat
      BY DEF SkillAssumption
  <2>3. Cases("A") = 6 /\ Cases("B") = 13
      BY DEF Cases, Variants, Arms
  <2>4. Bounded(r, run[r])
      BY <1>3, <2>2, <2>3 DEF Bounded, maximumExecutionRequests, executionCases
  <2> QED BY <2>1, <2>4
<1> QED BY <1>2, <1>4, <1>5, <1>6, <1>7 DEF StagesInv

\* A dispatch that has made its directory changes only it and itself.
LEMMA OwnStep ==
    ASSUME SkillAssumption, StagesInv, NEW r \in Run, Owns(r), run[r].at # "completed",
           NEW x \in Stage, x.at \notin Idle, run' = [run EXCEPT ![r] = x],
           NEW f \in Files,
           \/ output' = [output EXCEPT ![OutputOf[r]] = f]
           \/ output' = output /\ f = output[OutputOf[r]],
           Wrote(r, x, f), Learns(run, r, x), Bounded(r, x)
    PROVE  StagesInv'
<1>1. /\ run \in [Run -> Stage] /\ DOMAIN output = {OutputOf[q] : q \in Run}
      /\ output = [d \in DOMAIN output |-> output[d]] /\ OutputOwned
    BY DEF StagesInv
<1>2. run' \in [Run -> Stage] /\ run'[r] = x /\ \A s \in Run : s # r => run'[s] = run[s]
    BY <1>1
<1>3. /\ DOMAIN output' = DOMAIN output
      /\ output' = [d \in DOMAIN output' |-> output'[d]]
    BY <1>1
<1>4. \A d \in DOMAIN output : output'[d] = IF d = OutputOf[r] THEN f ELSE output[d]
    BY <1>1
<1>5. OutputOf[r] \in DOMAIN output
    BY <1>1
<1>6. \A s \in Run : Owns(s)' <=> Owns(s)
    BY <1>2 DEF Owns
<1>7. \A s \in Run : s # r /\ Owns(s) =>
         OutputOf[s] # OutputOf[r] /\ output'[OutputOf[s]] = output[OutputOf[s]]
    BY <1>1, <1>4 DEF OutputOwned
<1>8. OutputOwned'
  <2>1. \A s \in Run : Owns(s)' => output'[OutputOf[s]] \in Files
      BY <1>1, <1>4, <1>5, <1>6, <1>7 DEF OutputOwned
  <2>2. \A d \in DOMAIN output' : output'[d] # Nil => \E s \in Run : Owns(s)' /\ OutputOf[s] = d
    <3> SUFFICES ASSUME NEW d \in DOMAIN output', output'[d] # Nil
                 PROVE  \E s \in Run : Owns(s) /\ OutputOf[s] = d
        BY <1>6
    <3>1. CASE d = OutputOf[r]
        BY <3>1
    <3>2. CASE d # OutputOf[r]
        BY <1>1, <1>3, <1>4, <3>2 DEF OutputOwned
    <3> QED BY <3>1, <3>2
  <2>3. \A s, q \in Run : Owns(s)' /\ Owns(q)' /\ OutputOf[s] = OutputOf[q] => s = q
      BY <1>1, <1>6 DEF OutputOwned
  <2> QED BY <2>1, <2>2, <2>3 DEF OutputOwned
<1>9. ASSUME NEW s \in Run, NEW library, Follows(run, s, library) PROVE Follows(run', s, library)
  <2> PICK a \in Run : /\ OutputOf[a] = PriorOf[s] /\ run[a].at = "completed"
                       /\ ReplicateOf[a] = ReplicateOf[s] /\ run[a].library = library
      BY <1>9 DEF Follows
  <2>1. run'[a] = run[a]
      BY <1>2
  <2> QED BY <2>1 DEF Follows
<1>10. ASSUME NEW s \in Run, NEW y, Learns(run, s, y) PROVE Learns(run', s, y)
    BY <1>9, <1>10 DEF Learns
<1>11. ASSUME NEW s \in Run
       PROVE  /\ Owns(s)' => Wrote(s, run'[s], output'[OutputOf[s]])
              /\ Learns(run', s, run'[s]) /\ Bounded(s, run'[s])
  <2>1. CASE s = r
      BY <1>2, <1>4, <1>5, <1>10, <2>1
  <2>2. CASE s # r
    <3>1. Learns(run, s, run[s]) /\ Bounded(s, run[s])
          /\ (Owns(s) => Wrote(s, run[s], output[OutputOf[s]]))
        BY DEF StagesInv
    <3> QED BY <1>2, <1>6, <1>7, <1>10, <2>2, <3>1
  <2> QED BY <2>1, <2>2
<1> QED BY <1>1, <1>2, <1>3, <1>8, <1>11 DEF StagesInv

\* A stage goes on to another place and stays as it was otherwise.
LEMMA MovesOn ==
    ASSUME SkillAssumption, StagesInv, NEW r \in Run, NEW to, Owns(r),
           [run[r] EXCEPT !.at = to] \in Stage,
           run[r].at # "completed", to \notin Idle, to # "prior",
           run[r].at \in Unfollowed => to \in Unfollowed,
           to \in Before => run[r].at \in Before,
           run' = [run EXCEPT ![r].at = to],
           NEW f \in Files,
           \/ output' = [output EXCEPT ![OutputOf[r]] = f]
           \/ output' = output /\ f = output[OutputOf[r]],
           Wrote(r, [run[r] EXCEPT !.at = to], f)
    PROVE  StagesInv'
<1> DEFINE x == [run[r] EXCEPT !.at = to]
<1>1. run[r] \in Stage /\ Learns(run, r, run[r]) /\ Bounded(r, run[r])
    BY DEF StagesInv
<1>2. x.at = to /\ x.library = run[r].library /\ x.parent = run[r].parent
      /\ x.cases = run[r].cases /\ x.execute = run[r].execute
    BY <1>1 DEF Stage
<1>3. run' = [run EXCEPT ![r] = x]
    OBVIOUS
<1> HIDE DEF x
<1>4. Learns(run, r, x)
    BY <1>1, <1>2 DEF Learns
<1>5. Bounded(r, x)
    BY <1>1, <1>2 DEF Bounded
<1> QED BY <1>2, <1>3, <1>4, <1>5, OwnStep DEF x

\* The two steps in which artifact writes a file.
LEMMA FileSteps ==
    ASSUME SkillAssumption, StagesInv, NEW r \in Run
    PROVE  /\ WriteManifest(r) => StagesInv'
           /\ WriteProbe(r) => StagesInv'
           /\ WriteReport(r) => StagesInv'
           /\ Complete(r) => StagesInv'
           /\ SaveLibrary(r) => StagesInv'
<1> DEFINE f == output[OutputOf[r]]
           named == [stage |-> StageOf[r], replicate |-> ReplicateOf[r], library |-> run[r].library]
<1>1. run[r] \in Stage /\ (Owns(r) => f \in Files /\ Wrote(r, run[r], f))
      /\ OutputOf[r] \in DOMAIN output
    BY DEF StagesInv, OutputOwned
<1>2. named \in Reports /\ named = Report(r) /\ run[r].library \in Seq(Item)
  <2>1. run[r].library \in Seq(Item) /\ StageOf[r] \in {"A", "B"}
      BY <1>1 DEF Stage, SkillAssumption
  <2> QED BY <2>1 DEF Reports, Report
<1>3. ASSUME NEW to \in {"manifest written", "probe", "probe written", "acquiring", "report",
                         "report written", "completing", "completed written", "completed"}
      PROVE  LET x == [run[r] EXCEPT !.at = to]
             IN  x \in Stage /\ x.at = to /\ x.library = run[r].library
    BY <1>1 DEF Stage, Ended
<1>4. ASSUME NEW name \in {"manifest", "probe", "library", "report", "completed"}, NEW value,
             output' = [output EXCEPT ![OutputOf[r]][name] = value]
      PROVE  output' = [output EXCEPT ![OutputOf[r]] = [f EXCEPT ![name] = value]]
    BY <1>4
<1> HIDE DEF named, f
<1>5. WriteManifest(r) => StagesInv'
  <2>1. CASE Create(r, "manifest", "manifest", "manifest written")
    <3> DEFINE g == [f EXCEPT !.manifest = Torn]
    <3>1. run[r].at = "manifest" /\ run' = [run EXCEPT ![r].at = "manifest written"]
          /\ output' = [output EXCEPT ![OutputOf[r]] = g]
        BY <1>4, <2>1 DEF Create, Moves
    <3>2. Owns(r) /\ f = NoFiles
        BY <1>1, <3>1 DEF Owns, Idle, Wrote
    <3>3. g \in Files /\ g = [NoFiles EXCEPT !.manifest = Torn] /\ g.completed = Nil
        BY <1>1, <3>2 DEF Files, NoFiles
    <3> HIDE DEF g
    <3>4. Wrote(r, [run[r] EXCEPT !.at = "manifest written"], g)
        BY <1>3, <3>3 DEF Wrote
    <3> QED BY <1>3, <3>1, <3>2, <3>3, <3>4, MovesOn DEF Idle, Before, Unfollowed
  <2>2. CASE Finish(r, "manifest", "whole", "manifest written", "probe")
    <3> DEFINE g == [f EXCEPT !.manifest = "whole"]
    <3>1. run[r].at = "manifest written" /\ run' = [run EXCEPT ![r].at = "probe"]
          /\ output' = [output EXCEPT ![OutputOf[r]] = g]
        BY <1>4, <2>2 DEF Finish, Moves
    <3>2. Owns(r) /\ f = [NoFiles EXCEPT !.manifest = Torn]
        BY <1>1, <3>1 DEF Owns, Idle, Wrote
    <3>3. g \in Files /\ g = [NoFiles EXCEPT !.manifest = "whole"] /\ g.completed = Nil
        BY <1>1, <3>2 DEF Files, NoFiles
    <3> HIDE DEF g
    <3>4. Wrote(r, [run[r] EXCEPT !.at = "probe"], g)
        BY <1>3, <3>3 DEF Wrote
    <3> QED BY <1>3, <3>1, <3>2, <3>3, <3>4, MovesOn DEF Idle, Before, Unfollowed
  <2> QED BY <2>1, <2>2 DEF WriteManifest
<1>6. WriteProbe(r) => StagesInv'
  <2>1. CASE Create(r, "probe", "probe", "probe written")
    <3> DEFINE g == [f EXCEPT !.probe = Torn]
    <3>1. run[r].at = "probe" /\ run' = [run EXCEPT ![r].at = "probe written"]
          /\ output' = [output EXCEPT ![OutputOf[r]] = g]
        BY <1>4, <2>1 DEF Create, Moves
    <3>2. Owns(r) /\ f = [NoFiles EXCEPT !.manifest = "whole"]
        BY <1>1, <3>1 DEF Owns, Idle, Wrote
    <3>3. /\ g \in Files /\ g.completed = Nil
          /\ g = [NoFiles EXCEPT !.manifest = "whole", !.probe = Torn]
        BY <1>1, <3>2 DEF Files, NoFiles
    <3> HIDE DEF g
    <3>4. Wrote(r, [run[r] EXCEPT !.at = "probe written"], g)
        BY <1>3, <3>3 DEF Wrote
    <3> QED BY <1>3, <3>1, <3>2, <3>3, <3>4, MovesOn DEF Idle, Before, Unfollowed
  <2>2. CASE Finish(r, "probe", "whole", "probe written", "acquiring")
    <3> DEFINE g == [f EXCEPT !.probe = "whole"]
    <3>1. run[r].at = "probe written" /\ run' = [run EXCEPT ![r].at = "acquiring"]
          /\ output' = [output EXCEPT ![OutputOf[r]] = g]
        BY <1>4, <2>2 DEF Finish, Moves
    <3>2. Owns(r) /\ f = [NoFiles EXCEPT !.manifest = "whole", !.probe = Torn]
        BY <1>1, <3>1 DEF Owns, Idle, Wrote
    <3>3. /\ g \in Files /\ g.completed = Nil
          /\ g.manifest = "whole" /\ g.probe = "whole" /\ g.failed = Nil
        BY <1>1, <3>2 DEF Files, NoFiles
    <3> HIDE DEF g
    <3>4. Wrote(r, [run[r] EXCEPT !.at = "acquiring"], g)
        BY <1>3, <3>3 DEF Wrote
    <3> QED BY <1>3, <3>1, <3>2, <3>3, <3>4, MovesOn DEF Idle, Before, Unfollowed
  <2> QED BY <2>1, <2>2 DEF WriteProbe
\* The files that a stage writes after its cases.
<1>7. ASSUME Owns(r), run[r].at \in {"library", "report", "report written", "completing",
                                     "completed written"}
      PROVE  f.manifest = "whole" /\ f.probe = "whole" /\ f.failed = Nil
             /\ f.completed \in {Nil, Torn}
    BY <1>1, <1>7 DEF Wrote
<1>8. SaveLibrary(r) => StagesInv'
  <2> HAVE SaveLibrary(r)
  <2> DEFINE g == [f EXCEPT !.library = run[r].library]
  <2>1. run[r].at = "library" /\ run' = [run EXCEPT ![r].at = "report"]
        /\ output' = [output EXCEPT ![OutputOf[r]] = g]
      BY <1>4 DEF SaveLibrary, Moves
  <2>2. Owns(r)
      BY <2>1 DEF Owns, Idle
  <2>3. /\ g \in Files /\ g.completed = f.completed /\ g.library = run[r].library
        /\ g.manifest = f.manifest /\ g.probe = f.probe /\ g.failed = f.failed
      BY <1>1, <1>2, <2>2 DEF Files
  <2> HIDE DEF g
  <2>4. Wrote(r, [run[r] EXCEPT !.at = "report"], g)
      BY <1>3, <1>7, <2>1, <2>2, <2>3 DEF Wrote
  <2> QED BY <1>3, <2>1, <2>2, <2>3, <2>4, MovesOn DEF Idle, Before, Unfollowed
<1>9. WriteReport(r) => StagesInv'
  <2>1. CASE Create(r, "report", "report", "report written")
    <3> DEFINE g == [f EXCEPT !.report = Torn]
    <3>1. run[r].at = "report" /\ run' = [run EXCEPT ![r].at = "report written"]
          /\ output' = [output EXCEPT ![OutputOf[r]] = g]
        BY <1>4, <2>1 DEF Create, Moves
    <3>2. Owns(r) /\ f.library = run[r].library
        BY <1>1, <3>1 DEF Owns, Idle, Wrote
    <3>3. /\ g \in Files /\ g.completed = f.completed /\ g.library = f.library
          /\ g.manifest = f.manifest /\ g.probe = f.probe /\ g.failed = f.failed
        BY <1>1, <3>2 DEF Files
    <3> HIDE DEF g
    <3>4. Wrote(r, [run[r] EXCEPT !.at = "report written"], g)
        BY <1>3, <1>7, <3>1, <3>2, <3>3 DEF Wrote
    <3> QED BY <1>3, <3>1, <3>2, <3>3, <3>4, MovesOn DEF Idle, Before, Unfollowed
  <2>2. CASE Finish(r, "report", Report(r), "report written", "completing")
    <3> DEFINE g == [f EXCEPT !.report = named]
    <3>1. run[r].at = "report written" /\ run' = [run EXCEPT ![r].at = "completing"]
          /\ output' = [output EXCEPT ![OutputOf[r]] = g]
        BY <1>2, <1>4, <2>2 DEF Finish, Moves
    <3>2. Owns(r) /\ f.library = run[r].library
        BY <1>1, <3>1 DEF Owns, Idle, Wrote
    <3>3. /\ g \in Files /\ g.completed = f.completed /\ g.library = f.library
          /\ g.report = named
          /\ g.manifest = f.manifest /\ g.probe = f.probe /\ g.failed = f.failed
        BY <1>1, <1>2, <3>2 DEF Files
    <3> HIDE DEF g
    <3>4. Wrote(r, [run[r] EXCEPT !.at = "completing"], g)
        BY <1>3, <1>7, <3>1, <3>2, <3>3 DEF Wrote, named
    <3> QED BY <1>3, <3>1, <3>2, <3>3, <3>4, MovesOn DEF Idle, Before, Unfollowed
  <2> QED BY <2>1, <2>2 DEF WriteReport
<1>10. Complete(r) => StagesInv'
  <2>1. CASE Create(r, "completed", "completing", "completed written")
    <3> DEFINE g == [f EXCEPT !.completed = Torn]
    <3>1. run[r].at = "completing" /\ run' = [run EXCEPT ![r].at = "completed written"]
          /\ output' = [output EXCEPT ![OutputOf[r]] = g]
        BY <1>4, <2>1 DEF Create, Moves
    <3>2. Owns(r) /\ f.library = run[r].library /\ f.report = named
        BY <1>1, <3>1 DEF Owns, Idle, Wrote, named
    <3>3. /\ g \in Files /\ g.completed = Torn /\ g.library = f.library
          /\ g.report = f.report
          /\ g.manifest = f.manifest /\ g.probe = f.probe /\ g.failed = f.failed
        BY <1>1, <3>2 DEF Files
    <3> HIDE DEF g
    <3>4. Wrote(r, [run[r] EXCEPT !.at = "completed written"], g)
        BY <1>3, <1>7, <3>1, <3>2, <3>3 DEF Wrote, named
    <3> QED BY <1>3, <3>1, <3>2, <3>3, <3>4, MovesOn DEF Idle, Before, Unfollowed
  <2>2. CASE Finish(r, "completed", Report(r), "completed written", "completed")
    <3> DEFINE g == [f EXCEPT !.completed = named]
    <3>1. run[r].at = "completed written" /\ run' = [run EXCEPT ![r].at = "completed"]
          /\ output' = [output EXCEPT ![OutputOf[r]] = g]
        BY <1>2, <1>4, <2>2 DEF Finish, Moves
    <3>2. Owns(r) /\ f.library = run[r].library /\ f.report = named
        BY <1>1, <3>1 DEF Owns, Idle, Wrote, named
    <3>3. /\ g \in Files /\ g.completed = named /\ g.library = f.library
          /\ g.report = f.report
          /\ g.manifest = f.manifest /\ g.probe = f.probe /\ g.failed = f.failed
        BY <1>1, <1>2, <3>2 DEF Files
    <3> HIDE DEF g
    <3>4. Wrote(r, [run[r] EXCEPT !.at = "completed"], g)
        BY <1>3, <1>7, <3>1, <3>2, <3>3 DEF Wrote, named
    <3> QED BY <1>3, <3>1, <3>2, <3>3, <3>4, MovesOn DEF Idle, Before, Unfollowed
  <2> QED BY <2>1, <2>2 DEF Complete
<1> QED BY <1>5, <1>6, <1>8, <1>9, <1>10

LEMMA StageStarts ==
    ASSUME SkillAssumption, StagesInv, NEW r \in Run, StartStage(r)
    PROVE  StagesInv'
<1>1. /\ run \in [Run -> Stage] /\ DOMAIN output = {OutputOf[q] : q \in Run}
      /\ output = [d \in DOMAIN output |-> output[d]] /\ OutputOwned
      /\ run[r].at = "new" /\ Learns(run, r, run[r]) /\ Bounded(r, run[r])
    BY DEF StagesInv, StartStage, Moves
<1> PICK to \in {"refused", "prior", "manifest"} :
        /\ run' = [run EXCEPT ![r].at = to]
        /\ to = "prior" => StageOf[r] = "B"
        /\ to = "manifest" => StageOf[r] = "A"
        /\ to = "refused" => output' = output
        /\ to # "refused" => output[OutputOf[r]] = Nil
                             /\ output' = [output EXCEPT ![OutputOf[r]] = NoFiles]
    BY DEF StartStage, Moves, SkillAssumption
<1> DEFINE x == [run[r] EXCEPT !.at = to]
<1>2. x \in Stage /\ x.at = to /\ x.library = run[r].library /\ x.parent = run[r].parent
      /\ x.cases = run[r].cases /\ x.execute = run[r].execute
  <2>1. run[r] \in Stage
      BY <1>1
  <2> QED BY <2>1 DEF Stage
<1>3. run' = [run EXCEPT ![r] = x]
    OBVIOUS
<1> HIDE DEF x
<1>4. run' \in [Run -> Stage] /\ run'[r] = x /\ \A s \in Run : s # r => run'[s] = run[s]
    BY <1>1, <1>2, <1>3
<1>5. ASSUME NEW s \in Run, NEW y, Learns(run, s, y) PROVE Learns(run', s, y)
  <2>1. ASSUME NEW library, Follows(run, s, library) PROVE Follows(run', s, library)
    <3> PICK a \in Run : /\ OutputOf[a] = PriorOf[s] /\ run[a].at = "completed"
                         /\ ReplicateOf[a] = ReplicateOf[s] /\ run[a].library = library
        BY <2>1 DEF Follows
    <3>1. run'[a] = run[a]
        BY <1>1, <1>4
    <3> QED BY <3>1 DEF Follows
  <2> QED BY <1>5, <2>1 DEF Learns
<1>6. Learns(run, r, x) /\ Bounded(r, x)
  <2>1. x.library = x.parent
      BY <1>1, <1>2 DEF Learns, Before, Idle
  <2>2. Learns(run, r, x)
      BY <1>2, <2>1 DEF Learns, Unfollowed, Idle
  <2> QED BY <1>1, <1>2, <2>2 DEF Bounded
<1>7. \A s \in Run : Learns(run', s, run'[s]) /\ Bounded(s, run'[s])
    BY <1>4, <1>5, <1>6 DEF StagesInv
<1>8. /\ DOMAIN output' = DOMAIN output
      /\ output' = [d \in DOMAIN output' |-> output'[d]]
    BY <1>1
<1>9. ~Owns(r) /\ \A s \in Run : s # r => (Owns(s)' <=> Owns(s))
    BY <1>1, <1>4 DEF Owns, Idle
<1>10. CASE to = "refused"
  <2>1. ~Owns(r)' /\ output' = output
      BY <1>2, <1>4, <1>10 DEF Owns, Idle
  <2>2. OutputOwned'
      BY <1>1, <1>9, <2>1 DEF OutputOwned
  <2>3. \A s \in Run : Owns(s)' => Wrote(s, run'[s], output'[OutputOf[s]])
      BY <1>4, <1>9, <2>1 DEF StagesInv
  <2> QED BY <1>1, <1>4, <1>7, <1>8, <2>2, <2>3 DEF StagesInv
<1>11. CASE to # "refused"
  <2>1. /\ Owns(r)' /\ output[OutputOf[r]] = Nil
        /\ \A d \in DOMAIN output : output'[d] = IF d = OutputOf[r] THEN NoFiles ELSE output[d]
      BY <1>1, <1>2, <1>4, <1>11 DEF Owns, Idle
  <2>2. NoFiles \in Files
      BY DEF NoFiles, Files
  <2>3. \A s \in Run : Owns(s) => OutputOf[s] # OutputOf[r]
      BY <1>1, <2>1 DEF OutputOwned, SkillAssumption
  <2>4. OutputOwned'
    <3>1. \A s \in Run : Owns(s)' => output'[OutputOf[s]] \in Files
        BY <1>1, <1>9, <2>1, <2>2, <2>3 DEF OutputOwned
    <3>2. \A d \in DOMAIN output' : output'[d] # Nil => \E s \in Run : Owns(s)' /\ OutputOf[s] = d
      <4> SUFFICES ASSUME NEW d \in DOMAIN output', output'[d] # Nil
                   PROVE  \E s \in Run : Owns(s)' /\ OutputOf[s] = d
          OBVIOUS
      <4>1. CASE d = OutputOf[r]
          BY <2>1, <4>1
      <4>2. CASE d # OutputOf[r]
        <5> PICK s \in Run : Owns(s) /\ OutputOf[s] = d
            BY <1>1, <1>8, <2>1, <4>2 DEF OutputOwned
        <5> QED BY <1>9
      <4> QED BY <4>1, <4>2
    <3>3. \A s, q \in Run : Owns(s)' /\ Owns(q)' /\ OutputOf[s] = OutputOf[q] => s = q
        BY <1>1, <1>9, <2>3 DEF OutputOwned
    <3> QED BY <3>1, <3>2, <3>3 DEF OutputOwned
  <2>5. Wrote(r, x, NoFiles)
      BY <1>2, <1>11 DEF Wrote, NoFiles
  <2>6. \A s \in Run : Owns(s)' => Wrote(s, run'[s], output'[OutputOf[s]])
    <3> SUFFICES ASSUME NEW s \in Run, Owns(s)'
                 PROVE  Wrote(s, run'[s], output'[OutputOf[s]])
        OBVIOUS
    <3>1. CASE s = r
        BY <1>1, <1>4, <2>1, <2>5, <3>1
    <3>2. CASE s # r
      <4>1. Owns(s) /\ run'[s] = run[s]
          BY <1>4, <1>9, <3>2
      <4>2. output'[OutputOf[s]] = output[OutputOf[s]]
          BY <1>1, <2>1, <2>3, <4>1
      <4> QED BY <4>1, <4>2 DEF StagesInv
    <3> QED BY <3>1, <3>2
  <2> QED BY <1>1, <1>4, <1>7, <1>8, <2>4, <2>6 DEF StagesInv
<1> QED BY <1>10, <1>11

\* A prior that fits is the directory of a completed stage A of the replicate.
LEMMA PriorIsCompleted ==
    ASSUME SkillAssumption, StagesInv, NEW r \in Run, StageOf[r] = "B",
           output[PriorOf[r]] # Nil, PriorFits(r, output[PriorOf[r]])
    PROVE  /\ Follows(run, r, output[PriorOf[r]].library)
           /\ output[PriorOf[r]].library \in Seq(Item)
<1> DEFINE f == output[PriorOf[r]]
<1>1. PriorOf[r] \in DOMAIN output
    BY DEF SkillAssumption, StagesInv
<1> PICK a \in Run : Owns(a) /\ OutputOf[a] = PriorOf[r]
    BY <1>1 DEF StagesInv, OutputOwned
<1>2. Wrote(a, run[a], f) /\ run[a] \in Stage
    BY DEF StagesInv
<1>3. f.completed \notin {Nil, Torn} /\ f.report.replicate = ReplicateOf[r]
      /\ f.library = f.report.library
    BY DEF PriorFits
<1>4. run[a].at = "completed"
    BY <1>2, <1>3 DEF Wrote
<1>5. f.report = [stage |-> StageOf[a], replicate |-> ReplicateOf[a], library |-> run[a].library]
    BY <1>2, <1>4 DEF Wrote
<1>6. ReplicateOf[a] = ReplicateOf[r] /\ run[a].library = f.library
    BY <1>3, <1>5
<1> HIDE DEF f
<1>7. f.library \in Seq(Item)
    BY <1>2, <1>6 DEF Stage
<1> QED BY <1>4, <1>6, <1>7 DEF Follows, f

LEMMA OtherStageSteps ==
    ASSUME SkillAssumption, StagesInv, NEW r \in Run
    PROVE  /\ LoadPrior(r) => StagesInv'
           /\ Acquire(r) => StagesInv'
           /\ RunCase(r) => StagesInv'
           /\ StageEnds(r) => StagesInv'
           /\ StageFails(r) => StagesInv'
           /\ Dies(r) => StagesInv'
<1> DEFINE f == output[OutputOf[r]]
<1>1. run[r] \in Stage /\ (Owns(r) => f \in Files /\ Wrote(r, run[r], f))
      /\ OutputOf[r] \in DOMAIN output /\ Learns(run, r, run[r]) /\ Bounded(r, run[r])
    BY DEF StagesInv, OutputOwned
<1>2. MaxModelCalls \in Nat \ {0} /\ StageOf[r] \in {"A", "B"}
    BY DEF SkillAssumption
<1> HIDE DEF f
<1>3. ASSUME LoadPrior(r) PROVE StagesInv'
  <2> DEFINE library == output[PriorOf[r]].library
             x == [run[r] EXCEPT !.at = "manifest", !.parent = library, !.library = library]
  <2>1. run[r].at = "prior" /\ run' = [run EXCEPT ![r] = x] /\ output' = output
      BY <1>3 DEF LoadPrior
  <2>2. StageOf[r] = "B" /\ Owns(r)
      BY <1>1, <2>1 DEF Learns, Owns, Idle
  <2>3. Follows(run, r, library) /\ library \in Seq(Item)
      BY <1>3, <2>2, PriorIsCompleted DEF LoadPrior
  <2> HIDE DEF library
  <2>4. x \in Stage /\ x.at = "manifest" /\ x.library = library /\ x.parent = library
        /\ x.cases = run[r].cases /\ x.execute = run[r].execute
      BY <1>1, <2>3 DEF Stage
  <2> HIDE DEF x
  <2>5. Learns(run, r, x) /\ Bounded(r, x)
      BY <1>1, <2>3, <2>4 DEF Learns, Bounded
  <2>6. Wrote(r, x, f)
      BY <1>1, <2>1, <2>2, <2>4 DEF Wrote, NoFiles
  <2> QED BY <1>1, <2>1, <2>2, <2>4, <2>5, <2>6, OwnStep DEF Idle, f
<1>4. ASSUME Acquire(r) PROVE StagesInv'
  <2> DEFINE child == Append(run[r].parent, [skill |-> Family(StageOf[r]), by |-> r])
  <2> PICK admitted \in BOOLEAN :
         run' = [run EXCEPT
                    ![r].compile = @ + 1,
                    ![r].library = IF admitted THEN child ELSE @,
                    ![r].at = IF admitted \/ run[r].compile + 1 = MaxCompiles
                              THEN "cases" ELSE "acquiring"]
      BY <1>4 DEF Acquire, Admitted
  <2> DEFINE x == [run[r] EXCEPT !.compile = @ + 1,
                                 !.library = IF admitted THEN child ELSE @,
                                 !.at = IF admitted \/ run[r].compile + 1 = MaxCompiles
                                        THEN "cases" ELSE "acquiring"]
  <2>1. run[r].at = "acquiring" /\ run[r].compile < MaxCompiles /\ output' = output
        /\ run' = [run EXCEPT ![r] = x]
    <3>1. run[r].at = "acquiring" /\ run[r].compile < MaxCompiles /\ output' = output
        BY <1>4 DEF Acquire, Ceiling
    <3>2. run' = [run EXCEPT ![r] = x]
        BY ZenonT(60)
    <3> QED BY <3>1, <3>2
  <2>2. Owns(r) /\ run[r].library = run[r].parent
      BY <1>1, <2>1 DEF Owns, Idle, Learns, Before
  <2>3. [skill |-> Family(StageOf[r]), by |-> r] \in Item
      BY DEF Item, Family
  <2>4. child \in Seq(Item) /\ \E item \in Item : child = Append(run[r].parent, item)
    <3>1. run[r].parent \in Seq(Item)
        BY <1>1 DEF Stage
    <3> QED BY <2>3, <3>1
  <2> HIDE DEF child
  <2>5. run[r].compile + 1 \in 0 .. MaxCompiles
    <3>1. run[r].compile \in 0 .. MaxCompiles
        BY <1>1 DEF Stage
    <3> QED BY <2>1, <3>1 DEF MaxCompiles
  <2>6. /\ x \in Stage /\ x.parent = run[r].parent
        /\ x.cases = run[r].cases /\ x.execute = run[r].execute
        /\ \/ x.at = "cases" /\ x.library \in {child, run[r].parent}
           \/ x.at = "acquiring" /\ x.library = run[r].parent
      BY <1>1, <2>2, <2>4, <2>5 DEF Stage
  <2> HIDE DEF x
  <2>7. Learns(run, r, x)
      BY <1>1, <2>1, <2>4, <2>6 DEF Learns, Before, Unfollowed, Idle
  <2>8. Bounded(r, x)
      BY <1>1, <2>6 DEF Bounded
  <2>9. Wrote(r, x, f)
      BY <1>1, <2>1, <2>2, <2>6 DEF Wrote
  <2> QED BY <1>1, <2>1, <2>2, <2>6, <2>7, <2>8, <2>9, OwnStep DEF Idle, f
<1>5. ASSUME RunCase(r) PROVE StagesInv'
  <2> PICK turns \in {1, MaxModelCalls} :
         run' = [run EXCEPT ![r].cases = @ + 1, ![r].execute = @ + turns]
      BY <1>5 DEF RunCase
  <2> DEFINE x == [run[r] EXCEPT !.cases = @ + 1, !.execute = @ + turns]
             left == Cases(StageOf[r]) - run[r].cases
  <2>1. run[r].at = "cases" /\ run[r].cases < Cases(StageOf[r]) /\ output' = output
        /\ run' = [run EXCEPT ![r] = x]
      BY <1>5 DEF RunCase
  <2>2. Owns(r)
      BY <2>1 DEF Owns, Idle
  <2>3. turns \in Nat /\ turns <= MaxModelCalls
      BY <1>2
  <2>4. /\ x \in Stage /\ x.parent = run[r].parent /\ x.library = run[r].library
        /\ x.at = run[r].at /\ x.cases = run[r].cases + 1 /\ x.execute = run[r].execute + turns
    <3>1. run[r].cases \in Nat /\ run[r].execute \in Nat
        BY <1>1 DEF Stage
    <3>2. run[r].cases + 1 \in Nat /\ run[r].execute + turns \in Nat
        BY <2>3, <3>1
    <3> QED BY <1>1, <3>2 DEF Stage
  <2> HIDE DEF x
  <2>5. Learns(run, r, x)
      BY <1>1, <2>4 DEF Learns
  <2>6. Bounded(r, x)
    <3>1. Cases("A") = 6 /\ Cases("B") = 13
        BY DEF Cases, Variants, Arms
    <3>2. Cases(StageOf[r]) \in Nat /\ run[r].cases \in Nat /\ run[r].execute \in Nat
      <4>1. run[r].cases \in Nat /\ run[r].execute \in Nat
          BY <1>1 DEF Stage
      <4> QED BY <1>2, <3>1, <4>1
    <3>3. MaxModelCalls * left = MaxModelCalls * (Cases(StageOf[r]) - x.cases) + MaxModelCalls
      <4>1. \A m \in Nat, n \in Int : m * n = m * (n - 1) + m
          OBVIOUS
      <4>2. Cases(StageOf[r]) - x.cases = left - 1 /\ left \in Int
          BY <2>4, <3>2
      <4> HIDE DEF left
      <4> QED BY <1>2, <4>1, <4>2
    <3>4. maximumExecutionRequests(StageOf[r]) \in Int
        BY <1>2 DEF maximumExecutionRequests, executionCases
    <3>5. MaxModelCalls * left \in Int /\ MaxModelCalls * (Cases(StageOf[r]) - x.cases) \in Int
        BY <1>2, <2>4, <3>2
    <3>6. run[r].execute + MaxModelCalls * left <= maximumExecutionRequests(StageOf[r])
        BY <1>1 DEF Bounded
    <3>7. x.execute + MaxModelCalls * (Cases(StageOf[r]) - x.cases)
             <= maximumExecutionRequests(StageOf[r])
        BY <1>2, <2>3, <2>4, <3>2, <3>3, <3>4, <3>5, <3>6
    <3>8. x.cases \in 0 .. Cases(StageOf[r])
        BY <2>1, <2>4, <3>2
    <3> QED BY <3>7, <3>8 DEF Bounded
  <2>7. Wrote(r, x, f)
      BY <1>1, <2>1, <2>2, <2>4 DEF Wrote
  <2> QED BY <1>1, <2>1, <2>2, <2>4, <2>5, <2>6, <2>7, OwnStep DEF Idle, f
<1>6. ASSUME NEW to \in {"library", "failing", "failed", "dead"}
      PROVE  LET x == [run[r] EXCEPT !.at = to]
             IN  x \in Stage /\ x.at = to /\ x.library = run[r].library
    BY <1>1 DEF Stage, Ended
<1>7. ASSUME StageEnds(r) PROVE StagesInv'
  <2>1. run[r].at = "cases" /\ run' = [run EXCEPT ![r].at = "library"] /\ output' = output
      BY <1>7 DEF StageEnds, Moves
  <2>2. Owns(r)
      BY <2>1 DEF Owns, Idle
  <2>3. Wrote(r, [run[r] EXCEPT !.at = "library"], f)
      BY <1>1, <1>6, <2>1, <2>2 DEF Wrote
  <2> QED BY <1>1, <1>6, <2>1, <2>2, <2>3, MovesOn DEF Idle, Before, Unfollowed, f
<1>8. ASSUME Underway(r) PROVE Owns(r) /\ run[r].at # "completed" /\ f.completed \in {Nil, Torn}
    BY <1>1, <1>8 DEF Underway, Owns, Idle, Wrote
<1>9. ASSUME Dies(r) PROVE StagesInv'
  <2>1. Underway(r) /\ run' = [run EXCEPT ![r].at = "dead"] /\ output' = output
      BY <1>9 DEF Dies
  <2>2. Wrote(r, [run[r] EXCEPT !.at = "dead"], f)
      BY <1>6, <1>8, <2>1 DEF Wrote
  <2> QED BY <1>1, <1>6, <1>8, <2>1, <2>2, MovesOn DEF Idle, Before, Unfollowed, f
<1>10. ASSUME StageFails(r) PROVE StagesInv'
  <2> PICK to \in {"failing", "failed"}, value \in {Torn, "whole"} :
         /\ Owns(r) /\ run[r].at # "completed" /\ f.completed \in {Nil, Torn}
         /\ to \in Unfollowed
         /\ run' = [run EXCEPT ![r].at = to]
         /\ output' = [output EXCEPT ![OutputOf[r]].failed = value]
    <3>1. CASE Underway(r) /\ run' = [run EXCEPT ![r].at = "failing"]
               /\ output' = [output EXCEPT ![OutputOf[r]].failed = Torn]
        BY <1>8, <3>1 DEF Unfollowed
    <3>2. CASE Finish(r, "failed", "whole", "failing", "failed")
      <4>1. run[r].at = "failing" /\ run' = [run EXCEPT ![r].at = "failed"]
            /\ output' = [output EXCEPT ![OutputOf[r]].failed = "whole"]
          BY <3>2 DEF Finish, Moves
      <4>2. Underway(r)
          BY <4>1 DEF Underway
      <4> QED BY <1>8, <4>1, <4>2 DEF Unfollowed
    <3> QED BY <1>10, <3>1, <3>2 DEF StageFails
  <2> DEFINE g == [f EXCEPT !.failed = value]
  <2>1. output' = [output EXCEPT ![OutputOf[r]] = g]
      BY DEF f
  <2>2. g \in Files /\ g.completed \in {Nil, Torn}
      BY <1>1 DEF Files
  <2> HIDE DEF g
  <2>3. Wrote(r, [run[r] EXCEPT !.at = to], g)
      BY <1>6, <2>2 DEF Wrote
  <2>4. to \notin Idle /\ to # "prior" /\ to \notin Before
      BY DEF Idle, Before
  <2> QED BY <1>6, <2>1, <2>2, <2>3, <2>4, MovesOn
<1> QED BY <1>3, <1>4, <1>5, <1>7, <1>9, <1>10

LEMMA StageSteps ==
    ASSUME SkillAssumption, StagesInv, StageNext
    PROVE  StagesInv'
BY StageStarts, FileSteps, OtherStageSteps DEF StageNext

LEMMA StagesStayBound ==
    ASSUME SkillAssumption, StagesInv
    PROVE  StagesAreBound
<1>1. ASSUME NEW r \in Run, output[OutputOf[r]] # Nil,
             output[OutputOf[r]].completed \notin {Nil, Torn}
      PROVE  LET files == output[OutputOf[r]]
             IN  /\ files.completed = files.report /\ files.library = files.report.library
                 /\ files.failed = Nil /\ files.manifest = "whole" /\ files.probe = "whole"
  <2> PICK a \in Run : Owns(a) /\ OutputOf[a] = OutputOf[r]
      BY <1>1 DEF StagesInv, OutputOwned
  <2>1. Wrote(a, run[a], output[OutputOf[r]])
      BY DEF StagesInv
  <2>2. run[a].at = "completed"
      BY <1>1, <2>1 DEF Wrote
  <2> QED BY <2>1, <2>2 DEF Wrote
<1>2. ASSUME NEW r \in Run
      PROVE  /\ Len(run[r].library) - Len(run[r].parent) \in {0, 1}
             /\ SubSeq(run[r].library, 1, Len(run[r].parent)) = run[r].parent
             /\ StageOf[r] = "B" /\ run[r].at \in {"acquiring", "cases", "library", "completed"} =>
                   \E a \in Run :
                      /\ OutputOf[a] = PriorOf[r] /\ run[a].at = "completed"
                      /\ ReplicateOf[a] = ReplicateOf[r]
                      /\ run[a].library = run[r].parent
             /\ run[r].execute + MaxModelCalls * (Cases(StageOf[r]) - run[r].cases)
                   <= maximumExecutionRequests(StageOf[r])
  <2>1. run[r] \in Stage /\ Learns(run, r, run[r]) /\ Bounded(r, run[r])
      BY DEF StagesInv
  <2>2. run[r].parent \in Seq(Item)
      BY <2>1 DEF Stage
  <2>3. ASSUME run[r].library = run[r].parent
        PROVE  /\ Len(run[r].library) - Len(run[r].parent) \in {0, 1}
               /\ SubSeq(run[r].library, 1, Len(run[r].parent)) = run[r].parent
      BY <2>2, <2>3
  <2>4. ASSUME NEW item \in Item, run[r].library = Append(run[r].parent, item)
        PROVE  /\ Len(run[r].library) - Len(run[r].parent) \in {0, 1}
               /\ SubSeq(run[r].library, 1, Len(run[r].parent)) = run[r].parent
      BY <2>2, <2>4
  <2>5. StageOf[r] = "B" /\ run[r].at \in {"acquiring", "cases", "library", "completed"} =>
           Follows(run, r, run[r].parent)
      BY <2>1 DEF Learns, Unfollowed, Idle
  <2>6. /\ Len(run[r].library) - Len(run[r].parent) \in {0, 1}
        /\ SubSeq(run[r].library, 1, Len(run[r].parent)) = run[r].parent
      BY <2>1, <2>3, <2>4 DEF Learns
  <2> QED BY <2>1, <2>5, <2>6 DEF Bounded, Follows
<1> QED BY <1>1, <1>2 DEF StagesAreBound

\* Learning a skill is honest in every step: what a worker takes for known is so,
\* no effect is had twice, the teacher's demonstrations end well, and what a stage
\* left behind as completed is whole and what the next one goes on from
\* (evals/sequentialSkillFixture.js, sequentialSkillLearning.js,
\* scripts/runSequentialSkillLearning.js, persistentSkillLibrary.js).
THEOREM SkillsStayHonest == SkillSpec => []SkillsAreHonest
<1> DEFINE Inv == WorkerInv /\ StagesInv
<1>1. TaskStart /\ StageInit => Inv
    BY WorldInit, StagesBegin, SkillAssumption
<1>2. Inv /\ [SkillNext]_<<taskWorldVars, stageVars>> => Inv'
  <2> SUFFICES ASSUME WorkerInv, StagesInv, [SkillNext]_<<taskWorldVars, stageVars>>
               PROVE  WorkerInv' /\ StagesInv'
      OBVIOUS
  <2>1. ASSUME UNCHANGED taskWorldVars PROVE WorkerInv'
      BY <2>1 DEF taskWorldVars, WorkerInv
  <2>2. ASSUME UNCHANGED stageVars PROVE StagesInv'
    <3>1. run' = run /\ output' = output
        BY <2>2 DEF stageVars
    <3> QED BY <3>1 DEF StagesInv, OutputOwned, Owns
  <2>3. CASE TaskWorldNext /\ UNCHANGED stageVars
      BY <2>2, <2>3, WorkerSteps, SkillAssumption
  <2>4. CASE StageNext /\ UNCHANGED taskWorldVars
      BY <2>1, <2>4, StageSteps, SkillAssumption
  <2>5. CASE UNCHANGED <<taskWorldVars, stageVars>>
      BY <2>1, <2>2, <2>5
  <2> QED BY <2>3, <2>4, <2>5 DEF SkillNext
<1>3. Inv => SkillsAreHonest
  <2> SUFFICES ASSUME WorkerInv, StagesInv PROVE SkillsAreHonest
      OBVIOUS
  <2>1. SkillTypeOK
    <3>1. world \in World /\ task \in Worker /\ run \in [Run -> Stage]
          /\ \A r \in Run : Bounded(r, run[r])
        BY DEF WorkerInv, Learned, StagesInv
    <3> QED BY <3>1 DEF World, Worker, Stage, Bounded, SkillTypeOK
  <2> QED BY <2>1, TasksStayHonest, StagesStayBound, SkillAssumption DEF SkillsAreHonest
<1> QED BY <1>1, <1>2, <1>3, PTL DEF SkillSpec
==============================================================================
