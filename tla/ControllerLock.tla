--------------------------- MODULE ControllerLock ---------------------------
(***************************************************************************)
(* The directory lock of scripts/runPersistentLearningController.ts: a     *)
(* controller makes .controller-lock, writes owner.json into it, and       *)
(* removes it at the end; a lock whose owner is a dead process of the same *)
(* host is claimed, looked at again and renamed away.  A process stands    *)
(* for one run of the script, so it is also the token it writes.  Every    *)
(* call to the file system is a step; a process may die between two.       *)
(***************************************************************************)
EXTENDS Naturals

CONSTANTS
    Process,
    HostOf, PidOf,  \* per process: a pid can be used again after a death
    Inode,          \* inode numbers, used again too
    Attempts,       \* how often lock() tries
    NoDir, Nobody

Directory == [maker : Process, written : BOOLEAN, claimed : BOOLEAN, inode : Inode]

ASSUME LockAssumption ==
    /\ Attempts \in Nat \ {0}
    /\ NoDir \notin Directory
    /\ Nobody \notin Process
    /\ DOMAIN HostOf = Process /\ DOMAIN PidOf = Process
    /\ Nobody \notin Inode

VARIABLES
    dir,    \* .controller-lock: its maker, owner.json, reclaim, inode
    life    \* per process: next step, lock() attempt, owner read, inode seen

vars == <<dir, life>>

Working ==
    {"mkdir", "own", "read", "judge", "stat", "claim", "compare", "inspect",
     "rename", "hold", "check", "remove", "rmdir"}
Finished == {"refused", "failed", "ended", "dead"}
Alive(p) == life[p].at \in Working
Holds(p) == life[p].at \in {"hold", "check", "remove"}

\* process.kill(pid, 0) reports ESRCH: nobody has the pid now.
DeadPid(p) == \A q \in Process :
    HostOf[q] = HostOf[p] /\ PidOf[q] = PidOf[p] => ~Alive(q)

Owned == dir # NoDir /\ dir.written

Init ==
    /\ dir = NoDir
    /\ life = [p \in Process |->
                  [at |-> "new", attempt |-> 1, original |-> Nobody, inode |-> Nobody]]

At(p, step) == life[p].at = step
Go(p, step) == life' = [life EXCEPT ![p].at = step]
\* lock() throws; nothing it has left behind is taken back.
Refuse(p) == Go(p, "refused") /\ UNCHANGED dir

-----------------------------------------------------------------------------
Start(p) ==
    /\ At(p, "new") /\ DeadPid(p)
    /\ Go(p, "mkdir") /\ UNCHANGED dir

MakeDir(p) ==
    /\ At(p, "mkdir")
    /\ \/ /\ dir = NoDir
          /\ \E i \in Inode :
                dir' = [maker |-> p, written |-> FALSE, claimed |-> FALSE, inode |-> i]
          /\ Go(p, "own")
       \/ dir # NoDir /\ Go(p, "read") /\ UNCHANGED dir

\* owner.json is created exclusively; a failure removes whatever is there.
WriteOwner(p) ==
    /\ At(p, "own")
    /\ \/ /\ dir # NoDir /\ ~dir.written
          /\ dir' = [dir EXCEPT !.maker = p, !.written = TRUE]
          /\ Go(p, "hold")
       \/ dir' = NoDir /\ Go(p, "failed")

ReadOwner(p) ==
    /\ At(p, "read")
    /\ \/ Owned /\ life' = [life EXCEPT ![p].original = dir.maker, ![p].at = "judge"]
                /\ UNCHANGED dir
       \/ ~Owned /\ Refuse(p)

Judge(p) ==
    /\ At(p, "judge")
    /\ IF HostOf[life[p].original] = HostOf[p] /\ DeadPid(life[p].original)
       THEN Go(p, "stat") /\ UNCHANGED dir ELSE Refuse(p)

Stat(p) ==
    /\ At(p, "stat")
    /\ \/ /\ dir # NoDir
          /\ life' = [life EXCEPT ![p].inode = dir.inode, ![p].at = "claim"]
          /\ UNCHANGED dir
       \/ dir = NoDir /\ Refuse(p)

\* The claim goes into whatever directory has the name now.
Claim(p) ==
    /\ At(p, "claim")
    /\ IF dir # NoDir /\ ~dir.claimed
       THEN dir' = [dir EXCEPT !.claimed = TRUE] /\ Go(p, "compare")
       ELSE Refuse(p)

\* Slip: the owner is not read again, the inode is trusted.
CompareNothing(p) == At(p, "compare") /\ Go(p, "inspect") /\ UNCHANGED dir

CompareOwner(p) ==
    /\ At(p, "compare")
    /\ IF Owned /\ dir.maker = life[p].original
       THEN Go(p, "inspect") /\ UNCHANGED dir ELSE Refuse(p)

Inspect(p) ==
    /\ At(p, "inspect")
    /\ IF dir # NoDir /\ dir.inode = life[p].inode /\ DeadPid(life[p].original)
       THEN Go(p, "rename") /\ UNCHANGED dir ELSE Refuse(p)

\* Slip: the attempt to come is counted as one already made.
RenameCountingAhead(p) ==
    /\ At(p, "rename")
    /\ LET more == dir # NoDir /\ life[p].attempt < Attempts
       IN life' = [life EXCEPT
              ![p].at = IF more /\ life[p].attempt + 1 < Attempts THEN "mkdir" ELSE "refused",
              ![p].attempt = IF more THEN @ + 1 ELSE @]
    /\ dir' = NoDir

\* The retired directory is private; the next attempt makes a new one.
Rename(p) ==
    /\ At(p, "rename")
    /\ LET again == dir # NoDir /\ life[p].attempt < Attempts
       IN life' = [life EXCEPT ![p].at = IF again THEN "mkdir" ELSE "refused",
                               ![p].attempt = IF again THEN @ + 1 ELSE @]
    /\ dir' = NoDir

-----------------------------------------------------------------------------
\* unlock(): the owner is read, then the directory removed.
Unlock(p) == At(p, "hold") /\ Go(p, "check") /\ UNCHANGED dir

CheckOwner(p) ==
    /\ At(p, "check")
    /\ Go(p, IF Owned /\ dir.maker = p THEN "remove" ELSE "ended")
    /\ UNCHANGED dir

\* Removal takes the files first; a claim that slips in can make it fail.
RemoveFiles(p) ==
    /\ At(p, "remove")
    /\ dir' = IF dir = NoDir THEN NoDir
              ELSE [dir EXCEPT !.written = FALSE, !.claimed = FALSE]
    /\ Go(p, "rmdir")

RemoveDir(p) ==
    /\ At(p, "rmdir")
    /\ \/ dir' = NoDir
       \/ dir # NoDir /\ dir.claimed /\ UNCHANGED dir
    /\ Go(p, "ended")

Die(p) == Alive(p) /\ Go(p, "dead") /\ UNCHANGED dir

Advance(p) ==
    \/ MakeDir(p) \/ WriteOwner(p) \/ ReadOwner(p) \/ Judge(p) \/ Stat(p) \/ Claim(p)
    \/ CompareOwner(p) \/ Inspect(p) \/ Rename(p) \/ CheckOwner(p)
    \/ RemoveFiles(p) \/ RemoveDir(p)

Next == \E p \in Process : Start(p) \/ Advance(p) \/ Unlock(p) \/ Die(p)
Spec == Init /\ [][Next]_vars
\* A running process makes its calls; when it is told to stop, or dies, is open.
FairSpec == Spec /\ \A p \in Process : WF_vars(Advance(p))

-----------------------------------------------------------------------------
Life ==
    [at : {"new"} \cup Working \cup Finished, attempt : 1 .. Attempts,
     original : Process \cup {Nobody}, inode : Inode \cup {Nobody}]

TypeOK ==
    /\ dir \in Directory \cup {NoDir}
    /\ life \in [Process -> Life]

\* A controller that works on the journal, or is about to remove its lock, has
\* its own owner.json under the lock's name.  No reclaim, however late, has
\* taken it away, so there is never a second writer.  (lock, lines 68-102)
HolderOwnsLock ==
    /\ TypeOK
    /\ \A p \in Process : Holds(p) => Owned /\ dir.maker = p

\* The directory nobody finished, or finished removing: only an operator can help.
Abandoned == dir # NoDir /\ ~dir.written /\ ~Alive(dir.maker)

Reclaiming(p) == At(p, "rename") /\ life[p].attempt < Attempts

\* A dead controller does not keep the service down: once its lock was found
\* dead and is renamed away, some controller gets the lock, unless one fails on
\* the way or all who have reclaimed die.  (lock, lines 68-102)
ReclaimOpensTheLock ==
    (\E p \in Process : Reclaiming(p)) ~>
        \/ \E q \in Process : At(q, "hold") \/ At(q, "failed")
        \/ \A p \in Process : ~Reclaiming(p) /\ (life[p].attempt > 1 => At(p, "dead"))
        \/ Abandoned
=============================================================================
