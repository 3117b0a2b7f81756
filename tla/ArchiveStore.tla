---------------------------- MODULE ArchiveStore ----------------------------
(***************************************************************************)
(* The event store of the kernel as one of its archives meets it: an       *)
(* archive changes its memory and then appends.  The append goes through,  *)
(* or it throws because the event id is known or because the write fails;  *)
(* nothing is rolled back and the process goes on with the memory it has.  *)
(* The constructor of the next process replays the log into the archives;  *)
(* an event that one of them refuses makes it throw.                       *)
(***************************************************************************)
EXTENDS Naturals

CONSTANT MaxFaults      \* failed writes considered (bound)

ASSUME StoreAssumption == MaxFaults \in Nat

VARIABLES
    broken,     \* the log holds an event a replay refuses
    thrown,     \* an append has thrown in this process
    astray,     \* in some process an event was appended after that
    faults

store == <<broken, thrown, astray, faults>>

StoreInit == broken = FALSE /\ thrown = FALSE /\ astray = FALSE /\ faults = 0

\* append returns; the replay of the event is accepted or not.  After the first
\* event that is not, nothing can be replayed any more; the archives then keep
\* account of what the accepted events say.
Persists(accepted) ==
    /\ broken' = (broken \/ ~accepted)
    /\ astray' = (astray \/ thrown)
    /\ UNCHANGED <<thrown, faults>>

\* append throws.
Throws(duplicate) ==
    /\ duplicate \/ faults < MaxFaults
    /\ faults' = IF duplicate THEN faults ELSE faults + 1
    /\ thrown' = TRUE
    /\ UNCHANGED <<broken, astray>>

\* The next process: it comes up only with a log that every archive accepts.
Reopens ==
    /\ ~broken
    /\ thrown' = FALSE
    /\ UNCHANGED <<broken, astray, faults>>

StoreTypeOK ==
    /\ {broken, thrown, astray} \subseteq BOOLEAN
    /\ faults \in 0..MaxFaults
=============================================================================
