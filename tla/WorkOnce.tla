------------------------------ MODULE WorkOnce ------------------------------
(***************************************************************************)
(* What the persistent learning service promises about development work:   *)
(* one selection is made, its work is executed at most once whatever       *)
(* crashes or is repeated, and a receipt exists only for executed work and *)
(* is never given up.                                                      *)
(***************************************************************************)
EXTENDS Naturals

CONSTANTS Selection, NoSelection

VARIABLES
    selected,   \* the selection, NoSelection before it is made
    runs,       \* how many times its work was executed
    receipted   \* a receipt of the work is recorded

vars == <<selected, runs, receipted>>

Init == selected = NoSelection /\ runs = 0 /\ ~receipted

Select(s) == selected = NoSelection /\ selected' = s /\ UNCHANGED <<runs, receipted>>

Execute ==
    /\ selected # NoSelection /\ runs = 0 /\ ~receipted
    /\ runs' = 1
    /\ UNCHANGED <<selected, receipted>>

Receipt == runs = 1 /\ receipted' = TRUE /\ UNCHANGED <<selected, runs>>

Next == (\E s \in Selection : Select(s)) \/ Execute \/ Receipt

Spec == Init /\ [][Next]_vars
=============================================================================
