---------------------------- MODULE CreditEscrow ----------------------------
(***************************************************************************)
(* What the organism promises about cross-mission credit, and nothing of   *)
(* how it keeps the promise: a contribution's credit is put in escrow      *)
(* once, one settlement vests it or claws it back, a later regression may  *)
(* claw vested credit back, and clawed-back credit is gone for good.       *)
(***************************************************************************)
CONSTANT Contribution

Status == {"none", "provisional", "vested", "clawed-back"}

VARIABLE credit

Init == credit = [c \in Contribution |-> "none"]

In(status) == {c \in Contribution : credit[c] = status}

Escrow(c) ==
    /\ c \in In("none")
    /\ credit' = [credit EXCEPT ![c] = "provisional"]

\* One verification decides a set of provisional credits together.
Decide(vested, clawedBack) ==
    /\ vested \cap clawedBack = {}
    /\ vested \cup clawedBack \subseteq In("provisional")
    /\ credit' = [c \in Contribution |->
                     IF c \in vested THEN "vested"
                     ELSE IF c \in clawedBack THEN "clawed-back"
                     ELSE credit[c]]

Punish(clawedBack) ==
    /\ clawedBack \subseteq In("vested")
    /\ credit' = [c \in Contribution |->
                     IF c \in clawedBack THEN "clawed-back" ELSE credit[c]]

Next ==
    \/ \E c \in Contribution : Escrow(c)
    \/ \E V, K \in SUBSET Contribution : Decide(V, K)
    \/ \E K \in SUBSET Contribution : Punish(K)

Spec == Init /\ [][Next]_credit
=============================================================================
