---------------------------- MODULE EnergyLedger ----------------------------
(***************************************************************************)
(* The class EnergyLedger of src/energyLedger.ts: mission-scoped compute   *)
(* rights.  A worker reserves energy, settles the reservation with what it *)
(* spent, possibly long after the host closed the mission or allocated to  *)
(* it again.  Amounts are whole units of energy.  A refused call throws    *)
(* before it assigns anything, so each refusal is a conjunct of a guard.   *)
(***************************************************************************)
EXTENDS Integers, FiniteSets, Totals

CONSTANTS
    MissionId, ActorId,
    ReservationId,
    MaxAllocation,      \* energy allocated to one account at most (bound)
    MaxCloses           \* closeMission calls considered (bound)

ASSUME EnergyAssumption ==
    /\ MaxAllocation \in Nat
    /\ MaxCloses \in Nat

Key == MissionId \X ActorId

\* The ids a caller has not reserved under yet, and the absent accounts.
Unused == [status |-> "unused"]
NoAccount == [held |-> FALSE]

Account == [held : {TRUE}, available : Int, reserved : Int, spent : Int]
Reservation == [status : {"open", "settled"}, key : Key, amount : Nat]

VARIABLES
    accounts,           \* #accounts: account key to account, or NoAccount
    reservations,       \* #reservations: id to reservation, or Unused
    granted,            \* per key, the energy allocate has granted the present account
    snapshots,          \* what the last call returned if it was closeMission, with the grants
    closes              \* closeMission calls so far

energyVars == <<accounts, reservations, granted, snapshots, closes>>

AccountWith(available, reserved, spent) ==
    [held |-> TRUE, available |-> available, reserved |-> reserved, spent |-> spent]
EmptyAccount == AccountWith(0, 0, 0)

EnergyInit ==
    /\ accounts = [k \in Key |-> NoAccount]
    /\ reservations = [r \in ReservationId |-> Unused]
    /\ granted = [k \in Key |-> 0]
    /\ snapshots = {}
    /\ closes = 0

-----------------------------------------------------------------------------
\* The positive amounts the bound leaves to a caller.
Amount == 1 .. MaxAllocation

\* allocate: tops an account up, or creates it.
Allocate(k, amount) ==
    LET account == IF accounts[k].held THEN accounts[k] ELSE EmptyAccount
    IN  /\ granted[k] + amount <= MaxAllocation
        /\ accounts' = [accounts EXCEPT ![k] =
               AccountWith(account.available + amount, account.reserved, account.spent)]
        /\ granted' = [granted EXCEPT ![k] = @ + amount]
        /\ snapshots' = {}
        /\ UNCHANGED <<reservations, closes>>

Covered(k, amount) == accounts[k].held /\ accounts[k].available >= amount

\* reserve: refuses an id used before, an unknown account and an overdraft.
Reserve(r, k, amount) ==
    /\ reservations[r].status = "unused"
    /\ Covered(k, amount)
    /\ accounts' = [accounts EXCEPT ![k] =
                       AccountWith(@.available - amount, @.reserved + amount, @.spent)]
    /\ reservations' = [reservations EXCEPT ![r] =
                           [status |-> "open", key |-> k, amount |-> amount]]
    /\ snapshots' = {}
    /\ UNCHANGED <<granted, closes>>

\* Slip: the whole reservation is handed back and the spending is recorded as
\* well.
SettledWithoutCharge(account, reservation, spent) ==
    AccountWith(account.available + reservation.amount,
                account.reserved - reservation.amount,
                account.spent + spent)

\* The account once the reservation has been settled with this spending.
Settled(account, reservation, spent) ==
    AccountWith(account.available + reservation.amount - spent,
                account.reserved - reservation.amount,
                account.spent + spent)

Finished(reservation) ==
    [status |-> "settled", key |-> reservation.key, amount |-> reservation.amount]

\* settleReservation: refuses an unknown or settled id and a spending the
\* reservation does not cover.
SettleReservation(r, spent) ==
    LET k == reservations[r].key
    IN  /\ reservations[r].status = "open"
        /\ spent \in 0 .. reservations[r].amount
        /\ accounts[k].held
        /\ accounts' = [accounts EXCEPT ![k] = Settled(@, reservations[r], spent)]
        /\ reservations' = [reservations EXCEPT ![r] = Finished(@)]
        /\ snapshots' = {}
        /\ UNCHANGED <<granted, closes>>

-----------------------------------------------------------------------------
OpenOn(k) == {r \in ReservationId :
                 reservations[r].status = "open" /\ reservations[r].key = k}

AmountOf(R) == Total([r \in R |-> reservations[r].amount], R)

MissionKeys(m) == {k \in Key : k[1] = m}

\* closeMission settles every open reservation of the mission at zero ...
Refunded(k) ==
    AccountWith(accounts[k].available + AmountOf(OpenOn(k)),
                accounts[k].reserved - AmountOf(OpenOn(k)),
                accounts[k].spent)

\* ... then returns the mission's accounts and deletes them.
CloseMission(m) ==
    LET mine == {k \in MissionKeys(m) : accounts[k].held}
        open == UNION {OpenOn(k) : k \in MissionKeys(m)}
    IN  /\ closes < MaxCloses
        /\ snapshots' = {[key |-> k, account |-> Refunded(k), granted |-> granted[k]]
                            : k \in mine}
        /\ accounts' = [k \in Key |-> IF k \in mine THEN NoAccount ELSE accounts[k]]
        /\ granted' = [k \in Key |-> IF k \in mine THEN 0 ELSE granted[k]]
        /\ reservations' = [r \in ReservationId |->
                               IF r \in open
                               THEN Finished(reservations[r])
                               ELSE reservations[r]]
        /\ closes' = closes + 1

EnergyNext ==
    \/ \E k \in Key, amount \in Amount : Allocate(k, amount)
    \/ \E r \in ReservationId, k \in Key, amount \in Amount : Reserve(r, k, amount)
    \/ \E r \in ReservationId, spent \in 0 .. MaxAllocation : SettleReservation(r, spent)
    \/ \E m \in MissionId : CloseMission(m)

EnergySpec == EnergyInit /\ [][EnergyNext]_energyVars

-----------------------------------------------------------------------------
\* Accounts and reservations are well formed; an account holds no debt.
EnergyTypeOK ==
    /\ accounts \in [Key -> Account \cup {NoAccount}]
    /\ reservations \in [ReservationId -> Reservation \cup {Unused}]
    /\ granted \in [Key -> Int]
    /\ closes \in Nat

\* No energy is minted or lost while a mission runs: every account splits
\* exactly what allocate granted it into available, reserved and spent.
EnergyConserved ==
    \A k \in Key : accounts[k].held =>
        accounts[k].available + accounts[k].reserved + accounts[k].spent = granted[k]

\* No account is overdrawn, whatever the order of reservations and late
\* settlements.
NoOverdraft ==
    \A k \in Key : accounts[k].held =>
        /\ accounts[k].available >= 0
        /\ accounts[k].reserved >= 0
        /\ accounts[k].spent >= 0

\* What an account holds in reserve is exactly its open reservations, also
\* after the mission was closed and allocated to again under the same key.
ReserveIsOpenReservations ==
    \A k \in Key : accounts[k].held => accounts[k].reserved = AmountOf(OpenOn(k))

\* An open reservation always has its account, so neither a late
\* settleReservation nor the loop of closeMission can throw half way.
OpenHasAccount ==
    \A r \in ReservationId :
        reservations[r].status = "open" => accounts[reservations[r].key].held

\* closeMission hands back everything that was not spent.
CloseRefundsReserves ==
    \A s \in snapshots :
        /\ s.account.reserved = 0
        /\ s.account.available + s.account.spent = s.granted

\* The books balance in every state: no energy is minted, lost or overdrawn, what
\* is held back is exactly what is still open, everything open still has its
\* account, and a closing hands back all that was not spent, in any order of
\* late settlements, closings and new grants.  (energyLedger.ts:40-121)
BooksBalance ==
    /\ EnergyTypeOK
    /\ EnergyConserved
    /\ NoOverdraft
    /\ ReserveIsOpenReservations
    /\ OpenHasAccount
    /\ CloseRefundsReserves
=============================================================================
