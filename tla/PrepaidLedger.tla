--------------------------- MODULE PrepaidLedger ---------------------------
(***************************************************************************)
(* What the billing contract promises about money, without saying how it   *)
(* keeps its books.  Every unit of the token outside the issuer is in one  *)
(* of four places: an account's wallet, a device's prepaid escrow, what an *)
(* operator is owed, or the surplus somebody gave to the contract unasked. *)
(* Units move from wallet to escrow, from escrow to owed and from owed to  *)
(* wallet; nothing else ever touches escrow or owed.  The surplus is never *)
(* spent; only the issuer of a revocable token takes from it, and may take *)
(* it below zero: what is then missing is missing from custody, and the    *)
(* books still say the same.                                               *)
(***************************************************************************)
EXTENDS Integers

CONSTANT Address

VARIABLES wallet, escrow, owed, surplus, revocable

ledger == <<wallet, escrow, owed, surplus, revocable>>

Init ==
    /\ wallet \in [Address -> Nat]
    /\ escrow = [a \in Address |-> 0]
    /\ owed = [a \in Address |-> 0]
    /\ surplus = 0
    /\ revocable \in BOOLEAN

\* The device prepays.
Prepay(d, n) ==
    /\ wallet' = [wallet EXCEPT ![d] = @ - n]
    /\ escrow' = [escrow EXCEPT ![d] = @ + n]
    /\ UNCHANGED <<owed, surplus, revocable>>

\* A reading of device d costs n, earned by operator o.
Charge(d, o, n) ==
    /\ escrow' = [escrow EXCEPT ![d] = @ - n]
    /\ owed' = [owed EXCEPT ![o] = @ + n]
    /\ UNCHANGED <<wallet, surplus, revocable>>

\* The operator is paid some of what it is owed.
PayOut(o, n) ==
    /\ owed' = [owed EXCEPT ![o] = @ - n]
    /\ wallet' = [wallet EXCEPT ![o] = @ + n]
    /\ UNCHANGED <<escrow, surplus, revocable>>

\* Accounts pay each other.
Pay(a, b, n) ==
    /\ a # b
    /\ wallet' = [wallet EXCEPT ![a] = @ - n, ![b] = @ + n]
    /\ UNCHANGED <<escrow, owed, surplus, revocable>>

\* An account pays the contract outside deposit_funds.
Donate(a, n) ==
    /\ wallet' = [wallet EXCEPT ![a] = @ - n]
    /\ surplus' = surplus + n
    /\ UNCHANGED <<escrow, owed, revocable>>

\* The issuer takes from custody.
Revoke ==
    /\ revocable
    /\ surplus' < surplus
    /\ UNCHANGED <<wallet, escrow, owed, revocable>>

Next ==
    \/ \E a \in Address :
          \/ \E o \in Address, n \in 0..escrow[a] : Charge(a, o, n)
          \/ \E n \in 1..owed[a] : PayOut(a, n)
          \/ \E n \in 1..wallet[a] : Prepay(a, n) \/ Donate(a, n)
          \/ \E b \in Address, n \in 1..wallet[a] : Pay(a, b, n)
    \/ Revoke

Spec == Init /\ [][Next]_ledger

============================================================================
