----------------------- MODULE BillingContractProofs -----------------------
(***************************************************************************)
(* The billing contract, for every set of accounts, keys and arguments and *)
(* for every width of the integers: type correctness and solvency, what    *)
(* its events say of its books, revenue, consent, and that it implements   *)
(* PrepaidLedger and MeterLog.                                             *)
(***************************************************************************)
EXTENDS BillingContract, TallyProofs, SequenceTheorems

\* TotalPut for maps from accounts to amounts.
LEMMA AmountPut ==
  ASSUME NEW f, DOMAIN f \subseteq Address, f \in [DOMAIN f -> 0..MaxI128],
         NEW k \in Address, NEW v \in 0..MaxI128
  PROVE  /\ Put(f, k, v) \in [DOMAIN f \cup {k} -> 0..MaxI128]
         /\ Total(f) \in Nat
         /\ Total(Put(f, k, v)) \in Nat
         /\ Total(Put(f, k, v)) = Total(f) - GetOr(f, k, 0) + v
PROOF
<1>1. IsFiniteSet(DOMAIN f) /\ MaxI128 \in Nat
  BY FS_Subset, ContractAssumption
<1>2. IsFiniteSet(Units(f)) /\ Total(f) \in Nat
  BY <1>1, UnitsFinite
<1>3. v \in Nat /\ \A x \in DOMAIN f : f[x] \in Nat
  BY <1>1
<1>4. /\ Total(Put(f, k, v)) \in Nat
      /\ Total(Put(f, k, v)) = Total(f) - GetOr(f, k, 0) + v
  BY <1>2, <1>3, TotalPut
<1> QED
  BY <1>2, <1>4 DEF Put

\* What an operator may withdraw is a natural number, also before the
\* operator's entry exists.
LEMMA WithdrawableType ==
  ASSUME BooksInv, NEW o \in Address
  PROVE  /\ read_operator_balance(o) \in OperatorBalance
         /\ read_operator_balance(o).total_settled
              <= read_operator_balance(o).total_earned
         /\ Withdrawable(o) \in 0..MaxI128
         /\ Withdrawable(o) = GetOr(Owed, o, 0)
PROOF
<1>1. CASE o \in DOMAIN operator_balance
  <2>1. read_operator_balance(o) = operator_balance[o]
    BY <1>1 DEF read_operator_balance, GetOr
  <2>2. /\ operator_balance[o] \in OperatorBalance
        /\ operator_balance[o].total_settled <= operator_balance[o].total_earned
    BY <1>1 DEF BooksInv, TypeOK
  <2>3. Withdrawable(o) \in 0..MaxI128
    BY <2>1, <2>2, ContractAssumption DEF Withdrawable, OperatorBalance
  <2>4. GetOr(Owed, o, 0) = Withdrawable(o)
    BY <1>1 DEF GetOr, Owed
  <2> QED
    BY <2>1, <2>2, <2>3, <2>4
<1>2. CASE o \notin DOMAIN operator_balance
  <2>1. read_operator_balance(o) = NoEarnings
    BY <1>2 DEF read_operator_balance, GetOr
  <2>2. GetOr(Owed, o, 0) = 0
    BY <1>2 DEF GetOr, Owed
  <2> QED
    BY <2>1, <2>2, ContractAssumption DEF NoEarnings, OperatorBalance, Withdrawable
<1> QED
  BY <1>1, <1>2

\* The totals in Solvency are natural numbers.
LEMMA TotalsType ==
  ASSUME BooksInv
  PROVE  /\ IsFiniteSet(DOMAIN registration)
         /\ IsFiniteSet(DOMAIN operator_balance)
         /\ deposit \in [DOMAIN registration -> 0..MaxI128]
         /\ Owed \in [DOMAIN operator_balance -> 0..MaxI128]
         /\ Total(deposit) \in Nat
         /\ Total(Owed) \in Nat
PROOF
<1>1. /\ IsFiniteSet(DOMAIN registration)
      /\ IsFiniteSet(DOMAIN operator_balance)
  BY FS_Subset, ContractAssumption DEF BooksInv, TypeOK
<1>2. deposit \in [DOMAIN registration -> 0..MaxI128]
  BY DEF BooksInv, TypeOK
<1>3. Owed \in [DOMAIN operator_balance -> 0..MaxI128]
  <2>1. \A o \in DOMAIN operator_balance : Withdrawable(o) \in 0..MaxI128
    BY WithdrawableType DEF BooksInv, TypeOK
  <2> QED
    BY <2>1 DEF Owed
<1> QED
  BY <1>1, <1>2, <1>3, UnitsFinite, ContractAssumption

\* Writing an operator's entry moves what is owed in total by the change in
\* what that operator may withdraw.
LEMMA OwedPut ==
  ASSUME BooksInv, NEW o \in Address, NEW e \in OperatorBalance,
         e.total_settled <= e.total_earned,
         operator_balance' = Put(operator_balance, o, e)
  PROVE  Total(Owed)' = Total(Owed) - Withdrawable(o)
                          + (e.total_earned - e.total_settled)
PROOF
<1> DEFINE v == e.total_earned - e.total_settled
<1>1. v \in 0..MaxI128
  BY ContractAssumption DEF OperatorBalance
<1>2. Owed' = Put(Owed, o, v)
  <2>1. DOMAIN operator_balance' = DOMAIN operator_balance \cup {o}
    BY DEF Put
  <2>2. \A x \in DOMAIN operator_balance' :
           read_operator_balance(x)' = IF x = o THEN e ELSE operator_balance[x]
    BY DEF read_operator_balance, GetOr, Put
  <2>3. \A x \in DOMAIN operator_balance : Withdrawable(x) =
            operator_balance[x].total_earned - operator_balance[x].total_settled
    BY DEF Withdrawable, read_operator_balance, GetOr
  <2>4. Owed' = [x \in DOMAIN operator_balance \cup {o} |->
                   IF x = o THEN v ELSE Withdrawable(x)]
    BY <2>1, <2>2, <2>3 DEF Owed, Withdrawable
  <2> QED
    BY <2>4 DEF Put, Owed
<1>3. Total(Put(Owed, o, v)) = Total(Owed) - GetOr(Owed, o, 0) + v
  <2>1. /\ DOMAIN Owed \subseteq Address
        /\ Owed \in [DOMAIN Owed -> 0..MaxI128]
    BY TotalsType DEF BooksInv, TypeOK
  <2> HIDE DEF v
  <2> QED
    BY <1>1, <2>1, AmountPut
<1>4. Total(Owed)' = Total(Owed')
  BY DEF Total, Units
<1> QED
  BY <1>2, <1>3, <1>4, WithdrawableType

\* Writing a device's escrow moves the total of all escrows by the change.
LEMMA DepositPut ==
  ASSUME BooksInv, NEW d \in Address, NEW v \in 0..MaxI128,
         deposit' = Put(deposit, d, v)
  PROVE  /\ deposit' \in [DOMAIN registration \cup {d} -> 0..MaxI128]
         /\ Total(deposit') = Total(deposit) - GetOr(deposit, d, 0) + v
PROOF
<1>1. /\ DOMAIN deposit = DOMAIN registration
      /\ DOMAIN deposit \subseteq Address
      /\ deposit \in [DOMAIN deposit -> 0..MaxI128]
  BY DEF BooksInv, TypeOK
<1> QED
  BY <1>1, AmountPut

\* A transfer moves the token between the two accounts only.
LEMMA TransferType ==
  ASSUME BooksInv, NEW from \in Address \cup {Contract},
         NEW to \in Address \cup {Contract}, from # to,
         NEW amount \in Nat, CanTransfer(from, to, amount)
  PROVE  /\ Transferred(from, to, amount) \in [Address \cup {Contract} -> 0..MaxI128]
         /\ Transferred(from, to, amount)[from] = balance[from] - amount
         /\ Transferred(from, to, amount)[to] = balance[to] + amount
         /\ \A a \in Address \cup {Contract} : a # from /\ a # to =>
               Transferred(from, to, amount)[a] = balance[a]
PROOF
<1>1. balance \in [Address \cup {Contract} -> 0..MaxI128] /\ MaxI128 \in Nat
  BY ContractAssumption DEF BooksInv, TypeOK
<1>2. /\ balance[from] \in 0..MaxI128 /\ balance[to] \in 0..MaxI128
      /\ balance[from] - amount \in 0..MaxI128
      /\ balance[to] + amount \in 0..MaxI128
  BY <1>1 DEF CanTransfer
<1> QED
  BY <1>1, <1>2 DEF Transferred

\* A call that fails changes nothing but its result.
LEMMA FailedCall ==
  ASSUME BooksInv,
         result' \in [call: Entrypoint, outcome: Outcome, auth: SUBSET Address],
         UNCHANGED <<token, registration, tariff, deposit, reading,
                     operator_balance, balance, meter>>
  PROVE  BooksInv' /\ Surplus' = Surplus
PROOF
<1>1. BooksInv'
  BY DEF BooksInv, TypeOK
<1>2. Surplus' = Surplus
  BY DEF Surplus, Owed, Withdrawable, read_operator_balance, Total, Units, GetOr
<1> QED
  BY <1>1, <1>2

----------------------------------------------------------------------------
(* One lemma per entrypoint: the invariant is kept, and custody and books  *)
(* move together.                                                          *)

\* register_device: the new device's escrow is empty.
LEMMA RegisterStep ==
  ASSUME BooksInv, NEW d \in Address, NEW pubkey \in PubKey, NEW op \in Address,
         NEW rate \in RateArg, NEW auth \in SUBSET Address,
         RegisterDevice(d, pubkey, op, rate, auth)
  PROVE  BooksInv' /\ Surplus' = Surplus
PROOF
<1> DEFINE err == RegisterError(d, op, rate, auth)
<1>1. result' \in [call: Entrypoint, outcome: Outcome, auth: SUBSET Address]
  BY DEF RegisterDevice, Returned, RegisterError, Entrypoint, Outcome
<1>2. CASE err # "Ok"
  <2>1. UNCHANGED <<token, registration, tariff, deposit, reading,
                    operator_balance, balance, meter>>
    BY <1>2 DEF RegisterDevice, store
  <2> QED
    BY <1>1, <2>1, FailedCall
<1>3. CASE err = "Ok"
  <2> DEFINE reg == [operator |-> op, status |-> "Active", device_pubkey |-> pubkey]
  <2>1. /\ registration' = Put(registration, d, reg)
        /\ tariff' = Put(tariff, d, rate)
        /\ deposit' = Put(deposit, d, 0)
        /\ UNCHANGED <<token, reading, operator_balance, balance, meter>>
    BY <1>3 DEF RegisterDevice
  <2>2. /\ rate \in 0..MaxI128
        /\ d \notin DOMAIN registration
    BY <1>3, ContractAssumption DEF RegisterError
  <2>3. reg \in Registration
    BY DEF Registration, Status
  <2> HIDE DEF reg
  <2>4. DOMAIN registration' = DOMAIN registration \cup {d}
    BY <2>1 DEF Put
  <2>5. registration' \in [DOMAIN registration' -> Registration]
    BY <2>1, <2>3, <2>4 DEF Put, BooksInv, TypeOK
  <2>6. tariff' \in [DOMAIN registration' -> 0..MaxI128]
    BY <2>1, <2>2, <2>4 DEF Put, BooksInv, TypeOK
  <2>7. 0 \in 0..MaxI128
    BY ContractAssumption
  <2>8. /\ deposit' \in [DOMAIN registration' -> 0..MaxI128]
        /\ Total(deposit') = Total(deposit) - GetOr(deposit, d, 0) + 0
    BY <2>1, <2>4, <2>7, DepositPut
  <2>9. TypeOK'
    BY <1>1, <2>1, <2>4, <2>5, <2>6, <2>8 DEF BooksInv, TypeOK
  <2>10. \A x \in DOMAIN registration' : registration'[x].status = "Active"
    BY <2>1, <2>4 DEF Put, BooksInv, reg
  <2>11. BooksInv'
    BY <2>1, <2>9, <2>10 DEF BooksInv
  <2>12. GetOr(deposit, d, 0) = 0
    BY <2>2, TotalsType DEF GetOr
  <2>13. Total(deposit') = Total(deposit)
    BY <2>8, <2>12, TotalsType
  <2>14. Owed' = Owed
    BY <2>1 DEF Owed, Withdrawable, read_operator_balance, GetOr
  <2> QED
    BY <2>1, <2>11, <2>13, <2>14 DEF Surplus, Total, Units
<1> QED
  BY <1>2, <1>3

\* deposit_funds: custody and the device's escrow grow by the same amount.
LEMMA DepositStep ==
  ASSUME BooksInv, NEW d \in Address, NEW amount \in AmountArg,
         NEW auth \in SUBSET Address, DepositFunds(d, amount, auth)
  PROVE  BooksInv' /\ Surplus' = Surplus
PROOF
<1> DEFINE err == DepositError(d, amount, auth)
           escrow == GetOr(deposit, d, 0)
<1>1. result' \in [call: Entrypoint, outcome: Outcome, auth: SUBSET Address]
  BY DEF DepositFunds, Returned, DepositError, Entrypoint, Outcome
<1>2. CASE err # "Ok"
  BY <1>1, <1>2, FailedCall DEF DepositFunds
<1>3. CASE err = "Ok"
  <2>1. /\ balance' = Transferred(d, Contract, amount)
        /\ deposit' = Put(deposit, d, escrow + amount)
        /\ UNCHANGED <<token, registration, tariff, reading, operator_balance,
                       meter>>
    BY <1>3 DEF DepositFunds
  <2>2. /\ d \in DOMAIN registration
        /\ ~(amount <= 0)
        /\ ~(escrow + amount > MaxI128)
        /\ CanTransfer(d, Contract, amount)
    BY <1>3 DEF DepositError
  <2>3. amount \in Nat /\ MaxI128 \in Nat
    BY <2>2, ContractAssumption
  <2>4. escrow \in 0..MaxI128
    BY <2>2, TotalsType DEF GetOr
  <2>5. escrow + amount \in 0..MaxI128
    BY <2>2, <2>3, <2>4
  <2>6. /\ deposit' \in [DOMAIN registration \cup {d} -> 0..MaxI128]
        /\ Total(deposit') = Total(deposit) - escrow + (escrow + amount)
    BY <2>1, <2>5, DepositPut
  <2>7. deposit' \in [DOMAIN registration -> 0..MaxI128]
    <3>1. DOMAIN registration \cup {d} = DOMAIN registration
      BY <2>2
    <3> QED
      BY <2>6, <3>1
  <2>8. /\ balance' \in [Address \cup {Contract} -> 0..MaxI128]
        /\ balance'[Contract] = balance[Contract] + amount
    <3>1. /\ d \in Address \cup {Contract}
          /\ Contract \in Address \cup {Contract}
          /\ d # Contract
      BY ContractAssumption
    <3> QED
      BY <2>1, <2>2, <2>3, <3>1, TransferType
  <2>9. BooksInv'
    BY <1>1, <2>1, <2>7, <2>8 DEF BooksInv, TypeOK
  <2>10. Owed' = Owed
    BY <2>1 DEF Owed, Withdrawable, read_operator_balance, GetOr
  <2>11. Surplus' = balance'[Contract] - Total(deposit') - Total(Owed)
    BY <2>10 DEF Surplus, Total, Units
  <2>12. balance[Contract] \in Nat
    BY DEF BooksInv, TypeOK
  <2>13. Surplus' = Surplus
    BY <2>3, <2>4, <2>6, <2>8, <2>11, <2>12, TotalsType DEF Surplus
  <2> QED
    BY <2>9, <2>13
<1> QED
  BY <1>2, <1>3

\* The conditions under which a reading is accepted, and the amounts involved.
LEMMA AcceptedReading ==
  ASSUME BooksInv, NEW d \in Address, NEW delta \in UnitArg, NEW seq \in SeqArg,
         NEW ts \in Timestamp, NEW sig \in Signature,
         SubmitError(d, delta, seq, ts, sig) = "Ok"
  PROVE  /\ d \in DOMAIN registration
         /\ registration[d].operator \in Address
         /\ seq = ReadingOf(d).last_seq + 1
         /\ seq \in 0..MaxU64
         /\ delta \in 1..MaxU64
         /\ ReadingOf(d).cumulative_units + delta \in 0..MaxU64
         /\ deposit[d] \in 0..MaxI128
         /\ TotalCost(d, delta) \in 0..deposit[d]
         /\ read_operator_balance(registration[d].operator).total_earned
               + TotalCost(d, delta) \in 0..MaxI128
PROOF
<1>1. /\ d \in DOMAIN registration
      /\ delta # 0
      /\ seq = ReadingOf(d).last_seq + 1
      /\ ~(TotalCost(d, delta) > deposit[d])
      /\ ~(read_operator_balance(registration[d].operator).total_earned
              + TotalCost(d, delta) > MaxI128)
      /\ ~(ReadingOf(d).cumulative_units + delta > MaxU64)
  BY DEF SubmitError, NextSequence
<1>2. MaxI128 \in Nat /\ MaxU64 \in Nat /\ delta \in 0..MaxU64 /\ seq \in 0..MaxU64
  BY ContractAssumption
<1>3. /\ registration[d].operator \in Address
      /\ tariff[d] \in 0..MaxI128
      /\ deposit[d] \in 0..MaxI128
  BY <1>1 DEF BooksInv, TypeOK, Registration
<1>4. ReadingOf(d) \in ReadingCounter
  BY <1>2 DEF BooksInv, TypeOK, ReadingOf, GetOr, NoReading, ReadingCounter
<1>5. ReadingOf(d).cumulative_units \in Nat
  BY <1>2, <1>4 DEF ReadingCounter
<1>6. read_operator_balance(registration[d].operator).total_earned \in Nat
  BY <1>2, <1>3, WithdrawableType DEF OperatorBalance
<1>7. TotalCost(d, delta) \in Nat
  BY <1>2, <1>3 DEF TotalCost
<1> QED
  BY <1>1, <1>2, <1>3, <1>5, <1>6, <1>7

\* submit_reading: what the escrow loses the operator earns.
LEMMA SubmitStep ==
  ASSUME BooksInv, NEW d \in Address, NEW delta \in UnitArg, NEW seq \in SeqArg,
         NEW ts \in Timestamp, NEW sig \in Signature,
         SubmitReading(d, delta, seq, ts, sig)
  PROVE  BooksInv' /\ Surplus' = Surplus
PROOF
<1> DEFINE err == SubmitError(d, delta, seq, ts, sig)
<1>1. result' \in [call: Entrypoint, outcome: Outcome, auth: SUBSET Address]
  BY DEF SubmitReading, Returned, SubmitError, Entrypoint, Outcome
<1>2. CASE err # "Ok"
  BY <1>1, <1>2, FailedCall DEF SubmitReading, store
<1>3. CASE err = "Ok"
  <2> DEFINE op == registration[d].operator
             cost == TotalCost(d, delta)
             old == read_operator_balance(op)
             new == [old EXCEPT !.total_earned = @ + cost]
             counter == [last_seq |-> seq,
                         cumulative_units |-> ReadingOf(d).cumulative_units + delta]
             event == [device |-> d, delta_units |-> delta, total_cost |-> cost,
                       balance_after |-> deposit[d] - cost,
                       seq |-> seq, sig |-> sig]
  <2>1. /\ deposit' = Put(deposit, d, deposit[d] - cost)
        /\ operator_balance' = Put(operator_balance, op, new)
        /\ reading' = Put(reading, d, counter)
        /\ meter' = Append(meter, event)
        /\ UNCHANGED <<token, registration, tariff, balance>>
    BY <1>3 DEF SubmitReading, BillReading, Credited, Counted, MeterData
  <2>2. /\ d \in DOMAIN registration
        /\ op \in Address
        /\ seq \in 0..MaxU64
        /\ delta \in 1..MaxU64
        /\ ReadingOf(d).cumulative_units + delta \in 0..MaxU64
        /\ deposit[d] \in 0..MaxI128
        /\ cost \in 0..deposit[d]
        /\ old.total_earned + cost \in 0..MaxI128
    BY <1>3, AcceptedReading
  <2>3. MaxI128 \in Nat /\ MaxU64 \in Nat
    BY ContractAssumption
  <2>4. /\ old \in OperatorBalance
        /\ old.total_settled <= old.total_earned
        /\ Withdrawable(op) = old.total_earned - old.total_settled
        /\ Withdrawable(op) \in 0..MaxI128
    <3>1. op \in Address
      BY <2>2
    <3> HIDE DEF op
    <3> QED
      BY <3>1, WithdrawableType DEF Withdrawable
  <2> HIDE DEF op, cost, old
  <2>5. /\ new \in OperatorBalance
        /\ new.total_earned = old.total_earned + cost
        /\ new.total_settled = old.total_settled
        /\ old.total_earned \in Nat /\ old.total_settled \in Nat
    BY <2>2, <2>3, <2>4 DEF OperatorBalance
  <2>6. new.total_settled <= new.total_earned
    BY <2>2, <2>4, <2>5
  <2>7. counter \in ReadingCounter
    BY <2>2 DEF ReadingCounter
  <2>8. event \in MeterEvent
    <3>1. /\ delta \in 0..MaxU64 /\ cost \in 0..MaxI128
          /\ deposit[d] - cost \in 0..MaxI128
      BY <2>2, <2>3
    <3> QED
      BY <2>2, <3>1 DEF MeterEvent
  <2> HIDE DEF new, counter, event
  <2>9. deposit[d] - cost \in 0..MaxI128
    BY <2>2, <2>3
  <2>10. GetOr(deposit, d, 0) = deposit[d]
    BY <2>2, TotalsType DEF GetOr
  <2>11. /\ deposit' \in [DOMAIN registration \cup {d} -> 0..MaxI128]
         /\ Total(deposit') = Total(deposit) - deposit[d] + (deposit[d] - cost)
    BY <2>1, <2>9, <2>10, DepositPut
  <2>12. deposit' \in [DOMAIN registration' -> 0..MaxI128]
    <3>1. DOMAIN registration \cup {d} = DOMAIN registration'
      BY <2>1, <2>2
    <3> QED
      BY <2>11, <3>1
  <2>13. /\ DOMAIN operator_balance' \subseteq Address
         /\ operator_balance' \in [DOMAIN operator_balance' -> OperatorBalance]
         /\ \A o \in DOMAIN operator_balance' :
               operator_balance'[o].total_settled
                 <= operator_balance'[o].total_earned
    BY <2>1, <2>2, <2>5, <2>6 DEF Put, BooksInv, TypeOK
  <2>14. /\ DOMAIN reading' \subseteq DOMAIN registration'
         /\ reading' \in [DOMAIN reading' -> ReadingCounter]
    BY <2>1, <2>2, <2>7 DEF Put, BooksInv, TypeOK
  <2>15. meter' \in Seq(MeterEvent)
    BY <2>1, <2>8 DEF BooksInv, TypeOK
  <2>16. BooksInv'
    BY <1>1, <2>1, <2>12, <2>13, <2>14, <2>15 DEF BooksInv, TypeOK
  <2>17. Total(Owed)' = Total(Owed) - Withdrawable(op)
                          + (new.total_earned - new.total_settled)
    BY <2>1, <2>2, <2>5, <2>6, OwedPut
  <2>18. Surplus' = balance[Contract] - Total(deposit') - Total(Owed)'
    BY <2>1 DEF Surplus, Total, Units
  <2>19. balance[Contract] \in Nat
    BY DEF BooksInv, TypeOK
  <2>20. cost \in Nat /\ deposit[d] \in Nat
    BY <2>2, <2>3
  <2>21. Total(deposit') = Total(deposit) - cost
    BY <2>11, <2>20, TotalsType
  <2>22. Total(Owed)' = Total(Owed) + cost
    BY <2>4, <2>5, <2>17, <2>20, TotalsType
  <2>23. Surplus' = Surplus
    BY <2>18, <2>19, <2>20, <2>21, <2>22, TotalsType DEF Surplus
  <2> QED
    BY <2>16, <2>23
<1> QED
  BY <1>2, <1>3

\* settle_balance: custody and what is owed shrink by the same amount.
LEMMA SettleStep ==
  ASSUME BooksInv, NEW o \in Address, NEW amount \in AmountArg,
         NEW auth \in SUBSET Address, SettleBalance(o, amount, auth)
  PROVE  BooksInv' /\ Surplus' = Surplus
PROOF
<1> DEFINE err == SettleError(o, amount, auth)
<1>1. result' \in [call: Entrypoint, outcome: Outcome, auth: SUBSET Address]
  BY DEF SettleBalance, Returned, SettleError, Entrypoint, Outcome
<1>2. CASE err # "Ok"
  BY <1>1, <1>2, FailedCall DEF SettleBalance
<1>3. CASE err = "Ok"
  <2> DEFINE old == read_operator_balance(o)
             new == [old EXCEPT !.total_settled = @ + amount]
  <2>1. /\ balance' = Transferred(Contract, o, amount)
        /\ operator_balance' = Put(operator_balance, o, new)
        /\ UNCHANGED <<token, registration, tariff, deposit, reading, meter>>
    BY <1>3 DEF SettleBalance, Settled
  <2>2. /\ ~(amount <= 0)
        /\ ~(amount > Withdrawable(o))
        /\ CanTransfer(Contract, o, amount)
    BY <1>3 DEF SettleError
  <2>3. amount \in Nat /\ MaxI128 \in Nat
    BY <2>2, ContractAssumption
  <2>4. /\ old \in OperatorBalance
        /\ Withdrawable(o) = old.total_earned - old.total_settled
        /\ Withdrawable(o) \in 0..MaxI128
    BY WithdrawableType DEF Withdrawable
  <2> HIDE DEF old
  <2>5. /\ old.total_earned \in 0..MaxI128 /\ old.total_settled \in 0..MaxI128
        /\ old.total_settled + amount <= old.total_earned
        /\ old.total_settled + amount \in 0..MaxI128
    <3>1. old.total_earned \in 0..MaxI128 /\ old.total_settled \in 0..MaxI128
      BY <2>4 DEF OperatorBalance
    <3> QED
      BY <2>2, <2>3, <2>4, <3>1
  <2>6. /\ new \in OperatorBalance
        /\ new.total_earned = old.total_earned
        /\ new.total_settled = old.total_settled + amount
    BY <2>4, <2>5 DEF OperatorBalance
  <2>7. new.total_settled <= new.total_earned
    BY <2>5, <2>6
  <2> HIDE DEF new
  <2>8. /\ balance' \in [Address \cup {Contract} -> 0..MaxI128]
        /\ balance'[Contract] = balance[Contract] - amount
    <3>1. /\ o \in Address \cup {Contract}
          /\ Contract \in Address \cup {Contract}
          /\ o # Contract
      BY ContractAssumption
    <3> QED
      BY <2>1, <2>2, <2>3, <3>1, TransferType
  <2>9. /\ DOMAIN operator_balance' \subseteq Address
        /\ operator_balance' \in [DOMAIN operator_balance' -> OperatorBalance]
        /\ \A x \in DOMAIN operator_balance' :
              operator_balance'[x].total_settled
                <= operator_balance'[x].total_earned
    BY <2>1, <2>6, <2>7 DEF Put, BooksInv, TypeOK
  <2>10. BooksInv'
    BY <1>1, <2>1, <2>8, <2>9 DEF BooksInv, TypeOK
  <2>11. Total(Owed)' = Total(Owed) - Withdrawable(o)
                          + (new.total_earned - new.total_settled)
    BY <2>1, <2>6, <2>7, OwedPut
  <2>12. Surplus' = balance'[Contract] - Total(deposit) - Total(Owed)'
    BY <2>1 DEF Surplus, Total, Units
  <2>13. balance[Contract] \in Nat
    BY DEF BooksInv, TypeOK
  <2>14. Total(Owed)' = Total(Owed) - amount
    BY <2>3, <2>4, <2>5, <2>6, <2>11, TotalsType
  <2>15. Surplus' = Surplus
    BY <2>3, <2>8, <2>12, <2>13, <2>14, TotalsType DEF Surplus
  <2> QED
    BY <2>10, <2>15
<1> QED
  BY <1>2, <1>3

\* Payments among accounts, and to the contract, leave the books alone.
LEMMA TransferStep ==
  ASSUME BooksInv, NEW from \in Address, NEW to \in Address \cup {Contract},
         NEW amount \in AmountArg, TokenTransfer(from, to, amount)
  PROVE  /\ BooksInv'
         /\ to = Contract => Surplus' = Surplus + amount
         /\ to # Contract => Surplus' = Surplus
PROOF
<1>1. /\ from # to /\ amount > 0 /\ CanTransfer(from, to, amount)
      /\ balance' = Transferred(from, to, amount)
      /\ result' = Returned("none", "Ok", {from})
      /\ UNCHANGED <<token, registration, tariff, deposit, reading,
                     operator_balance, meter>>
  BY DEF TokenTransfer, store
<1>2. amount \in Nat
  BY <1>1, ContractAssumption
<1>3. from \in Address \cup {Contract} /\ from # Contract
      /\ Contract \in Address \cup {Contract}
  BY ContractAssumption
<1>4. /\ balance' \in [Address \cup {Contract} -> 0..MaxI128]
      /\ to = Contract => balance'[Contract] = balance[Contract] + amount
      /\ to # Contract => balance'[Contract] = balance[Contract]
  <2>0. from # to /\ CanTransfer(from, to, amount)
    BY <1>1
  <2>1. /\ Transferred(from, to, amount) \in [Address \cup {Contract} -> 0..MaxI128]
        /\ Transferred(from, to, amount)[to] = balance[to] + amount
        /\ \A a \in Address \cup {Contract} : a # from /\ a # to =>
              Transferred(from, to, amount)[a] = balance[a]
    BY <1>2, <1>3, <2>0, TransferType
  <2>2. balance' = Transferred(from, to, amount)
    BY <1>1
  <2> QED
    BY <1>3, <2>1, <2>2
<1>5. result' \in [call: Entrypoint, outcome: Outcome, auth: SUBSET Address]
  BY <1>1 DEF Returned, Entrypoint, Outcome
<1>6. BooksInv'
  BY <1>1, <1>4, <1>5 DEF BooksInv, TypeOK
<1>7. Surplus' = balance'[Contract] - Total(deposit) - Total(Owed)
  BY <1>1 DEF Surplus, Owed, Withdrawable, read_operator_balance, GetOr, Total,
              Units
<1>8. balance[Contract] \in Nat
  BY DEF BooksInv, TypeOK
<1> QED
  BY <1>2, <1>4, <1>6, <1>7, <1>8, TotalsType DEF Surplus

\* A clawback takes from custody and from the money supply alike.
LEMMA ClawbackStep ==
  ASSUME BooksInv, NEW amount \in AmountArg, TokenClawback(amount)
  PROVE  /\ BooksInv'
         /\ token = "revocable"
         /\ Total(balance') < Total(balance)
         /\ Surplus' < Surplus
PROOF
<1>1. /\ token = "revocable"
      /\ amount \in 1..balance[Contract]
      /\ balance' = [balance EXCEPT ![Contract] = @ - amount]
      /\ result' = Returned("none", "Ok", {})
      /\ UNCHANGED <<token, registration, tariff, deposit, reading,
                     operator_balance, meter>>
  BY DEF TokenClawback, store
<1>2. /\ balance \in [Address \cup {Contract} -> 0..MaxI128]
      /\ MaxI128 \in Nat
      /\ balance[Contract] \in 0..MaxI128
  BY ContractAssumption DEF BooksInv, TypeOK
<1>3. PICK v \in 0..MaxI128 : v = balance[Contract] - amount
  BY <1>1, <1>2
<1>4. balance' \in [Address \cup {Contract} -> 0..MaxI128]
  BY <1>1, <1>2, <1>3
<1>5. result' \in [call: Entrypoint, outcome: Outcome, auth: SUBSET Address]
  BY <1>1 DEF Returned, Entrypoint, Outcome
<1>6. BooksInv'
  BY <1>1, <1>4, <1>5 DEF BooksInv, TypeOK
<1>7. IsFiniteSet(Address \cup {Contract})
  BY FS_AddElement, ContractAssumption
<1>8. IsFiniteSet(Units(balance)) /\ Total(balance) \in Nat
  BY <1>2, <1>7, UnitsFinite
<1>9. balance' = Put(balance, Contract, v)
  BY <1>1, <1>2, <1>3 DEF Put
<1>10. GetOr(balance, Contract, 0) = balance[Contract]
  BY <1>2 DEF GetOr
<1>11. \A x \in DOMAIN balance : balance[x] \in Nat
  BY <1>2
<1>12. v \in Nat
  BY <1>2
<1>13. Total(balance') = Total(balance) - balance[Contract] + v
  BY <1>8, <1>9, <1>10, <1>11, <1>12, TotalPut
<1>14. Total(balance') < Total(balance)
  BY <1>1, <1>2, <1>3, <1>8, <1>13
<1>15. Surplus' = balance'[Contract] - Total(deposit) - Total(Owed)
  BY <1>1 DEF Surplus, Owed, Withdrawable, read_operator_balance, GetOr, Total,
              Units
<1>16. balance'[Contract] = v /\ v < balance[Contract]
  BY <1>1, <1>2, <1>3
<1>17. Surplus' < Surplus
  BY <1>2, <1>15, <1>16, TotalsType DEF Surplus
<1> QED
  BY <1>1, <1>6, <1>14, <1>17

----------------------------------------------------------------------------

\* The deployment owes nothing and holds nothing.
LEMMA InitBooks == Init => BooksInv /\ Surplus = 0
PROOF
<1> SUFFICES ASSUME Init PROVE BooksInv /\ Surplus = 0
  OBVIOUS
<1>1. /\ registration = << >> /\ tariff = << >> /\ deposit = << >>
      /\ reading = << >> /\ operator_balance = << >> /\ meter = << >>
      /\ token \in {"plain", "revocable"}
      /\ balance = [a \in Address \cup {Contract} |->
                      IF a = Contract THEN 0 ELSE Mint]
      /\ result = [call |-> "none", outcome |-> "Ok", auth |-> {}]
  BY ContractAssumption DEF Init
<1>2. \A f : f = << >> => DOMAIN f = {} /\ \A T : f \in [{} -> T]
  OBVIOUS
<1>3. balance \in [Address \cup {Contract} -> 0..MaxI128]
  BY <1>1, ContractAssumption
<1>4. meter \in Seq(MeterEvent)
  BY <1>1
<1>5. result \in [call: Entrypoint, outcome: Outcome, auth: SUBSET Address]
  BY <1>1 DEF Entrypoint, Outcome
<1>6. BooksInv
  BY <1>1, <1>2, <1>3, <1>4, <1>5 DEF BooksInv, TypeOK
<1>7. \A f : DOMAIN f = {} => Total(f) = 0
  <2> SUFFICES ASSUME NEW f, DOMAIN f = {} PROVE Total(f) = 0
    OBVIOUS
  <2>1. Units(f) = {}
    BY UnitsMember
  <2> QED
    BY <2>1, FS_EmptySet DEF Total
<1>8. DOMAIN deposit = {} /\ DOMAIN Owed = {}
  BY <1>1, <1>2 DEF Owed
<1>9. balance[Contract] = 0
  BY <1>1
<1> QED
  BY <1>6, <1>7, <1>8, <1>9 DEF Surplus

\* The surplus is a number, negative after a clawback.
LEMMA SurplusType == BooksInv => Surplus \in Int
BY TotalsType DEF Surplus, BooksInv, TypeOK

\* Every step keeps the invariant, and only a clawback lowers the surplus.
LEMMA NextBooks ==
  ASSUME BooksInv, [Next]_vars
  PROVE  /\ BooksInv'
         /\ \/ Surplus' >= Surplus
            \/ token = "revocable" /\ Total(balance') < Total(balance)
PROOF
<1>0. Surplus \in Int
  BY SurplusType
<1>1. CASE UNCHANGED vars
  BY <1>0, <1>1, FailedCall DEF vars, BooksInv, TypeOK
<1>2. CASE Next
  <2>1. ASSUME NEW from \in Address, NEW to \in Address \cup {Contract},
               NEW amount \in AmountArg, TokenTransfer(from, to, amount)
        PROVE  BooksInv' /\ Surplus' >= Surplus
    <3>1. amount > 0 /\ amount \in Int
      BY <2>1, ContractAssumption DEF TokenTransfer
    <3> QED
      BY <1>0, <2>1, <3>1, TransferStep
  <2> QED
    BY <1>0, <1>2, <2>1, RegisterStep, DepositStep, SubmitStep, SettleStep,
       ClawbackStep DEF Next
<1> QED
  BY <1>1, <1>2

\* Type correctness of the contract's storage, of the token's ledger and of
\* the event log (storage.rs, types.rs).
THEOREM ContractTypes == Spec => []TypeOK
PROOF
<1>1. BooksInv => TypeOK
  BY DEF BooksInv
<1>2. BooksInv /\ [Next]_vars => BooksInv'
  BY NextBooks
<1> QED
  BY <1>1, <1>2, InitBooks, PTL DEF Spec

\* The token is chosen at deployment and never replaced.
LEMMA TokenFixed == [Next]_vars => token' = token
BY DEF Next, vars, store, RegisterDevice, DepositFunds, SubmitReading,
       BillReading, SettleBalance, TokenTransfer, TokenClawback

\* Solvency: with a token that is not revocable, custody covers every escrow
\* and everything owed to operators, whatever the calls, amounts and rates,
\* and at every integer width (lib.rs deposit_funds, submit_reading,
\* settle_balance).
THEOREM ContractSolvent == Spec => []Solvency
PROOF
<1> DEFINE Covered == token = "plain" => Surplus >= 0
<1>0. BooksInv' => (Surplus \in Int)'
  BY SurplusType, PTL
<1>1. BooksInv /\ Covered => Solvency
  BY TotalsType DEF Surplus, Solvency, BooksInv, TypeOK
<1>2. Init => BooksInv /\ Covered
  BY InitBooks
<1>3. BooksInv /\ Covered /\ [Next]_vars => (BooksInv /\ Covered)'
  <2> SUFFICES ASSUME BooksInv, Covered, [Next]_vars, token' = "plain"
               PROVE  Surplus' >= 0
    BY NextBooks
  <2>0. token = "plain"
    BY TokenFixed
  <2>1. BooksInv' /\ Surplus' >= Surplus
    BY <2>0, NextBooks
  <2>2. Surplus \in Int
    BY SurplusType
  <2>3. Surplus' \in Int
    BY <1>0, <2>1
  <2> QED
    BY <2>0, <2>1, <2>2, <2>3
<1> QED
  BY <1>1, <1>2, <1>3, PTL DEF Spec

\* With an issuer that may take from custody, a gap between custody and books
\* opens in the issuer's own steps and in no other.
THEOREM GapsAreClawbacks == Spec => GapOnlyByClawback
PROOF
<1>0. BooksInv' => (Surplus \in Int)'
  BY SurplusType, PTL
<1>1. BooksInv /\ [Next]_vars => BooksInv'
  BY NextBooks
<1>2. BooksInv /\ [Next]_vars =>
         [Surplus' < Surplus => Total(balance') < Total(balance)]_vars
  <2> SUFFICES ASSUME BooksInv, [Next]_vars, Surplus' < Surplus
               PROVE  Total(balance') < Total(balance)
    OBVIOUS
  <2>1. Surplus' >= Surplus \/ Total(balance') < Total(balance)
    BY NextBooks
  <2>2. BooksInv'
    BY NextBooks
  <2>3. Surplus \in Int /\ Surplus' \in Int
    BY <1>0, <2>2, SurplusType
  <2> QED
    BY <2>1, <2>3
<1> QED
  BY <1>1, <1>2, InitBooks, PTL DEF Spec, GapOnlyByClawback

\* The defensive branches are dead code: in every reachable state
\* NotInitialized, DeviceNotActive, the InvalidRate of submit_reading and the
\* Overflow of settle_balance are never returned (lib.rs:122, 160, 188, 259).
THEOREM DefensiveChecksDead == Spec => []NoImpossibleFailure
PROOF
<1>1. Init => NoImpossibleFailure
  BY DEF Init, NoImpossibleFailure
<1>2. BooksInv /\ NoImpossibleFailure /\ [Next]_vars => NoImpossibleFailure'
  <2> SUFFICES ASSUME BooksInv, NoImpossibleFailure, [Next]_vars
               PROVE  NoImpossibleFailure'
    OBVIOUS
  <2> USE DEF Returned, NoImpossibleFailure
  <2>1. CASE UNCHANGED vars
    BY <2>1 DEF vars
  <2>2. ASSUME NEW d \in Address, NEW pubkey \in PubKey, NEW op \in Address,
               NEW rate \in RateArg, NEW auth \in SUBSET Address,
               RegisterDevice(d, pubkey, op, rate, auth)
        PROVE  NoImpossibleFailure'
    BY <2>2 DEF RegisterDevice, RegisterError
  <2>3. ASSUME NEW d \in Address, NEW amount \in AmountArg,
               NEW auth \in SUBSET Address, DepositFunds(d, amount, auth)
        PROVE  NoImpossibleFailure'
    BY <2>3 DEF DepositFunds, DepositError, BooksInv
  <2>4. ASSUME NEW d \in Address, NEW delta \in UnitArg, NEW seq \in SeqArg,
               NEW ts \in Timestamp, NEW sig \in Signature,
               SubmitReading(d, delta, seq, ts, sig)
        PROVE  NoImpossibleFailure'
    <3> DEFINE err == SubmitError(d, delta, seq, ts, sig)
    <3>1. d \in DOMAIN registration =>
             registration[d].status = "Active" /\ ~(tariff[d] < 0)
      BY ContractAssumption DEF BooksInv, TypeOK
    <3>2. err \notin {"NotInitialized", "DeviceNotActive", "InvalidRate"}
      BY <3>1 DEF SubmitError
    <3>3. result'.call = "submit_reading" /\ result'.outcome = err
      BY <2>4 DEF SubmitReading
    <3> HIDE DEF err
    <3> QED
      BY <3>2, <3>3
  <2>5. ASSUME NEW o \in Address, NEW amount \in AmountArg,
               NEW auth \in SUBSET Address, SettleBalance(o, amount, auth)
        PROVE  NoImpossibleFailure'
    <3> DEFINE err == SettleError(o, amount, auth)
    <3>1. /\ read_operator_balance(o).total_earned \in 0..MaxI128
          /\ read_operator_balance(o).total_settled \in 0..MaxI128
          /\ MaxI128 \in Nat
          /\ amount \in Int
      BY WithdrawableType, ContractAssumption DEF OperatorBalance
    <3>2. ~(amount > Withdrawable(o)) =>
             ~(read_operator_balance(o).total_settled + amount > MaxI128)
      BY <3>1 DEF Withdrawable
    <3>3. err \notin {"NotInitialized", "DeviceNotActive", "Overflow"}
      BY <3>2 DEF SettleError, BooksInv
    <3>4. result'.call = "settle_balance" /\ result'.outcome = err
      BY <2>5 DEF SettleBalance
    <3> HIDE DEF err
    <3> QED
      BY <3>3, <3>4
  <2>6. ASSUME NEW from \in Address, NEW to \in Address \cup {Contract},
               NEW amount \in AmountArg, TokenTransfer(from, to, amount)
        PROVE  NoImpossibleFailure'
    BY <2>6 DEF TokenTransfer
  <2>7. ASSUME NEW amount \in AmountArg, TokenClawback(amount)
        PROVE  NoImpossibleFailure'
    BY <2>7 DEF TokenClawback
  <2> QED
    BY <2>1, <2>2, <2>3, <2>4, <2>5, <2>6, <2>7 DEF Next
<1>3. BooksInv /\ [Next]_vars => BooksInv'
  BY NextBooks
<1> QED
  BY <1>1, <1>2, <1>3, InitBooks, PTL DEF Spec

----------------------------------------------------------------------------
(* The event log.  A step either bills one reading or leaves events and    *)
(* counters alone, shrinks no escrow and earns nobody anything.            *)

\* What a step that bills no reading may do to the records: register a new
\* device, raise an escrow, or settle what was earned before.
QuietStep ==
    /\ UNCHANGED <<reading, meter>>
    /\ DOMAIN registration \subseteq DOMAIN registration'
    /\ \A d \in DOMAIN registration :
          /\ registration'[d] = registration[d]
          /\ tariff'[d] = tariff[d]
          /\ deposit'[d] >= deposit[d]
    /\ \A d \in DOMAIN registration' \ DOMAIN registration : tariff'[d] \in RateArg
    /\ \A o \in Address : read_operator_balance(o)'.total_earned
                            = read_operator_balance(o).total_earned

\* The writes of an accepted reading (lib.rs submit_reading).
BilledStep(d, delta, seq, ts, sig) ==
    /\ SubmitError(d, delta, seq, ts, sig) = "Ok"
    /\ BillReading(d, delta, seq, sig)
    /\ UNCHANGED balance

\* Every step is of one of the two kinds.
LEMMA QuietOrBilled ==
  ASSUME BooksInv, [Next]_vars
  PROVE  \/ QuietStep
         \/ \E d \in Address, delta \in UnitArg, seq \in SeqArg,
               ts \in Timestamp, sig \in Signature :
               BilledStep(d, delta, seq, ts, sig)
PROOF
<1>0. /\ DOMAIN tariff = DOMAIN registration
      /\ DOMAIN deposit = DOMAIN registration
      /\ \A d \in DOMAIN registration : deposit[d] \in 0..MaxI128
  BY DEF BooksInv, TypeOK
<1>b. UNCHANGED operator_balance =>
         \A o : read_operator_balance(o)' = read_operator_balance(o)
  BY DEF read_operator_balance, GetOr
<1>1. UNCHANGED <<registration, tariff, deposit, reading, operator_balance, meter>>
         => QuietStep
  BY <1>0, <1>b DEF QuietStep
<1>2. CASE UNCHANGED vars
  BY <1>1, <1>2 DEF vars
<1>3. ASSUME NEW d \in Address, NEW pubkey \in PubKey, NEW op \in Address,
             NEW rate \in RateArg, NEW auth \in SUBSET Address,
             RegisterDevice(d, pubkey, op, rate, auth)
      PROVE  QuietStep
  <2>1. CASE RegisterError(d, op, rate, auth) # "Ok"
    BY <1>1, <1>3, <2>1 DEF RegisterDevice, store
  <2>2. CASE RegisterError(d, op, rate, auth) = "Ok"
    <3>1. d \notin DOMAIN registration
      BY <2>2 DEF RegisterError
    <3>2. /\ registration' = Put(registration, d,
                                 [operator |-> op, status |-> "Active",
                                  device_pubkey |-> pubkey])
          /\ tariff' = Put(tariff, d, rate)
          /\ deposit' = Put(deposit, d, 0)
          /\ UNCHANGED <<reading, operator_balance, meter>>
      BY <1>3, <2>2 DEF RegisterDevice
    <3> QED
      BY <1>0, <1>b, <3>1, <3>2 DEF QuietStep, Put
  <2> QED
    BY <2>1, <2>2
<1>4. ASSUME NEW d \in Address, NEW amount \in AmountArg,
             NEW auth \in SUBSET Address, DepositFunds(d, amount, auth)
      PROVE  QuietStep
  <2>1. CASE DepositError(d, amount, auth) # "Ok"
    BY <1>1, <1>4, <2>1 DEF DepositFunds
  <2>2. CASE DepositError(d, amount, auth) = "Ok"
    <3>1. d \in DOMAIN registration /\ ~(amount <= 0)
      BY <2>2 DEF DepositError
    <3>2. amount \in Nat
      BY <3>1, ContractAssumption
    <3>3. /\ deposit' = Put(deposit, d, deposit[d] + amount)
          /\ UNCHANGED <<registration, tariff, reading, operator_balance, meter>>
      BY <1>0, <1>4, <2>2, <3>1 DEF DepositFunds, GetOr
    <3>4. \A x \in DOMAIN registration : deposit'[x] >= deposit[x]
      BY <1>0, <3>1, <3>2, <3>3 DEF Put
    <3> QED
      BY <1>0, <1>b, <3>3, <3>4 DEF QuietStep
  <2> QED
    BY <2>1, <2>2
<1>5. ASSUME NEW d \in Address, NEW delta \in UnitArg, NEW seq \in SeqArg,
             NEW ts \in Timestamp, NEW sig \in Signature,
             SubmitReading(d, delta, seq, ts, sig)
      PROVE  QuietStep \/ BilledStep(d, delta, seq, ts, sig)
  BY <1>1, <1>5 DEF SubmitReading, BilledStep, store
<1>6. ASSUME NEW o \in Address, NEW amount \in AmountArg,
             NEW auth \in SUBSET Address, SettleBalance(o, amount, auth)
      PROVE  QuietStep
  <2>1. CASE SettleError(o, amount, auth) # "Ok"
    BY <1>1, <1>6, <2>1 DEF SettleBalance
  <2>2. CASE SettleError(o, amount, auth) = "Ok"
    <3> DEFINE new == Settled(read_operator_balance(o), amount)
    <3>1. /\ operator_balance' = Put(operator_balance, o, new)
          /\ UNCHANGED <<registration, tariff, deposit, reading, meter>>
      BY <1>6, <2>2 DEF SettleBalance
    <3>2. new.total_earned = read_operator_balance(o).total_earned
      BY WithdrawableType DEF Settled, OperatorBalance
    <3>3. \A x : read_operator_balance(x)'
                  = IF x = o THEN new ELSE read_operator_balance(x)
      BY <3>1 DEF read_operator_balance, GetOr, Put
    <3>4. \A x : read_operator_balance(x)'.total_earned
                  = read_operator_balance(x).total_earned
      BY <3>2, <3>3
    <3> QED
      BY <1>0, <3>1, <3>4 DEF QuietStep
  <2> QED
    BY <2>1, <2>2
<1>7. ASSUME NEW from \in Address, NEW to \in Address \cup {Contract},
             NEW amount \in AmountArg, TokenTransfer(from, to, amount)
      PROVE  QuietStep
  BY <1>1, <1>7 DEF TokenTransfer, store
<1>8. ASSUME NEW amount \in AmountArg, TokenClawback(amount)
      PROVE  QuietStep
  BY <1>1, <1>8 DEF TokenClawback, store
<1> QED
  BY <1>2, <1>3, <1>4, <1>5, <1>6, <1>7, <1>8 DEF Next

\* The positions of one device's events, and the numbers found there.
LEMMA EventsType ==
  ASSUME BooksInv, NEW d
  PROVE  /\ DOMAIN meter = 1..Len(meter)
         /\ Len(meter) \in Nat
         /\ \A i \in DOMAIN meter : meter[i] \in MeterEvent
         /\ EventsOf(d) \subseteq 1..Len(meter)
         /\ IsFiniteSet(EventsOf(d))
PROOF
<1>1. /\ DOMAIN meter = 1..Len(meter)
      /\ Len(meter) \in Nat
      /\ \A i \in DOMAIN meter : meter[i] \in MeterEvent
  BY DEF BooksInv, TypeOK
<1>2. EventsOf(d) \in SUBSET (1..Len(meter))
  BY <1>1 DEF EventsOf
<1>3. IsFiniteSet(1..Len(meter))
  BY <1>1, FS_Interval
<1> QED
  BY <1>1, <1>2, <1>3, FS_Subset

\* An event added to the log joins its device's events at the last position.
LEMMA EventsAppend ==
  ASSUME BooksInv, NEW e, meter' = Append(meter, e)
  PROVE  /\ Len(meter)' = Len(meter) + 1
         /\ DOMAIN meter' = DOMAIN meter \cup {Len(meter) + 1}
         /\ Len(meter) + 1 \notin DOMAIN meter
         /\ meter'[Len(meter) + 1] = e
         /\ \A i \in DOMAIN meter : meter'[i] = meter[i]
         /\ EventsOf(e.device)' = EventsOf(e.device) \cup {Len(meter) + 1}
         /\ \A d : d # e.device => EventsOf(d)' = EventsOf(d)
PROOF
<1>1. /\ DOMAIN meter = 1..Len(meter)
      /\ Len(meter) \in Nat
      /\ meter \in Seq(MeterEvent)
  BY EventsType DEF BooksInv, TypeOK
<1>2. /\ Len(meter') = Len(meter) + 1
      /\ DOMAIN meter' = 1..Len(meter) + 1
      /\ meter'[Len(meter) + 1] = e
      /\ \A i \in 1..Len(meter) : meter'[i] = meter[i]
  BY <1>1
<1>3. DOMAIN meter' = DOMAIN meter \cup {Len(meter) + 1}
  BY <1>1, <1>2
<1>4. Len(meter) + 1 \notin DOMAIN meter
  BY <1>1
<1> QED
  BY <1>1, <1>2, <1>3, <1>4 DEF EventsOf

\* The records an accepted reading was checked against and the ones it leaves.
LEMMA BilledWrites ==
  ASSUME BooksInv, NEW d \in Address, NEW delta \in UnitArg, NEW seq \in SeqArg,
         NEW ts \in Timestamp, NEW sig \in Signature,
         BilledStep(d, delta, seq, ts, sig)
  PROVE  /\ d \in DOMAIN registration
         /\ UNCHANGED <<token, registration, tariff, balance>>
         /\ ReadingOf(d) \in ReadingCounter
         /\ seq = ReadingOf(d).last_seq + 1
         /\ delta \in 1..MaxU64
         /\ deposit[d] \in 0..MaxI128
         /\ tariff[d] \in 0..MaxI128
         /\ TotalCost(d, delta) \in 0..deposit[d]
         /\ sig.data_seq = seq
         /\ sig.device_pubkey = registration[d].device_pubkey
         /\ meter' = Append(meter, MeterData(d, delta, seq, sig))
         /\ ReadingOf(d)' = Counted(d, seq, delta)
         /\ \A x : x # d => ReadingOf(x)' = ReadingOf(x)
         /\ deposit'[d] = deposit[d] - TotalCost(d, delta)
         /\ \A x \in DOMAIN registration : x # d => deposit'[x] = deposit[x]
PROOF
<1>1. /\ d \in DOMAIN registration
      /\ seq = ReadingOf(d).last_seq + 1
      /\ delta \in 1..MaxU64
      /\ deposit[d] \in 0..MaxI128
      /\ TotalCost(d, delta) \in 0..deposit[d]
  BY AcceptedReading DEF BilledStep
<1>2. verify_signature(registration[d].device_pubkey, seq, delta, ts, sig)
  BY DEF BilledStep, SubmitError
<1>3. sig.data_seq = seq /\ sig.device_pubkey = registration[d].device_pubkey
  BY <1>2 DEF verify_signature
<1>4. /\ deposit' = Put(deposit, d, deposit[d] - TotalCost(d, delta))
      /\ reading' = Put(reading, d, Counted(d, seq, delta))
      /\ meter' = Append(meter, MeterData(d, delta, seq, sig))
      /\ UNCHANGED <<token, registration, tariff, balance>>
  BY DEF BilledStep, BillReading
<1>5. /\ DOMAIN deposit = DOMAIN registration
      /\ tariff[d] \in 0..MaxI128
  BY <1>1 DEF BooksInv, TypeOK
<1>6. ReadingOf(d) \in ReadingCounter
  BY ContractAssumption DEF BooksInv, TypeOK, ReadingOf, GetOr, NoReading, ReadingCounter
<1>7. /\ ReadingOf(d)' = Counted(d, seq, delta)
      /\ \A x : x # d => ReadingOf(x)' = ReadingOf(x)
  BY <1>4 DEF ReadingOf, GetOr, Put
<1>8. /\ deposit'[d] = deposit[d] - TotalCost(d, delta)
      /\ \A x \in DOMAIN registration : x # d => deposit'[x] = deposit[x]
  BY <1>4, <1>5 DEF Put
<1> QED
  BY <1>1, <1>3, <1>4, <1>5, <1>6, <1>7, <1>8

\* The units and the costs of a device's events, by position in the log.
UnitsOf(d) == [i \in EventsOf(d) |-> meter[i].delta_units]
CostsOf(d) == [i \in EventsOf(d) |-> meter[i].total_cost]

\* Their sums are natural numbers.
LEMMA LogSumsType ==
  ASSUME BooksInv, NEW d
  PROVE  /\ UnitsOf(d) \in [EventsOf(d) -> Nat]
         /\ CostsOf(d) \in [EventsOf(d) -> Nat]
         /\ IsFiniteSet(Units(UnitsOf(d))) /\ Total(UnitsOf(d)) \in Nat
         /\ IsFiniteSet(Units(CostsOf(d))) /\ Total(CostsOf(d)) \in Nat
PROOF
<1>1. IsFiniteSet(EventsOf(d))
  BY EventsType
<1>2. \A i \in EventsOf(d) : meter[i].delta_units \in Nat /\ meter[i].total_cost \in Nat
  <2>1. \A i \in EventsOf(d) : meter[i] \in MeterEvent
    BY DEF EventsOf, BooksInv, TypeOK
  <2>2. \A e \in MeterEvent : e.delta_units \in Nat /\ e.total_cost \in Nat
    BY ContractAssumption DEF MeterEvent
  <2> QED
    BY <2>1, <2>2
<1>3. UnitsOf(d) \in [EventsOf(d) -> Nat] /\ CostsOf(d) \in [EventsOf(d) -> Nat]
  BY <1>2 DEF UnitsOf, CostsOf
<1> QED
  BY <1>1, <1>3, UnitsOfFinite

\* A billed reading adds its units and its cost to the sums of its device, and
\* to those of no other.
LEMMA LogSumsBilled ==
  ASSUME BooksInv, NEW e, e.delta_units \in Nat, e.total_cost \in Nat,
         meter' = Append(meter, e)
  PROVE  /\ Total(UnitsOf(e.device)') = Total(UnitsOf(e.device)) + e.delta_units
         /\ Total(CostsOf(e.device)') = Total(CostsOf(e.device)) + e.total_cost
         /\ \A x : x # e.device => UnitsOf(x)' = UnitsOf(x) /\ CostsOf(x)' = CostsOf(x)
PROOF
<1> DEFINE d == e.device
           n == Len(meter) + 1
<1>1. /\ n \notin DOMAIN meter
      /\ meter'[n] = e
      /\ \A i \in DOMAIN meter : meter'[i] = meter[i]
      /\ EventsOf(d)' = EventsOf(d) \cup {n}
      /\ \A x : x # d => EventsOf(x)' = EventsOf(x)
  BY EventsAppend
<1>2. \A x : EventsOf(x) \subseteq DOMAIN meter
  BY DEF EventsOf
<1> HIDE DEF d, n
<1>3. /\ UnitsOf(d)' = Put(UnitsOf(d), n, e.delta_units)
      /\ CostsOf(d)' = Put(CostsOf(d), n, e.total_cost)
  BY <1>1, <1>2 DEF UnitsOf, CostsOf, Put
<1>4. /\ GetOr(UnitsOf(d), n, 0) = 0
      /\ GetOr(CostsOf(d), n, 0) = 0
  BY <1>1, <1>2 DEF UnitsOf, CostsOf, GetOr
<1>5. /\ \A x \in DOMAIN UnitsOf(d) : UnitsOf(d)[x] \in Nat
      /\ \A x \in DOMAIN CostsOf(d) : CostsOf(d)[x] \in Nat
      /\ IsFiniteSet(Units(UnitsOf(d))) /\ Total(UnitsOf(d)) \in Nat
      /\ IsFiniteSet(Units(CostsOf(d))) /\ Total(CostsOf(d)) \in Nat
  BY LogSumsType
<1>6. Total(Put(UnitsOf(d), n, e.delta_units))
        = Total(UnitsOf(d)) - GetOr(UnitsOf(d), n, 0) + e.delta_units
  BY <1>5, TotalPut
<1>7. Total(Put(CostsOf(d), n, e.total_cost))
        = Total(CostsOf(d)) - GetOr(CostsOf(d), n, 0) + e.total_cost
  BY <1>5, TotalPut
<1>8. \A x : x # d => UnitsOf(x)' = UnitsOf(x) /\ CostsOf(x)' = CostsOf(x)
  BY <1>1, <1>2 DEF UnitsOf, CostsOf
<1> QED
  BY <1>3, <1>4, <1>5, <1>6, <1>7, <1>8 DEF d

\* A step that bills nothing keeps the log's invariant: counters and events
\* stay, and an escrow may only rise above the latest balance_after.
LEMMA LogInvQuiet ==
  ASSUME BooksInv, BooksInv', LogInv, QuietStep
  PROVE  LogInv'
PROOF
<1>1. /\ UNCHANGED <<reading, meter>>
      /\ DOMAIN registration \subseteq DOMAIN registration'
      /\ \A d \in DOMAIN registration : tariff'[d] = tariff[d] /\ deposit'[d] >= deposit[d]
      /\ \A d \in DOMAIN registration' \ DOMAIN registration : tariff'[d] \in RateArg
  BY DEF QuietStep
<1>2. \A d : EventsOf(d)' = EventsOf(d) /\ ReadingOf(d)' = ReadingOf(d)
  BY <1>1 DEF EventsOf, ReadingOf, GetOr
<1>3. \A i \in DOMAIN meter' : /\ meter'[i].device \in DOMAIN registration'
                               /\ meter'[i].sig.data_seq = meter'[i].seq
  BY <1>1 DEF LogInv
<1>4. \A d \in Address : Cardinality(EventsOf(d)') = ReadingOf(d)'.last_seq
  BY <1>2 DEF LogInv
<1>5. \A d \in DOMAIN registration' : tariff'[d] \in RateArg
  BY <1>1 DEF LogInv
<1>6. EventsMatchMeters'
  <2> SUFFICES ASSUME NEW d \in Address
               PROVE  /\ {meter'[i].seq : i \in EventsOf(d)'} = 1..ReadingOf(d)'.last_seq
                      /\ \A i, j \in EventsOf(d)' : i < j => meter'[i].seq < meter'[j].seq
                      /\ Total(UnitsOf(d)') = ReadingOf(d)'.cumulative_units
    BY DEF EventsMatchMeters, UnitsOf, Total, Units
  <2>1. UnitsOf(d)' = UnitsOf(d)
    BY <1>1, <1>2 DEF UnitsOf
  <2>2. Total(UnitsOf(d)) = ReadingOf(d).cumulative_units
    BY DEF LogInv, EventsMatchMeters, UnitsOf
  <2> QED
    BY <1>1, <1>2, <2>1, <2>2 DEF LogInv, EventsMatchMeters
<1>7. EventBalanceIsLowerBound'
  <2> SUFFICES ASSUME NEW i \in DOMAIN meter,
                      \A j \in EventsOf(meter[i].device) : j <= i
               PROVE  meter[i].balance_after <= deposit'[meter[i].device]
    BY <1>1, <1>2 DEF EventBalanceIsLowerBound
  <2>1. meter[i].device \in DOMAIN registration
    BY DEF LogInv
  <2>2. meter[i].balance_after <= deposit[meter[i].device]
    BY DEF LogInv, EventBalanceIsLowerBound
  <2>3. deposit'[meter[i].device] >= deposit[meter[i].device]
    BY <1>1, <2>1
  <2>4. meter[i].balance_after \in Int
    <3>1. meter[i] \in MeterEvent
      BY DEF BooksInv, TypeOK
    <3> QED
      BY <3>1, ContractAssumption DEF MeterEvent
  <2>5. deposit[meter[i].device] \in Int
    BY <2>1, TotalsType
  <2>6. deposit'[meter[i].device] \in Int
    <3>1. deposit' \in [DOMAIN registration' -> 0..MaxI128]
      BY DEF BooksInv, TypeOK
    <3>2. meter[i].device \in DOMAIN registration'
      BY <1>1, <2>1
    <3> QED
      BY <3>1, <3>2, ContractAssumption
  <2> QED
    BY <2>2, <2>3, <2>4, <2>5, <2>6
<1> QED
  BY <1>3, <1>4, <1>5, <1>6, <1>7 DEF LogInv

\* A billed reading keeps it: the event takes the device's next number, adds its
\* units to the counter and shows the escrow the debit leaves.
LEMMA LogInvBilled ==
  ASSUME BooksInv, LogInv, NEW d \in Address, NEW delta \in UnitArg,
         NEW seq \in SeqArg, NEW ts \in Timestamp, NEW sig \in Signature,
         BilledStep(d, delta, seq, ts, sig)
  PROVE  LogInv'
PROOF
<1> DEFINE e == MeterData(d, delta, seq, sig)
           n == Len(meter) + 1
           cost == TotalCost(d, delta)
<1>1. /\ d \in DOMAIN registration
      /\ UNCHANGED <<registration, tariff>>
      /\ ReadingOf(d) \in ReadingCounter
      /\ seq = ReadingOf(d).last_seq + 1
      /\ delta \in 1..MaxU64
      /\ deposit[d] \in 0..MaxI128
      /\ cost \in 0..deposit[d]
      /\ sig.data_seq = seq
      /\ meter' = Append(meter, e)
      /\ ReadingOf(d)' = Counted(d, seq, delta)
      /\ \A x : x # d => ReadingOf(x)' = ReadingOf(x)
      /\ deposit'[d] = deposit[d] - cost
      /\ \A x \in DOMAIN registration : x # d => deposit'[x] = deposit[x]
  BY BilledWrites
<1>2. /\ e.device = d /\ e.delta_units = delta /\ e.total_cost = cost
      /\ e.balance_after = deposit[d] - cost /\ e.seq = seq /\ e.sig = sig
  BY DEF MeterData
<1>3. /\ ReadingOf(d)'.last_seq = seq
      /\ ReadingOf(d)'.cumulative_units = ReadingOf(d).cumulative_units + delta
      /\ ReadingOf(d).last_seq \in Nat
      /\ ReadingOf(d).cumulative_units \in Nat
      /\ delta \in Nat /\ cost \in Nat /\ deposit[d] \in Nat
  BY <1>1, ContractAssumption DEF Counted, ReadingCounter
<1> HIDE DEF e, cost
<1>4. /\ DOMAIN meter' = DOMAIN meter \cup {n}
      /\ n \notin DOMAIN meter
      /\ meter'[n] = e
      /\ \A i \in DOMAIN meter : meter'[i] = meter[i]
      /\ EventsOf(d)' = EventsOf(d) \cup {n}
      /\ \A x : x # d => EventsOf(x)' = EventsOf(x)
  BY <1>1, <1>2, EventsAppend
<1>5. /\ DOMAIN meter = 1..Len(meter) /\ Len(meter) \in Nat
      /\ \A x : EventsOf(x) \subseteq DOMAIN meter
  BY EventsType DEF EventsOf
<1>6. /\ Total(UnitsOf(d)') = Total(UnitsOf(d)) + delta
      /\ \A x : x # d => UnitsOf(x)' = UnitsOf(x)
  BY <1>1, <1>2, <1>3, LogSumsBilled
<1>7. \A i \in DOMAIN meter' : /\ meter'[i].device \in DOMAIN registration'
                               /\ meter'[i].sig.data_seq = meter'[i].seq
  BY <1>1, <1>2, <1>4 DEF LogInv
<1>8. \A x \in Address : Cardinality(EventsOf(x)') = ReadingOf(x)'.last_seq
  <2>1. IsFiniteSet(EventsOf(d)) /\ n \notin EventsOf(d)
    BY <1>4, <1>5, EventsType
  <2>2. Cardinality(EventsOf(d) \cup {n}) = Cardinality(EventsOf(d)) + 1
    BY <2>1, FS_AddElement
  <2> QED
    BY <1>1, <1>3, <1>4, <2>2 DEF LogInv
<1>9. \A x \in DOMAIN registration' : tariff'[x] \in RateArg
  BY <1>1 DEF LogInv
<1>10. EventsMatchMeters'
  <2> SUFFICES ASSUME NEW x \in Address
               PROVE  /\ {meter'[i].seq : i \in EventsOf(x)'} = 1..ReadingOf(x)'.last_seq
                      /\ \A i, j \in EventsOf(x)' : i < j => meter'[i].seq < meter'[j].seq
                      /\ Total(UnitsOf(x)') = ReadingOf(x)'.cumulative_units
    BY DEF EventsMatchMeters, UnitsOf, Total, Units
  <2>1. /\ {meter[i].seq : i \in EventsOf(x)} = 1..ReadingOf(x).last_seq
        /\ \A i, j \in EventsOf(x) : i < j => meter[i].seq < meter[j].seq
        /\ Total(UnitsOf(x)) = ReadingOf(x).cumulative_units
    BY DEF LogInv, EventsMatchMeters, UnitsOf
  <2>2. \A i \in EventsOf(x) : meter'[i] = meter[i]
    BY <1>4, <1>5
  <2>3. CASE x # d
    <3>1. /\ EventsOf(x)' = EventsOf(x) /\ UnitsOf(x)' = UnitsOf(x)
          /\ ReadingOf(x)' = ReadingOf(x)
      BY <1>1, <1>4, <1>6, <2>3
    <3>2. {meter'[i].seq : i \in EventsOf(x)} = {meter[i].seq : i \in EventsOf(x)}
      BY <2>2
    <3> QED
      BY <2>1, <2>2, <3>1, <3>2
  <2>4. CASE x = d
    <3>1. {meter'[i].seq : i \in EventsOf(d)'} = {meter[i].seq : i \in EventsOf(d)} \cup {seq}
      BY <1>2, <1>4, <2>2, <2>4
    <3>2. (1..ReadingOf(d).last_seq) \cup {seq} = 1..seq
      BY <1>1, <1>3
    <3>3. \A i \in EventsOf(d) : meter[i].seq \in 1..ReadingOf(d).last_seq /\ i < n
      BY <1>5, <2>1, <2>4
    <3>4. ASSUME NEW i \in EventsOf(d)', NEW j \in EventsOf(d)', i < j
          PROVE  meter'[i].seq < meter'[j].seq
      <4>1. i \in EventsOf(d)
        BY <1>4, <1>5, <3>3, <3>4
      <4>2. CASE j = n
        <5>1. meter'[i].seq \in 1..ReadingOf(d).last_seq
          BY <2>2, <2>4, <3>3, <4>1
        <5>2. meter'[j].seq = seq
          BY <1>2, <1>4, <4>2
        <5>3. \A k \in 1..ReadingOf(d).last_seq : k < seq
          BY <1>1, <1>3
        <5> QED
          BY <5>1, <5>2, <5>3
      <4>3. CASE j \in EventsOf(d)
        BY <2>1, <2>2, <2>4, <3>4, <4>1, <4>3
      <4> QED
        BY <1>4, <4>2, <4>3
    <3>5. Total(UnitsOf(d)') = ReadingOf(d)'.cumulative_units
      BY <1>3, <1>6, <2>1, <2>4
    <3> QED
      BY <1>3, <2>1, <2>4, <3>1, <3>2, <3>4, <3>5
  <2> QED
    BY <2>3, <2>4
<1>11. EventBalanceIsLowerBound'
  <2> SUFFICES ASSUME NEW i \in DOMAIN meter', NEW x, x = meter'[i].device,
                      \A j \in EventsOf(x)' : j <= i
               PROVE  meter'[i].balance_after <= deposit'[x]
    BY DEF EventBalanceIsLowerBound, EventsOf
  <2>1. CASE i = n
    BY <1>1, <1>2, <1>3, <1>4, <2>1
  <2>2. CASE i \in DOMAIN meter
    <3>1. meter'[i] = meter[i] /\ x = meter[i].device /\ x \in DOMAIN registration
      BY <1>4, <2>2 DEF LogInv
    <3>2. x # d
      <4>1. i < n
        BY <1>5, <2>2
      <4>2. ~(n <= i)
        BY <1>5, <2>2, <4>1
      <4> QED
        BY <1>4, <4>2
    <3>3. EventsOf(x)' = EventsOf(x) /\ deposit'[x] = deposit[x]
      BY <1>1, <1>4, <3>1, <3>2
    <3> QED
      BY <2>2, <3>1, <3>3 DEF LogInv, EventBalanceIsLowerBound
  <2> QED
    BY <1>4, <2>1, <2>2
<1> QED
  BY <1>7, <1>8, <1>9, <1>10, <1>11 DEF LogInv

\* The invariant of the event log, inductive together with BooksInv.
LEMMA LogInduction == Spec => [](BooksInv /\ LogInv)
PROOF
<1>1. Init => BooksInv /\ LogInv
  <2> SUFFICES ASSUME Init PROVE LogInv
    BY InitBooks
  <2>1. /\ registration = << >> /\ reading = << >> /\ meter = << >>
    BY DEF Init
  <2>2. DOMAIN meter = {} /\ DOMAIN registration = {} /\ DOMAIN reading = {}
    BY <2>1
  <2>3. \A d : /\ EventsOf(d) = {}
               /\ ReadingOf(d) = NoReading
               /\ Total(UnitsOf(d)) = 0
    BY <2>2, TotalEmpty DEF EventsOf, ReadingOf, GetOr, UnitsOf
  <2>4. NoReading.last_seq = 0 /\ NoReading.cumulative_units = 0
    BY DEF NoReading
  <2>5. EventsMatchMeters
    <3> SUFFICES ASSUME NEW d \in Address
                 PROVE  /\ {meter[i].seq : i \in EventsOf(d)} = 1..ReadingOf(d).last_seq
                        /\ \A i, j \in EventsOf(d) : i < j => meter[i].seq < meter[j].seq
                        /\ Total(UnitsOf(d)) = ReadingOf(d).cumulative_units
      BY DEF EventsMatchMeters, UnitsOf
    <3> QED
      BY <2>3, <2>4
  <2>6. EventBalanceIsLowerBound
    BY <2>2 DEF EventBalanceIsLowerBound
  <2> QED
    BY <2>2, <2>3, <2>4, <2>5, <2>6, FS_EmptySet DEF LogInv
<1>2. BooksInv /\ LogInv /\ [Next]_vars => (BooksInv /\ LogInv)'
  BY NextBooks, QuietOrBilled, LogInvQuiet, LogInvBilled
<1> QED
  BY <1>1, <1>2, PTL DEF Spec

\* A device's events are its readings 1..last_seq in order and each once, and
\* their units add up to its counter (lib.rs submit_reading, emit_meter).
THEOREM EventsRebuildMeters == Spec => []EventsMatchMeters
PROOF
<1>1. BooksInv /\ LogInv => EventsMatchMeters
  BY DEF LogInv
<1> QED
  BY <1>1, LogInduction, PTL

\* The balance_after of a device's latest event never exceeds its escrow.
THEOREM EventBalanceSafe == Spec => []EventBalanceIsLowerBound
PROOF
<1>1. BooksInv /\ LogInv => EventBalanceIsLowerBound
  BY DEF LogInv
<1> QED
  BY <1>1, LogInduction, PTL

\* Replay protection: a signature names the number of one reading, and no two
\* events of a device bear the same number (storage.rs verify_signature).
THEOREM ReplayProtected == Spec => []NoReplay
PROOF
<1>1. BooksInv /\ LogInv => NoReplay
  <2> SUFFICES ASSUME BooksInv, LogInv, NEW i \in DOMAIN meter,
                      NEW j \in DOMAIN meter, meter[i].device = meter[j].device,
                      meter[i].sig = meter[j].sig
               PROVE  i = j
    BY DEF NoReplay
  <2>1. meter[i].seq = meter[j].seq
    BY DEF LogInv
  <2>2. PICK d \in Address : i \in EventsOf(d) /\ j \in EventsOf(d)
    BY DEF LogInv, EventsOf, BooksInv, TypeOK
  <2>3. /\ i < j => meter[i].seq < meter[j].seq
        /\ j < i => meter[j].seq < meter[i].seq
    BY <2>2 DEF LogInv, EventsMatchMeters
  <2>4. i \in Nat /\ j \in Nat
    BY EventsType
  <2>5. meter[i].seq \in 1..ReadingOf(d).last_seq
    BY <2>2 DEF LogInv, EventsMatchMeters
  <2> QED
    BY <2>1, <2>3, <2>4, <2>5
<1> QED
  BY <1>1, LogInduction, PTL

----------------------------------------------------------------------------
(* Revenue.                                                                *)

\* What the units metered by an operator's devices are worth, by device.
RevenueOf(o) == [d \in {d \in DOMAIN reading : registration[d].operator = o} |->
                   tariff[d] * reading[d].cumulative_units]

\* Revenue is a sum of natural numbers over finitely many devices.
LEMMA RevenueType ==
  ASSUME BooksInv, NEW o
  PROVE  /\ \A d \in DOMAIN RevenueOf(o) : RevenueOf(o)[d] \in Nat
         /\ IsFiniteSet(Units(RevenueOf(o)))
         /\ Total(RevenueOf(o)) \in Nat
PROOF
<1> DEFINE S == {d \in DOMAIN reading : registration[d].operator = o}
<1>1. S \in SUBSET DOMAIN registration
  BY DEF BooksInv, TypeOK
<1>2. IsFiniteSet(S)
  BY <1>1, TotalsType, FS_Subset
<1>3. \A d \in S : tariff[d] \in Nat /\ reading[d].cumulative_units \in Nat
  BY <1>1, ContractAssumption DEF BooksInv, TypeOK, ReadingCounter
<1>4. \A m, n \in Nat : m * n \in Nat
  OBVIOUS
<1>5. RevenueOf(o) \in [S -> Nat]
  BY <1>3, <1>4 DEF RevenueOf
<1> QED
  BY <1>2, <1>5, UnitsOfFinite

\* Both sides of RevenueMatchesMeters are natural numbers.
RevenueTyped ==
    \A o \in Address : /\ Total(RevenueOf(o)) \in Nat
                       /\ read_operator_balance(o).total_earned \in Nat

\* They are, in every state the contract's invariant allows.
LEMMA RevenueNat == BooksInv => RevenueTyped
PROOF
<1> SUFFICES ASSUME BooksInv, NEW o \in Address
             PROVE  /\ Total(RevenueOf(o)) \in Nat
                    /\ read_operator_balance(o).total_earned \in Nat
  BY DEF RevenueTyped
<1>1. read_operator_balance(o) \in OperatorBalance
  BY WithdrawableType
<1> QED
  BY <1>1, RevenueType, ContractAssumption DEF OperatorBalance

\* A reading adds its cost to the revenue of its device's operator, and to no
\* other.
LEMMA RevenueBilled ==
  ASSUME BooksInv, NEW d \in Address, NEW delta \in UnitArg, NEW seq \in SeqArg,
         NEW ts \in Timestamp, NEW sig \in Signature,
         BilledStep(d, delta, seq, ts, sig)
  PROVE  \A o \in Address :
            Total(RevenueOf(o)') - Total(RevenueOf(o))
              = read_operator_balance(o)'.total_earned
                  - read_operator_balance(o).total_earned
PROOF
<1>0. PICK op \in Address : op = registration[d].operator
  BY BilledWrites DEF BooksInv, TypeOK, Registration
<1> DEFINE cum == ReadingOf(d).cumulative_units
           cost == TotalCost(d, delta)
           old == read_operator_balance(op)
<1>1. /\ d \in DOMAIN registration
      /\ UNCHANGED <<registration, tariff>>
      /\ ReadingOf(d) \in ReadingCounter
      /\ delta \in 1..MaxU64
      /\ deposit[d] \in 0..MaxI128
      /\ tariff[d] \in 0..MaxI128
      /\ cost \in 0..deposit[d]
  BY BilledWrites
<1>2. /\ cum \in Nat /\ delta \in Nat /\ tariff[d] \in Nat /\ cost \in Nat
      /\ cost = delta * tariff[d]
  BY <1>1, ContractAssumption DEF ReadingCounter, TotalCost
<1>3. /\ operator_balance' = Put(operator_balance, op, Credited(old, cost))
      /\ reading' = Put(reading, d, Counted(d, seq, delta))
  BY <1>0 DEF BilledStep, BillReading
<1>4. /\ old \in OperatorBalance
      /\ Credited(old, cost).total_earned = old.total_earned + cost
      /\ old.total_earned \in Nat
  <2>1. old \in OperatorBalance
    BY WithdrawableType
  <2> HIDE DEF old
  <2> QED
    BY <2>1, ContractAssumption DEF Credited, OperatorBalance
<1>5. /\ read_operator_balance(op)'.total_earned = old.total_earned + cost
      /\ \A x : x # op => read_operator_balance(x)' = read_operator_balance(x)
  <2> HIDE DEF cost
  <2>1. \A x : read_operator_balance(x)'
                 = IF x = op THEN Credited(old, cost) ELSE read_operator_balance(x)
    BY <1>3 DEF read_operator_balance, GetOr, Put
  <2> QED
    BY <1>4, <2>1
<1>6. Counted(d, seq, delta).cumulative_units = cum + delta
  BY DEF Counted
<1>7. DOMAIN reading \subseteq DOMAIN registration
  BY DEF BooksInv, TypeOK
<1>8. \A x : x # op => RevenueOf(x)' = RevenueOf(x)
  BY <1>0, <1>1, <1>3 DEF RevenueOf, Put
<1>9. RevenueOf(op)' = Put(RevenueOf(op), d, tariff[d] * (cum + delta))
  <2> DEFINE S == {c \in DOMAIN reading : registration[c].operator = op}
  <2>1. {c \in DOMAIN reading' : registration'[c].operator = op} = S \cup {d}
    BY <1>0, <1>1, <1>3 DEF Put
  <2>2. \A c \in S \cup {d} : reading'[c].cumulative_units
           = IF c = d THEN cum + delta ELSE reading[c].cumulative_units
    BY <1>3, <1>6 DEF Put
  <2>3. RevenueOf(op)' = [c \in S \cup {d} |-> tariff[c] * reading'[c].cumulative_units]
    BY <1>1, <2>1 DEF RevenueOf
  <2>4. RevenueOf(op) = [c \in S |-> tariff[c] * reading[c].cumulative_units]
    BY DEF RevenueOf
  <2> HIDE DEF cum, S
  <2>5. RevenueOf(op)' = [c \in S \cup {d} |->
                            IF c = d THEN tariff[d] * (cum + delta)
                                     ELSE tariff[c] * reading[c].cumulative_units]
    BY <2>2, <2>3
  <2> QED
    BY <2>4, <2>5 DEF Put
<1>10. GetOr(RevenueOf(op), d, 0) = tariff[d] * cum
  <2>1. CASE d \in DOMAIN reading
    BY <1>0, <2>1 DEF GetOr, RevenueOf, ReadingOf
  <2>2. CASE d \notin DOMAIN reading
    <3>1. cum = 0
      BY <2>2 DEF ReadingOf, GetOr, NoReading
    <3>2. GetOr(RevenueOf(op), d, 0) = 0
      BY <2>2 DEF GetOr, RevenueOf
    <3> QED
      BY <1>2, <3>1, <3>2
  <2> QED
    BY <2>1, <2>2
<1> HIDE DEF cum, cost, old
<1>11. tariff[d] * (cum + delta) = tariff[d] * cum + cost
  BY <1>2
<1>12. tariff[d] * cum \in Nat /\ tariff[d] * (cum + delta) \in Nat
  BY <1>2
<1>13. Total(RevenueOf(op)') = Total(RevenueOf(op)) + cost
  <2>1. Total(Put(RevenueOf(op), d, tariff[d] * (cum + delta)))
          = Total(RevenueOf(op)) - GetOr(RevenueOf(op), d, 0)
              + tariff[d] * (cum + delta)
    BY <1>12, RevenueType, TotalPut
  <2>2. Total(RevenueOf(op)) \in Nat
    BY RevenueType
  <2> QED
    BY <1>2, <1>9, <1>10, <1>11, <1>12, <2>1, <2>2
<1> QED
  <2> SUFFICES ASSUME NEW o \in Address
               PROVE  Total(RevenueOf(o)') - Total(RevenueOf(o))
                        = read_operator_balance(o)'.total_earned
                            - read_operator_balance(o).total_earned
    OBVIOUS
  <2>1. Total(RevenueOf(o)) \in Nat /\ read_operator_balance(o).total_earned \in Nat
    BY RevenueType, WithdrawableType, ContractAssumption DEF OperatorBalance
  <2>2. CASE o = op
    <3>1. read_operator_balance(op)'.total_earned
            = read_operator_balance(op).total_earned + cost
      BY <1>5 DEF old
    <3> QED
      BY <1>2, <1>13, <2>1, <2>2, <3>1
  <2>3. CASE o # op
    BY <1>5, <1>8, <2>1, <2>3
  <2> QED
    BY <2>2, <2>3

\* Revenue equals the price of the units metered: no reading is credited twice,
\* at another rate or to another operator (lib.rs submit_reading).
THEOREM RevenueExact == Spec => []RevenueMatchesMeters
PROOF
<1>0. BooksInv' => RevenueTyped'
  BY RevenueNat, PTL
<1>1. RevenueMatchesMeters <=>
         \A o \in Address : read_operator_balance(o).total_earned = Total(RevenueOf(o))
  BY DEF RevenueMatchesMeters, RevenueOf
<1>2. Init => RevenueMatchesMeters
  <2> SUFFICES ASSUME Init, NEW o \in Address
               PROVE  read_operator_balance(o).total_earned = Total(RevenueOf(o))
    BY <1>1
  <2>1. DOMAIN reading = {} /\ DOMAIN operator_balance = {}
    BY DEF Init
  <2>2. Total(RevenueOf(o)) = 0
    BY <2>1, TotalEmpty DEF RevenueOf
  <2> QED
    BY <2>1, <2>2 DEF read_operator_balance, GetOr, NoEarnings
<1>3. ASSUME BooksInv, RevenueMatchesMeters, [Next]_vars, NEW o \in Address
      PROVE  read_operator_balance(o)'.total_earned = Total(RevenueOf(o)')
  <2>0. read_operator_balance(o).total_earned = Total(RevenueOf(o))
    BY <1>1, <1>3
  <2>1. CASE QuietStep
    <3>1. RevenueOf(o)' = RevenueOf(o)
      BY <1>3, <2>1 DEF QuietStep, RevenueOf, BooksInv, TypeOK
    <3> QED
      BY <2>0, <2>1, <3>1 DEF QuietStep
  <2>2. CASE \E d \in Address, delta \in UnitArg, seq \in SeqArg,
                ts \in Timestamp, sig \in Signature :
                BilledStep(d, delta, seq, ts, sig)
    <3>1. Total(RevenueOf(o)') - Total(RevenueOf(o))
            = read_operator_balance(o)'.total_earned
                - read_operator_balance(o).total_earned
      BY <1>3, <2>2, RevenueBilled
    <3>2. BooksInv'
      BY <1>3, NextBooks
    <3>3. Total(RevenueOf(o)') \in Nat /\ read_operator_balance(o)'.total_earned \in Nat
      <4>2. /\ Total(RevenueOf(o))' \in Nat
            /\ read_operator_balance(o)'.total_earned \in Nat
        BY <1>0, <3>2 DEF RevenueTyped
      <4>3. Total(RevenueOf(o))' = Total(RevenueOf(o)')
        BY DEF Total, Units
      <4> QED
        BY <3>2, <4>2, <4>3
    <3>4. Total(RevenueOf(o)) \in Nat
      BY <1>3, RevenueType
    <3> QED
      BY <2>0, <3>1, <3>3, <3>4
  <2> QED
    BY <1>3, <2>1, <2>2, QuietOrBilled
<1>4. BooksInv /\ RevenueMatchesMeters /\ [Next]_vars => RevenueMatchesMeters'
  <2> SUFFICES ASSUME BooksInv, RevenueMatchesMeters, [Next]_vars, NEW o \in Address
               PROVE  read_operator_balance(o)'.total_earned = Total(RevenueOf(o)')
    BY DEF RevenueMatchesMeters, RevenueOf, Total, Units
  <2> QED
    BY <1>3
<1>5. BooksInv /\ [Next]_vars => BooksInv'
  BY NextBooks
<1> QED
  BY <1>2, <1>4, <1>5, InitBooks, PTL DEF Spec

----------------------------------------------------------------------------
(* Consent.                                                                *)

\* A wallet shrinks, and earnings are settled, only with the owner's
\* authorization (lib.rs require_auth; SEP-41 transfer).
LEMMA OwnerSigned ==
  ASSUME BooksInv, Next, NEW a \in Address
  PROVE  /\ balance'[a] < balance[a] => a \in result'.auth
         /\ Withdrawable(a)' < Withdrawable(a) => a \in result'.auth
PROOF
<1>0. /\ a # Contract /\ balance[a] \in Int /\ Withdrawable(a) \in Int
      /\ ~(balance[a] < balance[a]) /\ ~(Withdrawable(a) < Withdrawable(a))
  <2>1. a # Contract /\ balance[a] \in Int /\ Withdrawable(a) \in Int
    BY WithdrawableType, ContractAssumption DEF BooksInv, TypeOK
  <2> QED
    BY <2>1
<1>1. UNCHANGED operator_balance => Withdrawable(a)' = Withdrawable(a)
  BY DEF Withdrawable, read_operator_balance, GetOr
<1>2. ASSUME NEW d \in Address, NEW pubkey \in PubKey, NEW op \in Address,
             NEW rate \in RateArg, NEW auth \in SUBSET Address,
             RegisterDevice(d, pubkey, op, rate, auth)
      PROVE  balance' = balance /\ UNCHANGED operator_balance
  BY <1>2 DEF RegisterDevice, store
<1>3. ASSUME NEW d \in Address, NEW amount \in AmountArg,
             NEW auth \in SUBSET Address, DepositFunds(d, amount, auth)
      PROVE  /\ balance'[a] < balance[a] => a \in result'.auth
             /\ UNCHANGED operator_balance
  <2>1. CASE DepositError(d, amount, auth) # "Ok"
    BY <1>0, <1>3, <2>1 DEF DepositFunds
  <2>2. CASE DepositError(d, amount, auth) = "Ok"
    <3>1. d \in auth /\ CanTransfer(d, Contract, amount) /\ ~(amount <= 0)
      BY <2>2 DEF DepositError
    <3>2. /\ balance' = Transferred(d, Contract, amount)
          /\ result'.auth = auth
          /\ UNCHANGED operator_balance
      BY <1>3, <2>2 DEF DepositFunds, Returned
    <3>3. a # d => balance'[a] = balance[a]
      BY <1>0, <3>2 DEF Transferred, BooksInv, TypeOK
    <3> QED
      BY <1>0, <3>1, <3>2, <3>3
  <2> QED
    BY <2>1, <2>2
<1>4. ASSUME NEW d \in Address, NEW delta \in UnitArg, NEW seq \in SeqArg,
             NEW ts \in Timestamp, NEW sig \in Signature,
             SubmitReading(d, delta, seq, ts, sig)
      PROVE  balance' = balance /\ ~(Withdrawable(a)' < Withdrawable(a))
  <2>1. CASE SubmitError(d, delta, seq, ts, sig) # "Ok"
    BY <1>0, <1>1, <1>4, <2>1 DEF SubmitReading, store
  <2>2. CASE SubmitError(d, delta, seq, ts, sig) = "Ok"
    <3> DEFINE cost == TotalCost(d, delta)
    <3>1. PICK op \in Address : op = registration[d].operator
      BY <2>2, AcceptedReading
    <3>2. /\ operator_balance' =
                Put(operator_balance, op, Credited(read_operator_balance(op), cost))
          /\ balance' = balance
      BY <1>4, <2>2, <3>1 DEF SubmitReading, BillReading
    <3>3. cost \in Nat
      BY <2>2, AcceptedReading, ContractAssumption
    <3> HIDE DEF cost
    <3>4. /\ read_operator_balance(op) \in OperatorBalance
          /\ Withdrawable(op) \in Int
      BY WithdrawableType
    <3>5. /\ Credited(read_operator_balance(op), cost).total_earned
                = read_operator_balance(op).total_earned + cost
          /\ Credited(read_operator_balance(op), cost).total_settled
                = read_operator_balance(op).total_settled
          /\ read_operator_balance(op).total_earned \in Int
          /\ read_operator_balance(op).total_settled \in Int
      BY <3>4, ContractAssumption DEF Credited, OperatorBalance
    <3>6. read_operator_balance(a)' =
             IF a = op THEN Credited(read_operator_balance(op), cost)
                       ELSE read_operator_balance(a)
      BY <3>2 DEF read_operator_balance, GetOr, Put
    <3>7. CASE a = op
      BY <3>2, <3>3, <3>5, <3>6, <3>7 DEF Withdrawable
    <3>8. CASE a # op
      BY <1>0, <3>2, <3>6, <3>8 DEF Withdrawable
    <3> QED
      BY <3>7, <3>8
  <2> QED
    BY <2>1, <2>2
<1>5. ASSUME NEW o \in Address, NEW amount \in AmountArg,
             NEW auth \in SUBSET Address, SettleBalance(o, amount, auth)
      PROVE  /\ ~(balance'[a] < balance[a])
             /\ Withdrawable(a)' < Withdrawable(a) => a \in result'.auth
  <2>1. CASE SettleError(o, amount, auth) # "Ok"
    BY <1>0, <1>1, <1>5, <2>1 DEF SettleBalance
  <2>2. CASE SettleError(o, amount, auth) = "Ok"
    <3>1. o \in auth /\ ~(amount <= 0)
      BY <2>2 DEF SettleError
    <3>2. amount \in Nat
      BY <3>1, ContractAssumption
    <3>3. /\ balance' = Transferred(Contract, o, amount)
          /\ operator_balance' =
                Put(operator_balance, o, Settled(read_operator_balance(o), amount))
          /\ result'.auth = auth
      BY <1>5, <2>2 DEF SettleBalance, Returned
    <3>4. balance'[a] = IF a = o THEN balance[a] + amount ELSE balance[a]
      BY <1>0, <3>3 DEF Transferred, BooksInv, TypeOK
    <3>5. a # o => Withdrawable(a)' = Withdrawable(a)
      BY <3>3 DEF Withdrawable, read_operator_balance, GetOr, Put
    <3> QED
      BY <1>0, <3>1, <3>2, <3>3, <3>4, <3>5
  <2> QED
    BY <2>1, <2>2
<1>6. ASSUME NEW from \in Address, NEW to \in Address \cup {Contract},
             NEW amount \in AmountArg, TokenTransfer(from, to, amount)
      PROVE  /\ balance'[a] < balance[a] => a \in result'.auth
             /\ UNCHANGED operator_balance
  <2>1. /\ from # to /\ amount > 0
        /\ balance' = Transferred(from, to, amount)
        /\ result'.auth = {from}
        /\ UNCHANGED operator_balance
    BY <1>6 DEF TokenTransfer, Returned, store
  <2>2. amount \in Int
    BY ContractAssumption
  <2>3. a # from => balance'[a] = IF a = to THEN balance[a] + amount ELSE balance[a]
    BY <1>0, <2>1 DEF Transferred, BooksInv, TypeOK
  <2> QED
    BY <1>0, <2>1, <2>2, <2>3
<1>7. ASSUME NEW amount \in AmountArg, TokenClawback(amount)
      PROVE  balance'[a] = balance[a] /\ UNCHANGED operator_balance
  BY <1>0, <1>7 DEF TokenClawback, store, BooksInv, TypeOK
<1> QED
  BY <1>0, <1>1, <1>2, <1>3, <1>4, <1>5, <1>6, <1>7 DEF Next

\* Nobody loses anything without consent: see OwnersConsent.
THEOREM ConsentNeeded == Spec => OwnersConsent
PROOF
<1> DEFINE Consent ==
       \A a \in Address :
          /\ balance'[a] < balance[a] => a \in result'.auth
          /\ Withdrawable(a)' < Withdrawable(a) => a \in result'.auth
          /\ a \in DOMAIN deposit /\ deposit'[a] < deposit[a] =>
               LET e == meter'[Len(meter')] IN
                  /\ meter' = Append(meter, e)
                  /\ e.device = a
                  /\ e.sig.device_pubkey = registration[a].device_pubkey
                  /\ e.total_cost = deposit[a] - deposit'[a]
<1>1. ASSUME BooksInv, Next
      PROVE  Consent
  <2>0. BooksInv'
    BY <1>1, NextBooks
  <2> SUFFICES ASSUME NEW a \in Address, a \in DOMAIN deposit, deposit'[a] < deposit[a]
               PROVE  LET e == meter'[Len(meter')] IN
                        /\ meter' = Append(meter, e)
                        /\ e.device = a
                        /\ e.sig.device_pubkey = registration[a].device_pubkey
                        /\ e.total_cost = deposit[a] - deposit'[a]
    BY <1>1, OwnerSigned
  <2>1. /\ DOMAIN deposit = DOMAIN registration
        /\ deposit[a] \in Int
        /\ meter \in Seq(MeterEvent)
    BY <1>1, ContractAssumption DEF BooksInv, TypeOK
  <2>2. ~QuietStep
    <3> SUFFICES ASSUME QuietStep PROVE FALSE
      OBVIOUS
    <3>1. deposit'[a] >= deposit[a] /\ a \in DOMAIN registration'
      BY <2>1 DEF QuietStep
    <3>2. deposit'[a] \in Int
      BY <2>0, <3>1, ContractAssumption DEF BooksInv, TypeOK
    <3> QED
      BY <2>1, <3>1, <3>2
  <2>3. PICK d \in Address, delta \in UnitArg, seq \in SeqArg,
             ts \in Timestamp, sig \in Signature :
             BilledStep(d, delta, seq, ts, sig)
    BY <1>1, <2>2, QuietOrBilled
  <2> DEFINE e == MeterData(d, delta, seq, sig)
             cost == TotalCost(d, delta)
  <2>4. /\ sig.device_pubkey = registration[d].device_pubkey
        /\ meter' = Append(meter, e)
        /\ deposit'[d] = deposit[d] - cost
        /\ cost \in 0..deposit[d] /\ deposit[d] \in 0..MaxI128
        /\ \A x \in DOMAIN registration : x # d => deposit'[x] = deposit[x]
    BY <1>1, <2>3, BilledWrites
  <2>5. e.device = d /\ e.sig = sig /\ e.total_cost = cost
    BY DEF MeterData
  <2> HIDE DEF e, cost
  <2>6. meter'[Len(meter')] = e
    BY <2>1, <2>4
  <2>7. a = d
    BY <2>1, <2>4
  <2>8. cost = deposit[a] - deposit'[a]
    BY <2>4, <2>7, ContractAssumption
  <2> QED
    BY <2>4, <2>5, <2>6, <2>7, <2>8
<1>2. BooksInv /\ [Next]_vars => [Consent]_vars
  BY <1>1
<1>3. BooksInv /\ [Next]_vars => BooksInv'
  BY NextBooks
<1> QED
  BY <1>2, <1>3, InitBooks, PTL DEF Spec, OwnersConsent

----------------------------------------------------------------------------
(* The contract implements the prepaid ledger.                             *)

\* The refinement mapping of Ledger.
Wallet == [a \in Address |-> balance[a]]
Escrow == [a \in Address |-> GetOr(deposit, a, 0)]
OwedTo == [a \in Address |-> Withdrawable(a)]

\* The mapped variables hold amounts.
LEMMA LedgerTypes ==
  ASSUME BooksInv
  PROVE  /\ Wallet \in [Address -> Nat]
         /\ Escrow \in [Address -> Nat]
         /\ OwedTo \in [Address -> Nat]
         /\ MaxI128 \in Nat
         /\ AmountArg \subseteq Int
PROOF
<1>1. MaxI128 \in Nat /\ AmountArg \subseteq Int
  BY ContractAssumption
<1>2. Wallet \in [Address -> Nat]
  BY <1>1 DEF Wallet, BooksInv, TypeOK
<1>3. Escrow \in [Address -> Nat]
  BY <1>1, TotalsType DEF Escrow, GetOr
<1>4. \A a \in Address : Withdrawable(a) \in Nat
  BY <1>1, WithdrawableType
<1> QED
  BY <1>1, <1>2, <1>3, <1>4 DEF OwedTo

\* Steps that touch no amount leave the ledger alone.
LEMMA SameWallet == UNCHANGED balance => Wallet' = Wallet
BY DEF Wallet

LEMMA SameEscrow == UNCHANGED deposit => Escrow' = Escrow
BY DEF Escrow, GetOr

LEMMA SameOwed == UNCHANGED operator_balance => OwedTo' = OwedTo
BY DEF OwedTo, Withdrawable, read_operator_balance, GetOr

\* A transfer, seen from the accounts.
LEMMA WalletMoves ==
  ASSUME BooksInv, NEW from \in Address \cup {Contract},
         NEW to \in Address \cup {Contract}, from # to, NEW amount \in Nat,
         CanTransfer(from, to, amount),
         balance' = Transferred(from, to, amount)
  PROVE  /\ to = Contract => Wallet' = [Wallet EXCEPT ![from] = @ - amount]
         /\ from = Contract => Wallet' = [Wallet EXCEPT ![to] = @ + amount]
         /\ from # Contract /\ to # Contract =>
               Wallet' = [Wallet EXCEPT ![from] = @ - amount, ![to] = @ + amount]
PROOF
<1>1. /\ balance'[from] = balance[from] - amount
      /\ balance'[to] = balance[to] + amount
      /\ \A a \in Address \cup {Contract} : a # from /\ a # to =>
            balance'[a] = balance[a]
  BY TransferType
<1>2. Contract \notin Address
  BY ContractAssumption
<1> QED
  BY <1>1, <1>2 DEF Wallet

\* A written escrow, seen from the ledger.
LEMMA EscrowMoves ==
  ASSUME NEW d \in Address, NEW v, deposit' = Put(deposit, d, v)
  PROVE  Escrow' = [Escrow EXCEPT ![d] = v]
BY DEF Escrow, GetOr, Put

\* A written operator's entry, seen from the ledger.
LEMMA OwedMoves ==
  ASSUME NEW o \in Address, NEW e, operator_balance' = Put(operator_balance, o, e)
  PROVE  OwedTo' = [OwedTo EXCEPT ![o] = e.total_earned - e.total_settled]
PROOF
<1>1. \A a : read_operator_balance(a)' = IF a = o THEN e ELSE read_operator_balance(a)
  BY DEF read_operator_balance, GetOr, Put
<1>2. \A a \in Address : Withdrawable(a)' =
         IF a = o THEN e.total_earned - e.total_settled ELSE Withdrawable(a)
  BY <1>1 DEF Withdrawable
<1> QED
  BY <1>2 DEF OwedTo

\* The actions of the ledger in terms of the mapping.  Nothing moves:
LEMMA LedgerStutter ==
  UNCHANGED <<Wallet, Escrow, OwedTo, Surplus, token>> => UNCHANGED Ledger!ledger
BY DEF Wallet, Escrow, OwedTo, Ledger!ledger

\* A device moves n from its wallet to its escrow.
LEMMA LedgerPrepay ==
  ASSUME NEW d \in Address, NEW n \in 1..Wallet[d],
         Wallet' = [Wallet EXCEPT ![d] = @ - n],
         Escrow' = [Escrow EXCEPT ![d] = @ + n],
         UNCHANGED <<OwedTo, Surplus, token>>
  PROVE  Ledger!Next
PROOF
<1>1. Ledger!Prepay(d, n)
  BY DEF Ledger!Prepay, Wallet, Escrow, OwedTo
<1> QED
  BY <1>1 DEF Ledger!Next, Wallet, Escrow, OwedTo

\* A reading moves n from a device's escrow to what an operator is owed.
LEMMA LedgerCharge ==
  ASSUME NEW d \in Address, NEW o \in Address, NEW n \in 0..Escrow[d],
         Escrow' = [Escrow EXCEPT ![d] = @ - n],
         OwedTo' = [OwedTo EXCEPT ![o] = @ + n],
         UNCHANGED <<Wallet, Surplus, token>>
  PROVE  Ledger!Next
PROOF
<1>1. Ledger!Charge(d, o, n)
  BY DEF Ledger!Charge, Wallet, Escrow, OwedTo
<1> QED
  BY <1>1 DEF Ledger!Next, Wallet, Escrow, OwedTo

\* An operator is paid n of what it is owed.
LEMMA LedgerPayOut ==
  ASSUME NEW o \in Address, NEW n \in 1..OwedTo[o],
         OwedTo' = [OwedTo EXCEPT ![o] = @ - n],
         Wallet' = [Wallet EXCEPT ![o] = @ + n],
         UNCHANGED <<Escrow, Surplus, token>>
  PROVE  Ledger!Next
PROOF
<1>1. Ledger!PayOut(o, n)
  BY DEF Ledger!PayOut, Wallet, Escrow, OwedTo
<1> QED
  BY <1>1 DEF Ledger!Next, Wallet, Escrow, OwedTo

\* One account pays n to another.
LEMMA LedgerPay ==
  ASSUME NEW a \in Address, NEW b \in Address, NEW n \in 1..Wallet[a], a # b,
         Wallet' = [Wallet EXCEPT ![a] = @ - n, ![b] = @ + n],
         UNCHANGED <<Escrow, OwedTo, Surplus, token>>
  PROVE  Ledger!Next
PROOF
<1>1. Ledger!Pay(a, b, n)
  BY DEF Ledger!Pay, Wallet, Escrow, OwedTo
<1> QED
  BY <1>1 DEF Ledger!Next, Wallet, Escrow, OwedTo

\* An account pays n to the contract, outside deposit_funds.
LEMMA LedgerDonate ==
  ASSUME NEW a \in Address, NEW n \in 1..Wallet[a],
         Wallet' = [Wallet EXCEPT ![a] = @ - n],
         Surplus' = Surplus + n,
         UNCHANGED <<Escrow, OwedTo, token>>
  PROVE  Ledger!Next
PROOF
<1>1. Ledger!Donate(a, n)
  BY DEF Ledger!Donate, Wallet, Escrow, OwedTo
<1> QED
  BY <1>1 DEF Ledger!Next, Wallet, Escrow, OwedTo

\* The issuer takes from custody.
LEMMA LedgerRevoke ==
  ASSUME token = "revocable", Surplus' < Surplus,
         UNCHANGED <<Wallet, Escrow, OwedTo, token>>
  PROVE  Ledger!Next
PROOF
<1>1. Ledger!Revoke
  BY DEF Ledger!Revoke, Wallet, Escrow, OwedTo
<1> QED
  BY <1>1 DEF Ledger!Next, Wallet, Escrow, OwedTo

\* Every step of the contract is a step of the ledger, or moves nothing.
LEMMA LedgerStep ==
  ASSUME BooksInv, [Next]_vars
  PROVE  [Ledger!Next]_(Ledger!ledger)
PROOF
<1>0. /\ Wallet \in [Address -> Nat]
      /\ Escrow \in [Address -> Nat]
      /\ OwedTo \in [Address -> Nat]
      /\ MaxI128 \in Nat
      /\ AmountArg \subseteq Int
      /\ Contract \notin Address
  BY LedgerTypes, ContractAssumption
<1>1. ASSUME UNCHANGED <<token, deposit, operator_balance, balance>>, Surplus' = Surplus
      PROVE  UNCHANGED Ledger!ledger
  BY <1>1, SameWallet, SameEscrow, SameOwed, LedgerStutter
<1>2. CASE UNCHANGED vars
  <2>1. UNCHANGED <<token, deposit, operator_balance, balance>> /\ Surplus' = Surplus
    BY <1>2, FailedCall DEF vars, BooksInv, TypeOK
  <2> QED
    BY <1>1, <2>1
<1>3. ASSUME NEW d \in Address, NEW pubkey \in PubKey, NEW op \in Address,
             NEW rate \in RateArg, NEW auth \in SUBSET Address,
             RegisterDevice(d, pubkey, op, rate, auth)
      PROVE  UNCHANGED Ledger!ledger
  <2>1. Surplus' = Surplus /\ UNCHANGED <<token, operator_balance, balance>>
    BY <1>3, RegisterStep DEF RegisterDevice, store
  <2>2. Escrow' = Escrow
    <3>1. CASE RegisterError(d, op, rate, auth) # "Ok"
      BY <1>3, <3>1, SameEscrow DEF RegisterDevice, store
    <3>2. CASE RegisterError(d, op, rate, auth) = "Ok"
      <4>1. d \notin DOMAIN deposit /\ deposit' = Put(deposit, d, 0)
        BY <1>3, <3>2 DEF RegisterDevice, RegisterError, BooksInv, TypeOK
      <4> QED
        BY <4>1 DEF Escrow, GetOr, Put
    <3> QED
      BY <3>1, <3>2
  <2> QED
    BY <2>1, <2>2, SameWallet, SameOwed, LedgerStutter
<1>4. ASSUME NEW d \in Address, NEW amount \in AmountArg,
             NEW auth \in SUBSET Address, DepositFunds(d, amount, auth)
      PROVE  [Ledger!Next]_(Ledger!ledger)
  <2>1. Surplus' = Surplus /\ UNCHANGED <<token, operator_balance>>
    BY <1>4, DepositStep DEF DepositFunds
  <2>2. CASE DepositError(d, amount, auth) # "Ok"
    BY <1>1, <1>4, <2>1, <2>2 DEF DepositFunds
  <2>3. CASE DepositError(d, amount, auth) = "Ok"
    <3>1. /\ ~(amount <= 0)
          /\ CanTransfer(d, Contract, amount)
      BY <2>3 DEF DepositError
    <3>2. /\ balance' = Transferred(d, Contract, amount)
          /\ deposit' = Put(deposit, d, GetOr(deposit, d, 0) + amount)
      BY <1>4, <2>3 DEF DepositFunds
    <3>3. amount \in Nat /\ amount \in 1..Wallet[d]
      BY <1>0, <3>1 DEF CanTransfer, Wallet
    <3>4. Wallet' = [Wallet EXCEPT ![d] = @ - amount]
      BY <1>0, <3>1, <3>2, <3>3, WalletMoves
    <3>5. Escrow' = [Escrow EXCEPT ![d] = @ + amount]
      <4>1. Escrow' = [Escrow EXCEPT ![d] = GetOr(deposit, d, 0) + amount]
        BY <3>2, EscrowMoves
      <4> QED
        BY <4>1 DEF Escrow
    <3> QED
      BY <2>1, <3>3, <3>4, <3>5, SameOwed, LedgerPrepay
  <2> QED
    BY <2>2, <2>3
<1>5. ASSUME NEW d \in Address, NEW delta \in UnitArg, NEW seq \in SeqArg,
             NEW ts \in Timestamp, NEW sig \in Signature,
             SubmitReading(d, delta, seq, ts, sig)
      PROVE  [Ledger!Next]_(Ledger!ledger)
  <2>1. Surplus' = Surplus /\ UNCHANGED balance
    BY <1>5, SubmitStep DEF SubmitReading
  <2>2. CASE SubmitError(d, delta, seq, ts, sig) # "Ok"
    BY <1>1, <1>5, <2>1, <2>2 DEF SubmitReading, store
  <2>3. CASE SubmitError(d, delta, seq, ts, sig) = "Ok"
    <3> DEFINE cost == TotalCost(d, delta)
    <3>1. PICK op \in Address : op = registration[d].operator
      BY <2>3, AcceptedReading
    <3>2. /\ d \in DOMAIN deposit
          /\ deposit[d] \in 0..MaxI128
          /\ cost \in 0..deposit[d]
      BY <2>3, AcceptedReading DEF BooksInv, TypeOK
    <3>3. /\ deposit' = Put(deposit, d, deposit[d] - cost)
          /\ operator_balance' =
                Put(operator_balance, op, Credited(read_operator_balance(op), cost))
          /\ UNCHANGED token
      BY <1>5, <2>3, <3>1 DEF SubmitReading, BillReading
    <3> HIDE DEF cost
    <3>4. Escrow[d] = deposit[d]
      BY <3>2 DEF Escrow, GetOr
    <3>5. Escrow' = [Escrow EXCEPT ![d] = @ - cost]
      BY <3>3, <3>4, EscrowMoves
    <3>6. OwedTo' = [OwedTo EXCEPT ![op] = @ + cost]
      <4> DEFINE old == read_operator_balance(op)
      <4>1. old \in OperatorBalance /\ OwedTo[op] = old.total_earned - old.total_settled
        BY WithdrawableType DEF OwedTo, Withdrawable
      <4>2. OwedTo' = [OwedTo EXCEPT ![op] = Credited(old, cost).total_earned
                                              - Credited(old, cost).total_settled]
        BY <3>3, OwedMoves
      <4> HIDE DEF old
      <4>3. /\ Credited(old, cost).total_earned = old.total_earned + cost
            /\ Credited(old, cost).total_settled = old.total_settled
            /\ old.total_earned \in Int /\ old.total_settled \in Int /\ cost \in Int
        BY <1>0, <3>2, <4>1 DEF Credited, OperatorBalance
      <4>4. Credited(old, cost).total_earned - Credited(old, cost).total_settled
              = OwedTo[op] + cost
        BY <4>1, <4>3
      <4> QED
        BY <4>2, <4>4
    <3>7. cost \in 0..Escrow[d]
      BY <3>2, <3>4
    <3> QED
      BY <2>1, <3>3, <3>5, <3>6, <3>7, SameWallet, LedgerCharge
  <2> QED
    BY <2>2, <2>3
<1>6. ASSUME NEW o \in Address, NEW amount \in AmountArg,
             NEW auth \in SUBSET Address, SettleBalance(o, amount, auth)
      PROVE  [Ledger!Next]_(Ledger!ledger)
  <2>1. Surplus' = Surplus /\ UNCHANGED <<token, deposit>>
    BY <1>6, SettleStep DEF SettleBalance
  <2>2. CASE SettleError(o, amount, auth) # "Ok"
    BY <1>1, <1>6, <2>1, <2>2 DEF SettleBalance
  <2>3. CASE SettleError(o, amount, auth) = "Ok"
    <3> DEFINE old == read_operator_balance(o)
    <3>1. /\ ~(amount <= 0)
          /\ ~(amount > Withdrawable(o))
          /\ CanTransfer(Contract, o, amount)
      BY <2>3 DEF SettleError
    <3>2. /\ balance' = Transferred(Contract, o, amount)
          /\ operator_balance' = Put(operator_balance, o, Settled(old, amount))
      BY <1>6, <2>3 DEF SettleBalance
    <3>3. amount \in Nat /\ amount \in 1..OwedTo[o]
      BY <1>0, <3>1 DEF OwedTo
    <3>4. Wallet' = [Wallet EXCEPT ![o] = @ + amount]
      BY <1>0, <3>1, <3>2, <3>3, WalletMoves
    <3>5. OwedTo' = [OwedTo EXCEPT ![o] = @ - amount]
      <4>1. old \in OperatorBalance /\ OwedTo[o] = old.total_earned - old.total_settled
        BY WithdrawableType DEF OwedTo, Withdrawable
      <4>2. OwedTo' = [OwedTo EXCEPT ![o] = Settled(old, amount).total_earned
                                             - Settled(old, amount).total_settled]
        BY <3>2, OwedMoves
      <4> HIDE DEF old
      <4>3. /\ Settled(old, amount).total_earned = old.total_earned
            /\ Settled(old, amount).total_settled = old.total_settled + amount
            /\ old.total_earned \in Int /\ old.total_settled \in Int
        BY <1>0, <4>1 DEF Settled, OperatorBalance
      <4>4. Settled(old, amount).total_earned - Settled(old, amount).total_settled
              = OwedTo[o] - amount
        BY <3>3, <4>1, <4>3
      <4> QED
        BY <4>2, <4>4
    <3> QED
      BY <2>1, <3>3, <3>4, <3>5, SameEscrow, LedgerPayOut
  <2> QED
    BY <2>2, <2>3
<1>7. ASSUME NEW from \in Address, NEW to \in Address \cup {Contract},
             NEW amount \in AmountArg, TokenTransfer(from, to, amount)
      PROVE  [Ledger!Next]_(Ledger!ledger)
  <2>1. /\ from # to /\ amount > 0 /\ CanTransfer(from, to, amount)
        /\ balance' = Transferred(from, to, amount)
        /\ UNCHANGED <<token, deposit, operator_balance>>
    BY <1>7 DEF TokenTransfer, store
  <2>2. amount \in Nat /\ amount \in 1..Wallet[from]
    BY <1>0, <2>1 DEF CanTransfer, Wallet
  <2>3. CASE to = Contract
    <3>1. Surplus' = Surplus + amount
      BY <1>7, <2>3, TransferStep
    <3>2. Wallet' = [Wallet EXCEPT ![from] = @ - amount]
      BY <1>0, <2>1, <2>2, <2>3, WalletMoves
    <3> QED
      BY <2>1, <2>2, <3>1, <3>2, SameEscrow, SameOwed, LedgerDonate
  <2>4. CASE to # Contract
    <3>1. Surplus' = Surplus
      BY <1>7, <2>4, TransferStep
    <3>2. Wallet' = [Wallet EXCEPT ![from] = @ - amount, ![to] = @ + amount]
      BY <1>0, <2>1, <2>2, <2>4, WalletMoves
    <3> QED
      BY <2>1, <2>2, <2>4, <3>1, <3>2, SameEscrow, SameOwed, LedgerPay
  <2> QED
    BY <2>3, <2>4
<1>8. ASSUME NEW amount \in AmountArg, TokenClawback(amount)
      PROVE  [Ledger!Next]_(Ledger!ledger)
  <2>1. token = "revocable" /\ Surplus' < Surplus
    BY <1>8, ClawbackStep
  <2>2. /\ UNCHANGED <<token, deposit, operator_balance>>
        /\ balance' = [balance EXCEPT ![Contract] = @ - amount]
    BY <1>8 DEF TokenClawback, store
  <2>3. Wallet' = Wallet
    BY <1>0, <2>2 DEF Wallet, BooksInv, TypeOK
  <2> QED
    BY <2>1, <2>2, <2>3, SameEscrow, SameOwed, LedgerRevoke
<1> QED
  BY <1>2, <1>3, <1>4, <1>5, <1>6, <1>7, <1>8 DEF Next

\* The contract implements PrepaidLedger: money moves from wallet to escrow,
\* from escrow to the operator's claim and from there to its wallet, and no
\* call moves it otherwise (lib.rs, all entrypoints).
THEOREM ContractRefinesLedger == Spec => RefinesPrepaidLedger
PROOF
<1>1. Init => Ledger!Init
  <2> SUFFICES ASSUME Init PROVE Ledger!Init
    OBVIOUS
  <2>1. BooksInv /\ Surplus = 0
    BY InitBooks
  <2>2. DOMAIN deposit = {} /\ DOMAIN operator_balance = {}
    BY DEF Init
  <2>3. Wallet \in [Address -> Nat]
    BY <2>1, LedgerTypes
  <2>4. Escrow = [a \in Address |-> 0]
    BY <2>2 DEF Escrow, GetOr
  <2>5. OwedTo = [a \in Address |-> 0]
    BY <2>2 DEF OwedTo, Withdrawable, read_operator_balance, GetOr, NoEarnings
  <2> QED
    BY <2>1, <2>3, <2>4, <2>5 DEF Ledger!Init, Wallet, Escrow, OwedTo
<1>2. BooksInv /\ [Next]_vars => [Ledger!Next]_(Ledger!ledger)
  BY LedgerStep
<1>3. BooksInv /\ [Next]_vars => BooksInv'
  BY NextBooks
<1> QED
  BY <1>1, <1>2, <1>3, InitBooks, PTL DEF Spec, RefinesPrepaidLedger, Ledger!Spec

----------------------------------------------------------------------------
(* The event log implements MeterLog.                                      *)

\* The refinement mapping of Log.
LogEntry(e) ==
    [device |-> e.device, seq |-> e.seq, units |-> e.delta_units,
     cost |-> e.total_cost, balance_after |-> e.balance_after]
LogOf == [i \in DOMAIN meter |-> LogEntry(meter[i])]
Funded == [a \in Address |-> GetOr(deposit, a, 0) + Total(CostsOf(a))]

\* MeterLog counts as this module does: the instance has its own copy of the
\* library's operators.
LEMMA LogCardinality ==
  ASSUME NEW S
  PROVE  Log!Cardinality(S) = Cardinality(S)
BY Zenon DEF Log!Cardinality, Cardinality

\* And so for totals.
LEMMA LogTotal ==
  ASSUME NEW f
  PROVE  Log!Total(f) = Total(f)
BY LogCardinality DEF Log!Total, Log!Units, Total, Units

\* The abstract log holds the readings the contract's log holds, at their cost.
LEMMA LogReadings ==
  ASSUME NEW d
  PROVE  /\ Log!ReadingsOf(d) = EventsOf(d)
         /\ Log!Spent(d) = Total(CostsOf(d))
PROOF
<1>1. Log!ReadingsOf(d) = EventsOf(d)
  BY DEF Log!ReadingsOf, EventsOf
<1>2. [i \in Log!ReadingsOf(d) |-> LogOf[i].cost] = CostsOf(d)
  BY <1>1 DEF LogOf, LogEntry, CostsOf, EventsOf
<1> QED
  BY <1>1, <1>2, LogTotal DEF Log!Spent, LogOf, LogEntry

\* Steps without a reading or a deposit leave the abstract log alone.
LEMMA LogStutter ==
  UNCHANGED <<Escrow, meter>> => UNCHANGED Log!meter_log
PROOF
<1> SUFFICES ASSUME UNCHANGED <<Escrow, meter>> PROVE UNCHANGED Log!meter_log
  OBVIOUS
<1>1. LogOf' = LogOf
  BY DEF LogOf
<1>2. \A a : CostsOf(a)' = CostsOf(a)
  BY DEF CostsOf, EventsOf
<1>3. \A a : Total(CostsOf(a))' = Total(CostsOf(a)')
  BY DEF Total, Units
<1>4. \A a \in Address : GetOr(deposit, a, 0)' = GetOr(deposit, a, 0)
  <2>1. \A a \in Address : Escrow'[a] = Escrow[a]
    OBVIOUS
  <2> QED
    BY <2>1 DEF Escrow
<1>5. Funded' = Funded
  BY <1>2, <1>3, <1>4 DEF Funded
<1> QED
  BY <1>1, <1>5 DEF Log!meter_log, LogOf, LogEntry, Funded, CostsOf

\* A deposit funds the device's account.
LEMMA LogFund ==
  ASSUME BooksInv, NEW d \in Address, NEW amount \in AmountArg, amount > 0,
         Escrow' = [Escrow EXCEPT ![d] = @ + amount], UNCHANGED meter
  PROVE  Log!Next
PROOF
<1>1. LogOf' = LogOf
  BY DEF LogOf
<1>2. \A a : CostsOf(a)' = CostsOf(a)
  BY DEF CostsOf, EventsOf
<1>3. \A a : Total(CostsOf(a))' = Total(CostsOf(a)')
  BY DEF Total, Units
<1>4. \A a \in Address : GetOr(deposit, a, 0)' =
         IF a = d THEN GetOr(deposit, a, 0) + amount ELSE GetOr(deposit, a, 0)
  <2>1. \A a \in Address : Escrow'[a] = IF a = d THEN Escrow[a] + amount ELSE Escrow[a]
    BY DEF Escrow
  <2> QED
    BY <2>1 DEF Escrow
<1>5. /\ amount \in Int
      /\ \A a \in Address : GetOr(deposit, a, 0) \in Int /\ Total(CostsOf(a)) \in Int
  BY LedgerTypes, LogSumsType DEF Escrow
<1>6. \A a \in Address : Funded'[a] = IF a = d THEN Funded[a] + amount ELSE Funded[a]
  BY <1>2, <1>3, <1>4, <1>5 DEF Funded
<1>7. Funded' = [Funded EXCEPT ![d] = @ + amount]
  BY <1>6 DEF Funded
<1>8. Log!Fund(d, amount)
  BY <1>1, <1>7 DEF Log!Fund, LogOf, LogEntry, Funded, CostsOf
<1> QED
  BY <1>8 DEF Log!Next

\* A billed reading takes the device's next number and its cost from what is
\* left of its deposits.
LEMMA LogBill ==
  ASSUME BooksInv, LogInv, NEW d \in Address, NEW delta \in UnitArg,
         NEW seq \in SeqArg, NEW ts \in Timestamp, NEW sig \in Signature,
         BilledStep(d, delta, seq, ts, sig)
  PROVE  Log!Next
PROOF
<1> DEFINE e == MeterData(d, delta, seq, sig)
<1>0. PICK cost : cost = TotalCost(d, delta)
  OBVIOUS
<1>1. /\ d \in DOMAIN registration
      /\ seq = ReadingOf(d).last_seq + 1
      /\ delta \in 1..MaxU64
      /\ deposit[d] \in 0..MaxI128
      /\ cost \in 0..deposit[d]
      /\ meter' = Append(meter, e)
      /\ deposit' = Put(deposit, d, deposit[d] - cost)
  BY <1>0, BilledWrites DEF BilledStep, BillReading
<1>2. /\ e.device = d /\ e.delta_units = delta /\ e.total_cost = cost
      /\ e.balance_after = deposit[d] - cost /\ e.seq = seq
  BY <1>0 DEF MeterData
<1>3. /\ delta \in UnitArg \ {0}
      /\ cost \in Charge
  <2>1. tariff[d] \in RateArg
    BY <1>1 DEF LogInv
  <2>2. cost \in Nat
    BY <1>1, ContractAssumption
  <2> QED
    BY <1>0, <1>1, <2>1, <2>2 DEF TotalCost, Charge
<1> HIDE DEF e
<1>4. cost \in Nat /\ deposit[d] \in Nat /\ delta \in Nat
  BY <1>1, ContractAssumption
<1>5. GetOr(deposit, d, 0) = deposit[d]
  BY <1>1 DEF GetOr, BooksInv, TypeOK
<1>6. /\ Total(CostsOf(d)') = Total(CostsOf(d)) + cost
      /\ \A x : x # d => CostsOf(x)' = CostsOf(x)
  BY <1>1, <1>2, <1>4, LogSumsBilled
<1>7. Total(CostsOf(d)) \in Nat
  BY LogSumsType
<1>8. Funded' = Funded
  <2>1. \A a : Total(CostsOf(a))' = Total(CostsOf(a)')
    BY DEF Total, Units
  <2>2. \A a : GetOr(deposit, a, 0)' = IF a = d THEN deposit[d] - cost
                                               ELSE GetOr(deposit, a, 0)
    BY <1>1 DEF GetOr, Put
  <2>3. \A a \in Address : GetOr(deposit, a, 0)' + Total(CostsOf(a))'
                             = GetOr(deposit, a, 0) + Total(CostsOf(a))
    BY <1>4, <1>5, <1>6, <1>7, <2>1, <2>2
  <2> QED
    BY <2>3 DEF Funded
<1>9. Funded[d] - Log!Spent(d) = deposit[d]
  BY <1>4, <1>5, <1>7, LogReadings DEF Funded
<1>10. Cardinality(Log!ReadingsOf(d)) + 1 = seq
  BY <1>1, LogReadings DEF LogInv
<1>11. PICK S : LogOf \in Seq(S) /\ LogEntry(e) \in S /\ Len(LogOf) = Len(meter)
  <2> DEFINE T == {LogEntry(meter[i]) : i \in DOMAIN meter} \cup {LogEntry(e)}
  <2>1. DOMAIN meter = 1..Len(meter) /\ Len(meter) \in Nat
    BY EventsType
  <2>2. LogOf \in [1..Len(meter) -> T]
    BY <2>1 DEF LogOf
  <2> HIDE DEF T
  <2>3. LogOf \in Seq(T) /\ Len(LogOf) = Len(meter)
    BY <2>1, <2>2
  <2> QED
    BY <2>3 DEF T
<1>12. LogOf' = Append(LogOf, LogEntry(e)) /\ Len(LogOf') = Len(LogOf) + 1
  <2>1. /\ DOMAIN meter' = 1..(Len(meter) + 1)
        /\ meter'[Len(meter) + 1] = e
        /\ \A i \in 1..Len(meter) : meter'[i] = meter[i]
        /\ DOMAIN meter = 1..Len(meter) /\ Len(meter) \in Nat
    BY <1>1, EventsAppend, EventsType
  <2>2. LogOf' = [i \in 1..(Len(meter) + 1) |-> LogEntry(meter'[i])]
    BY <2>1 DEF LogOf
  <2>3. /\ Append(LogOf, LogEntry(e)) \in Seq(S)
        /\ Len(Append(LogOf, LogEntry(e))) = Len(LogOf) + 1
        /\ \A i \in 1..Len(LogOf) : Append(LogOf, LogEntry(e))[i] = LogOf[i]
        /\ Append(LogOf, LogEntry(e))[Len(LogOf) + 1] = LogEntry(e)
    BY <1>11, AppendProperties
  <2>4. \A i \in 1..Len(meter) : LogOf[i] = LogEntry(meter[i])
    BY <2>1 DEF LogOf
  <2> DEFINE t == Append(LogOf, LogEntry(e))
  <2>5. \A i \in 1..(Len(meter) + 1) : LogEntry(meter'[i]) = t[i]
    BY <1>11, <2>1, <2>3, <2>4
  <2> HIDE DEF t
  <2>6. t = [i \in 1..(Len(meter) + 1) |-> t[i]]
    BY <1>11, <2>3, LenProperties DEF t
  <2>7. LogOf' = t
    BY <2>2, <2>5, <2>6
  <2> QED
    BY <2>3, <2>7 DEF t
<1>13. LogEntry(e) = [device |-> d, seq |-> seq, units |-> delta, cost |-> cost,
                      balance_after |-> deposit[d] - cost]
  BY <1>2 DEF LogEntry
<1>14. Log!Bill(d, delta, cost)
  <2>1. cost <= Funded[d] - Log!Spent(d)
    BY <1>1, <1>4, <1>9
  <2>2. LogOf' = Append(LogOf, [device |-> d,
                                seq |-> Cardinality(Log!ReadingsOf(d)) + 1,
                                units |-> delta, cost |-> cost,
                                balance_after |-> Funded[d] - Log!Spent(d) - cost])
    BY <1>9, <1>10, <1>12, <1>13
  <2> QED
    BY <1>8, <2>1, <2>2, LogCardinality, Zenon DEF Log!Bill, LogOf, LogEntry, Funded, CostsOf
<1>15. \E x \in Address, units \in UnitArg \ {0}, c \in Charge : Log!Bill(x, units, c)
  BY <1>3, <1>14
<1>16. Len(LogOf') = Len(LogOf) + 1
  BY <1>12
<1> QED
  BY <1>15, <1>16 DEF Log!Next, LogOf, LogEntry

\* The contract's events implement MeterLog: readings numbered without gaps, and
\* balances that add up with the costs to what was deposited, for a reader who
\* sees events only (lib.rs deposit_funds, submit_reading).
THEOREM EventsImplementLog == Spec => ImplementsMeterLog
PROOF
<1>1. Init => Log!Init
  <2> SUFFICES ASSUME Init PROVE Log!Init
    OBVIOUS
  <2>1. meter = << >> /\ DOMAIN deposit = {}
    BY DEF Init
  <2>2. LogOf = << >>
    BY <2>1 DEF LogOf
  <2>3. \A a : DOMAIN CostsOf(a) = {}
    BY <2>1 DEF CostsOf, EventsOf
  <2>4. Funded = [a \in Address |-> 0]
    BY <2>1, <2>3, TotalEmpty DEF Funded, GetOr
  <2> QED
    BY <2>2, <2>4 DEF Log!Init, LogOf, LogEntry, Funded, CostsOf
<1>2. BooksInv /\ LogInv /\ [Next]_vars => [Log!Next]_(Log!meter_log)
  <2> SUFFICES ASSUME BooksInv, LogInv, [Next]_vars
               PROVE  [Log!Next]_(Log!meter_log)
    OBVIOUS
  <2>1. CASE UNCHANGED vars
    BY <2>1, SameEscrow, LogStutter DEF vars
  <2>2. ASSUME NEW d \in Address, NEW pubkey \in PubKey, NEW op \in Address,
               NEW rate \in RateArg, NEW auth \in SUBSET Address,
               RegisterDevice(d, pubkey, op, rate, auth)
        PROVE  UNCHANGED Log!meter_log
    <3>1. Escrow' = Escrow
      <4>1. CASE RegisterError(d, op, rate, auth) # "Ok"
        BY <2>2, <4>1, SameEscrow DEF RegisterDevice, store
      <4>2. CASE RegisterError(d, op, rate, auth) = "Ok"
        <5>1. d \notin DOMAIN deposit /\ deposit' = Put(deposit, d, 0)
          BY <2>2, <4>2 DEF RegisterDevice, RegisterError, BooksInv, TypeOK
        <5> QED
          BY <5>1 DEF Escrow, GetOr, Put
      <4> QED
        BY <4>1, <4>2
    <3> QED
      BY <2>2, <3>1, LogStutter DEF RegisterDevice
  <2>3. ASSUME NEW d \in Address, NEW amount \in AmountArg,
               NEW auth \in SUBSET Address, DepositFunds(d, amount, auth)
        PROVE  [Log!Next]_(Log!meter_log)
    <3>1. CASE DepositError(d, amount, auth) # "Ok"
      BY <2>3, <3>1, SameEscrow, LogStutter DEF DepositFunds
    <3>2. CASE DepositError(d, amount, auth) = "Ok"
      <4>1. /\ ~(amount <= 0)
            /\ deposit' = Put(deposit, d, GetOr(deposit, d, 0) + amount)
            /\ UNCHANGED meter
        BY <2>3, <3>2 DEF DepositFunds, DepositError
      <4>2. amount > 0
        BY <4>1, LedgerTypes
      <4>3. Escrow' = [Escrow EXCEPT ![d] = GetOr(deposit, d, 0) + amount]
        BY <4>1, EscrowMoves
      <4>4. Escrow' = [Escrow EXCEPT ![d] = @ + amount]
        BY <4>3 DEF Escrow
      <4> QED
        BY <4>1, <4>2, <4>4, LogFund
    <3> QED
      BY <3>1, <3>2
  <2>4. ASSUME NEW d \in Address, NEW delta \in UnitArg, NEW seq \in SeqArg,
               NEW ts \in Timestamp, NEW sig \in Signature,
               SubmitReading(d, delta, seq, ts, sig)
        PROVE  [Log!Next]_(Log!meter_log)
    <3>1. CASE SubmitError(d, delta, seq, ts, sig) # "Ok"
      BY <2>4, <3>1, SameEscrow, LogStutter DEF SubmitReading, store
    <3>2. CASE SubmitError(d, delta, seq, ts, sig) = "Ok"
      BY <2>4, <3>2, LogBill DEF SubmitReading, BilledStep
    <3> QED
      BY <3>1, <3>2
  <2>5. ASSUME NEW o \in Address, NEW amount \in AmountArg,
               NEW auth \in SUBSET Address, SettleBalance(o, amount, auth)
        PROVE  UNCHANGED Log!meter_log
    BY <2>5, SameEscrow, LogStutter DEF SettleBalance
  <2>6. ASSUME NEW from \in Address, NEW to \in Address \cup {Contract},
               NEW amount \in AmountArg, TokenTransfer(from, to, amount)
        PROVE  UNCHANGED Log!meter_log
    BY <2>6, SameEscrow, LogStutter DEF TokenTransfer, store
  <2>7. ASSUME NEW amount \in AmountArg, TokenClawback(amount)
        PROVE  UNCHANGED Log!meter_log
    BY <2>7, SameEscrow, LogStutter DEF TokenClawback, store
  <2> QED
    BY <2>1, <2>2, <2>3, <2>4, <2>5, <2>6, <2>7 DEF Next
<1> QED
  BY <1>1, <1>2, LogInduction, PTL DEF Spec, ImplementsMeterLog, Log!Spec
============================================================================
