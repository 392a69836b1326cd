-------------------------- MODULE BillingContract --------------------------
(***************************************************************************)
(* The Soroban billing contract (contracts/src/lib.rs, storage.rs) and the *)
(* SEP-41 token it moves.                                                  *)
(*                                                                         *)
(* An invocation is atomic.  If it returns Err, or the host traps, the     *)
(* host discards every write it made, the write_deposit that precedes a    *)
(* late Overflow in submit_reading included.  Each entrypoint is therefore *)
(* an operator that names the first error the code runs into, in the order *)
(* of the code's checks, and an action that applies all of the entrypoint's*)
(* writes when that error is "Ok" and none of them otherwise.              *)
(*                                                                         *)
(* Left out: timestamps the contract stores and never reads back           *)
(* (registered_at, last_ts) and the events of topics other than `meter`,   *)
(* which no consumer in the repository decodes.  Entry lifetimes (bump_ttl)*)
(* are the subject of a separate module.                                   *)
(***************************************************************************)
EXTENDS Integers, FiniteSets, Sequences, Tally

CONSTANTS
    Address,        \* accounts: each may be a device, an operator or both (a
                    \* host that lets a frame authorize an address only once
                    \* rejects device = operator: it has fewer behaviours)
    Contract,       \* the billing contract's own address
    PubKey,         \* ed25519 public keys
    Timestamp,      \* values of the signed timestamp field
    RateArg,        \* values callers pass for rate_per_unit
    AmountArg,      \* values callers pass for an amount
    UnitArg,        \* values callers pass for delta_units
    SeqArg,         \* values callers pass for data_seq
    MaxI128,        \* i128::MAX
    MaxU64,         \* u64::MAX
    Mint,           \* token units each account holds at deployment
    TokenArg        \* the kinds of token a deployment may name: "plain", or
                    \* "revocable" when its issuer can take from custody

ASSUME ContractAssumption ==
    /\ IsFiniteSet(Address)
    /\ Contract \notin Address
    /\ MaxI128 \in Nat
    /\ MaxU64 \in Nat
    /\ Mint \in 0..MaxI128
    /\ RateArg \subseteq (-MaxI128 - 1)..MaxI128
    /\ AmountArg \subseteq (-MaxI128 - 1)..MaxI128
    /\ UnitArg \subseteq 0..MaxU64
    /\ SeqArg \subseteq 0..MaxU64
    /\ TokenArg \subseteq {"plain", "revocable"}

VARIABLES
    token,              \* the Token instance key: "unset", or the token's kind
    registration,       \* device -> operator, status, device_pubkey
    tariff,             \* device -> rate_per_unit
    deposit,            \* device -> escrow amount
    reading,            \* device -> last_seq, cumulative_units
    operator_balance,   \* operator -> total_earned, total_settled
    balance,            \* the SEP-41 token's ledger
    meter,              \* published `meter` events, each with the signature
                        \* it consumed (the signature is history only)
    result              \* the last invocation: entrypoint, outcome, signers used

store == <<token, registration, tariff, deposit, reading, operator_balance>>
vars == <<token, registration, tariff, deposit, reading, operator_balance,
          balance, meter, result>>

Status == {"Active", "Suspended", "Retired"}
Registration == [operator: Address, status: Status, device_pubkey: PubKey]
ReadingCounter == [last_seq: 0..MaxU64, cumulative_units: 0..MaxU64]
OperatorBalance == [total_earned: 0..MaxI128, total_settled: 0..MaxI128]

\* What an ed25519 signature says: the key that made it and the fields of
\* the payload.  Nothing in the payload names the device's address.
Signature == [device_pubkey: PubKey, data_seq: SeqArg, delta_units: UnitArg,
              timestamp: Timestamp]

MeterEvent == [device: Address, delta_units: 0..MaxU64,
               total_cost: 0..MaxI128, balance_after: 0..MaxI128,
               seq: 0..MaxU64, sig: Signature]

Entrypoint == {"none", "register_device", "deposit_funds", "submit_reading",
               "settle_balance"}

Outcome == {"Ok", "NotRegistered", "AlreadyRegistered", "InvalidRate",
            "InvalidAmount", "InsufficientBalance", "ZeroReading", "Overflow",
            "InvalidSequence", "InsufficientEarnings", "DeviceNotActive",
            "NotInitialized",
            \* host traps
            "Unauthorized", "BadSignature", "TransferFailed"}

----------------------------------------------------------------------------
(* Storage reads with a default, and the token's transfer.                 *)

NoReading == [last_seq |-> 0, cumulative_units |-> 0]
NoEarnings == [total_earned |-> 0, total_settled |-> 0]

ReadingOf(d) == GetOr(reading, d, NoReading)
read_operator_balance(o) == GetOr(operator_balance, o, NoEarnings)

\* SEP-41 `transfer` succeeds: the payer holds the amount and the payee's
\* balance does not overflow.
CanTransfer(from, to, amount) ==
    /\ balance[from] >= amount
    /\ balance[to] + amount <= MaxI128

Transferred(from, to, amount) ==
    [balance EXCEPT ![from] = @ - amount, ![to] = @ + amount]

\* What an invocation leaves behind: its outcome and, when it took effect, the
\* accounts whose authorization it used.
Returned(call, err, auth) ==
    [call |-> call, outcome |-> err,
     auth |-> IF err = "Ok" THEN auth ELSE {}]

\* The deployment with its __constructor: the token key is set in the same
\* transaction that creates the contract.
Init ==
    /\ token \in TokenArg
    /\ registration = << >>
    /\ tariff = << >>
    /\ deposit = << >>
    /\ reading = << >>
    /\ operator_balance = << >>
    /\ balance = [a \in Address \cup {Contract} |->
                    IF a = Contract THEN 0 ELSE Mint]
    /\ meter = << >>
    /\ result = [call |-> "none", outcome |-> "Ok", auth |-> {}]

----------------------------------------------------------------------------
(* register_device                                                         *)

\* Mutant: the sign of the rate is not checked.
RegisterErrorAnyRate(d, op, rate, auth) ==
    IF ~({d, op} \subseteq auth) THEN "Unauthorized"
    ELSE IF d \in DOMAIN registration THEN "AlreadyRegistered"
    ELSE "Ok"

RegisterError(d, op, rate, auth) ==
    IF ~({d, op} \subseteq auth) THEN "Unauthorized"
    ELSE IF rate < 0 THEN "InvalidRate"
    ELSE IF d \in DOMAIN registration THEN "AlreadyRegistered"
    ELSE "Ok"

RegisterDevice(d, pubkey, op, rate, auth) ==
    LET err == RegisterError(d, op, rate, auth) IN
    /\ result' = Returned("register_device", err, auth)
    /\ IF err = "Ok"
       THEN /\ registration' =
                  Put(registration, d, [operator |-> op, status |-> "Active",
                                        device_pubkey |-> pubkey])
            /\ tariff' = Put(tariff, d, rate)
            /\ deposit' = Put(deposit, d, 0)
            /\ UNCHANGED <<token, reading, operator_balance>>
       ELSE UNCHANGED store
    /\ UNCHANGED <<balance, meter>>

----------------------------------------------------------------------------
(* deposit_funds                                                           *)

DepositError(d, amount, auth) ==
    IF d \notin auth THEN "Unauthorized"
    ELSE IF d \notin DOMAIN registration THEN "NotRegistered"
    ELSE IF amount <= 0 THEN "InvalidAmount"
    ELSE IF GetOr(deposit, d, 0) + amount > MaxI128 THEN "Overflow"
    ELSE IF token = "unset" THEN "NotInitialized"
    ELSE IF ~CanTransfer(d, Contract, amount) THEN "TransferFailed"
    ELSE "Ok"

DepositFunds(d, amount, auth) ==
    LET err == DepositError(d, amount, auth) IN
    /\ result' = Returned("deposit_funds", err, auth)
    /\ IF err = "Ok"
       THEN /\ balance' = Transferred(d, Contract, amount)
            /\ deposit' = Put(deposit, d, GetOr(deposit, d, 0) + amount)
       ELSE UNCHANGED <<balance, deposit>>
    /\ UNCHANGED <<token, registration, tariff, reading, operator_balance,
                   meter>>

----------------------------------------------------------------------------
(* submit_reading                                                          *)

\* Mutant: the payload is checked, and not whose key signed it.
verify_payload_only(pubkey, seq, delta, ts, sig) ==
    /\ sig.data_seq = seq
    /\ sig.delta_units = delta
    /\ sig.timestamp = ts

\* The host traps unless the signature was made by the registered key over
\* exactly these fields.  (A length other than 64 is ruled out by BytesN.)
verify_signature(pubkey, seq, delta, ts, sig) ==
    sig = [device_pubkey |-> pubkey, data_seq |-> seq, delta_units |-> delta,
           timestamp |-> ts]

\* data_seq is the successor of the last accepted sequence number.
\* Mutant: any number up to the successor is accepted.
NextSequenceOrOlder(d, seq) == seq <= ReadingOf(d).last_seq + 1

NextSequence(d, seq) == seq = ReadingOf(d).last_seq + 1

TotalCost(d, delta) == delta * tariff[d]

SubmitError(d, delta, seq, ts, sig) ==
    IF d \notin DOMAIN registration THEN "NotRegistered"
    ELSE IF registration[d].status # "Active" THEN "DeviceNotActive"
    ELSE IF delta = 0 THEN "ZeroReading"
    ELSE IF ReadingOf(d).last_seq + 1 > MaxU64 THEN "Overflow"
    ELSE IF ~NextSequence(d, seq) THEN "InvalidSequence"
    ELSE IF ~verify_signature(registration[d].device_pubkey, seq, delta, ts,
                              sig) THEN "BadSignature"
    ELSE IF d \notin DOMAIN tariff THEN "NotRegistered"
    ELSE IF tariff[d] < 0 THEN "InvalidRate"
    ELSE IF TotalCost(d, delta) > MaxI128 THEN "Overflow"
    ELSE IF d \notin DOMAIN deposit THEN "NotRegistered"
    ELSE IF TotalCost(d, delta) > deposit[d] THEN "InsufficientBalance"
    ELSE IF read_operator_balance(registration[d].operator).total_earned
              + TotalCost(d, delta) > MaxI128 THEN "Overflow"
    ELSE IF ReadingOf(d).cumulative_units + delta > MaxU64 THEN "Overflow"
    ELSE "Ok"

\* The operator's entry after a reading.
\* Mutant: the credit replaces the earlier earnings.
CreditedLast(bal, cost) == [bal EXCEPT !.total_earned = cost]

Credited(bal, cost) == [bal EXCEPT !.total_earned = @ + cost]

\* The device's counter after a reading.
\* Mutant: the sequence number is not moved on.
CountedUnits(d, seq, delta) ==
    [last_seq |-> ReadingOf(d).last_seq,
     cumulative_units |-> ReadingOf(d).cumulative_units + delta]

Counted(d, seq, delta) ==
    [last_seq |-> seq,
     cumulative_units |-> ReadingOf(d).cumulative_units + delta]

\* The `meter` event of a reading.
\* Mutant: the event reports the balance before the debit.
MeterDataBefore(d, delta, seq, sig) ==
    [device |-> d, delta_units |-> delta, total_cost |-> TotalCost(d, delta),
     balance_after |-> deposit[d], seq |-> seq, sig |-> sig]

MeterData(d, delta, seq, sig) ==
    [device |-> d, delta_units |-> delta, total_cost |-> TotalCost(d, delta),
     balance_after |-> deposit[d] - TotalCost(d, delta),
     seq |-> seq, sig |-> sig]

\* All writes of an accepted reading: debit, credit, counter and event.
BillReading(d, delta, seq, sig) ==
    LET op == registration[d].operator
        cost == TotalCost(d, delta) IN
    /\ deposit' = Put(deposit, d, deposit[d] - cost)
    /\ operator_balance' =
          Put(operator_balance, op, Credited(read_operator_balance(op), cost))
    /\ reading' = Put(reading, d, Counted(d, seq, delta))
    /\ meter' = Append(meter, MeterData(d, delta, seq, sig))
    /\ UNCHANGED <<token, registration, tariff>>

\* Anybody may submit: the signature is the authorization.
SubmitReading(d, delta, seq, ts, sig) ==
    LET err == SubmitError(d, delta, seq, ts, sig) IN
    /\ result' = Returned("submit_reading", err, {})
    /\ IF err = "Ok" THEN BillReading(d, delta, seq, sig)
                     ELSE UNCHANGED <<store, meter>>
    /\ UNCHANGED balance

----------------------------------------------------------------------------
(* settle_balance                                                          *)

\* saturating_sub stops at i128::MIN, far below any difference of two
\* amounts in 0..MaxI128.
Withdrawable(o) ==
    read_operator_balance(o).total_earned
      - read_operator_balance(o).total_settled

SettleError(o, amount, auth) ==
    IF o \notin auth THEN "Unauthorized"
    ELSE IF amount <= 0 THEN "InvalidAmount"
    ELSE IF amount > Withdrawable(o) THEN "InsufficientEarnings"
    ELSE IF token = "unset" THEN "NotInitialized"
    ELSE IF ~CanTransfer(Contract, o, amount) THEN "TransferFailed"
    ELSE IF read_operator_balance(o).total_settled + amount > MaxI128
         THEN "Overflow"
    ELSE "Ok"

\* The operator's entry after a withdrawal.
\* Mutant: the withdrawal is not recorded.
SettledNothing(bal, amount) == bal

Settled(bal, amount) == [bal EXCEPT !.total_settled = @ + amount]

SettleBalance(o, amount, auth) ==
    LET err == SettleError(o, amount, auth) IN
    /\ result' = Returned("settle_balance", err, auth)
    /\ IF err = "Ok"
       THEN /\ balance' = Transferred(Contract, o, amount)
            /\ operator_balance' =
                  Put(operator_balance, o,
                      Settled(read_operator_balance(o), amount))
       ELSE UNCHANGED <<balance, operator_balance>>
    /\ UNCHANGED <<token, registration, tariff, deposit, reading, meter>>

----------------------------------------------------------------------------
(* The token, outside this contract.                                       *)

\* Accounts use the token among themselves, and may send it to the contract
\* without going through deposit_funds.
TokenTransfer(from, to, amount) ==
    /\ from # to
    /\ amount > 0
    /\ CanTransfer(from, to, amount)
    /\ balance' = Transferred(from, to, amount)
    /\ result' = Returned("none", "Ok", {from})
    /\ UNCHANGED <<store, meter>>

\* The issuer drains custody, the case settle_balance's comment allows for.
TokenClawback(amount) ==
    /\ token = "revocable"
    /\ amount \in 1..balance[Contract]
    /\ balance' = [balance EXCEPT ![Contract] = @ - amount]
    /\ result' = Returned("none", "Ok", {})
    /\ UNCHANGED <<store, meter>>

----------------------------------------------------------------------------

Next ==
    \/ \E d \in Address, pubkey \in PubKey, op \in Address, rate \in RateArg,
          auth \in SUBSET Address :
          RegisterDevice(d, pubkey, op, rate, auth)
    \/ \E d \in Address, amount \in AmountArg, auth \in SUBSET Address :
          DepositFunds(d, amount, auth)
    \/ \E d \in Address, delta \in UnitArg, seq \in SeqArg,
          ts \in Timestamp, sig \in Signature :
          SubmitReading(d, delta, seq, ts, sig)
    \/ \E o \in Address, amount \in AmountArg, auth \in SUBSET Address :
          SettleBalance(o, amount, auth)
    \/ \E from \in Address, to \in Address \cup {Contract},
          amount \in AmountArg :
          TokenTransfer(from, to, amount)
    \/ \E amount \in AmountArg : TokenClawback(amount)

Spec == Init /\ [][Next]_vars

----------------------------------------------------------------------------
(* Properties                                                              *)

\* What the operators' ledgers say is still to be paid out.
Owed == [o \in DOMAIN operator_balance |-> Withdrawable(o)]

\* The positions in the event log of one device's readings.
EventsOf(d) == {i \in DOMAIN meter : meter[i].device = d}

\* The types of the storage entries, of the token's ledger, of the event log
\* and of an invocation's outcome.
TypeOK ==
    /\ token \in {"unset", "plain", "revocable"}
    /\ DOMAIN registration \subseteq Address
    /\ registration \in [DOMAIN registration -> Registration]
    /\ tariff \in [DOMAIN registration -> 0..MaxI128]
    /\ deposit \in [DOMAIN registration -> 0..MaxI128]
    /\ DOMAIN reading \subseteq DOMAIN registration
    /\ reading \in [DOMAIN reading -> ReadingCounter]
    /\ DOMAIN operator_balance \subseteq Address
    /\ operator_balance \in [DOMAIN operator_balance -> OperatorBalance]
    /\ balance \in [Address \cup {Contract} -> 0..MaxI128]
    /\ meter \in Seq(MeterEvent)
    /\ result \in [call: Entrypoint, outcome: Outcome, auth: SUBSET Address]

\* With a token nobody can revoke, the contract's custody covers every
\* device's remaining escrow and everything operators have earned and not yet
\* been paid, so settle_balance never pays one party with another's deposit
\* (lib.rs: "it cannot touch device deposits").
Solvency ==
    token = "plain" => Total(deposit) + Total(Owed) <= balance[Contract]

\* An operator's total_earned is exactly the price of all units metered by
\* the devices registered to it: no reading is credited twice, credited at
\* another rate, or credited to somebody else's operator.
RevenueMatchesMeters ==
    \A o \in Address :
        read_operator_balance(o).total_earned =
            Total([d \in {d \in DOMAIN reading :
                             registration[d].operator = o} |->
                     tariff[d] * reading[d].cumulative_units])

\* The published events of a device are its readings 1, 2, ..., last_seq, in
\* that order and each once, and their units add up to cumulative_units: the
\* event stream alone is enough to rebuild the meter, as the indexer does.
EventsMatchMeters ==
    \A d \in Address :
        /\ {meter[i].seq : i \in EventsOf(d)} = 1..ReadingOf(d).last_seq
        /\ \A i, j \in EventsOf(d) : i < j => meter[i].seq < meter[j].seq
        /\ Total([i \in EventsOf(d) |-> meter[i].delta_units])
              = ReadingOf(d).cumulative_units

\* A dashboard that shows the balance_after of a device's latest event never
\* shows more than the escrow the device has: later deposits only raise it.
EventBalanceIsLowerBound ==
    \A i \in DOMAIN meter :
        (\A j \in EventsOf(meter[i].device) : j <= i)
            => meter[i].balance_after <= deposit[meter[i].device]

\* Replay protection: a device is never billed twice on one signature.
NoReplay ==
    \A i, j \in DOMAIN meter :
        /\ meter[i].device = meter[j].device
        /\ meter[i].sig = meter[j].sig
        => i = j

\* Defensive checks that no history of calls can trip: the token key is
\* always there, every registered device is active, a stored tariff is never
\* negative and total_settled cannot overflow.
NoImpossibleFailure ==
    /\ result.outcome \notin {"NotInitialized", "DeviceNotActive"}
    /\ result.call = "submit_reading" => result.outcome # "InvalidRate"
    /\ result.call = "settle_balance" => result.outcome # "Overflow"

\* Nobody loses anything without consent: a wallet shrinks and earnings are
\* settled only in a transaction the owner signed, and escrow shrinks only by
\* the cost of a new event that carries a signature of the device's key.
OwnersConsent ==
    [][\A a \in Address :
         /\ balance'[a] < balance[a] => a \in result'.auth
         /\ Withdrawable(a)' < Withdrawable(a) => a \in result'.auth
         /\ a \in DOMAIN deposit /\ deposit'[a] < deposit[a] =>
              LET e == meter'[Len(meter')] IN
                 /\ meter' = Append(meter, e)
                 /\ e.device = a
                 /\ e.sig.device_pubkey = registration[a].device_pubkey
                 /\ e.total_cost = deposit[a] - deposit'[a]]_vars

\* Custody less everything the contract's books promise to somebody.
Surplus == balance[Contract] - Total(deposit) - Total(Owed)

\* What the proofs carry from state to state: the defensive checks are never
\* needed, and no operator has been paid more than it earned.
BooksInv ==
    /\ TypeOK
    /\ token # "unset"
    /\ \A d \in DOMAIN registration : registration[d].status = "Active"
    /\ \A o \in DOMAIN operator_balance :
          operator_balance[o].total_settled <= operator_balance[o].total_earned

\* What the proofs about the event log carry besides: every event belongs to a
\* registered device and was signed with the number it bears, a device has as
\* many events as readings, and each of them was billed at a rate somebody
\* passed to register_device.
LogInv ==
    /\ \A i \in DOMAIN meter : /\ meter[i].device \in DOMAIN registration
                               /\ meter[i].sig.data_seq = meter[i].seq
    /\ \A d \in Address : Cardinality(EventsOf(d)) = ReadingOf(d).last_seq
    /\ \A d \in DOMAIN registration : tariff[d] \in RateArg
    /\ EventsMatchMeters
    /\ EventBalanceIsLowerBound

\* Only the issuer can open a gap between the books and custody: whatever an
\* entrypoint does, and however short custody already is, obligations grow
\* and custody shrinks together or not at all (the transfer and the ledger
\* write of deposit_funds and of settle_balance happen both or neither).
GapOnlyByClawback ==
    [][Surplus' < Surplus => Total(balance') < Total(balance)]_vars

\* The contract's books implement the prepaid ledger.
Ledger == INSTANCE PrepaidLedger WITH
    wallet <- [a \in Address |-> balance[a]],
    escrow <- [a \in Address |-> GetOr(deposit, a, 0)],
    owed <- [a \in Address |-> Withdrawable(a)],
    surplus <- Surplus,
    revocable <- token = "revocable"

\* Every invocation moves money only the way PrepaidLedger allows, or not at
\* all: rejected calls, registrations and late overflows move nothing.
RefinesPrepaidLedger == Ledger!Spec

\* What a reading may cost.
Charge == {units * rate : units \in UnitArg, rate \in RateArg} \cap Nat

\* The events without the signatures, and what each device ever deposited: its
\* escrow and what its readings took from it.
Log == INSTANCE MeterLog WITH
    Device <- Address,
    Amount <- {amount \in AmountArg : amount > 0},
    Unit <- UnitArg \ {0},
    Cost <- Charge,
    log <- [i \in DOMAIN meter |->
              [device |-> meter[i].device, seq |-> meter[i].seq,
               units |-> meter[i].delta_units, cost |-> meter[i].total_cost,
               balance_after |-> meter[i].balance_after]],
    funded <- [a \in Address |->
                 GetOr(deposit, a, 0)
                   + Total([i \in EventsOf(a) |-> meter[i].total_cost])]

\* The event log alone tells a device's whole account: readings numbered
\* without gaps, and balances that add up with the costs to the deposits.
ImplementsMeterLog == Log!Spec

\* storage.rs on verify_signature: the payload is bound to the device's key
\* and sequence "so a captured signature cannot be replayed or re-signed
\* across devices", that is, one signature bills one reading.
SignatureBilledOnce ==
    \A i, j \in DOMAIN meter : meter[i].sig = meter[j].sig => i = j

============================================================================
