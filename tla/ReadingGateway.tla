--------------------------- MODULE ReadingGateway --------------------------
(***************************************************************************)
(* The way of a reading to the contract: the device emulator               *)
(* (emulator/client.py), the gateway's handler for POST /api/readings and  *)
(* relayReading (backend/src/api/readings.js), and what they use of the    *)
(* network and of the contract.                                            *)
(*                                                                         *)
(* The handler is suspended at every await, so the requests in flight      *)
(* interleave; all of them relay from one account.  The emulator posts one *)
(* reading at a time, but gives up after five seconds and goes on while    *)
(* the handler is still at work.  It never sends a reading twice.          *)
(*                                                                         *)
(* A post that lacks a field, has a number out of range or a signature     *)
(* that does not verify is answered at once and changes nothing, so the    *)
(* posts here are those that pass.  The gateway derives the device's       *)
(* address from its key, so a device is its key.  All readings cost the    *)
(* same: a device's escrow is the number of readings it pays for.          *)
(***************************************************************************)
EXTENDS Integers, FiniteSets

CONSTANTS
    Device,         \* devices, registered with the contract
    Request,        \* requests the backend may be handling at once
    MaxSeq,         \* bound: device -> readings it emits
    MaxFunds        \* bound: readings a device's escrow can pay for

ASSUME GatewayAssumption ==
    /\ MaxSeq \in [Device -> Nat]
    /\ MaxFunds \in Nat

VARIABLES
    seq,                \* device -> the emulator's counter
    seen,               \* readings that left their device
    configured,         \* whether contractId and relayerSecret are set
    request,            \* the local variables of each handler
    pending_readings,   \* the readings in the table; each has a tx_hash if
                        \* and only if there is a relayer
    account,            \* the relayer account's sequence number
    queue,              \* the relayer's transaction in the network's queue
    expired,            \* readings whose transaction left the queue unapplied
    last_seq,           \* device -> the contract's reading counter
    escrow              \* device -> readings the deposit still pays for

device_vars == <<seq, seen>>
gateway_vars == <<configured, request, pending_readings>>
chain_vars == <<account, queue, expired, last_seq, escrow>>
vars == <<seq, seen, configured, request, pending_readings, account, queue,
          expired, last_seq, escrow>>

Reading == [device: Device, seq: Nat]

\* pc names the await a handler is suspended at.
RequestState == [pc: {"getAccount", "prepare", "send", "record"},
                 reading: Reading,
                 sequence: Nat,     \* the transaction's sequence number
                 client: BOOLEAN]   \* the emulator waits for the answer

Transaction == [reading: Reading, sequence: Nat]

Init ==
    /\ seq = [d \in Device |-> 0]
    /\ seen = {}
    /\ configured \in BOOLEAN
    /\ request = << >>
    /\ pending_readings = {}
    /\ account = 0
    /\ queue = {}
    /\ expired = {}
    /\ last_seq = [d \in Device |-> 0]
    /\ escrow = [d \in Device |-> 0]

----------------------------------------------------------------------------
(* The contract: would submit_reading accept this reading now?             *)

\* Mutant: later readings are accepted over a gap.
AcceptsLater(rd) ==
    /\ rd.seq > last_seq[rd.device]
    /\ escrow[rd.device] > 0

Accepts(rd) ==
    /\ rd.seq = last_seq[rd.device] + 1
    /\ escrow[rd.device] > 0

\* submit_reading of an accepted reading.
Bill(rd) ==
    /\ last_seq' = [last_seq EXCEPT ![rd.device] = rd.seq]
    /\ escrow' = [escrow EXCEPT ![rd.device] = @ - 1]

\* deposit_funds
TopUp(d) ==
    /\ escrow[d] < MaxFunds
    /\ escrow' = [escrow EXCEPT ![d] = @ + 1]
    /\ UNCHANGED <<device_vars, gateway_vars, account, queue, expired, last_seq>>

\* Anybody who has a signed reading may submit it from an account of their
\* own.
SubmitElsewhere(rd) ==
    /\ Accepts(rd)
    /\ Bill(rd)
    /\ UNCHANGED <<device_vars, gateway_vars, account, queue, expired>>

----------------------------------------------------------------------------
(* The emulator: emit() and deliver(), one reading at a time.              *)

Waiting(d) ==
    \E r \in DOMAIN request : request[r].client /\ request[r].reading.device = d

\* The reading emit() signs next.
Emitted(d) == [device |-> d, seq |-> seq[d] + 1]

CanEmit(d) == seq[d] < MaxSeq[d] /\ ~Waiting(d)

\* The handler up to its first await: the relay's, or the insertion when
\* there is nothing to relay with.
Receive(r, rd, client) ==
    /\ r \notin DOMAIN request
    /\ request' = [x \in DOMAIN request \cup {r} |->
                     IF x # r THEN request[x]
                     ELSE [pc |-> IF configured THEN "getAccount" ELSE "record",
                           reading |-> rd, sequence |-> 0, client |-> client]]

Emit(d, r) ==
    /\ CanEmit(d)
    /\ seq' = [seq EXCEPT ![d] = @ + 1]
    /\ seen' = seen \cup {Emitted(d)}
    /\ Receive(r, Emitted(d), TRUE)
    /\ UNCHANGED <<configured, pending_readings, chain_vars>>

\* The backend is down, unreachable, or the rate limiter answers 429: the
\* emulator prints it and forgets the reading.
EmitLost(d) ==
    /\ CanEmit(d)
    /\ seq' = [seq EXCEPT ![d] = @ + 1]
    /\ UNCHANGED <<seen, gateway_vars, chain_vars>>

\* Something between the two delivers a reading a second time.
Redeliver(rd, r) ==
    /\ Receive(r, rd, FALSE)
    /\ UNCHANGED <<device_vars, configured, pending_readings, chain_vars>>

\* urlopen's timeout; the handler does not notice.
ClientTimeout(r) ==
    /\ request[r].client
    /\ request' = [request EXCEPT ![r].client = FALSE]
    /\ UNCHANGED <<device_vars, configured, pending_readings, chain_vars>>

----------------------------------------------------------------------------
(* relayReading and the rest of the handler.                               *)

Goto(r, pc) == request' = [request EXCEPT ![r].pc = pc]

\* The handler answers and is done.
Answer(r) == request' = [x \in DOMAIN request \ {r} |-> request[x]]

\* account = await getAccount(); the transaction takes the next number.
GetAccount(r) ==
    /\ request[r].pc = "getAccount"
    /\ request' = [request EXCEPT ![r].pc = "prepare",
                                  ![r].sequence = account + 1]
    /\ UNCHANGED <<device_vars, configured, pending_readings, chain_vars>>

\* await prepareTransaction(tx): simulation against the newest ledger, which
\* throws when the contract would refuse.
\* Mutant: the outcome of the simulation is not looked at.
SimulatesAnyhow(rd) == TRUE

Simulates(rd) == Accepts(rd)

PrepareTransaction(r) ==
    /\ request[r].pc = "prepare"
    /\ IF Simulates(request[r].reading) THEN Goto(r, "send") ELSE Answer(r)
    /\ UNCHANGED <<device_vars, configured, pending_readings, chain_vars>>

\* The network takes a transaction with the account's next sequence number,
\* and one at a time from each account.
Takes(r) == request[r].sequence = account + 1 /\ queue = {}

\* await sendTransaction(prepared): PENDING, or a status that makes
\* relayReading throw (ERROR, DUPLICATE, TRY_AGAIN_LATER).
\* Mutant: a status other than PENDING is overlooked and the handler never
\* answers.
SendTransactionPending(r) ==
    /\ request[r].pc = "send"
    /\ Takes(r)
    /\ Goto(r, "record")
    /\ queue' = {[reading |-> request[r].reading,
                  sequence |-> request[r].sequence]}
    /\ UNCHANGED <<device_vars, configured, pending_readings, account,
                   expired, last_seq, escrow>>

SendTransaction(r) ==
    /\ request[r].pc = "send"
    /\ IF Takes(r)
       THEN /\ queue' = {[reading |-> request[r].reading,
                          sequence |-> request[r].sequence]}
            /\ Goto(r, "record")
       ELSE /\ Answer(r)
            /\ UNCHANGED queue
    /\ UNCHANGED <<device_vars, configured, pending_readings, account,
                   expired, last_seq, escrow>>

\* await recordPendingReading(...), and the answer: 200 with the tx_hash, or
\* 202 without one.
RecordPendingReading(r) ==
    /\ request[r].pc = "record"
    /\ pending_readings' = pending_readings \cup {request[r].reading}
    /\ Answer(r)
    /\ UNCHANGED <<device_vars, configured, chain_vars>>

\* A call of the relay or the insertion after it rejects: 502.  A call that
\* took effect before its answer was lost is the effect followed by this.
RelayFails(r) ==
    /\ configured
    /\ Answer(r)
    /\ UNCHANGED <<device_vars, configured, pending_readings, chain_vars>>

\* The process dies, also because the insertion of an unrelayed reading
\* rejected, or a key or signature was null or a number: nothing catches it.
Crash ==
    /\ request' = << >>
    /\ UNCHANGED <<device_vars, configured, pending_readings, chain_vars>>

----------------------------------------------------------------------------
(* The network.                                                            *)

\* A ledger with the transaction closes.  It uses up the sequence number
\* also when the contract refuses the reading.
ApplyTransaction ==
    \E tx \in queue :
        /\ queue' = {}
        /\ account' = tx.sequence
        /\ IF Accepts(tx.reading)
           THEN Bill(tx.reading)
           ELSE UNCHANGED <<last_seq, escrow>>
        /\ UNCHANGED <<device_vars, gateway_vars, expired>>

\* setTimeout(30): the transaction was not included in time.
ExpireTransaction ==
    \E tx \in queue :
        /\ queue' = {}
        /\ expired' = expired \cup {tx.reading}
        /\ UNCHANGED <<device_vars, gateway_vars, account, last_seq, escrow>>

----------------------------------------------------------------------------

HandlerStep(r) ==
    \/ GetAccount(r)
    \/ PrepareTransaction(r)
    \/ SendTransaction(r)
    \/ RecordPendingReading(r)

Next ==
    \/ \E d \in Device : TopUp(d) \/ EmitLost(d)
    \/ \E d \in Device, r \in Request : Emit(d, r)
    \/ \E rd \in seen : SubmitElsewhere(rd)
    \/ \E rd \in seen, r \in Request : Redeliver(rd, r)
    \/ \E r \in DOMAIN request :
          HandlerStep(r) \/ ClientTimeout(r) \/ RelayFails(r)
    \/ Crash
    \/ ApplyTransaction
    \/ ExpireTransaction

Spec == Init /\ [][Next]_vars

\* Awaits are eventually answered.
FairSpec ==
    /\ Spec
    /\ \A r \in Request : WF_vars(r \in DOMAIN request /\ HandlerStep(r))

----------------------------------------------------------------------------
(* Properties                                                              *)

\* The types of the counters, of the handlers and of the queue.
TypeOK ==
    /\ seq \in [Device -> Nat]
    /\ seen \subseteq Reading
    /\ configured \in BOOLEAN
    /\ DOMAIN request \subseteq Request
    /\ request \in [DOMAIN request -> RequestState]
    /\ pending_readings \subseteq Reading
    /\ account \in Nat
    /\ queue \subseteq Transaction
    /\ expired \subseteq Reading
    /\ last_seq \in [Device -> Nat]
    /\ escrow \in [Device -> Nat]

Billed(rd) == rd.seq <= last_seq[rd.device]
Queued(rd) == \E tx \in queue : tx.reading = rd

\* PENDING may be taken for success: a reading the gateway recorded with a
\* tx_hash, and so answered with ok, is billed, or its transaction is still
\* queued, or it expired.  It is never refused by the contract, although between the simulation and
\* the ledger other handlers relayed and others submitted readings.
AcknowledgedIsBilled ==
    configured => \A rd \in pending_readings :
                     Billed(rd) \/ Queued(rd) \/ rd \in expired

\* The contract waits for a reading that never left the device.
Gap(d) ==
    /\ last_seq[d] < seq[d]
    /\ [device |-> d, seq |-> last_seq[d] + 1] \notin seen

\* The emulator counts on whether or not a reading was delivered and the
\* contract insists on the next number: after one reading that did not reach
\* the backend the device is never billed again, whatever it sends.
GapIsForever == [][\A d \in Device : Gap(d) => Gap(d)']_vars

\* A handler always answers, whatever the simulation and the network say.
EveryPostAnswered ==
    \A r \in Request : (r \in DOMAIN request) ~> (r \notin DOMAIN request)

\* readings.test.js on the table: "readings persisted to pending_readings for
\* audit trail".  What the gateway has sent off to be billed is in it, or
\* about to be.
AuditTrail ==
    \A tx \in queue :
        \/ tx.reading \in pending_readings
        \/ \E r \in DOMAIN request :
              request[r].reading = tx.reading /\ request[r].pc = "record"

\* What holds between two awaits: as long as a handler's sequence number is
\* the account's next one, no transaction of the relayer was applied since it
\* was read, so the reading the simulation accepted is still acceptable, or
\* somebody else has had it billed.
StillGood(rd, sequence) ==
    /\ sequence <= account + 1
    /\ sequence = account + 1 => Billed(rd) \/ Accepts(rd)

RequestInv(q) ==
    /\ q.reading \in seen
    /\ q.pc = "send" => StillGood(q.reading, q.sequence)
    /\ q.pc = "prepare" => q.sequence <= account + 1
    /\ q.pc = "record" /\ configured =>
          Billed(q.reading) \/ Queued(q.reading) \/ q.reading \in expired

IndInv ==
    /\ TypeOK
    /\ \A r \in DOMAIN request : RequestInv(request[r])
    /\ \A tx \in queue :
          /\ tx.reading \in seen
          /\ tx.sequence = account + 1
          /\ StillGood(tx.reading, tx.sequence)
          /\ queue = {tx}
    /\ \A rd \in seen : rd.seq <= seq[rd.device]
    /\ AcknowledgedIsBilled

============================================================================
