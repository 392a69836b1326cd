----------------------- MODULE ReadingGatewayProofs ------------------------
(***************************************************************************)
(* Proofs about ReadingGateway, for any devices, any number of requests in *)
(* flight and any number of readings.                                      *)
(***************************************************************************)
EXTENDS ReadingGateway, TLAPS

\* An accepted reading makes the contract's counter and escrow move on: what
\* was billed stays billed, and another reading that would have been accepted
\* is still acceptable unless it was the same one.
LEMMA BillMovesOn ==
  ASSUME TypeOK, NEW rd \in Reading, Accepts(rd), Bill(rd)
  PROVE  /\ last_seq' \in [Device -> Nat]
         /\ escrow' \in [Device -> Nat]
         /\ \A x \in Reading : Billed(x) => Billed(x)'
         /\ \A x \in Reading : Accepts(x) => Billed(x)' \/ Accepts(x)'
         /\ Billed(rd)'
BY DEF TypeOK, Reading, Accepts, Bill, Billed

\* The counter and the escrow of the contract move on only by a reading that
\* was seen.
LEMMA Kept ==
  ASSUME TypeOK,
         \/ UNCHANGED <<last_seq, escrow>>
         \/ \E rd \in Reading : Accepts(rd) /\ Bill(rd)
  PROVE  /\ last_seq' \in [Device -> Nat]
         /\ escrow' \in [Device -> Nat]
         /\ \A x \in Reading : Billed(x) => Billed(x)'
         /\ \A x \in Reading : Accepts(x) => Billed(x)' \/ Accepts(x)'
<1>1. CASE UNCHANGED <<last_seq, escrow>>
  BY <1>1 DEF TypeOK, Billed, Accepts
<1>2. CASE \E rd \in Reading : Accepts(rd) /\ Bill(rd)
  BY <1>2, BillMovesOn
<1> QED BY <1>1, <1>2

\* The initial state satisfies the inductive invariant.
LEMMA InitIndInv == Init => IndInv
<1> SUFFICES ASSUME Init PROVE IndInv
  OBVIOUS
<1>1. TypeOK
  BY DEF Init, TypeOK
<1>2. /\ DOMAIN request = {}
      /\ queue = {}
      /\ seen = {}
      /\ pending_readings = {}
  BY DEF Init
<1> QED BY <1>1, <1>2 DEF IndInv, AcknowledgedIsBilled

\* A handler that moves on, answers or is answered changes nothing outside
\* the gateway: the invariant needs to be shown for its own record only.
LEMMA HandlersOnly ==
  ASSUME IndInv,
         UNCHANGED <<device_vars, configured, chain_vars>>,
         DOMAIN request' \subseteq Request,
         \A r \in DOMAIN request' :
            \/ r \in DOMAIN request /\ request'[r] = request[r]
            \/ request'[r] \in RequestState /\ RequestInv(request'[r]),
         request' = [r \in DOMAIN request' |-> request'[r]],
         pending_readings' \subseteq Reading,
         AcknowledgedIsBilled'
  PROVE  IndInv'
<1> USE DEF device_vars, chain_vars
<1>2. \A r \in DOMAIN request' : request'[r] \in RequestState /\ RequestInv(request'[r])
  BY DEF IndInv, TypeOK
<1>3. TypeOK'
  BY <1>2 DEF IndInv, TypeOK
<1>4. \A r \in DOMAIN request' : RequestInv(request[r])'
  BY <1>2 DEF RequestInv, StillGood, Billed, Accepts, Queued
<1>5. \A tx \in queue' : /\ tx.reading \in seen'
                         /\ tx.sequence = account' + 1
                         /\ StillGood(tx.reading, tx.sequence)'
                         /\ queue' = {tx}
  BY DEF IndInv, StillGood, Billed, Accepts
<1>6. \A rd \in seen' : rd.seq <= seq'[rd.device]
  BY DEF IndInv
<1> QED BY <1>3, <1>4, <1>5, <1>6 DEF IndInv

\* Answering and being suspended elsewhere, as changes of `request`.
LEMMA AnswerShrinks ==
  ASSUME TypeOK, NEW r \in DOMAIN request, Answer(r)
  PROVE  /\ DOMAIN request' \subseteq DOMAIN request
         /\ \A x \in DOMAIN request' : request'[x] = request[x]
         /\ request' = [x \in DOMAIN request' |-> request'[x]]
BY DEF Answer

LEMMA GotoKeeps ==
  ASSUME TypeOK, NEW r \in DOMAIN request, NEW pc \in {"send", "record"},
         Goto(r, pc)
  PROVE  /\ DOMAIN request' = DOMAIN request
         /\ \A x \in DOMAIN request : x # r => request'[x] = request[x]
         /\ request'[r] \in RequestState
         /\ request'[r].pc = pc
         /\ request'[r].reading = request[r].reading
         /\ request'[r].sequence = request[r].sequence
         /\ request' = [x \in DOMAIN request' |-> request'[x]]
<1>1. request[r] \in RequestState
  BY DEF TypeOK
<1>2. request'[r] = [request[r] EXCEPT !.pc = pc]
  BY DEF Goto, TypeOK
<1>3. /\ DOMAIN request' = DOMAIN request
      /\ \A x \in DOMAIN request : x # r => request'[x] = request[x]
      /\ request' = [x \in DOMAIN request' |-> request'[x]]
  BY DEF Goto, TypeOK
<1>4. /\ request'[r] \in RequestState
      /\ request'[r].pc = pc
      /\ request'[r].reading = request[r].reading
      /\ request'[r].sequence = request[r].sequence
  BY <1>1, <1>2 DEF RequestState
<1> QED BY <1>3, <1>4

LEMMA ReceiveAdds ==
  ASSUME TypeOK, NEW r \in Request, NEW rd \in Reading, NEW c \in BOOLEAN,
         Receive(r, rd, c)
  PROVE  /\ DOMAIN request' = DOMAIN request \cup {r}
         /\ \A x \in DOMAIN request : request'[x] = request[x]
         /\ r \notin DOMAIN request
         /\ request'[r] \in RequestState
         /\ request'[r].reading = rd
         /\ request'[r].pc = "getAccount" \/ ~configured
         /\ request'[r].pc \in {"getAccount", "record"}
         /\ request' = [x \in DOMAIN request' |-> request'[x]]
<1>1. request' = [x \in DOMAIN request \cup {r} |->
                     IF x # r THEN request[x]
                     ELSE [pc |-> IF configured THEN "getAccount" ELSE "record",
                           reading |-> rd, sequence |-> 0, client |-> c]]
  BY DEF Receive
<1>2. request'[r] = [pc |-> IF configured THEN "getAccount" ELSE "record",
                     reading |-> rd, sequence |-> 0, client |-> c]
  BY <1>1
<1>3. request'[r] \in RequestState
  BY <1>2 DEF RequestState
<1> QED BY <1>1, <1>2, <1>3 DEF Receive

\* The handlers' steps preserve the invariant.
LEMMA HandlerIndInv ==
  ASSUME IndInv, NEW r \in DOMAIN request,
         HandlerStep(r) \/ ClientTimeout(r) \/ RelayFails(r)
  PROVE  IndInv'
<1>t. TypeOK /\ r \in Request /\ request[r] \in RequestState
         /\ RequestInv(request[r])
  BY DEF IndInv, TypeOK
<1>a. ASSUME Answer(r),
             UNCHANGED <<device_vars, configured, pending_readings, chain_vars>>
      PROVE  IndInv'
  <2>1. AcknowledgedIsBilled'
    BY <1>a DEF IndInv, AcknowledgedIsBilled, Billed, Queued, chain_vars
  <2>2. DOMAIN request' \subseteq Request /\ pending_readings' \subseteq Reading
    BY <1>a, <1>t, AnswerShrinks DEF TypeOK
  <2> QED BY <1>a, <1>t, <2>1, <2>2, AnswerShrinks, HandlersOnly
<1>1. CASE GetAccount(r)
  <2>1. AcknowledgedIsBilled'
    BY <1>1 DEF GetAccount, IndInv, AcknowledgedIsBilled, Billed, Queued,
                chain_vars
  <2>2. /\ DOMAIN request' = DOMAIN request
        /\ \A x \in DOMAIN request : x # r => request'[x] = request[x]
        /\ request' = [x \in DOMAIN request' |-> request'[x]]
        /\ request'[r] = [request[r] EXCEPT !.pc = "prepare",
                                            !.sequence = account + 1]
    BY <1>1, <1>t DEF GetAccount, TypeOK, RequestState
  <2>n. account + 1 \in Nat
    BY <1>t DEF TypeOK
  <2>3. request'[r] \in RequestState
    BY <1>t, <2>2, <2>n DEF RequestState
  <2>4. RequestInv(request'[r])
    BY <1>t, <2>2 DEF RequestInv, RequestState, TypeOK
  <2>5. DOMAIN request' \subseteq Request /\ pending_readings' \subseteq Reading
    BY <1>1, <1>t, <2>2 DEF TypeOK, GetAccount
  <2>6. UNCHANGED <<device_vars, configured, chain_vars>>
    BY <1>1 DEF GetAccount
  <2> QED BY <2>1, <2>2, <2>3, <2>4, <2>5, <2>6, HandlersOnly
<1>2. CASE PrepareTransaction(r)
  <2>0. UNCHANGED <<device_vars, configured, pending_readings, chain_vars>>
    BY <1>2 DEF PrepareTransaction
  <2>1. CASE ~Simulates(request[r].reading)
    BY <1>2, <2>0, <2>1, <1>a DEF PrepareTransaction
  <2>2. CASE Simulates(request[r].reading)
    <3>1. AcknowledgedIsBilled'
      BY <2>0 DEF IndInv, AcknowledgedIsBilled, Billed, Queued, chain_vars
    <3>2. Goto(r, "send")
      BY <1>2, <2>2 DEF PrepareTransaction
    <3>3. request'[r] \in RequestState
      BY <1>t, <3>2, GotoKeeps
    <3>4. RequestInv(request'[r])
      BY <1>2, <1>t, <2>2, <3>2, GotoKeeps
         DEF PrepareTransaction, RequestInv, StillGood, Simulates
    <3>5. DOMAIN request' \subseteq Request /\ pending_readings' \subseteq Reading
      BY <2>0, <1>t, <3>2, GotoKeeps DEF TypeOK
    <3> QED BY <2>0, <1>t, <3>1, <3>2, <3>3, <3>4, <3>5, GotoKeeps, HandlersOnly
  <2> QED BY <2>1, <2>2
<1>3. CASE SendTransaction(r)
  <2>1. CASE ~Takes(r)
    BY <1>3, <2>1, <1>a DEF SendTransaction, chain_vars
  <2>2. CASE Takes(r)
    <3> DEFINE tx == [reading |-> request[r].reading,
                      sequence |-> request[r].sequence]
    <3>1. /\ Goto(r, "record")
          /\ queue' = {tx}
          /\ UNCHANGED <<seq, seen, configured, pending_readings, account,
                         expired, last_seq, escrow>>
      BY <1>3, <2>2 DEF SendTransaction, device_vars
    <3>2. /\ tx \in Transaction
          /\ tx.reading = request[r].reading
          /\ tx.sequence = account + 1
          /\ tx.reading \in seen
          /\ StillGood(tx.reading, tx.sequence)
      BY <1>3, <1>t, <2>2
         DEF SendTransaction, Takes, Transaction, RequestState, RequestInv
    <3> HIDE DEF tx
    <3>3. request'[r] \in RequestState
      BY <1>t, <3>1, GotoKeeps
    <3>4. \A x \in DOMAIN request' : request'[x] \in RequestState
      BY <1>t, <3>1, <3>3, GotoKeeps DEF TypeOK
    <3>5. TypeOK'
      BY <1>t, <3>1, <3>2, <3>4, GotoKeeps DEF TypeOK
    <3>6. \A rd : Billed(rd) => Billed(rd)'
      BY <3>1 DEF Billed
    <3>7. \A rd : ~Queued(rd)
      BY <2>2 DEF Takes, Queued
    <3>8. \A x \in DOMAIN request' : RequestInv(request[x])'
      <4> SUFFICES ASSUME NEW x \in DOMAIN request' PROVE RequestInv(request[x])'
        OBVIOUS
      <4>1. CASE x = r
        <5>1. request'[r].reading = tx.reading /\ request'[r].pc = "record"
          BY <1>t, <3>1, <3>2, GotoKeeps
        <5>2. Queued(request[r].reading)'
          BY <5>1, <3>1 DEF Queued
        <5> QED BY <4>1, <5>1, <5>2, <3>1, <3>2 DEF RequestInv
      <4>2. CASE x # r
        <5>1. x \in DOMAIN request /\ request'[x] = request[x]
          BY <4>2, <1>t, <3>1, GotoKeeps
        <5>2. RequestInv(request[x])
          BY <5>1 DEF IndInv
        <5> QED BY <5>1, <5>2, <3>1, <3>7
                DEF RequestInv, StillGood, Billed, Accepts
      <4> QED BY <4>1, <4>2
    <3>9. \A u \in queue' : /\ u.reading \in seen'
                            /\ u.sequence = account' + 1
                            /\ StillGood(u.reading, u.sequence)'
                            /\ queue' = {u}
      BY <3>1, <3>2 DEF StillGood, Billed, Accepts
    <3>10. \A rd \in seen' : rd.seq <= seq'[rd.device]
      BY <3>1 DEF IndInv
    <3>11. AcknowledgedIsBilled'
      BY <3>1, <3>6, <3>7 DEF IndInv, AcknowledgedIsBilled
    <3> QED BY <3>5, <3>8, <3>9, <3>10, <3>11 DEF IndInv
  <2> QED BY <2>1, <2>2
<1>4. CASE RecordPendingReading(r)
  <2>0. /\ Answer(r)
        /\ UNCHANGED <<device_vars, configured, chain_vars>>
        /\ pending_readings' = pending_readings \cup {request[r].reading}
        /\ request[r].pc = "record"
    BY <1>4 DEF RecordPendingReading
  <2>1. AcknowledgedIsBilled'
    BY <2>0, <1>t DEF IndInv, AcknowledgedIsBilled, Billed, Queued, chain_vars,
                      RequestInv
  <2>2. DOMAIN request' \subseteq Request /\ pending_readings' \subseteq Reading
    BY <2>0, <1>t, AnswerShrinks DEF TypeOK, RequestState
  <2> QED BY <2>0, <1>t, <2>1, <2>2, AnswerShrinks, HandlersOnly
<1>5. CASE ClientTimeout(r)
  <2>1. AcknowledgedIsBilled'
    BY <1>5 DEF ClientTimeout, IndInv, AcknowledgedIsBilled, Billed, Queued,
                chain_vars
  <2>2. /\ DOMAIN request' = DOMAIN request
        /\ \A x \in DOMAIN request : x # r => request'[x] = request[x]
        /\ request' = [x \in DOMAIN request' |-> request'[x]]
        /\ request'[r] = [request[r] EXCEPT !.client = FALSE]
    BY <1>5, <1>t DEF ClientTimeout, TypeOK, RequestState
  <2>3. request'[r] \in RequestState
    BY <1>t, <2>2 DEF RequestState
  <2>4. RequestInv(request'[r])
    BY <1>t, <2>2 DEF RequestInv, RequestState
  <2>5. DOMAIN request' \subseteq Request /\ pending_readings' \subseteq Reading
    BY <1>5, <1>t, <2>2 DEF TypeOK, ClientTimeout
  <2>6. UNCHANGED <<device_vars, configured, chain_vars>>
    BY <1>5 DEF ClientTimeout
  <2> QED BY <2>1, <2>2, <2>3, <2>4, <2>5, <2>6, HandlersOnly
<1>6. CASE RelayFails(r)
  BY <1>6, <1>a DEF RelayFails
<1> QED BY <1>1, <1>2, <1>3, <1>4, <1>5, <1>6 DEF HandlerStep

\* The devices' steps and the arrival of a post preserve the invariant.
LEMMA ArrivalIndInv ==
  ASSUME IndInv, NEW r \in Request, NEW rd \in Reading, NEW c \in BOOLEAN,
         Receive(r, rd, c), seq' \in [Device -> Nat],
         \A d \in Device : seq[d] <= seq'[d],
         seen' = seen \cup {rd}, rd.seq <= seq'[rd.device],
         UNCHANGED <<configured, pending_readings, chain_vars>>
  PROVE  IndInv'
<1> USE DEF chain_vars
<1>t. TypeOK
  BY DEF IndInv
<1>0. /\ DOMAIN request' = DOMAIN request \cup {r}
      /\ \A x \in DOMAIN request : request'[x] = request[x]
      /\ request'[r] \in RequestState
      /\ request'[r].reading = rd
      /\ request'[r].pc = "getAccount" \/ ~configured
      /\ request'[r].pc \in {"getAccount", "record"}
      /\ request' = [x \in DOMAIN request' |-> request'[x]]
  BY <1>t, ReceiveAdds
<1>1. \A x \in DOMAIN request' : request'[x] \in RequestState
  BY <1>t, <1>0 DEF TypeOK
<1>2. TypeOK'
  <2>1. /\ DOMAIN request' \subseteq Request
        /\ request' \in [DOMAIN request' -> RequestState]
    BY <1>t, <1>0, <1>1 DEF TypeOK
  <2>2. seen' \subseteq Reading
    BY <1>t DEF TypeOK
  <2> QED BY <1>t, <2>1, <2>2 DEF TypeOK
<1>3. \A x \in DOMAIN request' : RequestInv(request[x])'
  <2> SUFFICES ASSUME NEW x \in DOMAIN request' PROVE RequestInv(request[x])'
    OBVIOUS
  <2>1. CASE x = r
    BY <1>0, <2>1 DEF RequestInv
  <2>2. CASE x # r
    <3>1. x \in DOMAIN request /\ request'[x] = request[x]
      BY <1>0, <2>2
    <3>2. RequestInv(request[x])
      BY <3>1 DEF IndInv
    <3> QED BY <3>1, <3>2 DEF RequestInv, StillGood, Billed, Accepts, Queued
  <2> QED BY <2>1, <2>2
<1>4. \A tx \in queue' : /\ tx.reading \in seen'
                         /\ tx.sequence = account' + 1
                         /\ StillGood(tx.reading, tx.sequence)'
                         /\ queue' = {tx}
  BY DEF IndInv, StillGood, Billed, Accepts
<1>5. \A x \in seen' : x.seq <= seq'[x.device]
  <2> SUFFICES ASSUME NEW x \in seen PROVE x.seq <= seq'[x.device]
    OBVIOUS
  <2>1. x \in Reading /\ x.seq <= seq[x.device]
    BY <1>t DEF IndInv, TypeOK
  <2> QED BY <1>t, <2>1 DEF Reading, TypeOK
<1>6. AcknowledgedIsBilled'
  BY DEF IndInv, AcknowledgedIsBilled, Billed, Queued
<1> QED BY <1>2, <1>3, <1>4, <1>5, <1>6 DEF IndInv

\* A change of the contract's counters and of the devices' alone: whatever
\* the invariant says of readings goes on being true.
LEMMA ContractOnly ==
  ASSUME IndInv, UNCHANGED <<seen, gateway_vars, account, queue, expired>>,
         last_seq' \in [Device -> Nat],
         escrow' \in [Device -> Nat],
         seq' \in [Device -> Nat],
         \A d \in Device : seq[d] <= seq'[d],
         \A x \in Reading : Billed(x) => Billed(x)',
         \A x \in Reading : Accepts(x) => Billed(x)' \/ Accepts(x)'
  PROVE  IndInv'
<1> USE DEF gateway_vars
<1>t. TypeOK
  BY DEF IndInv
<1>1. TypeOK'
  BY <1>t DEF TypeOK
<1>2. \A rd \in Reading, n \in Nat : StillGood(rd, n) => StillGood(rd, n)'
  BY DEF StillGood
<1>3. \A x \in DOMAIN request' : RequestInv(request[x])'
  <2> SUFFICES ASSUME NEW x \in DOMAIN request PROVE RequestInv(request[x])'
    OBVIOUS
  <2>1. /\ RequestInv(request[x])
        /\ request[x].reading \in Reading
        /\ request[x].sequence \in Nat
    BY <1>t DEF IndInv, TypeOK, RequestState
  <2> QED BY <2>1, <1>2 DEF RequestInv, Queued
<1>4. \A tx \in queue' : /\ tx.reading \in seen'
                         /\ tx.sequence = account' + 1
                         /\ StillGood(tx.reading, tx.sequence)'
                         /\ queue' = {tx}
  <2>1. \A tx \in queue : tx.reading \in Reading /\ tx.sequence \in Nat
    BY <1>t DEF TypeOK, Transaction
  <2> QED BY <2>1, <1>2 DEF IndInv
<1>5. \A x \in seen' : x.seq <= seq'[x.device]
  <2> SUFFICES ASSUME NEW x \in seen PROVE x.seq <= seq'[x.device]
    OBVIOUS
  <2>1. x \in Reading /\ x.seq <= seq[x.device]
    BY <1>t DEF IndInv, TypeOK
  <2> QED BY <1>t, <2>1 DEF Reading, TypeOK
<1>6. AcknowledgedIsBilled'
  <2>1. pending_readings \subseteq Reading
    BY <1>t DEF TypeOK
  <2> QED BY <2>1 DEF IndInv, AcknowledgedIsBilled, Queued
<1> QED BY <1>1, <1>3, <1>4, <1>5, <1>6 DEF IndInv

\* When the relayer's transaction is applied every handler that read the
\* account before holds a number of the past, and when it expires nothing
\* but the queue changes.
LEMMA QueueIndInv ==
  ASSUME IndInv, ApplyTransaction \/ ExpireTransaction
  PROVE  IndInv'
<1>t. TypeOK
  BY DEF IndInv
<1>1. CASE ApplyTransaction
  <2> PICK tx \in queue :
        /\ queue' = {}
        /\ account' = tx.sequence
        /\ IF Accepts(tx.reading) THEN Bill(tx.reading)
                                  ELSE UNCHANGED <<last_seq, escrow>>
        /\ UNCHANGED <<device_vars, gateway_vars, expired>>
    BY <1>1 DEF ApplyTransaction
  <2> USE DEF device_vars, gateway_vars
  <2>1. /\ tx.reading \in Reading
        /\ tx.sequence = account + 1
        /\ tx.sequence \in Nat
        /\ Billed(tx.reading) \/ Accepts(tx.reading)
        /\ queue = {tx}
    BY <1>t DEF IndInv, StillGood, TypeOK, Transaction
  <2>2. /\ last_seq' \in [Device -> Nat]
        /\ escrow' \in [Device -> Nat]
        /\ \A x \in Reading : Billed(x) => Billed(x)'
    BY <1>t, <2>1, Kept
  <2>3. Billed(tx.reading)'
    BY <1>t, <2>1, <2>2, BillMovesOn
  <2>4. TypeOK'
    BY <1>t, <2>1, <2>2 DEF TypeOK
  <2>5. \A rd \in Reading : Queued(rd) => Billed(rd)'
    BY <2>1, <2>3 DEF Queued
  <2>6. \A x \in DOMAIN request' : RequestInv(request[x])'
    <3> SUFFICES ASSUME NEW x \in DOMAIN request PROVE RequestInv(request[x])'
      OBVIOUS
    <3>1. /\ RequestInv(request[x])
          /\ request[x].reading \in Reading
          /\ request[x].sequence \in Nat
      BY <1>t DEF IndInv, TypeOK, RequestState
    <3>2. request[x].pc \in {"prepare", "send"} =>
             request[x].sequence <= account + 1
      BY <3>1 DEF RequestInv, StillGood
    <3>3. request[x].pc \in {"prepare", "send"} =>
             /\ request[x].sequence <= account' + 1
             /\ request[x].sequence # account' + 1
      BY <1>t, <2>1, <3>1, <3>2 DEF TypeOK
    <3> QED BY <2>2, <2>5, <3>1, <3>3 DEF RequestInv, StillGood
  <2>7. AcknowledgedIsBilled'
    <3>1. pending_readings \subseteq Reading
      BY <1>t DEF TypeOK
    <3> QED BY <3>1, <2>2, <2>5 DEF IndInv, AcknowledgedIsBilled
  <2>8. \A x \in seen' : x.seq <= seq'[x.device]
    BY DEF IndInv
  <2> QED BY <2>4, <2>6, <2>7, <2>8 DEF IndInv
<1>2. CASE ExpireTransaction
  <2> PICK tx \in queue :
        /\ queue' = {}
        /\ expired' = expired \cup {tx.reading}
        /\ UNCHANGED <<device_vars, gateway_vars, account, last_seq, escrow>>
    BY <1>2 DEF ExpireTransaction
  <2> USE DEF device_vars, gateway_vars
  <2>1. tx.reading \in Reading /\ queue = {tx}
    BY <1>t DEF IndInv, TypeOK, Transaction
  <2>2. TypeOK'
    BY <1>t, <2>1 DEF TypeOK
  <2>3. \A rd : Queued(rd) => rd \in expired'
    BY <2>1 DEF Queued
  <2>4. \A x \in DOMAIN request' : RequestInv(request[x])'
    BY <2>3 DEF IndInv, RequestInv, StillGood, Billed, Accepts
  <2>5. AcknowledgedIsBilled'
    BY <2>3 DEF IndInv, AcknowledgedIsBilled, Billed
  <2>6. \A x \in seen' : x.seq <= seq'[x.device]
    BY DEF IndInv
  <2> QED BY <2>2, <2>4, <2>5, <2>6 DEF IndInv
<1> QED BY <1>1, <1>2

\* Every step preserves the invariant.
LEMMA NextIndInv == IndInv /\ [Next]_vars => IndInv'
<1> SUFFICES ASSUME IndInv, [Next]_vars PROVE IndInv'
  OBVIOUS
<1>t. TypeOK
  BY DEF IndInv
<1>1. ASSUME NEW d \in Device, TopUp(d) PROVE IndInv'
  <2>1. /\ last_seq' \in [Device -> Nat]
        /\ escrow' \in [Device -> Nat]
        /\ \A x \in Device : escrow[x] <= escrow'[x]
        /\ UNCHANGED <<seq, last_seq>>
    BY <1>1, <1>t DEF TopUp, TypeOK, device_vars
  <2>2. /\ \A x \in Reading : Billed(x) => Billed(x)'
        /\ \A x \in Reading : Accepts(x) => Accepts(x)'
    BY <1>t, <2>1 DEF Billed, Accepts, Reading, TypeOK
  <2>3. seq' \in [Device -> Nat] /\ \A x \in Device : seq[x] <= seq'[x]
    BY <1>t, <2>1 DEF TypeOK
  <2> QED BY <1>1, <2>1, <2>2, <2>3, ContractOnly DEF TopUp, device_vars
<1>2. ASSUME NEW d \in Device, EmitLost(d) PROVE IndInv'
  <2>1. /\ seq' \in [Device -> Nat]
        /\ \A x \in Device : seq[x] <= seq'[x]
    BY <1>2, <1>t DEF EmitLost, TypeOK
  <2>2. UNCHANGED <<seen, gateway_vars, account, queue, expired, last_seq,
                    escrow>>
    BY <1>2 DEF EmitLost, chain_vars
  <2> QED BY <1>t, <2>1, <2>2, Kept, ContractOnly
<1>3. ASSUME NEW d \in Device, NEW r \in Request, Emit(d, r) PROVE IndInv'
  <2>1. /\ seq' \in [Device -> Nat]
        /\ \A x \in Device : seq[x] <= seq'[x]
        /\ seq'[d] = seq[d] + 1
        /\ seq[d] + 1 \in Nat
    BY <1>3, <1>t DEF Emit, TypeOK
  <2>2. /\ Emitted(d) \in Reading
        /\ Emitted(d).seq <= seq'[Emitted(d).device]
    BY <2>1 DEF Emitted, Reading
  <2>3. /\ seen' = seen \cup {Emitted(d)}
        /\ Receive(r, Emitted(d), TRUE)
        /\ UNCHANGED <<configured, pending_readings, chain_vars>>
    BY <1>3 DEF Emit
  <2> HIDE DEF Emitted
  <2> QED BY <2>1, <2>2, <2>3, ArrivalIndInv
<1>4. ASSUME NEW rd \in seen, SubmitElsewhere(rd) PROVE IndInv'
  <2>1. rd \in Reading /\ Accepts(rd) /\ Bill(rd)
    BY <1>4, <1>t DEF SubmitElsewhere, TypeOK
  <2>2. seq' \in [Device -> Nat] /\ \A x \in Device : seq[x] <= seq'[x]
    BY <1>4, <1>t DEF SubmitElsewhere, TypeOK, device_vars
  <2>3. UNCHANGED <<seen, gateway_vars, account, queue, expired>>
    BY <1>4 DEF SubmitElsewhere, device_vars
  <2> QED BY <1>t, <2>1, <2>2, <2>3, Kept, ContractOnly
<1>5. ASSUME NEW rd \in seen, NEW r \in Request, Redeliver(rd, r) PROVE IndInv'
  <2>1. rd \in Reading /\ rd.seq <= seq[rd.device]
    BY <1>t DEF IndInv, TypeOK
  <2>2. /\ seq' = seq
        /\ seq' \in [Device -> Nat]
        /\ \A x \in Device : seq[x] <= seq'[x]
        /\ seen' = seen \cup {rd}
    BY <1>5, <1>t DEF Redeliver, TypeOK, device_vars
  <2> QED BY <1>5, <2>1, <2>2, ArrivalIndInv DEF Redeliver
<1>6. ASSUME NEW r \in DOMAIN request,
             HandlerStep(r) \/ ClientTimeout(r) \/ RelayFails(r)
      PROVE  IndInv'
  BY <1>6, HandlerIndInv
<1>7. CASE Crash
  <2>1. AcknowledgedIsBilled'
    BY <1>7 DEF Crash, IndInv, AcknowledgedIsBilled, Billed, Queued, chain_vars
  <2>2. DOMAIN request' = {} /\ request' = [x \in DOMAIN request' |-> request'[x]]
    BY <1>7 DEF Crash
  <2>3. pending_readings' \subseteq Reading
    BY <1>7, <1>t DEF Crash, TypeOK
  <2> QED BY <1>7, <2>1, <2>2, <2>3, HandlersOnly DEF Crash
<1>8. CASE ApplyTransaction \/ ExpireTransaction
  BY <1>8, QueueIndInv
<1>9. CASE UNCHANGED vars
  <2>1. UNCHANGED <<seen, gateway_vars, account, queue, expired, last_seq,
                    escrow, seq>>
    BY <1>9 DEF vars, gateway_vars
  <2>2. seq' \in [Device -> Nat] /\ \A x \in Device : seq[x] <= seq'[x]
    BY <1>t, <2>1 DEF TypeOK
  <2> QED BY <1>t, <2>1, <2>2, Kept, ContractOnly
<1> QED BY <1>1, <1>2, <1>3, <1>4, <1>5, <1>6, <1>7, <1>8, <1>9 DEF Next

\* The inductive invariant holds in every reachable state.
LEMMA Inductive == Spec => []IndInv
BY InitIndInv, NextIndInv, PTL DEF Spec

\* The state of devices, handlers, network and contract is well-typed.
THEOREM GatewayTypes == Spec => []TypeOK
<1>1. IndInv => TypeOK
  BY DEF IndInv
<1> QED BY <1>1, Inductive, PTL

\* A reading the gateway answered with ok is billed unless its transaction
\* expires: relayReading is right to take PENDING for success.
THEOREM AcknowledgedReadingsBilled == Spec => []AcknowledgedIsBilled
<1>1. IndInv => AcknowledgedIsBilled
  BY DEF IndInv
<1> QED BY <1>1, Inductive, PTL

\* A device that lost a reading on the way is never billed again.
THEOREM GapsAreForever == Spec => GapIsForever
<1>1. IndInv /\ [Next]_vars => \A d \in Device : Gap(d) => Gap(d)'
  <2> SUFFICES ASSUME IndInv, [Next]_vars, NEW d \in Device, Gap(d)
               PROVE  Gap(d)'
    OBVIOUS
  <2>t. TypeOK /\ seq[d] \in Nat /\ last_seq[d] \in Nat
    BY DEF IndInv, TypeOK
  <2>a. ASSUME NEW rd \in seen, Accepts(rd), Bill(rd), UNCHANGED device_vars
        PROVE  Gap(d)'
    <3>1. rd \in Reading /\ rd = [device |-> rd.device, seq |-> rd.seq]
      BY <2>t DEF TypeOK, Reading
    <3>2. rd.device # d
      BY <2>a, <3>1 DEF Gap, Accepts
    <3>3. last_seq'[d] = last_seq[d]
      BY <2>a, <2>t, <3>2 DEF Bill, TypeOK
    <3> QED BY <2>a, <3>3 DEF Gap, device_vars
  <2>b. ASSUME UNCHANGED <<device_vars, last_seq>> PROVE Gap(d)'
    BY <2>b DEF Gap, device_vars
  <2>1. ASSUME NEW e \in Device, TopUp(e) PROVE Gap(d)'
    BY <2>1, <2>b DEF TopUp
  <2>2. ASSUME NEW e \in Device, EmitLost(e) PROVE Gap(d)'
    <3>1. seq[d] <= seq'[d] /\ seq'[d] \in Nat
      BY <2>2, <2>t DEF EmitLost, TypeOK
    <3> QED BY <2>2, <2>t, <3>1 DEF EmitLost, Gap, chain_vars
  <2>3. ASSUME NEW e \in Device, NEW r \in Request, Emit(e, r) PROVE Gap(d)'
    <3>1. seq[d] <= seq'[d] /\ seq'[d] \in Nat
      BY <2>3, <2>t DEF Emit, TypeOK
    <3>2. Emitted(e) # [device |-> d, seq |-> last_seq[d] + 1]
      <4>1. CASE e = d
        BY <4>1, <2>t DEF Emitted, Gap
      <4>2. CASE e # d
        BY <4>2 DEF Emitted
      <4> QED BY <4>1, <4>2
    <3>3. seen' = seen \cup {Emitted(e)} /\ last_seq' = last_seq
      BY <2>3 DEF Emit, chain_vars
    <3> QED BY <2>t, <3>1, <3>2, <3>3 DEF Gap
  <2>4. ASSUME NEW rd \in seen, SubmitElsewhere(rd) PROVE Gap(d)'
    BY <2>4, <2>a DEF SubmitElsewhere
  <2>5. ASSUME NEW rd \in seen, NEW r \in Request, Redeliver(rd, r)
        PROVE  Gap(d)'
    BY <2>5, <2>b DEF Redeliver, chain_vars
  <2>6. ASSUME NEW r \in DOMAIN request,
               HandlerStep(r) \/ ClientTimeout(r) \/ RelayFails(r)
        PROVE  Gap(d)'
    BY <2>6, <2>b DEF HandlerStep, ClientTimeout, RelayFails, GetAccount,
                      PrepareTransaction, SendTransaction,
                      RecordPendingReading, chain_vars
  <2>7. CASE Crash
    BY <2>7, <2>b DEF Crash, chain_vars
  <2>8. CASE ApplyTransaction
    <3> PICK tx \in queue :
          /\ IF Accepts(tx.reading) THEN Bill(tx.reading)
                                    ELSE UNCHANGED <<last_seq, escrow>>
          /\ UNCHANGED device_vars
      BY <2>8 DEF ApplyTransaction
    <3>1. tx.reading \in seen
      BY DEF IndInv
    <3> QED BY <3>1, <2>a, <2>b
  <2>9. CASE ExpireTransaction
    BY <2>9, <2>b DEF ExpireTransaction
  <2>10. CASE UNCHANGED vars
    BY <2>10, <2>b DEF vars, device_vars
  <2> QED BY <2>1, <2>2, <2>3, <2>4, <2>5, <2>6, <2>7, <2>8, <2>9, <2>10
          DEF Next
<1> QED BY <1>1, Inductive, PTL DEF GapIsForever, Spec
============================================================================
