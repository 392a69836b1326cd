----------------------------- MODULE DeviceApi -----------------------------
(***************************************************************************)
(* The REST API's read side (backend/src/api/server.js) and the queries it *)
(* is built from (db/store.js: metricsFor, aggregate, latestSequence,      *)
(* listDevices).                                                           *)
(*                                                                         *)
(* A handler is suspended at each query, and the indexer inserts rows in   *)
(* between: the queries of one answer see different states of the cache    *)
(* (with PostgreSQL; the SQLite driver answers at once).  The contract's   *)
(* log grows as MeterLog says and the cache follows it as EventFeed says.  *)
(*                                                                         *)
(* A row is its position in the contract's log.  emitted_at is when the    *)
(* indexer saw the event, in whole hours.  A query that rejects is caught  *)
(* by nobody: Express 4 does not look at the handler's promise and Node    *)
(* ends the process.  PM2 starts it again; the database survives.  No      *)
(* query reads pending_readings, which is left to ReadingGateway: the      *)
(* balance route answers 0 pending units whatever the gateway accepted.    *)
(***************************************************************************)
EXTENDS Integers, Sequences, FiniteSets, FiniteSetsExt, Tally

CONSTANTS
    Device,         \* devices
    Request,        \* requests that may be in flight at once
    Amount,         \* amounts devices deposit
    Unit,           \* units of a reading; one unit costs one token
    Window,         \* from and to of a metrics request, in hours
    HoursPerDay,    \* 24
    MaxReadings,    \* bound: readings billed
    MaxFunds,       \* bound: what a device deposits
    MaxHour         \* bound: hours that pass

ASSUME ApiAssumption ==
    /\ Amount \subseteq Nat \ {0}
    /\ Unit \subseteq Nat \ {0}
    /\ HoursPerDay \in Nat \ {0}
    /\ {MaxReadings, MaxFunds, MaxHour} \subseteq Nat
    /\ Window \subseteq [from: 0..MaxHour, to: 0..MaxHour]

VARIABLES
    log,        \* the contract's events, as MeterLog has them
    funded,     \* device -> what it deposited
    cached,     \* meter_events: positions in log
    emitted_at, \* cached row -> hour
    hour,       \* the clock
    up,         \* whether the process runs
    request,    \* the handlers in flight
    answer      \* the last answer to each request

world == <<log, funded, cached, emitted_at, hour>>
vars == <<log, funded, cached, emitted_at, hour, up, request, answer>>

Meter == INSTANCE MeterLog WITH Cost <- Unit
Feed == INSTANCE EventFeed WITH billed <- DOMAIN log, announced <- {}

Init ==
    /\ Meter!Init
    /\ cached = {}
    /\ emitted_at = << >>
    /\ hour = 0
    /\ up = TRUE
    /\ request = << >>
    /\ answer = << >>

----------------------------------------------------------------------------
(* The world around the handlers.                                          *)

Deposit(d, amount) ==
    /\ funded[d] + amount <= MaxFunds
    /\ Meter!Fund(d, amount)
    /\ UNCHANGED <<cached, emitted_at, hour, up, request, answer>>

SubmitReading(d, units) ==
    /\ Len(log) < MaxReadings
    /\ Meter!Bill(d, units, units)
    /\ UNCHANGED <<cached, emitted_at, hour, up, request, answer>>

\* The indexer's handleEvent, with emitted_at: new Date().
\* Mutant: emitted_at is left out of the row.
CacheRowUntimed(i) ==
    /\ up
    /\ UNCHANGED <<log, funded, emitted_at, hour, up, request, answer>>
    /\ Feed!Store(i)

CacheRow(i) ==
    /\ up
    /\ UNCHANGED <<log, funded, hour, up, request, answer>>
    /\ Feed!Store(i)
    /\ emitted_at' = Put(emitted_at, i, hour)

PassHour ==
    /\ hour < MaxHour
    /\ hour' = hour + 1
    /\ UNCHANGED <<log, funded, cached, emitted_at, up, request, answer>>

----------------------------------------------------------------------------
(* The queries.                                                            *)

UnitsOf(rows) == Total([i \in rows |-> log[i].units])
CostOf(rows) == Total([i \in rows |-> log[i].cost])

AnyTime == [from |-> 0, to |-> MaxHour]

InWindow(i, w) == w.from <= emitted_at[i] /\ emitted_at[i] <= w.to

metricsFor(d, w) == {i \in cached : log[i].device = d /\ InWindow(i, w)}

\* The last row of ORDER BY seq ASC.
Latest(rows) == CHOOSE i \in rows : \A j \in rows : log[j].seq <= log[i].seq

bucket(i, granularity) ==
    IF granularity = "hour" THEN emitted_at[i]
    ELSE emitted_at[i] \div HoursPerDay

\* SELECT bucket, SUM(units), ... GROUP BY bucket
Grouped(rows, granularity) ==
    LET group(b) == {i \in rows : bucket(i, granularity) = b}
        balances(b) == {log[i].balance_after : i \in group(b)}
    IN {[bucket |-> b, total_units |-> UnitsOf(group(b)),
         total_cost |-> CostOf(group(b)), event_count |-> Cardinality(group(b)),
         min_balance |-> Min(balances(b)), max_balance |-> Max(balances(b))] :
           b \in {bucket(i, granularity) : i \in rows}}

\* Mutant: the upper end is exclusive here and not in metricsFor.
aggregateBefore(d, w, granularity) ==
    Grouped({i \in cached : /\ log[i].device = d
                            /\ InWindow(i, w)
                            /\ emitted_at[i] < w.to}, granularity)

aggregate(d, w, granularity) ==
    Grouped({i \in cached : log[i].device = d /\ InWindow(i, w)}, granularity)

\* MAX(seq), 0 when there is no row
latestSequence(d) == Max({log[i].seq : i \in metricsFor(d, AnyTime)} \cup {0})

\* GROUP BY device_id; the position stands for the ledger.
listDevices ==
    [d \in {log[i].device : i \in cached} |->
       LET rows == metricsFor(d, AnyTime) IN
       [event_count |-> Cardinality(rows), total_units |-> UnitsOf(rows),
        total_cost |-> CostOf(rows), last_ledger |-> Max(rows)]]

----------------------------------------------------------------------------
(* The handlers.                                                           *)

Handler(kind, d, w, granularity) ==
    [kind |-> kind, device |-> d, window |-> w, granularity |-> granularity,
     pc |-> "first", rows |-> {}]

Failed == [kind |-> "failed"]

Drop(f, ks) == [k \in DOMAIN f \ ks |-> f[k]]

\* A request reaches the process, or nobody.
Get(r, handler) ==
    /\ r \notin DOMAIN request
    /\ request' = IF up THEN Put(request, r, handler) ELSE request
    /\ answer' = IF up THEN Drop(answer, {r}) ELSE Put(answer, r, Failed)

Respond(r, body) ==
    /\ answer' = Put(answer, r, body)
    /\ request' = Drop(request, {r})
    /\ UNCHANGED <<world, up>>

\* GET /api/devices
GetDevices(r) ==
    /\ request[r].kind = "devices"
    /\ Respond(r, [kind |-> "devices", devices |-> listDevices])

\* The first await of the other two: metricsFor.
ReadRows(r) ==
    /\ request[r].kind \in {"balance", "metrics"}
    /\ request[r].pc = "first"
    /\ request' = [request EXCEPT
                     ![r].pc = "second",
                     ![r].rows = metricsFor(request[r].device,
                                            request[r].window)]
    /\ UNCHANGED <<world, up, answer>>

\* GET /api/devices/:id/balance once latestSequence() has answered seq.
\* Mutant: the totals are taken again from the table.
BalanceFresh(d, rows, seq) ==
    [kind |-> "balance", device |-> d,
     last_reading |-> IF rows = {} THEN 0 ELSE Latest(rows),
     on_chain_balance |-> IF rows = {} THEN {}
                          ELSE {log[Latest(rows)].balance_after},
     latest_seq |-> seq, pending_uncommitted_units |-> 0,
     total_units |-> UnitsOf(metricsFor(d, AnyTime)),
     total_billed |-> CostOf(metricsFor(d, AnyTime))]

\* on_chain_balance is a set of at most one number: {} is null.
Balance(d, rows, seq) ==
    [kind |-> "balance", device |-> d,
     last_reading |-> IF rows = {} THEN 0 ELSE Latest(rows),
     on_chain_balance |-> IF rows = {} THEN {}
                          ELSE {log[Latest(rows)].balance_after},
     latest_seq |-> seq, pending_uncommitted_units |-> 0,
     total_units |-> UnitsOf(rows), total_billed |-> CostOf(rows)]

GetBalance(r) ==
    LET q == request[r] IN
    /\ q.kind = "balance"
    /\ q.pc = "second"
    /\ Respond(r, Balance(q.device, q.rows, latestSequence(q.device)))

\* GET /api/devices/:id/metrics
GetMetrics(r) ==
    LET q == request[r] IN
    /\ q.kind = "metrics"
    /\ q.pc = "second"
    /\ Respond(r, [kind |-> "metrics", device |-> q.device, samples |-> q.rows,
                   granularity |-> q.granularity,
                   series |-> aggregate(q.device, q.window, q.granularity)])

\* The connection breaks: the client's fetch rejects.
ConnectionBreaks(r) ==
    /\ answer' = Put(answer, r, Failed)
    /\ request' = Drop(request, {r})
    /\ UNCHANGED <<world, up>>

\* A query rejected, or the process died otherwise.
Crash ==
    /\ up
    /\ up' = FALSE
    /\ request' = << >>
    /\ answer' = [r \in DOMAIN answer \cup DOMAIN request |->
                    IF r \in DOMAIN request THEN Failed ELSE answer[r]]
    /\ UNCHANGED world

Restart ==
    /\ ~up
    /\ up' = TRUE
    /\ UNCHANGED <<world, request, answer>>

----------------------------------------------------------------------------

HandlerStep(r) == GetDevices(r) \/ ReadRows(r) \/ GetBalance(r) \/ GetMetrics(r)

World ==
    \/ \E d \in Device :
          \/ \E amount \in Amount : Deposit(d, amount)
          \/ \E units \in Unit : SubmitReading(d, units)
    \/ \E i \in DOMAIN log : CacheRow(i)
    \/ PassHour

Server ==
    \/ \E r \in DOMAIN request : HandlerStep(r) \/ ConnectionBreaks(r)
    \/ Crash
    \/ Restart

\* Any client of the API.
Ask(r) ==
    /\ \E d \in Device :
          \/ Get(r, Handler("balance", d, AnyTime, "day"))
          \/ \E w \in Window, granularity \in {"hour", "day"} :
                Get(r, Handler("metrics", d, w, granularity))
          \/ Get(r, Handler("devices", d, AnyTime, "day"))
    /\ UNCHANGED <<world, up>>

----------------------------------------------------------------------------
(* Properties                                                              *)

\* The types of the tables and of the handlers.
TypeOK ==
    /\ cached \subseteq DOMAIN log
    /\ emitted_at \in [cached -> 0..MaxHour]
    /\ hour \in 0..MaxHour
    /\ up \in BOOLEAN
    /\ DOMAIN request \cup DOMAIN answer \subseteq Request
    /\ \A r \in DOMAIN request :
          /\ request[r].kind \in {"devices", "balance", "metrics"}
          /\ request[r].device \in Device
          /\ request[r].pc \in {"first", "second"}
          /\ request[r].rows \subseteq cached
    /\ \A r \in DOMAIN answer :
          answer[r].kind \in {"failed", "devices", "balance", "metrics"}

Answers(kind) == {r \in DOMAIN answer : answer[r].kind = kind}

\* The device's readings on the chain up to number n.
UpTo(d, n) == {i \in Meter!ReadingsOf(d) : log[i].seq <= n}

OneMoment(a) ==
    LET n == IF a.last_reading = 0 THEN 0 ELSE log[a.last_reading].seq
    IN /\ a.total_units = UnitsOf(UpTo(a.device, n))
       /\ a.total_billed = CostOf(UpTo(a.device, n))
       /\ n <= a.latest_seq
       /\ a.latest_seq <= Cardinality(Meter!ReadingsOf(a.device))
       /\ \A b \in a.on_chain_balance :
             b + a.total_billed <= funded[a.device]

\* The totals and the balance of one answer describe one moment on the chain,
\* the one after last_reading, although rows arrive between the queries and
\* the handler adds up by itself; latest_seq may be later, never earlier, and
\* balance and billed total together never exceed what was deposited.
BalanceIsOneMoment == \A r \in Answers("balance") : OneMoment(answer[r])

SamplesCovered(a) ==
    LET samples(b) == {i \in a.samples : bucket(i, a.granularity) = b}
    IN \A b \in {bucket(i, a.granularity) : i \in a.samples} :
          \E s \in a.series :
             /\ s.bucket = b
             /\ s.event_count >= Cardinality(samples(b))
             /\ s.total_units >= UnitsOf(samples(b))
             /\ s.total_cost >= CostOf(samples(b))
             /\ \A i \in samples(b) :
                   log[i].balance_after \in s.min_balance..s.max_balance

\* Every sample of a metrics answer is accounted for in its bucket of the
\* series: the chart and the table of one answer do not contradict each other
\* beyond rows that arrived in between.
SeriesCoversSamples == \A r \in Answers("metrics") : SamplesCovered(answer[r])

----------------------------------------------------------------------------
(* What makes them inductive.                                              *)

\* The readings of a device up to and including one of them.
Before(i) == {j \in 1..i : log[j].device = log[i].device}

\* What MeterLog and EventFeed say, as a state: readings are numbered by
\* counting, a balance and the costs up to it were deposited, and the cache is
\* a prefix of the log.
ChainInv ==
    /\ log \in Seq([device : Device, seq : Nat, units : Unit, cost : Unit,
                    balance_after : Nat])
    /\ funded \in [Device -> Nat]
    /\ \A i \in DOMAIN log :
          /\ log[i].seq = Cardinality(Before(i))
          /\ log[i].balance_after + CostOf(Before(i)) <= funded[log[i].device]
    /\ \A i \in cached : 1..i \subseteq cached

\* What the first query gave a handler is still in the table; the rows of a
\* balance are all those of the device up to the last of them.
HandlerInv(q) ==
    /\ DOMAIN q = {"kind", "device", "window", "granularity", "pc", "rows"}
    /\ q.kind = "balance" => q.window = AnyTime
    /\ q.kind = "metrics" => q.rows \subseteq metricsFor(q.device, q.window)
    /\ q.kind = "balance" =>
          \A i \in q.rows : log[i].device = q.device /\ Before(i) \subseteq q.rows

\* A device's line of the list counts rows that are in the table.
Below(info, rows) ==
    /\ info.event_count <= Cardinality(rows)
    /\ info.total_units <= UnitsOf(rows)
    /\ info.total_cost <= CostOf(rows)

ListInv(list) ==
    /\ DOMAIN list \subseteq Device
    /\ \A d \in DOMAIN list :
          /\ list[d].event_count \in Nat \ {0}
          /\ list[d].total_units \in Nat
          /\ list[d].total_cost \in Nat
          /\ Below(list[d], metricsFor(d, AnyTime))

AnswerInv(a) ==
    /\ a.kind = "failed" => a = Failed
    /\ a.kind = "devices" => ListInv(a.devices)
    /\ a.kind = "balance" => /\ a.device \in Device
                             /\ a.last_reading \in cached \cup {0}
                             /\ a.latest_seq \in Nat
                             /\ a.on_chain_balance \subseteq Nat
                             /\ OneMoment(a)
    /\ a.kind = "metrics" => a.samples \subseteq cached /\ SamplesCovered(a)

ApiInv ==
    /\ TypeOK
    /\ ChainInv
    /\ \A q \in Range(request) : HandlerInv(q)
    /\ \A a \in Range(answer) : AnswerInv(a)

============================================================================
