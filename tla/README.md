# Verification of the IoT Billing Service

TLA+ models, TLC runs and TLAPS proofs for the metered-billing service in this
repository: a Soroban contract that bills devices per signed reading, a backend
that relays readings and indexes billing events, and the clients around them.

## The system

| Component | State it keeps | Operations | Talks to |
|---|---|---|---|
| Billing contract (`contracts/src`) | token, registrations, tariffs, escrow deposits, reading counters, operator ledgers | `register_device`, `deposit_funds`, `submit_reading`, `settle_balance`, getters | the SEP-41 token (transfer); publishes `meter` events |
| Event indexer (`backend/src/indexer`) | the interval timer, one set of local variables per poll | `start`, `stop`, `poll`, `handleEvent` | RPC `getEvents`, cache store, telemetry bus |
| Event decoding (`indexer/decode.js`) | none | `scvalToString`, `scvalToBigInt`, `unwrapVec` | indexer |
| Cache store (`backend/src/db`) | `meter_events`, `pending_readings`, `meta.last_ledger`; the pool | opening and migrating, `close`, `ingest`, `getLastLedger`, `setLastLedger`, `recordPendingReading`, queries | indexer, gateway, REST API |
| Reading gateway (`backend/src/api/readings.js`) | none of its own; the relayer account's sequence number | `POST /api/readings`, `relayReading` | RPC `getAccount`, `prepareTransaction`, `sendTransaction`; cache store |
| Device emulator (`emulator/client.py`) | `seq`, `cumulative` | `emit`, `deliver`, `stream` | gateway |
| Telemetry stream (`api/server.js` `TelemetryBus`, `api/ws.js`) | subscribers; per socket `isAlive`, `deviceFilter` | `publish`, `broadcast`, heartbeat, `close` | indexer, dashboards |
| REST API (`api/server.js`) | none | balance, metrics, device list | cache store |
| Backend process (`index.js`, PM2) | open handles | start, shutdown | all of the backend |
| Dashboard (`frontend/src`) | React state | socket hook and chart, device table, wallet button | REST API, telemetry stream, Freighter |

A reading travels: the device signs (key, seq, units, time); the gateway checks
the signature and sends a transaction from the relayer's account; the contract
debits the device's escrow, credits the operator and publishes a `meter` event;
the indexer stores the event and hands it to the telemetry bus; the REST API and
the dashboard read the cache.

What is hard about it:

- **Money.** Escrow of all devices and earnings of all operators share one token
  balance. Whether an operator is ever paid with somebody else's deposit depends
  on all calls ever made, and on what a late overflow or a failed transfer undoes.
- **Replay.** Anyone may submit a reading; only the signature and the counter
  protect the device.
- **Overlapping polls.** `setInterval` starts a poll whether or not the last one
  has finished. Polls read, compare and write the watermark in separate awaits,
  so a slow poll can write a stale value over a newer one.
- **Failure between steps.** RPC and database calls reject and the process dies
  between ingesting, announcing and moving the watermark.
- **Pages.** A watermark is a ledger, a page ends anywhere within a ledger.
- **Integer limits.** i128 and u64 in the contract, int64 in the cache, doubles
  in the API.
- **Answers made of several reads.** Routes and the device table ask several
  questions one after the other, while what they ask about changes.
- **Connections.** Sockets stall, vanish and are cut between heartbeats.
- **Start and shutdown.** Backend and migration script may open one database at the
  same time. Shutdown closes the store first, with requests and polls under way.
- **Archival.** Ledger entries expire unless they are touched, and a touch does
  not always extend their lives.

What makes each part correct: the contract is solvent, bills each signature once and
exactly, and takes nothing from anybody who did not sign; the indexer loses, repeats and
reorders nothing and catches up; the gateway tells the device what happened to its
reading and does not lose readings; the stream delivers each stored event to the right
sockets; the API's totals are those of one moment on the chain; an open store is
complete; shutdown loses no committed work and ends, and the service comes back; a
device in use never finds its data archived; a page shows what its latest requests said,
and never waits for ever.

## Modules

| Module | What it is |
|---|---|
| `Tally` | partial maps (a family of storage keys) and the total of a map |
| `BillingContract` | the contract's four state-changing entrypoints and the token |
| `PrepaidLedger` | abstract specification: where money may be and how it may move |
| `MeterLog` | abstract specification: what the contract's events say of a device's account |
| `StorageTtl` | lifetimes of the contract's storage entries |
| `EventIndexer` | the poller, its process, the watermark and the event cache |
| `EventFeed` | abstract specification: the order in which events are cached and first announced |
| `EventDecode` | operators: an event's values from the contract to the columns of the cache |
| `ReadingGateway` | emulator, gateway handlers, relayer account and the contract's counter |
| `DeviceApi` | the GET routes and their queries, with the contract as `MeterLog` and the cache as `EventFeed` |
| `DeviceListView` | the dashboard's device table, on top of `DeviceApi` |
| `TelemetryStream` | bus, WebSocket hub, connections, the page's hook and chart |
| `StoreOpen` | opening and migrating the cache database, by several processes |
| `Lifecycle` | the backend process: opening (`StoreOpen`), serving, shutdown, crash and restart |
| `TallyProofs`, `BillingContractProofs`, `EventIndexerProofs` (also of `EventDecode`), `ReadingGatewayProofs`, `StorageTtlProofs`, `TelemetryStreamProofs`, `LifecycleProofs`, `DeviceListViewProofs` (also of `DeviceApi`) | lemmas and theorems |
| `MC_*` | symmetry and argument sets for TLC; reference definitions for totals and the decoder |

How they fit together: `BillingContract` implements `MeterLog` (`ImplementsMeterLog`)
and `EventIndexer` implements `EventFeed` (`ImplementsEventFeed`). `DeviceApi` is
built on these two specifications and not on the details below them, its log grows
by `MeterLog` steps and its cache by `EventFeed` steps; `DeviceListView` extends
`DeviceApi` by the page; `TelemetryStream` takes its rows in the order `EventFeed`
announces them; `Lifecycle` extends `StoreOpen` by what a backend does with the open
store. So what is checked of a page rests on what is checked of the contract
and the indexer, the latter with a cursor in the RPC's replies.

### BillingContract

One variable per family of storage keys (`registration`, `tariff`, `deposit`,
`reading`, `operator_balance`) plus `token`, each a partial function: a key never
written is outside the domain. `balance` is the SEP-41 token's ledger, `meter`
the published `meter` events, `result` the outcome of the last call.

A Soroban invocation is atomic: an `Err` or a trap discards every write. So each
entrypoint `f` is an operator `fError`, which names the first check that fails in
the order of the code, and an action that applies all writes when that is `"Ok"`
and none otherwise. The arguments come from small sets, which contain invalid
values (a negative rate, a zero amount or reading, wrong sequence numbers, any
signature) and any set of signers. `MaxI128` and `MaxU64` stand for the limits of
the types; every checked addition and multiplication is compared with them.

A signature is the record of what it signs: key, sequence number, units and time.
It can be captured and resubmitted, and nobody can make one that says something
else.

`TokenTransfer` and `TokenClawback` are the token's own life outside the contract:
accounts pay each other and may send tokens to the contract, and the issuer of a
`"revocable"` token may take tokens out of custody, the case `settle_balance`'s
comment speaks of. `TokenArg` says which kinds of token the contract may be
initialised with; `Solvency` is about `"plain"` ones.

Left out: `registered_at` and `last_ts`, which are stored and never read by the
contract, and events of other topics, which nothing in the repository decodes.

### EventIndexer

`chain` is the contract's event log, an event being its ledger and its kind:
`meter`, `other` (ignored by `handleEvent`), or `unstorable` (a `meter` event
whose i128 values do not fit the int64 column, so that `ingest` rejects).
`watermark` is `meta.last_ledger`, `rows` the table `meter_events` in insertion
order, `poll[p]` the local variables of one poll. `pc` names the await at which a
poll is suspended; every stretch of code between two awaits is an action, and so
is every database statement. `PollFails` is the `catch` of `poll()`; `Crash` ends
all polls and keeps the database; `Stop` clears the timer and leaves the polls
running. A statement that takes effect and whose answer is lost is the statement
followed by `PollFails`.

The RPC is external and assumed to answer with the events from `startLedger` or
after the cursor, in order, at most `PAGE_LIMIT`, with `latestLedger` the newest
ledger at that moment. Its retention window and its limit on ledgers scanned per
request are not modelled. `HasCursor` says whether the client library passes the
reply's cursor on.

### ReadingGateway

`seq` is the emulator's counter, `request` the handlers in flight with the await
each is suspended at, `account` the relayer account's sequence number, `queue` the
relayer's transaction waiting in the network (a network takes one per account, with
the account's next number), `last_seq` and `escrow` what `submit_reading` looks at,
the escrow counted in readings. `configured` is chosen once: with a relayer a
reading is relayed and recorded with its hash, without one it is only recorded.

`Emit` posts a reading, `EmitLost` is a post that reached nobody (backend down,
rate limit): `client.py` prints it and counts on. `ClientTimeout` lets the emulator
go on while the handler works. A handler goes `GetAccount`, `PrepareTransaction`,
`SendTransaction`, `RecordPendingReading`; `RelayFails` is the `catch` that answers
502, and `Crash` stands also for the rejection nothing catches when there is no
relayer. `SubmitElsewhere` and `Redeliver` are anybody else with a reading that was
seen. The network applies a queued transaction or drops it after its time bound.

The RPC is assumed not to go back in time: a simulation sees at least the ledger
an earlier `getAccount` saw. Escrow shrinks only by readings (`BillingContract`
has no withdrawal for devices). A post that validation refuses (400, 401) changes
nothing and is not modelled. One whose key or signature is null or a number passes the
check for missing fields (`readings.js:85`) and throws at line 34 or 36, outside any
`try`, which ends the process: here that is one of the reasons for `Crash`, in
`Lifecycle` it is `Malformed`.

### MeterLog and EventFeed

`MeterLog` has the log of `meter` events and what each device has deposited:
readings are numbered from 1 without gaps, and `balance_after` is deposits less the
costs so far. `EventFeed` has the positions of billing events in the log, those
cached and those announced: both grow one at a time in the log's order, the second
within the first. Repeated announcements are stutters there.

### StorageTtl

`ttl` counts the ledgers an entry has left, -1 meaning archived; `instance` is the
same for the instance entry with the token, which nothing extends. An invocation is
the set of entries it touches; each touch is `extend_ttl(TTL_THRESHOLD,
TTL_EXTEND_TO)`, which does nothing to an entry with more than the threshold left.
Whether one with exactly the threshold is extended depends on the host, and
`inclusive` leaves it open. `GetEntry` stands for the getters, which extend what they
read when sent as transactions. `Restore` and `RestoreInstance` are the network's
RestoreFootprint. `metered` counts the ledgers since a device was last billed. The
conditions that refuse an invocation are in `BillingContract`; a refused one leaves
every lifetime as it was.

### EventDecode

Pure operators, for no part of the decoder keeps state: `Delivered` is an event as it
arrives in one of three forms (XDR, decimal strings, BigInt), `RowOf` the row
`handleEvent` makes of it, `Fits` whether the 64-bit columns can hold it; a row that does
not fit is what `EventIndexer` calls `unstorable`. `Number` rounds to the nearest double,
ties to even; `MaxSafe` and `MaxInt64` stand for 2^53 and 2^63-1, so that values lie
below, between and above both. `MC_EventIndexer` compares `Number` and `RowOf` with
reference definitions (`NumberIsNearest`, `RowsAreEvents`), which TLC evaluates in the
indexer runs. Null and malformed values, which `decode.js` also guards against and the
contract never emits, are left to its unit tests.

### DeviceApi

The variables are the cache, the contract's log and deposits, the clock in hours, and
the handlers in flight with the rows their first query returned. A handler is
suspended at each query: with PostgreSQL rows arrive in between, with SQLite, whose
driver is synchronous, they do not, which is one of the behaviours modelled. The
sums, buckets and extrema of the SQL are operators on sets of rows. `Crash` stands
for a query that rejects, which no handler catches, and for anything else that ends
the process. One unit costs one token here; tariffs are `BillingContract`'s.
Sums are exact, while `server.js:75-79` adds doubles: what is said of totals
(`BalanceIsOneMoment`, `RowsConsistent`) holds for totals below 2^53.

### DeviceListView

One state for the component, one record per effect: where it is, whether it was
cancelled, and which mounting it belongs to. Its requests are requests of `DeviceApi`,
so rows arrive, queries reject and the process dies between them. `StrictRemount` is
React's StrictMode, with which `main.tsx` renders. `ShownRow` is what a row of the
table says. The API is used by the page or by one other client, not both (`OneClient`):
their requests share nothing but the cache, which neither changes.

### TelemetryStream

Announcements are numbered; frames, what a page received, and the chart refer to these
numbers. `socket` is `wss.clients` with `isAlive`, `channel` the device filter and when
it was set, `wire` the frames on a connection, in order. A page may close, vanish
without a word, or be cut by `terminate()`. `Render` may come at any time, with any
number of messages since the last one, because React batches. A row carries BigInt
values or not: the indexer's always do, those of the hub's tests never. `StreamIsChannel`
is about rows that can be encoded, `EveryEventDelivered` about all.

### StoreOpen and Lifecycle

`proc` says where each process is: the backend and runs of `migrate.js` open one
database. SQLite executes the schema statement by statement (`ExecStatement`), then
looks for the `ledger_ts` column (`Look`) and adds it (`Alter`), which fails when
another process was faster; PostgreSQL executes the schema as one transaction, of which
one of two at once may fail. The database may be new, complete, from before the
`ledger_ts` column (`older`), or whatever a process that died has left, for both
dialects. `CREATE TABLE IF NOT EXISTS` leaves an existing table as it is and
`migrateCompat` is SQLite's only, so an older PostgreSQL database opens without the
column; `OpenIsComplete` names this exception.

Once its store is open the backend serves. Requests and polls are what they wait for: a
query with a client of the pool, a query in the pool's queue, or the RPC. `Signal` is
`shutdown` up to its await: the timer and the hub stop, the store begins to close;
`StorageClosed` is the end of the pool, after which `server.close` lets connections
drain; `Exit` is its callback. With SQLite all of that is one step. An ended pool
refuses new queries, completes those that have a client and forgets those that wait.
Connections in use when `server.close` is called may carry another request before
`keepAliveTimeout` closes them, or be closed at once; Node's versions differ, and both
are allowed. A `Kill` may come after any signal. `Restart` goes through opening again.

Every query may reject (`Rejects`): because the store is not open, and in any state of
it because a connection is lost, the database is busy, or it does not take a value or a
parameter. A SQLite query rejects at once, a PostgreSQL one when it has a client
(`FinishQuery`) or when the pool has been ended. Handlers without a `try` (`Bare`: the
GETs, and the POST without a relayer) leave that to Node, which ends; relays and polls
catch it. Three more errors are handled by nobody: a POST whose key or signature is null
or a number (`Malformed`), the pool's `error` event when an idle client loses its
connection (`PoolError`), and a WebSocket's when its peer breaks the protocol
(`SocketError`).

## Runs

| Run | Bounds | Shows |
|---|---|---|
| `contract` | 2 accounts, 2 keys, rates -1, 1, 3, amounts 0, 2, units 0..2, seq 1..2, i128 limit 4, u64 limit 2, plain token | types, solvency, revenue equals metered units at the tariff, events rebuild the meters, the event's balance is a lower bound, no replay, no dead check fires, nobody loses without signing |
| `contract_clawback` | 2 accounts, 1 key, rates 0, 1, amount 2, unit 1, i128 limit 3, revocable token | entrypoints never widen a gap between books and custody; the contract implements `PrepaidLedger` and `MeterLog` |
| `contract_shared_key` | 2 accounts, 1 key | **violation**: one signature billed for two devices |
| `indexer` | 2 polls, page of 2, 2 ledgers of up to 2 events of all kinds | nothing lost below the watermark, cache is a prefix, announced implies stored, watermark is closed; the indexer implements `EventFeed`; the watermark catches up; the decoder agrees with its reference |
| `indexer_nocursor` | 1 poll, page of 1 | **violation**: events lost when a full page has no cursor |
| `gateway` | 1 device with 2 readings, 2 handlers, escrow of up to 2 readings | acknowledged readings are billed unless they expire; a lost reading silences its device; every post is answered |
| `gateway_audit` | as `gateway`, escrow of 1 | **violation**: a reading under way is missing from `pending_readings` |
| `stream` | 1 client, 2 devices, 2 events, 4 announcements, with and without BigInt, chart of 2 points | a client gets its channel, no overtaking, only silent clients are cut, dead sockets are reaped, chart in order and up to date |
| `stream_bigint` | 1 client, 1 event | **violation**: an event with BigInt values reaches nobody |
| `view` | 1 device, 2 readings of 1 or 2 units, 2 hours of one day, 2 windows, 2 effects, 1 request of another client | an answer's totals are of one moment, series cover samples, rows put together from three requests are consistent, the page shows what its latest effect fetched and nothing of a cancelled one, loading ends |
| `backend` | backend and one script, 1 crash while opening, both dialects, each with a new, a complete and an older database, 2 requests, 1 poll, 1 socket, pool of 1, 2 signals | an open store is complete (an older PostgreSQL table but for its column), a graceful exit leaves nothing behind, polls, relays and late RPC answers never crash the process, shutdown ends once the clients are gone, the service comes back |
| `ttl` | 1 device, 2 operators, threshold 2, extension 4, network minimum 3 | a regularly metered device never finds an entry archived |

The contract's bounds are small enough that every limit is hit: two readings of
one or two units at rate 3 exceed the i128 limit of 4 in the product and in the
operator's total, two units exceed the u64 limit in `cumulative_units`, and the
sequence number reaches its limit after two readings. The limits also bound the
state space, since tokens are conserved and each device is billed at most
`MaxU64` times. Two accounts suffice for a device to share an operator, for each
to be the other's operator, and for one to be its own. Every wrong order of calls
that involves at most two parties is in it; the theorems below cover the rest.
Accounts and keys are interchangeable, so symmetry is used in `contract`,
`contract_clawback` and `ttl`, which check no liveness; `GapOnlyByClawback`,
`OwnersConsent` and the refinements are properties of single steps, whose truth a
permutation of accounts does not change. With the revocable token every step a plain
token allows is still possible; the issuer only adds one.

For the indexer two polls are enough for each read-compare-write race, a page of
two for a page to end at, before and within a ledger, and two ledgers for a poll
to start before, between and after them. The unstorable event may be first, last or
in the middle.

For the gateway two handlers are enough for two transactions with one sequence
number; a device with two readings can lose the first and post the second, and have
both under way at once; deposits may come before, between and after them. Devices share
the relayer's account and nothing else, and the theorems are for any number of them.

For the stream one client is enough, since the hub treats each socket by itself: it can
connect, set a filter, stall, vanish, be cut and connect again, with more announcements
than events (repeats) and rows enough to overflow the chart. In `view` two effects let
one be cancelled under its requests, and two readings let the cache change between any
two of them; readings of different devices meet in no row of the table. In `backend` the
pool is smaller than the number of jobs, so that queries wait when it is ended, and the
second signal meets what the first has closed. Extension and threshold of `ttl` differ
by more than one ledger, and the minimum lies between them, so that a new entry is not
extended at once; the theorems cover every other choice.

No contract state is a deadlock (calls can always be rejected), and neither is a
state of the other modules: the deadlock check is on in every run.

### Fairness

`FairSpec` assumes what the code's surroundings give it: `setInterval` keeps firing
(`WF` of `Tick`), an await is eventually answered (`WF` of each poll's steps), PM2
starts the process again (`WF` of `Start`). And it assumes that failures, stops and
crashes cease from some point on, since a poller that fails every time caches nothing.
`CloseLedger` has no fairness. An event of kind `unstorable` is retried for ever, and
nothing behind it is cached: `WatermarkCatchesUp` promises nothing to a log that has one
(`Poisoned`). In `ReadingGateway` only the handlers' own steps are fair: an RPC or
database call is answered or rejected in the end. Neither client sets a timeout of its
own, so a connection that hangs for ever is outside this.

In `TelemetryStream` the heartbeat's timer fires, a connection that is up delivers and a
browser renders; connecting, closing and vanishing are not fair. In `DeviceListView`
queries are answered and arrived answers handled; PM2's restart is not assumed. In
`Lifecycle` database and RPC answer, keep-alive timeouts fire, Node runs what is ready,
and PM2 starts a backend that has ended again (`autorestart: true` in its
configuration), which PM2 does within its limit of unstable restarts; clients, the
operator and the migration script may do as they like, and `ShutdownEnds` says what
happens once the clients are gone.

## Proofs

All theorems hold for every value of the constants that satisfies the modules'
assumptions: any finite set of accounts, any key set, any integer limits, any
number of polls, any page limit, any chain.

- `ContractTypes`, `ContractSolvent`, `GapsAreClawbacks`, `DefensiveChecksDead`.
  None of `TypeOK`, `Solvency` and `NoImpossibleFailure` is inductive. `BooksInv`
  adds that the token key is set, that every registered device is active, and that
  no operator has been paid more than it earned; the last one is what makes unpaid
  earnings a natural number, hence a total. Solvency follows from
  `GapOnlyByClawback`'s argument: by `TotalPut` (a write at key `k` changes a
  total by the difference of the values at `k`) each entrypoint changes custody
  and promises by the same amount. `TotalPut` rests on the library's facts about
  cardinality: a total counts pairs of a key and a unit. An assumption in
  `MC_BillingContract` has TLC compare this with the community modules' sum.
  `Solvency` is about a plain token; `TokenFixed` (the token never changes once it is
  set) is what carries that from one step to the next.
- `EventsRebuildMeters`, `ReplayProtected`, `EventBalanceSafe`, `RevenueExact`,
  `ConsentNeeded`. What the events say follows from `BooksInv` and `LogInv`: each event
  belongs to a registered device, bears the number that was signed, and there are as many
  as `last_seq` says. So a new event has the number after all earlier ones of its device,
  and a signature that appears in the log twice for one device would have two numbers.
  Revenue is counted in pairs of an event and a unit: `submit_reading` adds the same
  number to the operator's earnings and to the pairs. `ConsentNeeded` goes through the
  places that write a balance or a record of an owner.
- `ContractRefinesLedger`, `EventsImplementLog`. Each entrypoint maps to the money
  movement of `PrepaidLedger` it makes, or to a stutter when it is refused; the token's
  own transfers map to the outside world's. The second one needs the event log's
  invariant: `MeterLog` numbers readings by counting them and subtracts all costs so far,
  the contract keeps a counter and an escrow.
- `IndexerTypes`, `AnnouncedAreStored`, `WatermarkStaysClosed`, `NeverCountedTwice`,
  whether or not replies carry a cursor: `SafeInv` bounds what a poll holds by the log
  and the newest ledger, and remembers that the event it is about to announce is stored.
- `NothingLost`, `CacheOrdered`, under the assumption that replies carry a cursor; the
  run `indexer_nocursor` shows that `NothingLost` needs it. `IndInv` says what each
  suspended poll knows (`PollInv`): it has dealt with every event up to its position,
  every ledger below its `startLedger` is done, and a page that was not full reached the
  end of the log as it was at `latestLedger`. So any watermark a poll holds, however
  stale, is one below which everything is done, and writing it is harmless.
  `IndexerImplementsFeed` uses the same invariant: whatever a poll inserts next is the
  first event of the log that is not cached, and what it announces then is the first not
  announced, or an event announced before, which is a stutter of `EventFeed`.
- `GatewayTypes`, `AcknowledgedReadingsBilled`, `GapsAreForever`. The invariant
  (`IndInv` of `ReadingGateway`) says that as long as a handler's sequence number is
  the account's next one, no transaction of the relayer has been applied since it
  was read; so the reading that the simulation accepted afterwards is still
  acceptable, or somebody else has had it billed. A transaction in the queue has
  that number, hence is not refused. The gap theorem needs that whatever is in a
  handler or in the queue was seen, which a lost reading never was.
- `TtlTypes`, `MeteredDevicesLive`, for any threshold, extension not below it and
  network minimum. `MeteredDeviceLives` says that an entry is live, which closing a
  ledger can end; inductive is `LifeLeft`: an entry of a device billed n ledgers ago
  has at least `TTL_THRESHOLD` - n ledgers left. It rests on `BumpGives` (an extension
  leaves at least the threshold, whether or not it did anything) and on `HasOperator`
  (a registered device's operator is known, so its ledger is among what is touched).
- `SequenceOrderKept`, for every sequence number as far as the doubles are modelled
  with steps of 1, 2 and 4: sorting by the double a number becomes keeps the order.
  Rounding is monotone (`NearestMonotone`) and does not cross a multiple
  (`NearestWithin`), which joins the three ranges.
- `StreamTypes`, `StreamDelivers`, `EventsNotOvertaken`, `ChartOrdered`,
  `SilentClientsOnly`. `StreamIsChannel` compares what a page has with what was due to
  it. `ConnectionInv` says more for a connection that is whole (received and in flight
  together are exactly what was due), which is what a broken one has a part of.
  `RowsInv` says that rows are announced first in the log's order and alike each time;
  without it a repeated row could be the first sight of an event. `SilenceInv` is why a
  client that answers is never cut: while its socket is marked silent a ping or its pong
  is under way. Frames are numbered and a connection keeps them in increasing order, so
  what is due is a set here and not a filtered sequence, about which the provers could
  show nothing.
- `OpenStoreComplete`, `PoolWithinLimit`, `ExitGraceful`, `CrashesAreExplained`.
  `OpenInv` says what each process that is opening the database has executed or seen,
  and that a table of today's version has the column;
  the database only grows, so this stays true whatever other processes do. `ServeInv`
  orders a shutdown: queries end before the store is closed, and the store is closed
  before the server. `CrashesExplained` is an action property and needs `ServeInv` for
  what the handler of a query that rejects is, and that no statement is under way any
  more when the server closes.
- `ApiTypes`, `BalanceOfOneMoment`, `SamplesInSeries`, `CancelledNeverShown`,
  `TableConsistent`, for any number of devices, readings, requests and effects, any
  hours in a day and any windows. `ViewInv` has four parts. `ApiInv` says what a handler
  between its two queries and an answer that was sent know of the log, the deposits and
  the cache; these only grow, so it stays true while rows arrive (`Grows`). The rows of
  a balance are all readings of the device up to the last of them; since readings are
  numbered by counting, those are the readings up to that number, and the extrema and
  `last_reading` exist because the rows are finite. `EffectsInv` says that only the
  latest effect of a mounted page is not cancelled, `LinksInv` that a request of the
  page is what its id says and that its answer is not below the line of the list which
  was there before, and `StateInv` what the page shows. That the table stays what the
  latest effect fetched needs that an answer is not replaced once it is there
  (`AnswersInv`, `DetailsStay`). The last relation of a row, units of the list against
  the sum of a series, needs that a total is the total of the totals by bucket
  (`TotalByGroups`); as `TotalPut`, it is a bijection between sets of pairs.

Only model-checked: the liveness properties (`WatermarkCatchesUp`, `EveryPostAnswered`,
`DeadSocketsReaped`, `ChartKeepsUp`, `LoadingEnds`, `ShutdownEnds`, `ServiceReturns`),
which are beyond the proof system, and the comparisons with reference definitions in
`MC_EventIndexer` and `MC_BillingContract`, which TLC evaluates over bounded inputs. The
types of indexer, gateway and storage lifetimes are proved and need no run.

## Disagreements with the documentation

- `contracts/src/storage.rs:181` says a captured signature cannot be used across
  devices. The payload has no device address and keys need not be distinct:
  `contract_shared_key`.
- `backend/src/indexer/indexer.js:15-18` says the watermark moves only after a
  page that is not full. With no cursor in the reply it also moves after a full
  one (line 84), and the rest of that ledger is lost: `indexer_nocursor`. The
  locked SDK version's `getEvents` returns no cursor.
- `backend/src/api/readings.test.js:107` says readings are persisted to
  `pending_readings` for the audit trail. A relayed one is recorded after it was
  sent, and not at all when the insertion fails or the process dies then:
  `gateway_audit`.
- `backend/src/api/ws.js:8-10` says a client gets every event of its channel. The
  indexer's rows hold BigInt values (`indexer.js:124-127`), which `JSON.stringify`
  refuses; `TelemetryBus` logs the error and nobody gets the event: `stream_bigint`.

Worth knowing, without a run of their own:

- `README.md:94` says the balance route has the pending units. It answers the constant
  0 (`server.js:81`), whatever `pending_readings` holds.
- `contracts/src/storage.rs:77-78` says entries live for about six months between
  touches. A touch extends only below the threshold, so what is certain is
  `TTL_THRESHOLD` ledgers, about two months; `MeteredDeviceLives` is stated with that.
- `backend/src/db/store.js:116` says `ready()` resolves once the store is migrated. A
  PostgreSQL database from before the `ledger_ts` column is not: every insertion of an
  event (`store.js:251`) and `GET /api/devices` (`store.js:341`) then fails.
- `frontend/src/hooks/useWallet.ts:8` says there is a testnet placeholder without
  Freighter. There is none.

And what the properties that hold say of the code:

- `CrashesExplained`: any query that rejects in a GET, with either dialect and in any
  state, ends the process, and so do a POST whose key or signature is null or a number
  and the `error` events of pool and sockets. During shutdown a GET that meets the
  closed store and a second signal with PostgreSQL end it instead of exit code 0. What
  polls and relays meet never does.
- `OpenIsComplete`: the exception it names, an older PostgreSQL database.
- `ExitIsGraceful`: since the heartbeat is stopped first, a socket whose peer has
  vanished keeps a process that is shutting down alive until it is killed.
- `StorageTtl`: the instance entry with the token is never extended, so a contract in
  daily use still has to be restored.
- `GapIsForever`: one reading that does not reach the gateway, or is refused by it for
  good, ends a device's billing, because `client.py:96` counts on and the contract
  insists on the next number.

## Plan

The core came first: contract, indexer, gateway, their abstract specifications and
theorems. Then the parts around them: stream and page, API and device table, process and
store, lifetimes and decoder, and their proofs. Next:

1. A pipeline that joins gateway and contract by their common counter.
2. What a poller without a cursor still guarantees below the first ledger whose events
   do not fit one page.

## Not modelled

- Reading the environment (`config.js`), CORS, rate limiting and static files: one
  pass before anything runs, or configuration of libraries. A post refused by the rate
  limit is `EmitLost`, a refused origin a request that never arrives.
- The wallet button: it shows the last answer of the Freighter extension and nothing
  else in the program depends on it.
- Markup, routing and styles: what a page shows is modelled, not how.
- Null and malformed values in `decode.js`, the synthetic values of the emulator and
  its mode without an endpoint: sequential, without state, covered by unit tests.
- PM2's memory limit and log files, CI and deployment scripts: sequential steps
  around external tools.
- The RPC's retention window and request limits, and hanging connections without an
  answer: neither client bounds them, so no property of this code depends on them
  beyond what a failed call shows.
