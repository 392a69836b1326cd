----------------------------- MODULE Lifecycle -----------------------------
(***************************************************************************)
(* The life of a backend process (backend/src/index.js).  It opens the     *)
(* cache (StoreOpen), serves, and on SIGINT or SIGTERM stops the poller    *)
(* and the WebSocket hub, closes the cache store, and only then stops the  *)
(* HTTP server, whose last connection ends the process with exit(0).       *)
(* Meanwhile requests and polls go on with the closed store behind them.   *)
(* PM2 starts a process that has ended again.                              *)
(*                                                                         *)
(* The SQLite driver is synchronous: a GET is one step, and so is a whole  *)
(* shutdown up to server.close.  The PostgreSQL pool lends a client to     *)
(* each query, lets the others wait, and when it is ended refuses new      *)
(* queries, completes those that have a client and forgets those that      *)
(* wait.  Any query may reject, with the store open too.  One that does so *)
(* in a GET, or in the POST of a gateway without a relayer, is an          *)
(* unhandled rejection, which ends a Node process; relaying and polls      *)
(* catch theirs.  The other errors nobody handles are a POST whose key or  *)
(* signature is null or a number and the 'error' events of the pool and of *)
(* a WebSocket.                                                            *)
(***************************************************************************)
EXTENDS StoreOpen, FiniteSets

CONSTANTS
    Backend,        \* the process; the others run the migration script
    Request,        \* HTTP requests
    Poll,           \* polls
    Socket,         \* WebSocket connections
    PoolMax,        \* clients of the PostgreSQL pool
    MaxSignals      \* bound: signals sent to the process

ASSUME LifecycleAssumption ==
    /\ Backend \in Process
    /\ Request \cap Poll = {}
    /\ PoolMax \in Nat \ {0}
    /\ MaxSignals \in Nat

VARIABLES
    store,      \* "open", "ending" (pool.end has been called) or "closed"
    timer,      \* the poller's interval is set
    hub,        \* the hub takes upgrades and sends heartbeats
    server,     \* "listening", or "closing" after server.close
    signals,    \* signals received
    work,       \* request or poll -> what it is doing
    conn,       \* requests whose client waits for the answer
    kept,       \* requests whose connection outlived server.close unanswered
    sock        \* state of each WebSocket; "dead" if its peer vanished

http    == <<work, conn, kept>>
serving == <<store, timer, hub, server, signals, http, sock>>
control == <<kind, opening, store, timer, hub, server, signals>>
vars    == <<proc, control, http, sock>>

Up == proc[Backend] = "up"

Job == Request \cup Poll

\* what: the handler; at: "query" and "queued" wait for the database, with
\* and without a client of the pool, "network" waits for the RPC; left: the
\* queries still to be made, the current one included.
Nothing == [what |-> "none", at |-> "idle", left |-> 0]

Work == [what : {"none", "bare", "relay", "poll"},
         at : {"idle", "query", "queued", "network"}, left : 0..2]

Busy(j) == work[j].at # "idle"
InQuery(w) == {j \in Job : w[j].at = "query"}

\* Every connection of the HTTP server, upgraded or not, is gone.
Drained ==
    /\ conn = {} /\ kept = {}
    /\ \A s \in Socket : sock[s] = "none"

\* index.js once the store is open, from TelemetryBus to server.listen.
Fresh ==
    /\ store' = "open"
    /\ timer' = TRUE
    /\ hub' = TRUE
    /\ server' = "listening"
    /\ signals' = 0
    /\ work' = [j \in Job |-> Nothing]
    /\ conn' = {}
    /\ kept' = {}
    /\ sock' = [s \in Socket |-> "none"]

Init ==
    /\ OpenInit
    /\ store = "open"
    /\ timer = TRUE
    /\ hub = TRUE
    /\ server = "listening"
    /\ signals = 0
    /\ work = [j \in Job |-> Nothing]
    /\ conn = {}
    /\ kept = {}
    /\ sock = [s \in Socket |-> "none"]

----------------------------------------------------------------------------
(* Queries.  Each operator says what becomes of job j, which is x by now,  *)
(* when the other jobs do w and c is the set of connected requests.        *)

\* Mutant: the relay, too, leaves the insertion's rejection to Node.
UncaughtInRelay(x) == x.what \in {"bare", "relay"}

\* A rejection nobody catches.
Uncaught(x) == x.what = "bare"

\* Mutant: one client too many.
HasClientSpare(j, w) == Cardinality(InQuery(w) \ {j}) <= PoolMax

\* The pool has a client for j.
HasClient(j, w) == Cardinality(InQuery(w) \ {j}) < PoolMax

\* The handler is over, answered or failed.  server.close has closed the idle
\* connections; one that becomes idle later may be kept for a while.
Over(j, w, c) ==
    /\ work' = [w EXCEPT ![j] = Nothing]
    /\ conn' = c \ {j}
    /\ \/ kept' = kept \ {j}
       \/ server = "closing" /\ j \in c /\ kept' = kept \cup {j}

GoesOn(j, x, w, c) ==
    /\ work' = [w EXCEPT ![j] = x]
    /\ conn' = c
    /\ kept' = kept \ {j}
    /\ UNCHANGED proc

\* The query fails: a store that is not open, a connection that is lost, a
\* busy database, a value or a parameter the statement does not take.
Rejects(j, x, w, c) ==
    /\ Over(j, w, c)
    /\ IF Uncaught(x) THEN Goes(Backend, "crashed") ELSE UNCHANGED proc

\* pool.query, or the driver's prepare and run, which throw at once.
Query(j, x, w, c) ==
    \/ (store # "open" \/ kind = "sqlite") /\ Rejects(j, x, w, c)
    \/ /\ store = "open" /\ kind = "postgres"
       /\ GoesOn(j, [x EXCEPT !.at = IF HasClient(j, w) THEN "query"
                                     ELSE "queued"], w, c)
    \/ /\ store = "open" /\ kind = "sqlite"
       /\ IF x.what = "poll" /\ x.left > 1
          THEN GoesOn(j, [x EXCEPT !.at = "network", !.left = @ - 1], w, c)
          ELSE Over(j, w, c) /\ UNCHANGED proc

\* The pool after j's client came back: a waiting query takes it, unless the
\* pool is ending.
Returned(j) ==
    LET waiting == {q \in Job : work[q].at = "queued"}
        back    == [work EXCEPT ![j].at = "idle"]
    IN IF store # "open" \/ waiting = {} THEN {back}
       ELSE {[back EXCEPT ![q].at = "query"] : q \in waiting}

\* The statement of a query that has a client ends, or fails.
FinishQuery(j) ==
    /\ Up
    /\ work[j].at = "query"
    /\ \E w \in Returned(j) :
          LET x == [work[j] EXCEPT !.left = @ - 1] IN
          \/ x.left = 0 /\ Over(j, w, conn) /\ UNCHANGED proc
          \/ /\ x.left > 0 /\ x.what = "poll"
             /\ GoesOn(j, [x EXCEPT !.at = "network"], w, conn)
          \/ x.left > 0 /\ x.what # "poll" /\ Query(j, x, w, conn)
          \/ Rejects(j, x, w, conn)
    /\ UNCHANGED <<control, sock>>

----------------------------------------------------------------------------
(* Requests, polls and WebSocket clients.                                  *)

CanArrive(r) ==
    /\ Up
    /\ server = "listening" \/ r \in kept
    /\ ~Busy(r) /\ r \notin conn

\* Handlers without a try: GET /api/devices and the insertion of a reading
\* that is not relayed make one query, the other GETs two.
Bare(r, n) ==
    /\ CanArrive(r)
    /\ Query(r, [what |-> "bare", at |-> "query", left |-> n], work,
             conn \cup {r})
    /\ UNCHANGED <<control, sock>>

\* POST /api/readings with a key or signature that is null or a number passes
\* the check for missing fields, and Buffer.from throws outside any try.
Malformed(r) ==
    /\ CanArrive(r)
    /\ Goes(Backend, "crashed")
    /\ UNCHANGED <<control, http, sock>>

\* POST /api/readings with a relayer: the RPC first, then the insertion.
Relay(r) ==
    /\ CanArrive(r)
    /\ GoesOn(r, [what |-> "relay", at |-> "network", left |-> 1], work,
              conn \cup {r})
    /\ UNCHANGED <<control, sock>>

Tick(p) ==
    /\ Up
    /\ timer
    /\ ~Busy(p)
    /\ Query(p, [what |-> "poll", at |-> "query", left |-> 2], work, conn)
    /\ UNCHANGED <<control, sock>>

\* The RPC answers, or fails, which both handlers catch.
NetworkAnswers(j) ==
    /\ Up
    /\ work[j].at = "network"
    /\ \/ Query(j, work[j], work, conn)
       \/ Over(j, work, conn) /\ UNCHANGED proc
    /\ UNCHANGED <<control, sock>>

\* keepAliveTimeout
KeepAliveEnds(r) ==
    /\ Up
    /\ r \in kept
    /\ kept' = kept \ {r}
    /\ UNCHANGED <<proc, control, work, conn, sock>>

\* The client goes away; its handler does not notice.
HangUp(r) ==
    /\ r \in conn
    /\ conn' = conn \ {r}
    /\ UNCHANGED <<proc, control, work, kept, sock>>

Upgrade(s) ==
    /\ Up
    /\ hub /\ server = "listening"
    /\ sock[s] = "none"
    /\ sock' = [sock EXCEPT ![s] = "open"]
    /\ UNCHANGED <<proc, control, http>>

\* The peer closes its socket, or disappears without a word.
Leave(s) ==
    /\ sock[s] = "open"
    /\ \E gone \in {"none", "dead"} : sock' = [sock EXCEPT ![s] = gone]
    /\ UNCHANGED <<proc, control, http>>

\* The heartbeat (TelemetryStream) terminates it.
Reap(s) ==
    /\ Up
    /\ hub
    /\ sock[s] = "dead"
    /\ sock' = [sock EXCEPT ![s] = "none"]
    /\ UNCHANGED <<proc, control, http>>

\* The peer breaks the protocol; nobody listens to the socket's 'error'.
SocketError(s) ==
    /\ Up
    /\ sock[s] = "open"
    /\ Goes(Backend, "crashed")
    /\ UNCHANGED <<control, http, sock>>

\* An idle client loses its connection; nobody listens to the pool's 'error'.
PoolError ==
    /\ Up
    /\ kind = "postgres" /\ store # "closed"
    /\ Cardinality(InQuery(work)) < PoolMax
    /\ Goes(Backend, "crashed")
    /\ UNCHANGED <<control, http, sock>>

----------------------------------------------------------------------------
(* Shutdown.                                                               *)

\* shutdown up to its await: indexer.stop, hub.close and storage.close.  A
\* second pool.end rejects, uncaught; a second db.close does nothing.
Signal ==
    /\ Up
    /\ signals < MaxSignals
    /\ signals' = signals + 1
    /\ timer' = FALSE
    /\ hub' = FALSE
    /\ \/ /\ kind = "sqlite"
          /\ store' = "closed" /\ server' = "closing"
          /\ UNCHANGED proc
       \/ /\ kind = "postgres" /\ store = "open"
          /\ store' = "ending"
          /\ UNCHANGED <<proc, server>>
       \/ /\ kind = "postgres" /\ store # "open"
          /\ Goes(Backend, "crashed")
          /\ UNCHANGED <<store, server>>
    /\ UNCHANGED <<kind, opening, http, sock>>

\* Mutants: pool.end is not awaited; the handlers under way are awaited too.
StorageClosedAtOnce ==
    /\ Up
    /\ store = "ending"
    /\ store' = "closed"
    /\ server' = "closing"
    /\ UNCHANGED <<kind, proc, opening, timer, hub, signals, http, sock>>
StorageClosedWhenIdle ==
    /\ Up
    /\ store = "ending"
    /\ \A j \in Job : ~Busy(j)
    /\ store' = "closed"
    /\ server' = "closing"
    /\ UNCHANGED <<kind, proc, opening, timer, hub, signals, http, sock>>

\* pool.end resolves, and server.close follows.
StorageClosed ==
    /\ Up
    /\ store = "ending"
    /\ InQuery(work) = {}
    /\ store' = "closed"
    /\ server' = "closing"
    /\ UNCHANGED <<kind, proc, opening, timer, hub, signals, http, sock>>

\* server.close calls back.
Exit ==
    /\ Up
    /\ server = "closing"
    /\ Drained
    /\ Goes(Backend, "exited")
    /\ UNCHANGED <<control, http, sock>>

\* PM2 loses patience with a process it has signalled.
Kill ==
    /\ Up
    /\ signals > 0
    /\ Goes(Backend, "killed")
    /\ UNCHANGED <<control, http, sock>>

\* PM2 starts the process, again; an old one's connections are gone.  What
\* Fresh says counts from the moment the store is open.
Restart ==
    /\ Start(Backend)
    /\ Fresh

----------------------------------------------------------------------------

Next ==
    \/ \E r \in Request : (\E n \in 1..2 : Bare(r, n)) \/ Malformed(r)
                         \/ Relay(r) \/ HangUp(r) \/ KeepAliveEnds(r)
    \/ \E p \in Poll : Tick(p)
    \/ \E j \in Job : FinishQuery(j) \/ NetworkAnswers(j)
    \/ \E s \in Socket : Upgrade(s) \/ Leave(s) \/ Reap(s) \/ SocketError(s)
    \/ PoolError
    \/ Signal
    \/ StorageClosed
    \/ Exit
    \/ Kill
    \/ Restart
    \/ /\ \E p \in Process : OpenStep(p) \/ CrashOpening(p)
       /\ UNCHANGED serving
    \/ /\ \E p \in Process \ {Backend} : Start(p) \/ ScriptEnds(p)
       /\ UNCHANGED serving

Spec == Init /\ [][Next]_vars

\* The database and the RPC answer or fail, Node runs what is ready, and PM2
\* restarts what has ended.  Nothing is assumed of clients, of PM2's patience,
\* of the operator or of the migration script.
FairSpec ==
    /\ Spec
    /\ \A j \in Job : WF_vars(FinishQuery(j)) /\ WF_vars(NetworkAnswers(j))
    /\ \A r \in Request : WF_vars(KeepAliveEnds(r))
    /\ WF_vars(StorageClosed)
    /\ WF_vars(Exit)
    /\ WF_vars(Restart)
    /\ WF_vars(OpenStep(Backend) /\ UNCHANGED serving)

----------------------------------------------------------------------------
(* Properties                                                              *)

\* The types of the process's parts; the pool lends no more clients than it
\* has, also when it is full and requests and polls queue for it.
TypeOK ==
    /\ kind \in {"sqlite", "postgres"}
    /\ older \in BOOLEAN
    /\ db \subseteq Complete
    /\ proc \in [Process -> {"schema", "look", "alter", "up"} \cup Down]
    /\ store \in {"open", "ending", "closed"}
    /\ timer \in BOOLEAN /\ hub \in BOOLEAN
    /\ server \in {"listening", "closing"}
    /\ signals \in 0..MaxSignals
    /\ work \in [Job -> Work]
    /\ conn \subseteq Request /\ kept \subseteq Request
    /\ sock \in [Socket -> {"none", "open", "dead"}]
    /\ Cardinality(InQuery(work)) <= PoolMax

\* Exit code 0 means that no client is left waiting, no WebSocket is open and
\* no statement was cut off, however many signals came and whatever was under
\* way.  The heartbeat having been stopped first, a socket whose peer vanished
\* is never reaped: such a process does not exit by itself.
ExitIsGraceful ==
    proc[Backend] = "exited" =>
        /\ conn = {}
        /\ \A s \in Socket : sock[s] = "none"
        /\ store = "closed" /\ InQuery(work) = {}

\* What ends the process by an error nobody handles: the second signal, which
\* ends the PostgreSQL pool again; an 'error' event of the pool or a socket;
\* and the handlers without a try, by a query that fails or by a malformed
\* POST.  Polls, relayed readings and late answers of the RPC never do,
\* whatever of theirs fails, in whichever state of the shutdown; and after
\* server.close a handler only does on a connection that was in use then.
CrashesExplained ==
    [][Up /\ proc'[Backend] = "crashed" =>
          \/ kind = "postgres" /\ signals' > signals
          \/ PoolError \/ \E s \in Socket : SocketError(s)
          \/ /\ server = "listening"
             /\ \E r \in Request :
                   \/ (\E n \in 1..2 : Bare(r, n)) \/ Malformed(r)
                   \/ /\ kind = "postgres" /\ work[r].what = "bare"
                      /\ FinishQuery(r)
          \/ /\ server = "closing"
             /\ \E r \in kept :
                   (\E n \in 1..2 : Bare(r, n)) \/ Malformed(r)]_vars

\* Once the clients are gone for good, a signalled process ends: the pool
\* always comes to its end, also with queries it has forgotten.
ShutdownEnds ==
    <>[](conn = {} /\ \A s \in Socket : sock[s] = "none") =>
        (signals > 0 ~> ~Up)

\* A store that is open has every table and column the queries use, wherever
\* earlier attempts died and whoever opens it at the same time, with one
\* exception: PostgreSQL has no migrateCompat, so an older database opens
\* without ledger_ts, and the insertions and GET /api/devices then fail.
OpenIsComplete ==
    \A p \in Process : proc[p] = "up" =>
        /\ Complete \ {"ledger_ts"} \subseteq db
        /\ "ledger_ts" \in db \/ (older /\ kind = "postgres")

\* Losing the race for the column, or for the schema, costs an attempt and not
\* the service: a backend that ended, however it ended, comes up again.
ServiceReturns == []<>Up

----------------------------------------------------------------------------
(* What makes the safety properties inductive.                             *)

\* What the handlers are about: a query has a handler that goes on after it,
\* only relays and polls wait for the network, only requests are left bare.
JobsInv(w) ==
    \A j \in Job :
        /\ w[j].at \in {"query", "queued"} =>
              w[j].what # "none" /\ w[j].left > 0
        /\ w[j].at = "network" =>
              w[j].what \in {"relay", "poll"} /\ w[j].left > 0
        /\ w[j].what = "bare" => j \in Request

\* The pool keeps its limit; the server is closed after the store and the
\* store after its queries; SQLite leaves no query under way and closes store
\* and server in one step.
ServeInv ==
    /\ JobsInv(work)
    /\ IsFiniteSet(InQuery(work))
    /\ server = "closing" => store = "closed"
    /\ store = "closed" \/ kind = "sqlite" => InQuery(work) = {}
    /\ kind = "sqlite" /\ store # "open" => server = "closing"

LifeInv == TypeOK /\ OpenInv /\ ServeInv /\ ExitIsGraceful

============================================================================
