-------------------------- MODULE LifecycleProofs --------------------------
(***************************************************************************)
(* Proofs about StoreOpen and Lifecycle, for any processes, requests,      *)
(* polls, sockets and size of the pool: the types and the pool's limit, an *)
(* open store is complete, exit code 0 is graceful, and which errors end   *)
(* the process.                                                            *)
(***************************************************************************)
EXTENDS Lifecycle, FiniteSetTheorems, TLAPS

----------------------------------------------------------------------------
(* Opening the store.                                                      *)

\* The five statements of the schema and what they make of the database.
LEMMA SchemaFacts ==
    /\ Len(Schema) = 5
    /\ DOMAIN Schema = 1..5
    /\ \A k \in 1..5 : Schema[k] \in Complete
    /\ Complete \ {"ledger_ts"} = {Schema[k] : k \in 1..5}
    /\ "ledger_ts" \in Complete
    /\ "meter_events" \in Complete \ {"ledger_ts"}
<1>1. Len(Schema) = 5 /\ DOMAIN Schema = 1..5
  BY DEF Schema
<1>2. \A k \in 1..5 : Schema[k] # "ledger_ts"
  BY DEF Schema
<1>3. Schema[2] = "meter_events"
  BY DEF Schema
<1> QED
  BY <1>1, <1>2, <1>3 DEF Complete

\* A step that leaves the database alone and moves no process into or within
\* the constructor keeps what the processes know.
LEMMA OpenIdle ==
    ASSUME OpenInv, UNCHANGED <<kind, older, db, stmt, seen>>,
           \A p \in Process :
              proc'[p] = proc[p]
              \/ proc'[p] \notin {"schema", "look", "alter", "up"}
    PROVE  OpenInv'
BY DEF OpenInv, Done

\* new CacheStore(...): no statement is done yet.
LEMMA OpenStart ==
    ASSUME OpenInv, proc \in [Process -> {"schema", "look", "alter", "up"} \cup Down],
           NEW p \in Process, Start(p)
    PROVE  OpenInv'
<1> USE DEF Start, Goes
<1>1. stmt' \in [Process -> 1..Len(Schema)] /\ seen' \in [Process -> SUBSET Complete]
  BY SchemaFacts DEF OpenInv
<1>2. Done(p)' = {}
  BY DEF OpenInv, Done
<1>3. \A q \in Process \ {p} : proc'[q] = proc[q] /\ Done(q)' = Done(q)
                               /\ seen'[q] = seen[q]
  BY DEF OpenInv, Done
<1>4. proc'[p] = "schema"
  OBVIOUS
<1> QED
  BY <1>1, <1>2, <1>3, <1>4 DEF OpenInv

\* db.exec(SCHEMA_SQLITE): one statement more is done.
LEMMA OpenExecStatement ==
    ASSUME OpenInv, proc \in [Process -> {"schema", "look", "alter", "up"} \cup Down],
           NEW p \in Process, ExecStatement(p)
    PROVE  OpenInv'
<1> USE DEF ExecStatement, Goes
<1>1. stmt[p] \in 1..5 /\ Schema[stmt[p]] \in Complete
  BY SchemaFacts DEF OpenInv
<1>2. /\ db \subseteq db' /\ db' \subseteq Complete /\ Schema[stmt[p]] \in db'
      /\ ~older /\ "meter_events" \in db' => "ledger_ts" \in db'
  BY <1>1, SchemaFacts DEF OpenInv, Created
<1>3. stmt' \in [Process -> 1..Len(Schema)]
  BY <1>1, SchemaFacts DEF OpenInv
<1>4. \A q \in Process \ {p} : proc'[q] = proc[q] /\ Done(q)' = Done(q)
                               /\ seen'[q] = seen[q]
  BY DEF OpenInv, Done
<1>5. Done(p) \subseteq db'
  BY <1>2 DEF OpenInv
<1>6. CASE stmt[p] < Len(Schema)
  <2>1. proc'[p] = "schema"
    BY <1>6
  <2>2. stmt'[p] = stmt[p] + 1
    BY <1>6 DEF OpenInv
  <2>3. Done(p)' = Done(p) \cup {Schema[stmt[p]]}
    BY <1>1, <2>2 DEF Done
  <2> QED
    BY <1>2, <1>3, <1>4, <1>5, <2>1, <2>3 DEF OpenInv
<1>7. CASE ~(stmt[p] < Len(Schema))
  <2>1. proc'[p] = "look" /\ stmt[p] = 5
    BY <1>1, <1>7, SchemaFacts
  <2>2. Complete \ {"ledger_ts"} \subseteq Done(p) \cup {Schema[5]}
    BY <2>1, SchemaFacts DEF Done
  <2> QED
    BY <1>2, <1>3, <1>4, <1>5, <2>1, <2>2 DEF OpenInv
<1> QED
  BY <1>6, <1>7

\* pool.query(SCHEMA_PG): everything is there but an older table's column, or
\* the process is gone.
LEMMA OpenExecSchema ==
    ASSUME OpenInv, proc \in [Process -> {"schema", "look", "alter", "up"} \cup Down],
           NEW p \in Process, ExecSchema(p)
    PROVE  OpenInv'
<1> USE DEF ExecSchema, Goes
<1>1. seen' \in [Process -> SUBSET Complete]
  BY DEF OpenInv
<1>2. \A q \in Process \ {p} : proc'[q] = proc[q] /\ seen'[q] = seen[q]
  BY DEF OpenInv
<1>3. \A q \in Process : Done(q)' = Done(q)
  BY DEF Done
<1>4. /\ db \subseteq db' /\ db' \subseteq Complete
      /\ ~older /\ "meter_events" \in db' => "ledger_ts" \in db'
  BY SchemaFacts DEF OpenInv, Created
<1>5. CASE db' = Created({Schema[i] : i \in DOMAIN Schema}) /\ Goes(p, "up")
  <2>1. proc'[p] = "up"
    BY <1>5
  <2>2. Complete \ {"ledger_ts"} \subseteq db'
    BY <1>5, SchemaFacts DEF Created
  <2> QED
    BY <1>1, <1>2, <1>3, <1>4, <2>1, <2>2, SchemaFacts DEF OpenInv
<1>6. CASE Goes(p, "crashed")
  <2>1. proc'[p] = "crashed"
    BY <1>6
  <2> QED
    BY <1>1, <1>2, <1>3, <1>4, <1>6, <2>1 DEF OpenInv
<1> QED
  BY <1>5, <1>6

\* PRAGMA table_info: what the process sees is there.
LEMMA OpenLook ==
    ASSUME OpenInv, proc \in [Process -> {"schema", "look", "alter", "up"} \cup Down],
           NEW p \in Process, Look(p)
    PROVE  OpenInv'
<1> USE DEF Look, Goes
<1>1. seen' \in [Process -> SUBSET Complete]
  BY DEF OpenInv
<1>2. \A q \in Process \ {p} : proc'[q] = proc[q] /\ seen'[q] = seen[q]
  BY DEF OpenInv
<1>3. \A q \in Process : Done(q)' = Done(q)
  BY DEF Done
<1>4. proc'[p] = "alter" /\ seen'[p] = db
  BY DEF OpenInv
<1> QED
  BY <1>1, <1>2, <1>3, <1>4 DEF OpenInv

\* ALTER TABLE: the column was seen, is added, or the process is gone.
LEMMA OpenAlter ==
    ASSUME OpenInv, proc \in [Process -> {"schema", "look", "alter", "up"} \cup Down],
           NEW p \in Process, Alter(p)
    PROVE  OpenInv'
<1> USE DEF Alter, Goes
<1>1. seen' \in [Process -> SUBSET Complete]
  BY DEF OpenInv
<1>2. \A q \in Process \ {p} : proc'[q] = proc[q] /\ seen'[q] = seen[q]
  BY DEF OpenInv
<1>3. \A q \in Process : Done(q)' = Done(q)
  BY DEF Done
<1>4. db \subseteq db' /\ db' \subseteq Complete
  BY SchemaFacts DEF OpenInv
<1>5. proc'[p] = "up" => "ledger_ts" \in db'
  BY DEF OpenInv, NeedsColumn
<1>6. proc'[p] \in {"up", "crashed"} /\ Complete \ {"ledger_ts"} \subseteq db'
  BY <1>4 DEF OpenInv
<1> QED
  BY <1>1, <1>2, <1>3, <1>4, <1>5, <1>6 DEF OpenInv

----------------------------------------------------------------------------
(* Queries and the pool.                                                   *)

\* The jobs are well-formed and the pool keeps its limit, for the jobs w.
JobsOK(w) == w \in [Job -> Work] /\ JobsInv(w)
PoolOK(w) == IsFiniteSet(InQuery(w)) /\ Cardinality(InQuery(w)) <= PoolMax
HttpOK == JobsOK(work) /\ PoolOK(work) /\ conn \subseteq Request /\ kept \subseteq Request

\* Fewer queries need no more clients.
LEMMA PoolShrinks ==
    ASSUME NEW w, PoolOK(w), NEW v, InQuery(v) \subseteq InQuery(w)
    PROVE  PoolOK(v)
<1>1. IsFiniteSet(InQuery(v)) /\ Cardinality(InQuery(v)) <= Cardinality(InQuery(w))
  BY FS_Subset DEF PoolOK
<1>2. Cardinality(InQuery(v)) \in Nat /\ Cardinality(InQuery(w)) \in Nat
  BY <1>1, FS_CardinalityType DEF PoolOK
<1> QED
  BY <1>1, <1>2, LifecycleAssumption DEF PoolOK

\* A job that has a client spare may take it.
LEMMA PoolGrows ==
    ASSUME NEW w, PoolOK(w), NEW j, HasClient(j, w), NEW v,
           InQuery(v) = InQuery(w) \cup {j}
    PROVE  PoolOK(v)
<1> DEFINE others == InQuery(w) \ {j}
<1>1. IsFiniteSet(others) /\ Cardinality(others) \in Nat
  BY FS_RemoveElement, FS_CardinalityType DEF PoolOK
<1>2. /\ IsFiniteSet(others \cup {j})
      /\ Cardinality(others \cup {j}) = Cardinality(others) + 1
  BY <1>1, FS_AddElement
<1>3. InQuery(v) = others \cup {j}
  OBVIOUS
<1>4. Cardinality(others) < PoolMax
  BY DEF HasClient
<1> QED
  BY <1>1, <1>2, <1>3, <1>4, LifecycleAssumption DEF PoolOK

\* What the assignment of x to the job j does.
LEMMA PutJob ==
    ASSUME NEW w, JobsOK(w), NEW j \in Job, NEW x \in Work,
           x.at \in {"query", "queued"} => x.what # "none" /\ x.left > 0,
           x.at = "network" => x.what \in {"relay", "poll"} /\ x.left > 0,
           x.what = "bare" => j \in Request,
           NEW v, v = [w EXCEPT ![j] = x]
    PROVE  /\ JobsOK(v)
           /\ InQuery(v) = IF x.at = "query" THEN InQuery(w) \cup {j}
                           ELSE InQuery(w) \ {j}
<1>1. v \in [Job -> Work] /\ v[j] = x /\ \A q \in Job \ {j} : v[q] = w[q]
  BY DEF JobsOK
<1>2. JobsInv(v)
  BY <1>1 DEF JobsOK, JobsInv
<1> QED
  BY <1>1, <1>2 DEF JobsOK, InQuery

\* A handler that is over leaves the pool as it was, or less used.
LEMMA OverKeeps ==
    ASSUME NEW w, JobsOK(w), PoolOK(w), NEW j \in Job,
           NEW c, c \subseteq Request, kept \subseteq Request, Over(j, w, c)
    PROVE  HttpOK' /\ InQuery(work') = InQuery(w) \ {j}
<1>1. Nothing \in Work /\ Nothing.at = "idle" /\ Nothing.what = "none"
  BY DEF Nothing, Work
<1>2. work' = [w EXCEPT ![j] = Nothing]
  BY DEF Over
<1>3. JobsOK(work') /\ InQuery(work') = InQuery(w) \ {j}
  BY <1>1, <1>2, PutJob
<1>4. PoolOK(work')
  BY <1>3, PoolShrinks
<1>5. conn' \subseteq Request /\ kept' \subseteq Request
  BY DEF Over
<1> QED
  BY <1>3, <1>4, <1>5 DEF HttpOK, JobsOK, PoolOK, JobsInv, InQuery

\* A handler that goes on, with a client of the pool only if there is one.
LEMMA GoesOnKeeps ==
    ASSUME NEW w, JobsOK(w), PoolOK(w), NEW j \in Job, NEW x \in Work,
           x.at \in {"query", "queued"} => x.what # "none" /\ x.left > 0,
           x.at = "network" => x.what \in {"relay", "poll"} /\ x.left > 0,
           x.what = "bare" => j \in Request,
           x.at = "query" => HasClient(j, w),
           NEW c, c \subseteq Request, kept \subseteq Request,
           GoesOn(j, x, w, c)
    PROVE  /\ HttpOK'
           /\ x.at # "query" => InQuery(work') = InQuery(w) \ {j}
<1>1. work' = [w EXCEPT ![j] = x]
  BY DEF GoesOn
<1>2. /\ JobsOK(work')
      /\ InQuery(work') = IF x.at = "query" THEN InQuery(w) \cup {j}
                          ELSE InQuery(w) \ {j}
  BY <1>1, PutJob
<1>3. PoolOK(work')
  BY <1>2, PoolShrinks, PoolGrows
<1>4. conn' \subseteq Request /\ kept' \subseteq Request
  BY DEF GoesOn
<1> QED
  BY <1>2, <1>3, <1>4 DEF HttpOK, JobsOK, PoolOK, JobsInv, InQuery

\* pool.query or the driver's prepare: it leaves no query under way where the
\* store is closed or synchronous, and only a bare handler crashes the process.
LEMMA QueryKeeps ==
    ASSUME NEW w, JobsOK(w), PoolOK(w), NEW j \in Job, NEW x \in Work,
           x.what # "none", x.left > 0, x.what = "bare" => j \in Request,
           NEW c, c \subseteq Request, kept \subseteq Request,
           Query(j, x, w, c)
    PROVE  /\ HttpOK'
           /\ store # "open" \/ kind = "sqlite" =>
                 InQuery(work') = InQuery(w) \ {j}
           /\ \/ UNCHANGED proc
              \/ x.what = "bare" /\ Goes(Backend, "crashed")
<1>1. CASE (store # "open" \/ kind = "sqlite") /\ Rejects(j, x, w, c)
  BY <1>1, OverKeeps DEF Rejects, Uncaught
<1>2. CASE /\ store = "open" /\ kind = "postgres"
           /\ GoesOn(j, [x EXCEPT !.at = IF HasClient(j, w) THEN "query"
                                         ELSE "queued"], w, c)
  <2> DEFINE y == [x EXCEPT !.at = IF HasClient(j, w) THEN "query"
                                   ELSE "queued"]
  <2>1. /\ y \in Work /\ y.at \in {"query", "queued"}
        /\ y.what = x.what /\ y.left = x.left
        /\ y.at = "query" => HasClient(j, w)
    BY DEF Work
  <2> HIDE DEF y
  <2>2. GoesOn(j, y, w, c)
    BY <1>2 DEF y
  <2>3. HttpOK'
    BY <2>1, <2>2, GoesOnKeeps
  <2> QED
    BY <1>2, <2>2, <2>3 DEF GoesOn
<1>3. CASE /\ store = "open" /\ kind = "sqlite"
           /\ x.what = "poll" /\ x.left > 1
           /\ GoesOn(j, [x EXCEPT !.at = "network", !.left = @ - 1], w, c)
  <2> DEFINE y == [x EXCEPT !.at = "network", !.left = @ - 1]
  <2>0. x.left \in 1..2 /\ x.left - 1 \in 0..2 /\ x.left - 1 > 0
    BY <1>3 DEF Work
  <2>1. y \in Work /\ y.at = "network" /\ y.what = "poll" /\ y.left > 0
    <3> DEFINE n == x.left - 1
               z == [x EXCEPT !.at = "network"]
    <3>1. z \in Work /\ z.at = "network" /\ z.what = "poll" /\ z.left = x.left
      BY <1>3 DEF Work
    <3>2. y = [z EXCEPT !.left = n]
      OBVIOUS
    <3> HIDE DEF n, z, y
    <3>3. [z EXCEPT !.left = n] \in Work
      BY <2>0, <3>1 DEF Work, n
    <3>4. /\ [z EXCEPT !.left = n].at = "network"
          /\ [z EXCEPT !.left = n].what = "poll"
          /\ [z EXCEPT !.left = n].left = n
      BY <3>1 DEF Work
    <3> QED
      BY <2>0, <3>2, <3>3, <3>4 DEF n
  <2> HIDE DEF y
  <2>2. GoesOn(j, y, w, c)
    BY <1>3 DEF y
  <2>3. HttpOK' /\ InQuery(work') = InQuery(w) \ {j}
    BY <2>1, <2>2, GoesOnKeeps
  <2> QED
    BY <2>2, <2>3 DEF GoesOn
<1>4. CASE store = "open" /\ kind = "sqlite" /\ Over(j, w, c) /\ UNCHANGED proc
  BY <1>4, OverKeeps
<1> QED
  BY <1>1, <1>2, <1>3, <1>4 DEF Query

\* The client that comes back goes to at most one query that waits.
LEMMA ReturnedKeeps ==
    ASSUME HttpOK, NEW j \in Job, work[j].at = "query", NEW w \in Returned(j)
    PROVE  JobsOK(w) /\ PoolOK(w)
<1> DEFINE waiting == {q \in Job : work[q].at = "queued"}
           back    == [work EXCEPT ![j].at = "idle"]
<1>0. JobsOK(work) /\ PoolOK(work)
  BY DEF HttpOK
<1>1. /\ back \in [Job -> Work]
      /\ back[j].at = "idle" /\ back[j].what = work[j].what
      /\ \A q \in Job \ {j} : back[q] = work[q]
  BY <1>0 DEF JobsOK, Work
<1> HIDE DEF back
<1>2. JobsOK(back) /\ InQuery(back) = InQuery(work) \ {j}
  BY <1>0, <1>1 DEF JobsOK, JobsInv, InQuery
<1>3. PoolOK(back)
  BY <1>0, <1>2, PoolShrinks
<1>4. ASSUME NEW q \in waiting, w = [back EXCEPT ![q].at = "query"]
      PROVE  JobsOK(w) /\ PoolOK(w)
  <2>1. q \in Job /\ q # j /\ back[q] = work[q]
    BY <1>1
  <2>2. /\ w \in [Job -> Work]
        /\ w[q].at = "query" /\ w[q].what = back[q].what /\ w[q].left = back[q].left
        /\ \A p \in Job \ {q} : w[p] = back[p]
    BY <1>1, <1>4, <2>1 DEF Work
  <2>3. back[q].at = "queued"
    BY <2>1
  <2>4. JobsOK(w) /\ InQuery(w) = InQuery(back) \cup {q}
    BY <1>2, <2>1, <2>2, <2>3 DEF JobsOK, JobsInv, InQuery
  <2>5. HasClient(q, back)
    <3>1. j \in InQuery(work) /\ InQuery(back) \ {q} \subseteq InQuery(work) \ {j}
      BY <1>2 DEF InQuery
    <3>2. /\ IsFiniteSet(InQuery(work) \ {j})
          /\ Cardinality(InQuery(work) \ {j}) = Cardinality(InQuery(work)) - 1
          /\ Cardinality(InQuery(work)) \in Nat
      BY <1>0, <3>1, FS_RemoveElement, FS_CardinalityType DEF PoolOK
    <3>3. Cardinality(InQuery(back) \ {q}) <= Cardinality(InQuery(work) \ {j})
          /\ Cardinality(InQuery(back) \ {q}) \in Nat
      BY <3>1, <3>2, FS_Subset, FS_CardinalityType
    <3> QED
      BY <1>0, <3>2, <3>3, LifecycleAssumption DEF HasClient, PoolOK
  <2> QED
    BY <1>3, <2>4, <2>5, PoolGrows
<1> QED
  BY <1>2, <1>3, <1>4 DEF Returned, back

----------------------------------------------------------------------------
(* The invariant.                                                          *)

\* What every step of a handler does, whatever it was and wherever the
\* shutdown is by then.
HandlerStep ==
    /\ Up
    /\ HttpOK'
    /\ store = "closed" \/ kind = "sqlite" => InQuery(work)' = {}
    /\ UNCHANGED proc \/ Goes(Backend, "crashed")
    /\ UNCHANGED <<control, sock>>

LEMMA HttpTypes ==
    ASSUME LifeInv
    PROVE  HttpOK
BY DEF LifeInv, TypeOK, ServeInv, HttpOK, JobsOK, PoolOK

\* GET, and POST without a relayer.
LEMMA BareStep ==
    ASSUME LifeInv, NEW r \in Request, NEW n \in 1..2, Bare(r, n)
    PROVE  HandlerStep
<1> DEFINE x == [what |-> "bare", at |-> "query", left |-> n]
<1>1. x \in Work /\ x.what = "bare" /\ x.left > 0 /\ r \in Job
  BY DEF Work, Job
<1>2. HttpOK
  BY HttpTypes
<1> HIDE DEF x
<1>3. Query(r, x, work, conn \cup {r})
  BY DEF Bare, x
<1>4. /\ HttpOK'
      /\ store # "open" \/ kind = "sqlite" => InQuery(work') = InQuery(work) \ {r}
      /\ UNCHANGED proc \/ Goes(Backend, "crashed")
  BY <1>1, <1>2, <1>3, QueryKeeps DEF HttpOK
<1> QED
  BY <1>4 DEF HandlerStep, Bare, CanArrive, LifeInv, ServeInv, InQuery

\* POST with a relayer.
LEMMA RelayStep ==
    ASSUME LifeInv, NEW r \in Request, Relay(r)
    PROVE  HandlerStep
<1> DEFINE x == [what |-> "relay", at |-> "network", left |-> 1]
<1>1. x \in Work /\ x.what = "relay" /\ x.left > 0 /\ x.at = "network" /\ r \in Job
  BY DEF Work, Job
<1>2. HttpOK
  BY HttpTypes
<1> HIDE DEF x
<1>3. GoesOn(r, x, work, conn \cup {r})
  BY DEF Relay, x
<1>4. HttpOK' /\ InQuery(work') = InQuery(work) \ {r}
  BY <1>1, <1>2, <1>3, GoesOnKeeps DEF HttpOK
<1> QED
  BY <1>3, <1>4 DEF HandlerStep, Relay, CanArrive, GoesOn, LifeInv, ServeInv, InQuery

\* The poller's interval.
LEMMA TickStep ==
    ASSUME LifeInv, NEW p \in Poll, Tick(p)
    PROVE  HandlerStep /\ UNCHANGED proc
<1> DEFINE x == [what |-> "poll", at |-> "query", left |-> 2]
<1>1. x \in Work /\ x.what = "poll" /\ x.left > 0 /\ p \in Job
  BY DEF Work, Job
<1>2. HttpOK
  BY HttpTypes
<1> HIDE DEF x
<1>3. Query(p, x, work, conn)
  BY DEF Tick, x
<1>4. /\ HttpOK'
      /\ store # "open" \/ kind = "sqlite" => InQuery(work') = InQuery(work) \ {p}
      /\ UNCHANGED proc
  BY <1>1, <1>2, <1>3, QueryKeeps DEF HttpOK
<1> QED
  BY <1>4 DEF HandlerStep, Tick, LifeInv, ServeInv, InQuery

\* The answer of the RPC, late as it may be, crashes nothing.
LEMMA NetworkStep ==
    ASSUME LifeInv, NEW j \in Job, NetworkAnswers(j)
    PROVE  HandlerStep /\ UNCHANGED proc
<1>1. HttpOK
  BY HttpTypes
<1>2. /\ work[j] \in Work /\ work[j].what \in {"relay", "poll"}
      /\ work[j].left > 0
  BY <1>1 DEF NetworkAnswers, HttpOK, JobsOK, JobsInv
<1>3. /\ HttpOK'
      /\ store # "open" \/ kind = "sqlite" => InQuery(work') = InQuery(work) \ {j}
      /\ UNCHANGED proc
  <2>1. CASE Query(j, work[j], work, conn)
    BY <1>1, <1>2, <2>1, QueryKeeps DEF HttpOK
  <2>2. CASE Over(j, work, conn) /\ UNCHANGED proc
    BY <1>1, <2>2, OverKeeps DEF HttpOK
  <2> QED
    BY <2>1, <2>2 DEF NetworkAnswers
<1> QED
  BY <1>3 DEF HandlerStep, NetworkAnswers, LifeInv, ServeInv, InQuery

\* A query that finishes: the handler is over, waits for the network or makes
\* the next query.
LEMMA FinishQueryStep ==
    ASSUME LifeInv, NEW j \in Job, FinishQuery(j)
    PROVE  /\ HandlerStep
           /\ ~UNCHANGED proc => work[j].what = "bare"
<1> DEFINE x == [work[j] EXCEPT !.left = @ - 1]
<1>1. HttpOK
  BY HttpTypes
<1>2. /\ work[j] \in Work /\ work[j].at = "query" /\ work[j].what # "none"
      /\ work[j].left \in 1..2
  BY <1>1 DEF FinishQuery, HttpOK, JobsOK, JobsInv, Work
<1>3. x \in Work /\ x.what = work[j].what /\ x.left = work[j].left - 1 /\ x.at = "query"
  BY <1>2 DEF Work
<1>4. x.what = "bare" => j \in Request
  BY <1>1, <1>3 DEF HttpOK, JobsOK, JobsInv
<1> HIDE DEF x
<1>5. PICK w \in Returned(j) :
          \/ x.left = 0 /\ Over(j, w, conn) /\ UNCHANGED proc
          \/ /\ x.left > 0 /\ x.what = "poll"
             /\ GoesOn(j, [x EXCEPT !.at = "network"], w, conn)
          \/ x.left > 0 /\ x.what # "poll" /\ Query(j, x, w, conn)
          \/ Rejects(j, x, w, conn)
  BY DEF FinishQuery, x
<1>6. JobsOK(w) /\ PoolOK(w)
  BY <1>1, <1>2, ReturnedKeeps
<1>7. conn \subseteq Request /\ kept \subseteq Request
  BY <1>1 DEF HttpOK
<1>8. store # "closed" /\ kind # "sqlite"
  BY <1>2 DEF LifeInv, ServeInv, InQuery
<1>9. /\ HttpOK'
      /\ \/ UNCHANGED proc
         \/ x.what = "bare" /\ Goes(Backend, "crashed")
  <2>1. CASE x.left = 0 /\ Over(j, w, conn) /\ UNCHANGED proc
    BY <1>6, <1>7, <2>1, OverKeeps
  <2>2. CASE /\ x.left > 0 /\ x.what = "poll"
             /\ GoesOn(j, [x EXCEPT !.at = "network"], w, conn)
    <3> DEFINE y == [x EXCEPT !.at = "network"]
    <3>1. y \in Work /\ y.at = "network" /\ y.what = "poll" /\ y.left = x.left
      BY <1>3, <2>2 DEF Work
    <3> HIDE DEF y
    <3>2. GoesOn(j, y, w, conn)
      BY <2>2 DEF y
    <3>3. y.left > 0
      BY <2>2, <3>1
    <3> QED
      BY <1>6, <1>7, <3>1, <3>2, <3>3, GoesOnKeeps DEF GoesOn
  <2>3. CASE x.left > 0 /\ x.what # "poll" /\ Query(j, x, w, conn)
    BY <1>2, <1>3, <1>4, <1>6, <1>7, <2>3, QueryKeeps
  <2>4. CASE Rejects(j, x, w, conn)
    BY <1>6, <1>7, <2>4, OverKeeps DEF Rejects, Uncaught
  <2> QED
    BY <1>5, <2>1, <2>2, <2>3, <2>4
<1> QED
  BY <1>3, <1>8, <1>9 DEF HandlerStep, FinishQuery

LEMMA HandlerKeeps ==
    ASSUME LifeInv, HandlerStep
    PROVE  LifeInv'
<1> USE LifecycleAssumption
<1>1. proc[Backend] = "up" /\ proc' \in [Process -> {"schema", "look", "alter", "up"} \cup Down]
  BY DEF LifeInv, TypeOK, HandlerStep, Up, Goes, Down
<1>2. proc'[Backend] \in {"up", "crashed"}
      /\ \A p \in Process : proc'[p] = proc[p] \/ proc'[p] = "crashed"
  BY <1>1 DEF LifeInv, TypeOK, HandlerStep, Goes
<1>3. OpenInv'
  BY <1>2, OpenIdle DEF LifeInv, HandlerStep, control, opening
<1>4. TypeOK'
  BY <1>1 DEF LifeInv, TypeOK, HandlerStep, HttpOK, JobsOK, PoolOK, control, opening
<1>5. ServeInv'
  BY DEF LifeInv, ServeInv, HandlerStep, HttpOK, JobsOK, PoolOK, control
<1>6. ExitIsGraceful'
  BY <1>2 DEF ExitIsGraceful
<1> QED
  BY <1>3, <1>4, <1>5, <1>6 DEF LifeInv

\* A step that leaves handlers, store and server alone.  Without the process
\* being up it can only take connections away.
LEMMA QuietKeeps ==
    ASSUME LifeInv,
           proc' \in [Process -> {"schema", "look", "alter", "up"} \cup Down],
           proc'[Backend] = "exited" => proc[Backend] = "exited",
           OpenInv', TypeOK',
           UNCHANGED <<kind, store, server, work>>,
           Up \/ /\ conn' \subseteq conn
                 /\ \A s \in Socket : sock[s] = "none" => sock'[s] = "none"
    PROVE  LifeInv'
<1>1. ServeInv'
  BY DEF LifeInv, ServeInv, JobsInv, InQuery
<1>2. ExitIsGraceful'
  BY DEF LifeInv, ExitIsGraceful, Up, InQuery
<1> QED
  BY <1>1, <1>2 DEF LifeInv

\* Connections come and go.
LEMMA ConnectionsKeep ==
    ASSUME LifeInv,
           \/ \E r \in Request : HangUp(r) \/ KeepAliveEnds(r)
           \/ \E s \in Socket : Upgrade(s) \/ Leave(s) \/ Reap(s)
    PROVE  LifeInv'
<1> USE DEF HangUp, KeepAliveEnds, Upgrade, Leave, Reap
<1>1. UNCHANGED <<proc, control, work>>
  BY DEF control, http
<1>2. OpenInv'
  BY <1>1, OpenIdle DEF LifeInv, control, opening
<1>3. /\ conn' \subseteq Request /\ kept' \subseteq Request
      /\ sock' \in [Socket -> {"none", "open", "dead"}]
  BY DEF LifeInv, TypeOK, http
<1>4. TypeOK'
  BY <1>1, <1>3 DEF LifeInv, TypeOK, control, opening, InQuery
<1>5. Up \/ /\ conn' \subseteq conn
            /\ \A s \in Socket : sock[s] = "none" => sock'[s] = "none"
  BY DEF LifeInv, TypeOK, http
<1>6. proc' \in [Process -> {"schema", "look", "alter", "up"} \cup Down]
      /\ UNCHANGED <<kind, store, server, work>>
      /\ (proc'[Backend] = "exited" => proc[Backend] = "exited")
  BY <1>1 DEF LifeInv, TypeOK, control
<1> QED
  BY <1>2, <1>4, <1>5, <1>6, QuietKeeps

\* shutdown up to its await.
LEMMA SignalKeeps ==
    ASSUME LifeInv, Signal
    PROVE  LifeInv'
<1> USE LifecycleAssumption DEF Signal
<1>1. /\ proc' \in [Process -> {"schema", "look", "alter", "up"} \cup Down]
      /\ proc'[Backend] \in {"up", "crashed"}
      /\ \A p \in Process : proc'[p] = proc[p] \/ proc'[p] = "crashed"
  BY DEF LifeInv, TypeOK, Goes, Up, Down
<1>2. OpenInv'
  BY <1>1, OpenIdle DEF LifeInv, opening
<1>3. signals' \in 0..MaxSignals
  BY DEF LifeInv, TypeOK
<1>4. UNCHANGED <<kind, older, db, work, conn, kept, sock>>
  BY DEF opening, http
<1>5. /\ store' \in {"open", "ending", "closed"}
      /\ server' \in {"listening", "closing"}
  BY DEF LifeInv, TypeOK
<1>6. TypeOK'
  BY <1>1, <1>3, <1>4, <1>5 DEF LifeInv, TypeOK, InQuery
<1>7. ServeInv'
  BY <1>4 DEF LifeInv, TypeOK, ServeInv, JobsInv, InQuery
<1>8. ExitIsGraceful'
  BY <1>1 DEF ExitIsGraceful
<1> QED
  BY <1>2, <1>6, <1>7, <1>8 DEF LifeInv

\* pool.end resolves when no query has a client.
LEMMA StorageClosedKeeps ==
    ASSUME LifeInv, StorageClosed
    PROVE  LifeInv'
<1> USE DEF StorageClosed
<1>1. OpenInv'
  BY OpenIdle DEF LifeInv, opening
<1>2. UNCHANGED <<kind, older, db, work, conn, kept, sock>>
  BY DEF opening, http
<1>3. TypeOK'
  BY <1>2 DEF LifeInv, TypeOK, InQuery
<1>4. ServeInv'
  BY <1>2 DEF LifeInv, ServeInv, JobsInv, InQuery
<1>5. ExitIsGraceful'
  BY DEF ExitIsGraceful, Up
<1> QED
  BY <1>1, <1>3, <1>4, <1>5 DEF LifeInv

\* An error event nobody listens to, or a malformed POST.
Fails ==
    \/ PoolError
    \/ \E s \in Socket : SocketError(s)
    \/ \E r \in Request : Malformed(r)

\* The process ends: by itself, when nothing is left of its connections,
\* killed, or of an error.
LEMMA EndKeeps ==
    ASSUME LifeInv, Exit \/ Kill \/ Fails
    PROVE  LifeInv'
<1> USE LifecycleAssumption DEF Exit, Kill, Fails, PoolError, SocketError, Malformed
<1>1. /\ proc' \in [Process -> {"schema", "look", "alter", "up"} \cup Down]
      /\ \A p \in Process :
            proc'[p] = proc[p] \/ proc'[p] \in {"exited", "killed", "crashed"}
  BY DEF LifeInv, TypeOK, Goes, Down
<1>2. OpenInv'
  BY <1>1, OpenIdle DEF LifeInv, control, opening
<1>3. UNCHANGED <<kind, older, db, store, timer, hub, server, signals, work, conn, kept, sock>>
  BY DEF control, opening, http
<1>4. TypeOK'
  BY <1>1, <1>3 DEF LifeInv, TypeOK, InQuery
<1>5. ServeInv'
  BY <1>3 DEF LifeInv, ServeInv, JobsInv, InQuery
<1>6. CASE Exit
  <2>1. ExitIsGraceful'
    BY <1>3, <1>6 DEF LifeInv, ServeInv, ExitIsGraceful, Drained, InQuery
  <2> QED
    BY <1>2, <1>4, <1>5, <2>1 DEF LifeInv
<1>7. CASE Kill \/ Fails
  <2>1. proc'[Backend] \in {"killed", "crashed"}
    BY <1>7 DEF LifeInv, TypeOK, Goes
  <2> QED
    BY <1>2, <1>4, <1>5, <2>1 DEF LifeInv, ExitIsGraceful
<1> QED
  BY <1>6, <1>7

\* No job, no query.
LEMMA FreshIsIdle ==
    ASSUME NEW w, w = [j \in Job |-> Nothing]
    PROVE  JobsOK(w) /\ PoolOK(w) /\ InQuery(w) = {}
<1>1. Nothing \in Work /\ Nothing.at = "idle" /\ Nothing.what = "none"
  BY DEF Nothing, Work
<1>2. JobsOK(w) /\ InQuery(w) = {}
  BY <1>1 DEF JobsOK, JobsInv, InQuery
<1> QED
  BY <1>2, FS_EmptySet, LifecycleAssumption DEF PoolOK

\* PM2 starts the process again.
LEMMA RestartKeeps ==
    ASSUME LifeInv, Restart
    PROVE  LifeInv'
<1> USE LifecycleAssumption DEF Restart, Fresh
<1>1. OpenInv'
  BY OpenStart DEF LifeInv, TypeOK
<1>2. JobsOK(work') /\ PoolOK(work') /\ InQuery(work') = {}
  BY FreshIsIdle
<1>3. /\ proc' \in [Process -> {"schema", "look", "alter", "up"} \cup Down]
      /\ proc'[Backend] = "schema" /\ UNCHANGED <<kind, older, db>>
  BY DEF LifeInv, TypeOK, Start, Goes, Down
<1>4. TypeOK'
  BY <1>2, <1>3 DEF LifeInv, TypeOK, JobsOK, PoolOK, InQuery
<1>5. ServeInv'
  BY <1>2 DEF ServeInv, JobsOK, PoolOK, JobsInv, InQuery
<1>6. ExitIsGraceful'
  BY <1>3 DEF ExitIsGraceful
<1> QED
  BY <1>1, <1>4, <1>5, <1>6 DEF LifeInv

\* Processes open the store, die of it, or end as scripts do.
LEMMA OpeningKeeps ==
    ASSUME LifeInv, UNCHANGED serving,
           \/ \E p \in Process : OpenStep(p) \/ CrashOpening(p)
           \/ \E p \in Process \ {Backend} : Start(p) \/ ScriptEnds(p)
    PROVE  LifeInv'
<1> USE LifecycleAssumption
<1> DEFINE Places == {"schema", "look", "alter", "up"} \cup Down
<1>0. proc \in [Process -> Places] /\ OpenInv
  BY DEF LifeInv, TypeOK
<1>1. OpenInv'
  <2>1. ASSUME NEW p \in Process, OpenStep(p)
        PROVE  OpenInv'
    BY <1>0, <2>1, OpenExecStatement, OpenExecSchema, OpenLook, OpenAlter
    DEF OpenStep
  <2>2. ASSUME NEW p \in Process, CrashOpening(p) \/ ScriptEnds(p)
        PROVE  OpenInv'
    <3>1. \A q \in Process : proc'[q] = proc[q] \/ proc'[q] \in {"killed", "exited"}
      BY <1>0, <2>2 DEF CrashOpening, ScriptEnds, Goes
    <3> QED
      BY <1>0, <2>2, <3>1, OpenIdle DEF CrashOpening, ScriptEnds, opening
  <2>3. ASSUME NEW p \in Process, Start(p)
        PROVE  OpenInv'
    BY <1>0, <2>3, OpenStart
  <2> QED
    BY <2>1, <2>2, <2>3
<1>2. /\ proc' \in [Process -> Places] /\ UNCHANGED <<kind, older>>
      /\ proc'[Backend] = "exited" => proc[Backend] = "exited"
  <2>1. ASSUME NEW p \in Process, OpenStep(p) \/ CrashOpening(p)
        PROVE  /\ proc' \in [Process -> Places] /\ UNCHANGED <<kind, older>>
               /\ proc'[Backend] = "exited" => proc[Backend] = "exited"
    BY <1>0, <2>1 DEF OpenStep, ExecStatement, ExecSchema, Look, Alter, Goes,
       CrashOpening, Down
  <2>2. ASSUME NEW p \in Process \ {Backend}, Start(p) \/ ScriptEnds(p)
        PROVE  /\ proc' \in [Process -> Places] /\ UNCHANGED <<kind, older>>
               /\ proc'[Backend] = "exited" => proc[Backend] = "exited"
    BY <1>0, <2>2 DEF Start, ScriptEnds, Goes, Down, opening
  <2> QED
    BY <2>1, <2>2
<1>3. TypeOK'
  BY <1>1, <1>2 DEF LifeInv, TypeOK, OpenInv, serving, http, InQuery
<1> QED
  BY <1>1, <1>2, <1>3, QuietKeeps DEF serving, http

LEMMA LifeInduction == Spec => []LifeInv
<1>1. Init => LifeInv
  <2> SUFFICES ASSUME Init PROVE LifeInv
    OBVIOUS
  <2>1. JobsOK(work) /\ PoolOK(work) /\ InQuery(work) = {}
    BY FreshIsIdle DEF Init
  <2>2. TypeOK
    BY <2>1, LifecycleAssumption, SchemaFacts DEF Init, OpenInit, TypeOK, JobsOK, PoolOK, Down, Older
  <2>3. OpenInv
    BY <2>2, SchemaFacts DEF Init, OpenInit, OpenInv, TypeOK, Done
  <2>4. ServeInv /\ ExitIsGraceful
    BY <2>1, LifecycleAssumption
    DEF Init, OpenInit, ServeInv, ExitIsGraceful, JobsOK, PoolOK
  <2> QED
    BY <2>2, <2>3, <2>4 DEF LifeInv
<1>2. LifeInv /\ [Next]_vars => LifeInv'
  <2> SUFFICES ASSUME LifeInv, [Next]_vars PROVE LifeInv'
    OBVIOUS
  <2>1. CASE UNCHANGED vars
    <3>1. UNCHANGED <<kind, older, db, stmt, seen, store, timer, hub, server, signals,
                      work, conn, kept, sock, proc>>
      BY <2>1 DEF vars, control, opening, http
    <3>2. OpenInv'
      BY <3>1, OpenIdle DEF LifeInv
    <3>3. TypeOK'
      BY <3>1 DEF LifeInv, TypeOK, InQuery
    <3> QED
      BY <3>1, <3>2, <3>3, QuietKeeps DEF LifeInv, TypeOK
  <2>2. CASE \E r \in Request : (\E n \in 1..2 : Bare(r, n)) \/ Relay(r)
    BY <2>2, BareStep, RelayStep, HandlerKeeps
  <2>3. CASE \/ \E p \in Poll : Tick(p)
             \/ \E j \in Job : FinishQuery(j) \/ NetworkAnswers(j)
    BY <2>3, TickStep, FinishQueryStep, NetworkStep, HandlerKeeps
  <2>4. CASE \/ \E r \in Request : HangUp(r) \/ KeepAliveEnds(r)
             \/ \E s \in Socket : Upgrade(s) \/ Leave(s) \/ Reap(s)
    BY <2>4, ConnectionsKeep
  <2>5. CASE Signal \/ StorageClosed \/ Exit \/ Kill \/ Fails \/ Restart
    BY <2>5, SignalKeeps, StorageClosedKeeps, EndKeeps, RestartKeeps
  <2>6. CASE /\ \/ \E p \in Process : OpenStep(p) \/ CrashOpening(p)
                \/ \E p \in Process \ {Backend} : Start(p) \/ ScriptEnds(p)
             /\ UNCHANGED serving
    BY <2>6, OpeningKeeps
  <2> QED
    BY <2>1, <2>2, <2>3, <2>4, <2>5, <2>6 DEF Next, Fails
<1> QED
  BY <1>1, <1>2, PTL DEF Spec

----------------------------------------------------------------------------
(* The theorems.                                                           *)

\* The parts of the process keep their types, and the pool never lends more
\* clients than it has, whatever finishes, queues or is refused.
THEOREM PoolWithinLimit == Spec => []TypeOK
BY LifeInduction, PTL DEF LifeInv

\* A store that is open has every table and column, for any number of
\* processes that open it at once and wherever any of them died before; only
\* in a PostgreSQL database from before the column is the column missing.
THEOREM OpenStoreComplete == Spec => []OpenIsComplete
<1>1. LifeInv => OpenIsComplete
  BY DEF LifeInv, OpenInv, OpenIsComplete
<1> QED
  BY <1>1, LifeInduction, PTL

\* exit(0) leaves no client waiting, no socket open and no statement cut off.
THEOREM ExitGraceful == Spec => []ExitIsGraceful
BY LifeInduction, PTL DEF LifeInv

\* Only the errors CrashesExplained names end the process; polls, relayed
\* readings and late answers of the RPC never do.
THEOREM CrashesAreExplained == Spec => CrashesExplained
<1> DEFINE Explained ==
        Up /\ proc'[Backend] = "crashed" =>
          \/ kind = "postgres" /\ signals' > signals
          \/ PoolError \/ \E s \in Socket : SocketError(s)
          \/ /\ server = "listening"
             /\ \E r \in Request :
                   \/ (\E n \in 1..2 : Bare(r, n)) \/ Malformed(r)
                   \/ /\ kind = "postgres" /\ work[r].what = "bare"
                      /\ FinishQuery(r)
          \/ /\ server = "closing"
             /\ \E r \in kept :
                   (\E n \in 1..2 : Bare(r, n)) \/ Malformed(r)
<1>1. LifeInv /\ [Next]_vars => [Explained]_vars
  <2> SUFFICES ASSUME LifeInv, Next, Up, proc'[Backend] = "crashed"
               PROVE  Explained
    OBVIOUS
  <2>0. proc[Backend] = "up" /\ ~UNCHANGED proc
    BY DEF Up
  <2>1. ASSUME NEW r \in Request, (\E n \in 1..2 : Bare(r, n)) \/ Malformed(r)
        PROVE  Explained
    <3>1. server = "listening" \/ (server = "closing" /\ r \in kept)
      BY <2>1 DEF Bare, Malformed, CanArrive, LifeInv, TypeOK
    <3> QED
      BY <2>1, <3>1
  <2>2. ASSUME NEW j \in Job, FinishQuery(j)
        PROVE  Explained
    <3>1. work[j].what = "bare" /\ work[j].at = "query"
      BY <2>0, <2>2, FinishQueryStep DEF FinishQuery
    <3>2. j \in Request /\ store # "closed" /\ kind # "sqlite"
      BY <3>1 DEF LifeInv, ServeInv, JobsInv, InQuery
    <3>3. kind = "postgres" /\ server = "listening"
      BY <3>2 DEF LifeInv, TypeOK, ServeInv
    <3> QED
      BY <2>2, <3>1, <3>2, <3>3
  <2>3. CASE Signal
    <3>1. kind = "postgres"
      BY <2>0, <2>3 DEF Signal, LifeInv, TypeOK
    <3>2. signals' > signals
      BY <2>3 DEF Signal, LifeInv, TypeOK
    <3> QED
      BY <3>1, <3>2
  <2>4. ~ \E p \in Poll : Tick(p)
    BY <2>0, TickStep
  <2>5. ~ \E j \in Job : NetworkAnswers(j)
    BY <2>0, NetworkStep
  <2>6. ~ \E r \in Request : Relay(r) \/ HangUp(r) \/ KeepAliveEnds(r)
    BY <2>0 DEF Relay, GoesOn, HangUp, KeepAliveEnds
  <2>7. ~ \E s \in Socket : Upgrade(s) \/ Leave(s) \/ Reap(s)
    BY <2>0 DEF Upgrade, Leave, Reap
  <2>8. ~(StorageClosed \/ Exit \/ Kill \/ Restart)
    BY <2>0, LifecycleAssumption
    DEF StorageClosed, Exit, Kill, Restart, Start, Goes, Down, LifeInv, TypeOK
  <2>9. ~ \E p \in Process : OpenStep(p) \/ CrashOpening(p)
    BY <2>0, LifecycleAssumption
    DEF OpenStep, ExecStatement, ExecSchema, Look, Alter, CrashOpening, Goes,
        LifeInv, TypeOK
  <2>10. ~ \E p \in Process \ {Backend} : Start(p) \/ ScriptEnds(p)
    BY <2>0, LifecycleAssumption DEF Start, ScriptEnds, Goes, LifeInv, TypeOK
  <2>11. CASE PoolError \/ \E s \in Socket : SocketError(s)
    BY <2>11
  <2> HIDE DEF Explained
  <2> QED
    BY <2>1, <2>2, <2>3, <2>4, <2>5, <2>6, <2>7, <2>8, <2>9, <2>10, <2>11
    DEF Next
<1> QED
  BY <1>1, LifeInduction, PTL DEF Spec, CrashesExplained
============================================================================
