----------------------------- MODULE StoreOpen -----------------------------
(***************************************************************************)
(* Opening the cache (db/store.js, the constructor of CacheStore, and      *)
(* db/migrate.js): the backend and the migration script may open one       *)
(* database at the same time, which may be new, complete, or of a version  *)
(* from before the ledger_ts column, and a process may die at any          *)
(* statement.                                                              *)
(*                                                                         *)
(* SQLite executes the schema statement by statement, each its own         *)
(* transaction; migrateCompat then looks for the ledger_ts column and adds *)
(* it in another.  PostgreSQL executes the schema as one transaction,      *)
(* which two processes may attempt at once; it has no migrateCompat, so an *)
(* older meter_events stays without the column.  What a backend does with  *)
(* the store it has opened is the subject of Lifecycle.                    *)
(***************************************************************************)
EXTENDS Naturals, Sequences

CONSTANTS
    Process,        \* the backend and runs of the migration script
    MaxCrashes      \* bound: deaths while opening

ASSUME OpenAssumption == MaxCrashes \in Nat

VARIABLES
    kind,       \* "sqlite" or "postgres"
    older,      \* the database is from before the ledger_ts column
    db,         \* the tables, indexes and columns the database has
    proc,       \* process -> where it is in the constructor, "up" once the
                \* store is open, or how it ended
    stmt,       \* process -> the statement of the schema it is at
    seen,       \* process -> what it saw of the database when it looked
    crashes     \* deaths while opening so far

opening == <<older, db, stmt, seen, crashes>>

Down == {"off", "exited", "crashed", "killed"}

\* The statements of the schema, in order.
Schema == <<"meta", "meter_events", "idx_events_device_ledger",
            "idx_events_emitted", "pending_readings">>

Complete == {Schema[i] : i \in DOMAIN Schema} \cup {"ledger_ts"}

\* A cache of an earlier version, without the column and with or without a
\* table of today's.
Older == {Complete \ {"ledger_ts"},
          Complete \ {"ledger_ts", "pending_readings"}}

\* CREATE ... IF NOT EXISTS of each of xs: a new meter_events has the column,
\* an existing one is left as it is.
Created(xs) ==
    db \cup xs \cup (IF "meter_events" \in xs \ db THEN {"ledger_ts"} ELSE {})

OpenInit ==
    /\ kind \in {"sqlite", "postgres"}
    /\ older \in BOOLEAN
    /\ db \in IF older THEN Older ELSE {{}, Complete}
    /\ proc = [p \in Process |-> "off"]
    /\ stmt = [p \in Process |-> 1]
    /\ seen = [p \in Process |-> {}]
    /\ crashes = 0

Goes(p, at) == proc' = [proc EXCEPT ![p] = at]

\* new CacheStore(...): the file is opened, or the schema sent to the pool.
Start(p) ==
    /\ proc[p] \in Down
    /\ Goes(p, "schema")
    /\ stmt' = [stmt EXCEPT ![p] = 1]
    /\ seen' = [seen EXCEPT ![p] = db]
    /\ UNCHANGED <<kind, older, db, crashes>>

\* db.exec(SCHEMA_SQLITE)
ExecStatement(p) ==
    /\ kind = "sqlite"
    /\ proc[p] = "schema"
    /\ db' = Created({Schema[stmt[p]]})
    /\ IF stmt[p] < Len(Schema)
       THEN stmt' = [stmt EXCEPT ![p] = @ + 1] /\ UNCHANGED proc
       ELSE stmt' = [stmt EXCEPT ![p] = 1] /\ Goes(p, "look")
    /\ UNCHANGED <<kind, older, seen, crashes>>

\* pool.query(SCHEMA_PG).  Two that create the same table at once: one fails.
ExecSchema(p) ==
    /\ kind = "postgres"
    /\ proc[p] = "schema"
    /\ \/ db' = Created({Schema[i] : i \in DOMAIN Schema}) /\ Goes(p, "up")
       \/ ~(db \subseteq seen[p]) /\ UNCHANGED db /\ Goes(p, "crashed")
    /\ seen' = [seen EXCEPT ![p] = {}]
    /\ UNCHANGED <<kind, older, stmt, crashes>>

\* PRAGMA table_info(meter_events)
Look(p) ==
    /\ proc[p] = "look"
    /\ seen' = [seen EXCEPT ![p] = db]
    /\ Goes(p, "alter")
    /\ UNCHANGED <<kind, older, db, stmt, crashes>>

\* Mutant: the existence of the column is inferred from a table added later.
NeedsColumnByTable(p) == "pending_readings" \notin seen[p]

NeedsColumn(p) == "ledger_ts" \notin seen[p]

\* Mutant: a failed ALTER is retried.
AlterRetried(p) ==
    /\ proc[p] = "alter"
    /\ IF ~NeedsColumn(p) THEN UNCHANGED db /\ Goes(p, "up")
       ELSE IF "ledger_ts" \notin db
       THEN db' = db \cup {"ledger_ts"} /\ Goes(p, "up")
       ELSE UNCHANGED <<db, proc>>
    /\ UNCHANGED <<kind, older, stmt, seen, crashes>>

\* ALTER TABLE fails if another process has added the column meanwhile; the
\* exception ends this one.
Alter(p) ==
    /\ proc[p] = "alter"
    /\ \/ ~NeedsColumn(p) /\ UNCHANGED db /\ Goes(p, "up")
       \/ /\ NeedsColumn(p) /\ "ledger_ts" \notin db
          /\ db' = db \cup {"ledger_ts"}
          /\ Goes(p, "up")
       \/ /\ NeedsColumn(p) /\ "ledger_ts" \in db
          /\ UNCHANGED db
          /\ Goes(p, "crashed")
    /\ seen' = [seen EXCEPT ![p] = {}]
    /\ UNCHANGED <<kind, older, stmt, crashes>>

OpenStep(p) == ExecStatement(p) \/ ExecSchema(p) \/ Look(p) \/ Alter(p)

\* The process dies while it opens the store: it is killed, a statement fails
\* (no connection, SQLITE_BUSY), or the port is taken once the store is open.
CrashOpening(p) ==
    /\ proc[p] \in {"schema", "look", "alter"}
    /\ crashes < MaxCrashes
    /\ Goes(p, "killed")
    /\ crashes' = crashes + 1
    /\ UNCHANGED <<kind, older, db, stmt, seen>>

\* migrate.js: await store.close(), and the script is over.
ScriptEnds(p) ==
    /\ proc[p] = "up"
    /\ Goes(p, "exited")
    /\ UNCHANGED <<kind, opening>>

----------------------------------------------------------------------------
(* What makes the completeness of an open store inductive.                 *)

\* The statements of the schema a process has behind it.
Done(p) == {Schema[k] : k \in 1..(stmt[p] - 1)}

\* The database never loses anything, so what a process executed, or saw, is
\* still there; past the schema it has all of it; a table of today's version
\* comes with the column, and an older SQLite one has it once open.
OpenInv ==
    /\ db \subseteq Complete
    /\ stmt \in [Process -> 1..Len(Schema)]
    /\ seen \in [Process -> SUBSET Complete]
    /\ ~older /\ "meter_events" \in db => "ledger_ts" \in db
    /\ \A p \in Process :
        /\ proc[p] = "schema" => Done(p) \subseteq db
        /\ proc[p] \in {"look", "alter", "up"} =>
              Complete \ {"ledger_ts"} \subseteq db
        /\ proc[p] = "alter" => seen[p] \subseteq db
        /\ proc[p] = "up" =>
              "ledger_ts" \in db \/ (older /\ kind = "postgres")

============================================================================
