--------------------------- MODULE EventIndexer ----------------------------
(***************************************************************************)
(* The Soroban event poller (backend/src/indexer/indexer.js) and the part  *)
(* of the cache it writes (backend/src/db/store.js: getLastLedger,         *)
(* setLastLedger, ingest).                                                 *)
(*                                                                         *)
(* setInterval starts a poll whether or not the previous one has finished, *)
(* so several polls run at once.  A poll is suspended at every await; each *)
(* stretch between two awaits, and each database statement, is one step    *)
(* here.  Any await may reject, which poll() catches: the poll ends and    *)
(* nothing is undone.  The process may die at any step; the database       *)
(* survives it and PM2 starts the process again.                           *)
(*                                                                         *)
(* An event is its position in the chain's event log; the page a poll is   *)
(* working on is a stretch of that log.  What an event says is left to the *)
(* kind: a billing event, one of another topic, or a billing event whose   *)
(* values the database column cannot hold, so that ingest rejects it.      *)
(***************************************************************************)
EXTENDS Integers, Sequences

CONSTANTS
    Poll,           \* polls that may be in flight at once
    PAGE_LIMIT,     \* the most events getEvents returns
    HasCursor,      \* whether the RPC client reports res.cursor
    EventKind,      \* kinds of events the contract may emit
    MaxLedger,      \* bound: ledgers the network closes
    MaxBatch        \* bound: events of the contract in one ledger

ASSUME IndexerAssumption ==
    /\ PAGE_LIMIT \in Nat \ {0}
    /\ HasCursor \in BOOLEAN
    /\ EventKind \subseteq {"meter", "other", "unstorable"}
    /\ MaxLedger \in Nat
    /\ MaxBatch \in Nat

VARIABLES
    chain,          \* the contract's events, in order: ledger and kind
    tip,            \* the newest closed ledger
    watermark,      \* meta.last_ledger, 0 when the row is missing
    rows,           \* meter_events: the events stored, in insertion order
    published,      \* events handed to onEvent, by any process so far
    running,        \* whether the interval timer is set
    poll            \* the local variables of each poll

db == <<watermark, rows>>
vars == <<chain, tip, watermark, rows, published, running, poll>>

Event == [ledger: Nat, kind: EventKind]

\* pc names the await a poll is suspended at.
PollState == [pc: {"idle", "getStart", "getLast", "getEvents", "page",
                   "ingested", "getMark", "setMark"},
              start: Nat,       \* startLedger
              last: Nat,        \* lastProcessedLedger
              cursor: Nat,      \* the last event of the previous page, or 0
              pos: Nat,         \* the page is events pos+1 .. end of chain
              end: Nat,
              more: BOOLEAN,    \* the page was full and came with a cursor
              latest: Nat,      \* res.latestLedger
              mark: Nat]        \* newWatermark

Idle == [pc |-> "idle", start |-> 0, last |-> 0, cursor |-> 0, pos |-> 0,
         end |-> 0, more |-> FALSE, latest |-> 0, mark |-> 0]

Billing(i) == chain[i].kind # "other"
Stored(i) == \E k \in DOMAIN rows : rows[k] = i

Init ==
    /\ chain = << >>
    /\ tip = 0
    /\ watermark = 0
    /\ rows = << >>
    /\ published = {}
    /\ running = FALSE
    /\ poll = [p \in Poll |-> Idle]

----------------------------------------------------------------------------
(* The network closes a ledger with some events of the contract.           *)

CloseLedger(batch) ==
    /\ tip < MaxLedger
    /\ tip' = tip + 1
    /\ chain' = chain \o [i \in DOMAIN batch |->
                            [ledger |-> tip + 1, kind |-> batch[i]]]
    /\ UNCHANGED <<watermark, rows, published, running, poll>>

----------------------------------------------------------------------------
(* The process: start(), stop(), the interval timer, and its death.        *)

Start ==
    /\ ~running
    /\ \A p \in Poll : poll[p].pc = "idle"
    /\ running' = TRUE
    /\ \E p \in Poll : poll' = [poll EXCEPT ![p].pc = "getStart"]
    /\ UNCHANGED <<chain, tip, db, published>>

\* stop() clears the timer and leaves the polls in flight alone.
Stop ==
    /\ running
    /\ running' = FALSE
    /\ UNCHANGED <<chain, tip, db, published, poll>>

Crash ==
    /\ running' = FALSE
    /\ poll' = [p \in Poll |-> Idle]
    /\ UNCHANGED <<chain, tip, db, published>>

\* The interval timer fires.
Tick(p) ==
    /\ running
    /\ poll[p].pc = "idle"
    /\ poll' = [poll EXCEPT ![p].pc = "getStart"]
    /\ UNCHANGED <<chain, tip, db, published, running>>

----------------------------------------------------------------------------
(* poll()                                                                  *)

\* startLedger = (await getLastLedger()) + 1
ReadStart(p) ==
    /\ poll[p].pc = "getStart"
    /\ poll' = [poll EXCEPT ![p].pc = "getLast", ![p].start = watermark + 1]
    /\ UNCHANGED <<chain, tip, db, published, running>>

\* lastProcessedLedger = await getLastLedger(), a second query
ReadLast(p) ==
    /\ poll[p].pc = "getLast"
    /\ poll' = [poll EXCEPT ![p].pc = "getEvents", ![p].last = watermark]
    /\ UNCHANGED <<chain, tip, db, published, running>>

\* Where the reply to a request begins: after the cursor, or after the
\* events of the ledgers before startLedger.
PageStart(p, n) ==
    IF poll[p].cursor # 0 THEN n = poll[p].cursor
    ELSE /\ n \in 0..Len(chain)
         /\ \A i \in 1..n : chain[i].ledger < poll[p].start
         /\ \A i \in (n + 1)..Len(chain) : chain[i].ledger >= poll[p].start

PageEnd(n) ==
    IF Len(chain) < n + PAGE_LIMIT THEN Len(chain) ELSE n + PAGE_LIMIT

\* await getEvents(params)
FetchPage(p) ==
    /\ poll[p].pc = "getEvents"
    /\ \E n \in 0..Len(chain) :
          /\ PageStart(p, n)
          /\ poll' = [poll EXCEPT
                        ![p].pc = "page", ![p].pos = n, ![p].end = PageEnd(n),
                        ![p].more = HasCursor /\ PageEnd(n) = n + PAGE_LIMIT,
                        ![p].latest = tip]
    /\ UNCHANGED <<chain, tip, db, published, running>>

\* The body of the loop after handleEvent: the event is done with.
EventDone(p) ==
    LET ledger == chain[poll[p].pos + 1].ledger IN
    poll' = [poll EXCEPT ![p].pc = "page", ![p].pos = @ + 1,
                         ![p].last = IF ledger > @ THEN ledger ELSE @]

\* handleEvent on another topic returns at once.
SkipEvent(p) ==
    /\ poll[p].pc = "page"
    /\ poll[p].pos < poll[p].end
    /\ ~Billing(poll[p].pos + 1)
    /\ EventDone(p)
    /\ UNCHANGED <<chain, tip, db, published, running>>

\* INSERT ... ON CONFLICT (event_id) DO NOTHING
\* Mutant: no conflict clause.
IngestAlways(i) == rows' = Append(rows, i)

Ingest(i) == rows' = IF Stored(i) THEN rows ELSE Append(rows, i)

\* await storage.ingest(row)
\* Mutant: the event is announced without waiting for the insertion.
IngestEventLater(p) ==
    /\ poll[p].pc = "page"
    /\ poll[p].pos < poll[p].end
    /\ chain[poll[p].pos + 1].kind = "meter"
    /\ poll' = [poll EXCEPT ![p].pc = "ingested"]
    /\ UNCHANGED <<chain, tip, db, published, running>>

IngestEvent(p) ==
    /\ poll[p].pc = "page"
    /\ poll[p].pos < poll[p].end
    /\ chain[poll[p].pos + 1].kind = "meter"
    /\ Ingest(poll[p].pos + 1)
    /\ poll' = [poll EXCEPT ![p].pc = "ingested"]
    /\ UNCHANGED <<chain, tip, watermark, published, running>>

\* onEvent(row), also when the row was already there
PublishEvent(p) ==
    /\ poll[p].pc = "ingested"
    /\ published' = published \cup {poll[p].pos + 1}
    /\ EventDone(p)
    /\ UNCHANGED <<chain, tip, db, running>>

\* A full page: ask for the next one.
NextPage(p) ==
    /\ poll[p].pc = "page"
    /\ poll[p].pos = poll[p].end
    /\ poll[p].more
    /\ poll' = [poll EXCEPT ![p].pc = "getEvents", ![p].cursor = poll[p].end]
    /\ UNCHANGED <<chain, tip, db, published, running>>

\* newWatermark, given that getLastLedger() answers lastLedger
\* Mutants: the network's newest ledger instead of the reply's; no jump over
\* ledgers without events.
NewWatermarkFresh(p, lastLedger) ==
    IF poll[p].last > lastLedger THEN poll[p].last ELSE tip
NewWatermarkNoJump(p, lastLedger) == poll[p].last

NewWatermark(p, lastLedger) ==
    IF poll[p].last > lastLedger THEN poll[p].last ELSE poll[p].latest

\* lastLedger = await getLastLedger(), and what to make of it
ReadMark(p) ==
    LET newWatermark == NewWatermark(p, watermark) IN
    /\ poll[p].pc = "page"
    /\ poll[p].pos = poll[p].end
    /\ ~poll[p].more
    /\ poll' = [poll EXCEPT ![p] =
                  IF newWatermark > watermark
                  THEN [@ EXCEPT !.pc = "setMark", !.mark = newWatermark]
                  ELSE Idle]
    /\ UNCHANGED <<chain, tip, db, published, running>>

\* await setLastLedger(newWatermark)
\* Mutant: the ledger to read next is stored instead.
SetMarkNext(p) ==
    /\ poll[p].pc = "setMark"
    /\ watermark' = poll[p].mark + 1
    /\ poll' = [poll EXCEPT ![p] = Idle]
    /\ UNCHANGED <<chain, tip, rows, published, running>>

SetMark(p) ==
    /\ poll[p].pc = "setMark"
    /\ watermark' = poll[p].mark
    /\ poll' = [poll EXCEPT ![p] = Idle]
    /\ UNCHANGED <<chain, tip, rows, published, running>>

\* An RPC or database call rejects and poll() logs it.  A call that took
\* effect before its answer was lost is the effect followed by this step.
PollFails(p) ==
    /\ poll[p].pc # "idle"
    /\ poll' = [poll EXCEPT ![p] = Idle]
    /\ UNCHANGED <<chain, tip, db, published, running>>

----------------------------------------------------------------------------

PollStep(p) ==
    \/ ReadStart(p)
    \/ ReadLast(p)
    \/ FetchPage(p)
    \/ SkipEvent(p)
    \/ IngestEvent(p)
    \/ PublishEvent(p)
    \/ NextPage(p)
    \/ ReadMark(p)
    \/ SetMark(p)

Batch == UNION {[1..n -> EventKind] : n \in 0..MaxBatch}

Progress ==
    \/ \E batch \in Batch : CloseLedger(batch)
    \/ Start
    \/ \E p \in Poll : Tick(p) \/ PollStep(p)

Next ==
    \/ Progress
    \/ Stop
    \/ Crash
    \/ \E p \in Poll : PollFails(p)

Spec == Init /\ [][Next]_vars

\* The timer keeps firing, awaits are eventually answered, PM2 restarts the
\* process, and failures of the RPC, the database and the process cease.
FairSpec ==
    /\ Spec
    /\ WF_vars(Start)
    /\ \A p \in Poll : WF_vars(Tick(p)) /\ WF_vars(PollStep(p))
    /\ <>[][Progress]_vars

----------------------------------------------------------------------------
(* Properties                                                              *)

\* The types of the event log, of the tables and of each poll's variables.
TypeOK ==
    /\ chain \in Seq(Event)
    /\ tip \in Nat
    /\ watermark \in Nat
    /\ rows \in Seq(1..Len(chain))
    /\ published \subseteq 1..Len(chain)
    /\ running \in BOOLEAN
    /\ poll \in [Poll -> PollState]

\* Nothing is ever lost: a billing event at or below the persisted watermark,
\* which no later poll asks for again, is in the cache and has been handed
\* to the telemetry bus, whatever failed, crashed or overlapped on the way.
CompleteBelowWatermark ==
    \A i \in DOMAIN chain :
        Billing(i) /\ chain[i].ledger <= watermark
            => Stored(i) /\ i \in published

\* The cache is at all times a prefix of the contract's billing history, in
\* the contract's order and without repetitions, although overlapping polls
\* insert the same events: the API's totals and its latest sequence number
\* are those of one moment on the chain.
CacheIsPrefix ==
    /\ \A k, m \in DOMAIN rows : k < m => rows[k] < rows[m]
    /\ \A k \in DOMAIN rows : \A i \in 1..rows[k] : Billing(i) => Stored(i)

\* A subscriber is never told of a reading the REST API does not have yet.
PublishedIsStored == \A i \in published : Stored(i)

\* The watermark never runs ahead of the network, where it would make the
\* poller skip ledgers that do not exist yet.
WatermarkIsClosed == watermark <= tip

\* Why the above hold: what each poll knows while it is suspended.  A poll
\* has dealt with every event up to pos; a page that was not full reached
\* the end of the log, so nothing at or below res.latestLedger follows it.
Done(i) == Billing(i) => Stored(i) /\ i \in published

DoneBelow(l) == \A i \in DOMAIN chain : chain[i].ledger < l => Done(i)

PollInv(q) ==
    /\ q.cursor <= Len(chain)
    /\ \A i \in 1..q.cursor : Done(i)
    /\ q.last <= tip
    /\ q.pc \notin {"idle", "getStart"} =>
          q.start <= tip + 1 /\ DoneBelow(q.start)
    /\ q.pc \in {"page", "ingested"} =>
          /\ q.pos <= q.end
          /\ q.end <= Len(chain)
          /\ \A i \in 1..q.pos : Done(i)
          /\ \A i \in 1..q.end : chain[i].ledger <= q.latest
          /\ q.last <= q.latest
          /\ q.latest <= tip
          /\ ~q.more => \A i \in DOMAIN chain : i > q.end =>
                                chain[i].ledger > q.latest
    /\ q.pc = "ingested" => q.pos < q.end /\ Stored(q.pos + 1)
    /\ q.pc = "setMark" => q.mark <= tip /\ DoneBelow(q.mark + 1)

IndInv ==
    /\ TypeOK
    /\ \A i \in DOMAIN chain : chain[i].ledger <= tip
    /\ DoneBelow(watermark + 1)
    /\ WatermarkIsClosed
    /\ CacheIsPrefix
    /\ PublishedIsStored
    /\ \A p \in Poll : PollInv(poll[p])

\* What does not need a cursor: no event is stored twice, and no poll knows of
\* ledgers or events the network has not got.
StoredOnce == \A k, m \in DOMAIN rows : rows[k] = rows[m] => k = m

RoomInv(q) ==
    /\ q.last <= tip
    /\ q.pc \in {"page", "ingested"} =>
          q.pos <= q.end /\ q.end <= Len(chain) /\ q.latest <= tip
    /\ q.pc = "ingested" => q.pos < q.end /\ Stored(q.pos + 1)
    /\ q.pc = "setMark" => q.mark <= tip

SafeInv ==
    /\ TypeOK
    /\ \A i \in DOMAIN chain : chain[i].ledger <= tip
    /\ WatermarkIsClosed
    /\ PublishedIsStored
    /\ StoredOnce
    /\ \A p \in Poll : RoomInv(poll[p])

\* The indexer as its readers see it.
Feed == INSTANCE EventFeed WITH
    billed <- {i \in DOMAIN chain : Billing(i)},
    cached <- {rows[k] : k \in DOMAIN rows},
    announced <- published

\* Overlapping, failing and restarted polls together still cache and announce
\* the billing events one by one in the contract's order: no subscriber hears
\* of an event before it has had the chance to hear of the earlier ones.
ImplementsEventFeed == Feed!Spec

\* Some event of the log can never be stored.
Poisoned == \E i \in DOMAIN chain : chain[i].kind = "unstorable"

\* Once failures cease, the watermark reaches every closed ledger, and with
\* CompleteBelowWatermark every billing event the cache, also when the newest
\* ledgers hold no event of the contract and although a slow poll may move
\* the watermark back: only an event no column can hold keeps it down.
WatermarkCatchesUp ==
    \A l \in 1..MaxLedger : (tip >= l) ~> (watermark >= l \/ Poisoned)

============================================================================
