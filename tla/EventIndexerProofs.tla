------------------------ MODULE EventIndexerProofs -------------------------
(***************************************************************************)
(* The event indexer loses nothing and repeats nothing: proofs, for any    *)
(* number of polls in flight, any page size and any chain.                 *)
(***************************************************************************)
EXTENDS EventIndexer, EventDecode, TLAPS

\* What a network step leaves alone: events keep their place and ledger, new
\* ones belong to the new ledger.
LEMMA ChainGrows ==
  ASSUME NEW batch \in Batch, TypeOK, CloseLedger(batch)
  PROVE  /\ chain' \in Seq(Event)
         /\ Len(chain') >= Len(chain)
         /\ \A i \in 1..Len(chain) : chain'[i] = chain[i]
         /\ \A i \in 1..Len(chain') : i > Len(chain) =>
                                          chain'[i].ledger = tip + 1
PROOF
<1> DEFINE new == [i \in DOMAIN batch |->
                     [ledger |-> tip + 1, kind |-> batch[i]]]
<1>1. PICK n \in 0..MaxBatch : batch \in [1..n -> EventKind]
  BY DEF Batch
<1>2. n \in Nat
  BY <1>1, IndexerAssumption
<1>3. new \in [1..n -> Event]
  BY <1>1 DEF Event, TypeOK
<1>4. new \in Seq(Event) /\ Len(new) = n
  BY <1>2, <1>3
<1>5. chain' = chain \o new
  BY DEF CloseLedger
<1>6. \A i \in 1..n : new[i].ledger = tip + 1
  BY <1>1
<1> HIDE DEF new
<1> QED
  BY <1>2, <1>4, <1>5, <1>6 DEF TypeOK

\* What an insertion does to the set of stored events.
LEMMA IngestStores ==
  ASSUME TypeOK, NEW i \in 1..Len(chain), Ingest(i)
  PROVE  /\ rows' \in Seq(1..Len(chain))
         /\ \A j : (\E k \in DOMAIN rows' : rows'[k] = j) <=> Stored(j) \/ j = i
PROOF
<1>1. CASE Stored(i)
  BY <1>1 DEF Ingest, Stored, TypeOK
<1>2. CASE ~Stored(i)
  <2>1. /\ rows' = Append(rows, i)
        /\ rows \in Seq(1..Len(chain))
    BY <1>2 DEF Ingest, TypeOK
  <2>2. /\ rows' \in Seq(1..Len(chain))
        /\ Len(rows') = Len(rows) + 1
        /\ \A k \in 1..Len(rows) : rows'[k] = rows[k]
        /\ rows'[Len(rows) + 1] = i
    BY <2>1
  <2> QED
    BY <2>1, <2>2 DEF Stored
<1> QED
  BY <1>1, <1>2

----------------------------------------------------------------------------

\* A step that at most adds ledgers, rows and publications.
Grows ==
  /\ chain' \in Seq(Event)
  /\ tip' \in Nat
  /\ tip <= tip'
  /\ Len(chain) <= Len(chain')
  /\ \A i \in 1..Len(chain) : chain'[i] = chain[i]
  /\ \A i \in 1..Len(chain') : i > Len(chain) => chain'[i].ledger = tip + 1
  /\ \A j : Stored(j) => Stored(j)'
  /\ published \subseteq published'

\* An event that is dealt with stays dealt with.
LEMMA DoneStable ==
  ASSUME TypeOK, Grows
  PROVE  /\ \A i \in 1..Len(chain) : Done(i) => Done(i)'
         /\ \A l \in Nat : l <= tip + 1 /\ DoneBelow(l) => DoneBelow(l)'
PROOF
<1>1. \A i \in 1..Len(chain) : Done(i) => Done(i)'
  BY DEF Done, Billing, Grows
<1>2. ASSUME NEW l \in Nat, l <= tip + 1, DoneBelow(l)
      PROVE  DoneBelow(l)'
  <2> SUFFICES ASSUME NEW i \in DOMAIN chain', chain'[i].ledger < l
               PROVE  Done(i)'
    BY DEF DoneBelow
  <2>1. i \in 1..Len(chain')
    BY DEF Grows
  <2>2. i <= Len(chain)
    BY <1>2, <2>1 DEF Grows, TypeOK
  <2>3. i \in 1..Len(chain) /\ chain'[i] = chain[i]
    BY <2>1, <2>2 DEF Grows
  <2>4. Done(i)
    BY <1>2, <2>3 DEF DoneBelow, TypeOK
  <2> QED
    BY <1>1, <2>3, <2>4
<1> QED
  BY <1>1, <1>2

\* What a suspended poll knows stays true while others move.
LEMMA PollInvStable ==
  ASSUME TypeOK, Grows, NEW q \in PollState, PollInv(q)
  PROVE  PollInv(q)'
PROOF
<1>0. /\ Len(chain) \in Nat
      /\ Len(chain') \in Nat
      /\ tip \in Nat
      /\ DOMAIN chain = 1..Len(chain)
      /\ DOMAIN chain' = 1..Len(chain')
  BY DEF TypeOK, Grows
<1>1. /\ q.cursor \in Nat /\ q.start \in Nat /\ q.pos \in Nat /\ q.end \in Nat
      /\ q.last \in Nat /\ q.latest \in Nat /\ q.mark \in Nat
  BY DEF PollState
<1>2. /\ q.cursor <= Len(chain')
      /\ \A i \in 1..q.cursor : Done(i)'
      /\ q.last <= tip'
  BY <1>0, <1>1, DoneStable DEF PollInv, Grows
<1>3. ASSUME q.pc \notin {"idle", "getStart"}
      PROVE  q.start <= tip' + 1 /\ DoneBelow(q.start)'
  BY <1>0, <1>1, <1>3, DoneStable DEF PollInv, Grows
<1>4. ASSUME q.pc \in {"page", "ingested"}
      PROVE  /\ q.pos <= q.end
             /\ q.end <= Len(chain')
             /\ \A i \in 1..q.pos : Done(i)'
             /\ \A i \in 1..q.end : chain'[i].ledger <= q.latest
             /\ q.last <= q.latest
             /\ q.latest <= tip'
             /\ ~q.more => \A i \in DOMAIN chain' : i > q.end =>
                                   chain'[i].ledger > q.latest
  <2>1. /\ q.pos <= q.end
        /\ q.end <= Len(chain)
        /\ q.last <= q.latest
        /\ q.latest <= tip
        /\ \A i \in 1..q.pos : Done(i)
        /\ \A i \in 1..q.end : chain[i].ledger <= q.latest
        /\ ~q.more => \A i \in DOMAIN chain : i > q.end =>
                                chain[i].ledger > q.latest
    BY <1>4 DEF PollInv
  <2>2. \A i \in 1..q.pos : Done(i)'
    BY <1>0, <1>1, <2>1, DoneStable
  <2>3. \A i \in 1..q.end : chain'[i].ledger <= q.latest
    BY <1>0, <1>1, <2>1 DEF Grows
  <2>4. ~q.more => \A i \in DOMAIN chain' : i > q.end =>
                                chain'[i].ledger > q.latest
    <3> SUFFICES ASSUME ~q.more, NEW i \in 1..Len(chain'), i > q.end
                 PROVE  chain'[i].ledger > q.latest
      BY <1>0
    <3>1. CASE i <= Len(chain)
      <4>1. i \in 1..Len(chain)
        BY <1>0, <3>1
      <4>2. chain'[i] = chain[i]
        BY <4>1 DEF Grows
      <4>3. chain[i].ledger > q.latest
        BY <1>0, <2>1, <4>1
      <4> QED
        BY <4>2, <4>3
    <3>2. CASE i > Len(chain)
      <4>1. chain'[i].ledger = tip + 1
        BY <3>2 DEF Grows
      <4> QED
        BY <1>0, <1>1, <2>1, <4>1
    <3> QED
      BY <1>0, <3>1, <3>2
  <2> QED
    BY <1>0, <1>1, <2>1, <2>2, <2>3, <2>4 DEF Grows
<1>5. q.pc = "ingested" => q.pos < q.end /\ Stored(q.pos + 1)'
  BY DEF PollInv, Grows
<1>6. ASSUME q.pc = "setMark"
      PROVE  q.mark <= tip' /\ DoneBelow(q.mark + 1)'
  BY <1>0, <1>1, <1>6, DoneStable DEF PollInv, Grows
<1> QED
  BY <1>2, <1>3, <1>4, <1>5, <1>6 DEF PollInv

----------------------------------------------------------------------------

\* A step that touches neither the chain nor the event table preserves the
\* invariant if the polls and the watermark it leaves behind are sound.
LEMMA QuietStep ==
  ASSUME IndInv, UNCHANGED <<chain, tip, rows, published>>,
         running' \in BOOLEAN, watermark' \in Nat, watermark' <= tip,
         DoneBelow(watermark' + 1),
         poll' \in [Poll -> PollState],
         \A p \in Poll : PollInv(poll'[p])
  PROVE  IndInv'
PROOF
<1>1. TypeOK'
  BY DEF IndInv, TypeOK
<1>2. /\ (\A i \in DOMAIN chain : chain[i].ledger <= tip)'
      /\ WatermarkIsClosed'
      /\ CacheIsPrefix'
      /\ PublishedIsStored'
  BY DEF IndInv, WatermarkIsClosed, CacheIsPrefix, PublishedIsStored, Stored,
         Billing
<1>3. DoneBelow(watermark + 1)'
  BY DEF DoneBelow, Done, Billing, Stored
<1>4. (\A p \in Poll : PollInv(poll[p]))'
  BY DEF PollInv, DoneBelow, Done, Billing, Stored
<1> QED
  BY <1>1, <1>2, <1>3, <1>4 DEF IndInv

\* The case of a step of one poll.
LEMMA QuietPoll ==
  ASSUME IndInv, NEW p \in Poll, NEW q \in PollState, PollInv(q),
         poll' = [poll EXCEPT ![p] = q],
         UNCHANGED <<chain, tip, watermark, rows, published>>,
         running' \in BOOLEAN
  PROVE  IndInv'
PROOF
<1>1. /\ poll \in [Poll -> PollState]
      /\ \A r \in Poll : PollInv(poll[r])
      /\ watermark \in Nat
      /\ watermark <= tip
      /\ DoneBelow(watermark + 1)
  BY DEF IndInv, TypeOK, WatermarkIsClosed
<1>2. poll' \in [Poll -> PollState]
  BY <1>1
<1>3. \A r \in Poll : PollInv(poll'[r])
  BY <1>1
<1>4. DoneBelow(watermark' + 1)
  BY <1>1
<1> QED
  BY <1>1, <1>2, <1>3, <1>4, QuietStep

\* A poll that is over, or has only begun, knows nothing.
LEMMA IdleInv ==
  ASSUME IndInv
  PROVE  Idle \in PollState /\ PollInv(Idle)
BY DEF IndInv, TypeOK, Idle, PollState, PollInv

----------------------------------------------------------------------------
(* One lemma per kind of step.                                             *)

\* The facts about one poll that the steps below start from.
LEMMA PollFacts ==
  ASSUME IndInv, NEW p \in Poll
  PROVE  /\ poll[p] \in PollState
         /\ PollInv(poll[p])
         /\ poll \in [Poll -> PollState]
         /\ chain \in Seq(Event)
         /\ Len(chain) \in Nat
         /\ DOMAIN chain = 1..Len(chain)
         /\ tip \in Nat
         /\ watermark \in Nat
         /\ watermark <= tip
         /\ \A i \in 1..Len(chain) : chain[i].ledger \in Nat
                                     /\ chain[i].ledger <= tip
PROOF
<1>1. /\ poll \in [Poll -> PollState]
      /\ chain \in Seq(Event)
      /\ tip \in Nat
      /\ watermark \in Nat
      /\ watermark <= tip
      /\ PollInv(poll[p])
      /\ \A i \in DOMAIN chain : chain[i].ledger <= tip
  BY DEF IndInv, TypeOK, WatermarkIsClosed
<1>2. Len(chain) \in Nat /\ DOMAIN chain = 1..Len(chain)
  BY <1>1
<1>3. \A i \in 1..Len(chain) : chain[i] \in Event
  BY <1>1
<1>4. \A i \in 1..Len(chain) : chain[i].ledger \in Nat
  BY <1>3 DEF Event
<1> QED
  BY <1>1, <1>2, <1>4

\* start(), stop(), a timer tick, a failed call and the death of the process.
LEMMA ControlStep ==
  ASSUME IndInv, Start \/ Stop \/ Crash \/ (\E p \in Poll : Tick(p) \/ PollFails(p))
  PROVE  IndInv'
PROOF
<1> DEFINE Begun(p) == [poll[p] EXCEPT !.pc = "getStart"]
<1>1. ASSUME NEW p \in Poll PROVE Begun(p) \in PollState /\ PollInv(Begun(p))
  BY <1>1, PollFacts DEF PollState, PollInv
<1>2. ASSUME NEW p \in Poll, poll' = [poll EXCEPT ![p].pc = "getStart"],
             UNCHANGED <<chain, tip, db, published>>, running' \in BOOLEAN
      PROVE  IndInv'
  <2>1. poll' = [poll EXCEPT ![p] = Begun(p)]
    BY <1>2, PollFacts
  <2> HIDE DEF Begun
  <2> QED
    BY <1>1, <1>2, <2>1, QuietPoll DEF db
<1>3. CASE Start
  BY <1>2, <1>3 DEF Start
<1>4. CASE Stop
  <2>1. UNCHANGED <<chain, tip, watermark, rows, published, poll>> /\ running' = FALSE
    BY <1>4 DEF Stop, db
  <2>2. /\ poll' \in [Poll -> PollState] /\ \A r \in Poll : PollInv(poll'[r])
        /\ watermark' \in Nat /\ watermark' <= tip /\ DoneBelow(watermark' + 1)
    BY <2>1 DEF IndInv, TypeOK, WatermarkIsClosed
  <2> QED
    BY <2>1, <2>2, QuietStep
<1>5. CASE Crash
  <2>1. /\ UNCHANGED <<chain, tip, watermark, rows, published>>
        /\ running' = FALSE
        /\ poll' = [p \in Poll |-> Idle]
    BY <1>5 DEF Crash, db
  <2>2. /\ poll' \in [Poll -> PollState] /\ \A r \in Poll : PollInv(poll'[r])
        /\ watermark' \in Nat /\ watermark' <= tip /\ DoneBelow(watermark' + 1)
    BY <2>1, IdleInv DEF IndInv, TypeOK, WatermarkIsClosed
  <2> QED
    BY <2>1, <2>2, QuietStep
<1>6. ASSUME NEW p \in Poll, Tick(p) PROVE IndInv'
  BY <1>2, <1>6 DEF Tick, IndInv, TypeOK
<1>7. ASSUME NEW p \in Poll, PollFails(p) PROVE IndInv'
  BY <1>7, IdleInv, QuietPoll DEF PollFails, db, IndInv, TypeOK
<1> QED
  BY <1>3, <1>4, <1>5, <1>6, <1>7

\* The two reads of the watermark that begin a poll.
LEMMA ReadStep ==
  ASSUME IndInv, NEW p \in Poll, ReadStart(p) \/ ReadLast(p)
  PROVE  IndInv'
PROOF
<1>1. CASE ReadStart(p)
  <2> DEFINE q == [poll[p] EXCEPT !.pc = "getLast", !.start = watermark + 1]
  <2>0. poll[p] \in PollState /\ watermark \in Nat /\ watermark + 1 \in Nat
    BY PollFacts
  <2>1. q \in PollState
    BY <2>0 DEF PollState
  <2>2. PollInv(q)
    BY PollFacts DEF PollState, PollInv, IndInv
  <2>3. poll' = [poll EXCEPT ![p] = q]
    BY <1>1, PollFacts DEF ReadStart
  <2> HIDE DEF q
  <2> QED
    BY <1>1, <2>1, <2>2, <2>3, QuietPoll DEF ReadStart, db, IndInv, TypeOK
<1>2. CASE ReadLast(p)
  <2> DEFINE q == [poll[p] EXCEPT !.pc = "getEvents", !.last = watermark]
  <2>0. poll[p] \in PollState /\ watermark \in Nat
    BY PollFacts
  <2>1. q \in PollState
    BY <2>0 DEF PollState
  <2>2. PollInv(q)
    BY <1>2, PollFacts DEF PollState, PollInv, ReadLast
  <2>3. poll' = [poll EXCEPT ![p] = q]
    BY <1>2, PollFacts DEF ReadLast
  <2> HIDE DEF q
  <2> QED
    BY <1>2, <2>1, <2>2, <2>3, QuietPoll DEF ReadLast, db, IndInv, TypeOK
<1> QED
  BY <1>1, <1>2

\* A reply of the RPC.  With a cursor to follow, a page that is not followed
\* by another one reaches the end of the log.
LEMMA FetchStep ==
  ASSUME HasCursor, IndInv, NEW p \in Poll, FetchPage(p)
  PROVE  IndInv'
PROOF
<1>1. PICK n \in 0..Len(chain) :
         /\ PageStart(p, n)
         /\ poll' = [poll EXCEPT
                       ![p].pc = "page", ![p].pos = n, ![p].end = PageEnd(n),
                       ![p].more = HasCursor /\ PageEnd(n) = n + PAGE_LIMIT,
                       ![p].latest = tip]
  BY DEF FetchPage
<1> DEFINE more == HasCursor /\ PageEnd(n) = n + PAGE_LIMIT
           q == [poll[p] EXCEPT !.pc = "page", !.pos = n, !.end = PageEnd(n),
                                !.more = more, !.latest = tip]
<1>2. /\ n \in Nat
      /\ PageEnd(n) \in Nat
      /\ n <= PageEnd(n)
      /\ PageEnd(n) <= Len(chain)
      /\ PageEnd(n) # n + PAGE_LIMIT => PageEnd(n) = Len(chain)
  BY <1>1, PollFacts, IndexerAssumption DEF PageEnd
<1>3. poll[p] \in PollState /\ tip \in Nat /\ more \in BOOLEAN
  BY PollFacts
<1>4. \A i \in 1..n : Done(i)
  <2>1. CASE poll[p].cursor # 0
    BY <1>1, <2>1, PollFacts DEF PageStart, PollInv
  <2>2. CASE poll[p].cursor = 0
    <3>1. \A i \in 1..n : chain[i].ledger < poll[p].start
      BY <1>1, <2>2 DEF PageStart
    <3>2. DoneBelow(poll[p].start)
      BY PollFacts DEF FetchPage, PollInv
    <3>3. \A i \in 1..n : i \in DOMAIN chain
      BY <1>2, <1>1, PollFacts
    <3> QED
      BY <3>1, <3>2, <3>3 DEF DoneBelow
  <2> QED
    BY <2>1, <2>2
<1>5. q \in PollState
  <2> HIDE DEF more
  <2> QED
    BY <1>2, <1>3 DEF PollState
<1>6. PollInv(q)
  <2>1. /\ q.pc = "page" /\ q.pos = n /\ q.end = PageEnd(n)
        /\ q.more = more /\ q.latest = tip
        /\ q.cursor = poll[p].cursor /\ q.last = poll[p].last
        /\ q.start = poll[p].start
    BY <1>3 DEF PollState
  <2>2. /\ q.cursor <= Len(chain)
        /\ \A i \in 1..q.cursor : Done(i)
        /\ q.last <= tip
        /\ poll[p].start <= tip + 1
        /\ DoneBelow(poll[p].start)
    BY <2>1, PollFacts DEF PollInv, FetchPage
  <2>3. \A i \in 1..PageEnd(n) : chain[i].ledger <= tip
    BY <1>2, PollFacts
  <2>4. ~more => \A i \in DOMAIN chain : i > PageEnd(n) =>
                                           chain[i].ledger > tip
    BY <1>2, PollFacts
  <2> HIDE DEF q, more
  <2> QED
    BY <1>2, <1>3, <1>4, <2>1, <2>2, <2>3, <2>4 DEF PollInv
<1>7. poll' = [poll EXCEPT ![p] = q]
  BY <1>1, PollFacts
<1> HIDE DEF q
<1> QED
  BY <1>5, <1>6, <1>7, QuietPoll DEF FetchPage, db, IndInv, TypeOK

\* After a full page, the request for the next one.
LEMMA NextPageStep ==
  ASSUME IndInv, NEW p \in Poll, NextPage(p)
  PROVE  IndInv'
PROOF
<1> DEFINE q == [poll[p] EXCEPT !.pc = "getEvents", !.cursor = poll[p].end]
<1>0. poll[p] \in PollState
  BY PollFacts
<1>1. q \in PollState
  BY <1>0 DEF PollState
<1>2. PollInv(q)
  BY PollFacts DEF PollState, PollInv, NextPage
<1>3. poll' = [poll EXCEPT ![p] = q]
  BY PollFacts DEF NextPage
<1> HIDE DEF q
<1> QED
  BY <1>1, <1>2, <1>3, QuietPoll DEF NextPage, db, IndInv, TypeOK

\* The end of a poll: what it is about to write is backed by the cache.
LEMMA ReadMarkStep ==
  ASSUME IndInv, NEW p \in Poll, ReadMark(p)
  PROVE  IndInv'
PROOF
<1> DEFINE new == IF poll[p].last > watermark THEN poll[p].last
                                              ELSE poll[p].latest
           s == [poll[p] EXCEPT !.pc = "setMark", !.mark = new]
<1>0. /\ poll[p] \in PollState
      /\ poll[p].pc = "page" /\ poll[p].pos = poll[p].end /\ ~poll[p].more
  BY PollFacts DEF ReadMark
<1>1. /\ poll[p].last \in Nat /\ poll[p].latest \in Nat /\ poll[p].end \in Nat
      /\ poll[p].pos \in Nat
  BY <1>0 DEF PollState
<1>2. /\ poll[p].last <= poll[p].latest
      /\ poll[p].latest <= tip
      /\ \A i \in 1..poll[p].end : Done(i)
      /\ \A i \in DOMAIN chain : i > poll[p].end =>
                                 chain[i].ledger > poll[p].latest
  BY <1>0, PollFacts DEF PollInv
<1>3. new \in Nat /\ new <= poll[p].latest /\ new <= tip
  BY <1>1, <1>2, PollFacts
<1>4. DoneBelow(new + 1)
  <2> SUFFICES ASSUME NEW i \in DOMAIN chain, chain[i].ledger < new + 1
               PROVE  Done(i)
    BY DEF DoneBelow
  <2>1. i \in 1..Len(chain) /\ chain[i].ledger \in Nat
    BY PollFacts
  <2>2. ~(chain[i].ledger > poll[p].latest)
    BY <1>1, <1>3, <2>1
  <2>3. ~(i > poll[p].end)
    BY <1>2, <2>2
  <2>4. i \in 1..poll[p].end
    BY <1>1, <2>1, <2>3, PollFacts
  <2> QED
    BY <1>2, <2>4
<1> HIDE DEF new
<1>5. s \in PollState
  BY <1>0, <1>3 DEF PollState
<1>6. PollInv(s)
  <2>1. /\ s.pc = "setMark" /\ s.mark = new /\ s.cursor = poll[p].cursor
        /\ s.last = poll[p].last /\ s.start = poll[p].start
    BY <1>0 DEF PollState
  <2> HIDE DEF s
  <2> QED
    BY <1>0, <1>3, <1>4, <2>1, PollFacts DEF PollInv
<1>7. poll' = [poll EXCEPT ![p] = IF new > watermark THEN s ELSE Idle]
  BY DEF ReadMark, NewWatermark, new
<1> HIDE DEF s
<1> QED
  BY <1>5, <1>6, <1>7, IdleInv, QuietPoll DEF ReadMark, db, IndInv, TypeOK

\* The write of the watermark.
LEMMA SetMarkStep ==
  ASSUME IndInv, NEW p \in Poll, SetMark(p)
  PROVE  IndInv'
PROOF
<1>1. /\ poll[p] \in PollState
      /\ poll[p].mark <= tip
      /\ DoneBelow(poll[p].mark + 1)
  BY PollFacts DEF SetMark, PollInv
<1>2. /\ watermark' = poll[p].mark
      /\ poll' = [poll EXCEPT ![p] = Idle]
      /\ UNCHANGED <<chain, tip, rows, published, running>>
  BY DEF SetMark
<1>3. watermark' \in Nat
  BY <1>1, <1>2 DEF PollState
<1>4. /\ poll' \in [Poll -> PollState]
      /\ \A r \in Poll : PollInv(poll'[r])
  BY <1>2, IdleInv DEF IndInv, TypeOK
<1> QED
  BY <1>1, <1>2, <1>3, <1>4, QuietStep DEF IndInv, TypeOK

\* A poll that finished with an event is sound if that event is dealt with.
\* (The tables may grow in the same step, as PublishEvent's do.)
LEMMA AdvanceInv ==
  ASSUME TypeOK, Grows, UNCHANGED <<chain, tip>>,
         NEW q \in PollState, PollInv(q),
         q.pc \in {"page", "ingested"}, q.pos < q.end, Done(q.pos + 1)',
         NEW s \in PollState,
         s = [q EXCEPT !.pc = "page", !.pos = q.pos + 1,
                       !.last = IF chain[q.pos + 1].ledger > q.last
                                THEN chain[q.pos + 1].ledger ELSE q.last]
  PROVE  PollInv(s)'
PROOF
<1>0. /\ Len(chain) \in Nat
      /\ tip \in Nat
      /\ DOMAIN chain = 1..Len(chain)
      /\ chain' = chain /\ tip' = tip
  BY DEF TypeOK
<1>1. /\ q.cursor \in Nat /\ q.start \in Nat /\ q.pos \in Nat /\ q.end \in Nat
      /\ q.last \in Nat /\ q.latest \in Nat
  BY DEF PollState
<1>2. PollInv(q)'
  BY PollInvStable
<1>3. /\ s.pc = "page" /\ s.pos = q.pos + 1 /\ s.end = q.end
      /\ s.cursor = q.cursor /\ s.start = q.start /\ s.latest = q.latest
      /\ s.more = q.more
      /\ s.last = IF chain[q.pos + 1].ledger > q.last
                  THEN chain[q.pos + 1].ledger ELSE q.last
  BY DEF PollState
<1>4. /\ q.cursor <= Len(chain)
      /\ \A i \in 1..q.cursor : Done(i)'
      /\ q.start <= tip + 1
      /\ DoneBelow(q.start)'
      /\ q.end <= Len(chain)
      /\ \A i \in 1..q.pos : Done(i)'
      /\ \A i \in 1..q.end : chain[i].ledger <= q.latest
      /\ q.last <= q.latest
      /\ q.latest <= tip
      /\ ~q.more => \A i \in DOMAIN chain : i > q.end =>
                            chain[i].ledger > q.latest
  BY <1>0, <1>2 DEF PollInv
<1>5. q.pos + 1 \in 1..q.end
  BY <1>1
<1>6. s.last <= q.latest
  BY <1>3, <1>4, <1>5
<1>7. \A i \in 1..(q.pos + 1) : Done(i)'
  <2> SUFFICES ASSUME NEW i \in 1..(q.pos + 1) PROVE Done(i)'
    OBVIOUS
  <2>1. i \in 1..q.pos \/ i = q.pos + 1
    BY <1>1
  <2> QED
    BY <1>4, <2>1
<1>8. s.last <= tip
  <2>1. s.last \in Nat
    BY DEF PollState
  <2> QED
    BY <1>0, <1>1, <1>4, <1>6, <2>1
<1> QED
  BY <1>0, <1>1, <1>3, <1>4, <1>5, <1>6, <1>7, <1>8 DEF PollInv

\* A step that adds ledgers, rows or publications preserves the invariant if
\* the table and the polls it leaves behind are sound.
LEMMA GrowStep ==
  ASSUME IndInv, Grows, UNCHANGED <<watermark, running>>,
         rows' \in Seq(1..Len(chain')), published' \subseteq 1..Len(chain'),
         \A i \in 1..Len(chain') : chain'[i].ledger <= tip',
         CacheIsPrefix', PublishedIsStored',
         poll' \in [Poll -> PollState], \A p \in Poll : PollInv(poll[p])'
  PROVE  IndInv'
PROOF
<1>1. TypeOK'
  BY DEF IndInv, TypeOK, Grows
<1>2. WatermarkIsClosed'
  BY DEF IndInv, TypeOK, WatermarkIsClosed, Grows
<1>3. DoneBelow(watermark + 1)'
  <2>1. /\ watermark + 1 \in Nat
        /\ watermark + 1 <= tip + 1
        /\ DoneBelow(watermark + 1)
        /\ TypeOK
    BY DEF IndInv, TypeOK, WatermarkIsClosed
  <2>2. \A l \in Nat : l <= tip + 1 /\ DoneBelow(l) => DoneBelow(l)'
    BY <2>1, DoneStable
  <2> QED
    BY <2>1, <2>2 DEF DoneBelow, Done, Billing, Stored
<1>4. (\A i \in DOMAIN chain : chain[i].ledger <= tip)'
  BY DEF Grows
<1> QED
  BY <1>1, <1>2, <1>3, <1>4 DEF IndInv

\* Polls that do not move stay sound.
LEMMA OthersInv ==
  ASSUME IndInv, Grows, NEW r \in Poll, poll'[r] = poll[r]
  PROVE  PollInv(poll[r])'
PROOF
<1>1. poll[r] \in PollState /\ PollInv(poll[r]) /\ TypeOK
  BY PollFacts DEF IndInv
<1>2. \A q \in PollState : PollInv(q) => PollInv(q)'
  BY <1>1, PollInvStable
<1> QED
  BY <1>1, <1>2 DEF PollInv, DoneBelow, Done, Billing, Stored

\* The same, of the step itself.
LEMMA EventDoneInv ==
  ASSUME IndInv, Grows, UNCHANGED <<chain, tip>>, NEW p \in Poll, EventDone(p),
         poll[p].pc \in {"page", "ingested"}, poll[p].pos < poll[p].end,
         NEW n \in Nat, n = poll[p].pos + 1, Done(n)'
  PROVE  /\ poll' \in [Poll -> PollState]
         /\ \A r \in Poll : PollInv(poll[r])'
PROOF
<1> DEFINE last == IF chain[n].ledger > poll[p].last THEN chain[n].ledger
                                                     ELSE poll[p].last
           s == [poll[p] EXCEPT !.pc = "page", !.pos = n, !.last = last]
<1>1. poll[p] \in PollState /\ PollInv(poll[p]) /\ TypeOK
  BY PollFacts DEF IndInv
<1>2. poll' = [poll EXCEPT ![p] = s]
  BY PollFacts DEF EventDone
<1>3. s \in PollState
  <2>1. /\ poll[p].pos \in Nat /\ poll[p].end \in Nat /\ poll[p].last \in Nat
    BY <1>1 DEF PollState
  <2>2. poll[p].end <= Len(chain)
    BY <1>1 DEF PollInv
  <2>3. n \in 1..Len(chain)
    BY <2>1, <2>2, PollFacts
  <2>4. last \in Nat
    BY <2>1, <2>3, PollFacts
  <2> HIDE DEF last
  <2> QED
    BY <1>1, <2>4 DEF PollState
<1>4. poll' \in [Poll -> PollState] /\ poll'[p] = s
  BY <1>2, <1>3, PollFacts
<1>5. \A q, t \in PollState :
         /\ PollInv(q)
         /\ q.pc \in {"page", "ingested"}
         /\ q.pos < q.end
         /\ n = q.pos + 1
         /\ t = [q EXCEPT !.pc = "page", !.pos = q.pos + 1,
                          !.last = IF chain[q.pos + 1].ledger > q.last
                                   THEN chain[q.pos + 1].ledger ELSE q.last]
         => PollInv(t)'
  <2> SUFFICES ASSUME NEW q \in PollState, NEW t \in PollState, PollInv(q),
                      q.pc \in {"page", "ingested"}, q.pos < q.end,
                      n = q.pos + 1,
                      t = [q EXCEPT !.pc = "page", !.pos = q.pos + 1,
                              !.last = IF chain[q.pos + 1].ledger > q.last
                                       THEN chain[q.pos + 1].ledger ELSE q.last]
               PROVE  PollInv(t)'
    OBVIOUS
  <2>1. Done(q.pos + 1)'
    BY DEF Done, Billing, Stored
  <2> QED
    BY <1>1, <2>1, AdvanceInv
<1>6. PollInv(poll[p])'
  <2>1. s = [poll[p] EXCEPT !.pc = "page", !.pos = poll[p].pos + 1,
                !.last = IF chain[poll[p].pos + 1].ledger > poll[p].last
                         THEN chain[poll[p].pos + 1].ledger ELSE poll[p].last]
    OBVIOUS
  <2>2. PICK t \in PollState : t = s
    BY <1>3
  <2>3. PollInv(t)'
    <3> HIDE DEF s
    <3> QED
      BY <1>1, <1>5, <2>1, <2>2
  <2>4. t = poll'[p]
    BY <1>4, <2>2
  <2> HIDE DEF s
  <2> QED
    BY <2>3, <2>4 DEF PollInv, DoneBelow, Done, Billing, Stored
<1>7. ASSUME NEW r \in Poll, r # p PROVE PollInv(poll[r])'
  <2>1. poll'[r] = poll[r]
    BY <1>2, <1>7, PollFacts
  <2> QED
    BY <2>1, OthersInv
<1> QED
  BY <1>4, <1>6, <1>7

\* An event of another topic.
LEMMA SkipStep ==
  ASSUME IndInv, NEW p \in Poll, SkipEvent(p)
  PROVE  IndInv'
PROOF
<1>1. UNCHANGED <<chain, tip, watermark, rows, published, running>>
  BY DEF SkipEvent, db
<1>2. Grows
  BY <1>1 DEF IndInv, TypeOK, Grows, Stored
<1>3. PICK n \in Nat : n = poll[p].pos + 1
  BY PollFacts DEF PollState
<1>4. Done(n)'
  BY <1>1, <1>3 DEF SkipEvent, Done, Billing, Stored
<1>5. /\ poll' \in [Poll -> PollState]
      /\ \A r \in Poll : PollInv(poll[r])'
  BY <1>1, <1>2, <1>3, <1>4, EventDoneInv DEF SkipEvent
<1>6. CacheIsPrefix' /\ PublishedIsStored'
  BY <1>1 DEF IndInv, CacheIsPrefix, PublishedIsStored, Billing, Stored
<1>7. /\ rows' \in Seq(1..Len(chain'))
      /\ published' \subseteq 1..Len(chain')
      /\ \A i \in 1..Len(chain') : chain'[i].ledger <= tip'
  BY <1>1 DEF IndInv, TypeOK
<1> QED
  BY <1>1, <1>2, <1>5, <1>6, <1>7, GrowStep

\* The insertion of a row.  Everything before it is there, so a row that is
\* new is also the last one.
LEMMA IngestStep ==
  ASSUME IndInv, NEW p \in Poll, IngestEvent(p)
  PROVE  IndInv'
PROOF
<1>1. /\ UNCHANGED <<chain, tip, watermark, published, running>>
      /\ poll[p].pc = "page" /\ poll[p].pos < poll[p].end
      /\ poll' = [poll EXCEPT ![p].pc = "ingested"]
  BY DEF IngestEvent
<1>2. poll[p] \in PollState /\ PollInv(poll[p]) /\ TypeOK
  BY PollFacts DEF IndInv
<1>3. /\ poll[p].pos \in Nat /\ poll[p].end \in Nat
      /\ poll[p].end <= Len(chain)
      /\ \A i \in 1..poll[p].pos : Done(i)
  BY <1>1, <1>2 DEF PollState, PollInv
<1>4. PICK n \in 1..Len(chain) : n = poll[p].pos + 1
  BY <1>1, <1>3, PollFacts
<1>5. Ingest(n) /\ chain[n].kind = "meter"
  BY <1>4 DEF IngestEvent
<1>6. /\ rows' \in Seq(1..Len(chain))
      /\ \A j : Stored(j)' <=> Stored(j) \/ j = n
  BY <1>2, <1>5, IngestStores DEF Stored
<1>7. Grows
  BY <1>1, <1>2, <1>6 DEF Grows, TypeOK
<1>8. \A i \in 1..n : Billing(i) => Stored(i)'
  <2> SUFFICES ASSUME NEW i \in 1..n, Billing(i) PROVE Stored(i)'
    OBVIOUS
  <2>1. i \in 1..poll[p].pos \/ i = n
    BY <1>3, <1>4
  <2> QED
    BY <1>3, <1>6, <2>1 DEF Done
<1>9. CacheIsPrefix'
  <2>1. CASE Stored(n)
    <3>1. UNCHANGED <<chain, rows>>
      BY <1>1, <1>5, <2>1 DEF Ingest
    <3> QED
      BY <3>1 DEF IndInv, CacheIsPrefix, Billing, Stored
  <2>2. CASE ~Stored(n)
    <3>1. rows' = Append(rows, n) /\ rows \in Seq(1..Len(chain))
      BY <1>2, <1>5, <2>2 DEF Ingest, TypeOK
    <3>2. /\ Len(rows) \in Nat
          /\ DOMAIN rows = 1..Len(rows)
          /\ DOMAIN rows' = 1..(Len(rows) + 1)
          /\ \A k \in 1..Len(rows) : rows'[k] = rows[k] /\ rows[k] \in Nat
          /\ rows'[Len(rows) + 1] = n
      BY <3>1
    <3>3. /\ \A k, m \in 1..Len(rows) : k < m => rows[k] < rows[m]
          /\ \A k \in 1..Len(rows) : \A i \in 1..rows[k] :
                                          Billing(i) => Stored(i)
      BY <3>2 DEF IndInv, CacheIsPrefix
    <3>4. \A k \in 1..Len(rows) : rows[k] < n
      <4> SUFFICES ASSUME NEW k \in 1..Len(rows), ~(rows[k] < n) PROVE FALSE
        OBVIOUS
      <4>1. n \in 1..rows[k]
        BY <3>2, <1>4
      <4>2. Billing(n)
        BY <1>5 DEF Billing
      <4> QED
        BY <2>2, <3>3, <4>1, <4>2
    <3>5. \A k, m \in DOMAIN rows' : k < m => rows'[k] < rows'[m]
      BY <3>2, <3>3, <3>4
    <3>6. ASSUME NEW k \in DOMAIN rows', NEW i \in 1..rows'[k], Billing(i)
          PROVE  Stored(i)'
      <4>1. CASE k \in 1..Len(rows)
        BY <1>6, <3>2, <3>3, <3>6, <4>1
      <4>2. CASE k = Len(rows) + 1
        BY <1>8, <3>2, <3>6, <4>2
      <4> QED
        BY <3>2, <4>1, <4>2
    <3> QED
      BY <1>1, <3>5, <3>6 DEF CacheIsPrefix, Billing
  <2> QED
    BY <2>1, <2>2
<1>10. PublishedIsStored'
  BY <1>1, <1>6 DEF IndInv, PublishedIsStored
<1>11. poll' \in [Poll -> PollState]
  <2>1. [poll[p] EXCEPT !.pc = "ingested"] \in PollState
    BY <1>2 DEF PollState
  <2> QED
    BY <1>1, <2>1, PollFacts
<1>12. ASSUME NEW r \in Poll PROVE PollInv(poll[r])'
  <2>1. CASE r # p
    <3>1. poll'[r] = poll[r]
      BY <1>1, <2>1, PollFacts
    <3> QED
      BY <1>7, <3>1, OthersInv
  <2>2. CASE r = p
    <3>1. PICK q \in PollState : q = poll[p]
      BY <1>2
    <3>2. PollInv(q)'
      BY <1>2, <1>7, <3>1, PollInvStable
    <3>3. PICK t \in PollState : t = poll'[p]
      BY <1>11
    <3>4. t = [q EXCEPT !.pc = "ingested"]
      BY <1>1, <3>1, <3>3, PollFacts
    <3>5. /\ t.pc = "ingested" /\ t.pos = q.pos /\ t.end = q.end /\ t.last = q.last
          /\ t.cursor = q.cursor /\ t.start = q.start /\ t.latest = q.latest
          /\ t.more = q.more
      BY <3>4 DEF PollState
    <3>6. t.pos < t.end /\ Stored(t.pos + 1)'
      BY <1>1, <1>4, <1>6, <3>1, <3>5 DEF Stored
    <3>7. PollInv(t)'
      BY <1>1, <3>1, <3>2, <3>5, <3>6 DEF PollInv
    <3> QED
      BY <2>2, <3>3, <3>7 DEF PollInv, DoneBelow, Done, Billing, Stored
  <2> QED
    BY <2>1, <2>2
<1>13. /\ published' \subseteq 1..Len(chain')
       /\ rows' \in Seq(1..Len(chain'))
       /\ \A i \in 1..Len(chain') : chain'[i].ledger <= tip'
  BY <1>1, <1>6 DEF IndInv, TypeOK
<1> QED
  BY <1>1, <1>7, <1>9, <1>10, <1>11, <1>12, <1>13, GrowStep

\* The hand-over of a stored event to the telemetry bus.
LEMMA PublishStep ==
  ASSUME IndInv, NEW p \in Poll, PublishEvent(p)
  PROVE  IndInv'
PROOF
<1>1. /\ UNCHANGED <<chain, tip, watermark, rows, running>>
      /\ poll[p].pc = "ingested"
      /\ published' = published \cup {poll[p].pos + 1}
      /\ EventDone(p)
  BY DEF PublishEvent, db
<1>2. poll[p] \in PollState /\ PollInv(poll[p])
  BY PollFacts
<1>3. /\ poll[p].pos \in Nat /\ poll[p].end \in Nat
      /\ poll[p].end <= Len(chain)
      /\ poll[p].pos < poll[p].end /\ Stored(poll[p].pos + 1)
  BY <1>1, <1>2 DEF PollState, PollInv
<1>4. PICK n \in 1..Len(chain) : n = poll[p].pos + 1
  BY <1>3, PollFacts
<1>5. Grows
  BY <1>1 DEF IndInv, TypeOK, Grows, Stored
<1>6. Stored(n) /\ Done(n)'
  BY <1>1, <1>3, <1>4 DEF Done, Stored
<1>7. /\ poll' \in [Poll -> PollState]
      /\ \A r \in Poll : PollInv(poll[r])'
  <2>1. UNCHANGED <<chain, tip>> /\ n \in Nat
    BY <1>1
  <2> QED
    BY <1>1, <1>3, <1>4, <1>5, <1>6, <2>1, EventDoneInv
<1>8. CacheIsPrefix'
  BY <1>1 DEF IndInv, CacheIsPrefix, Billing, Stored
<1>9. PublishedIsStored'
  BY <1>1, <1>4, <1>6 DEF IndInv, PublishedIsStored, Stored
<1>10. /\ rows' \in Seq(1..Len(chain'))
       /\ published' \subseteq 1..Len(chain')
       /\ \A i \in 1..Len(chain') : chain'[i].ledger <= tip'
  <2>1. /\ rows \in Seq(1..Len(chain))
        /\ published \subseteq 1..Len(chain)
        /\ chain' = chain /\ tip' = tip /\ rows' = rows
    BY <1>1 DEF IndInv, TypeOK
  <2>2. published' \subseteq 1..Len(chain)
    BY <1>1, <1>4, <2>1
  <2> QED
    BY <2>1, <2>2, PollFacts
<1> QED
  BY <1>1, <1>5, <1>7, <1>8, <1>9, <1>10, GrowStep

\* A new ledger.
LEMMA CloseStep ==
  ASSUME IndInv, NEW batch \in Batch, CloseLedger(batch)
  PROVE  IndInv'
PROOF
<1>1. /\ UNCHANGED <<watermark, rows, published, running, poll>>
      /\ tip' = tip + 1
      /\ TypeOK
  BY DEF CloseLedger, IndInv
<1>2. Grows
  BY <1>1, ChainGrows DEF Grows, TypeOK, Stored
<1>3. Len(chain) \in Nat /\ Len(chain') \in Nat /\ Len(chain) <= Len(chain')
  BY <1>1, <1>2 DEF Grows, TypeOK
<1>4. rows' \in Seq(1..Len(chain')) /\ published' \subseteq 1..Len(chain')
  <2>1. 1..Len(chain) \subseteq 1..Len(chain')
    BY <1>3
  <2>2. rows \in Seq(1..Len(chain)) /\ published \subseteq 1..Len(chain)
    BY <1>1 DEF TypeOK
  <2> QED
    BY <1>1, <2>1, <2>2
<1>5. \A i \in 1..Len(chain') : chain'[i].ledger <= tip'
  <2> SUFFICES ASSUME NEW i \in 1..Len(chain') PROVE chain'[i].ledger <= tip'
    OBVIOUS
  <2>1. CASE i > Len(chain)
    BY <1>1, <1>2, <2>1 DEF Grows, TypeOK
  <2>2. CASE i <= Len(chain)
    <3>1. i \in 1..Len(chain) /\ chain'[i] = chain[i]
      BY <1>2, <1>3, <2>2 DEF Grows
    <3>2. chain[i] \in Event /\ chain[i].ledger <= tip
      BY <1>1, <3>1 DEF IndInv, TypeOK
    <3> QED
      BY <1>1, <3>1, <3>2 DEF Event, TypeOK
  <2> QED
    BY <1>3, <2>1, <2>2
<1>6. CacheIsPrefix'
  <2>1. /\ \A k \in DOMAIN rows : rows[k] \in 1..Len(chain)
        /\ rows' = rows
    BY <1>1 DEF TypeOK
  <2>2. \A i \in 1..Len(chain) : Billing(i)' <=> Billing(i)
    BY <1>2 DEF Grows, Billing
  <2>3. \A k \in DOMAIN rows : \A i \in 1..rows[k] :
           i \in 1..Len(chain) /\ (Billing(i) => Stored(i))
    BY <1>3, <2>1 DEF IndInv, CacheIsPrefix
  <2>4. \A k \in DOMAIN rows' : \A i \in 1..rows'[k] :
           Billing(i)' => Stored(i)'
    BY <2>1, <2>2, <2>3 DEF Stored
  <2> QED
    BY <2>1, <2>4 DEF IndInv, CacheIsPrefix
<1>7. PublishedIsStored'
  BY <1>1 DEF IndInv, PublishedIsStored, Stored
<1>8. ASSUME NEW r \in Poll PROVE PollInv(poll[r])'
  BY <1>1, <1>2, OthersInv
<1>9. poll' \in [Poll -> PollState]
  BY <1>1 DEF TypeOK
<1> QED
  BY <1>1, <1>2, <1>4, <1>5, <1>6, <1>7, <1>8, <1>9, GrowStep

----------------------------------------------------------------------------

\* The invariant holds before the first poll.
LEMMA InitInd == Init => IndInv
PROOF
<1> SUFFICES ASSUME Init PROVE IndInv
  OBVIOUS
<1>0. Idle \in PollState
  BY DEF Idle, PollState
<1>1. TypeOK
  <2>1. /\ chain = << >> /\ rows = << >> /\ published = {} /\ running = FALSE
        /\ tip = 0 /\ watermark = 0 /\ poll = [p \in Poll |-> Idle]
    BY DEF Init
  <2>2. chain \in Seq(Event) /\ rows \in Seq(1..Len(chain))
    BY <2>1
  <2> QED
    BY <1>0, <2>1, <2>2 DEF TypeOK
<1>2. \A p \in Poll : PollInv(poll[p])
  <2>1. /\ chain = << >> /\ tip = 0
        /\ \A p \in Poll : poll[p] = Idle
    BY DEF Init
  <2>2. /\ Idle.pc = "idle" /\ Idle.cursor = 0 /\ Idle.last = 0
    BY DEF Idle
  <2>3. PollInv(Idle)
    BY <2>1, <2>2 DEF PollInv
  <2> QED
    BY <2>1, <2>3
<1> QED
  BY <1>1, <1>2 DEF Init, IndInv, DoneBelow, WatermarkIsClosed, CacheIsPrefix,
                    PublishedIsStored

\* Every step preserves it, provided the RPC client reports cursors.
LEMMA NextInd ==
  ASSUME HasCursor, IndInv, [Next]_vars
  PROVE  IndInv'
PROOF
<1>1. CASE UNCHANGED vars
  <2>1. UNCHANGED <<chain, tip, watermark, rows, published, running, poll>>
    BY <1>1 DEF vars
  <2> QED
    BY <2>1 DEF IndInv, TypeOK, DoneBelow, Done, WatermarkIsClosed,
                CacheIsPrefix, PublishedIsStored, PollInv, Billing, Stored
<1>2. ASSUME NEW batch \in Batch, CloseLedger(batch) PROVE IndInv'
  BY <1>2, CloseStep
<1>3. ASSUME NEW p \in Poll, PollStep(p) PROVE IndInv'
  BY <1>3, ReadStep, FetchStep, SkipStep, IngestStep, PublishStep,
     NextPageStep, ReadMarkStep, SetMarkStep DEF PollStep
<1> QED
  BY <1>1, <1>2, <1>3, ControlStep DEF Next, Progress

\* The invariant holds throughout.
LEMMA AlwaysInd ==
  ASSUME HasCursor
  PROVE  Spec => []IndInv
PROOF
<1>1. IndInv /\ [Next]_vars => IndInv'
  BY NextInd
<1> QED
  BY <1>1, InitInd, PTL DEF Spec

----------------------------------------------------------------------------
(* What holds with and without a cursor.                                   *)

\* The facts about one poll that the steps below start from.
LEMMA RoomFacts ==
  ASSUME SafeInv, NEW p \in Poll
  PROVE  /\ poll[p] \in PollState
         /\ RoomInv(poll[p])
         /\ poll \in [Poll -> PollState]
         /\ Len(chain) \in Nat
         /\ DOMAIN chain = 1..Len(chain)
         /\ rows \in Seq(1..Len(chain))
         /\ published \subseteq 1..Len(chain)
         /\ tip \in Nat
         /\ watermark \in Nat /\ watermark <= tip
         /\ running \in BOOLEAN
         /\ \A i \in 1..Len(chain) : chain[i].ledger \in Nat
                                     /\ chain[i].ledger <= tip
PROOF
<1>1. /\ poll \in [Poll -> PollState] /\ RoomInv(poll[p])
      /\ chain \in Seq(Event)
      /\ rows \in Seq(1..Len(chain)) /\ published \subseteq 1..Len(chain)
      /\ tip \in Nat /\ running \in BOOLEAN
      /\ watermark \in Nat /\ watermark <= tip
      /\ \A i \in DOMAIN chain : chain[i].ledger <= tip
  BY DEF SafeInv, TypeOK, WatermarkIsClosed
<1>2. Len(chain) \in Nat /\ DOMAIN chain = 1..Len(chain)
  BY <1>1
<1>3. \A i \in 1..Len(chain) : chain[i] \in Event
  BY <1>1
<1>4. \A i \in 1..Len(chain) : chain[i].ledger \in Nat
  BY <1>3 DEF Event
<1> QED
  BY <1>1, <1>2, <1>4

\* A poll's own step, whatever it does to the tables.
LEMMA RoomPoll ==
  ASSUME SafeInv, NEW p \in Poll, NEW q \in PollState, RoomInv(q)',
         poll' = [poll EXCEPT ![p] = q],
         UNCHANGED <<chain, tip, running>>,
         watermark' \in Nat, watermark' <= tip,
         rows' \in Seq(1..Len(chain)), published' \subseteq 1..Len(chain),
         \A j : Stored(j) => Stored(j)',
         PublishedIsStored', StoredOnce'
  PROVE  SafeInv'
PROOF
<1>1. poll' \in [Poll -> PollState] /\ poll'[p] = q
      /\ \A r \in Poll : r # p => poll'[r] = poll[r]
  BY RoomFacts
<1>2. TypeOK'
  BY <1>1 DEF SafeInv, TypeOK
<1>3. (\A i \in DOMAIN chain : chain[i].ledger <= tip)' /\ WatermarkIsClosed'
  BY DEF SafeInv, WatermarkIsClosed
<1>4. ASSUME NEW r \in Poll PROVE RoomInv(poll[r])'
  <2>1. CASE r = p
    BY <1>1, <2>1 DEF RoomInv, Stored
  <2>2. CASE r # p
    <3>1. RoomInv(poll[r]) /\ poll'[r] = poll[r]
      BY <1>1, <2>2 DEF SafeInv
    <3> QED
      BY <3>1 DEF RoomInv
  <2> QED
    BY <2>1, <2>2
<1> QED
  BY <1>2, <1>3, <1>4 DEF SafeInv

\* One that leaves the tables alone.
LEMMA RoomQuiet ==
  ASSUME SafeInv, NEW p \in Poll, NEW q \in PollState, RoomInv(q),
         poll' = [poll EXCEPT ![p] = q],
         UNCHANGED <<chain, tip, running, watermark, rows, published>>
  PROVE  SafeInv'
PROOF
<1>1. PublishedIsStored' /\ StoredOnce' /\ RoomInv(q)'
      /\ \A j : Stored(j) => Stored(j)'
  BY DEF SafeInv, PublishedIsStored, StoredOnce, RoomInv, Stored
<1> QED
  BY <1>1, RoomFacts, RoomPoll

\* A poll that is over knows nothing.
LEMMA RoomIdle ==
  ASSUME SafeInv
  PROVE  Idle \in PollState /\ RoomInv(Idle)
BY DEF SafeInv, TypeOK, Idle, PollState, RoomInv

\* start(), stop(), a timer tick, a failed call and the death of the process.
LEMMA SafeControl ==
  ASSUME SafeInv,
         Start \/ Stop \/ Crash \/ (\E p \in Poll : Tick(p) \/ PollFails(p))
  PROVE  SafeInv'
PROOF
<1>1. UNCHANGED <<chain, tip, watermark, rows, published>> /\ running' \in BOOLEAN
  BY DEF SafeInv, TypeOK, Start, Stop, Crash, Tick, PollFails, db
<1>2. ASSUME NEW p \in Poll, poll' = [poll EXCEPT ![p].pc = "getStart"]
      PROVE  /\ poll' \in [Poll -> PollState]
             /\ \A r \in Poll : RoomInv(poll'[r])
  <2>1. PICK q : q = [poll[p] EXCEPT !.pc = "getStart"]
    OBVIOUS
  <2>2. q \in PollState /\ q.pc = "getStart" /\ q.last = poll[p].last
    BY <2>1, RoomFacts DEF PollState
  <2>3. RoomInv(q)
    BY <2>2, RoomFacts DEF RoomInv
  <2>4. poll' = [poll EXCEPT ![p] = q] /\ poll \in [Poll -> PollState]
    BY <1>2, <2>1, RoomFacts
  <2> QED
    BY <2>2, <2>3, <2>4 DEF SafeInv
<1>3. /\ poll' \in [Poll -> PollState]
      /\ \A r \in Poll : RoomInv(poll'[r])
  <2>1. CASE Start
    BY <1>2, <2>1 DEF Start
  <2>2. CASE Stop
    BY <2>2 DEF Stop, SafeInv, TypeOK
  <2>3. CASE Crash
    BY <2>3, RoomIdle DEF Crash
  <2>4. CASE \E p \in Poll : Tick(p)
    BY <1>2, <2>4 DEF Tick
  <2>5. CASE \E p \in Poll : PollFails(p)
    BY <2>5, RoomIdle DEF PollFails, SafeInv, TypeOK
  <2> QED
    BY <2>1, <2>2, <2>3, <2>4, <2>5
<1>4. TypeOK'
  BY <1>1, <1>3 DEF SafeInv, TypeOK
<1>5. (\A r \in Poll : RoomInv(poll[r]))'
  BY <1>1, <1>3 DEF RoomInv, Stored
<1> QED
  BY <1>1, <1>4, <1>5
  DEF SafeInv, WatermarkIsClosed, PublishedIsStored, StoredOnce, Stored

\* The reads of a poll, and its write of the watermark.
LEMMA SafeReads ==
  ASSUME SafeInv, NEW p \in Poll,
         ReadStart(p) \/ ReadLast(p) \/ FetchPage(p) \/ NextPage(p)
            \/ ReadMark(p) \/ SetMark(p)
  PROVE  SafeInv'
PROOF
<1>1. CASE ReadStart(p)
  <2>0. poll[p] \in PollState /\ watermark + 1 \in Nat
    BY RoomFacts
  <2>1. PICK q : q = [poll[p] EXCEPT !.pc = "getLast", !.start = watermark + 1]
    OBVIOUS
  <2>2. q \in PollState /\ q.pc = "getLast" /\ q.last = poll[p].last
    BY <2>0, <2>1 DEF PollState
  <2>3. poll' = [poll EXCEPT ![p] = q]
    BY <1>1, <2>1, RoomFacts DEF ReadStart
  <2>4. RoomInv(q)
    BY <2>2, RoomFacts DEF RoomInv
  <2> QED
    BY <1>1, <2>2, <2>3, <2>4, RoomQuiet DEF ReadStart, db
<1>2. CASE ReadLast(p)
  <2>1. PICK q : q = [poll[p] EXCEPT !.pc = "getEvents", !.last = watermark]
    OBVIOUS
  <2>2. q \in PollState /\ q.pc = "getEvents" /\ q.last = watermark
    BY <2>1, RoomFacts DEF PollState
  <2>3. poll' = [poll EXCEPT ![p] = q]
    BY <1>2, <2>1, RoomFacts DEF ReadLast
  <2>4. RoomInv(q)
    BY <2>2, RoomFacts DEF RoomInv
  <2> QED
    BY <1>2, <2>2, <2>3, <2>4, RoomQuiet DEF ReadLast, db
<1>3. CASE FetchPage(p)
  <2>1. PICK n \in 0..Len(chain) :
           poll' = [poll EXCEPT
                      ![p].pc = "page", ![p].pos = n, ![p].end = PageEnd(n),
                      ![p].more = HasCursor /\ PageEnd(n) = n + PAGE_LIMIT,
                      ![p].latest = tip]
    BY <1>3 DEF FetchPage
  <2>2. n \in Nat /\ PageEnd(n) \in Nat /\ n <= PageEnd(n) /\ PageEnd(n) <= Len(chain)
    BY RoomFacts, IndexerAssumption DEF PageEnd
  <2>3. PICK more \in BOOLEAN : more = (HasCursor /\ PageEnd(n) = n + PAGE_LIMIT)
    BY IndexerAssumption
  <2>4. PICK q : q = [poll[p] EXCEPT !.pc = "page", !.pos = n, !.end = PageEnd(n),
                                     !.more = more, !.latest = tip]
    OBVIOUS
  <2>5. /\ q \in PollState /\ q.pc = "page" /\ q.pos = n /\ q.end = PageEnd(n)
        /\ q.latest = tip /\ q.last = poll[p].last
    BY <2>2, <2>4, RoomFacts DEF PollState
  <2>6. poll' = [poll EXCEPT ![p] = q]
    BY <2>1, <2>3, <2>4, RoomFacts
  <2>7. RoomInv(q)
    BY <2>2, <2>5, RoomFacts DEF RoomInv
  <2> QED
    BY <1>3, <2>5, <2>6, <2>7, RoomQuiet DEF FetchPage, db
<1>4. CASE NextPage(p)
  <2>1. PICK q : q = [poll[p] EXCEPT !.pc = "getEvents", !.cursor = poll[p].end]
    OBVIOUS
  <2>2. q \in PollState /\ q.pc = "getEvents" /\ q.last = poll[p].last
    BY <2>1, RoomFacts DEF PollState
  <2>3. poll' = [poll EXCEPT ![p] = q]
    BY <1>4, <2>1, RoomFacts DEF NextPage
  <2>4. RoomInv(q)
    BY <2>2, RoomFacts DEF RoomInv
  <2> QED
    BY <1>4, <2>2, <2>3, <2>4, RoomQuiet DEF NextPage, db
<1>5. CASE ReadMark(p)
  <2>1. PICK new : new = NewWatermark(p, watermark)
    OBVIOUS
  <2>2. new \in Nat /\ new <= tip
    BY <1>5, <2>1, RoomFacts DEF ReadMark, NewWatermark, RoomInv, PollState
  <2>3. PICK s : s = [poll[p] EXCEPT !.pc = "setMark", !.mark = new]
    OBVIOUS
  <2>4. s \in PollState /\ s.pc = "setMark" /\ s.last = poll[p].last /\ s.mark = new
    BY <2>2, <2>3, RoomFacts DEF PollState
  <2>5. RoomInv(s)
    BY <2>2, <2>4, RoomFacts DEF RoomInv
  <2>6. poll' = [poll EXCEPT ![p] = IF new > watermark THEN s ELSE Idle]
    BY <1>5, <2>1, <2>3 DEF ReadMark
  <2>7. PICK q : q = IF new > watermark THEN s ELSE Idle
    OBVIOUS
  <2>8. q \in PollState /\ RoomInv(q)
    BY <2>4, <2>5, <2>7, RoomIdle
  <2> QED
    BY <1>5, <2>6, <2>7, <2>8, RoomQuiet DEF ReadMark, db
<1>6. CASE SetMark(p)
  <2>1. /\ watermark' = poll[p].mark
        /\ poll' = [poll EXCEPT ![p] = Idle]
        /\ UNCHANGED <<chain, tip, rows, published, running>>
    BY <1>6 DEF SetMark
  <2>2. watermark' \in Nat /\ watermark' <= tip
    BY <1>6, <2>1, RoomFacts DEF SetMark, RoomInv, PollState
  <2>3. /\ PublishedIsStored' /\ StoredOnce' /\ \A j : Stored(j) => Stored(j)'
        /\ rows' \in Seq(1..Len(chain)) /\ published' \subseteq 1..Len(chain)
    BY <2>1, RoomFacts DEF SafeInv, PublishedIsStored, StoredOnce, Stored
  <2>4. PICK q : q = Idle
    OBVIOUS
  <2>5. q \in PollState /\ RoomInv(q)
    BY <2>4, RoomIdle
  <2>6. RoomInv(q)'
    BY <2>1, <2>5 DEF RoomInv, Stored
  <2> QED
    BY <2>1, <2>2, <2>3, <2>4, <2>5, <2>6, RoomPoll
<1> QED
  BY <1>1, <1>2, <1>3, <1>4, <1>5, <1>6

\* An event is done with.
LEMMA RoomAdvance ==
  ASSUME SafeInv, NEW p \in Poll, EventDone(p), UNCHANGED <<chain, tip>>,
         poll[p].pc \in {"page", "ingested"}, poll[p].pos < poll[p].end
  PROVE  \E q \in PollState : RoomInv(q)' /\ poll' = [poll EXCEPT ![p] = q]
PROOF
<1>1. /\ poll[p] \in PollState /\ poll[p].pos \in Nat /\ poll[p].end \in Nat
      /\ poll[p].last \in Nat /\ poll[p].last <= tip
      /\ poll[p].end <= Len(chain) /\ poll[p].latest <= tip
  BY RoomFacts DEF RoomInv, PollState
<1>2. PICK n : n = poll[p].pos + 1
  OBVIOUS
<1>3. n \in 1..Len(chain) /\ n \in Nat /\ n <= poll[p].end
  BY <1>1, <1>2, RoomFacts
<1>4. PICK last : last = IF chain[n].ledger > poll[p].last THEN chain[n].ledger
                                                         ELSE poll[p].last
  OBVIOUS
<1>5. last \in Nat /\ last <= tip
  BY <1>1, <1>3, <1>4, RoomFacts
<1>6. PICK q : q = [poll[p] EXCEPT !.pc = "page", !.pos = n, !.last = last]
  OBVIOUS
<1>7. /\ q \in PollState /\ q.pc = "page" /\ q.pos = n /\ q.last = last
      /\ q.end = poll[p].end /\ q.latest = poll[p].latest
  BY <1>1, <1>3, <1>5, <1>6 DEF PollState
<1>8. poll' = [poll EXCEPT ![p] = q]
  BY <1>2, <1>4, <1>6, RoomFacts DEF EventDone
<1>9. RoomInv(q)'
  BY <1>1, <1>3, <1>5, <1>7 DEF RoomInv
<1> QED
  BY <1>7, <1>8, <1>9

\* The steps for one event.
LEMMA SafeEvents ==
  ASSUME SafeInv, NEW p \in Poll,
         SkipEvent(p) \/ IngestEvent(p) \/ PublishEvent(p)
  PROVE  SafeInv'
PROOF
<1>1. CASE SkipEvent(p)
  <2>1. /\ UNCHANGED <<chain, tip, watermark, rows, published, running>>
        /\ EventDone(p)
        /\ poll[p].pc \in {"page", "ingested"} /\ poll[p].pos < poll[p].end
    BY <1>1 DEF SkipEvent, db
  <2>2. PICK q \in PollState : RoomInv(q)' /\ poll' = [poll EXCEPT ![p] = q]
    BY <2>1, RoomAdvance
  <2>3. RoomInv(q)
    BY <2>1, <2>2 DEF RoomInv, Stored
  <2> QED
    BY <2>1, <2>2, <2>3, RoomQuiet
<1>2. CASE IngestEvent(p)
  <2>1. /\ UNCHANGED <<chain, tip, watermark, published, running>>
        /\ poll[p].pc = "page" /\ poll[p].pos < poll[p].end
        /\ Ingest(poll[p].pos + 1)
        /\ poll' = [poll EXCEPT ![p].pc = "ingested"]
    BY <1>2 DEF IngestEvent
  <2>2. /\ poll[p] \in PollState /\ poll[p].pos \in Nat /\ poll[p].end \in Nat
        /\ poll[p].end <= Len(chain)
    BY <2>1, RoomFacts DEF RoomInv, PollState
  <2>3. PICK n \in 1..Len(chain) : n = poll[p].pos + 1
    BY <2>1, <2>2, RoomFacts
  <2>4. /\ rows' \in Seq(1..Len(chain))
        /\ \A j : Stored(j)' <=> Stored(j) \/ j = n
    BY <2>1, <2>3, IngestStores DEF SafeInv, Stored
  <2>5. PublishedIsStored'
    BY <2>1, <2>4 DEF SafeInv, PublishedIsStored
  <2>6. StoredOnce'
    <3>1. CASE Stored(n)
      BY <2>1, <2>3, <3>1 DEF Ingest, SafeInv, StoredOnce
    <3>2. CASE ~Stored(n)
      <4>1. rows' = Append(rows, n) /\ rows \in Seq(1..Len(chain))
        BY <2>1, <2>3, <3>2, RoomFacts DEF Ingest
      <4>2. /\ Len(rows) \in Nat /\ DOMAIN rows = 1..Len(rows)
            /\ DOMAIN rows' = 1..(Len(rows) + 1)
            /\ \A k \in 1..Len(rows) : rows'[k] = rows[k]
            /\ rows'[Len(rows) + 1] = n
        BY <4>1
      <4>3. \A k \in 1..Len(rows) : rows[k] # n
        BY <3>2, <4>2 DEF Stored
      <4>4. \A k, m \in 1..Len(rows) : rows[k] = rows[m] => k = m
        BY <4>2 DEF SafeInv, StoredOnce
      <4>5. \A k \in DOMAIN rows' : k \in 1..Len(rows) \/ k = Len(rows) + 1
        BY <4>2
      <4> QED
        BY <4>2, <4>3, <4>4, <4>5 DEF StoredOnce
    <3> QED
      BY <3>1, <3>2
  <2>7. PICK q : q = [poll[p] EXCEPT !.pc = "ingested"]
    OBVIOUS
  <2>8. /\ q \in PollState /\ q.pc = "ingested" /\ q.last = poll[p].last
        /\ q.pos = poll[p].pos /\ q.end = poll[p].end /\ q.latest = poll[p].latest
    BY <2>2, <2>7 DEF PollState
  <2>9. poll' = [poll EXCEPT ![p] = q]
    BY <2>1, <2>7, RoomFacts
  <2>10. Stored(q.pos + 1)'
    BY <2>3, <2>4, <2>8
  <2>11. RoomInv(q)'
    BY <2>1, <2>2, <2>8, <2>10, RoomFacts DEF RoomInv
  <2> QED
    BY <2>1, <2>4, <2>5, <2>6, <2>8, <2>9, <2>11, RoomFacts, RoomPoll
<1>3. CASE PublishEvent(p)
  <2>1. /\ UNCHANGED <<chain, tip, watermark, rows, running>>
        /\ poll[p].pc = "ingested"
        /\ published' = published \cup {poll[p].pos + 1}
        /\ EventDone(p)
    BY <1>3 DEF PublishEvent, db
  <2>2. /\ poll[p].pos \in Nat /\ poll[p].end \in Nat
        /\ poll[p].end <= Len(chain)
        /\ poll[p].pos < poll[p].end /\ Stored(poll[p].pos + 1)
    BY <2>1, RoomFacts DEF PollState, RoomInv
  <2>3. PICK n \in 1..Len(chain) : n = poll[p].pos + 1
    BY <2>2, RoomFacts
  <2>4. published' \subseteq 1..Len(chain)
    BY <2>1, <2>3, RoomFacts
  <2>5. /\ PublishedIsStored' /\ StoredOnce' /\ \A j : Stored(j) => Stored(j)'
        /\ rows' \in Seq(1..Len(chain))
    BY <2>1, <2>2, RoomFacts DEF SafeInv, PublishedIsStored, StoredOnce, Stored
  <2>6. PICK q \in PollState : RoomInv(q)' /\ poll' = [poll EXCEPT ![p] = q]
    BY <2>1, <2>2, RoomAdvance
  <2> QED
    BY <2>1, <2>4, <2>5, <2>6, RoomFacts, RoomPoll
<1> QED
  BY <1>1, <1>2, <1>3

\* A new ledger.
LEMMA SafeClose ==
  ASSUME SafeInv, NEW batch \in Batch, CloseLedger(batch)
  PROVE  SafeInv'
PROOF
<1>1. /\ UNCHANGED <<watermark, rows, published, running, poll>>
      /\ tip' = tip + 1 /\ TypeOK
  BY DEF CloseLedger, SafeInv
<1>2. /\ chain' \in Seq(Event) /\ Len(chain') >= Len(chain)
      /\ \A i \in 1..Len(chain) : chain'[i] = chain[i]
      /\ \A i \in 1..Len(chain') : i > Len(chain) => chain'[i].ledger = tip + 1
  BY <1>1, ChainGrows
<1>3. Len(chain) \in Nat /\ Len(chain') \in Nat /\ DOMAIN chain' = 1..Len(chain')
      /\ DOMAIN chain = 1..Len(chain) /\ tip \in Nat
  BY <1>1, <1>2 DEF TypeOK
<1>4. rows' \in Seq(1..Len(chain')) /\ published' \subseteq 1..Len(chain')
  <2>1. 1..Len(chain) \subseteq 1..Len(chain')
    BY <1>2, <1>3
  <2>2. rows \in Seq(1..Len(chain)) /\ published \subseteq 1..Len(chain)
    BY <1>1 DEF TypeOK
  <2> QED
    BY <1>1, <2>1, <2>2
<1>5. \A i \in 1..Len(chain) : chain[i].ledger \in Nat /\ chain[i].ledger <= tip
  <2>1. \A i \in 1..Len(chain) : chain[i] \in Event
    BY <1>1 DEF TypeOK
  <2> QED
    BY <1>3, <2>1 DEF SafeInv, Event
<1>6. \A i \in 1..Len(chain') : chain'[i].ledger <= tip'
  BY <1>1, <1>2, <1>3, <1>5
<1>7. TypeOK'
  BY <1>1, <1>2, <1>3, <1>4 DEF TypeOK
<1>8. ASSUME NEW r \in Poll PROVE RoomInv(poll[r])'
  <2>1. poll[r] \in PollState /\ RoomInv(poll[r]) /\ poll' = poll
    BY <1>1 DEF SafeInv, TypeOK
  <2>2. \A j : Stored(j) => Stored(j)'
    BY <1>1 DEF Stored
  <2> QED
    BY <1>1, <1>2, <1>3, <2>1, <2>2 DEF RoomInv, PollState
<1>9. WatermarkIsClosed' /\ PublishedIsStored' /\ StoredOnce'
  BY <1>1, <1>3
  DEF SafeInv, TypeOK, WatermarkIsClosed, PublishedIsStored, StoredOnce, Stored
<1> QED
  BY <1>3, <1>6, <1>7, <1>8, <1>9 DEF SafeInv

\* The invariant holds throughout, with and without a cursor.
LEMMA AlwaysSafe == Spec => []SafeInv
PROOF
<1>1. Init => SafeInv
  <2> SUFFICES ASSUME Init PROVE SafeInv
    OBVIOUS
  <2>1. IndInv /\ poll = [p \in Poll |-> Idle] /\ rows = << >> /\ tip = 0
    BY InitInd DEF Init
  <2>2. StoredOnce /\ \A p \in Poll : RoomInv(poll[p])
    BY <2>1 DEF StoredOnce, RoomInv, Idle
  <2> QED
    BY <2>1, <2>2 DEF IndInv, SafeInv
<1>2. SafeInv /\ [Next]_vars => SafeInv'
  <2> SUFFICES ASSUME SafeInv, [Next]_vars PROVE SafeInv'
    OBVIOUS
  <2>1. CASE UNCHANGED vars
    BY <2>1 DEF vars, SafeInv, TypeOK, WatermarkIsClosed, PublishedIsStored,
                StoredOnce, RoomInv, Stored
  <2>2. ASSUME NEW batch \in Batch, CloseLedger(batch) PROVE SafeInv'
    BY <2>2, SafeClose
  <2>3. ASSUME NEW p \in Poll, PollStep(p) PROVE SafeInv'
    BY <2>3, SafeReads, SafeEvents DEF PollStep
  <2> QED
    BY <2>1, <2>2, <2>3, SafeControl DEF Next, Progress
<1> QED
  BY <1>1, <1>2, PTL DEF Spec

\* Type correctness of the indexer's tables and of every poll's variables.
THEOREM IndexerTypes == Spec => []TypeOK
PROOF
<1>1. SafeInv => TypeOK
  BY DEF SafeInv
<1> QED
  BY <1>1, AlwaysSafe, PTL

\* Nothing is announced to subscribers before it is stored (indexer.js:136-137),
\* however many polls meet the event, and whether or not replies have a cursor.
THEOREM AnnouncedAreStored == Spec => []PublishedIsStored
PROOF
<1>1. SafeInv => PublishedIsStored
  BY DEF SafeInv
<1> QED
  BY <1>1, AlwaysSafe, PTL

\* The watermark never passes the newest closed ledger, whichever poll writes
\* it last (indexer.js:87-94), and whether or not replies have a cursor.
THEOREM WatermarkStaysClosed == Spec => []WatermarkIsClosed
PROOF
<1>1. SafeInv => WatermarkIsClosed
  BY DEF SafeInv
<1> QED
  BY <1>1, AlwaysSafe, PTL

\* A poller without a cursor may lose readings, but overlapping, repeated and
\* restarted polls never make the cache count one twice (store.js ingest).
THEOREM NeverCountedTwice == Spec => []StoredOnce
PROOF
<1>1. SafeInv => StoredOnce
  BY DEF SafeInv
<1> QED
  BY <1>1, AlwaysSafe, PTL

----------------------------------------------------------------------------
(* What a cursor is needed for.                                            *)

\* No billing event is lost (indexer.js poll, handleEvent): for every number of
\* overlapping polls, page size, chain, and pattern of failures and crashes,
\* an event at or below the watermark is stored and was published, as long
\* as getEvents reports a cursor with a full page.
THEOREM NothingLost ==
  ASSUME HasCursor
  PROVE  Spec => []CompleteBelowWatermark
PROOF
<1>1. IndInv => CompleteBelowWatermark
  <2> SUFFICES ASSUME IndInv, NEW i \in DOMAIN chain, Billing(i),
                      chain[i].ledger <= watermark
               PROVE  Stored(i) /\ i \in published
    BY DEF CompleteBelowWatermark
  <2>1. chain[i] \in Event /\ watermark \in Nat
    BY DEF IndInv, TypeOK
  <2>2. chain[i].ledger < watermark + 1
    BY <2>1 DEF Event
  <2> QED
    BY <2>2 DEF IndInv, DoneBelow, Done
<1> QED
  BY <1>1, AlwaysInd, PTL

\* The cache is a prefix of the contract's billing history, in its order and
\* without repetitions (store.js ingest under overlapping polls).
THEOREM CacheOrdered ==
  ASSUME HasCursor
  PROVE  Spec => []CacheIsPrefix
PROOF
<1>1. IndInv => CacheIsPrefix
  BY DEF IndInv
<1> QED
  BY <1>1, AlwaysInd, PTL

----------------------------------------------------------------------------
(* The indexer implements EventFeed.                                       *)

\* The refinement mapping of Feed.
BilledEvents == {i \in DOMAIN chain : Billing(i)}
CachedEvents == {rows[k] : k \in DOMAIN rows}

\* Only billing events reach the cache.
RowsBilled == \A i \in CachedEvents : i \in BilledEvents

\* Membership in the mapped sets.
LEMMA CachedIsStored == \A i : i \in CachedEvents <=> Stored(i)
BY DEF CachedEvents, Stored

\* The actions of the feed in terms of the mapping.
LEMMA FeedStutter ==
  UNCHANGED <<chain, rows, published>> => UNCHANGED Feed!feed
BY DEF Feed!feed, Billing

\* A closed ledger adds billing events behind the ones there are.
LEMMA FeedEmit ==
  ASSUME IndInv, NEW batch \in Batch, CloseLedger(batch)
  PROVE  Feed!Next /\ (RowsBilled => RowsBilled')
PROOF
<1>0. TypeOK
  BY DEF IndInv
<1>1. /\ chain' \in Seq(Event)
      /\ Len(chain') >= Len(chain)
      /\ \A i \in 1..Len(chain) : chain'[i] = chain[i]
  BY <1>0, ChainGrows
<1>2. /\ DOMAIN chain = 1..Len(chain) /\ Len(chain) \in Nat
      /\ DOMAIN chain' = 1..Len(chain') /\ Len(chain') \in Nat
  BY <1>0, <1>1 DEF TypeOK
<1>3. UNCHANGED <<rows, published>>
  BY DEF CloseLedger
<1>4. BilledEvents \subseteq BilledEvents'
  BY <1>1, <1>2 DEF BilledEvents, Billing
<1>5. \A i \in BilledEvents, j \in BilledEvents' \ BilledEvents : i < j
  <2> SUFFICES ASSUME NEW i \in BilledEvents, NEW j \in BilledEvents' \ BilledEvents
               PROVE  i < j
    OBVIOUS
  <2>1. i \in 1..Len(chain) /\ j \in 1..Len(chain')
    BY <1>2 DEF BilledEvents
  <2>2. j \notin 1..Len(chain)
    BY <1>1, <1>2 DEF BilledEvents, Billing
  <2> QED
    BY <1>2, <2>1, <2>2
<1>6. CachedEvents' = CachedEvents
  BY <1>3 DEF CachedEvents
<1>7. Feed!Emit
  BY <1>3, <1>4, <1>5, <1>6 DEF Feed!Emit, BilledEvents, CachedEvents
<1> QED
  BY <1>4, <1>6, <1>7 DEF Feed!Next, RowsBilled

\* An insertion caches the first billing event that is missing: the poll that
\* makes it has dealt with all earlier ones.
LEMMA FeedStore ==
  ASSUME IndInv, RowsBilled, NEW p \in Poll, IngestEvent(p)
  PROVE  [Feed!Next]_(Feed!feed) /\ RowsBilled'
PROOF
<1>1. /\ UNCHANGED <<chain, published>>
      /\ poll[p].pc = "page" /\ poll[p].pos < poll[p].end
      /\ chain[poll[p].pos + 1].kind = "meter"
      /\ Ingest(poll[p].pos + 1)
  BY DEF IngestEvent
<1>2. /\ poll[p] \in PollState /\ PollInv(poll[p])
      /\ Len(chain) \in Nat /\ DOMAIN chain = 1..Len(chain)
  BY PollFacts
<1>3. PICK n \in Nat : n = poll[p].pos + 1
  BY <1>2 DEF PollState
<1>4. /\ n \in 1..Len(chain)
      /\ \A i \in 1..(n - 1) : Done(i)
  BY <1>1, <1>2, <1>3 DEF PollInv, PollState
<1>5. n \in BilledEvents
  BY <1>1, <1>2, <1>3, <1>4 DEF BilledEvents, Billing
<1>6. BilledEvents' = BilledEvents
  BY <1>1 DEF BilledEvents, Billing
<1>7. CachedEvents' = CachedEvents \cup {n}
  <2>1. \A j : (\E k \in DOMAIN rows' : rows'[k] = j) <=> Stored(j) \/ j = n
    BY <1>1, <1>3, <1>4, IngestStores DEF IndInv
  <2> QED
    BY <2>1, CachedIsStored DEF CachedEvents
<1>8. RowsBilled'
  BY <1>5, <1>6, <1>7 DEF RowsBilled
<1>9. CASE Stored(n)
  BY <1>1, <1>3, <1>8, <1>9, FeedStutter DEF Ingest
<1>10. CASE ~Stored(n)
  <2>1. \A j \in BilledEvents \ CachedEvents : n <= j
    <3> SUFFICES ASSUME NEW j \in BilledEvents \ CachedEvents, ~(n <= j) PROVE FALSE
      OBVIOUS
    <3>1. j \in 1..(n - 1)
      BY <1>2 DEF BilledEvents
    <3> QED
      BY <1>4, <3>1, CachedIsStored DEF Done, BilledEvents
  <2>2. n \in BilledEvents \ CachedEvents
    BY <1>5, <1>10, CachedIsStored
  <2>3. Feed!Store(n)
    BY <1>1, <1>6, <1>7, <2>1, <2>2
       DEF Feed!Store, Feed!FirstNotIn, BilledEvents, CachedEvents
  <2> QED
    BY <1>5, <1>8, <2>3 DEF Feed!Next, BilledEvents
<1> QED
  BY <1>8, <1>9, <1>10

\* A publication announces the first cached event not yet announced, or repeats
\* an announcement.
LEMMA FeedAnnounce ==
  ASSUME IndInv, RowsBilled, NEW p \in Poll, PublishEvent(p)
  PROVE  [Feed!Next]_(Feed!feed) /\ RowsBilled'
PROOF
<1>1. /\ UNCHANGED <<chain, rows>>
      /\ poll[p].pc = "ingested"
      /\ published' = published \cup {poll[p].pos + 1}
  BY DEF PublishEvent, db
<1>2. /\ poll[p] \in PollState /\ PollInv(poll[p])
      /\ Len(chain) \in Nat /\ DOMAIN chain = 1..Len(chain)
  BY PollFacts
<1>3. PICK n \in Nat : n = poll[p].pos + 1
  BY <1>2 DEF PollState
<1>4. /\ Stored(n)
      /\ \A i \in 1..(n - 1) : Done(i)
  BY <1>1, <1>2, <1>3 DEF PollInv, PollState
<1>5. BilledEvents' = BilledEvents /\ CachedEvents' = CachedEvents
  BY <1>1 DEF BilledEvents, CachedEvents, Billing
<1>6. RowsBilled'
  BY <1>5 DEF RowsBilled
<1>7. n \in CachedEvents /\ n \in BilledEvents
  BY <1>4, CachedIsStored DEF RowsBilled
<1>8. CASE n \in published
  <2>1. published' = published
    BY <1>1, <1>3, <1>8
  <2> QED
    BY <1>1, <1>6, <2>1, FeedStutter
<1>9. CASE n \notin published
  <2>1. \A j \in CachedEvents \ published : n <= j
    <3> SUFFICES ASSUME NEW j \in CachedEvents \ published, ~(n <= j) PROVE FALSE
      OBVIOUS
    <3>1. j \in BilledEvents
      BY DEF RowsBilled
    <3>2. j \in 1..(n - 1)
      BY <1>2, <3>1 DEF BilledEvents
    <3> QED
      BY <1>4, <3>1, <3>2 DEF Done, BilledEvents
  <2>2. Feed!Announce(n)
    BY <1>1, <1>3, <1>5, <1>7, <1>9, <2>1
       DEF Feed!Announce, Feed!FirstNotIn, BilledEvents, CachedEvents
  <2>3. Feed!Next
    BY <1>7, <2>2 DEF Feed!Next, BilledEvents
  <2> QED
    BY <1>6, <2>3
<1> QED
  BY <1>8, <1>9

\* No other step shows.
LEMMA FeedStep ==
  ASSUME IndInv, RowsBilled, [Next]_vars
  PROVE  [Feed!Next]_(Feed!feed) /\ RowsBilled'
PROOF
<1>1. UNCHANGED <<chain, rows, published>> => RowsBilled' /\ UNCHANGED Feed!feed
  BY FeedStutter DEF RowsBilled, BilledEvents, CachedEvents, Billing
<1>2. ASSUME NEW p \in Poll, PollStep(p), ~IngestEvent(p), ~PublishEvent(p)
      PROVE  UNCHANGED <<chain, rows, published>>
  BY <1>2 DEF PollStep, ReadStart, ReadLast, FetchPage, SkipEvent, NextPage,
     ReadMark, SetMark, db
<1>3. ASSUME NEW p \in Poll, PollStep(p)
      PROVE  [Feed!Next]_(Feed!feed) /\ RowsBilled'
  BY <1>1, <1>2, <1>3, FeedStore, FeedAnnounce
<1>4. ASSUME Start \/ Stop \/ Crash \/ \E p \in Poll : Tick(p) \/ PollFails(p)
      PROVE  UNCHANGED <<chain, rows, published>>
  BY <1>4 DEF Start, Stop, Crash, Tick, PollFails, db
<1>5. CASE UNCHANGED vars
  BY <1>1, <1>5 DEF vars
<1>6. CASE Next
  BY <1>1, <1>3, <1>4, <1>6, FeedEmit DEF Next, Progress
<1> QED
  BY <1>5, <1>6

\* Overlapping, failing and restarted polls implement the ordered feed:
\* insertions and first announcements come one by one in the contract's order
\* (indexer.js poll, handleEvent; store.js ingest).
THEOREM IndexerImplementsFeed ==
  ASSUME HasCursor
  PROVE  Spec => ImplementsEventFeed
PROOF
<1>1. Init => Feed!Init /\ RowsBilled
  <2> SUFFICES ASSUME Init PROVE Feed!Init /\ RowsBilled
    OBVIOUS
  <2>1. DOMAIN chain = {} /\ DOMAIN rows = {} /\ published = {}
    BY DEF Init
  <2> QED
    BY <2>1 DEF Feed!Init, RowsBilled, CachedEvents
<1>2. IndInv /\ RowsBilled /\ [Next]_vars => [Feed!Next]_(Feed!feed) /\ RowsBilled'
  BY FeedStep
<1> QED
  BY <1>1, <1>2, AlwaysInd, PTL DEF Spec, ImplementsEventFeed, Feed!Spec

----------------------------------------------------------------------------
(* The order of sequence numbers survives their conversion to doubles.     *)

\* What rounding to multiples of 2 and of 4 returns.
LEMMA NearestType ==
  \A v \in Nat : \A ulp \in {2, 4} :
     /\ NearestEven(v, ulp) \in Nat
     /\ NearestEven(v, ulp) % ulp = 0
BY DEF NearestEven

\* Rounding keeps the order.
LEMMA NearestMonotone ==
  \A v, w \in Nat : \A ulp \in {2, 4} :
     v <= w => NearestEven(v, ulp) <= NearestEven(w, ulp)
BY DEF NearestEven

\* Rounding does not cross a multiple.
LEMMA NearestWithin ==
  \A v, m \in Nat : \A ulp \in {2, 4} :
     m % ulp = 0 =>
        /\ v <= m => NearestEven(v, ulp) <= m
        /\ m <= v => m <= NearestEven(v, ulp)
BY DEF NearestEven

\* ORDER BY seq and MAX(seq) (db/store.js) keep the contract's order although
\* handleEvent turns the number into a double (indexer.js): a later reading is
\* never sorted before an earlier one, and below 2^53 two readings never fall
\* together.
THEOREM SequenceOrderKept ==
  \A v, w \in Nat :
     v <= w => /\ Number(v) <= Number(w)
               /\ v < w /\ v < MaxSafe => Number(v) < Number(w)
PROOF
<1> SUFFICES ASSUME NEW v \in Nat, NEW w \in Nat, v <= w
             PROVE  /\ Number(v) <= Number(w)
                    /\ v < w /\ v < MaxSafe => Number(v) < Number(w)
  OBVIOUS
<1>1. /\ MaxSafe \in Nat
      /\ MaxSafe % 2 = 0 /\ MaxSafe % 4 = 0
      /\ 2 * MaxSafe \in Nat /\ (2 * MaxSafe) % 4 = 0
  BY DecodeAssumption
<1>2. CASE w <= MaxSafe
  BY <1>1, <1>2 DEF Number
<1>3. CASE MaxSafe < w /\ w <= 2 * MaxSafe
  <2>1. Number(w) = NearestEven(w, 2) /\ Number(w) \in Nat
    BY <1>1, <1>3, NearestType DEF Number
  <2>2. MaxSafe <= Number(w)
    BY <1>1, <1>3, <2>1, NearestWithin
  <2>3. CASE v <= MaxSafe
    BY <1>1, <2>1, <2>2, <2>3 DEF Number
  <2>4. CASE MaxSafe < v
    <3>1. Number(v) = NearestEven(v, 2)
      BY <1>1, <1>3, <2>4 DEF Number
    <3> QED
      BY <1>1, <2>1, <2>4, <3>1, NearestMonotone
  <2> QED
    BY <1>1, <2>3, <2>4
<1>4. CASE 2 * MaxSafe < w
  <2>1. Number(w) = NearestEven(w, 4) /\ Number(w) \in Nat
    BY <1>1, <1>4, NearestType DEF Number
  <2>2. 2 * MaxSafe <= Number(w)
    BY <1>1, <1>4, <2>1, NearestWithin
  <2>3. CASE v <= MaxSafe
    BY <1>1, <2>1, <2>2, <2>3 DEF Number
  <2>4. CASE MaxSafe < v /\ v <= 2 * MaxSafe
    <3>1. Number(v) = NearestEven(v, 2) /\ Number(v) \in Nat
      BY <1>1, <2>4, NearestType DEF Number
    <3>2. (2 * MaxSafe) % 2 = 0
      BY <1>1
    <3>3. Number(v) <= 2 * MaxSafe
      BY <1>1, <2>4, <3>1, <3>2, NearestWithin
    <3> QED
      BY <1>1, <2>1, <2>2, <2>4, <3>1, <3>3
  <2>5. CASE 2 * MaxSafe < v
    <3>1. Number(v) = NearestEven(v, 4)
      BY <1>1, <2>5 DEF Number
    <3> QED
      BY <1>1, <2>1, <2>5, <3>1, NearestMonotone
  <2> QED
    BY <1>1, <2>3, <2>4, <2>5
<1> QED
  BY <1>1, <1>2, <1>3, <1>4

============================================================================
