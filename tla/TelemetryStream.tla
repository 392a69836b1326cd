-------------------------- MODULE TelemetryStream --------------------------
(***************************************************************************)
(* Live telemetry: the in-process bus (backend/src/api/server.js), the     *)
(* WebSocket hub with its channels and its heartbeat (api/ws.js), and the  *)
(* page that listens (frontend useTelemetry.ts, LiveStream.tsx).           *)
(*                                                                         *)
(* The indexer announces rows as EventFeed says: events for the first time *)
(* in the contract's order, and any of them again later.  Row number n is  *)
(* the n-th announcement; frames, pages and histories refer to rows by     *)
(* that number, so that a repeated event is told from its first coming.    *)
(*                                                                         *)
(* A client is one page with its one socket: the hook never reconnects.    *)
(* The bytes on a connection stay in order; the peer may vanish without a  *)
(* word, and then only the heartbeat finds out.                            *)
(***************************************************************************)
EXTENDS Integers, Sequences, SequencesExt

CONSTANTS
    Client,         \* pages that connect
    Device,         \* valid device addresses
    Everything,     \* deviceFilter null: no channel was asked for
    Param,          \* what a client may send as ?device=
    BigIntRow,      \* whether rows hold BigInt values: a subset of BOOLEAN
    MaxSamples,     \* the points the chart keeps (60)
    MaxEvents,      \* bound: events the indexer caches
    MaxRows         \* bound: announcements

ASSUME StreamAssumption ==
    /\ Everything \notin Device
    /\ BigIntRow \subseteq BOOLEAN
    /\ {MaxSamples, MaxEvents, MaxRows} \subseteq Nat \ {0}

VARIABLES
    rows,       \* every row the indexer announced, repetitions included
    socket,     \* the hub's clients: whether OPEN, and isAlive
    channel,    \* client -> its deviceFilter, and the rows before its time
    wire,       \* client -> frames on their way to it
    pong,       \* client -> whether a pong is on its way back
    browser,    \* client -> the page and its end of the connection
    received,   \* client -> rows handed to onmessage
    page        \* client -> React state: positions in `received`

net == <<wire, pong>>
vars == <<rows, socket, channel, wire, pong, browser, received, page>>

Row == [event: 1..MaxEvents, device: Device, bigint: BOOLEAN]
Frame == [type: {"hello", "ping", "meter_billed"}, row: 0..MaxRows]
Socket == [open: BOOLEAN, isAlive: BOOLEAN]
Channel == [filter: Device \cup {Everything}, since: 0..MaxRows]
\* event is the state of useTelemetry (0: null or the hello frame), rendered
\* the event of the last render, samples the chart.
Page == [event: Nat, rendered: Nat, samples: Seq(Nat)]

hello == [type |-> "hello", row |-> 0]
ping == [type |-> "ping", row |-> 0]
meter_billed(n) == [type |-> "meter_billed", row |-> n]

Without(f, S) == [x \in DOMAIN f \ S |-> f[x]]

Init ==
    /\ rows = << >>
    /\ socket = << >>
    /\ channel = << >>
    /\ wire = [c \in Client |-> << >>]
    /\ pong = [c \in Client |-> FALSE]
    /\ browser = [c \in Client |-> "absent"]
    /\ received = [c \in Client |-> << >>]
    /\ page = [c \in Client |-> [event |-> 0, rendered |-> 0, samples |-> << >>]]

----------------------------------------------------------------------------
(* The hub: connections.                                                   *)

\* Mutant: whatever the client sends is the filter.
deviceFilterUnchecked(param) == param

deviceFilter(param) == IF param \in Device THEN param ELSE Everything

\* Mutant: a new socket counts as silent until its first pong.
NewSocketUnproven == [open |-> TRUE, isAlive |-> FALSE]

NewSocket == [open |-> TRUE, isAlive |-> TRUE]

\* useTelemetry opens a socket; the hub's connection handler.
Connect(c, param) ==
    /\ browser[c] = "absent"
    /\ browser' = [browser EXCEPT ![c] = "open"]
    /\ socket' = [x \in DOMAIN socket \cup {c} |->
                    IF x = c THEN NewSocket ELSE socket[x]]
    /\ channel' = [x \in DOMAIN channel \cup {c} |->
                     IF x # c THEN channel[x]
                     ELSE [filter |-> deviceFilter(param),
                           since |-> Len(rows)]]
    /\ wire' = [wire EXCEPT ![c] = <<hello>>]
    /\ UNCHANGED <<rows, pong, received, page>>

\* The hook's cleanup closes the socket; the component is gone.
CloseClient(c) ==
    /\ browser[c] \in {"open", "cut"}
    /\ browser' = [browser EXCEPT ![c] = "closed"]
    /\ UNCHANGED <<rows, socket, channel, net, received, page>>

\* The close frame arrives: readyState is CLOSING until the socket ends.
CloseFrame(c) ==
    /\ browser[c] = "closed"
    /\ c \in DOMAIN socket
    /\ socket[c].open
    /\ socket' = [socket EXCEPT ![c].open = FALSE]
    /\ UNCHANGED <<rows, channel, net, browser, received, page>>

SocketClosed(c) ==
    /\ c \in DOMAIN socket
    /\ ~socket[c].open
    /\ socket' = Without(socket, {c})
    /\ wire' = [wire EXCEPT ![c] = << >>]
    /\ UNCHANGED <<rows, channel, pong, browser, received, page>>

\* The client's machine or network goes away without closing anything.
Vanish(c) ==
    /\ browser[c] = "open"
    /\ browser' = [browser EXCEPT ![c] = "lost"]
    /\ wire' = [wire EXCEPT ![c] = << >>]
    /\ UNCHANGED <<rows, socket, channel, pong, received, page>>

----------------------------------------------------------------------------
(* The bus and the hub: broadcasting.                                      *)

\* An event's first announcement comes when all earlier ones have been; any
\* event may be announced again, as the row it was.
Announced == {rows[n].event : n \in DOMAIN rows}

\* Mutant: an event may come before an earlier one.
AnnounceableUnordered(row) ==
    \A n \in DOMAIN rows : rows[n].event = row.event => rows[n] = row

Announceable(row) ==
    /\ \A e \in 1..(row.event - 1) : e \in Announced
    /\ \A n \in DOMAIN rows : rows[n].event = row.event => rows[n] = row

Wants(filter, row) == filter = Everything \/ filter = row.device

\* Mutant: the filter is ignored.
TargetsAll(row) == {c \in DOMAIN socket : socket[c].open}

Targets(row) ==
    {c \in DOMAIN socket : socket[c].open /\ Wants(channel[c].filter, row)}

\* JSON.stringify throws on a BigInt, before anything is sent.
Encodable(row) == ~row.bigint

\* A frame put on a connection whose client is gone goes nowhere.
Send(cs, frame) ==
    wire' = [c \in Client |-> IF c \in cs /\ browser[c] # "lost"
                              THEN Append(wire[c], frame) ELSE wire[c]]

\* onEvent -> bus.publish -> hub.broadcast; publish catches what it throws.
Publish(row) ==
    /\ Len(rows) < MaxRows
    /\ Announceable(row)
    /\ rows' = Append(rows, row)
    /\ IF Encodable(row) THEN Send(Targets(row), meter_billed(Len(rows) + 1))
                         ELSE UNCHANGED wire
    /\ UNCHANGED <<socket, channel, pong, browser, received, page>>

----------------------------------------------------------------------------
(* The heartbeat, every 30 seconds.                                        *)

\* Mutant: a socket that was asked is not marked.
AskedLeniently(s) == s

Asked(s) == [s EXCEPT !.isAlive = FALSE]

Heartbeat ==
    LET silent == {c \in DOMAIN socket : ~socket[c].isAlive}
        others == DOMAIN socket \ silent IN
    /\ socket' = [c \in others |-> Asked(socket[c])]
    /\ wire' = [c \in Client |->
                  IF c \in silent THEN << >>
                  ELSE IF c \in others /\ browser[c] # "lost"
                  THEN Append(wire[c], ping) ELSE wire[c]]
    \* terminate() cuts the connection under a page that is still there.
    /\ browser' = [c \in Client |->
                     IF c \in silent /\ browser[c] = "open" THEN "cut"
                     ELSE browser[c]]
    /\ UNCHANGED <<rows, channel, pong, received, page>>

ReceivePong(c) ==
    /\ pong[c]
    /\ pong' = [pong EXCEPT ![c] = FALSE]
    /\ socket' = [x \in DOMAIN socket |->
                    IF x = c THEN [socket[x] EXCEPT !.isAlive = TRUE]
                    ELSE socket[x]]
    /\ UNCHANGED <<rows, channel, wire, browser, received, page>>

----------------------------------------------------------------------------
(* The page.                                                               *)

\* A frame arrives: the browser answers a ping by itself, onmessage sets the
\* event state.
Deliver(c) ==
    LET frame == Head(wire[c]) IN
    /\ browser[c] = "open"
    /\ wire[c] # << >>
    /\ wire' = [wire EXCEPT ![c] = Tail(@)]
    /\ pong' = [pong EXCEPT ![c] = @ \/ frame.type = "ping"]
    /\ IF frame.type = "meter_billed"
       THEN /\ received' = [received EXCEPT ![c] = Append(@, frame.row)]
            /\ page' = [page EXCEPT ![c].event = Len(received[c]) + 1]
       ELSE UNCHANGED <<received, page>>
    /\ UNCHANGED <<rows, socket, channel, browser>>

\* [...prev, sample].slice(-60)
\* Mutant: the oldest points are the ones kept.
SliceOldest(samples) ==
    SubSeq(samples, 1, IF Len(samples) < MaxSamples THEN Len(samples)
                       ELSE MaxSamples)

Slice(samples) ==
    SubSeq(samples, IF Len(samples) > MaxSamples
                    THEN Len(samples) - MaxSamples + 1 ELSE 1, Len(samples))

\* LiveStream renders, for whatever reason, and its effect runs when the
\* event is another one.  Messages that came between two renders leave only
\* the last of them.
\* Mutant: the effect runs at each render.
EffectAlways(c) ==
    [page[c] EXCEPT !.rendered = page[c].event,
                    !.samples = Slice(Append(@, page[c].event))]

Effect(c) ==
    IF page[c].event = page[c].rendered THEN page[c]
    ELSE [page[c] EXCEPT !.rendered = page[c].event,
                         !.samples = Slice(Append(@, page[c].event))]

Render(c) ==
    /\ browser[c] \in {"open", "cut", "lost"}
    /\ page[c].event # 0
    /\ page' = [page EXCEPT ![c] = Effect(c)]
    /\ UNCHANGED <<rows, socket, channel, net, browser, received>>

----------------------------------------------------------------------------

Next ==
    \/ \E c \in Client :
          \/ \E param \in Param : Connect(c, param)
          \/ CloseClient(c) \/ CloseFrame(c) \/ SocketClosed(c) \/ Vanish(c)
          \/ ReceivePong(c) \/ Deliver(c) \/ Render(c)
    \/ \E e \in 1..MaxEvents, d \in Device, b \in BigIntRow :
          Publish([event |-> e, device |-> d, bigint |-> b])
    \/ Heartbeat

Spec == Init /\ [][Next]_vars

\* The interval timer fires, connections that are up deliver, browsers paint.
FairSpec ==
    /\ Spec
    /\ WF_vars(Heartbeat)
    /\ \A c \in Client :
          /\ WF_vars(Deliver(c)) /\ WF_vars(ReceivePong(c))
          /\ WF_vars(CloseFrame(c)) /\ WF_vars(SocketClosed(c))
          /\ WF_vars(Render(c))

----------------------------------------------------------------------------
(* Properties                                                              *)

\* The types of the hub's sockets, of the frames and of the pages.
TypeOK ==
    /\ rows \in Seq(Row)
    /\ DOMAIN socket \subseteq DOMAIN channel
    /\ DOMAIN channel \subseteq Client
    /\ socket \in [DOMAIN socket -> Socket]
    /\ channel \in [DOMAIN channel -> Channel]
    /\ wire \in [Client -> Seq(Frame)]
    /\ pong \in [Client -> BOOLEAN]
    /\ browser \in [Client -> {"absent", "open", "cut", "lost", "closed"}]
    /\ received \in [Client -> Seq(DOMAIN rows)]
    /\ page \in [Client -> Page]

\* The places on the wire of the rows under way, and those rows.
Billing(c) == {k \in DOMAIN wire[c] : wire[c][k].type = "meter_billed"}
InFlight(c) == {wire[c][k].row : k \in Billing(c)}

\* What a client has received and what is under way to it, as a set; rows
\* being numbered, the sequence is this set in ascending order.
Got(c) == Range(received[c]) \cup InFlight(c)

InOrder(c) ==
    /\ \A j, k \in DOMAIN received[c] :
          j < k => received[c][j] < received[c][k]
    /\ \A j, k \in Billing(c) : j < k => wire[c][j].row < wire[c][k].row
    /\ \A m \in Range(received[c]), n \in InFlight(c) : m < n

\* The rows of a client's channel since it connected, as ws.js describes it.
Due(c) ==
    {n \in DOMAIN rows : n > channel[c].since
                         /\ Wants(channel[c].filter, rows[n])}

DueEncodable(c) == {n \in Due(c) : Encodable(rows[n])}

Connected(c) == c \in DOMAIN socket /\ socket[c].open /\ browser[c] = "open"

\* A client gets its channel and nothing else: what it has received and what
\* is under way are the rows announced since it connected for its device, in
\* that order, each as often as it was announced, without a gap however slowly
\* the connection delivers; after a disconnect it holds a prefix of them.
\* (Rows that cannot be encoded apart.)
StreamIsChannel ==
    \A c \in DOMAIN channel :
        /\ InOrder(c)
        /\ Got(c) \subseteq DueEncodable(c)
        /\ \A n \in Got(c), m \in DueEncodable(c) : m < n => m \in Got(c)
        /\ Connected(c) => Got(c) = DueEncodable(c)

\* ws.js: "only that device's `meter_billed` events are delivered. Without the
\* param a client receives every event".
EveryEventDelivered ==
    \A c \in DOMAIN channel : Connected(c) => InOrder(c) /\ Got(c) = Due(c)

\* Repetitions never make a client see an event before an earlier one: when an
\* event of its channel arrives, those that were first announced after the
\* client connected and precede it have arrived.
NoOvertaking ==
    \A c \in DOMAIN channel : \A k \in DOMAIN received[c] :
        \A n \in DOMAIN rows :
            /\ rows[n].event < rows[received[c][k]].event
            /\ rows[n].event \notin
                  {rows[m].event : m \in 1..channel[c].since}
            /\ Wants(channel[c].filter, rows[n])
            /\ Encodable(rows[n])
            => \E m \in 1..(k - 1) :
                  rows[received[c][m]].event = rows[n].event

\* A page that is there is cut off only for a ping it was sent and whose pong
\* has not arrived: a new connection, or one whose pong is back, survives the
\* next tick however the ticks fall.
OnlySilentClientsCut ==
    [][\A c \in Client :
         browser[c] = "open" /\ browser'[c] = "cut"
             => pong[c] \/ \E k \in DOMAIN wire[c] : wire[c][k] = ping]_vars

\* The chart shows each received row at most once and in the order received,
\* although renders and messages interleave and messages may be skipped.
ChartInOrder ==
    \A c \in Client :
        \A j, k \in DOMAIN page[c].samples :
            j < k => page[c].samples[j] < page[c].samples[k]

\* Sockets of clients that closed or vanished do not stay for ever.
DeadSocketsReaped ==
    \A c \in Client :
        (c \in DOMAIN socket /\ browser[c] \in {"closed", "lost"})
            ~> c \notin DOMAIN socket

\* Also when messages come faster than renders and when the chart is full, the
\* newest row a page received ends up as the chart's last point.
ChartKeepsUp ==
    \A c \in Client, k \in 1..MaxRows :
        Len(received[c]) >= k
            ~> \/ browser[c] = "closed"
               \/ page[c].samples # << >> /\ Last(page[c].samples) >= k

----------------------------------------------------------------------------
(* What makes the safety properties inductive.                             *)

\* The indexer's order: an event's first announcement comes after those of
\* all earlier events, and a repetition is the same row.
RowsInv ==
    /\ Len(rows) <= MaxRows
    /\ \A n \in DOMAIN rows :
        /\ \A e \in 1..(rows[n].event - 1) :
              \E m \in 1..(n - 1) : rows[m].event = e
        /\ \A m \in DOMAIN rows : rows[m].event = rows[n].event
                                    => rows[m] = rows[n]

\* A page that is there has an open socket, a page that was cut has none, and
\* the connection of a socket that is open is complete unless its client
\* vanished; before a page connects there is nothing of it.
ConnectionInv ==
    /\ \A c \in Client : browser[c] = "open" => Connected(c)
    /\ \A c \in DOMAIN socket : browser[c] # "cut"
    /\ \A c \in DOMAIN socket :
          socket[c].open /\ browser[c] # "lost" => Got(c) = DueEncodable(c)
    /\ DOMAIN channel = {c \in Client : browser[c] # "absent"}
    /\ \A c \in DOMAIN channel : channel[c].since <= Len(rows)
    /\ \A c \in Client \ DOMAIN channel :
          wire[c] = << >> /\ received[c] = << >>

\* A socket marked silent has a ping or its pong under way, if its client is
\* still there.
SilenceInv ==
    \A c \in Client :
        browser[c] = "open" /\ ~socket[c].isAlive
            => pong[c] \/ \E k \in DOMAIN wire[c] : wire[c][k] = ping

\* The chart is behind the last render, which is behind the last message.
ChartInv ==
    \A c \in Client :
        /\ page[c].rendered <= page[c].event
        /\ page[c].event <= Len(received[c])
        /\ \A k \in DOMAIN page[c].samples :
              page[c].samples[k] <= page[c].rendered

StreamInv ==
    /\ TypeOK /\ RowsInv /\ ConnectionInv /\ StreamIsChannel
    /\ SilenceInv /\ ChartInv /\ ChartInOrder

============================================================================
