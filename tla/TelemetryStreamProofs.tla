----------------------- MODULE TelemetryStreamProofs -----------------------
(***************************************************************************)
(* Proofs about TelemetryStream, for any clients, devices, parameters,     *)
(* rows and size of the chart: the types, every client gets its channel    *)
(* and nothing else, no event overtakes another, the chart is in order,    *)
(* and the heartbeat cuts only silent clients.                             *)
(***************************************************************************)
EXTENDS TelemetryStream, SequenceTheorems, TLAPS

----------------------------------------------------------------------------
(* What becomes of a client's rows.                                        *)

\* StreamIsChannel for one client, without what it says of connected ones.
ChannelOK(c) ==
    /\ InOrder(c)
    /\ Got(c) \subseteq DueEncodable(c)
    /\ \A n \in Got(c), m \in DueEncodable(c) : m < n => m \in Got(c)

\* The wire and the history of a client, typed.
Typed(c) == wire[c] \in Seq(Frame) /\ received[c] \in Seq(Nat)

LEMMA ClientTypes ==
    ASSUME TypeOK, NEW c \in Client
    PROVE  Typed(c)
<1>1. wire[c] \in Seq(Frame) /\ received[c] \in Seq(DOMAIN rows) /\ DOMAIN rows \subseteq Nat
  BY DEF TypeOK
<1> QED
  BY <1>1, SeqMonotonic DEF Typed

LEMMA RowNumbers ==
    ASSUME NEW c, Typed(c)
    PROVE  Got(c) \subseteq Nat
<1>1. \A k \in DOMAIN wire[c] : wire[c][k] \in Frame
  BY DEF Typed
<1>2. \A f \in Frame : f.row \in Nat
  BY StreamAssumption DEF Frame
<1> QED
  BY <1>1, <1>2 DEF Typed, Got, Range, InFlight, Billing

\* Nothing happens to the client.
LEMMA StreamSame ==
    ASSUME NEW c, UNCHANGED rows, wire'[c] = wire[c], received'[c] = received[c],
           channel'[c] = channel[c]
    PROVE  /\ Got(c)' = Got(c)
           /\ DueEncodable(c)' = DueEncodable(c)
           /\ ChannelOK(c) => ChannelOK(c)'
<1>1. Billing(c)' = Billing(c) /\ InFlight(c)' = InFlight(c)
  BY DEF Billing, InFlight
<1>2. Got(c)' = Got(c)
  BY <1>1 DEF Got, Range
<1>3. InOrder(c) => InOrder(c)'
  BY <1>1 DEF InOrder, Range
<1>4. DueEncodable(c)' = DueEncodable(c)
  BY DEF DueEncodable, Due
<1> QED
  BY <1>2, <1>3, <1>4 DEF ChannelOK

\* The connection is lost with everything on it: what was received is still
\* without a gap, for what was under way came after it.
LEMMA StreamCut ==
    ASSUME NEW c, Typed(c), UNCHANGED rows, wire'[c] = << >>,
           received'[c] = received[c], channel'[c] = channel[c], ChannelOK(c)
    PROVE  ChannelOK(c)'
<1>1. Billing(c)' = {} /\ InFlight(c)' = {}
  BY DEF Billing, InFlight
<1>2. Got(c)' = Range(received[c])
  BY <1>1 DEF Got, Range
<1>3. DueEncodable(c)' = DueEncodable(c)
  BY DEF DueEncodable, Due
<1>4. InOrder(c)'
  BY <1>1 DEF ChannelOK, InOrder, Range
<1>5. Range(received[c]) \subseteq Nat
  BY DEF Typed, Range
<1>6. ASSUME NEW n \in Range(received[c]), NEW m \in DueEncodable(c), m < n
      PROVE  m \in Range(received[c])
  <2>1. m \in Got(c)
    BY <1>6 DEF ChannelOK, Got
  <2>2. ASSUME m \in InFlight(c) PROVE FALSE
    <3>1. n < m /\ n \in Nat
      BY <1>5, <2>2 DEF ChannelOK, InOrder
    <3>2. m \in Nat
      BY <2>2, RowNumbers DEF Got
    <3> QED
      BY <1>6, <3>1, <3>2
  <2> QED
    BY <2>1, <2>2 DEF Got
<1> QED
  BY <1>2, <1>3, <1>4, <1>6 DEF ChannelOK, Got

\* A ping is no row.
LEMMA StreamPing ==
    ASSUME NEW c, Typed(c), UNCHANGED rows, wire'[c] = Append(wire[c], ping),
           received'[c] = received[c], channel'[c] = channel[c]
    PROVE  /\ Got(c)' = Got(c)
           /\ DueEncodable(c)' = DueEncodable(c)
           /\ ChannelOK(c) => ChannelOK(c)'
<1>1. /\ DOMAIN wire'[c] = DOMAIN wire[c] \cup {Len(wire[c]) + 1}
      /\ \A k \in DOMAIN wire[c] : wire'[c][k] = wire[c][k]
      /\ wire'[c][Len(wire[c]) + 1] = ping
  BY DEF Typed, ping, Frame
<1>2. ping.type # "meter_billed"
  BY DEF ping
<1>3. Billing(c)' = Billing(c)
  BY <1>1, <1>2 DEF Billing
<1>4. InFlight(c)' = InFlight(c)
  BY <1>1, <1>3 DEF InFlight, Billing
<1>5. Got(c)' = Got(c)
  BY <1>4 DEF Got, Range
<1>6. InOrder(c) => InOrder(c)'
  BY <1>1, <1>3, <1>4 DEF InOrder, Range, Billing
<1>7. DueEncodable(c)' = DueEncodable(c)
  BY DEF DueEncodable, Due
<1> QED
  BY <1>5, <1>6, <1>7 DEF ChannelOK

\* A new row goes behind everything the client has.
LEMMA StreamRow ==
    ASSUME NEW c, Typed(c), NEW n \in Nat, \A m \in Got(c) : m < n,
           meter_billed(n) \in Frame,
           wire'[c] = Append(wire[c], meter_billed(n)),
           received'[c] = received[c], InOrder(c)
    PROVE  InOrder(c)' /\ Got(c)' = Got(c) \cup {n}
<1> DEFINE l == Len(wire[c]) + 1
<1>1. /\ DOMAIN wire'[c] = DOMAIN wire[c] \cup {l}
      /\ \A k \in DOMAIN wire[c] : wire'[c][k] = wire[c][k] /\ k < l
      /\ wire'[c][l] = meter_billed(n)
      /\ l \notin DOMAIN wire[c] /\ DOMAIN wire[c] \subseteq Nat /\ l \in Nat
  BY DEF Typed
<1>2. meter_billed(n).type = "meter_billed" /\ meter_billed(n).row = n
  BY DEF meter_billed
<1> HIDE DEF l
<1>3. Billing(c)' = Billing(c) \cup {l}
  BY <1>1, <1>2 DEF Billing
<1>4. InFlight(c)' = InFlight(c) \cup {n}
  BY <1>1, <1>2, <1>3 DEF InFlight, Billing
<1>5. Got(c)' = Got(c) \cup {n}
  BY <1>4 DEF Got, Range
<1>6. \A k \in Billing(c) : wire[c][k].row < n /\ k \in DOMAIN wire[c]
  BY DEF Got, InFlight, Billing
<1>7. \A j, k \in Billing(c)' : j < k => wire'[c][j].row < wire'[c][k].row
  <2> SUFFICES ASSUME NEW j \in Billing(c)', NEW k \in Billing(c)', j < k
               PROVE  wire'[c][j].row < wire'[c][k].row
    OBVIOUS
  <2>1. CASE j = l
    BY <1>1, <1>3, <1>6, <2>1
  <2>2. CASE k = l /\ j # l
    BY <1>1, <1>2, <1>3, <1>6, <2>2
  <2>3. CASE k # l /\ j # l
    BY <1>1, <1>3, <1>6, <2>3 DEF InOrder
  <2> QED
    BY <2>1, <2>2, <2>3
<1>8. \A m \in Range(received[c]), i \in InFlight(c)' : m < i
  BY <1>4 DEF InOrder, Got
<1> QED
  BY <1>5, <1>7, <1>8 DEF InOrder, Range

\* onmessage with row n.
LEMMA ReceivedRow ==
    ASSUME NEW c, received[c] \in Seq(Nat), NEW n \in Nat,
           received'[c] = Append(received[c], n)
    PROVE  /\ DOMAIN received'[c] = DOMAIN received[c] \cup {Len(received[c]) + 1}
           /\ \A k \in DOMAIN received[c] : received'[c][k] = received[c][k]
                                            /\ k < Len(received[c]) + 1 /\ k \in Nat
           /\ received'[c][Len(received[c]) + 1] = n
           /\ Len(received[c]) + 1 \in Nat
<1> DEFINE s == received[c]
           t == received'[c]
<1>1. s \in Seq(Nat) /\ t = Append(s, n)
  OBVIOUS
<1> HIDE DEF s, t
<1>2. /\ DOMAIN t = DOMAIN s \cup {Len(s) + 1}
      /\ \A k \in DOMAIN s : t[k] = s[k] /\ k < Len(s) + 1 /\ k \in Nat
      /\ t[Len(s) + 1] = n
      /\ Len(s) + 1 \in Nat
  BY <1>1
<1> QED
  BY <1>2 DEF s, t

\* A frame arrives.  A row moves from the wire to the history; the client has
\* what it had.
LEMMA StreamDeliver ==
    ASSUME NEW c, Typed(c), UNCHANGED rows, wire[c] # << >>,
           wire'[c] = Tail(wire[c]),
           received'[c] = IF Head(wire[c]).type = "meter_billed"
                          THEN Append(received[c], Head(wire[c]).row)
                          ELSE received[c],
           channel'[c] = channel[c]
    PROVE  /\ Got(c)' = Got(c)
           /\ DueEncodable(c)' = DueEncodable(c)
           /\ ChannelOK(c) => ChannelOK(c)'
<1> DEFINE h == Head(wire[c])
<1>1. /\ h = wire[c][1] /\ h \in Frame /\ 1 \in DOMAIN wire[c]
      /\ DOMAIN wire[c] = 1..Len(wire[c]) /\ Len(wire[c]) \in Nat \ {0}
      /\ DOMAIN wire'[c] = 1..(Len(wire[c]) - 1)
      /\ \A k \in DOMAIN wire'[c] : k + 1 \in DOMAIN wire[c]
                                    /\ wire'[c][k] = wire[c][k + 1]
  BY DEF Typed
<1>2. h.row \in Nat
  BY <1>1, StreamAssumption DEF Frame
<1> HIDE DEF h
<1>3. Billing(c) = {k + 1 : k \in Billing(c)'}
                   \cup (IF h.type = "meter_billed" THEN {1} ELSE {})
  <2>1. \A k \in DOMAIN wire[c] : k = 1 \/ (k - 1 \in DOMAIN wire'[c] /\ k = (k - 1) + 1)
    BY <1>1
  <2> QED
    BY <1>1, <2>1 DEF Billing
<1>4. InFlight(c) = InFlight(c)'
                    \cup (IF h.type = "meter_billed" THEN {h.row} ELSE {})
  BY <1>1, <1>3 DEF InFlight, Billing
<1>5. Range(received'[c]) = Range(received[c])
                    \cup (IF h.type = "meter_billed" THEN {h.row} ELSE {})
  <2>1. CASE h.type = "meter_billed"
    <3>1. received'[c] = Append(received[c], h.row)
      BY <2>1 DEF h
    <3>2. /\ DOMAIN received'[c] = DOMAIN received[c] \cup {Len(received[c]) + 1}
          /\ \A k \in DOMAIN received[c] : received'[c][k] = received[c][k]
          /\ received'[c][Len(received[c]) + 1] = h.row
      BY <1>2, <3>1, ReceivedRow DEF Typed
    <3> QED
      BY <2>1, <3>2 DEF Range
  <2>2. CASE h.type # "meter_billed"
    BY <2>2 DEF h
  <2> QED
    BY <2>1, <2>2
<1>6. Got(c)' = Got(c)
  BY <1>4, <1>5 DEF Got
<1>7. DueEncodable(c)' = DueEncodable(c)
  BY DEF DueEncodable, Due
<1>8. ASSUME InOrder(c) PROVE InOrder(c)'
  <2>1. \A j, k \in Billing(c)' : j < k => wire'[c][j].row < wire'[c][k].row
    <3> SUFFICES ASSUME NEW j \in Billing(c)', NEW k \in Billing(c)', j < k
                 PROVE  wire'[c][j].row < wire'[c][k].row
      OBVIOUS
    <3>1. j + 1 \in Billing(c) /\ k + 1 \in Billing(c) /\ j + 1 < k + 1
      BY <1>1, <1>3 DEF Billing
    <3>2. wire'[c][j] = wire[c][j + 1] /\ wire'[c][k] = wire[c][k + 1]
      BY <1>1 DEF Billing
    <3> QED
      BY <1>8, <3>1, <3>2 DEF InOrder
  <2>2. CASE h.type = "meter_billed"
    <3>1. received'[c] = Append(received[c], h.row)
      BY <2>2 DEF h
    <3>2. /\ DOMAIN received'[c] = DOMAIN received[c] \cup {Len(received[c]) + 1}
          /\ \A k \in DOMAIN received[c] : received'[c][k] = received[c][k]
                                           /\ k < Len(received[c]) + 1 /\ k \in Nat
          /\ received'[c][Len(received[c]) + 1] = h.row
          /\ Len(received[c]) + 1 \in Nat
      BY <1>2, <3>1, ReceivedRow DEF Typed
    <3>3. \A k \in DOMAIN received[c] : received[c][k] < h.row
      <4>1. h.row \in InFlight(c)
        BY <1>4, <2>2
      <4> QED
        BY <1>8, <4>1 DEF InOrder, Range
    <3>4. \A j, k \in DOMAIN received'[c] : j < k => received'[c][j] < received'[c][k]
      <4> SUFFICES ASSUME NEW j \in DOMAIN received'[c], NEW k \in DOMAIN received'[c], j < k
                   PROVE  received'[c][j] < received'[c][k]
        OBVIOUS
      <4>1. j \in DOMAIN received[c]
        BY <3>2
      <4>2. CASE k \in DOMAIN received[c]
        BY <1>8, <3>2, <4>1, <4>2 DEF InOrder
      <4>3. CASE k = Len(received[c]) + 1
        BY <3>2, <3>3, <4>1, <4>3
      <4> QED
        BY <3>2, <4>2, <4>3
    <3>5. \A n \in InFlight(c)' : h.row < n
      <4> SUFFICES ASSUME NEW k \in Billing(c)' PROVE h.row < wire'[c][k].row
        BY DEF InFlight
      <4>1. k + 1 \in Billing(c) /\ 1 \in Billing(c) /\ 1 < k + 1
            /\ wire'[c][k] = wire[c][k + 1]
        BY <1>1, <1>3, <2>2 DEF Billing
      <4> QED
        BY <1>1, <1>8, <4>1 DEF InOrder
    <3>6. \A m \in Range(received'[c]), n \in InFlight(c)' : m < n
      BY <1>4, <1>5, <1>8, <3>5 DEF InOrder
    <3> QED
      BY <2>1, <3>4, <3>6 DEF InOrder
  <2>3. CASE h.type # "meter_billed"
    <3>1. received'[c] = received[c]
      BY <2>3 DEF h
    <3>2. \A m \in Range(received'[c]), n \in InFlight(c)' : m < n
      BY <1>4, <1>8, <3>1 DEF InOrder
    <3> QED
      BY <1>8, <2>1, <3>1, <3>2 DEF InOrder
  <2> QED
    BY <2>2, <2>3
<1> QED
  BY <1>6, <1>7, <1>8 DEF ChannelOK

----------------------------------------------------------------------------
(* The invariant, action by action.                                        *)

LEMMA ChannelsOf ==
    ASSUME StreamInv, NEW c \in DOMAIN channel
    PROVE  ChannelOK(c) /\ c \in Client
BY DEF StreamInv, StreamIsChannel, ChannelOK, TypeOK

\* The parts of the invariant after a step.
LEMMA Assemble ==
    ASSUME TypeOK', RowsInv', ConnectionInv', SilenceInv', ChartInv',
           ChartInOrder', \A c \in DOMAIN channel' : ChannelOK(c)'
    PROVE  StreamInv'
<1>1. \A c \in DOMAIN channel' : Connected(c)' => Got(c)' = DueEncodable(c)'
  BY DEF ConnectionInv, Connected
<1> QED
  BY <1>1 DEF StreamInv, StreamIsChannel, ChannelOK

\* The indexer and the pages are not concerned.
LEMMA HubOnly ==
    ASSUME StreamInv, UNCHANGED <<rows, received, page>>
    PROVE  RowsInv' /\ ChartInv' /\ ChartInOrder'
BY DEF StreamInv, RowsInv, ChartInv, ChartInOrder

\* A page connects: it has nothing and nothing is due to it.
LEMMA ConnectKeeps ==
    ASSUME StreamInv, NEW c \in Client, NEW param \in Param, Connect(c, param)
    PROVE  StreamInv'
<1> USE DEF Connect
<1>0. TypeOK /\ RowsInv /\ ConnectionInv /\ SilenceInv
  BY DEF StreamInv
<1>1. deviceFilter(param) \in Device \cup {Everything} /\ Len(rows) \in 0..MaxRows
  BY <1>0 DEF deviceFilter, RowsInv, TypeOK
<1>2. /\ DOMAIN socket' = DOMAIN socket \cup {c}
      /\ socket'[c] = NewSocket
      /\ \A q \in DOMAIN socket \ {c} : socket'[q] = socket[q]
  OBVIOUS
<1>3. /\ DOMAIN channel' = DOMAIN channel \cup {c}
      /\ channel'[c] = [filter |-> deviceFilter(param), since |-> Len(rows)]
      /\ \A q \in DOMAIN channel \ {c} : channel'[q] = channel[q]
  OBVIOUS
<1>4. /\ wire'[c] = <<hello>> /\ browser'[c] = "open"
      /\ \A q \in Client \ {c} : wire'[q] = wire[q] /\ browser'[q] = browser[q]
  BY <1>0 DEF TypeOK
<1>5. c \notin DOMAIN channel /\ c \notin DOMAIN socket /\ received[c] = << >>
  BY <1>0 DEF ConnectionInv, TypeOK
<1>6. TypeOK'
  <2>1. NewSocket \in Socket /\ socket' \in [DOMAIN socket' -> Socket]
    BY <1>0, <1>2 DEF NewSocket, Socket, TypeOK
  <2>2. channel' \in [DOMAIN channel' -> Channel]
    BY <1>0, <1>1, <1>3 DEF Channel, TypeOK
  <2>3. wire' \in [Client -> Seq(Frame)]
    <3>1. hello \in Frame
      BY StreamAssumption DEF hello, Frame
    <3>2. <<hello>> \in Seq(Frame)
      BY <3>1
    <3> QED
      BY <1>0, <3>2 DEF TypeOK
  <2> QED
    BY <1>0, <1>2, <1>3, <2>1, <2>2, <2>3 DEF TypeOK
<1>7. Got(c)' = {} /\ InOrder(c)' /\ DueEncodable(c)' = {}
  <2>1. Billing(c)' = {}
    BY <1>4 DEF Billing, hello
  <2>2. InFlight(c)' = {}
    BY <2>1 DEF InFlight
  <2>3. Range(received'[c]) = {}
    BY <1>5 DEF Range
  <2>4. DueEncodable(c)' = {}
    BY <1>0, <1>3 DEF DueEncodable, Due, TypeOK
  <2>5. InOrder(c)'
    BY <1>5, <2>1, <2>2, <2>3 DEF InOrder
  <2> QED
    BY <2>2, <2>3, <2>4, <2>5 DEF Got
<1>8. \A q \in DOMAIN channel : /\ Got(q)' = Got(q)
                                /\ DueEncodable(q)' = DueEncodable(q)
                                /\ ChannelOK(q)'
  <2> SUFFICES ASSUME NEW q \in DOMAIN channel
               PROVE  /\ Got(q)' = Got(q)
                      /\ DueEncodable(q)' = DueEncodable(q)
                      /\ ChannelOK(q)'
    OBVIOUS
  <2>1. q # c /\ q \in Client /\ ChannelOK(q)
    BY <1>5, ChannelsOf
  <2> QED
    BY <1>3, <1>4, <2>1, StreamSame
<1>9. \A q \in DOMAIN channel' : ChannelOK(q)'
  BY <1>3, <1>7, <1>8 DEF ChannelOK
<1>10. ConnectionInv'
  <2>1. \A q \in Client : browser'[q] = "open" => Connected(q)'
    BY <1>0, <1>2, <1>4 DEF ConnectionInv, Connected, NewSocket
  <2>2. \A q \in DOMAIN socket' : browser'[q] # "cut"
    BY <1>0, <1>2, <1>4, <1>5 DEF ConnectionInv, TypeOK
  <2>3. \A q \in DOMAIN socket' :
            socket'[q].open /\ browser'[q] # "lost" => Got(q)' = DueEncodable(q)'
    <3>1. DOMAIN socket \subseteq DOMAIN channel /\ DOMAIN channel \subseteq Client
      BY <1>0 DEF TypeOK
    <3>2. ASSUME NEW q \in DOMAIN socket, socket'[q].open, browser'[q] # "lost"
          PROVE  Got(q)' = DueEncodable(q)'
      <4>1. q \in DOMAIN channel /\ q \in Client /\ q # c
        BY <1>5, <3>1
      <4>2. socket[q].open /\ browser[q] # "lost"
        BY <1>2, <1>4, <3>2, <4>1
      <4> QED
        BY <1>0, <1>8, <4>1, <4>2 DEF ConnectionInv
    <3>3. Got(c)' = DueEncodable(c)'
      BY <1>7
    <3> QED
      BY <1>2, <3>2, <3>3
  <2>4. DOMAIN channel' = {q \in Client : browser'[q] # "absent"}
    BY <1>0, <1>3, <1>4 DEF ConnectionInv, TypeOK
  <2>5. \A q \in DOMAIN channel' : channel'[q].since <= Len(rows)'
    BY <1>0, <1>1, <1>3 DEF ConnectionInv
  <2>6. \A q \in Client \ DOMAIN channel' : wire'[q] = << >> /\ received'[q] = << >>
    BY <1>0, <1>3, <1>4 DEF ConnectionInv
  <2> QED
    BY <2>1, <2>2, <2>3, <2>4, <2>5, <2>6 DEF ConnectionInv
<1>11. SilenceInv'
  <2> SUFFICES ASSUME NEW q \in Client, browser'[q] = "open", ~socket'[q].isAlive
               PROVE  pong'[q] \/ \E k \in DOMAIN wire'[q] : wire'[q][k] = ping
    BY DEF SilenceInv
  <2>1. q # c
    BY <1>2 DEF NewSocket
  <2>2. q \in DOMAIN socket
    BY <1>0, <1>4, <2>1 DEF ConnectionInv, Connected
  <2> QED
    BY <1>0, <1>2, <1>4, <2>1, <2>2 DEF SilenceInv
<1> QED
  BY <1>6, <1>9, <1>10, <1>11, HubOnly, Assemble

\* The hook's cleanup.
LEMMA CloseClientKeeps ==
    ASSUME StreamInv, NEW c \in Client, CloseClient(c)
    PROVE  StreamInv'
<1> USE DEF CloseClient, net
<1>0. TypeOK /\ RowsInv /\ ConnectionInv /\ SilenceInv
  BY DEF StreamInv
<1>1. browser'[c] = "closed" /\ \A q \in Client \ {c} : browser'[q] = browser[q]
  BY <1>0 DEF TypeOK
<1>2. TypeOK'
  BY <1>0 DEF TypeOK
<1>3. \A q : /\ Got(q)' = Got(q)
             /\ DueEncodable(q)' = DueEncodable(q)
             /\ ChannelOK(q) => ChannelOK(q)'
  BY StreamSame
<1>4. ConnectionInv'
  <2>1. browser[c] # "absent" /\ browser[c] # "lost"
    OBVIOUS
  <2>2. \A q \in Client : browser'[q] = "open" => Connected(q)'
    BY <1>0, <1>1 DEF ConnectionInv, Connected
  <2>3. \A q \in DOMAIN socket' : browser'[q] # "cut"
    BY <1>0, <1>1 DEF ConnectionInv, TypeOK
  <2>4. \A q \in DOMAIN socket' :
            socket'[q].open /\ browser'[q] # "lost" => Got(q)' = DueEncodable(q)'
    BY <1>0, <1>1, <1>3, <2>1 DEF ConnectionInv, TypeOK
  <2>5. DOMAIN channel' = {q \in Client : browser'[q] # "absent"}
    BY <1>0, <1>1, <2>1 DEF ConnectionInv
  <2> QED
    BY <1>0, <2>2, <2>3, <2>4, <2>5 DEF ConnectionInv
<1>5. SilenceInv'
  BY <1>0, <1>1 DEF SilenceInv
<1> QED
  BY <1>2, <1>3, <1>4, <1>5, ChannelsOf, HubOnly, Assemble

\* The close frame arrives at the hub.
LEMMA CloseFrameKeeps ==
    ASSUME StreamInv, NEW c \in Client, CloseFrame(c)
    PROVE  StreamInv'
<1> USE DEF CloseFrame, net
<1>0. TypeOK /\ RowsInv /\ ConnectionInv /\ SilenceInv
  BY DEF StreamInv
<1>1. /\ DOMAIN socket' = DOMAIN socket /\ socket' \in [DOMAIN socket -> Socket]
      /\ ~socket'[c].open
      /\ \A q \in DOMAIN socket \ {c} : socket'[q] = socket[q]
  BY <1>0 DEF TypeOK, Socket
<1>2. TypeOK'
  BY <1>0, <1>1 DEF TypeOK
<1>3. \A q : /\ Got(q)' = Got(q)
             /\ DueEncodable(q)' = DueEncodable(q)
             /\ ChannelOK(q) => ChannelOK(q)'
  BY StreamSame
<1>4. ConnectionInv'
  <2>1. \A q \in Client : browser'[q] = "open" => Connected(q)'
    BY <1>0, <1>1 DEF ConnectionInv, Connected
  <2>2. \A q \in DOMAIN socket' :
            socket'[q].open /\ browser'[q] # "lost" => Got(q)' = DueEncodable(q)'
    BY <1>0, <1>1, <1>3 DEF ConnectionInv
  <2> QED
    BY <1>0, <1>1, <2>1, <2>2 DEF ConnectionInv
<1>5. SilenceInv'
  <2> SUFFICES ASSUME NEW q \in Client, browser'[q] = "open", ~socket'[q].isAlive
               PROVE  pong'[q] \/ \E k \in DOMAIN wire'[q] : wire'[q][k] = ping
    BY DEF SilenceInv
  <2>1. q # c /\ q \in DOMAIN socket
    BY <1>0 DEF ConnectionInv, Connected
  <2> QED
    BY <1>0, <1>1, <2>1 DEF SilenceInv
<1> QED
  BY <1>2, <1>3, <1>4, <1>5, ChannelsOf, HubOnly, Assemble

\* The socket of a client that closed it ends.
LEMMA SocketClosedKeeps ==
    ASSUME StreamInv, NEW c \in Client, SocketClosed(c)
    PROVE  StreamInv'
<1> USE DEF SocketClosed
<1>0. TypeOK /\ RowsInv /\ ConnectionInv /\ SilenceInv
  BY DEF StreamInv
<1>1. /\ DOMAIN socket' = DOMAIN socket \ {c}
      /\ \A q \in DOMAIN socket \ {c} : socket'[q] = socket[q]
  BY DEF Without
<1>2. wire'[c] = << >> /\ \A q \in Client \ {c} : wire'[q] = wire[q]
  BY <1>0 DEF TypeOK
<1>3. browser[c] # "open"
  BY <1>0 DEF ConnectionInv, Connected
<1>4. TypeOK'
  <2>1. socket' \in [DOMAIN socket' -> Socket]
    BY <1>0, <1>1 DEF TypeOK, Without
  <2>2. wire' \in [Client -> Seq(Frame)]
    BY <1>0 DEF TypeOK
  <2> QED
    BY <1>0, <1>1, <2>1, <2>2 DEF TypeOK
<1>5. \A q \in DOMAIN channel \ {c} : /\ Got(q)' = Got(q)
                                      /\ DueEncodable(q)' = DueEncodable(q)
                                      /\ ChannelOK(q)'
  BY <1>2, ChannelsOf, StreamSame
<1>6. c \in DOMAIN channel /\ ChannelOK(c)'
  <2>1. c \in DOMAIN channel
    BY <1>0 DEF TypeOK
  <2> QED
    BY <1>0, <1>2, <2>1, ChannelsOf, ClientTypes, StreamCut
<1>7. ConnectionInv'
  <2>1. \A q \in Client : browser'[q] = "open" => Connected(q)'
    BY <1>0, <1>1, <1>3 DEF ConnectionInv, Connected
  <2>2. \A q \in DOMAIN socket' :
            socket'[q].open /\ browser'[q] # "lost" => Got(q)' = DueEncodable(q)'
    BY <1>0, <1>1, <1>5 DEF ConnectionInv, TypeOK
  <2>3. \A q \in Client \ DOMAIN channel' : wire'[q] = << >> /\ received'[q] = << >>
    BY <1>0, <1>2 DEF ConnectionInv
  <2> QED
    BY <1>0, <1>1, <2>1, <2>2, <2>3 DEF ConnectionInv
<1>8. SilenceInv'
  <2> SUFFICES ASSUME NEW q \in Client, browser'[q] = "open", ~socket'[q].isAlive
               PROVE  pong'[q] \/ \E k \in DOMAIN wire'[q] : wire'[q][k] = ping
    BY DEF SilenceInv
  <2>1. q # c /\ q \in DOMAIN socket
    BY <1>0, <1>3 DEF ConnectionInv, Connected
  <2> QED
    BY <1>0, <1>1, <1>2, <2>1 DEF SilenceInv
<1> QED
  BY <1>4, <1>5, <1>6, <1>7, <1>8, HubOnly, Assemble

\* The client vanishes.
LEMMA VanishKeeps ==
    ASSUME StreamInv, NEW c \in Client, Vanish(c)
    PROVE  StreamInv'
<1> USE DEF Vanish
<1>0. TypeOK /\ RowsInv /\ ConnectionInv /\ SilenceInv
  BY DEF StreamInv
<1>1. /\ wire'[c] = << >> /\ browser'[c] = "lost"
      /\ \A q \in Client \ {c} : wire'[q] = wire[q] /\ browser'[q] = browser[q]
  BY <1>0 DEF TypeOK
<1>2. TypeOK'
  BY <1>0 DEF TypeOK
<1>3. c \in DOMAIN channel
  BY <1>0 DEF ConnectionInv
<1>4. \A q \in DOMAIN channel \ {c} : /\ Got(q)' = Got(q)
                                      /\ DueEncodable(q)' = DueEncodable(q)
                                      /\ ChannelOK(q)'
  BY <1>1, ChannelsOf, StreamSame
<1>5. ChannelOK(c)'
  BY <1>0, <1>1, <1>3, ChannelsOf, ClientTypes, StreamCut
<1>6. ConnectionInv'
  <2>1. \A q \in Client : browser'[q] = "open" => Connected(q)'
    BY <1>0, <1>1 DEF ConnectionInv, Connected
  <2>2. \A q \in DOMAIN socket' : browser'[q] # "cut"
    BY <1>0, <1>1 DEF ConnectionInv, TypeOK
  <2>3. \A q \in DOMAIN socket' :
            socket'[q].open /\ browser'[q] # "lost" => Got(q)' = DueEncodable(q)'
    BY <1>0, <1>1, <1>4 DEF ConnectionInv, TypeOK
  <2>4. DOMAIN channel' = {q \in Client : browser'[q] # "absent"}
    BY <1>0, <1>1 DEF ConnectionInv
  <2>5. \A q \in Client \ DOMAIN channel' : wire'[q] = << >> /\ received'[q] = << >>
    BY <1>0, <1>1 DEF ConnectionInv
  <2> QED
    BY <1>0, <2>1, <2>2, <2>3, <2>4, <2>5 DEF ConnectionInv
<1>7. SilenceInv'
  BY <1>0, <1>1 DEF SilenceInv
<1> QED
  BY <1>2, <1>4, <1>5, <1>6, <1>7, HubOnly, Assemble

\* The pong arrives.
LEMMA ReceivePongKeeps ==
    ASSUME StreamInv, NEW c \in Client, ReceivePong(c)
    PROVE  StreamInv'
<1> USE DEF ReceivePong
<1>0. TypeOK /\ RowsInv /\ ConnectionInv /\ SilenceInv
  BY DEF StreamInv
<1>1. /\ DOMAIN socket' = DOMAIN socket /\ socket' \in [DOMAIN socket -> Socket]
      /\ \A q \in DOMAIN socket : socket'[q].open = socket[q].open
      /\ c \in DOMAIN socket => socket'[c].isAlive
      /\ \A q \in DOMAIN socket \ {c} : socket'[q] = socket[q]
  BY <1>0 DEF TypeOK, Socket
<1>2. pong' \in [Client -> BOOLEAN] /\ \A q \in Client \ {c} : pong'[q] = pong[q]
  BY <1>0 DEF TypeOK
<1>3. TypeOK'
  BY <1>0, <1>1, <1>2 DEF TypeOK
<1>4. \A q : /\ Got(q)' = Got(q)
             /\ DueEncodable(q)' = DueEncodable(q)
             /\ ChannelOK(q) => ChannelOK(q)'
  BY StreamSame
<1>5. ConnectionInv'
  <2>1. \A q \in Client : browser'[q] = "open" => Connected(q)'
    BY <1>0, <1>1 DEF ConnectionInv, Connected
  <2>2. \A q \in DOMAIN socket' :
            socket'[q].open /\ browser'[q] # "lost" => Got(q)' = DueEncodable(q)'
    BY <1>0, <1>1, <1>4 DEF ConnectionInv
  <2> QED
    BY <1>0, <1>1, <2>1, <2>2 DEF ConnectionInv
<1>6. SilenceInv'
  <2> SUFFICES ASSUME NEW q \in Client, browser'[q] = "open", ~socket'[q].isAlive
               PROVE  pong'[q] \/ \E k \in DOMAIN wire'[q] : wire'[q][k] = ping
    BY DEF SilenceInv
  <2>1. q # c /\ q \in DOMAIN socket
    BY <1>0, <1>1 DEF ConnectionInv, Connected
  <2> QED
    BY <1>0, <1>1, <1>2, <2>1 DEF SilenceInv
<1> QED
  BY <1>3, <1>4, <1>5, <1>6, ChannelsOf, HubOnly, Assemble

\* The interval timer: sockets still silent are terminated, the others asked.
LEMMA HeartbeatKeeps ==
    ASSUME StreamInv, Heartbeat
    PROVE  StreamInv'
<1> DEFINE silent == {c \in DOMAIN socket : ~socket[c].isAlive}
           others == DOMAIN socket \ silent
<1>0. TypeOK /\ RowsInv /\ ConnectionInv /\ SilenceInv
  BY DEF StreamInv
<1>1. /\ socket' = [c \in others |-> Asked(socket[c])]
      /\ wire' = [c \in Client |->
                    IF c \in silent THEN << >>
                    ELSE IF c \in others /\ browser[c] # "lost"
                    THEN Append(wire[c], ping) ELSE wire[c]]
      /\ browser' = [c \in Client |->
                       IF c \in silent /\ browser[c] = "open" THEN "cut"
                       ELSE browser[c]]
      /\ UNCHANGED <<rows, channel, pong, received, page>>
  BY DEF Heartbeat
<1>2. /\ silent \subseteq DOMAIN socket /\ others \subseteq DOMAIN socket
      /\ silent \cap others = {} /\ DOMAIN socket = silent \cup others
      /\ DOMAIN socket \subseteq DOMAIN channel /\ DOMAIN channel \subseteq Client
  BY <1>0 DEF TypeOK
<1> HIDE DEF silent, others
<1>3. /\ DOMAIN socket' = others /\ socket' \in [others -> Socket]
      /\ \A q \in others : socket'[q].open = socket[q].open
  BY <1>0, <1>1, <1>2 DEF TypeOK, Asked, Socket
<1>4. ping \in Frame
  BY StreamAssumption DEF ping, Frame
<1>5. wire' \in [Client -> Seq(Frame)]
  <2> SUFFICES ASSUME NEW q \in Client PROVE wire'[q] \in Seq(Frame)
    BY <1>1
  <2>1. wire[q] \in Seq(Frame)
    BY <1>0 DEF TypeOK
  <2>2. Append(wire[q], ping) \in Seq(Frame)
    BY <1>4, <2>1
  <2> QED
    BY <1>1, <2>1, <2>2
<1>6. TypeOK'
  BY <1>0, <1>1, <1>2, <1>3, <1>5 DEF TypeOK
<1>7. ASSUME NEW q \in DOMAIN channel
      PROVE  /\ ChannelOK(q)'
             /\ q \notin silent => /\ Got(q)' = Got(q)
                                   /\ DueEncodable(q)' = DueEncodable(q)
  <2>1. q \in Client /\ ChannelOK(q) /\ Typed(q)
    BY <1>0, ChannelsOf, ClientTypes
  <2>2. UNCHANGED rows /\ received'[q] = received[q] /\ channel'[q] = channel[q]
    BY <1>1
  <2>3. CASE q \in silent
    <3>1. wire'[q] = << >>
      BY <1>1, <2>1, <2>3
    <3> QED
      BY <2>1, <2>2, <2>3, <3>1, StreamCut
  <2>4. CASE q \notin silent /\ q \in others /\ browser[q] # "lost"
    <3>1. wire'[q] = Append(wire[q], ping)
      BY <1>1, <2>1, <2>4
    <3> QED
      BY <2>1, <2>2, <3>1, StreamPing
  <2>5. CASE q \notin silent /\ ~(q \in others /\ browser[q] # "lost")
    <3>1. wire'[q] = wire[q]
      BY <1>1, <2>1, <2>5
    <3> QED
      BY <2>1, <2>2, <3>1, StreamSame
  <2> QED
    BY <2>3, <2>4, <2>5
<1>8. \A q \in Client : browser'[q] = "open" =>
          browser[q] = "open" /\ q \in others /\ socket[q].open
  BY <1>0, <1>1, <1>2 DEF ConnectionInv, Connected
<1>9. ConnectionInv'
  <2>1. \A q \in Client : browser'[q] = "open" => Connected(q)'
    BY <1>3, <1>8 DEF Connected
  <2>2. \A q \in DOMAIN socket' : browser'[q] # "cut"
    BY <1>0, <1>1, <1>2, <1>3 DEF ConnectionInv
  <2>3. ASSUME NEW q \in DOMAIN socket', socket'[q].open, browser'[q] # "lost"
        PROVE  Got(q)' = DueEncodable(q)'
    <3>1. q \in others /\ q \in DOMAIN channel /\ q \in Client /\ q \notin silent
      BY <1>2, <1>3
    <3>2. socket[q].open /\ browser[q] # "lost"
      BY <1>1, <1>3, <2>3, <3>1
    <3> QED
      BY <1>0, <1>2, <1>7, <3>1, <3>2 DEF ConnectionInv
  <2>4. DOMAIN channel' = {q \in Client : browser'[q] # "absent"}
    BY <1>0, <1>1 DEF ConnectionInv
  <2>5. \A q \in Client \ DOMAIN channel' : wire'[q] = << >> /\ received'[q] = << >>
    BY <1>0, <1>1, <1>2 DEF ConnectionInv
  <2> QED
    BY <1>0, <1>1, <2>1, <2>2, <2>3, <2>4, <2>5 DEF ConnectionInv
<1>10. SilenceInv'
  <2> SUFFICES ASSUME NEW q \in Client, browser'[q] = "open"
               PROVE  \E k \in DOMAIN wire'[q] : wire'[q][k] = ping
    BY DEF SilenceInv
  <2>1. wire'[q] = Append(wire[q], ping)
    BY <1>1, <1>2, <1>8
  <2>2. wire[q] \in Seq(Frame)
    BY <1>0 DEF TypeOK
  <2>3. /\ Len(wire[q]) + 1 \in DOMAIN Append(wire[q], ping)
        /\ Append(wire[q], ping)[Len(wire[q]) + 1] = ping
    BY <1>4, <2>2
  <2> QED
    BY <2>1, <2>3
<1>11. RowsInv' /\ ChartInv' /\ ChartInOrder'
  BY <1>1, HubOnly
<1> QED
  BY <1>1, <1>6, <1>7, <1>9, <1>10, <1>11, Assemble

\* A row is announced and sent to those whose channel it is of.
LEMMA PublishKeeps ==
    ASSUME StreamInv, NEW row \in Row, Publish(row)
    PROVE  StreamInv'
<1> DEFINE n == Len(rows) + 1
<1>0. TypeOK /\ RowsInv /\ ConnectionInv /\ SilenceInv
  BY DEF StreamInv
<1>1. /\ Len(rows) < MaxRows /\ Announceable(row) /\ rows' = Append(rows, row)
      /\ UNCHANGED <<socket, channel, pong, browser, received, page>>
  BY DEF Publish
<1>2. /\ rows \in Seq(Row) /\ rows' \in Seq(Row) /\ n \in Nat /\ n <= MaxRows
      /\ Len(rows') = n /\ DOMAIN rows = 1..Len(rows)
      /\ DOMAIN rows' = DOMAIN rows \cup {n} /\ rows'[n] = row
      /\ \A m \in DOMAIN rows : rows'[m] = rows[m] /\ m < n /\ m \in Nat
  BY <1>0, <1>1, StreamAssumption DEF TypeOK
<1>3. meter_billed(n) \in Frame
  BY <1>2, StreamAssumption DEF meter_billed, Frame
<1> DEFINE sent == {q \in DOMAIN socket :
                      /\ Encodable(row) /\ socket[q].open
                      /\ Wants(channel[q].filter, row) /\ browser[q] # "lost"}
<1>4. /\ \A q \in Client : wire'[q] = IF q \in sent THEN Append(wire[q], meter_billed(n))
                                      ELSE wire[q]
      /\ DOMAIN wire' = Client /\ wire' = [q \in Client |-> wire'[q]]
  <2>1. CASE Encodable(row)
    BY <2>1 DEF Publish, Send, Targets
  <2>2. CASE ~Encodable(row)
    BY <1>0, <2>2 DEF Publish, TypeOK
  <2> QED
    BY <2>1, <2>2
<1> HIDE DEF n
<1>5. DOMAIN socket \subseteq DOMAIN channel /\ DOMAIN channel \subseteq Client
  BY <1>0 DEF TypeOK
<1>6. RowsInv'
  <2>1. Len(rows') <= MaxRows
    BY <1>2
  <2>2. ASSUME NEW k \in DOMAIN rows', NEW e \in 1..(rows'[k].event - 1)
        PROVE  \E m \in 1..(k - 1) : rows'[m].event = e
    <3>1. CASE k \in DOMAIN rows
      <4>1. PICK m \in 1..(k - 1) : rows[m].event = e
        BY <1>0, <1>2, <2>2, <3>1 DEF RowsInv
      <4>2. m \in DOMAIN rows
        BY <1>2, <3>1, <4>1
      <4> QED
        BY <1>2, <4>1, <4>2
    <3>2. CASE k = n
      <4>1. e \in Announced
        BY <1>1, <1>2, <2>2, <3>2 DEF Announceable
      <4>2. PICK m \in DOMAIN rows : rows[m].event = e
        BY <4>1 DEF Announced
      <4>3. m \in 1..(n - 1)
        BY <1>2, <4>2 DEF n
      <4> QED
        BY <1>2, <3>2, <4>2, <4>3
    <3> QED
      BY <1>2, <3>1, <3>2
  <2>3. ASSUME NEW k \in DOMAIN rows', NEW m \in DOMAIN rows',
               rows'[m].event = rows'[k].event
        PROVE  rows'[m] = rows'[k]
    BY <1>0, <1>1, <1>2, <2>3 DEF RowsInv, Announceable
  <2> QED
    BY <2>1, <2>2, <2>3 DEF RowsInv
<1>7. TypeOK'
  <2>1. wire' \in [Client -> Seq(Frame)]
    <3> SUFFICES ASSUME NEW q \in Client PROVE wire'[q] \in Seq(Frame)
      BY <1>4
    <3>1. wire[q] \in Seq(Frame)
      BY <1>0 DEF TypeOK
    <3>2. Append(wire[q], meter_billed(n)) \in Seq(Frame)
      BY <1>3, <3>1
    <3> QED
      BY <1>4, <3>1, <3>2
  <2>2. received' \in [Client -> Seq(DOMAIN rows')]
    <3>1. Seq(DOMAIN rows) \subseteq Seq(DOMAIN rows')
      BY <1>2, SeqMonotonic
    <3> QED
      BY <1>0, <1>1, <3>1 DEF TypeOK
  <2> QED
    BY <1>0, <1>1, <1>2, <2>1, <2>2 DEF TypeOK
<1>8. ASSUME NEW q \in DOMAIN channel
      PROVE  /\ ChannelOK(q)'
             /\ (q \in DOMAIN socket /\ socket[q].open /\ browser[q] # "lost")
                   => Got(q)' = DueEncodable(q)'
  <2>1. q \in Client /\ ChannelOK(q) /\ Typed(q)
    BY <1>0, ChannelsOf, ClientTypes
  <2>2. channel[q].since \in Nat /\ channel[q].since < n
    BY <1>0, <1>2 DEF ConnectionInv, TypeOK, Channel, n
  <2>3. DueEncodable(q)' = DueEncodable(q) \cup
            (IF Encodable(row) /\ Wants(channel[q].filter, row) THEN {n} ELSE {})
    BY <1>1, <1>2, <2>2 DEF DueEncodable, Due
  <2>4. DueEncodable(q) \subseteq DOMAIN rows
    BY DEF DueEncodable, Due
  <2>5. \A m \in Got(q) : m < n /\ m \in Nat
    BY <1>2, <2>1, <2>4 DEF ChannelOK
  <2>6. CASE q \in sent
    <3>1. Got(q) = DueEncodable(q)
      BY <1>0, <2>6 DEF ConnectionInv
    <3>2. wire'[q] = Append(wire[q], meter_billed(n)) /\ received'[q] = received[q]
      BY <1>1, <1>4, <2>1, <2>6
    <3>3. InOrder(q)' /\ Got(q)' = Got(q) \cup {n}
      BY <1>2, <1>3, <2>1, <2>5, <3>2, StreamRow DEF ChannelOK
    <3>4. DueEncodable(q)' = DueEncodable(q) \cup {n}
      BY <2>3, <2>6
    <3> QED
      BY <3>1, <3>3, <3>4 DEF ChannelOK
  <2>7. CASE q \notin sent
    <3>1. wire'[q] = wire[q] /\ received'[q] = received[q]
      BY <1>1, <1>4, <2>1, <2>7
    <3>2. Billing(q)' = Billing(q) /\ InFlight(q)' = InFlight(q)
      BY <3>1 DEF Billing, InFlight
    <3>3. Got(q)' = Got(q)
      BY <3>1, <3>2 DEF Got
    <3>4. InOrder(q)'
      BY <2>1, <3>1, <3>2 DEF ChannelOK, InOrder
    <3>5. ASSUME NEW i \in Got(q), NEW m \in DueEncodable(q)', m < i
          PROVE  m \in Got(q)
      <4>1. m # n
        BY <1>2, <2>5, <3>5
      <4> QED
        BY <2>1, <2>3, <3>5, <4>1 DEF ChannelOK
    <3>6. ChannelOK(q)'
      BY <2>1, <2>3, <3>3, <3>4, <3>5 DEF ChannelOK
    <3>7. ASSUME q \in DOMAIN socket, socket[q].open, browser[q] # "lost"
          PROVE  Got(q)' = DueEncodable(q)'
      <4>1. ~(Encodable(row) /\ Wants(channel[q].filter, row))
        BY <2>7, <3>7
      <4>2. Got(q) = DueEncodable(q)
        BY <1>0, <3>7 DEF ConnectionInv
      <4> QED
        BY <2>3, <3>3, <4>1, <4>2
    <3> QED
      BY <3>6, <3>7
  <2> QED
    BY <2>6, <2>7
<1> HIDE DEF sent
<1>9. ConnectionInv'
  <2>1. \A q \in Client : browser'[q] = "open" => Connected(q)'
    BY <1>0, <1>1 DEF ConnectionInv, Connected
  <2>2. \A q \in DOMAIN socket' :
            socket'[q].open /\ browser'[q] # "lost" => Got(q)' = DueEncodable(q)'
    BY <1>1, <1>5, <1>8
  <2>3. \A q \in DOMAIN channel' : channel'[q].since <= Len(rows)'
    <3> SUFFICES ASSUME NEW q \in DOMAIN channel
                 PROVE  channel[q].since <= Len(rows')
      BY <1>1
    <3>1. channel[q].since \in Nat /\ channel[q].since <= Len(rows)
      BY <1>0 DEF ConnectionInv, TypeOK, Channel
    <3> QED
      BY <1>2, <3>1 DEF n
  <2>4. \A q \in Client \ DOMAIN channel' : wire'[q] = << >> /\ received'[q] = << >>
    BY <1>0, <1>1, <1>4, <1>5 DEF ConnectionInv, sent
  <2> QED
    BY <1>0, <1>1, <2>1, <2>2, <2>3, <2>4 DEF ConnectionInv
<1>10. SilenceInv'
  <2> SUFFICES ASSUME NEW q \in Client, NEW k \in DOMAIN wire[q], wire[q][k] = ping
               PROVE  k \in DOMAIN wire'[q] /\ wire'[q][k] = ping
    BY <1>0, <1>1 DEF SilenceInv
  <2>1. wire[q] \in Seq(Frame)
    BY <1>0 DEF TypeOK
  <2>2. /\ k \in DOMAIN Append(wire[q], meter_billed(n))
        /\ Append(wire[q], meter_billed(n))[k] = wire[q][k]
    BY <1>3, <2>1
  <2> QED
    BY <1>4, <2>2
<1>11. ChartInv' /\ ChartInOrder'
  BY <1>1 DEF StreamInv, ChartInv, ChartInOrder
<1> QED
  BY <1>1, <1>6, <1>7, <1>8, <1>9, <1>10, <1>11, Assemble

\* A frame arrives at the page.
LEMMA DeliverKeeps ==
    ASSUME StreamInv, NEW c \in Client, Deliver(c)
    PROVE  StreamInv'
<1> DEFINE h == Head(wire[c])
           billed == h.type = "meter_billed"
<1>0. TypeOK /\ RowsInv /\ ConnectionInv /\ SilenceInv /\ ChartInv /\ ChartInOrder
  BY DEF StreamInv
<1>1. /\ browser[c] = "open" /\ wire[c] # << >>
      /\ wire' = [wire EXCEPT ![c] = Tail(wire[c])]
      /\ pong' = [pong EXCEPT ![c] = pong[c] \/ h.type = "ping"]
      /\ UNCHANGED <<rows, socket, channel, browser>>
  BY DEF Deliver
<1>2. /\ billed => /\ received' = [received EXCEPT ![c] = Append(received[c], h.row)]
                   /\ page' = [page EXCEPT ![c].event = Len(received[c]) + 1]
      /\ ~billed => UNCHANGED <<received, page>>
  BY DEF Deliver
<1>3. c \in DOMAIN channel /\ ChannelOK(c) /\ Typed(c)
  BY <1>0, <1>1, ChannelsOf, ClientTypes DEF ConnectionInv
<1>4. h = wire[c][1] /\ h \in Frame /\ 1 \in DOMAIN wire[c] /\ Tail(wire[c]) \in Seq(Frame)
  BY <1>1, <1>3 DEF Typed
<1>5. billed => h.row \in DOMAIN rows
  BY <1>3, <1>4 DEF ChannelOK, Got, InFlight, Billing, DueEncodable, Due
<1>6. /\ wire' \in [Client -> Seq(Frame)] /\ wire'[c] = Tail(wire[c])
      /\ \A q \in Client \ {c} : wire'[q] = wire[q]
  BY <1>0, <1>1, <1>4 DEF TypeOK
<1>7. /\ received' \in [Client -> Seq(DOMAIN rows)]
      /\ received'[c] = IF billed THEN Append(received[c], h.row) ELSE received[c]
      /\ \A q \in Client \ {c} : received'[q] = received[q]
  <2>1. received \in [Client -> Seq(DOMAIN rows)]
    BY <1>0 DEF TypeOK
  <2>2. CASE billed
    <3>1. Append(received[c], h.row) \in Seq(DOMAIN rows)
      BY <1>5, <2>1, <2>2, AppendProperties
    <3> QED
      BY <1>2, <2>1, <2>2, <3>1
  <2>3. CASE ~billed
    BY <1>2, <2>1, <2>3
  <2> QED
    BY <2>2, <2>3
<1>8. Len(received[c]) \in Nat
  BY <1>3 DEF Typed
<1>9. /\ page' \in [Client -> Page]
      /\ page'[c].rendered = page[c].rendered /\ page'[c].samples = page[c].samples
      /\ page'[c].event = IF billed THEN Len(received[c]) + 1 ELSE page[c].event
      /\ \A q \in Client \ {c} : page'[q] = page[q]
  <2>1. page \in [Client -> Page]
    BY <1>0 DEF TypeOK
  <2>2. CASE billed
    <3> DEFINE l == Len(received[c]) + 1
    <3>1. page' = [page EXCEPT ![c].event = l] /\ l \in Nat
      BY <1>2, <1>8, <2>2
    <3> HIDE DEF l
    <3>2. /\ page' \in [Client -> Page]
          /\ page'[c].rendered = page[c].rendered /\ page'[c].samples = page[c].samples
          /\ page'[c].event = l
          /\ \A q \in Client \ {c} : page'[q] = page[q]
      BY <2>1, <3>1 DEF Page
    <3> QED
      BY <2>2, <3>2 DEF l
  <2>3. CASE ~billed
    BY <1>2, <2>1, <2>3
  <2> QED
    BY <2>2, <2>3
<1>10. TypeOK'
  <2>1. pong' \in [Client -> BOOLEAN]
    BY <1>0, <1>1 DEF TypeOK
  <2> QED
    BY <1>0, <1>1, <1>6, <1>7, <1>9, <2>1 DEF TypeOK
<1>11. \A q \in DOMAIN channel : /\ Got(q)' = Got(q)
                                 /\ DueEncodable(q)' = DueEncodable(q)
                                 /\ ChannelOK(q)'
  <2>1. /\ Got(c)' = Got(c)
        /\ DueEncodable(c)' = DueEncodable(c)
        /\ ChannelOK(c)'
    BY <1>1, <1>3, <1>6, <1>7, StreamDeliver
  <2>2. ASSUME NEW q \in DOMAIN channel \ {c}
        PROVE  /\ Got(q)' = Got(q)
               /\ DueEncodable(q)' = DueEncodable(q)
               /\ ChannelOK(q)'
    <3>1. q \in Client /\ ChannelOK(q)
      BY ChannelsOf
    <3> QED
      BY <1>1, <1>6, <1>7, <3>1, StreamSame
  <2> QED
    BY <2>1, <2>2
<1>12. ConnectionInv'
  <2>1. \A q \in Client : browser'[q] = "open" => Connected(q)'
    BY <1>0, <1>1 DEF ConnectionInv, Connected
  <2>2. \A q \in DOMAIN socket' :
            socket'[q].open /\ browser'[q] # "lost" => Got(q)' = DueEncodable(q)'
    BY <1>0, <1>1, <1>11 DEF ConnectionInv, TypeOK
  <2>3. \A q \in Client \ DOMAIN channel' : wire'[q] = << >> /\ received'[q] = << >>
    BY <1>0, <1>1, <1>3, <1>6, <1>7 DEF ConnectionInv
  <2> QED
    BY <1>0, <1>1, <2>1, <2>2, <2>3 DEF ConnectionInv
<1>13. SilenceInv'
  <2> SUFFICES ASSUME NEW q \in Client, browser[q] = "open", ~socket[q].isAlive
               PROVE  pong'[q] \/ \E k \in DOMAIN wire'[q] : wire'[q][k] = ping
    BY <1>1 DEF SilenceInv
  <2>1. pong[q] \/ \E k \in DOMAIN wire[q] : wire[q][k] = ping
    BY <1>0 DEF SilenceInv
  <2>2. CASE q # c
    BY <1>0, <1>1, <1>6, <2>1, <2>2 DEF TypeOK
  <2>3. CASE q = c /\ (pong[c] \/ h.type = "ping")
    BY <1>0, <1>1, <2>3 DEF TypeOK
  <2>4. CASE q = c /\ ~pong[c] /\ h.type # "ping"
    <3>1. PICK k \in DOMAIN wire[c] : wire[c][k] = ping
      BY <2>1, <2>4
    <3>2. k # 1
      BY <1>4, <2>4, <3>1 DEF ping
    <3>3. k - 1 \in DOMAIN Tail(wire[c]) /\ Tail(wire[c])[k - 1] = wire[c][k]
      BY <1>1, <1>3, <3>2 DEF Typed
    <3> QED
      BY <1>6, <2>4, <3>1, <3>3
  <2> QED
    BY <2>2, <2>3, <2>4
<1>14. ChartInv' /\ ChartInOrder'
  <2>1. /\ page'[c].rendered <= page'[c].event
        /\ page'[c].event <= Len(received'[c])
    <3>1. /\ page[c].rendered \in Nat /\ page[c].event \in Nat
          /\ page[c].rendered <= page[c].event /\ page[c].event <= Len(received[c])
      BY <1>0 DEF ChartInv, TypeOK, Page
    <3>2. CASE billed
      <4>1. Len(received'[c]) = Len(received[c]) + 1
        BY <1>3, <1>5, <1>7, <3>2 DEF Typed
      <4> QED
        BY <1>8, <1>9, <3>1, <3>2, <4>1
    <3>3. CASE ~billed
      BY <1>7, <1>9, <3>1, <3>3
    <3> QED
      BY <3>2, <3>3
  <2>2. ChartInv'
    BY <1>0, <1>7, <1>9, <2>1 DEF ChartInv
  <2>3. ChartInOrder'
    BY <1>0, <1>9 DEF ChartInOrder
  <2> QED
    BY <2>2, <2>3
<1>15. RowsInv'
  BY <1>0, <1>1 DEF RowsInv
<1> QED
  BY <1>1, <1>10, <1>11, <1>12, <1>13, <1>14, <1>15, Assemble

\* slice(-60) keeps a run of the newest points.
LEMMA SliceFacts ==
    ASSUME NEW s \in Seq(Nat)
    PROVE  /\ Slice(s) \in Seq(Nat)
           /\ \E o \in Nat : \A k \in DOMAIN Slice(s) :
                 k + o \in DOMAIN s /\ Slice(s)[k] = s[k + o]
<1> DEFINE m == IF Len(s) > MaxSamples THEN Len(s) - MaxSamples + 1 ELSE 1
<1>1. m \in 1..(Len(s) + 1) /\ Len(s) \in Nat
  BY StreamAssumption
<1> HIDE DEF m
<1>2. Slice(s) = SubSeq(s, m, Len(s))
  BY DEF Slice, m
<1>3. /\ SubSeq(s, m, Len(s)) \in Seq(Nat)
      /\ \A k \in DOMAIN SubSeq(s, m, Len(s)) :
            /\ k + (m - 1) \in DOMAIN s
            /\ SubSeq(s, m, Len(s))[k] = s[k + (m - 1)]
  BY <1>1
<1>4. m - 1 \in Nat
  BY <1>1
<1> QED
  BY <1>2, <1>3, <1>4

\* The page renders, and the chart gets the event it has not shown yet.
LEMMA RenderKeeps ==
    ASSUME StreamInv, NEW c \in Client, Render(c)
    PROVE  StreamInv'
<1> DEFINE p == page[c]
           s == Append(p.samples, p.event)
<1>0. TypeOK /\ RowsInv /\ ConnectionInv /\ SilenceInv /\ ChartInv /\ ChartInOrder
  BY DEF StreamInv
<1>1. /\ page' = [page EXCEPT ![c] = Effect(c)]
      /\ UNCHANGED <<rows, socket, channel, wire, pong, browser, received>>
  BY DEF Render, net
<1>2. /\ p \in Page /\ p.event \in Nat /\ p.rendered \in Nat /\ p.samples \in Seq(Nat)
      /\ p.rendered <= p.event /\ p.event <= Len(received[c])
      /\ \A k \in DOMAIN p.samples : p.samples[k] <= p.rendered
      /\ \A j, k \in DOMAIN p.samples : j < k => p.samples[j] < p.samples[k]
  BY <1>0 DEF TypeOK, Page, ChartInv, ChartInOrder
<1> HIDE DEF p
<1>3. /\ Effect(c) \in Page
      /\ Effect(c).rendered <= Effect(c).event
      /\ Effect(c).event <= Len(received[c])
      /\ \A k \in DOMAIN Effect(c).samples : Effect(c).samples[k] <= Effect(c).rendered
      /\ \A j, k \in DOMAIN Effect(c).samples :
            j < k => Effect(c).samples[j] < Effect(c).samples[k]
  <2>1. CASE p.event = p.rendered
    <3>1. Effect(c) = p
      BY <2>1 DEF Effect, p
    <3> QED
      BY <1>2, <3>1
  <2>2. CASE p.event # p.rendered
    <3>1. Effect(c) = [p EXCEPT !.rendered = p.event, !.samples = Slice(s)]
      BY <2>2 DEF Effect, p
    <3>2. /\ s \in Seq(Nat)
          /\ DOMAIN s = DOMAIN p.samples \cup {Len(p.samples) + 1}
          /\ \A k \in DOMAIN p.samples : s[k] = p.samples[k] /\ k < Len(p.samples) + 1
          /\ s[Len(p.samples) + 1] = p.event
          /\ Len(p.samples) \in Nat /\ DOMAIN s \subseteq Nat
      BY <1>2
    <3>3. /\ \A k \in DOMAIN s : s[k] <= p.event
          /\ \A j, k \in DOMAIN s : j < k => s[j] < s[k]
      <4>1. \A k \in DOMAIN p.samples : p.samples[k] < p.event /\ p.samples[k] \in Nat
        BY <1>2, <2>2
      <4>2. \A k \in DOMAIN s : s[k] <= p.event
        BY <1>2, <3>2, <4>1
      <4>3. ASSUME NEW j \in DOMAIN s, NEW k \in DOMAIN s, j < k
            PROVE  s[j] < s[k]
        <5>1. j \in DOMAIN p.samples
          BY <3>2, <4>3
        <5>2. CASE k \in DOMAIN p.samples
          BY <1>2, <3>2, <4>3, <5>1, <5>2
        <5>3. CASE k = Len(p.samples) + 1
          BY <3>2, <4>1, <5>1, <5>3
        <5> QED
          BY <3>2, <5>2, <5>3
      <4> QED
        BY <4>2, <4>3
    <3> HIDE DEF s
    <3> DEFINE t == Slice(s)
    <3>4. t \in Seq(Nat)
      BY <3>2, SliceFacts
    <3>5. PICK o \in Nat : \A k \in DOMAIN t : k + o \in DOMAIN s /\ t[k] = s[k + o]
      BY <3>2, SliceFacts
    <3>6. DOMAIN t \subseteq Nat
      BY <3>4
    <3> HIDE DEF t
    <3>7. /\ \A k \in DOMAIN t : t[k] <= p.event
          /\ \A j, k \in DOMAIN t : j < k => t[j] < t[k]
      BY <3>3, <3>5, <3>6
    <3>8. /\ Effect(c).event = p.event /\ Effect(c).rendered = p.event
          /\ Effect(c).samples = t
      BY <1>2, <3>1 DEF Page, t
    <3>9. Effect(c) \in Page
      <4>1. [p EXCEPT !.rendered = p.event] \in Page
        BY <1>2 DEF Page
      <4>2. [[p EXCEPT !.rendered = p.event] EXCEPT !.samples = t] \in Page
        BY <3>4, <4>1 DEF Page
      <4> QED
        BY <3>1, <4>2 DEF t
    <3> QED
      BY <1>2, <3>7, <3>8, <3>9
  <2> QED
    BY <2>1, <2>2
<1>4. /\ page' \in [Client -> Page] /\ page'[c] = Effect(c)
      /\ \A q \in Client \ {c} : page'[q] = page[q]
  BY <1>0, <1>1, <1>3 DEF TypeOK
<1>5. TypeOK'
  BY <1>0, <1>1, <1>4 DEF TypeOK
<1>6. ChartInv' /\ ChartInOrder'
  BY <1>0, <1>1, <1>3, <1>4 DEF ChartInv, ChartInOrder
<1>7. \A q : /\ Got(q)' = Got(q)
             /\ DueEncodable(q)' = DueEncodable(q)
             /\ ChannelOK(q) => ChannelOK(q)'
  BY <1>1, StreamSame
<1>8. ConnectionInv' /\ SilenceInv' /\ RowsInv'
  BY <1>0, <1>1, <1>7 DEF ConnectionInv, SilenceInv, RowsInv, Connected
<1> QED
  BY <1>1, <1>5, <1>6, <1>7, <1>8, ChannelsOf, Assemble

LEMMA StreamInduction == Spec => []StreamInv
<1>1. Init => StreamInv
  <2> SUFFICES ASSUME Init PROVE StreamInv
    OBVIOUS
  <2> USE DEF Init
  <2>1. TypeOK
    <3>1. [event |-> 0, rendered |-> 0, samples |-> << >>] \in Page
      BY DEF Page
    <3> QED
      BY <3>1 DEF TypeOK
  <2>2. RowsInv
    BY StreamAssumption DEF RowsInv
  <2>3. ConnectionInv /\ SilenceInv /\ StreamIsChannel
    BY DEF ConnectionInv, SilenceInv, StreamIsChannel
  <2>4. ChartInv /\ ChartInOrder
    BY DEF ChartInv, ChartInOrder
  <2> QED
    BY <2>1, <2>2, <2>3, <2>4 DEF StreamInv
<1>2. StreamInv /\ [Next]_vars => StreamInv'
  <2> SUFFICES ASSUME StreamInv, [Next]_vars PROVE StreamInv'
    OBVIOUS
  <2>1. CASE UNCHANGED vars
    <3>1. \A q : /\ Got(q)' = Got(q)
                 /\ DueEncodable(q)' = DueEncodable(q)
                 /\ ChannelOK(q) => ChannelOK(q)'
      BY <2>1, StreamSame DEF vars
    <3>2. TypeOK' /\ ConnectionInv' /\ SilenceInv'
      BY <2>1, <3>1 DEF StreamInv, vars, TypeOK, ConnectionInv, SilenceInv, Connected
    <3> QED
      BY <2>1, <3>1, <3>2, ChannelsOf, HubOnly, Assemble DEF vars
  <2>2. ASSUME NEW e \in 1..MaxEvents, NEW d \in Device, NEW b \in BigIntRow,
               Publish([event |-> e, device |-> d, bigint |-> b])
        PROVE  StreamInv'
    <3>1. [event |-> e, device |-> d, bigint |-> b] \in Row
      BY StreamAssumption DEF Row
    <3> QED
      BY <2>2, <3>1, PublishKeeps
  <2> QED
    BY <2>1, <2>2, ConnectKeeps, CloseClientKeeps, CloseFrameKeeps, SocketClosedKeeps,
       VanishKeeps, ReceivePongKeeps, DeliverKeeps, RenderKeeps, HeartbeatKeeps
    DEF Next
<1> QED
  BY <1>1, <1>2, PTL DEF Spec

----------------------------------------------------------------------------
(* The theorems.                                                           *)

\* The hub's sockets, the frames, the histories and the pages keep their types
\* (a history holds only rows that were announced).
THEOREM StreamTypes == Spec => []TypeOK
BY StreamInduction, PTL DEF StreamInv

\* Every client gets the rows of its channel, in order and without a gap, and
\* nothing else, for any number of clients that come, vanish or are cut off.
THEOREM StreamDelivers == Spec => []StreamIsChannel
BY StreamInduction, PTL DEF StreamInv

\* No repetition makes a client see an event before an earlier one.
THEOREM EventsNotOvertaken == Spec => []NoOvertaking
<1>1. StreamInv => NoOvertaking
  <2> SUFFICES ASSUME StreamInv, NEW c \in DOMAIN channel,
                      NEW k \in DOMAIN received[c], NEW n \in DOMAIN rows,
                      rows[n].event < rows[received[c][k]].event,
                      rows[n].event \notin {rows[m].event : m \in 1..channel[c].since},
                      Wants(channel[c].filter, rows[n]), Encodable(rows[n])
               PROVE  \E m \in 1..(k - 1) :
                         rows[received[c][m]].event = rows[n].event
    BY DEF NoOvertaking
  <2> DEFINE r == received[c][k]
             e == rows[n].event
  <2>0. TypeOK /\ RowsInv /\ ConnectionInv /\ c \in Client /\ ChannelOK(c)
    BY ChannelsOf DEF StreamInv
  <2>1. /\ received[c] \in Seq(DOMAIN rows) /\ rows \in Seq(Row)
        /\ channel[c].since \in Nat
    BY <2>0 DEF TypeOK, Channel
  <2>2. /\ r \in DOMAIN rows /\ DOMAIN rows \subseteq Nat /\ DOMAIN rows = 1..Len(rows)
        /\ DOMAIN received[c] = 1..Len(received[c]) /\ Len(received[c]) \in Nat
    BY <2>1
  <2>3. rows[r] \in Row /\ rows[n] \in Row
    BY <2>1, <2>2
  <2>4. e \in 1..(rows[r].event - 1)
    BY <2>3, StreamAssumption DEF Row
  <2>5. PICK m \in 1..(r - 1) : rows[m].event = e
    BY <2>0, <2>2, <2>4 DEF RowsInv
  <2>6. m \in DOMAIN rows /\ m < r
    BY <2>2
  <2>7. rows[m] = rows[n]
    BY <2>0, <2>5, <2>6 DEF RowsInv
  <2>8. m > channel[c].since
    BY <2>1, <2>2, <2>5, <2>6
  <2>9. m \in DueEncodable(c)
    BY <2>6, <2>7, <2>8 DEF DueEncodable, Due
  <2>10. r \in Range(received[c])
    BY DEF Range
  <2>11. m \in Got(c)
    BY <2>0, <2>6, <2>9, <2>10 DEF ChannelOK, Got
  <2>12. m \notin InFlight(c)
    <3> SUFFICES ASSUME m \in InFlight(c) PROVE FALSE
      OBVIOUS
    <3>1. r < m
      BY <2>0, <2>10 DEF ChannelOK, InOrder
    <3> QED
      BY <2>2, <2>6, <3>1
  <2>13. PICK i \in DOMAIN received[c] : received[c][i] = m
    BY <2>11, <2>12 DEF Got, Range
  <2>14. i < k
    <3> SUFFICES ASSUME k <= i PROVE FALSE
      BY <2>2
    <3>1. k = i \/ k < i
      BY <2>2
    <3>2. r = m \/ r < m
      BY <2>0, <2>13, <3>1 DEF ChannelOK, InOrder
    <3> QED
      BY <2>2, <2>6, <3>2
  <2>15. i \in 1..(k - 1)
    BY <2>2, <2>14
  <2> QED
    BY <2>5, <2>13, <2>15
<1> QED
  BY <1>1, StreamInduction, PTL

\* The chart shows rows in the order received, each at most once.
THEOREM ChartOrdered == Spec => []ChartInOrder
BY StreamInduction, PTL DEF StreamInv

\* The heartbeat cuts no page that has answered, or was never asked.
THEOREM SilentClientsOnly == Spec => OnlySilentClientsCut
<1> DEFINE Cut ==
        \A c \in Client :
            browser[c] = "open" /\ browser'[c] = "cut"
                => pong[c] \/ \E k \in DOMAIN wire[c] : wire[c][k] = ping
<1>1. StreamInv /\ [Next]_vars => [Cut]_vars
  <2> SUFFICES ASSUME StreamInv, Next,
                      NEW c \in Client, browser[c] = "open", browser'[c] = "cut"
               PROVE  pong[c] \/ \E k \in DOMAIN wire[c] : wire[c][k] = ping
    OBVIOUS
  <2>0. TypeOK /\ SilenceInv
    BY DEF StreamInv
  <2>1. Heartbeat
    BY <2>0 DEF Next, Connect, CloseClient, CloseFrame, SocketClosed, Vanish,
       ReceivePong, Deliver, Render, Publish, TypeOK
  <2>2. ~socket[c].isAlive
    BY <2>1 DEF Heartbeat
  <2> QED
    BY <2>0, <2>2 DEF SilenceInv
<1> QED
  BY <1>1, StreamInduction, PTL DEF Spec, OnlySilentClientsCut
============================================================================
