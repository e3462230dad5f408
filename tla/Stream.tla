-------------------------------- MODULE Stream --------------------------------
(***************************************************************************)
(* The client's side of a connection, from the bytes to the screen: the    *)
(* socket's input buffer, filled by the service thread (TCPSocket), the    *)
(* packets made of it on the event thread (PacketStreamFilter), the reader *)
(* of the first packet (Client::handle_hello()) and of all others          *)
(* (ServerProxy::handle_data()), which leaves out mouse motions that more  *)
(* input makes obsolete.  No layer is told of data that it could have      *)
(* taken before, so each one must take all there is or ask to be told      *)
(* again.  A byte is known by its place in the stream.                     *)
(***************************************************************************)
EXTENDS Integers, Sequences

CONSTANTS
    HeaderSize,     \* bytes of a packet's length, 4 in the code
    BodySize,       \* bytes of a message; all are as long
    MaxMessages,    \* bound: messages that the server sends after its hello
    Positions,      \* where the server may put the cursor
    MaxReads        \* bound: times the service thread finds new bytes

ASSUME StreamAssumption ==
    /\ {HeaderSize, BodySize} \subseteq Nat \ {0}
    /\ {MaxMessages, MaxReads} \subseteq Nat
    /\ Positions \subseteq Int

VARIABLES
    sent,           \* the messages that the server has written
    cut,            \* how many bytes will arrive; all of them if it is -1
    got,            \* bytes that the socket has put into its buffer
    hung,           \* has the socket seen the hangup?
    moved,          \* bytes that the filter has taken from the socket
    used,           \* bytes that the filter has parsed
    m_size, m_inputShutdown,
    events,         \* the client's event queue, as far as it is about this stream
    reader,         \* who handles input: "hello", "proxy" or, after a shutdown, "none"
    handling,       \* is handle_data() running?
    m_compressMouse, m_compressMouseRelative, m_mouse, m_delta, m_ignoreMouse,
    cursor,         \* where the client's cursor is
    infoSent,       \* a DInfo on its way to the server
    motion,         \* does the server send absolute or relative motions?
    handled,        \* history: messages that were handled
    meant,          \* history: where the cursor would be without compression
    misplaced,      \* history: was a button used with the cursor elsewhere?
    reads

network == <<sent, cut, got, hung, reads>>
filter == <<moved, used, m_size, m_inputShutdown>>
mouse == <<m_compressMouse, m_compressMouseRelative, m_mouse, m_delta, m_ignoreMouse, cursor>>
history == <<motion, handled, meant, misplaced>>
vars == <<network, filter, events, reader, handling, mouse, infoSent, history>>

\* The stream: a header and a body for each message, the hello first.
PacketSize == HeaderSize + BodySize
Written == PacketSize * (Len(sent) + 1)
Limit == IF cut = -1 THEN Written ELSE cut

Init ==
    /\ sent = <<>> /\ cut = -1 /\ got = 0 /\ hung = FALSE /\ reads = 0
    /\ moved = 0 /\ used = 0 /\ m_size = 0 /\ m_inputShutdown = FALSE
    /\ events = <<>>
    /\ reader = "hello" /\ handling = FALSE
    /\ m_compressMouse = FALSE /\ m_compressMouseRelative = FALSE
    /\ m_mouse = 0 /\ m_delta = 0 /\ m_ignoreMouse = FALSE
    /\ cursor = 0
    /\ infoSent = FALSE
    /\ motion \in {"move", "rel"}
    /\ handled = 0 /\ meant = 0 /\ misplaced = FALSE

----------------------------------------------------------------------------
(* The server and the network.                                              *)

Message(kind, at) == [kind |-> kind, at |-> at]

\* The server writes a message: a motion, a button or key, or an enter.  It
\* answers a DInfo with an acknowledgment.
serverWrites ==
    /\ cut = -1
    /\ Len(sent) < MaxMessages
    /\ \/ /\ \E p \in Positions : \E k \in {motion, "enter"} : sent' = Append(sent, Message(k, p))
          /\ UNCHANGED infoSent
       \/ /\ sent' = Append(sent, Message("button", 0))
          /\ UNCHANGED infoSent
       \/ /\ infoSent
          /\ infoSent' = FALSE
          /\ sent' = Append(sent, Message("ack", 0))
    /\ UNCHANGED <<cut, got, hung, reads, filter, events, reader, handling, mouse, history>>

\* The connection breaks: any part of what was not read yet is lost.
connectionBreaks ==
    /\ cut = -1
    /\ \E n \in got..Written : cut' = n
    /\ UNCHANGED <<sent, got, hung, reads, filter, events, reader, handling, mouse, infoSent, history>>

\* doRead() on the service thread: the event is posted only if the buffer was empty.
doRead ==
    /\ got < Limit
    /\ \E n \in got + 1..Limit :
          /\ n = Limit \/ reads + 1 < MaxReads
          /\ got' = n
    /\ events' = IF got = moved THEN Append(events, "socketReady") ELSE events
    /\ reads' = IF reads < MaxReads THEN reads + 1 ELSE reads
    /\ UNCHANGED <<sent, cut, hung, filter, reader, handling, mouse, infoSent, history>>

\* doRead() at the end of the stream.
doReadHangup ==
    /\ cut # -1 /\ got = cut /\ ~hung
    /\ hung' = TRUE
    /\ events' = Append(events, "socketShutdown")
    /\ UNCHANGED <<sent, cut, got, reads, filter, reader, handling, mouse, infoSent, history>>

----------------------------------------------------------------------------
(* PacketStreamFilter.                                                      *)

isReady(size, from, to) == size # 0 /\ to - from >= size
Ready == isReady(m_size, used, moved)

\* The filter after readPacketSize() with these bytes.
readPacketSize(size, from, to) ==
    IF size = 0 /\ to - from >= HeaderSize THEN [size |-> BodySize, used |-> from + HeaderSize]
    ELSE [size |-> size, used |-> from]

\* Nothing else is dispatched while a handler runs.
Dispatch(e) ==
    /\ ~handling
    /\ events # <<>> /\ Head(events) = e

\* filterEvent() for input: readMore() takes all that the socket has, and the
\* reader is called if there was no whole packet and now there is.
filterInput ==
    /\ Dispatch("socketReady")
    /\ moved' = got
    /\ LET p == readPacketSize(m_size, used, got)
       IN  /\ m_size' = p.size
           /\ used' = p.used
           /\ handling' = (Ready # isReady(p.size, p.used, got))
    /\ events' = Tail(events)
    /\ UNCHANGED <<network, m_inputShutdown, reader, mouse, infoSent, history>>

\* filterEvent() for the shutdown: held back while there is a packet.  The
\* client's handler ends the connection.
filterShutdown ==
    /\ Dispatch("socketShutdown")
    /\ m_inputShutdown' = TRUE
    /\ reader' = IF m_size = 0 THEN "none" ELSE reader
    /\ events' = Tail(events)
    /\ UNCHANGED <<network, moved, used, m_size, handling, mouse, infoSent, history>>

\* An event for the filter's own readers: the faked one, or the shutdown of read().
inputReady ==
    /\ Dispatch("ready")
    /\ handling' = TRUE
    /\ events' = Tail(events)
    /\ UNCHANGED <<network, filter, reader, mouse, infoSent, history>>

inputShutdown ==
    /\ Dispatch("shutdown")
    /\ reader' = "none"
    /\ events' = Tail(events)
    /\ UNCHANGED <<network, filter, handling, mouse, infoSent, history>>

\* The reader takes the whole packet: read() finds the next header, and reports
\* the shutdown that was held back when nothing is left.
readPacket ==
    LET p == readPacketSize(0, used + m_size, moved)
    IN  /\ m_size' = p.size
        /\ used' = p.used
        /\ UNCHANGED <<moved, m_inputShutdown>>
        /\ handled' = handled + 1

ShutdownEvent == IF m_inputShutdown /\ m_size' = 0 THEN <<"shutdown">> ELSE <<>>
MoreFollows == isReady(m_size', used', moved')

----------------------------------------------------------------------------
(* The readers.                                                             *)

handle_hello_Silent ==  \* Faulty variant: does not fake an event.
    /\ handling /\ reader = "hello" /\ Ready
    /\ readPacket
    /\ events' = events \o ShutdownEvent
    /\ reader' = "proxy"
    /\ handling' = FALSE
    /\ UNCHANGED <<network, mouse, infoSent, motion, meant, misplaced>>

\* handle_hello() reads one packet; it fakes an event if another one is there.
handle_hello ==
    /\ handling /\ reader = "hello" /\ Ready
    /\ readPacket
    /\ events' = events \o ShutdownEvent \o (IF MoreFollows THEN <<"ready">> ELSE <<>>)
    /\ reader' = "proxy"
    /\ handling' = FALSE
    /\ UNCHANGED <<network, mouse, infoSent, motion, meant, misplaced>>

\* Where flushCompressedMouse() puts the cursor.
Flushed == (IF m_compressMouse THEN m_mouse ELSE cursor)
           + (IF m_compressMouseRelative THEN m_delta ELSE 0)

flushCompressedMouse ==
    /\ cursor' = Flushed
    /\ m_compressMouse' = FALSE
    /\ m_compressMouseRelative' = FALSE
    /\ m_delta' = IF m_compressMouseRelative THEN 0 ELSE m_delta

mouseMove_Last(m) ==  \* Faulty variant: the last motion of a batch is not recorded.
    /\ m.kind = "move"
    /\ m_compressMouse' = (m_compressMouse \/ (~m_ignoreMouse /\ MoreFollows))
    /\ IF m_compressMouse' /\ MoreFollows
       THEN /\ m_mouse' = m.at
            /\ m_compressMouseRelative' = FALSE /\ m_delta' = 0
            /\ UNCHANGED cursor
       ELSE /\ cursor' = IF m_ignoreMouse THEN cursor ELSE m.at
            /\ UNCHANGED <<m_mouse, m_compressMouseRelative, m_delta>>
    /\ meant' = IF m_ignoreMouse THEN meant ELSE m.at
    /\ UNCHANGED <<m_ignoreMouse, misplaced>>

\* mouseMove(): recorded if more input follows, else forwarded.
mouseMove(m) ==
    /\ m.kind = "move"
    /\ m_compressMouse' = (m_compressMouse \/ (~m_ignoreMouse /\ MoreFollows))
    /\ IF m_compressMouse'
       THEN /\ m_mouse' = m.at
            /\ m_compressMouseRelative' = FALSE /\ m_delta' = 0
            /\ UNCHANGED cursor
       ELSE /\ cursor' = IF m_ignoreMouse THEN cursor ELSE m.at
            /\ UNCHANGED <<m_mouse, m_compressMouseRelative, m_delta>>
    /\ meant' = IF m_ignoreMouse THEN meant ELSE m.at
    /\ UNCHANGED <<m_ignoreMouse, misplaced>>

mouseRelativeMove(m) ==
    /\ m.kind = "rel"
    /\ m_compressMouseRelative' = (m_compressMouseRelative \/ (~m_ignoreMouse /\ MoreFollows))
    /\ IF m_compressMouseRelative'
       THEN m_delta' = m_delta + m.at /\ UNCHANGED cursor
       ELSE cursor' = (IF m_ignoreMouse THEN cursor ELSE cursor + m.at) /\ UNCHANGED m_delta
    /\ meant' = IF m_ignoreMouse THEN meant ELSE meant + m.at
    /\ UNCHANGED <<m_compressMouse, m_mouse, m_ignoreMouse, misplaced>>

\* mouseDown(), mouseUp(), mouseWheel(), the keys and leave(): up to date first.
button(m) ==
    /\ m.kind = "button"
    /\ flushCompressedMouse
    /\ misplaced' = (misplaced \/ cursor' # meant)
    /\ UNCHANGED <<m_mouse, m_ignoreMouse, meant>>

\* enter(): what was recorded is discarded.
enter(m) ==
    /\ m.kind = "enter"
    /\ m_compressMouse' = FALSE /\ m_compressMouseRelative' = FALSE /\ m_delta' = 0
    /\ cursor' = m.at
    /\ meant' = m.at
    /\ UNCHANGED <<m_mouse, m_ignoreMouse, misplaced>>

infoAcknowledgment(m) ==
    /\ m.kind = "ack"
    /\ m_ignoreMouse' = FALSE
    /\ UNCHANGED <<m_compressMouse, m_compressMouseRelative, m_mouse, m_delta, cursor, meant, misplaced>>

\* A turn of handle_data().
handleMessage ==
    /\ handling /\ reader = "proxy" /\ Ready
    /\ readPacket
    /\ events' = events \o ShutdownEvent
    /\ LET m == sent[handled]
       IN  mouseMove(m) \/ mouseRelativeMove(m) \/ button(m) \/ enter(m) \/ infoAcknowledgment(m)
    /\ UNCHANGED <<network, reader, handling, infoSent, motion>>

\* The end of handle_data(), or a call without a whole packet or a reader.
endOfData ==
    /\ handling
    /\ ~Ready \/ reader = "none"
    /\ IF reader = "proxy" THEN flushCompressedMouse /\ UNCHANGED <<m_mouse, m_ignoreMouse>>
       ELSE UNCHANGED mouse
    /\ handling' = FALSE
    /\ UNCHANGED <<network, filter, events, reader, infoSent, history>>

\* The shape of the client's screen changes: onInfoChanged().
onInfoChanged ==
    /\ ~handling /\ reader = "proxy"
    /\ ~m_ignoreMouse
    /\ m_ignoreMouse' = TRUE
    /\ infoSent' = TRUE
    /\ UNCHANGED <<network, filter, events, reader, handling, m_compressMouse,
                   m_compressMouseRelative, m_mouse, m_delta, cursor, history>>

----------------------------------------------------------------------------
Next ==
    \/ serverWrites \/ connectionBreaks
    \/ doRead \/ doReadHangup
    \/ filterInput \/ filterShutdown \/ inputReady \/ inputShutdown
    \/ handle_hello \/ handleMessage \/ endOfData \/ onInfoChanged

Spec == Init /\ [][Next]_vars

----------------------------------------------------------------------------
(* Properties.                                                              *)

\* The types of the variables.
TypeOK ==
    /\ Len(sent) <= MaxMessages
    /\ used <= moved /\ moved <= got /\ got <= Limit
    /\ m_size \in {0, BodySize}
    /\ {hung, m_inputShutdown, handling, m_compressMouse, m_compressMouseRelative, m_ignoreMouse,
        infoSent, misplaced} \subseteq BOOLEAN
    /\ reader \in {"hello", "proxy", "none"}
    /\ {cursor, m_mouse, m_delta, meant} \subseteq Int

\* A button or a key is used where the cursor would be if no motion were left out,
\* and whenever the client has handled what there is, the cursor is there: for a
\* server that sends motions of one kind, whatever the packets' boundaries.
CursorWhereMeant ==
    /\ TypeOK
    /\ ~misplaced
    /\ ~handling /\ reader = "proxy" => cursor = meant

Queued(e) == \E i \in 1..Len(events) : events[i] = e

\* Nothing that arrives is forgotten: bytes that the filter has not taken, a whole
\* packet that no handler is reading, and a hangup that the client has not heard
\* of, each have an event queued that leads to them.  The hangup may also wait for
\* a packet whose length is known: if that packet was cut, nothing reports it.
\* What has been parsed is the messages that were handled and the next header.
NothingForgotten ==
    /\ used = PacketSize * handled + (IF m_size # 0 THEN HeaderSize ELSE 0)
    /\ reader # "none" =>
          /\ got > moved => Queued("socketReady")
          /\ Ready => handling \/ Queued("ready")
          /\ hung /\ ~Queued("socketShutdown") =>
                m_inputShutdown /\ (m_size # 0 \/ Queued("shutdown"))

=============================================================================
