----------------------------- MODULE StreamProofs -----------------------------
(***************************************************************************)
(* For packets of any size, any number of messages and any way of cutting  *)
(* the stream into reads: the client's filter and readers forget nothing   *)
(* that has arrived, and compressed mouse motions leave the cursor where   *)
(* the server meant it to be.                                              *)
(*                                                                         *)
(* Neither invariant is inductive.  Bytes ties the number of messages that *)
(* were handled to the bytes that were parsed, so that the message a turn  *)
(* of handle_data() takes was written; Mouse says that flushing what was   *)
(* recorded would put the cursor where it is meant to be, at every moment, *)
(* and that nothing is recorded outside handle_data() or while motions are *)
(* ignored.                                                                *)
(***************************************************************************)
EXTENDS Stream, TLAPS

Kinds == {"move", "rel", "button", "enter", "ack"}
EventKinds == {"socketReady", "socketShutdown", "ready", "shutdown"}

Types ==
    /\ sent \in Seq([kind : Kinds, at : Int])
    /\ \A i \in 1..Len(sent) : sent[i].kind \in {motion, "button", "enter", "ack"}
    /\ Len(sent) <= MaxMessages
    /\ cut \in Int /\ got \in Nat /\ moved \in Nat /\ used \in Nat /\ handled \in Nat
    /\ hung \in BOOLEAN /\ m_inputShutdown \in BOOLEAN /\ handling \in BOOLEAN
    /\ infoSent \in BOOLEAN
    /\ events \in Seq(EventKinds)
    /\ reader \in {"hello", "proxy", "none"}
    /\ motion \in {"move", "rel"}

\* Every byte is somewhere between the server and the readers.
Bytes ==
    /\ used <= moved /\ moved <= got /\ got <= Limit
    /\ cut # -1 => cut <= Written
    /\ m_size \in {0, BodySize}
    /\ used = PacketSize * handled + (IF m_size # 0 THEN HeaderSize ELSE 0)
    /\ reader = "proxy" => handled > 0

\* What is recorded of the mouse, and only while handle_data() runs.
Mouse ==
    /\ m_compressMouse \in BOOLEAN /\ m_compressMouseRelative \in BOOLEAN
    /\ m_ignoreMouse \in BOOLEAN /\ misplaced = FALSE
    /\ cursor \in Int /\ m_mouse \in Int /\ m_delta \in Int /\ meant \in Int
    /\ Flushed = meant
    /\ ~m_compressMouseRelative => m_delta = 0
    /\ motion = "move" => ~m_compressMouseRelative
    /\ motion = "rel" => ~m_compressMouse
    /\ ~handling \/ reader # "proxy" \/ m_ignoreMouse => ~m_compressMouse /\ ~m_compressMouseRelative

Told ==
    reader # "none" =>
       /\ got > moved => Queued("socketReady")
       /\ Ready => handling \/ Queued("ready")
       /\ hung /\ ~Queued("socketShutdown") =>
             m_inputShutdown /\ (m_size # 0 \/ Queued("shutdown"))

IInv == Types /\ Bytes /\ Mouse /\ Told

LEMMA Sizes == /\ HeaderSize \in Nat \ {0} /\ BodySize \in Nat \ {0}
               /\ PacketSize \in Nat \ {0} /\ PacketSize = HeaderSize + BodySize
               /\ MaxMessages \in Nat
  BY StreamAssumption DEF PacketSize

LEMMA Times ==
    ASSUME NEW p \in Nat \ {0}, NEW a \in Nat, NEW b \in Nat
    PROVE  /\ p * a \in Nat /\ p * (a + 1) = p * a + p
           /\ p * a <= p * b => a <= b
<1>1. p * a \in Nat /\ p * (a + 1) = p * a + p /\ p * b \in Nat
  OBVIOUS
<1>2. ASSUME p * a <= p * b, ~(a <= b) PROVE FALSE
  <2>1. PICK d \in Nat : a = b + 1 + d
    <3>1. a - b - 1 \in Nat /\ a = b + 1 + (a - b - 1)
      BY <1>2
    <3> QED BY <3>1
  <2>2. p * a = p * b + p + p * d /\ p * d \in Nat
    BY <2>1
  <2> QED BY <1>1, <1>2, <2>2
<1> QED BY <1>1, <1>2

LEMMA Element == ASSUME NEW S, NEW s \in Seq(S), NEW i \in 1..Len(s) PROVE s[i] \in S
  OBVIOUS

----------------------------------------------------------------------------
(* The event queue.                                                         *)

In(q, e) == \E i \in 1..Len(q) : q[i] = e

LEMMA InAppend ==
    ASSUME NEW q \in Seq(EventKinds), NEW x \in EventKinds, NEW e
    PROVE  /\ Append(q, x) \in Seq(EventKinds)
           /\ In(Append(q, x), e) <=> In(q, e) \/ e = x
<1>1. /\ Append(q, x) \in Seq(EventKinds) /\ Len(Append(q, x)) = Len(q) + 1 /\ Len(q) \in Nat
      /\ \A i \in 1..Len(q) : Append(q, x)[i] = q[i]
      /\ Append(q, x)[Len(q) + 1] = x
  OBVIOUS
<1>2. 1..Len(Append(q, x)) = 1..Len(q) \cup {Len(q) + 1}
  BY <1>1
<1> QED BY <1>1, <1>2 DEF In

LEMMA InTail ==
    ASSUME NEW q \in Seq(EventKinds), q # <<>>, NEW e, e # Head(q)
    PROVE  Tail(q) \in Seq(EventKinds) /\ (In(Tail(q), e) <=> In(q, e))
<1>1. /\ Head(q) = q[1] /\ Len(q) \in Nat \ {0}
      /\ Tail(q) \in Seq(EventKinds) /\ Len(Tail(q)) = Len(q) - 1
      /\ \A i \in 1..Len(Tail(q)) : Tail(q)[i] = q[i + 1]
  OBVIOUS
<1>2. ASSUME In(q, e) PROVE In(Tail(q), e)
  <2>1. PICK i \in 1..Len(q) : q[i] = e
    BY <1>2 DEF In
  <2>2. i # 1 /\ i - 1 \in 1..Len(Tail(q)) /\ Tail(q)[i - 1] = q[i]
    BY <1>1, <2>1
  <2> QED BY <2>1, <2>2 DEF In
<1>3. ASSUME In(Tail(q), e) PROVE In(q, e)
  <2>1. PICK i \in 1..Len(Tail(q)) : Tail(q)[i] = e
    BY <1>3 DEF In
  <2>2. i + 1 \in 1..Len(q) /\ q[i + 1] = e
    BY <1>1, <2>1
  <2> QED BY <2>2 DEF In
<1> QED BY <1>1, <1>2, <1>3

LEMMA InConcat ==
    ASSUME NEW q \in Seq(EventKinds), NEW x \in EventKinds, NEW c \in BOOLEAN, NEW e
    PROVE  LET s == q \o (IF c THEN <<x>> ELSE <<>>)
           IN  s \in Seq(EventKinds) /\ (In(s, e) <=> In(q, e) \/ (c /\ e = x))
<1>1. CASE c
  <2>1. q \o (IF c THEN <<x>> ELSE <<>>) = Append(q, x)
    BY <1>1
  <2>2. Append(q, x) \in Seq(EventKinds) /\ (In(Append(q, x), e) <=> In(q, e) \/ e = x)
    BY InAppend
  <2> QED BY <1>1, <2>1, <2>2, Zenon
<1>2. CASE ~c
  <2>1. q \o (IF c THEN <<x>> ELSE <<>>) = q
    BY <1>2
  <2> QED BY <1>2, <2>1
<1> QED BY <1>1, <1>2

\* An event of one kind is taken from the queue; the others stay.
LEMMA Dispatched ==
    ASSUME Types, NEW k, Dispatch(k), events' = Tail(events)
    PROVE  /\ events' \in Seq(EventKinds) /\ ~handling
           /\ \A e \in EventKinds : e # k => (Queued(e)' <=> Queued(e))
<1>1. events \in Seq(EventKinds) /\ events # <<>> /\ Head(events) = k /\ ~handling
  BY DEF Types, Dispatch
<1>2. \A e : e # k => Tail(events) \in Seq(EventKinds) /\ (In(Tail(events), e) <=> In(events, e))
  BY <1>1, InTail
<1>3. \A e : Queued(e) <=> In(events, e)
  BY DEF Queued, In
<1>4. \A e : Queued(e)' <=> In(Tail(events), e)
  BY DEF Queued, In
<1>5. events' \in Seq(EventKinds)
  BY <1>1
<1> QED BY <1>1, <1>2, <1>3, <1>4, <1>5

LEMMA Posted ==
    ASSUME Types, NEW x \in EventKinds, events' = Append(events, x)
    PROVE  /\ events' \in Seq(EventKinds)
           /\ \A e : Queued(e)' <=> Queued(e) \/ e = x
<1>1. events \in Seq(EventKinds)
  BY DEF Types
<1>2. \A e : Append(events, x) \in Seq(EventKinds) /\ (In(Append(events, x), e) <=> In(events, e) \/ e = x)
  BY <1>1, InAppend
<1>3. \A e : Queued(e) <=> In(events, e)
  BY DEF Queued, In
<1>4. \A e : Queued(e)' <=> In(Append(events, x), e)
  BY DEF Queued, In
<1> QED BY <1>2, <1>3, <1>4

----------------------------------------------------------------------------
(* A reader takes a packet.                                                 *)

\* The message it takes was written, and the filter stays between two packets.
LEMMA PacketRead ==
    ASSUME Types, Bytes, Ready, readPacket, UNCHANGED network
    PROVE  /\ m_size # 0 /\ m_size' \in {0, BodySize} /\ handled' = handled + 1
           /\ used' \in Nat /\ moved' = moved /\ m_inputShutdown' = m_inputShutdown
           /\ used' <= moved'
           /\ used' = PacketSize * handled' + (IF m_size' # 0 THEN HeaderSize ELSE 0)
           /\ handled <= Len(sent)
<1> USE Sizes
<1>1. m_size = BodySize /\ moved - used >= BodySize /\ used \in Nat /\ moved \in Nat /\ handled \in Nat
  BY DEF Ready, isReady, Bytes, Types
<1>2. used = PacketSize * handled + HeaderSize
  BY <1>1 DEF Bytes
<1>3. PacketSize * (handled + 1) = PacketSize * handled + PacketSize /\ PacketSize * handled \in Nat
  BY <1>1, Times
<1>4. used + BodySize = PacketSize * (handled + 1)
  BY <1>2, <1>3
<1>5. handled <= Len(sent)
  <2>1. moved <= Written
    BY <1>1 DEF Bytes, Limit, Types, Written
  <2>2. Len(sent) + 1 \in Nat /\ handled + 1 \in Nat
    BY <1>1 DEF Types
  <2>3. PacketSize * (handled + 1) <= PacketSize * (Len(sent) + 1)
    BY <1>1, <1>4, <2>1, <2>2 DEF Written
  <2>4. handled + 1 <= Len(sent) + 1
    BY <2>2, <2>3, Times
  <2> QED BY <1>1, <2>2, <2>4 DEF Types
<1>6. /\ handled' = handled + 1 /\ moved' = moved /\ m_inputShutdown' = m_inputShutdown
      /\ m_size' = readPacketSize(0, used + BodySize, moved).size
      /\ used' = readPacketSize(0, used + BodySize, moved).used
  BY <1>1 DEF readPacket
<1>7. CASE moved - (used + BodySize) >= HeaderSize
  <2>1. m_size' = BodySize /\ used' = used + BodySize + HeaderSize
    BY <1>6, <1>7 DEF readPacketSize
  <2> QED BY <1>1, <1>4, <1>5, <1>6, <1>7, <2>1
<1>8. CASE ~(moved - (used + BodySize) >= HeaderSize)
  <2>1. m_size' = 0 /\ used' = used + BodySize
    BY <1>6, <1>8 DEF readPacketSize
  <2> QED BY <1>1, <1>4, <1>5, <1>6, <1>8, <2>1
<1> QED BY <1>7, <1>8

----------------------------------------------------------------------------
(* The inductive invariant.                                                 *)

LEMMA IInvInit == Init => IInv
<1> SUFFICES ASSUME Init PROVE IInv
  OBVIOUS
<1> USE Sizes, StreamAssumption
<1>1. Types
  <2>1. sent \in Seq([kind : Kinds, at : Int]) /\ events \in Seq(EventKinds) /\ Len(sent) = 0
    BY DEF Init
  <2>2. 1..Len(sent) = {} /\ Len(sent) <= MaxMessages
    BY <2>1
  <2>3. cut \in Int /\ got \in Nat /\ moved \in Nat /\ used \in Nat /\ handled \in Nat
    BY DEF Init
  <2>4. /\ hung \in BOOLEAN /\ m_inputShutdown \in BOOLEAN /\ handling \in BOOLEAN
        /\ infoSent \in BOOLEAN
    BY DEF Init
  <2> QED BY <2>1, <2>2, <2>3, <2>4 DEF Init, Types
<1>2. Bytes
  <2>1. Len(sent) = 0 /\ cut = -1 /\ PacketSize * 0 = 0 /\ PacketSize * (0 + 1) = PacketSize
    BY DEF Init
  <2>2. Limit = PacketSize
    BY <2>1 DEF Limit, Written
  <2> QED BY <2>1, <2>2 DEF Init, Bytes
<1>3. Mouse
  <2>1. ~m_compressMouse /\ ~m_compressMouseRelative /\ cursor = 0 /\ meant = 0
    BY DEF Init
  <2>2. Flushed = meant
    BY <2>1 DEF Flushed
  <2>3. cursor \in Int /\ m_mouse \in Int /\ m_delta \in Int /\ meant \in Int /\ m_delta = 0
    BY DEF Init
  <2>4. /\ m_compressMouse \in BOOLEAN /\ m_compressMouseRelative \in BOOLEAN
        /\ m_ignoreMouse \in BOOLEAN /\ misplaced = FALSE
    BY DEF Init
  <2> QED BY <2>1, <2>2, <2>3, <2>4 DEF Mouse
<1>4. Told
  BY DEF Init, Told, Ready, isReady
<1> QED BY <1>1, <1>2, <1>3, <1>4 DEF IInv

LEMMA ServerSteps == IInv /\ (serverWrites \/ connectionBreaks) => IInv'
<1> SUFFICES ASSUME IInv, serverWrites \/ connectionBreaks PROVE IInv'
  OBVIOUS
<1> USE Sizes, StreamAssumption DEF IInv
<1>1. CASE serverWrites
  <2>1. PICK m \in [kind : {motion, "button", "enter", "ack"}, at : Int] : sent' = Append(sent, m)
    <3> DEFINE M == [kind : {motion, "button", "enter", "ack"}, at : Int]
    <3>1. CASE \E p \in Positions : \E k \in {motion, "enter"} : sent' = Append(sent, Message(k, p))
      <4>1. PICK p \in Positions, k \in {motion, "enter"} : sent' = Append(sent, Message(k, p))
        BY <3>1
      <4>2. Message(k, p) \in M
        BY DEF Message
      <4> QED BY <4>1, <4>2
    <3>2. CASE sent' = Append(sent, Message("button", 0))
      <4>1. Message("button", 0) \in M
        BY DEF Message
      <4> QED BY <3>2, <4>1
    <3>3. CASE sent' = Append(sent, Message("ack", 0))
      <4>1. Message("ack", 0) \in M
        BY DEF Message
      <4> QED BY <3>3, <4>1
    <3> HIDE DEF M
    <3> QED BY <1>1, <3>1, <3>2, <3>3 DEF serverWrites
  <2>2. m \in [kind : Kinds, at : Int]
    BY DEF Types, Kinds
  <2>3. sent \in Seq([kind : Kinds, at : Int]) /\ Len(sent) < MaxMessages
    BY <1>1 DEF Types, serverWrites
  <2>4. /\ sent' \in Seq([kind : Kinds, at : Int]) /\ Len(sent') = Len(sent) + 1
        /\ \A i \in 1..Len(sent) : sent'[i] = sent[i]
        /\ sent'[Len(sent) + 1] = m /\ Len(sent) \in Nat
    BY <2>1, <2>2, <2>3
  <2>5. \A i \in 1..Len(sent') : i \in 1..Len(sent) \/ i = Len(sent) + 1
    BY <2>4
  <2>6. infoSent' \in BOOLEAN
    BY <1>1 DEF serverWrites, Types
  <2>7. Types'
    BY <1>1, <2>1, <2>3, <2>4, <2>5, <2>6 DEF serverWrites, filter, mouse, history, Types
  <2>8. cut = -1 /\ cut' = -1 /\ Written' = Written + PacketSize /\ Written \in Nat
    <3>1. Written' = PacketSize * ((Len(sent) + 1) + 1)
      BY <2>4 DEF Written
    <3>2. PacketSize * ((Len(sent) + 1) + 1) = PacketSize * (Len(sent) + 1) + PacketSize
          /\ PacketSize * (Len(sent) + 1) \in Nat
      BY <2>4, Times
    <3> QED BY <1>1, <3>1, <3>2 DEF serverWrites, Written
  <2>9. Bytes'
    BY <1>1, <2>8 DEF serverWrites, filter, history, Bytes, Limit, Types
  <2>10. Mouse' /\ Told'
    BY <1>1 DEF serverWrites, filter, mouse, history, Mouse, Flushed, Told, Ready, isReady, Queued
  <2> QED BY <2>7, <2>9, <2>10
<1>2. CASE connectionBreaks
  <2>1. PICK n \in got..Written : cut' = n
    BY <1>2 DEF connectionBreaks
  <2>2. Types'
    BY <1>2, <2>1 DEF connectionBreaks, filter, mouse, history, Types
  <2>3. Written' = Written /\ Written \in Nat
    <3>1. PacketSize * (Len(sent) + 1) \in Nat
      <4>1. Len(sent) + 1 \in Nat
        BY DEF Types
      <4> QED BY <4>1, Times
    <3> QED BY <1>2, <3>1 DEF connectionBreaks, Written
  <2>4. Bytes'
    BY <1>2, <2>1, <2>3 DEF connectionBreaks, filter, history, Bytes, Limit, Types
  <2>5. Mouse' /\ Told'
    BY <1>2 DEF connectionBreaks, filter, mouse, history, Mouse, Flushed, Told, Ready, isReady, Queued
  <2> QED BY <2>2, <2>4, <2>5
<1> QED BY <1>1, <1>2

LEMMA SocketSteps == IInv /\ (doRead \/ doReadHangup) => IInv'
<1> SUFFICES ASSUME IInv, doRead \/ doReadHangup PROVE IInv'
  OBVIOUS
<1> USE Sizes, StreamAssumption DEF IInv
<1>w. Written \in Nat /\ Limit \in Int
  <2>1. PacketSize * (Len(sent) + 1) \in Nat
    <3>1. Len(sent) + 1 \in Nat
      BY DEF Types
    <3> QED BY <3>1, Times
  <2> QED BY <2>1 DEF Written, Limit, Types
<1>e. "socketReady" \in EventKinds /\ "socketShutdown" \in EventKinds
  BY DEF EventKinds
<1>1. CASE doRead
  <2>1. PICK n \in got + 1..Limit : got' = n
    BY <1>1 DEF doRead
  <2>2. got' \in Nat /\ got' > got /\ got' <= Limit /\ Limit' = Limit /\ Written' = Written
    BY <1>1, <1>w, <2>1 DEF doRead, Types, Limit, Written
  <2>3. events' = (IF got = moved THEN Append(events, "socketReady") ELSE events)
    BY <1>1 DEF doRead
  <2>4. /\ events' \in Seq(EventKinds)
        /\ \A e : Queued(e)' <=> Queued(e) \/ (got = moved /\ e = "socketReady")
    <3>1. CASE got = moved
      BY <1>e, <2>3, <3>1, Posted
    <3>2. CASE got # moved
      BY <2>3, <3>2 DEF Queued, Types
    <3> QED BY <3>1, <3>2
  <2>5. Types'
    BY <1>1, <2>2, <2>4 DEF doRead, filter, mouse, history, Types
  <2>6. Bytes'
    BY <1>1, <2>2 DEF doRead, filter, history, Bytes, Types
  <2>7. Mouse'
    BY <1>1 DEF doRead, mouse, history, Mouse, Flushed
  <2>8. reader # "none" => Queued("socketReady")'
    <3>1. got = moved \/ got > moved
      BY DEF Types, Bytes
    <3> QED BY <2>4, <3>1 DEF Told
  <2>9. Told'
    BY <1>1, <2>4, <2>8 DEF doRead, filter, Told, Ready, isReady
  <2> QED BY <2>5, <2>6, <2>7, <2>9
<1>2. CASE doReadHangup
  <2>1. /\ events' \in Seq(EventKinds)
        /\ \A e : Queued(e)' <=> Queued(e) \/ e = "socketShutdown"
    BY <1>2, <1>e, Posted DEF doReadHangup
  <2>2. Types'
    BY <1>2, <2>1 DEF doReadHangup, filter, mouse, history, Types
  <2>3. Limit' = Limit /\ Written' = Written
    BY <1>2 DEF doReadHangup, Limit, Written
  <2>4. Bytes'
    BY <1>2, <2>3 DEF doReadHangup, filter, history, Bytes
  <2>5. Mouse'
    BY <1>2 DEF doReadHangup, mouse, history, Mouse, Flushed
  <2>6. Told'
    BY <1>2, <2>1 DEF doReadHangup, filter, Told, Ready, isReady
  <2> QED BY <2>2, <2>4, <2>5, <2>6
<1> QED BY <1>1, <1>2

LEMMA FilterSteps ==
    IInv /\ (filterInput \/ filterShutdown \/ inputReady \/ inputShutdown) => IInv'
<1> SUFFICES ASSUME IInv, filterInput \/ filterShutdown \/ inputReady \/ inputShutdown PROVE IInv'
  OBVIOUS
<1> USE Sizes, StreamAssumption DEF IInv
<1>e. EventKinds = {"socketReady", "socketShutdown", "ready", "shutdown"}
  BY DEF EventKinds
<1>1. CASE filterInput
  <2>1. /\ events' \in Seq(EventKinds) /\ ~handling
        /\ \A e \in EventKinds : e # "socketReady" => (Queued(e)' <=> Queued(e))
    BY <1>1, Dispatched DEF filterInput
  <2> DEFINE p == readPacketSize(m_size, used, got)
  <2>2. /\ moved' = got /\ m_size' = p.size /\ used' = p.used
        /\ handling' = (Ready # isReady(p.size, p.used, got))
        /\ UNCHANGED <<network, m_inputShutdown, reader, mouse, infoSent, history>>
    BY <1>1 DEF filterInput
  <2>3. \/ m_size = 0 /\ got - used >= HeaderSize /\ m_size' = BodySize /\ used' = used + HeaderSize
        \/ ~(m_size = 0 /\ got - used >= HeaderSize) /\ m_size' = m_size /\ used' = used
    BY <2>2 DEF readPacketSize
  <2>4. Limit' = Limit /\ Written' = Written /\ got' = got /\ handled' = handled
        /\ cut' = cut /\ reader' = reader
    BY <2>2 DEF network, history, Limit, Written
  <2>5. handling' \in BOOLEAN /\ moved' = got
    BY <2>2
  <2>6. got \in Nat /\ used \in Nat /\ moved \in Nat /\ used <= moved /\ moved <= got /\ used' \in Nat
        /\ m_size \in {0, BodySize}
    BY <2>3 DEF Types, Bytes
  <2>7. Types' /\ Bytes'
    <3>1. Types'
      BY <2>1, <2>2, <2>5, <2>6 DEF network, history, Types
    <3>2. used' <= moved' /\ moved' <= got' /\ m_size' \in {0, BodySize}
      BY <2>3, <2>4, <2>5, <2>6
    <3>3. PacketSize * handled \in Nat
      BY Times DEF Types
    <3>4. used' = PacketSize * handled' + (IF m_size' # 0 THEN HeaderSize ELSE 0)
      BY <2>3, <2>4, <2>6, <3>3 DEF Bytes
    <3>5. Bytes'
      BY <2>4, <3>2, <3>4 DEF Bytes
    <3> QED BY <3>1, <3>5
  <2>8. Mouse'
    BY <2>1, <2>2 DEF mouse, history, Mouse, Flushed
  <2>9. Ready' <=> isReady(p.size, p.used, got)
    BY <2>2 DEF Ready
  <2>10. Ready => Ready'
    BY <2>3, <2>5, <2>6 DEF Ready, isReady
  <2>11. Ready' => handling' \/ Ready
    BY <2>2, <2>9
  <2>12. ~(got' > moved') /\ (m_size # 0 => m_size' # 0)
    BY <2>3, <2>4, <2>5, <2>6
  <2>13. hung' = hung /\ m_inputShutdown' = m_inputShutdown /\ Types
    BY <2>2 DEF network
  <2>14. Told'
    BY <1>e, <2>1, <2>4, <2>11, <2>12, <2>13 DEF Told
  <2> QED BY <2>7, <2>8, <2>14
<1>2. CASE filterShutdown
  <2>1. /\ events' \in Seq(EventKinds) /\ ~handling
        /\ \A e \in EventKinds : e # "socketShutdown" => (Queued(e)' <=> Queued(e))
    BY <1>2, Dispatched DEF filterShutdown
  <2>2. Types'
    BY <1>2, <2>1 DEF filterShutdown, network, mouse, history, Types
  <2>3. Limit' = Limit /\ Written' = Written
    BY <1>2 DEF filterShutdown, network, Limit, Written
  <2>4. Bytes'
    BY <1>2, <2>3 DEF filterShutdown, network, history, Bytes
  <2>5. Mouse'
    BY <1>2, <2>1 DEF filterShutdown, mouse, history, Mouse, Flushed
  <2>6. Told'
    BY <1>2, <1>e, <2>1 DEF filterShutdown, network, Told, Ready, isReady
  <2> QED BY <2>2, <2>4, <2>5, <2>6
<1>3. CASE inputReady
  <2>1. /\ events' \in Seq(EventKinds) /\ ~handling
        /\ \A e \in EventKinds : e # "ready" => (Queued(e)' <=> Queued(e))
    BY <1>3, Dispatched DEF inputReady
  <2>2. Types'
    BY <1>3, <2>1 DEF inputReady, network, filter, mouse, history, Types
  <2>3. Limit' = Limit /\ Written' = Written
    BY <1>3 DEF inputReady, network, Limit, Written
  <2>4. Bytes'
    BY <1>3, <2>3 DEF inputReady, network, filter, history, Bytes
  <2>5. Mouse'
    BY <1>3, <2>1 DEF inputReady, mouse, history, Mouse, Flushed
  <2>6. Told'
    BY <1>3, <1>e, <2>1 DEF inputReady, network, filter, Told, Ready, isReady
  <2> QED BY <2>2, <2>4, <2>5, <2>6
<1>4. CASE inputShutdown
  <2>1. events' \in Seq(EventKinds) /\ ~handling
    BY <1>4, Dispatched DEF inputShutdown
  <2>2. Types'
    BY <1>4, <2>1 DEF inputShutdown, network, filter, mouse, history, Types
  <2>3. Limit' = Limit /\ Written' = Written
    BY <1>4 DEF inputShutdown, network, Limit, Written
  <2>4. Bytes'
    BY <1>4, <2>3 DEF inputShutdown, network, filter, history, Bytes
  <2>5. Mouse'
    BY <1>4, <2>1 DEF inputShutdown, mouse, history, Mouse, Flushed
  <2>6. Told'
    BY <1>4 DEF inputShutdown, Told
  <2> QED BY <2>2, <2>4, <2>5, <2>6
<1> QED BY <1>1, <1>2, <1>3, <1>4

\* A reader has taken a packet: what the filter and the queue are then.
LEMMA ReaderSteps ==
    ASSUME Types, Bytes, Told, Ready, handling, reader # "none", readPacket,
           UNCHANGED network, NEW more \in BOOLEAN,
           events' = events \o ShutdownEvent \o (IF more THEN <<"ready">> ELSE <<>>),
           reader' = "proxy",
           handling' \/ ~MoreFollows \/ more
    PROVE  /\ events' \in Seq(EventKinds)
           /\ Bytes'
           /\ Told'
<1> USE Sizes, StreamAssumption
<1>1. /\ m_size # 0 /\ m_size' \in {0, BodySize} /\ handled' = handled + 1
      /\ used' \in Nat /\ moved' = moved /\ m_inputShutdown' = m_inputShutdown
      /\ used' <= moved'
      /\ used' = PacketSize * handled' + (IF m_size' # 0 THEN HeaderSize ELSE 0)
      /\ handled <= Len(sent)
  BY PacketRead
<1>2. got' = got /\ Limit' = Limit /\ Written' = Written /\ cut' = cut /\ hung' = hung
  BY DEF network, Limit, Written
<1>3. Bytes'
  BY <1>1, <1>2 DEF Bytes, Types
<1> DEFINE shut == m_inputShutdown /\ m_size' = 0
<1> DEFINE q == events \o (IF shut THEN <<"shutdown">> ELSE <<>>)
<1>4. shut \in BOOLEAN /\ "shutdown" \in EventKinds /\ "ready" \in EventKinds /\ events \in Seq(EventKinds)
  BY DEF Types, EventKinds
<1>5. q \in Seq(EventKinds) /\ \A e : In(q, e) <=> In(events, e) \/ (shut /\ e = "shutdown")
  <2> HIDE DEF shut
  <2> QED BY <1>4, InConcat
<1>6. events' = q \o (IF more THEN <<"ready">> ELSE <<>>)
  BY DEF ShutdownEvent
<1>7. events' \in Seq(EventKinds) /\ \A e : In(events', e) <=> In(q, e) \/ (more /\ e = "ready")
  <2> HIDE DEF q
  <2>1. CASE more
    <3>1. events' = Append(q, "ready")
      BY <1>5, <1>6, <2>1
    <3>2. /\ Append(q, "ready") \in Seq(EventKinds)
          /\ \A e : In(Append(q, "ready"), e) <=> In(q, e) \/ e = "ready"
      BY <1>4, <1>5, InAppend
    <3> QED BY <2>1, <3>1, <3>2
  <2>2. CASE ~more
    <3>1. events' = q
      <4>1. events' = q \o <<>>
        BY <1>6, <2>2
      <4>2. q \o <<>> = q
        BY <1>5
      <4> QED BY <4>1, <4>2
    <3> QED BY <1>5, <2>2, <3>1
  <2> QED BY <2>1, <2>2
<1>8. \A e : (Queued(e) <=> In(events, e)) /\ (Queued(e)' <=> In(events', e))
  BY DEF Queued, In
<1> HIDE DEF q
<1>9. \A e : Queued(e)' <=> Queued(e) \/ (shut /\ e = "shutdown") \/ (more /\ e = "ready")
  BY <1>5, <1>7, <1>8
<1>10. Ready' => handling' \/ Queued("ready")'
  BY <1>9 DEF MoreFollows, Ready
<1>11. Told'
  BY <1>1, <1>2, <1>9, <1>10 DEF Told
<1> QED BY <1>3, <1>7, <1>11

LEMMA HelloStep == IInv /\ handle_hello => IInv'
<1> SUFFICES ASSUME IInv, handle_hello PROVE IInv'
  OBVIOUS
<1> USE DEF IInv
<1> DEFINE more == MoreFollows
<1>1. more \in BOOLEAN
  BY DEF MoreFollows, isReady
<1>2. /\ handling /\ reader = "hello" /\ Ready /\ readPacket
      /\ events' = events \o ShutdownEvent \o (IF more THEN <<"ready">> ELSE <<>>)
      /\ reader' = "proxy" /\ handling' = FALSE
      /\ UNCHANGED <<network, mouse, infoSent, motion, meant, misplaced>>
  BY DEF handle_hello
<1>3. events' \in Seq(EventKinds) /\ Bytes' /\ Told'
  <2>1. handling' \/ ~MoreFollows \/ more
    OBVIOUS
  <2> HIDE DEF more
  <2> QED BY <1>1, <1>2, <2>1, ReaderSteps
<1> HIDE DEF more
<1>4. handled' \in Nat /\ used' \in Nat /\ moved' \in Nat /\ m_inputShutdown' \in BOOLEAN
  BY <1>2, PacketRead DEF Types
<1>5. Types'
  BY <1>2, <1>3, <1>4 DEF network, Types
<1>6. Mouse'
  BY <1>2 DEF mouse, Mouse, Flushed
<1> QED BY <1>3, <1>5, <1>6

\* A turn of handle_data(): each kind of message keeps what a flush would give.
LEMMA MessageStep == IInv /\ handleMessage => IInv'
<1> SUFFICES ASSUME IInv, handleMessage PROVE IInv'
  OBVIOUS
<1> USE DEF IInv
<1>1. /\ handling /\ reader = "proxy" /\ Ready /\ readPacket
      /\ events' = events \o ShutdownEvent
      /\ UNCHANGED <<network, reader, handling, infoSent, motion>>
  BY DEF handleMessage
<1>2. events' \in Seq(EventKinds) /\ Bytes' /\ Told'
  <2>1. events' = (events \o ShutdownEvent) \o (IF FALSE THEN <<"ready">> ELSE <<>>)
    <3>1. events \in Seq(EventKinds) /\ ShutdownEvent \in Seq(EventKinds)
      BY DEF Types, ShutdownEvent, EventKinds
    <3> QED BY <1>1, <3>1
  <2>2. FALSE \in BOOLEAN /\ handling' /\ reader' = "proxy" /\ reader # "none"
    BY <1>1
  <2> QED BY <1>1, <2>1, <2>2, ReaderSteps
<1>3. /\ handled \in 1..Len(sent) /\ handled' \in Nat /\ used' \in Nat /\ moved' \in Nat
      /\ m_inputShutdown' \in BOOLEAN
  BY <1>1, PacketRead DEF Types, Bytes
<1>4. Types'
  BY <1>1, <1>2, <1>3 DEF network, Types
<1> DEFINE m == sent[handled]
<1>5. m.kind \in {motion, "button", "enter", "ack"} /\ m.at \in Int /\ motion \in {"move", "rel"}
  <2>1. m \in [kind : Kinds, at : Int]
    <3>1. sent \in Seq([kind : Kinds, at : Int])
      BY DEF Types
    <3> QED BY <1>3, <3>1, Element
  <2> QED BY <1>3, <2>1 DEF Types
<1>6. /\ mouseMove(m) \/ mouseRelativeMove(m) \/ button(m) \/ enter(m) \/ infoAcknowledgment(m)
  BY DEF handleMessage
<1> HIDE DEF m
<1>m. MoreFollows \in BOOLEAN
  BY DEF MoreFollows, isReady
<1>t. /\ m_compressMouse \in BOOLEAN /\ m_compressMouseRelative \in BOOLEAN
      /\ m_ignoreMouse \in BOOLEAN /\ misplaced = FALSE
      /\ cursor \in Int /\ m_mouse \in Int /\ m_delta \in Int /\ meant \in Int
      /\ Flushed = meant
      /\ ~m_compressMouseRelative => m_delta = 0
      /\ m_ignoreMouse => ~m_compressMouse /\ ~m_compressMouseRelative
      /\ motion' = motion /\ handling' = handling /\ handling /\ reader' = reader /\ reader = "proxy"
  BY <1>1 DEF Mouse
<1>7. ASSUME mouseMove(m) PROVE Mouse'
  <2>1. motion = "move" /\ ~m_compressMouseRelative /\ m_delta = 0
    BY <1>5, <1>7 DEF mouseMove, Mouse
  <2>2. CASE m_ignoreMouse
    <3>1. /\ m_compressMouse' = FALSE /\ cursor' = cursor /\ meant' = meant /\ m_mouse' = m_mouse
          /\ m_compressMouseRelative' = FALSE /\ m_delta' = 0 /\ m_ignoreMouse' = m_ignoreMouse
          /\ misplaced' = misplaced
      BY <1>7, <1>t, <2>1, <2>2 DEF mouseMove
    <3>2. Flushed' = cursor /\ Flushed = cursor
      BY <1>t, <2>1, <2>2, <3>1 DEF Flushed
    <3> QED BY <1>t, <2>1, <3>1, <3>2 DEF Mouse
  <2>3. CASE ~m_ignoreMouse
    <3>1. /\ m_compressMouse' \in BOOLEAN /\ m_compressMouseRelative' = FALSE /\ m_delta' = 0
          /\ meant' = m.at /\ m_ignoreMouse' = FALSE /\ misplaced' = misplaced
          /\ \/ m_compressMouse' /\ m_mouse' = m.at /\ cursor' = cursor
             \/ ~m_compressMouse' /\ m_mouse' = m_mouse /\ cursor' = m.at
      BY <1>7, <1>t, <1>m, <2>1, <2>3 DEF mouseMove
    <3>2. Flushed' = m.at
      BY <1>5, <3>1 DEF Flushed
    <3> QED BY <1>5, <1>t, <2>1, <3>1, <3>2 DEF Mouse
  <2> QED BY <2>2, <2>3
<1>8. ASSUME mouseRelativeMove(m) PROVE Mouse'
  <2>1. motion = "rel" /\ ~m_compressMouse
    BY <1>5, <1>8 DEF mouseRelativeMove, Mouse
  <2>2. CASE m_ignoreMouse
    <3>1. /\ m_compressMouse' = FALSE /\ cursor' = cursor /\ meant' = meant /\ m_mouse' = m_mouse
          /\ m_compressMouseRelative' = FALSE /\ m_delta' = 0 /\ m_ignoreMouse' = m_ignoreMouse
          /\ misplaced' = misplaced
      BY <1>8, <1>t, <2>1, <2>2 DEF mouseRelativeMove
    <3>2. Flushed' = cursor /\ Flushed = cursor
      BY <1>t, <2>1, <2>2, <3>1 DEF Flushed
    <3> QED
      <4>1. /\ m_compressMouse' \in BOOLEAN /\ m_compressMouseRelative' \in BOOLEAN
            /\ m_ignoreMouse' \in BOOLEAN /\ misplaced' = FALSE
        BY <1>t, <2>1, <3>1, <3>2
      <4>2. /\ cursor' \in Int /\ m_mouse' \in Int /\ m_delta' \in Int /\ meant' \in Int
            /\ Flushed' = meant'
        BY <1>t, <2>1, <3>1, <3>2
      <4>3. /\ ~m_compressMouseRelative' => m_delta' = 0
            /\ motion' = "move" => ~m_compressMouseRelative'
            /\ motion' = "rel" => ~m_compressMouse'
            /\ ~handling' \/ reader' # "proxy" \/ m_ignoreMouse' => ~m_compressMouse' /\ ~m_compressMouseRelative'
        BY <1>t, <2>1, <3>1, <3>2
      <4> QED BY <4>1, <4>2, <4>3, Zenon DEF Mouse
  <2>3. CASE ~m_ignoreMouse
    <3>1. /\ m_compressMouseRelative' \in BOOLEAN /\ m_compressMouse' = FALSE /\ m_mouse' = m_mouse
          /\ meant' = meant + m.at /\ m_ignoreMouse' = FALSE /\ misplaced' = misplaced
          /\ \/ m_compressMouseRelative' /\ m_delta' = m_delta + m.at /\ cursor' = cursor
             \/ /\ ~m_compressMouseRelative' /\ ~m_compressMouseRelative
                /\ m_delta' = 0 /\ cursor' = cursor + m.at
      BY <1>8, <1>t, <1>m, <2>1, <2>3 DEF mouseRelativeMove
    <3>2. Flushed = cursor + m_delta
      BY <1>t, <2>1 DEF Flushed
    <3>3. Flushed' = cursor + m_delta + m.at
      BY <1>5, <1>t, <3>1 DEF Flushed
    <3> QED
      <4>1. /\ m_compressMouse' \in BOOLEAN /\ m_compressMouseRelative' \in BOOLEAN
            /\ m_ignoreMouse' \in BOOLEAN /\ misplaced' = FALSE
        BY <1>5, <1>t, <2>1, <3>1, <3>2, <3>3
      <4>2. /\ cursor' \in Int /\ m_mouse' \in Int /\ m_delta' \in Int /\ meant' \in Int
            /\ Flushed' = meant'
        BY <1>5, <1>t, <2>1, <3>1, <3>2, <3>3
      <4>3. /\ ~m_compressMouseRelative' => m_delta' = 0
            /\ motion' = "move" => ~m_compressMouseRelative'
            /\ motion' = "rel" => ~m_compressMouse'
            /\ ~handling' \/ reader' # "proxy" \/ m_ignoreMouse' => ~m_compressMouse' /\ ~m_compressMouseRelative'
        BY <1>5, <1>t, <2>1, <3>1, <3>2, <3>3
      <4> QED BY <4>1, <4>2, <4>3, Zenon DEF Mouse
  <2> QED BY <2>2, <2>3
<1>9. ASSUME button(m) PROVE Mouse'
  <2>1. /\ cursor' = meant /\ meant' = meant /\ m_compressMouse' = FALSE
        /\ m_compressMouseRelative' = FALSE /\ m_delta' = 0 /\ misplaced' = FALSE
        /\ m_mouse' = m_mouse /\ m_ignoreMouse' = m_ignoreMouse
    BY <1>9, <1>t DEF button, flushCompressedMouse
  <2>2. Flushed' = meant
    BY <1>t, <2>1 DEF Flushed
  <2> QED
    <3>1. /\ m_compressMouse' \in BOOLEAN /\ m_compressMouseRelative' \in BOOLEAN
          /\ m_ignoreMouse' \in BOOLEAN /\ misplaced' = FALSE
      BY <1>t, <2>1, <2>2
    <3>2. /\ cursor' \in Int /\ m_mouse' \in Int /\ m_delta' \in Int /\ meant' \in Int
          /\ Flushed' = meant'
      BY <1>t, <2>1, <2>2
    <3>3. /\ ~m_compressMouseRelative' => m_delta' = 0
          /\ motion' = "move" => ~m_compressMouseRelative'
          /\ motion' = "rel" => ~m_compressMouse'
          /\ ~handling' \/ reader' # "proxy" \/ m_ignoreMouse' => ~m_compressMouse' /\ ~m_compressMouseRelative'
      BY <1>t, <2>1, <2>2
    <3> QED BY <3>1, <3>2, <3>3, Zenon DEF Mouse
<1>10. ASSUME enter(m) PROVE Mouse'
  <2>1. /\ cursor' = m.at /\ meant' = m.at /\ m_compressMouse' = FALSE
        /\ m_compressMouseRelative' = FALSE /\ m_delta' = 0 /\ misplaced' = misplaced
        /\ m_mouse' = m_mouse /\ m_ignoreMouse' = m_ignoreMouse
    BY <1>10 DEF enter
  <2>2. Flushed' = m.at
    BY <1>5, <2>1 DEF Flushed
  <2> QED
    <3>1. /\ m_compressMouse' \in BOOLEAN /\ m_compressMouseRelative' \in BOOLEAN
          /\ m_ignoreMouse' \in BOOLEAN /\ misplaced' = FALSE
      BY <1>5, <1>t, <2>1, <2>2
    <3>2. /\ cursor' \in Int /\ m_mouse' \in Int /\ m_delta' \in Int /\ meant' \in Int
          /\ Flushed' = meant'
      BY <1>5, <1>t, <2>1, <2>2
    <3>3. /\ ~m_compressMouseRelative' => m_delta' = 0
          /\ motion' = "move" => ~m_compressMouseRelative'
          /\ motion' = "rel" => ~m_compressMouse'
          /\ ~handling' \/ reader' # "proxy" \/ m_ignoreMouse' => ~m_compressMouse' /\ ~m_compressMouseRelative'
      BY <1>5, <1>t, <2>1, <2>2
    <3> QED BY <3>1, <3>2, <3>3, Zenon DEF Mouse
<1>11. ASSUME infoAcknowledgment(m) PROVE Mouse'
  BY <1>11, <1>t DEF infoAcknowledgment, Mouse, Flushed
<1> QED BY <1>2, <1>4, <1>6, <1>7, <1>8, <1>9, <1>10, <1>11

\* The end of handle_data() flushes; outside of it nothing was recorded.
LEMMA EndStep == IInv /\ endOfData => IInv'
<1> SUFFICES ASSUME IInv, endOfData PROVE IInv'
  OBVIOUS
<1> USE DEF IInv
<1>1. /\ handling /\ (~Ready \/ reader = "none") /\ handling' = FALSE
      /\ UNCHANGED <<network, filter, events, reader, infoSent, history>>
  BY DEF endOfData
<1>2. Types'
  BY <1>1 DEF network, filter, history, Types
<1>3. Limit' = Limit /\ Written' = Written
  BY <1>1 DEF network, Limit, Written
<1>4. Bytes'
  BY <1>1, <1>3 DEF network, filter, history, Bytes
<1>5. Told'
  BY <1>1 DEF network, filter, Told, Ready, isReady, Queued
<1>6. /\ m_compressMouse' = FALSE /\ m_compressMouseRelative' = FALSE /\ m_delta' = 0
      /\ cursor' = meant /\ m_mouse' = m_mouse /\ m_ignoreMouse' = m_ignoreMouse
  <2>1. CASE reader = "proxy"
    BY <2>1 DEF endOfData, flushCompressedMouse, Mouse
  <2>2. CASE reader # "proxy"
    <3>1. ~m_compressMouse /\ ~m_compressMouseRelative /\ m_delta = 0
      BY <2>2 DEF Mouse
    <3>2. cursor = meant
      BY <3>1 DEF Mouse, Flushed
    <3>3. UNCHANGED mouse
      BY <2>2 DEF endOfData
    <3>4. m_compressMouse = FALSE /\ m_compressMouseRelative = FALSE
      BY <3>1 DEF Mouse
    <3> QED BY <3>1, <3>2, <3>3, <3>4 DEF mouse
  <2> QED BY <2>1, <2>2
<1>7. Mouse'
  <2>1. /\ m_ignoreMouse \in BOOLEAN /\ misplaced = FALSE /\ m_mouse \in Int /\ meant \in Int
        /\ meant' = meant /\ misplaced' = misplaced
    BY <1>1 DEF Mouse, history
  <2>2. Flushed' = meant
    BY <1>6, <2>1 DEF Flushed
  <2>3. /\ m_compressMouse' \in BOOLEAN /\ m_compressMouseRelative' \in BOOLEAN
        /\ m_ignoreMouse' \in BOOLEAN /\ misplaced' = FALSE
    BY <1>6, <2>1
  <2>4. /\ cursor' \in Int /\ m_mouse' \in Int /\ m_delta' \in Int /\ meant' \in Int
        /\ Flushed' = meant'
    BY <1>6, <2>1, <2>2
  <2>5. /\ ~m_compressMouseRelative' => m_delta' = 0
        /\ motion' = "move" => ~m_compressMouseRelative'
        /\ motion' = "rel" => ~m_compressMouse'
        /\ ~handling' \/ reader' # "proxy" \/ m_ignoreMouse' => ~m_compressMouse' /\ ~m_compressMouseRelative'
    BY <1>6
  <2> QED BY <2>3, <2>4, <2>5, Zenon DEF Mouse
<1> QED BY <1>2, <1>4, <1>5, <1>7

LEMMA IInvStep == IInv /\ [Next]_vars => IInv'
<1> SUFFICES ASSUME IInv, [Next]_vars PROVE IInv'
  OBVIOUS
<1>1. CASE onInfoChanged
  <2>1. Types'
    BY <1>1 DEF onInfoChanged, network, filter, history, IInv, Types
  <2>2. Limit' = Limit /\ Written' = Written
    BY <1>1 DEF onInfoChanged, network, Limit, Written
  <2>3. Bytes'
    BY <1>1, <2>2 DEF onInfoChanged, network, filter, history, IInv, Bytes
  <2>4. Mouse'
    BY <1>1 DEF onInfoChanged, history, IInv, Mouse, Flushed
  <2>5. Told'
    BY <1>1 DEF onInfoChanged, network, filter, IInv, Told, Ready, isReady, Queued
  <2> QED BY <2>1, <2>3, <2>4, <2>5 DEF IInv
<1>2. CASE UNCHANGED vars
  <2>1. Types' /\ Told'
    BY <1>2 DEF vars, network, filter, mouse, history, IInv, Types, Told, Ready, isReady, Queued
  <2>2. Limit' = Limit /\ Written' = Written
    BY <1>2 DEF vars, network, Limit, Written
  <2>3. Bytes'
    BY <1>2, <2>2 DEF vars, network, filter, mouse, history, IInv, Bytes
  <2>4. Mouse'
    BY <1>2 DEF vars, mouse, history, IInv, Mouse, Flushed
  <2> QED BY <2>1, <2>3, <2>4 DEF IInv
<1> QED BY <1>1, <1>2, ServerSteps, SocketSteps, FilterSteps, HelloStep, MessageStep, EndStep DEF Next

LEMMA Inductive == Spec => []IInv
  BY IInvInit, IInvStep, PTL DEF Spec

\* However the stream is cut into reads, and whatever it holds, a button or a key
\* is used where the cursor would be without ServerProxy's compression, and the
\* cursor is there whenever handle_data() has returned.
THEOREM CursorIsWhereMeant == Spec => []CursorWhereMeant
<1>1. IInv => CursorWhereMeant
  <2> SUFFICES ASSUME IInv PROVE CursorWhereMeant
    OBVIOUS
  <2>1. {hung, m_inputShutdown, handling, m_compressMouse, m_compressMouseRelative, m_ignoreMouse,
         infoSent, misplaced} \subseteq BOOLEAN
    <3>1. /\ hung \in BOOLEAN /\ m_inputShutdown \in BOOLEAN /\ handling \in BOOLEAN
          /\ m_compressMouse \in BOOLEAN /\ m_compressMouseRelative \in BOOLEAN
          /\ m_ignoreMouse \in BOOLEAN /\ infoSent \in BOOLEAN /\ misplaced \in BOOLEAN
      BY DEF IInv, Types, Mouse
    <3> QED BY <3>1, Zenon
  <2>2. {cursor, m_mouse, m_delta, meant} \subseteq Int
    BY DEF IInv, Mouse
  <2>3. TypeOK
    BY <2>1, <2>2 DEF IInv, Types, Bytes, TypeOK
  <2>4. ~handling => cursor = meant
    <3>1. ASSUME ~handling PROVE cursor = meant
      <4>1. ~m_compressMouse /\ ~m_compressMouseRelative /\ cursor \in Int
        BY <3>1 DEF IInv, Mouse
      <4> QED BY <4>1 DEF IInv, Mouse, Flushed
    <3> QED BY <3>1
  <2> QED BY <2>3, <2>4 DEF IInv, Mouse, CursorWhereMeant
<1> QED BY <1>1, Inductive, PTL

\* The socket, the filter and the readers never leave bytes, a whole packet or a
\* hangup without an event that leads to them, although each is told only once.
THEOREM StreamForgetsNothing == Spec => []NothingForgotten
<1>1. IInv => NothingForgotten
  BY DEF IInv, Bytes, Told, NothingForgotten
<1> QED BY <1>1, Inductive, PTL
=============================================================================
