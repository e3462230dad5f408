---------------------------- MODULE ChunksProofs ----------------------------
(***************************************************************************)
(* For any number of transfers, clients and jumps, and files of any size:  *)
(* what is taken for a complete transfer is complete, and an end that is   *)
(* refused has a cause.                                                    *)
(*                                                                         *)
(* Chunks of a transfer pass through the events, a connection and a buffer *)
(* in the order of their numbers (Lines, Unread), whatever is lost between *)
(* them.  So a buffer that only one transfer has filled holds increasing   *)
(* numbers, and as many as the transfer has chunks only if it holds all    *)
(* (Increasing).  For a transfer of which nothing was lost, every chunk    *)
(* that was posted is in one of these places (Whereabouts), as long as its *)
(* receiver may still accept it.                                           *)
(***************************************************************************)
EXTENDS Chunks, Integers, TLAPS

In(s) == {s[i] : i \in 1..Len(s)}

Pieces == Seq(Nat \X Nat)
Messages == [mark : {"start", "data", "end", "drag"}, of : Nat, size : Nat, data : Pieces]
Buffers == [expected : Nat, data : Pieces, opened : Nat, only : BOOLEAN, ended : BOOLEAN]
Pcs == {"idle", "new", "loop", "end", "exit", "done", "none"}
Threads == [pc : Pcs, sent : Nat, to : Screens \cup {"server"}]

\* m carries a piece, the one with number Num(m).
Full(m) == m.mark = "data" /\ m.data # <<>>
Num(m) == m.data[1][2]

IsMsg(m, sz) ==
    /\ m \in Messages /\ m.of \in 1..Len(sz)
    /\ m.mark = "start" => m.size = sz[m.of]
    /\ Full(m) => Num(m) \in 1..sz[m.of] /\ m.data = <<<<m.of, Num(m)>>>>

\* m may be sent before n.
Less(m, n) ==
    m.of = n.of /\ m.mark # "drag" /\ n.mark # "drag" =>
       /\ n.mark # "start" /\ m.mark # "end"
       /\ Full(m) /\ Full(n) => Num(m) < Num(n)

InOrder(s) == \A i, j \in 1..Len(s) : i < j => Less(s[i], s[j])
Follows(s, q) == \A m \in In(s), n \in In(q) : Less(m, n)

\* Message m should not have been read before what buffer b has.
Behind(b, m) ==
    m.of = b.opened =>
       /\ m.mark # "start"
       /\ b.only /\ Full(m) => \A i \in 1..Len(b.data) : b.data[i][2] < Num(m)

Unread(b, s) == \A m \in In(s) : Behind(b, m)

\* A buffer that one transfer has filled holds pieces of it with growing numbers.
Increasing(b, sz) ==
    b.only =>
       /\ b.opened \in 1..Len(sz) /\ b.expected = sz[b.opened]
       /\ \A i \in 1..Len(b.data) :
             /\ b.data[i][2] \in 1..sz[b.opened] /\ b.data[i] = <<b.opened, b.data[i][2]>>
             /\ i <= b.data[i][2]
       /\ \A i, j \in 1..Len(b.data) : i < j => b.data[i][2] + (j - i) <= b.data[j][2]

\* What the thread th may have posted.
Started == {"loop", "end", "exit", "done"}
Posted(m, th) ==
    m.mark # "drag" =>
       /\ th.pc \in Started
       /\ m.mark = "end" => th.pc \in {"exit", "done"}
       /\ Full(m) => Num(m) <= th.sent

Types ==
    /\ size \in Seq(Sizes) /\ Len(size) <= MaxTransfers
    /\ m_clients \subseteq Clients /\ m_active \in m_clients \cup {"primary"}
    /\ m_dragging \in 0..Len(size) /\ m_sendFileThread \in 0..Len(size)
    /\ s_isChunkingFile \in BOOLEAN /\ s_interruptFile \in BOOLEAN
    /\ thread \in Seq(Threads) /\ Len(thread) = Len(size)
    /\ m_dragging # 0 => thread[m_dragging].pc = "idle"
    /\ events \in Seq(Messages)
    /\ toClient \in [Clients -> Seq(Messages)]
    /\ toServer \in [Clients -> Seq(Messages)]
    /\ buffer \in [Receivers -> Buffers]
    /\ m_dragFileList \in [Clients -> 0..Len(size)]
    /\ interrupted \subseteq 1..Len(size) /\ lost \subseteq 1..Len(size)

Lines ==
    /\ \A m \in In(events) : IsMsg(m, size) /\ Posted(m, thread[m.of]) /\ m.mark # "drag"
    /\ InOrder(events)
    /\ \A c \in Clients :
          /\ \A m \in In(toClient[c]) : IsMsg(m, size) /\ Posted(m, thread[m.of])
          /\ InOrder(toClient[c]) /\ Follows(toClient[c], events)
          /\ \A m \in In(toServer[c]) : IsMsg(m, size) /\ m.mark # "drag"
          /\ InOrder(toServer[c])
          /\ \A d \in Clients \ {c} : \A m \in In(toServer[c]), n \in In(toServer[d]) : m.of # n.of

FileBuffer(b) ==
    b.opened # 0 =>
       /\ b.opened \in 1..Len(size) /\ thread[b.opened].pc \in Started
       /\ b.only => \A i \in 1..Len(b.data) : b.data[i][2] <= thread[b.opened].sent

Filled ==
    /\ \A r \in Receivers : /\ Increasing(buffer[r], size)
                            /\ buffer[r].ended => Agrees(buffer[r])
                            /\ buffer[r].opened \in 0..Len(size)
    /\ \A c \in Clients : /\ FileBuffer(buffer[c])
                          /\ Unread(buffer[c], toClient[c]) /\ Unread(buffer[c], events)
                          /\ Unread(buffer["server"], toServer[c])

Kept ==
    \A n \in accepted : n.only /\ n.ended /\ n.of = n.opened => n.of \in 1..Len(size) /\ n.data = Whole(n.of)

IInv == Types /\ Lines /\ Filled /\ Kept

----------------------------------------------------------------------------
(* Where the chunks of a transfer are of which nothing was lost.            *)

Has(M, t, k) == \E m \in M : Full(m) /\ m.of = t /\ Num(m) = k
Opens(M, t) == \E m \in M : m.mark = "start" /\ m.of = t

\* Of the first n pieces of t, which has s, none is missing if b may still get it from M.
Complete(b, M, t, n, s) ==
    Opens(M, t) \/ (b.opened = t /\ b.only) =>
       \A k \in 1..n : k <= s => Has(M, t, k) \/ (b.opened = t /\ k \in 1..Len(b.data))

\* Nothing is missing in b, unless it is of a transfer in gone.
Dense(b, gone) == b.only /\ b.opened \notin gone => \A i \in 1..Len(b.data) : b.data[i][2] = i

Home ==
    \A c \in Clients :
       /\ \A m \in In(toClient[c]) : m.mark # "drag" /\ m.of \notin lost => thread[m.of].to = c
       /\ buffer[c].opened # 0 /\ buffer[c].opened \notin lost => thread[buffer[c].opened].to = c

Ended ==
    /\ \A t \in 1..Len(size) : thread[t].pc \in {"end", "exit"} /\ t \notin interrupted => thread[t].sent >= size[t]
    /\ \A c \in Clients : \A m \in In(toClient[c]) \cup In(events) :
          m.mark = "end" /\ m.of \notin interrupted => thread[m.of].sent >= size[m.of]

Whereabouts ==
    /\ \A r \in Receivers : Dense(buffer[r], lost)
    /\ \A c \in Clients : \A t \in (1..Len(size)) \ lost :
          /\ Complete(buffer[c], In(toClient[c]) \cup In(events), t, thread[t].sent, size[t])
          /\ (\E m \in In(toServer[c]) : m.of = t) =>
                Complete(buffer["server"], In(toServer[c]), t, size[t], size[t])

Fresh == \A t \in 1..Len(size) : thread[t].pc \notin Started => thread[t].sent = 0

Rest == Fresh /\ Home /\ Ended /\ Whereabouts /\ RejectedHadCause

JInv == IInv /\ Rest

----------------------------------------------------------------------------
(* Sequences of messages.                                                   *)

LEMMA Element == ASSUME NEW S, NEW s \in Seq(S), NEW i \in 1..Len(s) PROVE s[i] \in S
  OBVIOUS

\* A function on 1..n is a sequence.
LEMMA FunSeq ==
    ASSUME NEW S, NEW n \in Nat, NEW f \in [1..n -> S]
    PROVE  f \in Seq(S) /\ Len(f) = n
  OBVIOUS

LEMMA InEmpty == In(<<>>) = {}
  BY DEF In

LEMMA InSeq == ASSUME NEW S, NEW s \in Seq(S), NEW m \in In(s) PROVE m \in S
  BY DEF In

\* What is in a line after a message more, and in what order.
LEMMA InAppend ==
    ASSUME NEW S, NEW s \in Seq(S), NEW m \in S
    PROVE  /\ Append(s, m) \in Seq(S) /\ In(Append(s, m)) = In(s) \cup {m}
           /\ InOrder(s) /\ (\A n \in In(s) : Less(n, m)) => InOrder(Append(s, m))
<1> DEFINE q == Append(s, m)
<1>1. q \in Seq(S) /\ Len(q) = Len(s) + 1 /\ q[Len(s) + 1] = m /\ \A i \in 1..Len(s) : q[i] = s[i]
  OBVIOUS
<1> HIDE DEF q
<1>2. In(q) = In(s) \cup {m}
  <2>0. Len(s) \in Nat
    OBVIOUS
  <2>1. ASSUME NEW x \in In(q) PROVE x \in In(s) \cup {m}
    <3>1. PICK i \in 1..Len(q) : x = q[i]
      BY DEF In
    <3>2. CASE i = Len(s) + 1
      BY <3>1, <3>2, <1>1
    <3>3. CASE i # Len(s) + 1
      <4>1. i \in 1..Len(s) /\ x = s[i]
        BY <3>1, <3>3, <1>1, <2>0
      <4> QED BY <4>1 DEF In
    <3> QED BY <3>2, <3>3
  <2>2. ASSUME NEW x \in In(s) PROVE x \in In(q)
    <3>1. PICK i \in 1..Len(s) : x = s[i]
      BY DEF In
    <3>2. i \in 1..Len(q) /\ x = q[i]
      BY <3>1, <1>1, <2>0
    <3> QED BY <3>2 DEF In
  <2>3. m \in In(q)
    <3>1. Len(s) + 1 \in 1..Len(q) /\ m = q[Len(s) + 1]
      BY <1>1, <2>0
    <3> QED BY <3>1 DEF In
  <2> QED BY <2>1, <2>2, <2>3
<1>3. ASSUME InOrder(s), \A n \in In(s) : Less(n, m) PROVE InOrder(q)
  <2>1. SUFFICES ASSUME NEW i \in 1..Len(q), NEW j \in 1..Len(q), i < j PROVE Less(q[i], q[j])
    BY DEF InOrder
  <2>0. i \in 1..Len(s) /\ q[i] = s[i] /\ (j \in 1..Len(s) \/ j = Len(s) + 1)
    BY <1>1, <2>1
  <2>2. CASE j = Len(s) + 1
    <3>1. s[i] \in In(s)
      BY <2>0 DEF In
    <3> QED BY <3>1, <2>0, <2>2, <1>1, <1>3
  <2>3. CASE j \in 1..Len(s)
    <3>1. q[j] = s[j]
      BY <2>3, <1>1
    <3> QED BY <2>0, <2>1, <2>3, <3>1, <1>3 DEF InOrder
  <2> QED BY <2>0, <2>2, <2>3
<1> QED BY <1>1, <1>2, <1>3 DEF q

LEMMA InTail ==
    ASSUME NEW S, NEW s \in Seq(S), s # <<>>
    PROVE  /\ Head(s) \in S /\ Tail(s) \in Seq(S)
           /\ In(s) = {Head(s)} \cup In(Tail(s))
           /\ InOrder(s) => InOrder(Tail(s)) /\ \A n \in In(Tail(s)) : Less(Head(s), n)
<1> DEFINE q == Tail(s)
<1>1. /\ q \in Seq(S) /\ Len(s) = Len(q) + 1 /\ Len(q) \in Nat /\ Head(s) = s[1] /\ Head(s) \in S
      /\ \A i \in 1..Len(q) : q[i] = s[i + 1]
  OBVIOUS
<1> HIDE DEF q
<1>2. In(s) = {s[1]} \cup In(q)
  <2>1. ASSUME NEW x \in In(s) PROVE x \in {s[1]} \cup In(q)
    <3>1. PICK i \in 1..Len(s) : x = s[i]
      BY DEF In
    <3>2. CASE i = 1
      BY <3>1, <3>2
    <3>3. CASE i # 1
      <4>1. i - 1 \in 1..Len(q) /\ (i - 1) + 1 = i
        BY <3>3, <1>1
      <4>2. x = q[i - 1]
        BY <4>1, <3>1, <1>1
      <4> QED BY <4>1, <4>2 DEF In
    <3> QED BY <3>2, <3>3
  <2>2. ASSUME NEW x \in In(q) PROVE x \in In(s)
    <3>1. PICK i \in 1..Len(q) : x = q[i]
      BY DEF In
    <3>2. i + 1 \in 1..Len(s) /\ x = s[i + 1]
      BY <3>1, <1>1
    <3> QED BY <3>2 DEF In
  <2>3. s[1] \in In(s)
    <3>1. 1 \in 1..Len(s)
      BY <1>1
    <3> QED BY <3>1 DEF In
  <2> QED BY <2>1, <2>2, <2>3
<1>3. ASSUME InOrder(s) PROVE InOrder(q)
  <2>1. SUFFICES ASSUME NEW i \in 1..Len(q), NEW j \in 1..Len(q), i < j PROVE Less(q[i], q[j])
    BY DEF InOrder
  <2>2. i + 1 \in 1..Len(s) /\ j + 1 \in 1..Len(s) /\ i + 1 < j + 1
    BY <2>1, <1>1
  <2>3. Less(s[i + 1], s[j + 1])
    BY <2>2, <1>3 DEF InOrder
  <2> QED BY <2>3, <1>1
<1>4. ASSUME InOrder(s), NEW n \in In(q) PROVE Less(s[1], n)
  <2>1. PICK i \in 1..Len(q) : n = q[i]
    BY DEF In
  <2>2. 1 \in 1..Len(s) /\ i + 1 \in 1..Len(s) /\ 1 < i + 1 /\ n = s[i + 1]
    BY <2>1, <1>1
  <2> QED BY <2>2, <1>4 DEF InOrder
<1> QED BY <1>1, <1>2, <1>3, <1>4 DEF q

LEMMA InConcat ==
    ASSUME NEW S, NEW s \in Seq(S), NEW q \in Seq(S)
    PROVE  /\ s \o q \in Seq(S) /\ In(s \o q) = In(s) \cup In(q)
           /\ InOrder(s) /\ InOrder(q) /\ Follows(s, q) => InOrder(s \o q)
<1> DEFINE w == s \o q
<1>1. /\ w \in Seq(S) /\ Len(w) = Len(s) + Len(q) /\ Len(s) \in Nat /\ Len(q) \in Nat
      /\ \A i \in 1..Len(s) : w[i] = s[i]
      /\ \A i \in 1..Len(w) : i > Len(s) => w[i] = q[i - Len(s)]
      /\ \A i \in 1..Len(q) : w[i + Len(s)] = q[i]
  OBVIOUS
<1> HIDE DEF w
<1>2. ASSUME NEW x \in In(w) PROVE x \in In(s) \cup In(q)
  <2>1. PICK i \in 1..Len(w) : x = w[i]
    BY DEF In
  <2>2. CASE i <= Len(s)
    <3>1. i \in 1..Len(s) /\ x = s[i]
      BY <2>1, <2>2, <1>1
    <3> QED BY <3>1 DEF In
  <2>3. CASE i > Len(s)
    <3>1. i - Len(s) \in 1..Len(q) /\ x = q[i - Len(s)]
      BY <2>1, <2>3, <1>1
    <3> QED BY <3>1 DEF In
  <2> QED BY <2>2, <2>3, <1>1
<1>3. ASSUME NEW x \in In(s) PROVE x \in In(w)
  <2>1. PICK i \in 1..Len(s) : x = s[i]
    BY DEF In
  <2>2. i \in 1..Len(w) /\ x = w[i]
    BY <2>1, <1>1
  <2> QED BY <2>2 DEF In
<1>4. ASSUME NEW x \in In(q) PROVE x \in In(w)
  <2>1. PICK i \in 1..Len(q) : x = q[i]
    BY DEF In
  <2>2. i + Len(s) \in 1..Len(w) /\ x = w[i + Len(s)]
    BY <2>1, <1>1
  <2> QED BY <2>2 DEF In
<1>5. ASSUME InOrder(s), InOrder(q), Follows(s, q) PROVE InOrder(w)
  <2>1. SUFFICES ASSUME NEW i \in 1..Len(w), NEW j \in 1..Len(w), i < j PROVE Less(w[i], w[j])
    BY DEF InOrder
  <2>2. CASE j <= Len(s)
    <3>1. i \in 1..Len(s) /\ j \in 1..Len(s) /\ w[i] = s[i] /\ w[j] = s[j]
      BY <2>1, <2>2, <1>1
    <3> QED BY <3>1, <2>1, <1>5 DEF InOrder
  <2>3. CASE i <= Len(s) /\ j > Len(s)
    <3>1. i \in 1..Len(s) /\ j - Len(s) \in 1..Len(q) /\ w[i] = s[i] /\ w[j] = q[j - Len(s)]
      BY <2>1, <2>3, <1>1
    <3>2. w[i] \in In(s) /\ w[j] \in In(q)
      BY <3>1 DEF In
    <3> QED BY <3>2, <1>5 DEF Follows
  <2>4. CASE i > Len(s)
    <3>1. /\ i - Len(s) \in 1..Len(q) /\ j - Len(s) \in 1..Len(q) /\ i - Len(s) < j - Len(s)
          /\ w[i] = q[i - Len(s)] /\ w[j] = q[j - Len(s)]
      BY <2>1, <2>4, <1>1
    <3> QED BY <3>1, <1>5 DEF InOrder
  <2> QED BY <2>2, <2>3, <2>4, <1>1
<1> QED BY <1>1, <1>2, <1>3, <1>4, <1>5 DEF w

----------------------------------------------------------------------------
(* Messages and buffers.                                                    *)

LEMMA Constants ==
    /\ MaxTransfers \in Nat /\ MaxMoves \in Nat /\ Sizes \subseteq Nat
    /\ "server" \notin Clients /\ "primary" \notin Clients
  BY ChunksAssumption

LEMMA SizeType ==
    ASSUME NEW sz \in Seq(Sizes)
    PROVE  /\ Len(sz) \in Nat /\ \A t \in 1..Len(sz) : sz[t] \in Nat /\ sz[t] \in Sizes
           /\ \A n \in Sizes : /\ Append(sz, n) \in Seq(Sizes) /\ Len(Append(sz, n)) = Len(sz) + 1
                               /\ Append(sz, n)[Len(sz) + 1] = n
                               /\ \A t \in 1..Len(sz) : Append(sz, n)[t] = sz[t]
<1>1. Len(sz) \in Nat /\ \A t \in 1..Len(sz) : sz[t] \in Sizes
  BY Element
<1>2. \A t \in 1..Len(sz) : sz[t] \in Nat
  BY <1>1, Constants
<1> QED BY <1>1, <1>2

\* A message stays what it is when there is a transfer more.
LEMMA MessageGrows ==
    ASSUME NEW sz \in Seq(Sizes), NEW n \in Sizes, NEW m, IsMsg(m, sz)
    PROVE  IsMsg(m, Append(sz, n)) /\ m.of \in 1..Len(Append(sz, n))
<1>1. m.of \in 1..Len(Append(sz, n)) /\ Append(sz, n)[m.of] = sz[m.of]
  <2>1. m.of \in 1..Len(sz)
    BY DEF IsMsg
  <2> QED BY <2>1, SizeType
<1> QED BY <1>1 DEF IsMsg

LEMMA BufferGrows ==
    ASSUME NEW sz \in Seq(Sizes), NEW n \in Sizes, NEW b, Increasing(b, sz)
    PROVE  Increasing(b, Append(sz, n))
<1>1. SUFFICES ASSUME b.only PROVE Increasing(b, Append(sz, n))
  BY DEF Increasing
<1>2. b.opened \in 1..Len(Append(sz, n)) /\ Append(sz, n)[b.opened] = sz[b.opened]
  <2>1. b.opened \in 1..Len(sz)
    BY <1>1 DEF Increasing
  <2> QED BY <2>1, SizeType
<1> QED BY <1>1, <1>2 DEF Increasing

LEMMA FullMessage ==
    ASSUME NEW sz \in Seq(Sizes), NEW m, IsMsg(m, sz), Full(m)
    PROVE  /\ Num(m) \in 1..sz[m.of] /\ Num(m) \in Nat /\ m.data = <<<<m.of, Num(m)>>>>
           /\ m.of \in 1..Len(sz) /\ m.of \in Nat
<1>1. Num(m) \in 1..sz[m.of] /\ m.data = <<<<m.of, Num(m)>>>> /\ m.of \in 1..Len(sz)
  BY DEF IsMsg
<1>2. sz[m.of] \in Nat
  BY <1>1, SizeType
<1> QED BY <1>1, <1>2

\* The messages of the model.
LEMMA StartIs ==
    ASSUME size \in Seq(Sizes), NEW t \in 1..Len(size)
    PROVE  IsMsg(Start(t), size) /\ Start(t).mark = "start" /\ Start(t).of = t /\ ~Full(Start(t))
<1>1. size[t] \in Nat /\ t \in Nat
  BY SizeType
<1>2. Start(t) \in Messages
  BY <1>1 DEF Start, Messages, Pieces
<1> QED BY <1>1, <1>2 DEF Start, IsMsg, Full

LEMMA DataIs ==
    ASSUME size \in Seq(Sizes), NEW t \in 1..Len(size), NEW k \in Nat \ {0}
    PROVE  /\ IsMsg(Data(t, k), size) /\ Data(t, k).mark = "data" /\ Data(t, k).of = t
           /\ Full(Data(t, k)) <=> k <= size[t]
           /\ Full(Data(t, k)) => Num(Data(t, k)) = k
<1>1. size[t] \in Nat /\ t \in Nat
  BY SizeType
<1>2. CASE k <= size[t]
  <2>1. Data(t, k) = [mark |-> "data", of |-> t, size |-> 0, data |-> <<<<t, k>>>>]
    BY <1>2 DEF Data
  <2>2. <<<<t, k>>>> \in Pieces /\ <<<<t, k>>>> # <<>>
    BY <1>1 DEF Pieces
  <2>3. <<<<t, k>>>>[1][2] = k
    OBVIOUS
  <2>4. Data(t, k) \in Messages
    BY <2>1, <2>2, <1>1 DEF Messages
  <2>5. Full(Data(t, k)) /\ Num(Data(t, k)) = k
    BY <2>1, <2>2, <2>3 DEF Full, Num
  <2>6. k \in 1..size[t]
    BY <1>1, <1>2
  <2> QED BY <2>1, <2>4, <2>5, <2>6, <1>2 DEF IsMsg
<1>3. CASE ~(k <= size[t])
  <2>1. Data(t, k) = [mark |-> "data", of |-> t, size |-> 0, data |-> <<>>]
    BY <1>3 DEF Data
  <2>2. Data(t, k) \in Messages
    BY <2>1, <1>1 DEF Messages, Pieces
  <2> QED BY <2>1, <2>2, <1>3 DEF IsMsg, Full
<1> QED BY <1>2, <1>3

LEMMA EndIs ==
    ASSUME NEW sz \in Seq(Sizes), NEW t \in 1..Len(sz)
    PROVE  /\ IsMsg(End(t), sz) /\ End(t).mark = "end" /\ End(t).of = t /\ ~Full(End(t))
           /\ IsMsg(DragInfo(t), sz) /\ DragInfo(t).mark = "drag" /\ DragInfo(t).of = t
<1>1. t \in Nat
  BY SizeType
<1>2. End(t) \in Messages /\ DragInfo(t) \in Messages
  BY <1>1 DEF End, DragInfo, Messages, Pieces
<1> QED BY <1>2 DEF End, DragInfo, IsMsg, Full

LEMMA Squeeze ==
    ASSUME NEW L \in Nat, NEW i \in 1..L, NEW x \in 1..L, NEW y \in 1..L, i <= x,
           i < L => x + (L - i) <= y
    PROVE  x = i
  OBVIOUS

\* A sequence is a function on its indices.
LEMMA SeqIsFun ==
    ASSUME NEW S, NEW s \in Seq(S)
    PROVE  s = [i \in 1..Len(s) |-> s[i]]
  OBVIOUS

\* A buffer that one transfer has filled, with as many pieces as it has, has them all.
LEMMA WholeBuffer ==
    ASSUME size \in Seq(Sizes), NEW b \in Buffers, Increasing(b, size), b.only, Agrees(b)
    PROVE  b.opened \in 1..Len(size) /\ b.data = Whole(b.opened)
<1>1. b.opened \in 1..Len(size) /\ b.expected = size[b.opened] /\ b.data \in Seq(Nat \X Nat)
  BY DEF Increasing, Buffers, Pieces
<1>2. Len(b.data) = size[b.opened] /\ size[b.opened] \in Nat
  BY <1>1, SizeType DEF Agrees
<1>3. ASSUME NEW i \in 1..Len(b.data) PROVE b.data[i] = <<b.opened, i>>
  <2> DEFINE L == Len(b.data)
  <2>1. /\ b.data[i][2] \in 1..size[b.opened] /\ b.data[i] = <<b.opened, b.data[i][2]>> /\ i <= b.data[i][2]
        /\ L \in 1..L /\ b.data[L][2] \in 1..size[b.opened]
        /\ i < L => b.data[i][2] + (L - i) <= b.data[L][2]
    <3>1. L \in 1..L
      BY <1>2
    <3>2. b.data[L][2] \in 1..size[b.opened]
      BY <3>1 DEF Increasing
    <3>3. b.data[i][2] \in 1..size[b.opened] /\ b.data[i] = <<b.opened, b.data[i][2]>> /\ i <= b.data[i][2]
      BY <1>3 DEF Increasing
    <3>4. i < L => b.data[i][2] + (L - i) <= b.data[L][2]
      BY <1>3, <3>1 DEF Increasing
    <3> QED BY <3>1, <3>2, <3>3, <3>4
  <2>2. b.data[i][2] = i
    <3>1. L \in Nat /\ b.data[i][2] \in 1..L /\ b.data[L][2] \in 1..L
      BY <1>2, <2>1
    <3> QED BY <2>1, <3>1, Squeeze
  <2> QED BY <2>1, <2>2
<1>4. b.data = [i \in 1..Len(b.data) |-> b.data[i]]
  BY <1>1, SeqIsFun
<1> QED BY <1>1, <1>2, <1>3, <1>4 DEF Whole

\* What assemble() makes of a sound buffer.
LEMMA AssembleStart ==
    ASSUME NEW r, NEW m, m.mark = "start"
    PROVE  assemble(r, m) = [expected |-> m.size, data |-> <<>>, opened |-> m.of, only |-> TRUE, ended |-> FALSE]
  BY DEF assemble

LEMMA AssembleData ==
    ASSUME NEW r, NEW m, m.mark = "data"
    PROVE  assemble(r, m) = [buffer[r] EXCEPT !.data = @ \o m.data, !.ended = FALSE,
                                              !.only = @ /\ buffer[r].opened = m.of]
  BY DEF assemble

LEMMA AssembleEnd ==
    ASSUME NEW r, NEW m, m.mark = "end"
    PROVE  assemble(r, m) = [buffer[r] EXCEPT !.ended = Agrees(buffer[r]),
                                              !.only = @ /\ buffer[r].opened = m.of]
  BY DEF assemble

\* A piece more in a buffer.
LEMMA PieceMore ==
    ASSUME NEW d \in Pieces, NEW t \in Nat, NEW k \in Nat
    PROVE  /\ d \o <<<<t, k>>>> \in Pieces /\ Len(d \o <<<<t, k>>>>) = Len(d) + 1 /\ Len(d) \in Nat
           /\ (d \o <<<<t, k>>>>)[Len(d) + 1] = <<t, k>>
           /\ \A i \in 1..Len(d) : (d \o <<<<t, k>>>>)[i] = d[i] /\ d[i] \in Nat \X Nat
<1>1. <<<<t, k>>>> \in Seq(Nat \X Nat) /\ Len(<<<<t, k>>>>) = 1 /\ <<<<t, k>>>>[1] = <<t, k>>
  OBVIOUS
<1>2. d \in Seq(Nat \X Nat)
  BY DEF Pieces
<1> QED BY <1>1, <1>2 DEF Pieces

\* The parts of a buffer after a data chunk.
LEMMA DataBuffer ==
    ASSUME NEW r, NEW m, buffer[r] \in Buffers, m.mark = "data", m.data \in Pieces
    PROVE  LET b == assemble(r, m)
           IN  /\ b \in Buffers /\ b.expected = buffer[r].expected /\ b.opened = buffer[r].opened
               /\ b.only = (buffer[r].only /\ buffer[r].opened = m.of)
               /\ b.ended = FALSE /\ b.data = buffer[r].data \o m.data
<1> DEFINE q == buffer[r].data \o m.data
<1>1. q \in Pieces
  BY DEF Buffers, Pieces
<1> HIDE DEF q
<1>2. assemble(r, m) = [buffer[r] EXCEPT !.data = q, !.ended = FALSE, !.only = @ /\ buffer[r].opened = m.of]
  BY AssembleData DEF q
<1>3. (buffer[r].only /\ buffer[r].opened = m.of) \in BOOLEAN
  OBVIOUS
<1> QED BY <1>1, <1>2, <1>3 DEF Buffers, q

LEMMA EndBuffer ==
    ASSUME NEW r, NEW m, buffer[r] \in Buffers, m.mark = "end"
    PROVE  LET b == assemble(r, m)
           IN  /\ b \in Buffers /\ b.expected = buffer[r].expected /\ b.opened = buffer[r].opened
               /\ b.only = (buffer[r].only /\ buffer[r].opened = m.of)
               /\ b.ended = Agrees(buffer[r]) /\ b.data = buffer[r].data
<1> DEFINE e == Agrees(buffer[r])
           o == buffer[r].only /\ buffer[r].opened = m.of
<1>1. e \in BOOLEAN /\ o \in BOOLEAN
  BY DEF Agrees
<1>2. assemble(r, m) = [buffer[r] EXCEPT !.ended = e, !.only = o]
  BY AssembleEnd DEF Buffers
<1> HIDE DEF e, o
<1>3. LET b == assemble(r, m)
      IN  /\ b \in Buffers /\ b.expected = buffer[r].expected /\ b.opened = buffer[r].opened
          /\ b.only = o /\ b.ended = e /\ b.data = buffer[r].data
  BY <1>1, <1>2 DEF Buffers
<1> QED BY <1>3 DEF e, o

\* A piece with a number above those in the buffer.
LEMMA IncreasingMore ==
    ASSUME NEW sz \in Seq(Sizes), NEW a \in Buffers, NEW b \in Buffers, Increasing(a, sz), a.only,
           NEW k \in 1..sz[a.opened], \A i \in 1..Len(a.data) : a.data[i][2] < k,
           b.opened = a.opened, b.expected = a.expected, b.data = a.data \o <<<<a.opened, k>>>>
    PROVE  Increasing(b, sz)
<1> DEFINE L == Len(a.data)
           t == a.opened
<1>0. t \in 1..Len(sz) /\ t \in Nat /\ sz[t] \in Nat /\ k \in Nat /\ a.data \in Pieces
  <2>1. t \in 1..Len(sz)
    BY DEF Increasing
  <2>2. sz[t] \in Nat
    BY <2>1, SizeType
  <2> QED BY <2>1, <2>2 DEF Buffers
<1>1. /\ Len(b.data) = L + 1 /\ L \in Nat /\ b.data[L + 1] = <<t, k>>
      /\ \A i \in 1..L : b.data[i] = a.data[i]
  BY <1>0, PieceMore
<1>2. \A i \in 1..L : a.data[i][2] \in 1..sz[t] /\ a.data[i] = <<t, a.data[i][2]>> /\ i <= a.data[i][2]
  BY DEF Increasing
<1>3. \A i, j \in 1..L : i < j => a.data[i][2] + (j - i) <= a.data[j][2]
  BY DEF Increasing
<1>4. b.data[L + 1][2] = k
  BY <1>1
<1>5. L + 1 <= k
  <2>1. CASE L = 0
    BY <2>1
  <2>2. CASE L # 0
    <3>1. L \in 1..L
      BY <1>1, <2>2
    <3>2. L <= a.data[L][2] /\ a.data[L][2] < k /\ a.data[L][2] \in Int
      BY <3>1, <1>2
    <3> QED BY <3>2, <1>0, <1>1
  <2> QED BY <2>1, <2>2
<1>6. ASSUME NEW i \in 1..Len(b.data)
      PROVE  b.data[i][2] \in 1..sz[t] /\ b.data[i] = <<t, b.data[i][2]>> /\ i <= b.data[i][2]
  <2>1. CASE i = L + 1
    BY <2>1, <1>1, <1>4, <1>5
  <2>2. CASE i # L + 1
    <3>1. i \in 1..L
      BY <2>2, <1>1
    <3> QED BY <3>1, <1>1, <1>2
  <2> QED BY <2>1, <2>2
<1>7. ASSUME NEW i \in 1..Len(b.data), NEW j \in 1..Len(b.data), i < j
      PROVE  b.data[i][2] + (j - i) <= b.data[j][2]
  <2>0. i \in 1..L /\ b.data[i] = a.data[i] /\ a.data[i][2] \in Int
    <3>1. i \in 1..L
      BY <1>1, <1>7
    <3> QED BY <3>1, <1>1, <1>2
  <2>1. CASE j = L + 1
    <3>1. L \in 1..L
      BY <2>0
    <3>2. a.data[L][2] < k /\ a.data[L][2] \in Int
      BY <3>1, <1>2
    <3>3. a.data[i][2] + (L - i) <= a.data[L][2]
      <4>1. CASE i = L
        BY <4>1, <2>0
      <4>2. CASE i # L
        <5>1. i < L
          BY <4>2, <2>0
        <5> QED BY <5>1, <3>1, <2>0, <1>3
      <4> QED BY <4>1, <4>2
    <3>4. ASSUME NEW x \in Int, NEW y \in Int, x + (L - i) <= y, y < k PROVE x + (L + 1 - i) <= k
      BY <3>4, <1>1, <2>0, <1>0
    <3>5. a.data[i][2] + (L + 1 - i) <= k
      BY <3>2, <3>3, <3>4, <2>0
    <3> QED BY <3>5, <2>0, <2>1, <1>4
  <2>2. CASE j # L + 1
    <3>1. j \in 1..L
      BY <2>2, <1>1
    <3> QED BY <3>1, <2>0, <1>1, <1>3, <1>7
  <2> QED BY <2>1, <2>2
<1>8. b.expected = sz[t]
  BY DEF Increasing
<1> QED BY <1>0, <1>6, <1>7, <1>8 DEF Increasing

\* assemble() keeps a buffer sound, if m should not have come earlier.
LEMMA AssembleKeeps ==
    ASSUME size \in Seq(Sizes), NEW r, NEW m, IsMsg(m, size), m.mark # "drag",
           buffer[r] \in Buffers, Increasing(buffer[r], size), buffer[r].opened \in 0..Len(size),
           Behind(buffer[r], m)
    PROVE  LET b == assemble(r, m)
           IN  /\ b \in Buffers /\ Increasing(b, size) /\ b.opened \in 0..Len(size)
               /\ b.ended => Agrees(b)
               /\ \A n : IsMsg(n, size) /\ Less(m, n) /\ Behind(buffer[r], n) => Behind(b, n)
               /\ FileBuffer(buffer[r]) /\ Posted(m, thread[m.of]) => FileBuffer(b)
<1> DEFINE a == buffer[r]
           b == assemble(r, m)
<1>0. /\ m \in Messages /\ m.of \in 1..Len(size) /\ m.data \in Pieces /\ m.size \in Nat /\ m.of \in Nat
      /\ Len(size) \in Nat /\ a.data \in Pieces /\ Len(a.data) \in Nat /\ m.of # 0
  BY SizeType DEF IsMsg, Messages, Buffers, Pieces
<1>m. m.mark = "start" \/ m.mark = "data" \/ m.mark = "end"
  BY <1>0 DEF Messages
<1>1. CASE m.mark = "start"
  <2>1. b = [expected |-> m.size, data |-> <<>>, opened |-> m.of, only |-> TRUE, ended |-> FALSE]
    BY <1>1, AssembleStart
  <2>2. b \in Buffers
    BY <2>1, <1>0 DEF Buffers, Pieces
  <2>3. Len(b.data) = 0 /\ b.opened = m.of /\ b.expected = m.size /\ b.ended = FALSE
    BY <2>1
  <2>4. Increasing(b, size)
    <3>1. b.expected = size[b.opened]
      BY <2>3, <1>1 DEF IsMsg
    <3> QED BY <3>1, <2>3, <1>0 DEF Increasing
  <2>5. ASSUME NEW n, IsMsg(n, size), Less(m, n) PROVE Behind(b, n)
    BY <2>5, <2>3, <1>1 DEF Behind, Less, Full
  <2>6. ASSUME Posted(m, thread[m.of]) PROVE FileBuffer(b)
    BY <2>6, <2>3, <1>0, <1>1 DEF FileBuffer, Posted
  <2> HIDE DEF b
  <2> QED BY <2>2, <2>3, <2>4, <2>5, <2>6, <1>0 DEF b
<1>2. CASE m.mark = "data"
  <2>1. /\ b \in Buffers /\ b.expected = a.expected /\ b.opened = a.opened
        /\ b.only = (a.only /\ a.opened = m.of) /\ b.ended = FALSE /\ b.data = a.data \o m.data
    BY <1>0, <1>2, DataBuffer
  <2> HIDE DEF b
  <2>2. ASSUME b.only PROVE a.only /\ a.opened = m.of
    BY <2>1, <2>2
  <2>3. CASE ~Full(m)
    <3>1. b.data = a.data
      <4>1. m.data = <<>> /\ a.data \in Seq(Nat \X Nat)
        BY <2>3, <1>0, <1>2 DEF Full, Pieces
      <4>2. a.data \o <<>> = a.data
        BY <4>1
      <4> QED BY <4>1, <4>2, <2>1
    <3>2. Increasing(b, size)
      BY <3>1, <2>1, <2>2 DEF Increasing
    <3>3. ASSUME NEW n, Behind(a, n) PROVE Behind(b, n)
      BY <3>1, <3>3, <2>1, <2>2 DEF Behind
    <3>4. ASSUME FileBuffer(a) PROVE FileBuffer(b)
      BY <3>1, <3>4, <2>1, <2>2 DEF FileBuffer
    <3> QED BY <3>2, <3>3, <3>4, <2>1 DEF b
  <2>4. CASE Full(m)
    <3>1. Num(m) \in 1..size[m.of] /\ Num(m) \in Nat /\ m.data = <<<<m.of, Num(m)>>>>
      BY <2>4, FullMessage
    <3>2. /\ Len(b.data) = Len(a.data) + 1 /\ b.data[Len(a.data) + 1] = <<m.of, Num(m)>>
          /\ \A i \in 1..Len(a.data) : b.data[i] = a.data[i]
      BY <3>1, <2>1, <1>0, PieceMore
    <3>3. b.data[Len(a.data) + 1][2] = Num(m)
      BY <3>2
    <3>4. Increasing(b, size)
      <4>1. SUFFICES ASSUME b.only PROVE Increasing(b, size)
        BY DEF Increasing
      <4>2. a.only /\ a.opened = m.of
        BY <4>1, <2>2
      <4>3. \A i \in 1..Len(a.data) : a.data[i][2] < Num(m)
        BY <4>2, <2>4 DEF Behind
      <4> QED BY <4>2, <4>3, <3>1, <2>1, IncreasingMore
    <3>5. ASSUME NEW n, IsMsg(n, size), Less(m, n), Behind(a, n) PROVE Behind(b, n)
      <4>1. SUFFICES ASSUME n.of = b.opened PROVE Behind(b, n)
        BY DEF Behind
      <4>2. n.mark # "start"
        BY <4>1, <3>5, <2>1 DEF Behind
      <4>3. ASSUME b.only, Full(n), NEW i \in 1..Len(b.data) PROVE b.data[i][2] < Num(n)
        <5>1. a.only /\ a.opened = m.of /\ n.of = m.of
          BY <4>1, <4>3, <2>1, <2>2
        <5>2. CASE i = Len(a.data) + 1
          <6>1. Num(m) < Num(n)
            BY <5>1, <3>5, <2>4, <4>3, <1>2 DEF Less, Full
          <6> QED BY <6>1, <5>2, <3>3
        <5>3. CASE i # Len(a.data) + 1
          <6>1. i \in 1..Len(a.data)
            BY <5>3, <3>2, <1>0
          <6>2. a.data[i][2] < Num(n)
            BY <6>1, <5>1, <3>5, <4>1, <4>3, <2>1 DEF Behind
          <6> QED BY <6>1, <6>2, <3>2
        <5> QED BY <5>2, <5>3
      <4> QED BY <4>2, <4>3 DEF Behind
    <3>6. ASSUME FileBuffer(a), Posted(m, thread[m.of]) PROVE FileBuffer(b)
      <4>1. SUFFICES ASSUME b.opened # 0 PROVE FileBuffer(b)
        BY DEF FileBuffer
      <4>2. b.opened \in 1..Len(size) /\ thread[b.opened].pc \in Started
        BY <4>1, <3>6, <2>1 DEF FileBuffer
      <4>3. ASSUME b.only, NEW i \in 1..Len(b.data) PROVE b.data[i][2] <= thread[b.opened].sent
        <5>1. a.only /\ a.opened = m.of
          BY <4>3, <2>2
        <5>2. CASE i = Len(a.data) + 1
          <6>1. Num(m) <= thread[m.of].sent
            BY <3>6, <2>4, <1>2 DEF Posted
          <6> QED BY <6>1, <5>1, <5>2, <3>3, <2>1
        <5>3. CASE i # Len(a.data) + 1
          <6>1. i \in 1..Len(a.data)
            BY <5>3, <3>2, <1>0
          <6>2. a.data[i][2] <= thread[a.opened].sent
            BY <6>1, <5>1, <3>6, <4>1, <2>1 DEF FileBuffer
          <6> QED BY <6>1, <6>2, <3>2, <2>1
        <5> QED BY <5>2, <5>3
      <4> QED BY <4>2, <4>3 DEF FileBuffer
    <3> QED BY <3>4, <3>5, <3>6, <2>1 DEF b
  <2> QED BY <2>3, <2>4
<1>3. CASE m.mark = "end"
  <2>1. /\ b \in Buffers /\ b.expected = a.expected /\ b.opened = a.opened
        /\ b.only = (a.only /\ a.opened = m.of) /\ b.ended = Agrees(a) /\ b.data = a.data
    BY <1>3, EndBuffer
  <2> HIDE DEF b
  <2>2. b.only => a.only
    BY <2>1
  <2>3. Increasing(b, size)
    BY <2>1, <2>2 DEF Increasing
  <2>4. b.ended => Agrees(b)
    BY <2>1 DEF Agrees
  <2>5. ASSUME NEW n, Behind(a, n) PROVE Behind(b, n)
    BY <2>5, <2>1, <2>2 DEF Behind
  <2>6. ASSUME FileBuffer(a) PROVE FileBuffer(b)
    BY <2>6, <2>1, <2>2 DEF FileBuffer
  <2> QED BY <2>1, <2>3, <2>4, <2>5, <2>6 DEF b
<1> QED BY <1>m, <1>1, <1>2, <1>3

----------------------------------------------------------------------------
(* The invariant is inductive.                                              *)

LEMMA ThreadType ==
    ASSUME NEW th \in Seq(Threads), NEW t \in 1..Len(th)
    PROVE  /\ th[t] \in Threads /\ th[t].pc \in Pcs /\ th[t].sent \in Nat
           /\ th[t].to \in Screens \cup {"server"}
<1>1. th[t] \in Threads
  BY Element
<1> QED BY <1>1 DEF Threads

\* A change of one thread.
LEMMA ThreadChange ==
    ASSUME NEW th \in Seq(Threads), NEW t \in 1..Len(th), NEW x \in Threads
    PROVE  LET q == [th EXCEPT ![t] = x]
           IN  /\ q \in Seq(Threads) /\ Len(q) = Len(th) /\ q[t] = x
               /\ \A u \in 1..Len(th) : u # t => q[u] = th[u]
  OBVIOUS

\* Threads only go forward.
Grows ==
    /\ size' = size
    /\ \A u \in 1..Len(size) :
          /\ thread[u].pc \in Started => thread'[u].pc \in Started
          /\ thread[u].pc \in {"exit", "done"} => thread'[u].pc \in {"exit", "done"}
          /\ thread'[u].sent \in Nat /\ thread[u].sent \in Nat /\ thread[u].sent <= thread'[u].sent

\* What each of its steps does to a thread t.
LEMMA SendFileStep ==
    ASSUME Types, NEW t \in 1..Len(thread), sendFile(t)
    PROVE  /\ Types' /\ Grows /\ thread'[t].sent = thread[t].sent /\ thread'[t].to = thread[t].to
           /\ t \in 1..Len(size) /\ thread[t].pc = "new"
           /\ \A u \in 1..Len(size) : u # t => thread'[u] = thread[u]
           /\ \/ events' = Append(events, Start(t)) /\ thread'[t].pc = "loop"
              \/ events' = events /\ thread'[t].pc = "done"
<1>0. /\ t \in 1..Len(size) /\ Len(thread) = Len(size) /\ thread \in Seq(Threads) /\ size \in Seq(Sizes)
      /\ events \in Seq(Messages) /\ Len(size) \in Nat
  BY SizeType DEF Types
<1>t. thread[t] \in Threads /\ thread[t].sent \in Nat /\ thread[t].to \in Screens \cup {"server"}
  BY <1>0, ThreadType
<1>1. PICK p \in {"loop", "done"} :
        /\ thread' = [thread EXCEPT ![t].pc = p]
        /\ p = "loop" => events' = Append(events, Start(t)) /\ m_sendFileThread' = m_sendFileThread
        /\ p = "done" => events' = events /\ m_sendFileThread' = None
  BY DEF sendFile
<1> DEFINE x == [thread[t] EXCEPT !.pc = p]
<1>2. x \in Threads /\ x.pc = p /\ x.sent = thread[t].sent /\ x.to = thread[t].to
  BY <1>t DEF Threads, Pcs
<1>3. thread' = [thread EXCEPT ![t] = x]
  BY <1>1
<1> HIDE DEF x
<1>4. /\ thread' \in Seq(Threads) /\ Len(thread') = Len(thread) /\ thread'[t] = x
      /\ \A u \in 1..Len(thread) : u # t => thread'[u] = thread[u]
  BY <1>0, <1>2, <1>3, ThreadChange
<1>5. events' \in Seq(Messages)
  <2>1. Start(t) \in Messages
    BY <1>0, StartIs DEF IsMsg
  <2>2. Append(events, Start(t)) \in Seq(Messages)
    BY <2>1, <1>0
  <2> QED BY <2>2, <1>0, <1>1
<1>6. m_sendFileThread' \in 0..Len(size)
  BY <1>0, <1>1 DEF Types, None
<1>7. m_dragging # 0 => thread'[m_dragging].pc = "idle"
  <2>1. SUFFICES ASSUME m_dragging # 0 PROVE thread'[m_dragging].pc = "idle"
    OBVIOUS
  <2>2. thread[m_dragging].pc = "idle" /\ m_dragging \in 1..Len(thread)
    BY <2>1, <1>0 DEF Types
  <2>3. m_dragging # t
    BY <2>2 DEF sendFile
  <2> QED BY <2>2, <2>3, <1>4
<1>8. Types'
  BY <1>0, <1>4, <1>5, <1>6, <1>7 DEF Types, sendFile, receiver, history
<1>9. Grows
  <2>1. \A u \in 1..Len(size) : thread[u].sent \in Nat
    BY <1>0, ThreadType
  <2>2. thread[t].pc = "new" /\ size' = size
    BY DEF sendFile
  <2> QED BY <2>1, <2>2, <1>0, <1>1, <1>2, <1>4 DEF Grows, Started
<1> QED BY <1>0, <1>1, <1>2, <1>4, <1>8, <1>9 DEF sendFile

LEMMA SendFileLoopStep ==
    ASSUME Types, NEW t \in 1..Len(thread), sendFileLoop(t)
    PROVE  /\ Types' /\ Grows /\ thread'[t].pc \in {"loop", "end"} /\ thread'[t].to = thread[t].to
           /\ t \in 1..Len(size) /\ thread[t].pc = "loop"
           /\ \A u \in 1..Len(size) : u # t => thread'[u] = thread[u]
           /\ \/ /\ events' = events /\ thread'[t].sent = thread[t].sent /\ thread'[t].pc = "end"
                 /\ interrupted' = interrupted \cup {t}
              \/ /\ events' = Append(events, Data(t, thread[t].sent + 1)) /\ interrupted' = interrupted
                 /\ thread'[t].sent = thread[t].sent + 1
                 /\ thread'[t].pc = "end" => thread'[t].sent >= size[t]
<1>0. /\ t \in 1..Len(size) /\ Len(thread) = Len(size) /\ thread \in Seq(Threads) /\ size \in Seq(Sizes)
      /\ events \in Seq(Messages) /\ Len(size) \in Nat /\ interrupted \subseteq 1..Len(size)
  BY SizeType DEF Types
<1>t. thread[t] \in Threads /\ thread[t].sent \in Nat /\ thread[t].to \in Screens \cup {"server"} /\ size[t] \in Nat
  BY <1>0, ThreadType, SizeType
<1>1. PICK p \in {"loop", "end"}, k \in Nat :
        /\ thread' = [thread EXCEPT ![t] = [@ EXCEPT !.pc = p, !.sent = k]]
        /\ \/ /\ events' = events /\ k = thread[t].sent /\ p = "end" /\ interrupted' = interrupted \cup {t}
              /\ s_interruptFile' = FALSE
           \/ /\ events' = Append(events, Data(t, k)) /\ k = thread[t].sent + 1 /\ interrupted' = interrupted
              /\ s_interruptFile' = s_interruptFile
              /\ p = "end" => k >= size[t]
  <2>1. CASE s_interruptFile
    <3>1. thread' = [thread EXCEPT ![t].pc = "end"]
      BY <2>1 DEF sendFileLoop
    <3>2. thread' = [thread EXCEPT ![t] = [@ EXCEPT !.pc = "end", !.sent = thread[t].sent]]
      <4>1. [thread[t] EXCEPT !.pc = "end"] = [thread[t] EXCEPT !.pc = "end", !.sent = thread[t].sent]
        BY <1>t DEF Threads
      <4> QED BY <3>1, <4>1, <1>0
    <3> QED BY <2>1, <3>2, <1>t DEF sendFileLoop
  <2>2. CASE ~s_interruptFile
    <3> DEFINE k == thread[t].sent + 1
               p == IF k >= size[t] THEN "end" ELSE "loop"
    <3>1. thread' = [thread EXCEPT ![t].sent = k, ![t].pc = p]
      BY <2>2 DEF sendFileLoop
    <3>2. thread' = [thread EXCEPT ![t] = [@ EXCEPT !.pc = p, !.sent = k]]
      <4>1. [[thread[t] EXCEPT !.sent = k] EXCEPT !.pc = p] = [thread[t] EXCEPT !.pc = p, !.sent = k]
        BY <1>t DEF Threads
      <4> QED BY <3>1, <4>1, <1>0
    <3>3. k \in Nat /\ p \in {"loop", "end"} /\ (p = "end" => k >= size[t])
      BY <1>t
    <3>4. /\ events' = Append(events, Data(t, k)) /\ interrupted' = interrupted
          /\ s_interruptFile' = s_interruptFile
      BY <2>2 DEF sendFileLoop
    <3> HIDE DEF p
    <3> QED BY <3>2, <3>3, <3>4
  <2> QED BY <2>1, <2>2
<1> DEFINE x == [thread[t] EXCEPT !.pc = p, !.sent = k]
<1>2. x \in Threads /\ x.pc = p /\ x.sent = k /\ x.to = thread[t].to
  BY <1>t DEF Threads, Pcs
<1>3. thread' = [thread EXCEPT ![t] = x]
  BY <1>1
<1> HIDE DEF x
<1>4. /\ thread' \in Seq(Threads) /\ Len(thread') = Len(thread) /\ thread'[t] = x
      /\ \A u \in 1..Len(thread) : u # t => thread'[u] = thread[u]
  BY <1>0, <1>2, <1>3, ThreadChange
<1>5. events' \in Seq(Messages)
  <2>1. CASE events' = events
    BY <2>1, <1>0
  <2>2. CASE events' = Append(events, Data(t, k)) /\ k = thread[t].sent + 1
    <3>1. Data(t, k) \in Messages
      BY <2>2, <1>0, <1>t, DataIs DEF IsMsg
    <3> QED BY <3>1, <2>2, <1>0
  <2> QED BY <2>1, <2>2, <1>1
<1>6. s_interruptFile' \in BOOLEAN /\ interrupted' \subseteq 1..Len(size)
  BY <1>0, <1>1 DEF Types
<1>7. m_dragging # 0 => thread'[m_dragging].pc = "idle"
  <2>1. SUFFICES ASSUME m_dragging # 0 PROVE thread'[m_dragging].pc = "idle"
    OBVIOUS
  <2>2. thread[m_dragging].pc = "idle" /\ m_dragging \in 1..Len(thread)
    BY <2>1, <1>0 DEF Types
  <2>3. m_dragging # t
    BY <2>2 DEF sendFileLoop
  <2> QED BY <2>2, <2>3, <1>4
<1>8. Types'
  BY <1>0, <1>4, <1>5, <1>6, <1>7 DEF Types, sendFileLoop, server, receiver
<1>9. Grows
  <2>1. \A u \in 1..Len(size) : thread[u].sent \in Nat
    BY <1>0, ThreadType
  <2>2. thread[t].pc = "loop" /\ size' = size
    BY DEF sendFileLoop
  <2>3. k \in Nat /\ thread[t].sent <= k
    BY <1>1, <1>t
  <2> QED BY <2>1, <2>2, <2>3, <1>0, <1>1, <1>2, <1>4 DEF Grows, Started
<1> QED BY <1>0, <1>1, <1>2, <1>4, <1>8, <1>9 DEF sendFileLoop

LEMMA SendFileEndStep ==
    ASSUME Types, NEW t \in 1..Len(thread), sendFileEnd(t)
    PROVE  /\ Types' /\ Grows /\ thread'[t].pc = "exit" /\ thread'[t].to = thread[t].to
           /\ thread'[t].sent = thread[t].sent /\ t \in 1..Len(size) /\ thread[t].pc = "end"
           /\ \A u \in 1..Len(size) : u # t => thread'[u] = thread[u]
           /\ events' = Append(events, End(t))
<1>0. /\ t \in 1..Len(size) /\ Len(thread) = Len(size) /\ thread \in Seq(Threads) /\ size \in Seq(Sizes)
      /\ events \in Seq(Messages) /\ Len(size) \in Nat
  BY SizeType DEF Types
<1>t. thread[t] \in Threads /\ thread[t].sent \in Nat /\ thread[t].to \in Screens \cup {"server"}
  BY <1>0, ThreadType
<1> DEFINE x == [thread[t] EXCEPT !.pc = "exit"]
<1>2. x \in Threads /\ x.pc = "exit" /\ x.sent = thread[t].sent /\ x.to = thread[t].to
  BY <1>t DEF Threads, Pcs
<1>3. thread' = [thread EXCEPT ![t] = x]
  BY DEF sendFileEnd
<1> HIDE DEF x
<1>4. /\ thread' \in Seq(Threads) /\ Len(thread') = Len(thread) /\ thread'[t] = x
      /\ \A u \in 1..Len(thread) : u # t => thread'[u] = thread[u]
  BY <1>0, <1>2, <1>3, ThreadChange
<1>5. events' \in Seq(Messages)
  <2>1. End(t) \in Messages
    BY <1>0, EndIs DEF IsMsg
  <2>2. Append(events, End(t)) \in Seq(Messages)
    BY <2>1, <1>0
  <2> QED BY <2>2 DEF sendFileEnd
<1>7. m_dragging # 0 => thread'[m_dragging].pc = "idle"
  <2>1. SUFFICES ASSUME m_dragging # 0 PROVE thread'[m_dragging].pc = "idle"
    OBVIOUS
  <2>2. thread[m_dragging].pc = "idle" /\ m_dragging \in 1..Len(thread)
    BY <2>1, <1>0 DEF Types
  <2>3. m_dragging # t
    BY <2>2 DEF sendFileEnd
  <2> QED BY <2>2, <2>3, <1>4
<1>8. Types'
  BY <1>0, <1>4, <1>5, <1>7 DEF Types, sendFileEnd, server, receiver, history
<1>9. Grows
  <2>1. \A u \in 1..Len(size) : thread[u].sent \in Nat
    BY <1>0, ThreadType
  <2>2. thread[t].pc = "end" /\ size' = size
    BY DEF sendFileEnd
  <2> QED BY <2>1, <2>2, <1>0, <1>2, <1>4 DEF Grows, Started
<1> QED BY <1>0, <1>2, <1>4, <1>8, <1>9 DEF sendFileEnd

LEMMA ThreadExitStep ==
    ASSUME Types, NEW t \in 1..Len(thread), threadExit(t)
    PROVE  /\ Types' /\ Grows /\ thread'[t].pc = "done" /\ thread'[t].to = thread[t].to
           /\ thread'[t].sent = thread[t].sent /\ t \in 1..Len(size) /\ thread[t].pc = "exit"
           /\ \A u \in 1..Len(size) : u # t => thread'[u] = thread[u]
<1>0. /\ t \in 1..Len(size) /\ Len(thread) = Len(size) /\ thread \in Seq(Threads) /\ Len(size) \in Nat
  BY SizeType DEF Types
<1>t. thread[t] \in Threads /\ thread[t].sent \in Nat /\ thread[t].to \in Screens \cup {"server"}
  BY <1>0, ThreadType
<1> DEFINE x == [thread[t] EXCEPT !.pc = "done"]
<1>2. x \in Threads /\ x.pc = "done" /\ x.sent = thread[t].sent /\ x.to = thread[t].to
  BY <1>t DEF Threads, Pcs
<1>3. thread' = [thread EXCEPT ![t] = x]
  BY DEF threadExit
<1> HIDE DEF x
<1>4. /\ thread' \in Seq(Threads) /\ Len(thread') = Len(thread) /\ thread'[t] = x
      /\ \A u \in 1..Len(thread) : u # t => thread'[u] = thread[u]
  BY <1>0, <1>2, <1>3, ThreadChange
<1>5. m_sendFileThread' \in 0..Len(size)
  BY <1>0 DEF threadExit, None
<1>7. m_dragging # 0 => thread'[m_dragging].pc = "idle"
  <2>1. SUFFICES ASSUME m_dragging # 0 PROVE thread'[m_dragging].pc = "idle"
    OBVIOUS
  <2>2. thread[m_dragging].pc = "idle" /\ m_dragging \in 1..Len(thread)
    BY <2>1, <1>0 DEF Types
  <2>3. m_dragging # t
    BY <2>2 DEF threadExit
  <2> QED BY <2>2, <2>3, <1>4
<1>8. Types'
  BY <1>0, <1>4, <1>5, <1>7 DEF Types, threadExit, receiver, history
<1>9. Grows
  <2>1. \A u \in 1..Len(size) : thread[u].sent \in Nat
    BY <1>0, ThreadType
  <2>2. thread[t].pc = "exit" /\ size' = size
    BY DEF threadExit
  <2> QED BY <2>1, <2>2, <1>0, <1>2, <1>4 DEF Grows, Started
<1> QED BY <1>0, <1>2, <1>4, <1>8, <1>9 DEF threadExit

LEMMA Still ==
    ASSUME Types, UNCHANGED <<size, thread>>
    PROVE  Grows
<1>1. thread \in Seq(Threads) /\ Len(thread) = Len(size)
  BY DEF Types
<1>2. \A u \in 1..Len(size) : thread[u].sent \in Nat
  BY <1>1, ThreadType
<1> QED BY <1>2 DEF Grows

LEMMA MouseUpStep ==
    ASSUME Types, onMouseUp
    PROVE  /\ Types' /\ Grows
           /\ \A u \in 1..Len(size) : \/ thread'[u] = thread[u]
                                      \/ /\ thread[u].pc = "idle" /\ thread'[u].pc = "new"
                                         /\ thread'[u].sent = thread[u].sent /\ thread'[u].to = thread[u].to
<1>0. /\ Len(thread) = Len(size) /\ thread \in Seq(Threads) /\ Len(size) \in Nat
  BY SizeType DEF Types
<1>i. s_interruptFile' \in BOOLEAN
  <2>1. CASE s_interruptFile' = s_interruptFile
    BY <2>1 DEF Types
  <2>2. CASE interruptFile
    BY <2>2 DEF interruptFile
  <2> QED BY <2>1, <2>2 DEF onMouseUp
<1> DEFINE t == m_dragging
<1>1. m_dragging # 0 /\ t \in 1..Len(size) /\ thread[t].pc = "idle" /\ m_dragging' = 0
  BY <1>0 DEF Types, onMouseUp, None
<1>2. CASE m_active = "primary"
  <2>1. thread' = thread /\ m_sendFileThread' = m_sendFileThread
    BY <1>2 DEF onMouseUp
  <2>2. Types'
    BY <2>1, <1>0, <1>1, <1>i DEF Types, onMouseUp, receiver, history
  <2>3. Grows
    BY <2>1, Still DEF onMouseUp
  <2> QED BY <2>1, <2>2, <2>3
<1>3. CASE m_active # "primary"
  <2>t. thread[t] \in Threads /\ thread[t].sent \in Nat /\ thread[t].to \in Screens \cup {"server"}
    BY <1>0, <1>1, ThreadType
  <2> DEFINE x == [thread[t] EXCEPT !.pc = "new"]
  <2>2. x \in Threads /\ x.pc = "new" /\ x.sent = thread[t].sent /\ x.to = thread[t].to
    BY <2>t DEF Threads, Pcs
  <2>3. thread' = [thread EXCEPT ![t] = x] /\ m_sendFileThread' = t
    BY <1>3 DEF onMouseUp
  <2> HIDE DEF x
  <2>4. /\ thread' \in Seq(Threads) /\ Len(thread') = Len(thread) /\ thread'[t] = x
        /\ \A u \in 1..Len(thread) : u # t => thread'[u] = thread[u]
    BY <1>0, <1>1, <2>2, <2>3, ThreadChange
  <2>5. Types'
    BY <2>3, <2>4, <1>0, <1>1, <1>i DEF Types, onMouseUp, receiver, history
  <2>6. Grows
    <3>1. \A u \in 1..Len(size) : thread[u].sent \in Nat
      BY <1>0, ThreadType
    <3>2. size' = size
      BY DEF onMouseUp
    <3> QED BY <3>1, <3>2, <2>2, <2>4, <1>0, <1>1 DEF Grows, Started
  <2> QED BY <2>2, <2>4, <2>5, <2>6, <1>0, <1>1
<1> QED BY <1>2, <1>3

LEMMA OtherStep ==
    ASSUME Types,
           \/ \E s \in Screens : switchScreen(s)
           \/ \E c \in Clients : reconnect(c) \/ onFileReceiveCompleted(c) \/ write_to_drop_dir_thread(c)
    PROVE  Types' /\ UNCHANGED <<size, thread, events, toClient, toServer, buffer>>
<1>0. Len(size) \in Nat
  BY SizeType DEF Types
<1>1. ASSUME NEW s \in Screens, switchScreen(s) PROVE Types'
  <2>i. s_interruptFile' \in BOOLEAN
    <3>1. CASE s_interruptFile' = s_interruptFile
      BY <3>1 DEF Types
    <3>2. CASE interruptFile
      BY <3>2 DEF interruptFile
    <3> QED BY <3>1, <3>2, <1>1 DEF switchScreen
  <2>1. m_sendFileThread' \in 0..Len(size)
    BY <1>0, <1>1 DEF Types, switchScreen, None
  <2> QED BY <1>1, <2>i, <2>1 DEF Types, switchScreen, receiver
<1>2. ASSUME NEW c \in Clients, reconnect(c) PROVE Types'
  BY <1>2 DEF Types, reconnect, sender, receiver, history
<1>3. ASSUME NEW c \in Clients, onFileReceiveCompleted(c) PROVE Types'
  BY <1>3 DEF Types, onFileReceiveCompleted, server, sender, history
<1>4. ASSUME NEW c \in Clients, write_to_drop_dir_thread(c) PROVE Types'
  <2>1. m_dragFileList' \in [Clients -> 0..Len(size)]
    BY <1>0, <1>4 DEF Types, write_to_drop_dir_thread, None
  <2> QED BY <1>4, <2>1 DEF Types, write_to_drop_dir_thread, server, sender
<1> QED BY <1>1, <1>2, <1>3, <1>4
      DEF switchScreen, reconnect, onFileReceiveCompleted, write_to_drop_dir_thread, sender, receiver

LEMMA PostedGrows ==
    ASSUME Grows, size \in Seq(Sizes), NEW m, IsMsg(m, size), Posted(m, thread[m.of])
    PROVE  Posted(m, thread'[m.of])
<1> DEFINE t == m.of
<1>0. t \in 1..Len(size)
  BY DEF IsMsg
<1>1. /\ thread[t].pc \in Started => thread'[t].pc \in Started
      /\ thread[t].pc \in {"exit", "done"} => thread'[t].pc \in {"exit", "done"}
      /\ thread'[t].sent \in Nat /\ thread[t].sent \in Nat /\ thread[t].sent <= thread'[t].sent
  BY <1>0 DEF Grows
<1>2. ASSUME Full(m), Num(m) <= thread[t].sent PROVE Num(m) <= thread'[t].sent
  <2>1. Num(m) \in Nat
    BY <1>2, FullMessage
  <2> QED BY <1>1, <1>2, <2>1
<1> QED BY <1>1, <1>2 DEF Posted

LEMMA FileBufferGrows ==
    ASSUME Grows, size \in Seq(Sizes), NEW b, b \in Buffers, Increasing(b, size), FileBuffer(b)
    PROVE  /\ b.opened # 0 => b.opened \in 1..Len(size) /\ thread'[b.opened].pc \in Started
           /\ b.opened # 0 /\ b.only => \A i \in 1..Len(b.data) : b.data[i][2] <= thread'[b.opened].sent
<1> DEFINE t == b.opened
<1>0. SUFFICES ASSUME t # 0
               PROVE  /\ t \in 1..Len(size) /\ thread'[t].pc \in Started
                      /\ b.only => \A i \in 1..Len(b.data) : b.data[i][2] <= thread'[t].sent
  OBVIOUS
<1>1. t \in 1..Len(size) /\ thread[t].pc \in Started
  BY <1>0 DEF FileBuffer
<1>2. /\ thread'[t].pc \in Started
      /\ thread'[t].sent \in Nat /\ thread[t].sent \in Nat /\ thread[t].sent <= thread'[t].sent
  BY <1>1 DEF Grows
<1>3. ASSUME b.only, NEW i \in 1..Len(b.data) PROVE b.data[i][2] <= thread'[t].sent
  <2>1. b.data[i][2] <= thread[t].sent
    BY <1>0, <1>3 DEF FileBuffer
  <2>2. b.data[i][2] \in 1..size[t] /\ size[t] \in Nat
    BY <1>1, <1>3, SizeType DEF Increasing
  <2> QED BY <2>1, <2>2, <1>2
<1> QED BY <1>1, <1>2, <1>3

\* A step of the sending side: at most a message more in the events.
LEMMA PostStep ==
    ASSUME Types, Lines, Filled, Grows, UNCHANGED <<toClient, toServer, buffer>>,
           \/ events' = events
           \/ \E m : /\ events' = Append(events, m) /\ IsMsg(m, size) /\ m.mark # "drag"
                     /\ Posted(m, thread'[m.of])
                     /\ \A n \in In(events) : Less(n, m)
                     /\ \A c \in Clients : Behind(buffer[c], m) /\ \A n \in In(toClient[c]) : Less(n, m)
    PROVE  Lines' /\ Filled'
<1>0. size' = size /\ size \in Seq(Sizes) /\ events \in Seq(Messages)
  BY DEF Grows, Types
<1>1. /\ \A n \in In(events') : IsMsg(n, size) /\ Posted(n, thread'[n.of]) /\ n.mark # "drag"
      /\ InOrder(events') /\ \A c \in Clients : Follows(toClient[c], events') /\ Unread(buffer[c], events')
  <2>0. \A n \in In(events) : IsMsg(n, size) /\ Posted(n, thread'[n.of]) /\ n.mark # "drag"
    BY <1>0, PostedGrows DEF Lines
  <2>1. CASE events' = events
    BY <2>0, <2>1 DEF Lines, Filled
  <2>2. ASSUME NEW m, events' = Append(events, m), IsMsg(m, size), m.mark # "drag",
               Posted(m, thread'[m.of]), \A n \in In(events) : Less(n, m),
               \A c \in Clients : Behind(buffer[c], m) /\ \A n \in In(toClient[c]) : Less(n, m)
        PROVE  /\ \A n \in In(events') : IsMsg(n, size) /\ Posted(n, thread'[n.of]) /\ n.mark # "drag"
               /\ InOrder(events') /\ \A c \in Clients : Follows(toClient[c], events') /\ Unread(buffer[c], events')
    <3>1. In(events') = In(events) \cup {m} /\ InOrder(events')
      <4>1. m \in Messages /\ InOrder(events)
        BY <2>2 DEF IsMsg, Lines
      <4> QED BY <4>1, <2>2, <1>0, InAppend
    <3>2. ASSUME NEW c \in Clients PROVE Follows(toClient[c], events') /\ Unread(buffer[c], events')
      <4>1. Follows(toClient[c], events) /\ Unread(buffer[c], events)
        BY DEF Lines, Filled
      <4> QED BY <4>1, <3>1, <2>2 DEF Follows, Unread
    <3> QED BY <2>0, <2>2, <3>1, <3>2
  <2> QED BY <2>1, <2>2
<1>2. ASSUME NEW c \in Clients, NEW m \in In(toClient[c]) PROVE IsMsg(m, size) /\ Posted(m, thread'[m.of])
  BY <1>0, PostedGrows DEF Lines
<1>3. Lines'
  BY <1>0, <1>1, <1>2 DEF Lines
<1>4. ASSUME NEW c \in Clients PROVE FileBuffer(buffer[c])'
  <2>1. buffer[c] \in Buffers /\ Increasing(buffer[c], size) /\ FileBuffer(buffer[c])
    BY DEF Types, Filled, Receivers
  <2>2. /\ buffer[c].opened # 0 => buffer[c].opened \in 1..Len(size) /\ thread'[buffer[c].opened].pc \in Started
        /\ buffer[c].opened # 0 /\ buffer[c].only =>
              \A i \in 1..Len(buffer[c].data) : buffer[c].data[i][2] <= thread'[buffer[c].opened].sent
    BY <2>1, <1>0, FileBufferGrows
  <2> QED BY <2>2, <1>0 DEF FileBuffer
<1>5. Filled'
  <2>1. ASSUME NEW r \in Receivers
        PROVE  Increasing(buffer[r], size)' /\ (buffer[r].ended => Agrees(buffer[r]))' /\ (buffer[r].opened \in 0..Len(size))'
    BY <1>0 DEF Filled, Agrees
  <2>2. ASSUME NEW c \in Clients
        PROVE  Unread(buffer[c], toClient[c])' /\ Unread(buffer[c], events)' /\ Unread(buffer["server"], toServer[c])'
    BY <1>1 DEF Filled
  <2> QED BY <2>1, <2>2, <1>4 DEF Filled
<1> QED BY <1>3, <1>5

LEMMA KeptSame == ASSUME Kept, size' = size, accepted' = accepted PROVE Kept'
  BY DEF Kept, Whole

\* A thread that has posted nothing has no message under way.
LEMMA NotStarted ==
    ASSUME Types, Lines, Filled, NEW t \in 1..Len(size), thread[t].pc \notin Started
    PROVE  /\ \A n \in In(events) : n.of # t
           /\ \A c \in Clients : /\ buffer[c].opened # t
                                 /\ \A n \in In(toClient[c]) : n.of = t => n.mark = "drag"
<1>1. \A n \in In(events) : n.of # t
  BY DEF Lines, Posted
<1>2. ASSUME NEW c \in Clients PROVE buffer[c].opened # t /\ \A n \in In(toClient[c]) : n.of = t => n.mark = "drag"
  <2>1. FileBuffer(buffer[c]) /\ t # 0
    BY SizeType DEF Filled, Types
  <2> QED BY <2>1 DEF Lines, Posted, FileBuffer
<1> QED BY <1>1, <1>2

LEMMA SendFileInv == ASSUME IInv, NEW t \in 1..Len(thread), sendFile(t) PROVE IInv'
<1>0. Types /\ Lines /\ Filled /\ Kept
  BY DEF IInv
<1>1. /\ Types' /\ Grows /\ t \in 1..Len(size) /\ thread[t].pc = "new"
      /\ \/ events' = Append(events, Start(t)) /\ thread'[t].pc = "loop"
         \/ events' = events
  BY <1>0, SendFileStep
<1>2. UNCHANGED <<toClient, toServer, buffer, size, accepted>>
  BY DEF sendFile, receiver, history
<1>3. CASE events' = events
  BY <1>0, <1>1, <1>2, <1>3, PostStep, KeptSame DEF IInv
<1>4. CASE events' = Append(events, Start(t)) /\ thread'[t].pc = "loop"
  <2>1. IsMsg(Start(t), size) /\ Start(t).mark = "start" /\ Start(t).of = t /\ ~Full(Start(t))
    BY <1>0, <1>1, StartIs DEF Types
  <2>2. Posted(Start(t), thread'[Start(t).of])
    BY <2>1, <1>4 DEF Posted, Started
  <2>3. /\ \A n \in In(events) : n.of # t
        /\ \A c \in Clients : /\ buffer[c].opened # t
                              /\ \A n \in In(toClient[c]) : n.of = t => n.mark = "drag"
    BY <1>0, <1>1, NotStarted DEF Started
  <2>4. \A n \in In(events) : Less(n, Start(t))
    BY <2>1, <2>3 DEF Less
  <2>5. \A c \in Clients : Behind(buffer[c], Start(t)) /\ \A n \in In(toClient[c]) : Less(n, Start(t))
    BY <2>1, <2>3 DEF Less, Behind
  <2>6. Start(t).mark # "drag"
    BY <2>1
  <2>7. Lines' /\ Filled'
    BY <2>1, <2>2, <2>4, <2>5, <2>6, <1>0, <1>1, <1>2, <1>4, PostStep
  <2> QED BY <2>7, <1>0, <1>1, <1>2, KeptSame DEF IInv
<1> QED BY <1>1, <1>3, <1>4

LEMMA SendFileLoopInv == ASSUME IInv, NEW t \in 1..Len(thread), sendFileLoop(t) PROVE IInv'
<1>0. Types /\ Lines /\ Filled /\ Kept
  BY DEF IInv
<1> DEFINE k == thread[t].sent + 1
<1>1. /\ Types' /\ Grows /\ t \in 1..Len(size) /\ thread[t].pc = "loop" /\ thread'[t].pc \in {"loop", "end"}
      /\ \/ events' = Append(events, Data(t, k)) /\ thread'[t].sent = k
         \/ events' = events
  BY <1>0, SendFileLoopStep
<1>2. UNCHANGED <<toClient, toServer, buffer, size, accepted>>
  BY DEF sendFileLoop, receiver
<1>3. CASE events' = events
  BY <1>0, <1>1, <1>2, <1>3, PostStep, KeptSame DEF IInv
<1>4. CASE events' = Append(events, Data(t, k)) /\ thread'[t].sent = k
  <2>0. thread[t].sent \in Nat /\ k \in Nat \ {0}
    <3>1. thread \in Seq(Threads)
      BY <1>0 DEF Types
    <3>2. thread[t].sent \in Nat
      BY <3>1, ThreadType
    <3> QED BY <3>2
  <2> HIDE DEF k
  <2> DEFINE m == Data(t, k)
  <2>1. IsMsg(m, size) /\ m.mark = "data" /\ m.of = t /\ (Full(m) => Num(m) = k)
    <3>1. size \in Seq(Sizes)
      BY <1>0 DEF Types
    <3> QED BY <1>1, <2>0, <3>1, DataIs
  <2> HIDE DEF m
  <2>2. Posted(m, thread'[m.of])
    BY <2>0, <2>1, <1>1, <1>4 DEF Posted, Started
  <2>3. ASSUME NEW n, IsMsg(n, size), Posted(n, thread[n.of]) PROVE Less(n, m)
    <3>1. SUFFICES ASSUME n.of = t, n.mark # "drag" PROVE Less(n, m)
      BY <2>1 DEF Less
    <3>2. n.mark # "end" /\ m.mark # "start"
      BY <2>1, <2>3, <3>1, <1>1 DEF Posted
    <3>3. ASSUME Full(n), Full(m) PROVE Num(n) < Num(m)
      <4>1. Num(n) <= thread[t].sent /\ Num(n) \in Nat /\ Num(m) = k
        BY <2>1, <2>3, <3>1, <3>3, <1>0, FullMessage DEF Posted, Types
      <4> QED BY <4>1, <2>0 DEF k
    <3> QED BY <3>2, <3>3 DEF Less
  <2>4. ASSUME NEW c \in Clients PROVE Behind(buffer[c], m)
    <3>1. SUFFICES ASSUME buffer[c].opened = t, buffer[c].only, Full(m), NEW i \in 1..Len(buffer[c].data)
                   PROVE  buffer[c].data[i][2] < Num(m)
      BY <2>1 DEF Behind
    <3>2. t # 0 /\ FileBuffer(buffer[c]) /\ Increasing(buffer[c], size) /\ size[t] \in Nat
      BY <1>0, <1>1, SizeType DEF Filled, Receivers, Types
    <3>3. buffer[c].data[i][2] <= thread[t].sent
      BY <3>1, <3>2 DEF FileBuffer
    <3>4. buffer[c].data[i][2] \in 1..size[t]
      BY <3>1, <3>2 DEF Increasing
    <3> QED BY <3>1, <3>2, <3>3, <3>4, <2>0, <2>1 DEF k
  <2>5. \A n \in In(events) : Less(n, m)
    BY <2>3, <1>0 DEF Lines
  <2>6. \A c \in Clients : Behind(buffer[c], m) /\ \A n \in In(toClient[c]) : Less(n, m)
    BY <2>3, <2>4, <1>0 DEF Lines
  <2>7. Lines' /\ Filled'
    <3>1. events' = Append(events, m) /\ m.mark # "drag"
      BY <1>4, <2>1 DEF m
    <3> QED BY <3>1, <2>1, <2>2, <2>5, <2>6, <1>0, <1>1, <1>2, PostStep
  <2> QED BY <2>7, <1>0, <1>1, <1>2, KeptSame DEF IInv
<1> QED BY <1>1, <1>3, <1>4

LEMMA SendFileEndInv == ASSUME IInv, NEW t \in 1..Len(thread), sendFileEnd(t) PROVE IInv'
<1>0. Types /\ Lines /\ Filled /\ Kept
  BY DEF IInv
<1>1. /\ Types' /\ Grows /\ t \in 1..Len(size) /\ thread[t].pc = "end" /\ thread'[t].pc = "exit"
      /\ events' = Append(events, End(t))
  BY <1>0, SendFileEndStep
<1>2. UNCHANGED <<toClient, toServer, buffer, size, accepted>>
  BY DEF sendFileEnd, receiver, history
<1>3. IsMsg(End(t), size) /\ End(t).mark = "end" /\ End(t).of = t /\ ~Full(End(t))
  BY <1>0, <1>1, EndIs DEF Types
<1>4. Posted(End(t), thread'[End(t).of])
  BY <1>1, <1>3 DEF Posted, Started
<1>5. ASSUME NEW n, Posted(n, thread[n.of]) PROVE Less(n, End(t))
  BY <1>1, <1>3, <1>5 DEF Less, Posted
<1>6. \A c \in Clients : Behind(buffer[c], End(t)) /\ \A n \in In(toClient[c]) : Less(n, End(t))
  BY <1>0, <1>3, <1>5 DEF Lines, Behind
<1>7. \A n \in In(events) : Less(n, End(t))
  BY <1>0, <1>5 DEF Lines
<1>8. Lines' /\ Filled'
  <2>1. End(t).mark # "drag"
    BY <1>3
  <2> QED BY <2>1, <1>0, <1>1, <1>2, <1>3, <1>4, <1>6, <1>7, PostStep
<1> QED BY <1>0, <1>1, <1>2, <1>8, KeptSame DEF IInv

\* The steps that send nothing.
LEMMA QuietInv ==
    ASSUME IInv, \/ \E t \in 1..Len(thread) : threadExit(t)
                 \/ onMouseUp
                 \/ \E s \in Screens : switchScreen(s)
                 \/ \E c \in Clients : reconnect(c) \/ onFileReceiveCompleted(c)
    PROVE  IInv'
<1>0. Types /\ Lines /\ Filled /\ Kept
  BY DEF IInv
<1>1. ASSUME Types', Grows, UNCHANGED <<toClient, toServer, buffer, events, accepted>> PROVE IInv'
  <2>1. Lines' /\ Filled'
    BY <1>0, <1>1, PostStep
  <2>2. Kept'
    BY <1>0, <1>1, KeptSame DEF Grows
  <2> QED BY <1>1, <2>1, <2>2 DEF IInv
<1>2. ASSUME NEW t \in 1..Len(thread), threadExit(t) PROVE IInv'
  BY <1>0, <1>1, <1>2, ThreadExitStep DEF threadExit, receiver, history
<1>3. CASE onMouseUp
  BY <1>0, <1>1, <1>3, MouseUpStep DEF onMouseUp, receiver, history
<1>4. CASE \E s \in Screens : switchScreen(s)
  <2>1. Types' /\ UNCHANGED <<size, thread, events, toClient, toServer, buffer>>
    BY <1>0, <1>4, OtherStep
  <2> QED BY <2>1, <1>0, <1>1, <1>4, Still DEF switchScreen
<1>5. CASE \E c \in Clients : reconnect(c) \/ onFileReceiveCompleted(c)
  <2>1. Types' /\ UNCHANGED <<size, thread, events, toClient, toServer, buffer>>
    BY <1>0, <1>5, OtherStep
  <2> QED BY <2>1, <1>0, <1>1, <1>5, Still DEF reconnect, onFileReceiveCompleted, history
<1> QED BY <1>2, <1>3, <1>4, <1>5

\* Only a file that is whole is written.
LEMMA WriteInv == ASSUME IInv, NEW c \in Clients, write_to_drop_dir_thread(c) PROVE IInv'
<1>0. Types /\ Lines /\ Filled /\ Kept
  BY DEF IInv
<1>1. Types' /\ UNCHANGED <<size, thread, events, toClient, toServer, buffer>>
  BY <1>0, OtherStep
<1>2. Lines' /\ Filled'
  BY <1>0, <1>1, Still, PostStep
<1>3. Kept'
  <2>1. SUFFICES ASSUME NEW n \in accepted', n.only, n.ended, n.of = n.opened
                 PROVE  n.of \in 1..Len(size) /\ n.data = Whole(n.of)
    BY <1>1 DEF Kept, Whole
  <2>2. CASE n \in accepted
    BY <2>1, <2>2, <1>0 DEF Kept
  <2>3. CASE n \notin accepted
    <3>1. n = Note(c, buffer[c], m_dragFileList[c])
      BY <2>1, <2>3 DEF write_to_drop_dir_thread
    <3>2. n.only = buffer[c].only /\ n.ended = buffer[c].ended /\ n.opened = buffer[c].opened /\ n.data = buffer[c].data
      BY <3>1 DEF Note
    <3>3. buffer[c] \in Buffers /\ Increasing(buffer[c], size) /\ Agrees(buffer[c]) /\ buffer[c].only
      BY <3>2, <2>1, <1>0 DEF Types, Filled, Receivers
    <3> QED BY <3>2, <3>3, <2>1, <1>0, WholeBuffer DEF Types
  <2> QED BY <2>2, <2>3
<1> QED BY <1>1, <1>2, <1>3 DEF IInv

\* A chunk goes from the events to the active screen.
LEMMA DispatchStep ==
    ASSUME Types, Lines, on_file_chunk_sending
    PROVE  LET m == Head(events)
           IN  /\ Types' /\ Grows /\ IsMsg(m, size) /\ m \in Messages /\ Posted(m, thread[m.of]) /\ m.mark # "drag"
               /\ In(events) = {m} \cup In(events')
               /\ InOrder(events') /\ \A n \in In(events') : Less(m, n)
               /\ \A c \in Clients : toClient'[c] = IF c = m_active THEN Append(toClient[c], m) ELSE toClient[c]
               /\ \A u \in 1..Len(size) : thread'[u].pc = thread[u].pc /\ thread'[u].sent = thread[u].sent
               /\ \A u \in 1..Len(size) : u # m.of \/ m.mark # "start" => thread'[u] = thread[u]
               /\ m.mark = "start" => thread'[m.of].to = m_active /\ lost' = lost
               /\ m.mark # "start" => lost' = IF m_active = thread[m.of].to THEN lost ELSE lost \cup {m.of}
<1> DEFINE m == Head(events)
<1>0. /\ Len(thread) = Len(size) /\ thread \in Seq(Threads) /\ size \in Seq(Sizes) /\ Len(size) \in Nat
      /\ events \in Seq(Messages) /\ events # <<>> /\ events' = Tail(events) /\ InOrder(events)
      /\ toClient \in [Clients -> Seq(Messages)] /\ size' = size
      /\ m_active \in Clients \cup {"primary"} /\ "primary" \notin Clients /\ lost \subseteq 1..Len(size)
  BY SizeType, Constants DEF Types, Lines, on_file_chunk_sending
<1>1. /\ m \in Messages /\ events' \in Seq(Messages) /\ In(events) = {m} \cup In(events')
      /\ InOrder(events') /\ \A n \in In(events') : Less(m, n)
  BY <1>0, InTail
<1>2. IsMsg(m, size) /\ Posted(m, thread[m.of]) /\ m.mark # "drag" /\ m.of \in 1..Len(size)
  BY <1>1 DEF Lines, IsMsg
<1> HIDE DEF m
<1>3. /\ toClient' = IF m_active = "primary" THEN toClient
                     ELSE [toClient EXCEPT ![m_active] = Append(@, m)]
      /\ m.mark = "start" => thread' = [thread EXCEPT ![m.of].to = m_active] /\ lost' = lost
      /\ m.mark # "start" => /\ lost' = IF m_active = thread[m.of].to THEN lost ELSE lost \cup {m.of}
                             /\ thread' = thread
  BY DEF on_file_chunk_sending, m
<1>4. /\ toClient' \in [Clients -> Seq(Messages)]
      /\ \A c \in Clients : toClient'[c] = IF c = m_active THEN Append(toClient[c], m) ELSE toClient[c]
  <2>1. CASE m_active = "primary"
    BY <2>1, <1>0, <1>3
  <2>2. CASE m_active # "primary"
    <3>1. m_active \in Clients
      BY <2>2, <1>0
    <3>2. Append(toClient[m_active], m) \in Seq(Messages)
      BY <3>1, <1>0, <1>1
    <3> QED BY <3>1, <3>2, <2>2, <1>0, <1>3
  <2> QED BY <2>1, <2>2
<1>5. /\ thread' \in Seq(Threads) /\ Len(thread') = Len(thread)
      /\ \A u \in 1..Len(size) : thread'[u].pc = thread[u].pc /\ thread'[u].sent = thread[u].sent
      /\ \A u \in 1..Len(size) : u # m.of \/ m.mark # "start" => thread'[u] = thread[u]
      /\ m.mark = "start" => thread'[m.of].to = m_active
  <2>1. CASE m.mark # "start"
    BY <2>1, <1>0, <1>3
  <2>2. CASE m.mark = "start"
    <3> DEFINE x == [thread[m.of] EXCEPT !.to = m_active]
    <3>1. thread[m.of] \in Threads
      BY <1>0, <1>2, ThreadType
    <3>2. x \in Threads /\ x.pc = thread[m.of].pc /\ x.sent = thread[m.of].sent /\ x.to = m_active
      BY <3>1, <1>0 DEF Threads, Screens
    <3>3. thread' = [thread EXCEPT ![m.of] = x]
      BY <1>3, <2>2
    <3> HIDE DEF x
    <3>4. /\ thread' \in Seq(Threads) /\ Len(thread') = Len(thread) /\ thread'[m.of] = x
          /\ \A u \in 1..Len(thread) : u # m.of => thread'[u] = thread[u]
      BY <1>0, <1>2, <3>2, <3>3, ThreadChange
    <3> QED BY <3>2, <3>4, <2>2, <1>0, <1>2
  <2> QED BY <2>1, <2>2
<1>6. lost' \subseteq 1..Len(size)
  BY <1>0, <1>2, <1>3
<1>7. m_dragging # 0 => thread'[m_dragging].pc = "idle"
  BY <1>5 DEF Types
<1>8. Types'
  BY <1>0, <1>1, <1>4, <1>5, <1>6, <1>7 DEF Types, on_file_chunk_sending, server, receiver
<1>9. Grows
  <2>1. \A u \in 1..Len(size) : thread[u].sent \in Nat
    BY <1>0, ThreadType
  <2> QED BY <2>1, <1>0, <1>5 DEF Grows
<1> QED BY <1>1, <1>2, <1>3, <1>4, <1>5, <1>8, <1>9 DEF m

LEMMA DispatchInv == ASSUME IInv, on_file_chunk_sending PROVE IInv'
<1>0. Types /\ Lines /\ Filled /\ Kept /\ size \in Seq(Sizes)
  BY DEF IInv, Types
<1> DEFINE m == Head(events)
<1>1. /\ Types' /\ Grows /\ IsMsg(m, size) /\ m \in Messages /\ Posted(m, thread[m.of]) /\ m.mark # "drag"
      /\ In(events) = {m} \cup In(events')
      /\ InOrder(events') /\ \A n \in In(events') : Less(m, n)
      /\ \A c \in Clients : toClient'[c] = IF c = m_active THEN Append(toClient[c], m) ELSE toClient[c]
  BY <1>0, DispatchStep
<1> HIDE DEF m
<1>2. UNCHANGED <<toServer, buffer, size, accepted>>
  BY DEF on_file_chunk_sending, receiver
<1>3. Posted(m, thread'[m.of])
  BY <1>0, <1>1, PostedGrows
<1>4. \A n \in In(events') : IsMsg(n, size) /\ Posted(n, thread'[n.of]) /\ n.mark # "drag"
  BY <1>0, <1>1, PostedGrows DEF Lines
<1>5. ASSUME NEW c \in Clients
      PROVE  /\ \A n \in In(toClient'[c]) : IsMsg(n, size) /\ Posted(n, thread'[n.of])
             /\ InOrder(toClient'[c]) /\ Follows(toClient'[c], events')
             /\ Unread(buffer[c], toClient'[c])
  <2>0. /\ toClient[c] \in Seq(Messages) /\ InOrder(toClient[c]) /\ Follows(toClient[c], events)
        /\ Unread(buffer[c], toClient[c]) /\ Unread(buffer[c], events)
        /\ \A n \in In(toClient[c]) : IsMsg(n, size) /\ Posted(n, thread'[n.of])
    BY <1>0, <1>1, PostedGrows DEF Lines, Filled, Types
  <2>1. CASE c # m_active
    BY <2>0, <2>1, <1>1 DEF Follows
  <2>2. CASE c = m_active
    <3>1. toClient'[c] = Append(toClient[c], m)
      BY <2>2, <1>1
    <3>2. \A n \in In(toClient[c]) : Less(n, m)
      BY <2>0, <1>1 DEF Follows
    <3>3. In(toClient'[c]) = In(toClient[c]) \cup {m} /\ InOrder(toClient'[c])
      BY <3>1, <3>2, <2>0, <1>1, InAppend
    <3>4. Follows(toClient'[c], events')
      BY <3>3, <2>0, <1>1 DEF Follows
    <3>5. Unread(buffer[c], toClient'[c])
      BY <3>3, <2>0, <1>1 DEF Unread
    <3> QED BY <3>3, <3>4, <3>5, <2>0, <1>1, <1>3
  <2> QED BY <2>1, <2>2
<1>6. ASSUME NEW c \in Clients PROVE Unread(buffer[c], events')
  BY <1>0, <1>1 DEF Filled, Unread
<1>7. Lines'
  BY <1>0, <1>1, <1>2, <1>4, <1>5 DEF Lines
<1>8. ASSUME NEW c \in Clients PROVE FileBuffer(buffer[c])'
  <2>1. buffer[c] \in Buffers /\ Increasing(buffer[c], size) /\ FileBuffer(buffer[c])
    BY <1>0 DEF Types, Filled, Receivers
  <2>2. /\ buffer[c].opened # 0 => buffer[c].opened \in 1..Len(size) /\ thread'[buffer[c].opened].pc \in Started
        /\ buffer[c].opened # 0 /\ buffer[c].only =>
              \A i \in 1..Len(buffer[c].data) : buffer[c].data[i][2] <= thread'[buffer[c].opened].sent
    BY <2>1, <1>0, <1>1, FileBufferGrows
  <2> QED BY <2>2, <1>2 DEF FileBuffer
<1>9. Filled'
  <2>1. ASSUME NEW r \in Receivers
        PROVE  Increasing(buffer[r], size)' /\ (buffer[r].ended => Agrees(buffer[r]))' /\ (buffer[r].opened \in 0..Len(size))'
    BY <1>0, <1>2 DEF Filled, Agrees
  <2>2. ASSUME NEW c \in Clients
        PROVE  Unread(buffer[c], toClient[c])' /\ Unread(buffer[c], events)' /\ Unread(buffer["server"], toServer[c])'
    BY <1>0, <1>2, <1>5, <1>6 DEF Filled
  <2> QED BY <2>1, <2>2, <1>8 DEF Filled
<1> QED BY <1>0, <1>1, <1>2, <1>7, <1>9, KeptSame DEF IInv

LEMMA DisconnectInv ==
    ASSUME IInv, NEW c \in Clients, disconnect(c)
    PROVE  /\ IInv' /\ lost \subseteq lost' /\ UNCHANGED <<size, thread, events, buffer, rejected, interrupted>>
           /\ \A d \in Clients : \/ toClient'[d] = toClient[d] /\ toServer'[d] = toServer[d]
                                 \/ /\ In(toClient'[d]) = {} /\ In(toServer'[d]) = {}
                                    /\ \A m \in In(toClient[d]) \cup In(toServer[d]) : m.of \in lost'
<1>0. /\ Types /\ Lines /\ Filled /\ Kept /\ size \in Seq(Sizes) /\ Len(size) \in Nat
      /\ toClient \in [Clients -> Seq(Messages)] /\ toServer \in [Clients -> Seq(Messages)]
      /\ lost \subseteq 1..Len(size)
  BY SizeType DEF IInv, Types
<1>1. /\ toClient' = [toClient EXCEPT ![c] = <<>>] /\ toServer' = [toServer EXCEPT ![c] = <<>>]
      /\ UNCHANGED <<size, thread, events, buffer, accepted, rejected, interrupted>>
      /\ lost' = lost \cup {toClient[c][i].of : i \in DOMAIN toClient[c]}
                      \cup {toServer[c][i].of : i \in DOMAIN toServer[c]}
  BY DEF disconnect, sender, receiver
<1>2. /\ toClient' \in [Clients -> Seq(Messages)] /\ toServer' \in [Clients -> Seq(Messages)]
      /\ toClient'[c] = <<>> /\ toServer'[c] = <<>>
      /\ \A d \in Clients : d # c => toClient'[d] = toClient[d] /\ toServer'[d] = toServer[d]
  BY <1>0, <1>1
<1>3. \A m \in In(toClient[c]) \cup In(toServer[c]) : m.of \in lost'
  BY <1>0, <1>1 DEF In
<1>4. lost' \subseteq 1..Len(size)
  <2>1. \A i \in DOMAIN toClient[c] : toClient[c][i] \in In(toClient[c])
    BY <1>0 DEF In
  <2>2. \A i \in DOMAIN toServer[c] : toServer[c][i] \in In(toServer[c])
    BY <1>0 DEF In
  <2>3. \A m \in In(toClient[c]) \cup In(toServer[c]) : m.of \in 1..Len(size)
    BY <1>0 DEF Lines, IsMsg
  <2> QED BY <2>1, <2>2, <2>3, <1>0, <1>1
<1>5. Types'
  <2>1. m_clients' \subseteq Clients /\ m_active' \in m_clients' \cup {"primary"}
    BY <1>0 DEF Types, disconnect
  <2> QED BY <2>1, <1>0, <1>1, <1>2, <1>4 DEF Types, disconnect, sender, receiver
<1>6. \A d \in Clients : \/ toClient'[d] = toClient[d] /\ toServer'[d] = toServer[d]
                         \/ In(toClient'[d]) = {} /\ In(toServer'[d]) = {} /\ InOrder(toClient'[d]) /\ InOrder(toServer'[d])
  BY <1>2, InEmpty DEF InOrder
<1>7. Lines'
  <2>1. ASSUME NEW d \in Clients
        PROVE  /\ \A m \in In(toClient'[d]) : IsMsg(m, size) /\ Posted(m, thread[m.of])
               /\ InOrder(toClient'[d]) /\ Follows(toClient'[d], events)
               /\ \A m \in In(toServer'[d]) : IsMsg(m, size) /\ m.mark # "drag"
               /\ InOrder(toServer'[d])
    BY <1>0, <1>6 DEF Lines, Follows
  <2>2. ASSUME NEW d \in Clients, NEW e \in Clients, d # e, NEW m \in In(toServer'[d]), NEW n \in In(toServer'[e])
        PROVE  m.of # n.of
    <3>1. m \in In(toServer[d]) /\ n \in In(toServer[e]) /\ e \in Clients \ {d}
      BY <2>2, <1>6
    <3> QED BY <3>1, <1>0 DEF Lines
  <2> QED BY <2>1, <2>2, <1>0, <1>1 DEF Lines
<1>8. Filled'
  <2>1. ASSUME NEW d \in Clients
        PROVE  Unread(buffer[d], toClient'[d]) /\ Unread(buffer["server"], toServer'[d])
    <3>1. Unread(buffer[d], toClient[d]) /\ Unread(buffer["server"], toServer[d])
      BY <1>0 DEF Filled
    <3> QED BY <3>1, <1>6 DEF Unread
  <2>2. ASSUME NEW d \in Clients PROVE FileBuffer(buffer[d])'
    BY <1>0, <1>1 DEF Filled, FileBuffer
  <2>3. ASSUME NEW r \in Receivers
        PROVE  Increasing(buffer[r], size)' /\ (buffer[r].ended => Agrees(buffer[r]))' /\ (buffer[r].opened \in 0..Len(size))'
    BY <1>0, <1>1 DEF Filled, Agrees
  <2> QED BY <2>1, <2>2, <2>3, <1>0, <1>1 DEF Filled
<1> QED BY <1>0, <1>1, <1>2, <1>3, <1>5, <1>7, <1>8, InEmpty, KeptSame DEF IInv

\* A transfer more changes nothing of the ones before.
LEMMA NewTransfer ==
    ASSUME IInv, NEW n \in Sizes, NEW x \in Threads, x.pc \in {"idle", "none"}, Len(size) < MaxTransfers,
           size' = Append(size, n), thread' = Append(thread, x), UNCHANGED <<events, buffer, accepted>>
    PROVE  /\ size' \in Seq(Sizes) /\ Len(size') = Len(size) + 1 /\ Len(size) \in Nat /\ size'[Len(size')] = n
           /\ thread' \in Seq(Threads) /\ Len(thread') = Len(thread) + 1 /\ thread'[Len(size')] = x
           /\ \A t \in 1..Len(size) : size'[t] = size[t] /\ thread'[t] = thread[t] /\ t \in 1..Len(size') /\ t # Len(size')
           /\ \A m : IsMsg(m, size) => IsMsg(m, size') /\ thread'[m.of] = thread[m.of] /\ m.of # Len(size')
           /\ \A r \in Receivers : /\ Increasing(buffer'[r], size') /\ (buffer'[r].ended => Agrees(buffer'[r]))
                                   /\ buffer'[r].opened \in 0..Len(size') /\ buffer[r].opened # Len(size')
           /\ \A c \in Clients : FileBuffer(buffer[c])' /\ Unread(buffer'[c], events')
           /\ \A m \in In(events') : IsMsg(m, size') /\ Posted(m, thread'[m.of]) /\ m.mark # "drag"
           /\ InOrder(events') /\ Kept'
<1>0. /\ Types /\ Lines /\ Filled /\ Kept /\ size \in Seq(Sizes) /\ Len(size) \in Nat
      /\ thread \in Seq(Threads) /\ Len(thread) = Len(size)
  BY SizeType DEF IInv, Types
<1>1. /\ size' \in Seq(Sizes) /\ Len(size') = Len(size) + 1 /\ size'[Len(size')] = n
      /\ \A t \in 1..Len(size) : size'[t] = size[t] /\ t \in 1..Len(size') /\ t # Len(size')
  BY <1>0, SizeType
<1>2. /\ thread' \in Seq(Threads) /\ Len(thread') = Len(thread) + 1 /\ thread'[Len(size')] = x
      /\ \A t \in 1..Len(size) : thread'[t] = thread[t]
  BY <1>0, <1>1
<1>3. ASSUME NEW m, IsMsg(m, size) PROVE IsMsg(m, size') /\ thread'[m.of] = thread[m.of] /\ m.of # Len(size')
  <2>1. m.of \in 1..Len(size)
    BY <1>3 DEF IsMsg
  <2> QED BY <2>1, <1>0, <1>1, <1>2, <1>3, MessageGrows
<1>4. ASSUME NEW r \in Receivers
      PROVE  /\ Increasing(buffer[r], size') /\ (buffer[r].ended => Agrees(buffer[r]))
             /\ buffer[r].opened \in 0..Len(size') /\ buffer[r].opened # Len(size')
  <2>1. buffer[r].opened \in 0..Len(size)
    BY <1>0 DEF Filled
  <2>2. Increasing(buffer[r], size')
    BY <1>0, BufferGrows DEF Filled
  <2> QED BY <2>1, <2>2, <1>0, <1>1 DEF Filled
<1>5. ASSUME NEW c \in Clients PROVE FileBuffer(buffer[c])' /\ Unread(buffer[c], events)
  BY <1>0, <1>1, <1>2 DEF Filled, FileBuffer
<1>6. \A m \in In(events) : IsMsg(m, size') /\ Posted(m, thread'[m.of]) /\ m.mark # "drag"
  BY <1>0, <1>3 DEF Lines
<1>7. Kept'
  BY <1>0, <1>1 DEF Kept, Whole
<1> QED BY <1>0, <1>1, <1>2, <1>3, <1>4, <1>5, <1>6, <1>7 DEF Lines

LEMMA DragToInv ==
    ASSUME IInv, NEW c \in Clients, dragTo(c)
    PROVE  /\ IInv' /\ UNCHANGED <<events, buffer, toServer, rejected, interrupted, lost>>
           /\ \E n \in Sizes : size' = Append(size, n)
           /\ thread' = Append(thread, [pc |-> "idle", sent |-> 0, to |-> "primary"])
           /\ \A d \in Clients : \E m : m.mark = "drag" /\ In(toClient[d]) \subseteq In(toClient'[d])
                                        /\ In(toClient'[d]) \subseteq In(toClient[d]) \cup {m}
<1>0. /\ Types /\ Lines /\ Filled /\ Kept /\ toClient \in [Clients -> Seq(Messages)] /\ Len(size) \in Nat
      /\ Len(thread) = Len(size)
  BY SizeType DEF IInv, Types
<1> DEFINE x == [pc |-> "idle", sent |-> 0, to |-> "primary"]
           t == Len(size')
           m == DragInfo(t)
<1>1. x \in Threads /\ x.pc \in {"idle", "none"} /\ x.pc = "idle"
  BY DEF Threads, Pcs, Screens
<1>2. PICK n \in Sizes : size' = Append(size, n)
  BY DEF dragTo
<1>3. /\ Len(size) < MaxTransfers /\ thread' = Append(thread, x) /\ m_dragging' = t
      /\ toClient' = [toClient EXCEPT ![c] = Append(@, m)]
      /\ UNCHANGED <<events, buffer, accepted, toServer, rejected, interrupted, lost>>
  BY DEF dragTo, receiver
<1> HIDE DEF x, m
<1>4. /\ size' \in Seq(Sizes) /\ Len(size') = Len(size) + 1
      /\ thread' \in Seq(Threads) /\ Len(thread') = Len(thread) + 1 /\ thread'[Len(size')] = x
      /\ \A u \in 1..Len(size) : size'[u] = size[u] /\ thread'[u] = thread[u] /\ u \in 1..Len(size')
      /\ \A k : IsMsg(k, size) => IsMsg(k, size') /\ thread'[k.of] = thread[k.of] /\ k.of # Len(size')
      /\ \A r \in Receivers : /\ Increasing(buffer'[r], size') /\ (buffer'[r].ended => Agrees(buffer'[r]))
                              /\ buffer'[r].opened \in 0..Len(size')
      /\ \A d \in Clients : FileBuffer(buffer[d])' /\ Unread(buffer'[d], events')
      /\ \A k \in In(events') : IsMsg(k, size') /\ Posted(k, thread'[k.of]) /\ k.mark # "drag"
      /\ InOrder(events') /\ Kept'
  BY <1>1, <1>2, <1>3, NewTransfer
<1>5. t \in 1..Len(size') /\ IsMsg(m, size') /\ m.mark = "drag" /\ m \in Messages /\ ~Full(m)
  <2>1. t \in 1..Len(size')
    BY <1>0, <1>4
  <2> QED BY <2>1, <1>4, EndIs DEF m, IsMsg, Full
<1>6. ASSUME NEW d \in Clients
      PROVE  /\ toClient'[d] \in Seq(Messages) /\ InOrder(toClient'[d])
             /\ In(toClient[d]) \subseteq In(toClient'[d])
             /\ In(toClient'[d]) \subseteq In(toClient[d]) \cup {m}
  <2>0. toClient[d] \in Seq(Messages) /\ InOrder(toClient[d])
    BY <1>0 DEF Lines
  <2>1. CASE d # c
    BY <2>0, <2>1, <1>0, <1>3
  <2>2. CASE d = c
    <3>1. toClient'[d] = Append(toClient[d], m)
      BY <2>2, <1>0, <1>3
    <3>2. \A k \in In(toClient[d]) : Less(k, m)
      BY <1>5 DEF Less
    <3> QED BY <3>1, <3>2, <2>0, <1>5, InAppend
  <2> QED BY <2>1, <2>2
<1>7. Types'
  <2>1. toClient' \in [Clients -> Seq(Messages)]
    BY <1>0, <1>3, <1>6
  <2>2. m_active' \in m_clients' \cup {"primary"} /\ m_clients' \subseteq Clients
    BY <1>0 DEF dragTo, Types
  <2>3. m_dragging' \in 0..Len(size') /\ m_sendFileThread' \in 0..Len(size') /\ thread'[m_dragging'].pc = "idle"
    BY <1>0, <1>1, <1>3, <1>4 DEF dragTo, Types
  <2>4. m_dragFileList' \in [Clients -> 0..Len(size')] /\ interrupted' \subseteq 1..Len(size') /\ lost' \subseteq 1..Len(size')
    BY <1>0, <1>3, <1>4 DEF dragTo, Types, receiver
  <2>5. Len(size') <= MaxTransfers /\ Len(thread') = Len(size')
    BY <1>0, <1>3, <1>4, Constants
  <2> QED BY <2>1, <2>2, <2>3, <2>4, <2>5, <1>0, <1>3, <1>4 DEF Types, dragTo, receiver
<1>8. Lines'
  <2>1. ASSUME NEW d \in Clients, NEW k \in In(toClient'[d]) PROVE IsMsg(k, size') /\ Posted(k, thread'[k.of])
    <3>1. CASE k = m
      BY <3>1, <1>5 DEF Posted
    <3>2. CASE k \in In(toClient[d])
      BY <3>2, <1>0, <1>4 DEF Lines
    <3> QED BY <3>1, <3>2, <1>6
  <2>2. ASSUME NEW d \in Clients PROVE Follows(toClient'[d], events)
    <3>1. Follows(toClient[d], events)
      BY <1>0 DEF Lines
    <3> QED BY <3>1, <1>5, <1>6 DEF Follows, Less
  <2>3. \A d \in Clients : \A k \in In(toServer[d]) : IsMsg(k, size') /\ k.mark # "drag"
    BY <1>0, <1>4 DEF Lines
  <2>4. ASSUME NEW d \in Clients
        PROVE  /\ InOrder(toServer[d])
               /\ \A e \in Clients \ {d} : \A k \in In(toServer[d]), l \in In(toServer[e]) : k.of # l.of
    BY <1>0 DEF Lines
  <2>5. ASSUME NEW d \in Clients
        PROVE  /\ \A k \in In(toClient'[d]) : IsMsg(k, size') /\ Posted(k, thread'[k.of])
               /\ InOrder(toClient'[d]) /\ Follows(toClient'[d], events')
               /\ \A k \in In(toServer'[d]) : IsMsg(k, size') /\ k.mark # "drag"
               /\ InOrder(toServer'[d])
               /\ \A e \in Clients \ {d} : \A k \in In(toServer'[d]), l \in In(toServer'[e]) : k.of # l.of
    <3>1. events' = events /\ toServer' = toServer
      BY <1>3
    <3> QED BY <3>1, <2>1, <2>2, <2>3, <2>4, <1>6
  <2>6. /\ \A k \in In(events') : IsMsg(k, size') /\ Posted(k, thread'[k.of]) /\ k.mark # "drag"
        /\ InOrder(events')
    BY <1>4
  <2> QED BY <2>5, <2>6 DEF Lines
<1>9. Filled'
  <2>1. ASSUME NEW d \in Clients PROVE Unread(buffer[d], toClient'[d]) /\ Unread(buffer["server"], toServer[d])
    <3>1. Unread(buffer[d], toClient[d]) /\ Unread(buffer["server"], toServer[d])
      BY <1>0 DEF Filled
    <3>2. Behind(buffer[d], m)
      BY <1>5 DEF Behind
    <3> QED BY <3>1, <3>2, <1>6 DEF Unread
  <2> QED BY <2>1, <1>3, <1>4 DEF Filled
<1>10. IInv'
  BY <1>4, <1>7, <1>8, <1>9 DEF IInv
<1> QED BY <1>2, <1>3, <1>5, <1>6, <1>10 DEF x

\* The data chunks of a clipboard.
LEMMA ClipboardData ==
    ASSUME NEW sz \in Seq(Sizes), NEW t \in 1..Len(sz), NEW n \in Nat, NEW D \in [1..n -> Messages],
           sz[t] = 0 => n = 1, sz[t] # 0 => n = sz[t],
           \A i \in 1..n : D[i].mark = "data" /\ D[i].of = t,
           \A i \in 1..n : D[i].data = IF sz[t] = 0 THEN <<>> ELSE <<<<t, i>>>>
    PROVE  /\ D \in Seq(Messages) /\ InOrder(D)
           /\ \A m \in In(D) : IsMsg(m, sz) /\ m.of = t /\ m.mark = "data"
           /\ \A k \in 1..sz[t] : Has(In(D), t, k)
<1>0. sz[t] \in Nat /\ t \in Nat
  BY SizeType
<1>1. D \in Seq(Messages) /\ Len(D) = n
  BY FunSeq
<1>2. ASSUME NEW i \in 1..n
      PROVE  /\ IsMsg(D[i], sz) /\ (Full(D[i]) <=> sz[t] # 0)
             /\ Full(D[i]) => Num(D[i]) = i /\ n = sz[t]
  <2>1. D[i] \in Messages /\ D[i].mark = "data" /\ D[i].of = t
    OBVIOUS
  <2>2. CASE sz[t] = 0
    <3>1. D[i].data = <<>>
      BY <2>2
    <3> QED BY <3>1, <2>1, <2>2 DEF IsMsg, Full
  <2>3. CASE sz[t] # 0
    <3>1. D[i].data = <<<<t, i>>>> /\ n = sz[t]
      BY <2>3
    <3>2. <<<<t, i>>>> # <<>> /\ <<<<t, i>>>>[1][2] = i
      OBVIOUS
    <3>3. Full(D[i]) /\ Num(D[i]) = i
      BY <3>1, <3>2, <2>1 DEF Full, Num
    <3> QED BY <3>1, <3>3, <2>1, <2>3 DEF IsMsg
  <2> QED BY <2>2, <2>3
<1>3. InOrder(D)
  <2>1. SUFFICES ASSUME NEW i \in 1..n, NEW j \in 1..n, i < j PROVE Less(D[i], D[j])
    BY <1>1 DEF InOrder
  <2> QED BY <2>1, <1>2 DEF Less
<1>4. ASSUME NEW m \in In(D) PROVE IsMsg(m, sz) /\ m.of = t /\ m.mark = "data"
  <2>1. PICK i \in 1..n : m = D[i]
    BY <1>1 DEF In
  <2> QED BY <2>1, <1>2
<1>5. ASSUME NEW k \in 1..sz[t] PROVE Has(In(D), t, k)
  <2>1. k \in 1..n /\ sz[t] # 0
    BY <1>0
  <2>2. D[k] \in In(D)
    BY <2>1, <1>1 DEF In
  <2> QED BY <2>1, <2>2, <1>2 DEF Has
<1> QED BY <1>1, <1>3, <1>4, <1>5

LEMMA InOne == ASSUME NEW m \in Messages PROVE <<m>> \in Seq(Messages) /\ In(<<m>>) = {m} /\ InOrder(<<m>>)
<1>1. <<m>> \in Seq(Messages) /\ Len(<<m>>) = 1 /\ <<m>>[1] = m
  OBVIOUS
<1>2. \A i \in 1..Len(<<m>>) : i = 1
  OBVIOUS
<1>3. 1 \in 1..Len(<<m>>)
  OBVIOUS
<1>4. In(<<m>>) = {m}
  BY <1>1, <1>2, <1>3 DEF In
<1>5. InOrder(<<m>>)
  BY <1>2 DEF InOrder
<1> QED BY <1>1, <1>4, <1>5

\* A clipboard is under way from its start to its end, and whole.
LEMMA SendClipboardStep ==
    ASSUME IInv, NEW c \in Clients, sendClipboard(c)
    PROVE  LET t == Len(size')
           IN  /\ UNCHANGED <<events, buffer, toClient, rejected, interrupted, lost, accepted>>
               /\ \E n \in Sizes : size' = Append(size, n)
               /\ thread' = Append(thread, [pc |-> "none", sent |-> 0, to |-> "server"])
               /\ Len(size) < MaxTransfers /\ size' \in Seq(Sizes) /\ t \in 1..Len(size')
               /\ \A d \in Clients : d # c => toServer'[d] = toServer[d]
               /\ toServer' \in [Clients -> Seq(Messages)] /\ InOrder(toServer'[c])
               /\ In(toServer[c]) \subseteq In(toServer'[c])
               /\ \A m \in In(toServer'[c]) :
                     m \in In(toServer[c]) \/ (IsMsg(m, size') /\ m.of = t /\ m.mark # "drag")
               /\ \A k \in 1..size'[t] : Has(In(toServer'[c]), t, k)
<1>0. /\ Types /\ Lines /\ toServer \in [Clients -> Seq(Messages)] /\ Len(size) \in Nat /\ size \in Seq(Sizes)
  BY SizeType DEF IInv, Types
<1> DEFINE t == Len(size')
           pieces == IF size'[t] = 0 THEN <<<<>>>> ELSE [i \in 1..size'[t] |-> <<<<t, i>>>>]
           S == [mark |-> "start", of |-> t, size |-> size'[t], data |-> <<>>]
           D == [i \in DOMAIN pieces |-> [mark |-> "data", of |-> t, size |-> 0, data |-> pieces[i]]]
           E == End(t)
           q == toServer[c]
<1>1. PICK n \in Sizes : size' = Append(size, n)
  BY DEF sendClipboard
<1>2. /\ toServer' = [toServer EXCEPT ![c] = ((q \o <<S>>) \o D) \o <<E>>]
      /\ thread' = Append(thread, [pc |-> "none", sent |-> 0, to |-> "server"])
      /\ UNCHANGED <<events, buffer, toClient, rejected, interrupted, lost, accepted>>
      /\ Len(size) < MaxTransfers
  BY DEF sendClipboard, receiver, history
<1>3. /\ size' \in Seq(Sizes) /\ Len(size') = Len(size) + 1 /\ t \in 1..Len(size') /\ t \in Nat /\ size'[t] \in Nat
      /\ t \notin 1..Len(size)
  <2>1. size' \in Seq(Sizes) /\ Len(size') = Len(size) + 1
    BY <1>0, <1>1, SizeType
  <2>2. t \in 1..Len(size')
    BY <2>1, <1>0
  <2>3. size'[t] \in Nat
    BY <2>1, <2>2, SizeType
  <2> QED BY <2>1, <2>2, <2>3, <1>0
<1> HIDE DEF t
<1>4. /\ S \in Messages /\ IsMsg(S, size') /\ S.of = t /\ S.mark = "start" /\ ~Full(S)
  <2>1. S \in Messages
    BY <1>3 DEF Messages, Pieces
  <2> QED BY <2>1, <1>3 DEF IsMsg, Full
<1>5. E \in Messages /\ IsMsg(E, size') /\ E.of = t /\ E.mark = "end" /\ ~Full(E)
  BY <1>3, EndIs DEF IsMsg
<1>6. /\ D \in Seq(Messages) /\ InOrder(D)
      /\ \A m \in In(D) : IsMsg(m, size') /\ m.of = t /\ m.mark = "data"
      /\ \A k \in 1..size'[t] : Has(In(D), t, k)
  <2> DEFINE N == IF size'[t] = 0 THEN 1 ELSE size'[t]
             P(i) == IF size'[t] = 0 THEN <<>> ELSE <<<<t, i>>>>
  <2>1. N \in Nat /\ DOMAIN pieces = 1..N /\ \A i \in 1..N : pieces[i] = P(i)
    <3>1. CASE size'[t] = 0
      <4>1. pieces = <<<<>>>> /\ N = 1
        BY <3>1
      <4>2. DOMAIN <<<<>>>> = 1..1 /\ <<<<>>>>[1] = <<>>
        OBVIOUS
      <4>3. \A i \in 1..1 : i = 1
        OBVIOUS
      <4> QED BY <4>1, <4>2, <4>3, <3>1
    <3>2. CASE size'[t] # 0
      <4>1. pieces = [i \in 1..size'[t] |-> <<<<t, i>>>>] /\ N = size'[t]
        BY <3>2
      <4> QED BY <4>1, <3>2, <1>3
    <3> QED BY <3>1, <3>2
  <2>2. \A i \in 1..N : P(i) \in Pieces
    <3>1. ASSUME NEW i \in 1..N PROVE P(i) \in Pieces
      <4>1. i \in Nat /\ <<>> \in Pieces
        BY <2>1 DEF Pieces
      <4>2. <<<<t, i>>>> \in Pieces
        BY <4>1, <1>3 DEF Pieces
      <4> QED BY <4>1, <4>2
    <3> QED BY <3>1
  <2>6. /\ size'[t] = 0 => N = 1
        /\ size'[t] # 0 => N = size'[t]
        /\ \A i \in 1..N : P(i) = IF size'[t] = 0 THEN <<>> ELSE <<<<t, i>>>>
    OBVIOUS
  <2> HIDE DEF pieces, N, P
  <2>3. \A i \in 1..N : D[i] = [mark |-> "data", of |-> t, size |-> 0, data |-> P(i)]
    BY <2>1
  <2>4. D \in [1..N -> Messages]
    <3>1. \A i \in 1..N : [mark |-> "data", of |-> t, size |-> 0, data |-> pieces[i]] \in Messages
      BY <2>1, <2>2, <1>3 DEF Messages
    <3> QED BY <3>1, <2>1
  <2> HIDE DEF D
  <2>5. ASSUME NEW i \in 1..N PROVE D[i].mark = "data" /\ D[i].of = t /\ D[i].data = P(i)
    <3>1. D[i] = [mark |-> "data", of |-> t, size |-> 0, data |-> P(i)]
      BY <2>3
    <3>2. ASSUME NEW x, NEW y, y = [mark |-> "data", of |-> t, size |-> 0, data |-> x]
          PROVE  y.mark = "data" /\ y.of = t /\ y.data = x
      BY <3>2
    <3> QED BY <3>1, <3>2
  <2>7. \A i \in 1..N : D[i].data = IF size'[t] = 0 THEN <<>> ELSE <<<<t, i>>>>
    BY <2>5, <2>6
  <2>8. \A i \in 1..N : D[i].mark = "data" /\ D[i].of = t
    BY <2>5
  <2>9. /\ D \in Seq(Messages) /\ InOrder(D)
        /\ \A m \in In(D) : IsMsg(m, size') /\ m.of = t /\ m.mark = "data"
        /\ \A k \in 1..size'[t] : Has(In(D), t, k)
    BY <2>1, <2>4, <2>6, <2>7, <2>8, <1>3, ClipboardData
  <2> QED BY <2>9
<1> HIDE DEF S, D, E, q
<1>7. q \in Seq(Messages) /\ InOrder(q) /\ \A m \in In(q) : m.of # t
  BY <1>0, <1>3 DEF Lines, IsMsg, q
<1>8. /\ q \o <<S>> \in Seq(Messages) /\ In(q \o <<S>>) = In(q) \cup {S} /\ InOrder(q \o <<S>>)
  <2> DEFINE o == <<S>>
  <2>1. o \in Seq(Messages) /\ In(o) = {S} /\ InOrder(o)
    BY <1>4, InOne
  <2> HIDE DEF o
  <2>2. Follows(q, o)
    BY <2>1, <1>4, <1>7 DEF Follows, Less
  <2>3. q \o o \in Seq(Messages) /\ In(q \o o) = In(q) \cup {S} /\ InOrder(q \o o)
    BY <2>1, <2>2, <1>7, InConcat
  <2> QED BY <2>3 DEF o
<1> DEFINE w == q \o <<S>>
<1> HIDE DEF w
<1>9. w \o D \in Seq(Messages) /\ In(w \o D) = In(w) \cup In(D) /\ InOrder(w \o D)
  <2>1. w \in Seq(Messages) /\ In(w) = In(q) \cup {S} /\ InOrder(w)
    BY <1>8 DEF w
  <2>2. Follows(w, D)
    BY <2>1, <1>4, <1>6, <1>7 DEF Follows, Less
  <2> QED BY <2>1, <2>2, <1>6, InConcat
<1> DEFINE z == w \o D
<1> HIDE DEF z
<1>10. z \o <<E>> \in Seq(Messages) /\ In(z \o <<E>>) = In(z) \cup {E} /\ InOrder(z \o <<E>>)
  <2> DEFINE o == <<E>>
  <2>1. o \in Seq(Messages) /\ In(o) = {E} /\ InOrder(o)
    BY <1>5, InOne
  <2> HIDE DEF o
  <2>2. z \in Seq(Messages) /\ In(z) = In(q) \cup {S} \cup In(D) /\ InOrder(z)
    BY <1>8, <1>9 DEF z, w
  <2>3. Follows(z, o)
    BY <2>1, <2>2, <1>4, <1>5, <1>6, <1>7 DEF Follows, Less
  <2>4. z \o o \in Seq(Messages) /\ In(z \o o) = In(z) \cup {E} /\ InOrder(z \o o)
    BY <2>1, <2>2, <2>3, InConcat
  <2> QED BY <2>4 DEF o
<1>11. toServer' = [toServer EXCEPT ![c] = z \o <<E>>]
  BY <1>2 DEF z, w
<1>12. /\ toServer'[c] = z \o <<E>> /\ In(toServer'[c]) = In(q) \cup {S} \cup In(D) \cup {E}
       /\ toServer' \in [Clients -> Seq(Messages)] /\ \A d \in Clients : d # c => toServer'[d] = toServer[d]
  <2>1. toServer'[c] = z \o <<E>> /\ toServer' \in [Clients -> Seq(Messages)] /\ \A d \in Clients : d # c => toServer'[d] = toServer[d]
    BY <1>0, <1>10, <1>11
  <2>2. In(z) = In(q) \cup {S} \cup In(D)
    BY <1>8, <1>9 DEF z, w
  <2> QED BY <2>1, <2>2, <1>10
<1>13. \A k \in 1..size'[t] : Has(In(toServer'[c]), t, k)
  BY <1>6, <1>12 DEF Has
<1>14. \A m \in In(toServer'[c]) : m \in In(q) \/ (IsMsg(m, size') /\ m.of = t /\ m.mark # "drag")
  BY <1>4, <1>5, <1>6, <1>12
<1>15. InOrder(toServer'[c]) /\ In(q) \subseteq In(toServer'[c])
  BY <1>10, <1>12
<1> QED BY <1>1, <1>2, <1>3, <1>12, <1>13, <1>14, <1>15 DEF t, q

LEMMA SendClipboardInv == ASSUME IInv, NEW c \in Clients, sendClipboard(c) PROVE IInv'
<1>0. /\ Types /\ Lines /\ Filled /\ Kept /\ Len(size) \in Nat /\ Len(thread) = Len(size)
  BY SizeType DEF IInv, Types
<1> DEFINE x == [pc |-> "none", sent |-> 0, to |-> "server"]
           t == Len(size')
<1>1. x \in Threads /\ x.pc \in {"idle", "none"}
  BY DEF Threads, Pcs
<1> HIDE DEF x
<1>2. /\ UNCHANGED <<events, buffer, toClient, rejected, interrupted, lost, accepted>>
      /\ \E n \in Sizes : size' = Append(size, n)
      /\ thread' = Append(thread, x) /\ Len(size) < MaxTransfers
      /\ \A d \in Clients : d # c => toServer'[d] = toServer[d]
      /\ toServer' \in [Clients -> Seq(Messages)] /\ InOrder(toServer'[c])
      /\ \A m \in In(toServer'[c]) :
            m \in In(toServer[c]) \/ (IsMsg(m, size') /\ m.of = t /\ m.mark # "drag")
  BY SendClipboardStep DEF x
<1>3. PICK n \in Sizes : size' = Append(size, n)
  BY <1>2
<1>4. /\ size' \in Seq(Sizes) /\ Len(size') = Len(size) + 1
      /\ thread' \in Seq(Threads) /\ Len(thread') = Len(thread) + 1
      /\ \A u \in 1..Len(size) : size'[u] = size[u] /\ thread'[u] = thread[u] /\ u \in 1..Len(size')
      /\ \A k : IsMsg(k, size) => IsMsg(k, size') /\ thread'[k.of] = thread[k.of] /\ k.of # Len(size')
      /\ \A r \in Receivers : /\ Increasing(buffer'[r], size') /\ (buffer'[r].ended => Agrees(buffer'[r]))
                              /\ buffer'[r].opened \in 0..Len(size') /\ buffer[r].opened # Len(size')
      /\ \A d \in Clients : FileBuffer(buffer[d])' /\ Unread(buffer'[d], events')
      /\ \A k \in In(events') : IsMsg(k, size') /\ Posted(k, thread'[k.of]) /\ k.mark # "drag"
      /\ InOrder(events') /\ Kept'
  BY <1>1, <1>2, <1>3, NewTransfer
<1> HIDE DEF t
<1>5. Types'
  <2>3. m_dragging' \in 0..Len(size') /\ m_sendFileThread' \in 0..Len(size')
    BY <1>0, <1>4 DEF sendClipboard, server, Types
  <2>1. m_dragging' # 0 => thread'[m_dragging'].pc = "idle"
    BY <1>0, <1>4 DEF sendClipboard, server, Types
  <2>4. m_dragFileList' \in [Clients -> 0..Len(size')] /\ interrupted' \subseteq 1..Len(size') /\ lost' \subseteq 1..Len(size')
    <3>1. /\ m_dragFileList' = m_dragFileList /\ m_dragFileList \in [Clients -> 0..Len(size)]
          /\ interrupted \subseteq 1..Len(size) /\ lost \subseteq 1..Len(size)
      BY <1>0 DEF sendClipboard, Types, receiver
    <3> QED BY <3>1, <1>0, <1>2, <1>4
  <2>5. Len(size') <= MaxTransfers /\ Len(thread') = Len(size')
    BY <1>0, <1>2, <1>4, Constants
  <2> QED BY <2>1, <2>3, <2>4, <2>5, <1>0, <1>2, <1>4 DEF Types, sendClipboard, server, receiver
<1>6. \A d \in Clients : \A k \in In(toServer[d]) : IsMsg(k, size') /\ k.mark # "drag" /\ k.of # t
  BY <1>0, <1>4 DEF Lines, t
<1>7. ASSUME NEW d \in Clients
      PROVE  /\ \A k \in In(toClient'[d]) : IsMsg(k, size') /\ Posted(k, thread'[k.of])
             /\ InOrder(toClient'[d]) /\ Follows(toClient'[d], events')
             /\ Unread(buffer[d], toClient'[d])
  <2>1. /\ \A k \in In(toClient[d]) : IsMsg(k, size) /\ Posted(k, thread[k.of])
        /\ InOrder(toClient[d]) /\ Follows(toClient[d], events) /\ Unread(buffer[d], toClient[d])
    BY <1>0 DEF Lines, Filled
  <2>2. events' = events /\ toClient' = toClient
    BY <1>2
  <2> QED BY <2>1, <2>2, <1>4
<1>8. ASSUME NEW d \in Clients
      PROVE  /\ \A k \in In(toServer'[d]) : IsMsg(k, size') /\ k.mark # "drag" /\ (k \in In(toServer[d]) \/ (d = c /\ k.of = t))
             /\ InOrder(toServer'[d])
  <2>1. CASE d # c
    <3>1. toServer'[d] = toServer[d] /\ InOrder(toServer[d])
      BY <2>1, <1>0, <1>2 DEF Lines
    <3> QED BY <3>1, <1>6
  <2>2. CASE d = c
    BY <2>2, <1>2, <1>6
  <2> QED BY <2>1, <2>2
<1>9. ASSUME NEW d \in Clients, NEW e \in Clients \ {d}, NEW k \in In(toServer'[d]), NEW l \in In(toServer'[e])
      PROVE  k.of # l.of
  <2>1. CASE k \in In(toServer[d]) /\ l \in In(toServer[e])
    BY <2>1, <1>0 DEF Lines
  <2>2. CASE k \notin In(toServer[d])
    <3>1. k.of = t /\ e # c
      BY <2>2, <1>8
    <3>2. l \in In(toServer[e])
      BY <3>1, <1>8
    <3> QED BY <3>1, <3>2, <1>6
  <2>3. CASE l \notin In(toServer[e])
    <3>1. l.of = t /\ d # c
      BY <2>3, <1>8
    <3>2. k \in In(toServer[d])
      BY <3>1, <1>8
    <3> QED BY <3>1, <3>2, <1>6
  <2> QED BY <2>1, <2>2, <2>3
<1>10. Lines'
  <2>1. /\ \A k \in In(events') : IsMsg(k, size') /\ Posted(k, thread'[k.of]) /\ k.mark # "drag"
        /\ InOrder(events')
    BY <1>4
  <2> QED BY <2>1, <1>7, <1>8, <1>9 DEF Lines
<1>11. ASSUME NEW d \in Clients PROVE Unread(buffer["server"], toServer'[d])
  <2>1. Unread(buffer["server"], toServer[d]) /\ buffer["server"].opened # t
    BY <1>0, <1>4 DEF Filled, Receivers, t
  <2> QED BY <2>1, <1>8 DEF Unread, Behind
<1>12. Filled'
  BY <1>2, <1>4, <1>7, <1>11 DEF Filled
<1> QED BY <1>4, <1>5, <1>10, <1>12 DEF IInv

\* A client takes the first message that is under way to it.
LEMMA FileReceivedStep ==
    ASSUME IInv, NEW c \in Clients, fileReceived(c)
    PROVE  LET m == Head(toClient[c])
               b == assemble(c, m)
           IN  /\ m \in Messages /\ IsMsg(m, size) /\ Posted(m, thread[m.of]) /\ Behind(buffer[c], m)
               /\ toClient' \in [Clients -> Seq(Messages)]
               /\ In(toClient[c]) = {m} \cup In(toClient'[c]) /\ InOrder(toClient'[c])
               /\ \A n \in In(toClient'[c]) \cup In(events) : Less(m, n)
               /\ \A d \in Clients : d # c => toClient'[d] = toClient[d]
               /\ UNCHANGED <<size, thread, events, toServer, accepted, interrupted, lost>>
               /\ buffer' \in [Receivers -> Buffers] /\ \A r \in Receivers : r # c => buffer'[r] = buffer[r]
               /\ m.mark = "drag" => buffer' = buffer
               /\ m.mark # "drag" => buffer'[c] = b
               /\ Increasing(buffer'[c], size) /\ buffer'[c].opened \in 0..Len(size)
               /\ buffer'[c].ended => Agrees(buffer'[c])
               /\ FileBuffer(buffer'[c])
               /\ \A n : IsMsg(n, size) /\ Less(m, n) /\ Behind(buffer[c], n) => Behind(buffer'[c], n)
               /\ rejected' = IF m.mark = "end" /\ ~Agrees(b) THEN rejected \cup {Note(c, b, m.of)} ELSE rejected
<1>0. /\ Types /\ Lines /\ Filled /\ Kept /\ size \in Seq(Sizes)
      /\ toClient \in [Clients -> Seq(Messages)] /\ toClient[c] \in Seq(Messages)
      /\ buffer \in [Receivers -> Buffers] /\ c \in Receivers
  BY DEF IInv, Types, Receivers
<1> DEFINE m == Head(toClient[c])
           b == assemble(c, m)
<1>1. /\ toClient[c] # <<>> /\ toClient' = [toClient EXCEPT ![c] = Tail(@)]
      /\ m.mark = "drag" => buffer' = buffer
      /\ m.mark # "drag" => buffer' = [buffer EXCEPT ![c] = b]
      /\ UNCHANGED <<size, thread, events, toServer, accepted, interrupted, lost>>
      /\ rejected' = IF m.mark = "end" /\ ~Agrees(b) THEN rejected \cup {Note(c, b, m.of)} ELSE rejected
  BY DEF fileReceived, sender
<1>2. /\ m \in Messages /\ Tail(toClient[c]) \in Seq(Messages) /\ InOrder(Tail(toClient[c]))
      /\ In(toClient[c]) = {m} \cup In(Tail(toClient[c])) /\ \A n \in In(Tail(toClient[c])) : Less(m, n)
  <2>1. InOrder(toClient[c])
    BY <1>0 DEF Lines
  <2> QED BY <2>1, <1>0, <1>1, InTail
<1>3. /\ toClient' \in [Clients -> Seq(Messages)] /\ toClient'[c] = Tail(toClient[c])
      /\ \A d \in Clients : d # c => toClient'[d] = toClient[d]
  BY <1>0, <1>1, <1>2
<1>4. IsMsg(m, size) /\ Posted(m, thread[m.of]) /\ Behind(buffer[c], m) /\ \A n \in In(events) : Less(m, n)
  BY <1>0, <1>2 DEF Lines, Filled, Unread, Follows
<1> HIDE DEF m
<1>5. buffer[c] \in Buffers /\ Increasing(buffer[c], size) /\ buffer[c].opened \in 0..Len(size) /\ FileBuffer(buffer[c])
      /\ (buffer[c].ended => Agrees(buffer[c]))
  BY <1>0 DEF Filled
<1>6. CASE m.mark = "drag"
  BY <1>0, <1>1, <1>2, <1>3, <1>4, <1>5, <1>6 DEF m
<1>7. CASE m.mark # "drag"
  <2>1. /\ b \in Buffers /\ Increasing(b, size) /\ b.opened \in 0..Len(size)
        /\ b.ended => Agrees(b)
        /\ \A n : IsMsg(n, size) /\ Less(m, n) /\ Behind(buffer[c], n) => Behind(b, n)
        /\ FileBuffer(b)
    BY <1>0, <1>4, <1>5, <1>7, AssembleKeeps
  <2> HIDE DEF b
  <2>2. buffer' \in [Receivers -> Buffers] /\ buffer'[c] = b /\ \A r \in Receivers : r # c => buffer'[r] = buffer[r]
    BY <2>1, <1>0, <1>1, <1>7
  <2> QED BY <2>1, <2>2, <1>0, <1>1, <1>2, <1>3, <1>4, <1>7 DEF m, b
<1> QED BY <1>6, <1>7

LEMMA FileReceivedInv == ASSUME IInv, NEW c \in Clients, fileReceived(c) PROVE IInv'
<1>0. /\ Types /\ Lines /\ Filled /\ Kept /\ size \in Seq(Sizes) /\ c \in Receivers /\ c # "server" /\ "server" \in Receivers
  BY Constants DEF IInv, Types, Receivers
<1> DEFINE m == Head(toClient[c])
<1>1. /\ m \in Messages /\ IsMsg(m, size)
      /\ toClient' \in [Clients -> Seq(Messages)]
      /\ In(toClient[c]) = {m} \cup In(toClient'[c]) /\ InOrder(toClient'[c])
      /\ \A n \in In(toClient'[c]) \cup In(events) : Less(m, n)
      /\ \A d \in Clients : d # c => toClient'[d] = toClient[d]
      /\ UNCHANGED <<size, thread, events, toServer, accepted, interrupted, lost>>
      /\ buffer' \in [Receivers -> Buffers] /\ \A r \in Receivers : r # c => buffer'[r] = buffer[r]
      /\ Increasing(buffer'[c], size) /\ buffer'[c].opened \in 0..Len(size)
      /\ buffer'[c].ended => Agrees(buffer'[c])
      /\ FileBuffer(buffer'[c])
      /\ \A n : IsMsg(n, size) /\ Less(m, n) /\ Behind(buffer[c], n) => Behind(buffer'[c], n)
  BY FileReceivedStep
<1>2. m_dragFileList' \in [Clients -> 0..Len(size)]
  <2>1. m.of \in 0..Len(size) /\ m_dragFileList \in [Clients -> 0..Len(size)]
    BY <1>0, <1>1, SizeType DEF IsMsg, Types
  <2>2. m_dragFileList' = [m_dragFileList EXCEPT ![c] = m.of] \/ m_dragFileList' = m_dragFileList
    BY DEF fileReceived
  <2> QED BY <2>1, <2>2
<1> HIDE DEF m
<1>3. Types'
  BY <1>0, <1>1, <1>2 DEF Types, fileReceived, server, sender
<1>4. ASSUME NEW d \in Clients
      PROVE  /\ \A k \in In(toClient'[d]) : IsMsg(k, size) /\ Posted(k, thread[k.of])
             /\ InOrder(toClient'[d]) /\ Follows(toClient'[d], events)
  BY <1>0, <1>1 DEF Lines, Follows
<1>5. Lines'
  BY <1>0, <1>1, <1>4 DEF Lines
<1>6. ASSUME NEW d \in Clients
      PROVE  /\ FileBuffer(buffer[d])' /\ Unread(buffer'[d], toClient'[d]) /\ Unread(buffer'[d], events)
  <2>1. CASE d # c
    <3>1. d \in Receivers /\ FileBuffer(buffer[d]) /\ Unread(buffer[d], toClient[d]) /\ Unread(buffer[d], events)
      BY <1>0 DEF Filled, Receivers
    <3>2. buffer'[d] = buffer[d] /\ toClient'[d] = toClient[d]
      BY <2>1, <3>1, <1>1
    <3> QED BY <3>1, <3>2, <1>1 DEF FileBuffer
  <2>2. CASE d = c
    <3>1. \A k \in In(toClient'[c]) \cup In(events) : IsMsg(k, size) /\ Less(m, k) /\ Behind(buffer[c], k)
      <4>1. \A k \in In(toClient[c]) \cup In(events) : IsMsg(k, size)
        BY <1>0 DEF Lines
      <4>2. \A k \in In(toClient[c]) \cup In(events) : Behind(buffer[c], k)
        BY <1>0 DEF Filled, Unread
      <4> QED BY <4>1, <4>2, <1>1
    <3>2. \A k \in In(toClient'[c]) \cup In(events) : Behind(buffer'[c], k)
      BY <3>1, <1>1
    <3>3. FileBuffer(buffer[c])'
      BY <1>1 DEF FileBuffer
    <3> QED BY <3>2, <3>3, <2>2 DEF Unread
  <2> QED BY <2>1, <2>2
<1>7. ASSUME NEW r \in Receivers
      PROVE  Increasing(buffer'[r], size) /\ (buffer'[r].ended => Agrees(buffer'[r])) /\ buffer'[r].opened \in 0..Len(size)
  <2>1. CASE r = c
    BY <2>1, <1>1
  <2>2. CASE r # c
    <3>1. buffer'[r] = buffer[r]
      BY <2>2, <1>1
    <3> QED BY <3>1, <1>0 DEF Filled
  <2> QED BY <2>1, <2>2
<1>8. ASSUME NEW d \in Clients PROVE Unread(buffer'["server"], toServer'[d])
  <2>1. buffer'["server"] = buffer["server"] /\ toServer' = toServer
    BY <1>0, <1>1
  <2> QED BY <2>1, <1>0 DEF Filled
<1>9. Filled'
  BY <1>1, <1>6, <1>7, <1>8 DEF Filled
<1> QED BY <1>0, <1>1, <1>3, <1>5, <1>9, KeptSame DEF IInv

\* The server takes the first message that is under way from a client.
LEMMA RecvClipboardStep ==
    ASSUME IInv, NEW c \in Clients, recvClipboard(c)
    PROVE  LET m == Head(toServer[c])
               b == assemble("server", m)
           IN  /\ m \in Messages /\ IsMsg(m, size) /\ m.mark # "drag" /\ Behind(buffer["server"], m)
               /\ toServer' \in [Clients -> Seq(Messages)]
               /\ In(toServer[c]) = {m} \cup In(toServer'[c]) /\ InOrder(toServer'[c])
               /\ \A n \in In(toServer'[c]) : Less(m, n)
               /\ \A d \in Clients : d # c => toServer'[d] = toServer[d]
               /\ UNCHANGED <<size, thread, events, toClient, interrupted, lost>>
               /\ buffer' \in [Receivers -> Buffers] /\ \A d \in Clients : buffer'[d] = buffer[d]
               /\ buffer'["server"] = b /\ b \in Buffers
               /\ Increasing(b, size) /\ b.opened \in 0..Len(size)
               /\ b.ended => Agrees(b)
               /\ \A n : IsMsg(n, size) /\ Less(m, n) /\ Behind(buffer["server"], n) => Behind(b, n)
               /\ accepted' = IF m.mark = "end" /\ Agrees(b) THEN accepted \cup {Note("server", b, m.of)} ELSE accepted
               /\ rejected' = IF m.mark = "end" /\ ~Agrees(b) THEN rejected \cup {Note("server", b, m.of)} ELSE rejected
<1>0. /\ Types /\ Lines /\ Filled /\ size \in Seq(Sizes)
      /\ toServer \in [Clients -> Seq(Messages)] /\ toServer[c] \in Seq(Messages)
      /\ buffer \in [Receivers -> Buffers] /\ "server" \in Receivers /\ "server" \notin Clients
      /\ \A d \in Clients : d \in Receivers /\ d # "server"
  BY Constants DEF IInv, Types, Receivers
<1> DEFINE m == Head(toServer[c])
           b == assemble("server", m)
<1>1. /\ toServer[c] # <<>> /\ toServer' = [toServer EXCEPT ![c] = Tail(@)]
      /\ buffer' = [buffer EXCEPT !["server"] = b]
      /\ UNCHANGED <<size, thread, events, toClient, interrupted, lost>>
      /\ accepted' = IF m.mark = "end" /\ Agrees(b) THEN accepted \cup {Note("server", b, m.of)} ELSE accepted
      /\ rejected' = IF m.mark = "end" /\ ~Agrees(b) THEN rejected \cup {Note("server", b, m.of)} ELSE rejected
  BY DEF recvClipboard, sender
<1>2. /\ m \in Messages /\ Tail(toServer[c]) \in Seq(Messages) /\ InOrder(Tail(toServer[c]))
      /\ In(toServer[c]) = {m} \cup In(Tail(toServer[c])) /\ \A n \in In(Tail(toServer[c])) : Less(m, n)
  <2>1. InOrder(toServer[c])
    BY <1>0 DEF Lines
  <2> QED BY <2>1, <1>0, <1>1, InTail
<1>3. /\ toServer' \in [Clients -> Seq(Messages)] /\ toServer'[c] = Tail(toServer[c])
      /\ \A d \in Clients : d # c => toServer'[d] = toServer[d]
  BY <1>0, <1>1, <1>2
<1>4. IsMsg(m, size) /\ m.mark # "drag" /\ Behind(buffer["server"], m)
  BY <1>0, <1>2 DEF Lines, Filled, Unread
<1> HIDE DEF m
<1>5. buffer["server"] \in Buffers /\ Increasing(buffer["server"], size) /\ buffer["server"].opened \in 0..Len(size)
  BY <1>0 DEF Filled
<1>6. /\ b \in Buffers /\ Increasing(b, size) /\ b.opened \in 0..Len(size)
      /\ b.ended => Agrees(b)
      /\ \A n : IsMsg(n, size) /\ Less(m, n) /\ Behind(buffer["server"], n) => Behind(b, n)
  BY <1>0, <1>4, <1>5, AssembleKeeps
<1> HIDE DEF b
<1>7. buffer' \in [Receivers -> Buffers] /\ buffer'["server"] = b /\ \A d \in Clients : buffer'[d] = buffer[d]
  BY <1>0, <1>1, <1>6
<1> QED BY <1>1, <1>2, <1>3, <1>4, <1>6, <1>7 DEF m, b

LEMMA RecvClipboardInv == ASSUME IInv, NEW c \in Clients, recvClipboard(c) PROVE IInv'
<1>0. /\ Types /\ Lines /\ Filled /\ Kept /\ size \in Seq(Sizes)
      /\ \A d \in Clients : d \in Receivers /\ d # "server"
  BY Constants DEF IInv, Types, Receivers
<1> DEFINE m == Head(toServer[c])
           b == assemble("server", m)
<1>1. /\ IsMsg(m, size) /\ m.mark # "drag"
      /\ toServer' \in [Clients -> Seq(Messages)]
      /\ In(toServer[c]) = {m} \cup In(toServer'[c]) /\ InOrder(toServer'[c])
      /\ \A n \in In(toServer'[c]) : Less(m, n)
      /\ \A d \in Clients : d # c => toServer'[d] = toServer[d]
      /\ UNCHANGED <<size, thread, events, toClient, interrupted, lost>>
      /\ buffer' \in [Receivers -> Buffers] /\ \A d \in Clients : buffer'[d] = buffer[d]
      /\ buffer'["server"] = b /\ b \in Buffers
      /\ Increasing(b, size) /\ b.opened \in 0..Len(size)
      /\ b.ended => Agrees(b)
      /\ \A n : IsMsg(n, size) /\ Less(m, n) /\ Behind(buffer["server"], n) => Behind(b, n)
      /\ accepted' = IF m.mark = "end" /\ Agrees(b) THEN accepted \cup {Note("server", b, m.of)} ELSE accepted
  BY RecvClipboardStep
<1> HIDE DEF m, b
<1>2. Types'
  BY <1>0, <1>1 DEF Types, recvClipboard, server, sender
<1>3. ASSUME NEW d \in Clients PROVE In(toServer'[d]) \subseteq In(toServer[d]) /\ InOrder(toServer'[d])
  BY <1>0, <1>1 DEF Lines
<1>4. ASSUME NEW d \in Clients
      PROVE  /\ \A k \in In(toServer'[d]) : IsMsg(k, size) /\ k.mark # "drag"
             /\ \A e \in Clients \ {d} : \A k \in In(toServer'[d]), l \in In(toServer'[e]) : k.of # l.of
  <2>1. /\ \A k \in In(toServer[d]) : IsMsg(k, size) /\ k.mark # "drag"
        /\ \A e \in Clients \ {d} : \A k \in In(toServer[d]), l \in In(toServer[e]) : k.of # l.of
    BY <1>0 DEF Lines
  <2> QED BY <2>1, <1>3
<1>5. Lines'
  BY <1>0, <1>1, <1>3, <1>4 DEF Lines
<1>6. ASSUME NEW d \in Clients PROVE Unread(b, toServer'[d])
  <2>0. \A k \in In(toServer'[d]) : Behind(buffer["server"], k) /\ IsMsg(k, size)
    BY <1>0, <1>3, <1>4 DEF Filled, Unread
  <2>1. CASE d = c
    BY <2>0, <2>1, <1>1 DEF Unread
  <2>2. CASE d # c
    <3>1. \A k \in In(toServer'[d]) : k.of # m.of
      <4>1. m \in In(toServer[c]) /\ c \in Clients \ {d}
        BY <2>2, <1>1
      <4> QED BY <4>1, <1>0, <1>3 DEF Lines
    <3>2. \A k \in In(toServer'[d]) : Less(m, k)
      BY <3>1 DEF Less
    <3> QED BY <3>2, <2>0, <1>1 DEF Unread
  <2> QED BY <2>1, <2>2
<1>7. ASSUME NEW d \in Clients
      PROVE  FileBuffer(buffer[d])' /\ Unread(buffer'[d], toClient'[d]) /\ Unread(buffer'[d], events')
  <2>1. FileBuffer(buffer[d]) /\ Unread(buffer[d], toClient[d]) /\ Unread(buffer[d], events)
    BY <1>0 DEF Filled
  <2>2. buffer'[d] = buffer[d]
    BY <1>1
  <2> QED BY <2>1, <2>2, <1>1 DEF FileBuffer
<1>8. ASSUME NEW r \in Receivers
      PROVE  Increasing(buffer'[r], size) /\ (buffer'[r].ended => Agrees(buffer'[r])) /\ buffer'[r].opened \in 0..Len(size)
  <2>1. CASE r = "server"
    BY <2>1, <1>1
  <2>2. CASE r \in Clients
    BY <2>2, <1>0, <1>1 DEF Filled
  <2> QED BY <2>1, <2>2 DEF Receivers
<1>9. Filled'
  BY <1>1, <1>6, <1>7, <1>8 DEF Filled
<1>10. Kept'
  <2>1. SUFFICES ASSUME NEW n \in accepted', n.only, n.ended, n.of = n.opened
                 PROVE  n.of \in 1..Len(size) /\ n.data = Whole(n.of)
    BY <1>1 DEF Kept, Whole
  <2>2. CASE n \in accepted
    BY <2>1, <2>2, <1>0 DEF Kept
  <2>3. CASE n \notin accepted
    <3>1. n = Note("server", b, m.of)
      BY <2>1, <2>3, <1>1
    <3>2. n.only = b.only /\ n.ended = b.ended /\ n.opened = b.opened /\ n.data = b.data
      BY <3>1 DEF Note
    <3>3. Agrees(b) /\ b.only
      BY <3>2, <2>1, <1>1
    <3> QED BY <3>2, <3>3, <2>1, <1>0, <1>1, WholeBuffer
  <2> QED BY <2>2, <2>3
<1> QED BY <1>2, <1>5, <1>9, <1>10 DEF IInv

LEMMA InitInv == Init => IInv
<1>1. SUFFICES ASSUME Init PROVE IInv
  OBVIOUS
<1>2. PICK garbage \in Sizes :
        buffer = [r \in Receivers |-> [expected |-> IF r = "server" THEN 0 ELSE garbage,
                                       data |-> <<>>, opened |-> 0, only |-> FALSE, ended |-> FALSE]]
  BY <1>1 DEF Init, None
<1>3. ASSUME NEW r \in Receivers
      PROVE  buffer[r] \in Buffers /\ buffer[r].only = FALSE /\ buffer[r].ended = FALSE /\ buffer[r].opened = 0
  <2>1. garbage \in Nat
    BY Constants
  <2>2. <<>> \in Pieces
    BY DEF Pieces
  <2>3. buffer[r] = [expected |-> IF r = "server" THEN 0 ELSE garbage,
                     data |-> <<>>, opened |-> 0, only |-> FALSE, ended |-> FALSE]
    BY <1>2
  <2> QED BY <2>1, <2>2, <2>3 DEF Buffers
<1>4. buffer \in [Receivers -> Buffers]
  BY <1>2, <1>3
<1>5. /\ size = <<>> /\ thread = <<>> /\ events = <<>> /\ Len(size) = 0 /\ Len(thread) = 0
      /\ toClient \in [Clients -> Seq(Messages)] /\ toServer \in [Clients -> Seq(Messages)]
      /\ \A c \in Clients : toClient[c] = <<>> /\ toServer[c] = <<>>
  BY <1>1 DEF Init
<1>6. Types
  <2>1. size \in Seq(Sizes) /\ thread \in Seq(Threads) /\ events \in Seq(Messages) /\ Len(size) <= MaxTransfers
    BY <1>5, Constants
  <2>2. m_dragFileList \in [Clients -> 0..Len(size)]
    BY <1>1, <1>5 DEF Init, None
  <2>3. m_dragging = 0 /\ m_sendFileThread = 0 /\ 0 \in 0..Len(size)
    BY <1>1, <1>5 DEF Init, None
  <2>4. s_isChunkingFile \in BOOLEAN /\ s_interruptFile \in BOOLEAN /\ m_clients \subseteq Clients /\ m_active \in m_clients \cup {"primary"}
        /\ interrupted \subseteq 1..Len(size) /\ lost \subseteq 1..Len(size)
    BY <1>1 DEF Init
  <2> QED BY <2>1, <2>2, <2>3, <2>4, <1>4, <1>5 DEF Types
<1>7. InOrder(<<>>)
  BY DEF InOrder
<1>8. Lines
  BY <1>5, <1>7, InEmpty DEF Lines, Follows
<1>9. Filled
  <2>1. ASSUME NEW r \in Receivers
        PROVE  Increasing(buffer[r], size) /\ (buffer[r].ended => Agrees(buffer[r])) /\ buffer[r].opened \in 0..Len(size)
    <3>1. ~buffer[r].only /\ ~buffer[r].ended
      BY <1>3
    <3>2. Increasing(buffer[r], size)
      BY <3>1 DEF Increasing
    <3>3. buffer[r].opened = 0
      BY <1>3
    <3>4. buffer[r].opened \in 0..Len(size)
      BY <3>3, <1>5
    <3> QED BY <3>1, <3>2, <3>4
  <2>2. ASSUME NEW c \in Clients
        PROVE  /\ FileBuffer(buffer[c]) /\ Unread(buffer[c], toClient[c]) /\ Unread(buffer[c], events)
               /\ Unread(buffer["server"], toServer[c])
    <3>1. buffer[c].opened = 0
      BY <1>3 DEF Receivers
    <3> QED BY <3>1, <1>5, InEmpty DEF FileBuffer, Unread
  <2> QED BY <2>1, <2>2 DEF Filled
<1>10. Kept
  BY <1>1 DEF Init, Kept
<1> QED BY <1>6, <1>8, <1>9, <1>10 DEF IInv

LEMMA NextInv == ASSUME IInv, [Next]_vars PROVE IInv'
<1>1. ASSUME NEW t \in 1..Len(thread), sendFile(t) \/ sendFileLoop(t) \/ sendFileEnd(t) PROVE IInv'
  BY <1>1, SendFileInv, SendFileLoopInv, SendFileEndInv
<1>2. ASSUME \/ \E t \in 1..Len(thread) : threadExit(t)
             \/ onMouseUp
             \/ \E s \in Screens : switchScreen(s)
             \/ \E c \in Clients : reconnect(c) \/ onFileReceiveCompleted(c)
      PROVE  IInv'
  BY <1>2, QuietInv
<1>3. CASE on_file_chunk_sending
  BY <1>3, DispatchInv
<1>4. ASSUME NEW c \in Clients, dragTo(c) \/ sendClipboard(c) \/ disconnect(c) PROVE IInv'
  BY <1>4, DragToInv, SendClipboardInv, DisconnectInv
<1>5. ASSUME NEW c \in Clients, fileReceived(c) \/ write_to_drop_dir_thread(c) \/ recvClipboard(c) PROVE IInv'
  BY <1>5, FileReceivedInv, WriteInv, RecvClipboardInv
<1>6. CASE UNCHANGED vars
  <2>1. UNCHANGED <<size, m_active, m_clients, m_dragging, m_sendFileThread, s_isChunkingFile, s_interruptFile,
                    thread, events, toClient, toServer, buffer, m_dragFileList, accepted, interrupted, lost>>
    BY <1>6 DEF vars, server, sender, receiver, history
  <2>2. Types'
    BY <2>1 DEF IInv, Types
  <2>3. Lines' /\ Filled'
    BY <2>1, Still, PostStep DEF IInv
  <2>4. Kept'
    BY <2>1, KeptSame DEF IInv
  <2> QED BY <2>2, <2>3, <2>4 DEF IInv
<1> QED BY <1>1, <1>2, <1>3, <1>4, <1>5, <1>6 DEF Next

\* For any number of transfers of any size, clients and jumps: what is written or
\* stored is the whole transfer, unless chunks of two transfers met in a buffer
\* or something came after the end.  Whatever the two flags that the threads of
\* sendFile() share make of each other, no truncated file is taken for complete.
THEOREM WholeTransfers == Spec => []AcceptedIsWhole
<1>1. IInv => AcceptedIsWhole
  <2>1. ASSUME IInv PROVE TypeOK
    <3>1. Types
      BY <2>1 DEF IInv
    <3>2. \A c \in Clients : m_dragFileList[c] \in 0..Len(size)
      BY <3>1 DEF Types
    <3> QED BY <3>1, <3>2 DEF Types, TypeOK
  <2>2. ASSUME IInv PROVE \A n \in accepted : n.only /\ n.ended /\ n.of = n.opened => n.data = Whole(n.of)
    BY <2>2 DEF IInv, Kept
  <2> QED BY <2>1, <2>2 DEF AcceptedIsWhole
<1>2. IInv /\ [Next]_vars => IInv'
  BY NextInv
<1> QED BY <1>1, <1>2, InitInv, PTL DEF Spec

----------------------------------------------------------------------------
(* Nothing is missing of a transfer of which nothing was lost.              *)

\* Messages of other transfers, and those without a piece, do not matter.
LEMMA Irrelevant ==
    ASSUME NEW M, NEW P, NEW t,
           \A m \in M : m.of = t /\ m.mark # "drag" => m \in P,
           \A m \in P : m.of = t /\ m.mark # "drag" => m \in M
    PROVE  /\ Opens(M, t) <=> Opens(P, t)
           /\ \A k : Has(M, t, k) <=> Has(P, t, k)
           /\ \A b, n, s : Complete(b, M, t, n, s) <=> Complete(b, P, t, n, s)
<1>1. Opens(M, t) <=> Opens(P, t)
  BY DEF Opens
<1>2. \A k : Has(M, t, k) <=> Has(P, t, k)
  BY DEF Has, Full
<1> QED BY <1>1, <1>2 DEF Complete

\* A buffer and the messages under way for it.
Sound(r, m, M) ==
    /\ IsMsg(m, size) /\ m.mark # "drag" /\ buffer[r] \in Buffers /\ Increasing(buffer[r], size)
    /\ buffer[r].opened \in 0..Len(size) /\ Behind(buffer[r], m)
    /\ \A n \in M : IsMsg(n, size) /\ Less(m, n) /\ Behind(buffer[r], n)

\* If nothing of its transfer was lost, the piece that comes is the next one.
LEMMA NextPiece ==
    ASSUME size \in Seq(Sizes), NEW r, NEW m, NEW M, Sound(r, m, M), Full(m), NEW n \in Nat, Num(m) <= n,
           buffer[r].only, buffer[r].opened = m.of, Complete(buffer[r], M \cup {m}, m.of, n, size[m.of])
    PROVE  Num(m) = Len(buffer[r].data) + 1
<1> DEFINE b == buffer[r]
           t == m.of
           L == Len(b.data)
<1>0. /\ Num(m) \in 1..size[t] /\ Num(m) \in Nat /\ t \in 1..Len(size) /\ m.mark = "data"
      /\ size[t] \in Nat /\ L \in Nat /\ b.opened = t /\ b.only
  <2>1. Num(m) \in 1..size[t] /\ Num(m) \in Nat /\ t \in 1..Len(size)
    BY FullMessage DEF Sound
  <2>2. size[t] \in Nat
    BY <2>1, SizeType
  <2>3. b.data \in Seq(Nat \X Nat)
    BY DEF Sound, Buffers, Pieces
  <2> QED BY <2>1, <2>2, <2>3 DEF Full
<1>1. L < Num(m)
  <2>1. CASE L = 0
    BY <2>1, <1>0
  <2>2. CASE L # 0
    <3>1. L \in 1..L
      BY <2>2, <1>0
    <3>2. b.data[L][2] < Num(m)
      BY <3>1 DEF Sound, Behind
    <3>3. b.data[L][2] \in 1..size[t] /\ L <= b.data[L][2]
      BY <3>1, <1>0 DEF Sound, Increasing
    <3>4. ASSUME NEW x \in Int, x < Num(m), L <= x PROVE L < Num(m)
      BY <3>4, <1>0
    <3> QED BY <3>2, <3>3, <3>4
  <2> QED BY <2>1, <2>2
<1>2. ASSUME L + 1 < Num(m) PROVE FALSE
  <2>1. L + 1 \in 1..n /\ L + 1 <= size[t] /\ L + 1 \notin 1..L
    <3>1. Num(m) \in 1..size[t] /\ Num(m) \in Nat /\ size[t] \in Nat /\ L \in Nat /\ Num(m) <= n
      BY <1>0
    <3>2. ASSUME NEW x \in Nat, NEW y \in Nat, NEW l \in Nat, x \in 1..y, x <= n, l + 1 < x
          PROVE  l + 1 \in 1..n /\ l + 1 <= y /\ l + 1 \notin 1..l
      BY <3>2
    <3> HIDE DEF L, t
    <3> QED BY <3>1, <3>2, <1>2
  <2>2. Has(M \cup {m}, t, L + 1)
    BY <2>1, <1>0 DEF Complete
  <2>3. PICK k \in M \cup {m} : Full(k) /\ k.of = t /\ Num(k) = L + 1
    BY <2>2 DEF Has
  <2>4. k # m
    BY <2>3, <1>0, <1>2
  <2>5. Less(m, k) /\ k.mark = "data"
    BY <2>3, <2>4 DEF Sound, Full
  <2>6. Num(m) < Num(k)
    BY <2>3, <2>5, <1>0 DEF Less
  <2> QED BY <2>3, <2>6, <1>0, <1>2
<1> QED BY <1>0, <1>1, <1>2

\* What assemble() makes of the transfer that the message belongs to.
LEMMA AssembleWhere ==
    ASSUME size \in Seq(Sizes), NEW r, NEW m, NEW M, Sound(r, m, M), NEW n \in Nat,
           Full(m) => Num(m) <= n, Dense(buffer[r], lost),
           m.of \notin lost => Complete(buffer[r], M \cup {m}, m.of, n, size[m.of])
    PROVE  LET b == assemble(r, m)
           IN  /\ Dense(b, lost)
               /\ m.of \notin lost => Complete(b, M, m.of, n, size[m.of])
               /\ m.of \notin lost /\ m.mark = "end" /\ size[m.of] <= n /\ b.only /\ b.opened = m.of => Agrees(b)
<1> DEFINE a == buffer[r]
           b == assemble(r, m)
           t == m.of
<1>0. /\ IsMsg(m, size) /\ m \in Messages /\ t \in 1..Len(size) /\ size[t] \in Nat /\ m.data \in Pieces
      /\ a \in Buffers /\ a.data \in Pieces /\ Len(a.data) \in Nat /\ Behind(a, m) /\ Increasing(a, size)
      /\ m.mark \in {"start", "data", "end"}
  <2>1. IsMsg(m, size) /\ m \in Messages /\ t \in 1..Len(size) /\ a \in Buffers /\ Behind(a, m) /\ m.mark # "drag" /\ Increasing(a, size)
    BY DEF Sound, IsMsg
  <2>2. size[t] \in Nat
    BY <2>1, SizeType
  <2> QED BY <2>1, <2>2 DEF Messages, Buffers, Pieces
<1>1. \A k \in M : k.of = t /\ k.mark # "drag" => k.mark # "start" /\ m.mark # "end"
  BY DEF Sound, Less
<1>2. ~Opens(M, t)
  BY <1>1 DEF Opens
<1>3. CASE m.mark = "start"
  <2>1. b = [expected |-> m.size, data |-> <<>>, opened |-> m.of, only |-> TRUE, ended |-> FALSE]
    BY <1>3, AssembleStart
  <2>2. Len(b.data) = 0 /\ b.opened = t
    BY <2>1
  <2>3. Dense(b, lost)
    BY <2>2 DEF Dense
  <2>4. ASSUME t \notin lost PROVE Complete(b, M, t, n, size[t])
    <3>1. Opens(M \cup {m}, t) /\ a.opened # t /\ ~Full(m)
      BY <1>0, <1>3 DEF Opens, Behind, Full
    <3>2. \A k \in 1..n : k <= size[t] => Has(M \cup {m}, t, k)
      BY <2>4, <3>1 DEF Complete
    <3>3. \A k : Has(M \cup {m}, t, k) => Has(M, t, k)
      BY <3>1 DEF Has
    <3> QED BY <3>2, <3>3 DEF Complete
  <2> QED BY <2>3, <2>4, <1>3
<1>4. CASE m.mark = "data"
  <2>1. /\ b.opened = a.opened /\ b.only = (a.only /\ a.opened = t) /\ b.data = a.data \o m.data
    BY <1>0, <1>4, DataBuffer
  <2> HIDE DEF b
  <2>2. SUFFICES ASSUME b.only, b.opened \notin lost
                 PROVE  /\ \A i \in 1..Len(b.data) : b.data[i][2] = i
                        /\ Complete(b, M, t, n, size[t])
    <3>1. ASSUME ~b.only \/ b.opened \in lost PROVE Dense(b, lost) /\ (t \notin lost => Complete(b, M, t, n, size[t]))
      BY <3>1, <1>2 DEF Dense, Complete
    <3> QED BY <3>1, <1>4 DEF Dense, b
  <2>3. a.only /\ a.opened = t /\ t \notin lost /\ b.opened = t
    BY <2>1, <2>2
  <2>4. Complete(a, M \cup {m}, t, n, size[t]) /\ \A i \in 1..Len(a.data) : a.data[i][2] = i
    BY <2>3 DEF Dense
  <2>5. \A k \in 1..n : k <= size[t] => Has(M \cup {m}, t, k) \/ k \in 1..Len(a.data)
    BY <2>3, <2>4 DEF Complete
  <2>6. CASE ~Full(m)
    <3>1. b.data = a.data
      <4>1. m.data = <<>> /\ a.data \in Seq(Nat \X Nat)
        BY <2>6, <1>0, <1>4 DEF Full, Pieces
      <4>2. a.data \o <<>> = a.data
        BY <4>1
      <4> QED BY <4>1, <4>2, <2>1
    <3>2. \A k : Has(M \cup {m}, t, k) => Has(M, t, k)
      BY <2>6 DEF Has
    <3> QED BY <3>1, <3>2, <2>3, <2>4, <2>5 DEF Complete
  <2>7. CASE Full(m)
    <3>1. Num(m) \in Nat /\ m.data = <<<<t, Num(m)>>>> /\ t \in Nat
      BY <2>7, <1>0, FullMessage
    <3>2. Num(m) = Len(a.data) + 1
      BY <2>3, <2>4, <2>7, NextPiece
    <3>3. /\ Len(b.data) = Len(a.data) + 1 /\ b.data[Len(a.data) + 1] = <<t, Num(m)>>
          /\ \A i \in 1..Len(a.data) : b.data[i] = a.data[i]
      BY <3>1, <2>1, <1>0, PieceMore
    <3>4. ASSUME NEW i \in 1..Len(b.data) PROVE b.data[i][2] = i
      <4>1. CASE i = Len(a.data) + 1
        BY <4>1, <3>2, <3>3
      <4>2. CASE i # Len(a.data) + 1
        <5>1. i \in 1..Len(a.data)
          BY <4>2, <3>3, <1>0
        <5> QED BY <5>1, <3>3, <2>4
      <4> QED BY <4>1, <4>2
    <3>5. ASSUME NEW k \in 1..n, k <= size[t] PROVE Has(M, t, k) \/ k \in 1..Len(b.data)
      <4>1. CASE k \in 1..Len(a.data)
        BY <4>1, <3>3, <1>0
      <4>2. CASE Has(M \cup {m}, t, k)
        <5>1. Has(M, t, k) \/ k = Num(m)
          BY <4>2 DEF Has
        <5> QED BY <5>1, <3>2, <3>3, <1>0
      <4> QED BY <4>1, <4>2, <3>5, <2>5
    <3> QED BY <3>4, <3>5, <2>3 DEF Complete
  <2> QED BY <2>6, <2>7
<1>5. CASE m.mark = "end"
  <2>1. /\ b.opened = a.opened /\ b.only = (a.only /\ a.opened = t) /\ b.data = a.data /\ b.expected = a.expected
    BY <1>0, <1>5, EndBuffer
  <2> HIDE DEF b
  <2>2. ~Full(m)
    BY <1>5 DEF Full
  <2>3. \A k : Has(M \cup {m}, t, k) => Has(M, t, k)
    BY <2>2 DEF Has
  <2>4. b.only => a.only /\ a.opened = t /\ b.opened = t
    BY <2>1
  <2>5. Dense(b, lost)
    BY <2>1, <2>4 DEF Dense
  <2>6. ASSUME t \notin lost PROVE Complete(b, M, t, n, size[t])
    BY <2>1, <2>3, <2>4, <2>6, <1>2 DEF Complete
  <2>7. ASSUME t \notin lost, size[t] <= n, b.only PROVE Agrees(b)
    <3>1. \A k : ~Has(M, t, k)
      BY <1>1, <1>5 DEF Has, Full
    <3>2. Complete(b, M, t, n, size[t])
      BY <2>6, <2>7
    <3>3. \A k \in 1..n : k <= size[t] => k \in 1..Len(a.data)
      BY <3>1, <3>2, <2>1, <2>4, <2>7 DEF Complete
    <3>4. size[t] <= Len(a.data)
      <4>1. CASE size[t] = 0
        BY <4>1, <1>0
      <4>2. CASE size[t] # 0
        <5>1. size[t] \in 1..n /\ size[t] <= size[t]
          BY <4>2, <2>7, <1>0
        <5>2. size[t] \in 1..Len(a.data)
          BY <5>1, <3>3
        <5> QED BY <5>2
      <4> QED BY <4>1, <4>2
    <3>5. Len(a.data) <= size[t] /\ a.expected = size[t]
      <4>0. a.expected = size[t]
        BY <2>4, <2>7, <1>0 DEF Increasing
      <4>1. CASE Len(a.data) = 0
        BY <4>0, <4>1, <1>0
      <4>2. CASE Len(a.data) # 0
        <5>1. Len(a.data) \in 1..Len(a.data)
          BY <4>2, <1>0
        <5>2. a.data[Len(a.data)][2] \in 1..size[t] /\ Len(a.data) <= a.data[Len(a.data)][2]
          BY <5>1, <2>4, <2>7, <1>0 DEF Increasing
        <5> QED BY <5>2, <4>0, <1>0
      <4> QED BY <4>1, <4>2
    <3>6. Len(a.data) = size[t]
      BY <3>4, <3>5, <1>0
    <3> QED BY <3>5, <3>6, <2>1 DEF Agrees
  <2> QED BY <2>5, <2>6, <2>7 DEF b
<1> QED BY <1>0, <1>3, <1>4, <1>5

\* What assemble() makes of another transfer.
LEMMA OtherWhere ==
    ASSUME NEW r, NEW m, buffer[r] \in Buffers, m \in Messages, m.mark # "drag", NEW t, t # m.of, NEW M,
           \A k \in M : Behind(buffer[r], k), NEW n, NEW s, Complete(buffer[r], M, t, n, s)
    PROVE  Complete(assemble(r, m), M, t, n, s)
<1> DEFINE a == buffer[r]
           b == assemble(r, m)
<1>1. b.opened = t => ~b.only
  <2>1. CASE m.mark = "start"
    BY <2>1, AssembleStart
  <2>2. CASE m.mark = "data"
    <3>1. m.data \in Pieces
      BY DEF Messages
    <3> QED BY <2>2, <3>1, DataBuffer
  <2>3. CASE m.mark = "end"
    BY <2>3, EndBuffer
  <2> QED BY <2>1, <2>2, <2>3 DEF Messages
<1>2. Opens(M, t) => a.opened # t
  BY DEF Opens, Behind
<1> HIDE DEF b
<1>3. Opens(M, t) => \A k \in 1..n : k <= s => Has(M, t, k)
  BY <1>2 DEF Complete
<1> QED BY <1>1, <1>3 DEF Complete, b

\* A message more on the way.
LEMMA CompleteMore ==
    ASSUME NEW b, NEW M, NEW m, NEW t, NEW n \in Nat, NEW p \in Nat, NEW s,
           Complete(b, M, t, n, s), m.of # t => p = n,
           m.of = t /\ m.mark = "start" => p = 0,
           p # n => p = n + 1 /\ (p <= s => Full(m) /\ Num(m) = p)
    PROVE  Complete(b, M \cup {m}, t, p, s)
<1>1. CASE m.of # t
  <2>1. Complete(b, M \cup {m}, t, n, s)
    BY <1>1, Irrelevant
  <2> QED BY <1>1, <2>1
<1>2. CASE m.of = t /\ m.mark = "start"
  <2>1. p = 0
    BY <1>2
  <2>2. \A k \in 1..p : FALSE
    BY <2>1
  <2> QED BY <2>2 DEF Complete
<1>3. CASE m.of = t /\ m.mark # "start"
  <2>1. Opens(M \cup {m}, t) => Opens(M, t)
    BY <1>3 DEF Opens
  <2>2. \A k : Has(M, t, k) => Has(M \cup {m}, t, k)
    BY DEF Has
  <2>3. SUFFICES ASSUME Opens(M, t) \/ (b.opened = t /\ b.only), NEW k \in 1..p, k <= s
                 PROVE  Has(M \cup {m}, t, k) \/ (b.opened = t /\ k \in 1..Len(b.data))
    BY <2>1 DEF Complete
  <2>4. CASE k \in 1..n
    BY <2>2, <2>3, <2>4 DEF Complete
  <2>5. CASE k \notin 1..n
    <3>1. p # n
      BY <2>5
    <3>2. k = p /\ p <= s
      BY <3>1, <2>3, <2>5
    <3>3. Full(m) /\ Num(m) = k
      BY <3>1, <3>2
    <3> QED BY <3>3, <1>3 DEF Has
  <2> QED BY <2>4, <2>5
<1> QED BY <1>1, <1>2, <1>3

\* A step of the sending side: at most a message more in the events.
LEMMA PostRest ==
    ASSUME IInv, Rest, Grows, UNCHANGED <<toClient, toServer, buffer, lost, rejected>>,
           interrupted \subseteq interrupted',
           \A u \in 1..Len(size) : thread'[u].to = thread[u].to,
           \A u \in 1..Len(size) : thread'[u].pc \notin Started => thread'[u].sent = 0,
           \A u \in 1..Len(size) : thread'[u].pc \in {"end", "exit"} /\ u \notin interrupted' => thread'[u].sent >= size[u],
           \/ events' = events /\ \A u \in 1..Len(size) : thread'[u].sent = thread[u].sent
           \/ \E m : /\ In(events') = In(events) \cup {m} /\ IsMsg(m, size)
                     /\ \A u \in 1..Len(size) : u # m.of => thread'[u].sent = thread[u].sent
                     /\ thread'[m.of].sent # thread[m.of].sent =>
                           /\ thread'[m.of].sent = thread[m.of].sent + 1
                           /\ thread'[m.of].sent <= size[m.of] => Full(m) /\ Num(m) = thread'[m.of].sent
                     /\ m.mark = "start" => thread'[m.of].sent = 0
                     /\ m.mark = "end" /\ m.of \notin interrupted' => thread'[m.of].sent >= size[m.of]
    PROVE  Rest'
<1>0. /\ Types /\ Lines /\ Filled /\ Fresh /\ Home /\ Ended /\ Whereabouts /\ RejectedHadCause
      /\ size' = size /\ size \in Seq(Sizes) /\ Len(size) \in Nat
      /\ \A u \in 1..Len(size) : thread'[u].sent \in Nat /\ thread[u].sent \in Nat /\ thread[u].sent <= thread'[u].sent
      /\ \A u \in 1..Len(size) : size[u] \in Nat
  BY SizeType DEF IInv, Types, Rest, Grows
<1>1. Fresh' /\ RejectedHadCause'
  BY <1>0 DEF Fresh, RejectedHadCause
<1>2. Home'
  <2>1. ASSUME NEW c \in Clients
        PROVE  /\ \A m \in In(toClient[c]) : m.mark # "drag" /\ m.of \notin lost => thread'[m.of].to = c
               /\ buffer[c].opened # 0 /\ buffer[c].opened \notin lost => thread'[buffer[c].opened].to = c
    <3>1. \A m \in In(toClient[c]) : m.of \in 1..Len(size)
      BY <1>0 DEF Lines, IsMsg
    <3>2. buffer[c].opened # 0 => buffer[c].opened \in 1..Len(size)
      BY <1>0 DEF Filled, FileBuffer
    <3> QED BY <3>1, <3>2, <1>0 DEF Home
  <2> QED BY <2>1 DEF Home
<1>3. Ended'
  <2>1. ASSUME NEW c \in Clients, NEW m \in In(toClient[c]) \cup In(events), m.mark = "end", m.of \notin interrupted'
        PROVE  thread'[m.of].sent >= size[m.of]
    <3>1. m.of \in 1..Len(size)
      BY <1>0 DEF Lines, IsMsg
    <3>2. thread[m.of].sent >= size[m.of]
      BY <2>1, <1>0 DEF Ended
    <3>3. size[m.of] \in Nat /\ thread'[m.of].sent \in Nat /\ thread[m.of].sent \in Nat /\ thread[m.of].sent <= thread'[m.of].sent
      BY <3>1, <1>0
    <3> QED BY <3>2, <3>3
  <2>2. ASSUME NEW c \in Clients, NEW m \in In(toClient[c]) \cup In(events'), m.mark = "end", m.of \notin interrupted'
        PROVE  thread'[m.of].sent >= size[m.of]
    BY <2>1, <2>2
  <2> QED BY <2>2, <1>0 DEF Ended
<1>4. ASSUME NEW c \in Clients, NEW t \in (1..Len(size)) \ lost
      PROVE  Complete(buffer[c], In(toClient[c]) \cup In(events'), t, thread'[t].sent, size[t])
  <2> DEFINE M == In(toClient[c]) \cup In(events)
  <2>0. Complete(buffer[c], M, t, thread[t].sent, size[t])
    BY <1>0 DEF Whereabouts
  <2>1. CASE events' = events /\ \A u \in 1..Len(size) : thread'[u].sent = thread[u].sent
    BY <2>0, <2>1
  <2>2. ASSUME NEW m,
               In(events') = In(events) \cup {m},
               \A u \in 1..Len(size) : u # m.of => thread'[u].sent = thread[u].sent,
               thread'[m.of].sent # thread[m.of].sent =>
                  /\ thread'[m.of].sent = thread[m.of].sent + 1
                  /\ thread'[m.of].sent <= size[m.of] => Full(m) /\ Num(m) = thread'[m.of].sent,
               m.mark = "start" => thread'[m.of].sent = 0
        PROVE  Complete(buffer[c], In(toClient[c]) \cup In(events'), t, thread'[t].sent, size[t])
    <3>1. In(toClient[c]) \cup In(events') = M \cup {m}
      BY <2>2
    <3> HIDE DEF M
    <3>2. thread[t].sent \in Nat /\ thread'[t].sent \in Nat
      BY <1>0
    <3>3. /\ m.of # t => thread'[t].sent = thread[t].sent
          /\ m.of = t /\ m.mark = "start" => thread'[t].sent = 0
          /\ thread'[t].sent # thread[t].sent =>
                /\ thread'[t].sent = thread[t].sent + 1
                /\ thread'[t].sent <= size[t] => Full(m) /\ Num(m) = thread'[t].sent
      BY <2>2
    <3>4. Complete(buffer[c], M \cup {m}, t, thread'[t].sent, size[t])
      BY <2>0, <3>2, <3>3, CompleteMore
    <3> QED BY <3>1, <3>4
  <2> QED BY <2>1, <2>2
<1>5. Whereabouts'
  <2>1. \A r \in Receivers : Dense(buffer'[r], lost')
    BY <1>0 DEF Whereabouts
  <2>2. ASSUME NEW c \in Clients, NEW t \in (1..Len(size')) \ lost'
        PROVE  /\ Complete(buffer'[c], In(toClient'[c]) \cup In(events'), t, thread'[t].sent, size'[t])
               /\ (\E m \in In(toServer'[c]) : m.of = t) =>
                     Complete(buffer'["server"], In(toServer'[c]), t, size'[t], size'[t])
    <3>1. t \in (1..Len(size)) \ lost
      BY <1>0
    <3>2. (\E m \in In(toServer[c]) : m.of = t) => Complete(buffer["server"], In(toServer[c]), t, size[t], size[t])
      BY <3>1, <1>0 DEF Whereabouts
    <3> QED BY <3>1, <3>2, <1>0, <1>4
  <2> QED BY <2>1, <2>2 DEF Whereabouts
<1> QED BY <1>1, <1>2, <1>3, <1>5 DEF Rest

LEMMA SendFileRest == ASSUME IInv, Rest, NEW t \in 1..Len(thread), sendFile(t) PROVE Rest'
<1>0. Types /\ Fresh /\ Ended /\ size \in Seq(Sizes) /\ events \in Seq(Messages)
  BY DEF IInv, Rest, Types
<1>1. /\ Grows /\ thread'[t].sent = thread[t].sent /\ thread'[t].to = thread[t].to
      /\ t \in 1..Len(size) /\ thread[t].pc = "new"
      /\ \A u \in 1..Len(size) : u # t => thread'[u] = thread[u]
      /\ \/ events' = Append(events, Start(t)) /\ thread'[t].pc = "loop"
         \/ events' = events /\ thread'[t].pc = "done"
  BY <1>0, SendFileStep
<1>2. UNCHANGED <<toClient, toServer, buffer, lost, rejected, interrupted>>
  BY DEF sendFile, receiver, history
<1>3. thread'[t].sent = 0 /\ thread[t].sent = 0
  BY <1>0, <1>1 DEF Fresh, Started
<1>4. \A u \in 1..Len(size) : thread'[u].to = thread[u].to /\ thread'[u].sent = thread[u].sent
  BY <1>1
<1>5. \A u \in 1..Len(size) : thread'[u].pc \notin Started => thread'[u].sent = 0
  BY <1>0, <1>1, <1>3 DEF Fresh
<1>6. \A u \in 1..Len(size) : thread'[u].pc \in {"end", "exit"} /\ u \notin interrupted' => thread'[u].sent >= size[u]
  BY <1>0, <1>1, <1>2 DEF Ended
<1>7. CASE events' = events
  BY <1>1, <1>2, <1>4, <1>5, <1>6, <1>7, PostRest
<1>8. CASE events' = Append(events, Start(t))
  <2> DEFINE m == Start(t)
  <2>1. IsMsg(m, size) /\ m.mark = "start" /\ m.of = t /\ m \in Messages
    BY <1>0, <1>1, StartIs DEF IsMsg
  <2> HIDE DEF m
  <2>2. In(events') = In(events) \cup {m}
    BY <2>1, <1>0, <1>8, InAppend DEF m
  <2>3. /\ \A u \in 1..Len(size) : u # m.of => thread'[u].sent = thread[u].sent
        /\ thread'[m.of].sent = thread[m.of].sent /\ thread'[m.of].sent = 0 /\ m.mark # "end"
    BY <2>1, <1>3, <1>4
  <2> QED BY <2>1, <2>2, <2>3, <1>1, <1>2, <1>4, <1>5, <1>6, PostRest
<1> QED BY <1>1, <1>7, <1>8

LEMMA SendFileLoopRest == ASSUME IInv, Rest, NEW t \in 1..Len(thread), sendFileLoop(t) PROVE Rest'
<1>0. Types /\ Fresh /\ Ended /\ size \in Seq(Sizes) /\ events \in Seq(Messages) /\ thread \in Seq(Threads)
  BY DEF IInv, Rest, Types
<1> DEFINE k == thread[t].sent + 1
<1>1. /\ Grows /\ thread'[t].pc \in {"loop", "end"} /\ thread'[t].to = thread[t].to
      /\ t \in 1..Len(size) /\ thread[t].pc = "loop"
      /\ \A u \in 1..Len(size) : u # t => thread'[u] = thread[u]
      /\ \/ /\ events' = events /\ thread'[t].sent = thread[t].sent /\ thread'[t].pc = "end"
            /\ interrupted' = interrupted \cup {t}
         \/ /\ events' = Append(events, Data(t, k)) /\ interrupted' = interrupted
            /\ thread'[t].sent = k
            /\ thread'[t].pc = "end" => thread'[t].sent >= size[t]
  BY <1>0, SendFileLoopStep
<1>2. UNCHANGED <<toClient, toServer, buffer, lost, rejected>> /\ interrupted \subseteq interrupted'
  BY <1>1 DEF sendFileLoop, receiver
<1>4. \A u \in 1..Len(size) : thread'[u].to = thread[u].to
  BY <1>1
<1>5. \A u \in 1..Len(size) : thread'[u].pc \notin Started => thread'[u].sent = 0
  BY <1>0, <1>1 DEF Fresh, Started
<1>6. ASSUME NEW u \in 1..Len(size), thread'[u].pc \in {"end", "exit"}, u \notin interrupted' PROVE thread'[u].sent >= size[u]
  <2>1. CASE u = t
    BY <2>1, <1>1, <1>6
  <2>2. CASE u # t
    BY <2>2, <1>0, <1>1, <1>2, <1>6 DEF Ended
  <2> QED BY <2>1, <2>2
<1>7. CASE events' = events /\ thread'[t].sent = thread[t].sent
  <2>1. \A u \in 1..Len(size) : thread'[u].sent = thread[u].sent
    BY <1>1, <1>7
  <2> QED BY <2>1, <1>1, <1>2, <1>4, <1>5, <1>6, <1>7, PostRest
<1>8. CASE events' = Append(events, Data(t, k)) /\ thread'[t].sent = k
  <2> DEFINE m == Data(t, k)
  <2>0. k \in Nat \ {0}
    <3>1. thread[t].sent \in Nat
      BY <1>0, ThreadType
    <3> QED BY <3>1
  <2>1. /\ IsMsg(m, size) /\ m.mark = "data" /\ m.of = t /\ m \in Messages
        /\ k <= size[t] => Full(m) /\ Num(m) = k
    <3> HIDE DEF k
    <3> QED BY <2>0, <1>0, <1>1, DataIs DEF IsMsg
  <2>2. In(events') = In(events) \cup {m}
    <3> HIDE DEF m
    <3> QED BY <2>1, <1>0, <1>8, InAppend DEF m
  <2> HIDE DEF m
  <2>3. /\ \A u \in 1..Len(size) : u # m.of => thread'[u].sent = thread[u].sent
        /\ thread'[m.of].sent = thread[m.of].sent + 1
        /\ thread'[m.of].sent <= size[m.of] => Full(m) /\ Num(m) = thread'[m.of].sent
        /\ m.mark # "end" /\ m.mark # "start"
    BY <2>1, <1>1, <1>8
  <2> HIDE DEF k
  <2> QED BY <2>1, <2>2, <2>3, <1>1, <1>2, <1>4, <1>5, <1>6, PostRest
<1> QED BY <1>1, <1>7, <1>8

LEMMA SendFileEndRest == ASSUME IInv, Rest, NEW t \in 1..Len(thread), sendFileEnd(t) PROVE Rest'
<1>0. Types /\ Fresh /\ Ended /\ size \in Seq(Sizes) /\ events \in Seq(Messages)
  BY DEF IInv, Rest, Types
<1>1. /\ Grows /\ thread'[t].pc = "exit" /\ thread'[t].to = thread[t].to
      /\ thread'[t].sent = thread[t].sent /\ t \in 1..Len(size) /\ thread[t].pc = "end"
      /\ \A u \in 1..Len(size) : u # t => thread'[u] = thread[u]
      /\ events' = Append(events, End(t))
  BY <1>0, SendFileEndStep
<1>2. UNCHANGED <<toClient, toServer, buffer, lost, rejected, interrupted>>
  BY DEF sendFileEnd, receiver, history
<1>4. \A u \in 1..Len(size) : thread'[u].to = thread[u].to /\ thread'[u].sent = thread[u].sent
  BY <1>1
<1>5. \A u \in 1..Len(size) : thread'[u].pc \notin Started => thread'[u].sent = 0
  BY <1>0, <1>1 DEF Fresh, Started
<1>6. \A u \in 1..Len(size) : thread'[u].pc \in {"end", "exit"} /\ u \notin interrupted' => thread'[u].sent >= size[u]
  BY <1>0, <1>1, <1>2 DEF Ended
<1> DEFINE m == End(t)
<1>7. IsMsg(m, size) /\ m.mark = "end" /\ m.of = t /\ m \in Messages
  BY <1>0, <1>1, EndIs DEF IsMsg
<1> HIDE DEF m
<1>8. In(events') = In(events) \cup {m}
  BY <1>7, <1>0, <1>1, InAppend DEF m
<1>9. /\ \A u \in 1..Len(size) : u # m.of => thread'[u].sent = thread[u].sent
      /\ thread'[m.of].sent = thread[m.of].sent /\ m.mark # "start"
      /\ m.of \notin interrupted' => thread'[m.of].sent >= size[m.of]
  BY <1>0, <1>1, <1>2, <1>4, <1>7 DEF Ended
<1> QED BY <1>1, <1>2, <1>4, <1>5, <1>6, <1>7, <1>8, <1>9, PostRest

\* The steps that send nothing.
LEMMA QuietRest ==
    ASSUME IInv, Rest, \/ \E t \in 1..Len(thread) : threadExit(t)
                       \/ onMouseUp
                       \/ \E s \in Screens : switchScreen(s)
                       \/ \E c \in Clients : reconnect(c) \/ onFileReceiveCompleted(c) \/ write_to_drop_dir_thread(c)
                       \/ UNCHANGED vars
    PROVE  Rest'
<1>0. Types /\ Fresh /\ Ended
  BY DEF IInv, Rest
<1>1. ASSUME Grows, UNCHANGED <<toClient, toServer, buffer, events, lost, rejected, interrupted>>,
             \A u \in 1..Len(size) : thread'[u].to = thread[u].to /\ thread'[u].sent = thread[u].sent,
             \A u \in 1..Len(size) : thread'[u].pc \notin Started => thread[u].pc \notin Started,
             \A u \in 1..Len(size) : thread'[u].pc \in {"end", "exit"} => thread[u].pc \in {"end", "exit"}
      PROVE  Rest'
  <2>1. \A u \in 1..Len(size) : thread'[u].pc \notin Started => thread'[u].sent = 0
    BY <1>0, <1>1 DEF Fresh
  <2>2. \A u \in 1..Len(size) : thread'[u].pc \in {"end", "exit"} /\ u \notin interrupted' => thread'[u].sent >= size[u]
    BY <1>0, <1>1 DEF Ended
  <2> QED BY <1>1, <2>1, <2>2, PostRest
<1>2. ASSUME NEW t \in 1..Len(thread), threadExit(t) PROVE Rest'
  <2>1. /\ Grows /\ thread'[t].pc = "done" /\ thread'[t].to = thread[t].to
        /\ thread'[t].sent = thread[t].sent /\ thread[t].pc = "exit"
        /\ \A u \in 1..Len(size) : u # t => thread'[u] = thread[u]
    BY <1>0, <1>2, ThreadExitStep
  <2>2. UNCHANGED <<toClient, toServer, buffer, events, lost, rejected, interrupted>>
    BY <1>2 DEF threadExit, receiver, history
  <2> QED BY <2>1, <2>2, <1>1 DEF Started
<1>3. CASE onMouseUp
  <2>1. /\ Grows
        /\ \A u \in 1..Len(size) : \/ thread'[u] = thread[u]
                                   \/ /\ thread[u].pc = "idle" /\ thread'[u].pc = "new"
                                      /\ thread'[u].sent = thread[u].sent /\ thread'[u].to = thread[u].to
    BY <1>0, <1>3, MouseUpStep
  <2>2. UNCHANGED <<toClient, toServer, buffer, events, lost, rejected, interrupted>>
    BY <1>3 DEF onMouseUp, receiver, history
  <2> QED BY <2>1, <2>2, <1>1 DEF Started
<1>4. ASSUME UNCHANGED <<size, thread, events, toClient, toServer, buffer, lost, rejected, interrupted>> PROVE Rest'
  BY <1>0, <1>1, <1>4, Still
<1>5. CASE \E s \in Screens : switchScreen(s)
  BY <1>4, <1>5 DEF switchScreen, receiver
<1>6. CASE \E c \in Clients : reconnect(c) \/ onFileReceiveCompleted(c) \/ write_to_drop_dir_thread(c)
  BY <1>4, <1>6 DEF reconnect, onFileReceiveCompleted, write_to_drop_dir_thread, sender, receiver, history
<1>7. CASE UNCHANGED vars
  BY <1>4, <1>7 DEF vars, sender, receiver, history
<1> QED BY <1>2, <1>3, <1>5, <1>6, <1>7

LEMMA DispatchRest == ASSUME IInv, Rest, on_file_chunk_sending PROVE Rest'
<1>0. Types /\ Lines /\ Filled /\ size \in Seq(Sizes) /\ Fresh /\ Home /\ Ended /\ Whereabouts /\ RejectedHadCause
  BY DEF IInv, Types, Rest
<1> DEFINE m == Head(events)
<1>1. /\ IsMsg(m, size) /\ m \in Messages /\ m.mark # "drag"
      /\ In(events) = {m} \cup In(events') /\ \A n \in In(events') : Less(m, n)
      /\ \A c \in Clients : toClient'[c] = IF c = m_active THEN Append(toClient[c], m) ELSE toClient[c]
      /\ \A u \in 1..Len(size) : thread'[u].pc = thread[u].pc /\ thread'[u].sent = thread[u].sent
      /\ \A u \in 1..Len(size) : u # m.of \/ m.mark # "start" => thread'[u] = thread[u]
      /\ m.mark = "start" => thread'[m.of].to = m_active /\ lost' = lost
      /\ m.mark # "start" => lost' = IF m_active = thread[m.of].to THEN lost ELSE lost \cup {m.of}
  BY <1>0, DispatchStep
<1> HIDE DEF m
<1>2. UNCHANGED <<toServer, buffer, size, rejected, interrupted>>
  BY DEF on_file_chunk_sending, receiver
<1>3. lost \subseteq lost' /\ m.of \in 1..Len(size)
  BY <1>1 DEF IsMsg
<1>4. ASSUME NEW c \in Clients
      PROVE  /\ In(toClient'[c]) = IF c = m_active THEN In(toClient[c]) \cup {m} ELSE In(toClient[c])
             /\ \A n \in In(toClient[c]) : n.of \in 1..Len(size) /\ Less(n, m)
             /\ buffer[c].opened # 0 => buffer[c].opened \in 1..Len(size)
             /\ Behind(buffer[c], m)
  <2>1. toClient[c] \in Seq(Messages) /\ m \in In(events)
    BY <1>0, <1>1 DEF Types
  <2>2. \A n \in In(toClient[c]) : n.of \in 1..Len(size) /\ Less(n, m)
    BY <2>1, <1>0 DEF Lines, IsMsg, Follows
  <2>3. (buffer[c].opened # 0 => buffer[c].opened \in 1..Len(size)) /\ Behind(buffer[c], m)
    BY <2>1, <1>0 DEF Filled, FileBuffer, Unread
  <2>4. In(toClient'[c]) = IF c = m_active THEN In(toClient[c]) \cup {m} ELSE In(toClient[c])
    <3>1. CASE c = m_active
      <4>1. toClient'[c] = Append(toClient[c], m)
        BY <3>1, <1>1
      <4>2. In(Append(toClient[c], m)) = In(toClient[c]) \cup {m}
        BY <2>1, <1>1, InAppend
      <4> QED BY <4>1, <4>2, <3>1
    <3>2. CASE c # m_active
      BY <3>2, <1>1
    <3> QED BY <3>1, <3>2
  <2> QED BY <2>2, <2>3, <2>4
<1>5. Fresh' /\ RejectedHadCause'
  BY <1>0, <1>1, <1>2, <1>3 DEF Fresh, RejectedHadCause
<1>6. Ended'
  <2>1. \A u \in 1..Len(size) : thread'[u].pc \in {"end", "exit"} /\ u \notin interrupted => thread'[u].sent >= size[u]
    BY <1>0, <1>1 DEF Ended
  <2>2. ASSUME NEW c \in Clients, NEW n \in In(toClient'[c]) \cup In(events'), n.mark = "end", n.of \notin interrupted
        PROVE  thread'[n.of].sent >= size[n.of]
    <3>1. n \in In(toClient[c]) \cup In(events)
      BY <2>2, <1>1, <1>4
    <3>2. n.of \in 1..Len(size)
      BY <3>1, <1>0 DEF Lines, IsMsg
    <3> QED BY <3>1, <3>2, <2>2, <1>0, <1>1 DEF Ended
  <2> QED BY <2>1, <2>2, <1>2 DEF Ended
<1>7. Home'
  <2>1. ASSUME NEW c \in Clients, NEW n \in In(toClient'[c]), n.mark # "drag", n.of \notin lost'
        PROVE  thread'[n.of].to = c
    <3>1. CASE n \in In(toClient[c])
      <4>1. ~(n.of = m.of /\ m.mark = "start")
        BY <3>1, <2>1, <1>1, <1>4 DEF Less
      <4>2. n.of \in 1..Len(size) /\ thread[n.of].to = c
        BY <3>1, <2>1, <1>0, <1>3, <1>4 DEF Home
      <4> QED BY <4>1, <4>2, <1>1
    <3>2. CASE n = m /\ c = m_active
      BY <3>2, <2>1, <1>1, <1>3
    <3> QED BY <3>1, <3>2, <1>4
  <2>2. ASSUME NEW c \in Clients, buffer[c].opened # 0, buffer[c].opened \notin lost'
        PROVE  thread'[buffer[c].opened].to = c
    <3>1. ~(buffer[c].opened = m.of /\ m.mark = "start")
      BY <1>4 DEF Behind
    <3>2. buffer[c].opened \in 1..Len(size) /\ thread[buffer[c].opened].to = c
      BY <2>2, <1>0, <1>3, <1>4 DEF Home
    <3> QED BY <3>1, <3>2, <1>1
  <2> QED BY <2>1, <2>2, <1>2 DEF Home
<1>8. ASSUME NEW c \in Clients, NEW t \in (1..Len(size)) \ lost'
      PROVE  Complete(buffer[c], In(toClient'[c]) \cup In(events'), t, thread'[t].sent, size[t])
  <2>0. Complete(buffer[c], In(toClient[c]) \cup In(events), t, thread[t].sent, size[t]) /\ thread'[t].sent = thread[t].sent
    BY <1>0, <1>1, <1>3 DEF Whereabouts
  <2>1. CASE c = m_active
    <3>1. In(toClient'[c]) \cup In(events') = In(toClient[c]) \cup In(events)
      BY <2>1, <1>1, <1>4
    <3> QED BY <3>1, <2>0
  <2>2. CASE c # m_active /\ t # m.of
    <3> DEFINE M == In(toClient[c]) \cup In(events)
               P == In(toClient'[c]) \cup In(events')
    <3>1. M = P \cup {m}
      BY <2>2, <1>1, <1>4
    <3> HIDE DEF M, P
    <3>2. Complete(buffer[c], P, t, thread[t].sent, size[t])
      BY <3>1, <2>0, <2>2, Irrelevant DEF M
    <3> QED BY <3>2, <2>0 DEF P
  <2>3. CASE c # m_active /\ t = m.of
    <3>1. ASSUME Opens(In(toClient'[c]) \cup In(events'), t) PROVE FALSE
      <4>1. PICK n \in In(toClient[c]) \cup In(events') : n.mark = "start" /\ n.of = t
        BY <3>1, <2>3, <1>4 DEF Opens
      <4>2. n \in In(toClient[c])
        BY <4>1, <2>3, <1>1 DEF Less
      <4>3. m.mark # "start"
        BY <4>1, <4>2, <2>3, <1>1, <1>4 DEF Less
      <4>4. thread[t].to = c
        BY <4>1, <4>2, <1>0, <1>3 DEF Home
      <4>5. t \in lost'
        BY <4>3, <4>4, <2>3, <1>1
      <4> QED BY <4>5
    <3>2. buffer[c].opened # t
      <4>1. SUFFICES ASSUME buffer[c].opened = t PROVE FALSE
        OBVIOUS
      <4>2. m.mark # "start"
        BY <4>1, <2>3, <1>4 DEF Behind
      <4>3. t # 0 /\ t \notin lost
        BY <1>0, <1>3, SizeType
      <4>4. thread[t].to = c
        BY <4>1, <4>3, <1>0 DEF Home
      <4>5. t \in lost'
        BY <4>2, <4>4, <2>3, <1>1
      <4> QED BY <4>5
    <3> QED BY <3>1, <3>2 DEF Complete
  <2> QED BY <2>1, <2>2, <2>3
<1>9. Whereabouts'
  <2>1. \A r \in Receivers : Dense(buffer'[r], lost')
    BY <1>0, <1>2, <1>3 DEF Whereabouts, Dense
  <2>2. ASSUME NEW c \in Clients, NEW t \in (1..Len(size')) \ lost'
        PROVE  /\ Complete(buffer'[c], In(toClient'[c]) \cup In(events'), t, thread'[t].sent, size'[t])
               /\ (\E n \in In(toServer'[c]) : n.of = t) =>
                     Complete(buffer'["server"], In(toServer'[c]), t, size'[t], size'[t])
    <3>1. t \in (1..Len(size)) \ lost
      BY <1>2, <1>3
    <3>2. (\E n \in In(toServer[c]) : n.of = t) => Complete(buffer["server"], In(toServer[c]), t, size[t], size[t])
      BY <3>1, <1>0 DEF Whereabouts
    <3> QED BY <3>1, <3>2, <1>2, <1>8
  <2> QED BY <2>1, <2>2 DEF Whereabouts
<1> QED BY <1>5, <1>6, <1>7, <1>9 DEF Rest

LEMMA DisconnectRest == ASSUME IInv, Rest, NEW d \in Clients, disconnect(d) PROVE Rest'
<1>0. Types /\ Lines /\ size \in Seq(Sizes) /\ Fresh /\ Home /\ Ended /\ Whereabouts /\ RejectedHadCause
  BY DEF IInv, Types, Rest
<1>1. /\ lost \subseteq lost' /\ UNCHANGED <<size, thread, events, buffer, rejected, interrupted>>
      /\ \A c \in Clients : \/ toClient'[c] = toClient[c] /\ toServer'[c] = toServer[c]
                            \/ /\ In(toClient'[c]) = {} /\ In(toServer'[c]) = {}
                               /\ \A m \in In(toClient[c]) \cup In(toServer[c]) : m.of \in lost'
  BY DisconnectInv
<1>2. Fresh' /\ RejectedHadCause'
  BY <1>0, <1>1 DEF Fresh, RejectedHadCause
<1>3. \A c \in Clients : In(toClient'[c]) \subseteq In(toClient[c]) /\ In(toServer'[c]) \subseteq In(toServer[c])
  BY <1>1
<1>4. Ended'
  BY <1>0, <1>1, <1>3 DEF Ended
<1>5. Home'
  BY <1>0, <1>1, <1>3 DEF Home
<1>6. ASSUME NEW c \in Clients, NEW t \in (1..Len(size)) \ lost'
      PROVE  /\ Complete(buffer[c], In(toClient'[c]) \cup In(events), t, thread[t].sent, size[t])
             /\ (\E n \in In(toServer'[c]) : n.of = t) =>
                   Complete(buffer["server"], In(toServer'[c]), t, size[t], size[t])
  <2>0. /\ Complete(buffer[c], In(toClient[c]) \cup In(events), t, thread[t].sent, size[t])
        /\ (\E n \in In(toServer[c]) : n.of = t) =>
              Complete(buffer["server"], In(toServer[c]), t, size[t], size[t])
    BY <1>0, <1>1 DEF Whereabouts
  <2>1. CASE toClient'[c] = toClient[c] /\ toServer'[c] = toServer[c]
    BY <2>0, <2>1
  <2>2. CASE In(toClient'[c]) = {} /\ In(toServer'[c]) = {} /\ \A m \in In(toClient[c]) \cup In(toServer[c]) : m.of \in lost'
    <3> DEFINE M == In(toClient[c]) \cup In(events)
               P == In(toClient'[c]) \cup In(events)
    <3>1. /\ \A m \in M : m.of = t /\ m.mark # "drag" => m \in P
          /\ \A m \in P : m.of = t /\ m.mark # "drag" => m \in M
      BY <2>2
    <3> HIDE DEF M, P
    <3>2. Complete(buffer[c], P, t, thread[t].sent, size[t])
      BY <3>1, <2>0, Irrelevant DEF M
    <3> QED BY <3>2, <2>2 DEF P
  <2> QED BY <2>1, <2>2, <1>1
<1>7. Whereabouts'
  <2>1. \A r \in Receivers : Dense(buffer'[r], lost')
    BY <1>0, <1>1 DEF Whereabouts, Dense
  <2> QED BY <2>1, <1>1, <1>6 DEF Whereabouts
<1> QED BY <1>2, <1>4, <1>5, <1>7 DEF Rest

\* A transfer more, of which nothing is posted.
LEMMA NewRest ==
    ASSUME IInv, Rest, NEW n \in Sizes, NEW x \in Threads, x.pc \in {"idle", "none"}, x.sent = 0,
           Len(size) < MaxTransfers, size' = Append(size, n), thread' = Append(thread, x),
           UNCHANGED <<events, buffer, accepted, rejected, interrupted, lost>>,
           \A c \in Clients : /\ In(toClient[c]) \subseteq In(toClient'[c])
                              /\ \A m \in In(toClient'[c]) : m \in In(toClient[c]) \/ m.mark = "drag"
    PROVE  /\ Fresh' /\ Home' /\ Ended' /\ RejectedHadCause'
           /\ \A r \in Receivers : Dense(buffer'[r], lost')
           /\ \A c \in Clients : \A t \in (1..Len(size')) \ lost' :
                 Complete(buffer'[c], In(toClient'[c]) \cup In(events'), t, thread'[t].sent, size'[t])
<1>0. Types /\ Lines /\ Filled /\ Fresh /\ Home /\ Ended /\ Whereabouts /\ RejectedHadCause
  BY DEF IInv, Rest
<1>1. /\ Len(size') = Len(size) + 1 /\ Len(size) \in Nat
      /\ thread'[Len(size')] = x
      /\ \A t \in 1..Len(size) : size'[t] = size[t] /\ thread'[t] = thread[t] /\ t \in 1..Len(size') /\ t # Len(size')
      /\ \A m : IsMsg(m, size) => IsMsg(m, size') /\ thread'[m.of] = thread[m.of] /\ m.of # Len(size')
  BY NewTransfer
<1>2. ASSUME NEW t \in 1..Len(size') PROVE t \in 1..Len(size) \/ t = Len(size')
  BY <1>1
<1>3. x.pc \notin Started /\ x.pc \notin {"end", "exit"}
  BY DEF Started
<1>4. Fresh'
  <2>1. ASSUME NEW t \in 1..Len(size'), thread'[t].pc \notin Started PROVE thread'[t].sent = 0
    <3>1. CASE t = Len(size')
      BY <3>1, <1>1
    <3>2. CASE t \in 1..Len(size)
      BY <3>2, <2>1, <1>0, <1>1 DEF Fresh
    <3> QED BY <3>1, <3>2, <1>2
  <2> QED BY <2>1 DEF Fresh
<1>5. \A c \in Clients : \A m \in In(toClient[c]) \cup In(events) :
         m.of \in 1..Len(size) /\ thread'[m.of] = thread[m.of] /\ size'[m.of] = size[m.of]
  BY <1>0, <1>1 DEF Lines, IsMsg
<1>6. Home'
  <2>1. ASSUME NEW c \in Clients, NEW m \in In(toClient'[c]), m.mark # "drag", m.of \notin lost
        PROVE  thread'[m.of].to = c
    <3>1. m \in In(toClient[c])
      BY <2>1
    <3>2. thread[m.of].to = c
      BY <3>1, <2>1, <1>0 DEF Home
    <3> QED BY <3>1, <3>2, <1>5
  <2>2. ASSUME NEW c \in Clients, buffer[c].opened # 0, buffer[c].opened \notin lost
        PROVE  thread'[buffer[c].opened].to = c
    <3>1. buffer[c].opened \in 1..Len(size)
      BY <2>2, <1>0 DEF Filled, FileBuffer
    <3> QED BY <3>1, <2>2, <1>0, <1>1 DEF Home
  <2> QED BY <2>1, <2>2 DEF Home
<1>7. Ended'
  <2>1. ASSUME NEW t \in 1..Len(size'), thread'[t].pc \in {"end", "exit"}, t \notin interrupted
        PROVE  thread'[t].sent >= size'[t]
    <3>1. t \in 1..Len(size)
      BY <2>1, <1>1, <1>2, <1>3
    <3> QED BY <3>1, <2>1, <1>0, <1>1 DEF Ended
  <2>2. ASSUME NEW c \in Clients, NEW m \in In(toClient'[c]) \cup In(events), m.mark = "end", m.of \notin interrupted
        PROVE  thread'[m.of].sent >= size'[m.of]
    <3>1. m \in In(toClient[c]) \cup In(events)
      BY <2>2
    <3> QED BY <3>1, <2>2, <1>0, <1>5 DEF Ended
  <2> QED BY <2>1, <2>2 DEF Ended
<1>8. ASSUME NEW c \in Clients, NEW t \in (1..Len(size')) \ lost
      PROVE  Complete(buffer[c], In(toClient'[c]) \cup In(events), t, thread'[t].sent, size'[t])
  <2>1. CASE t = Len(size')
    <3>1. thread'[t].sent = 0
      BY <2>1, <1>1
    <3>2. \A k \in 1..thread'[t].sent : FALSE
      BY <3>1
    <3> QED BY <3>2 DEF Complete
  <2>2. CASE t \in 1..Len(size)
    <3> DEFINE M == In(toClient[c]) \cup In(events)
               P == In(toClient'[c]) \cup In(events)
    <3>1. /\ \A m \in M : m.of = t /\ m.mark # "drag" => m \in P
          /\ \A m \in P : m.of = t /\ m.mark # "drag" => m \in M
      OBVIOUS
    <3>2. Complete(buffer[c], M, t, thread[t].sent, size[t])
      BY <2>2, <1>0 DEF Whereabouts
    <3> HIDE DEF M, P
    <3>3. Complete(buffer[c], P, t, thread[t].sent, size[t])
      BY <3>1, <3>2, Irrelevant
    <3>4. thread'[t].sent = thread[t].sent /\ size'[t] = size[t]
      BY <2>2, <1>1
    <3> QED BY <3>3, <3>4 DEF P
  <2> QED BY <2>1, <2>2, <1>2
<1>9. \A r \in Receivers : Dense(buffer[r], lost)
  BY <1>0 DEF Whereabouts
<1>10. RejectedHadCause'
  BY <1>0 DEF RejectedHadCause
<1> QED BY <1>4, <1>6, <1>7, <1>8, <1>9, <1>10

LEMMA DragToRest == ASSUME IInv, Rest, NEW d \in Clients, dragTo(d) PROVE Rest'
<1> DEFINE x == [pc |-> "idle", sent |-> 0, to |-> "primary"]
<1>0. Lines /\ Whereabouts /\ Len(size) < MaxTransfers /\ accepted' = accepted /\ Len(size) \in Nat
  BY SizeType DEF IInv, Rest, dragTo, Types
<1>1. x \in Threads /\ x.pc \in {"idle", "none"} /\ x.sent = 0
  BY DEF Threads, Pcs, Screens
<1> HIDE DEF x
<1>2. /\ UNCHANGED <<events, buffer, toServer, rejected, interrupted, lost>>
      /\ \E n \in Sizes : size' = Append(size, n)
      /\ thread' = Append(thread, x)
      /\ \A c \in Clients : \E m : m.mark = "drag" /\ In(toClient[c]) \subseteq In(toClient'[c])
                                   /\ In(toClient'[c]) \subseteq In(toClient[c]) \cup {m}
  BY DragToInv DEF x
<1>3. PICK n \in Sizes : size' = Append(size, n)
  BY <1>2
<1>4. \A c \in Clients : /\ In(toClient[c]) \subseteq In(toClient'[c])
                         /\ \A m \in In(toClient'[c]) : m \in In(toClient[c]) \/ m.mark = "drag"
  BY <1>2
<1>5. /\ Fresh' /\ Home' /\ Ended' /\ RejectedHadCause'
      /\ \A r \in Receivers : Dense(buffer'[r], lost')
      /\ \A c \in Clients : \A t \in (1..Len(size')) \ lost' :
            Complete(buffer'[c], In(toClient'[c]) \cup In(events'), t, thread'[t].sent, size'[t])
  BY <1>0, <1>1, <1>2, <1>3, <1>4, NewRest
<1>6. ASSUME NEW c \in Clients, NEW t \in (1..Len(size')) \ lost, \E m \in In(toServer[c]) : m.of = t
      PROVE  Complete(buffer["server"], In(toServer[c]), t, size'[t], size'[t])
  <2>1. t \in 1..Len(size)
    BY <1>0, <1>6 DEF Lines, IsMsg
  <2>2. size'[t] = size[t]
    BY <2>1, <1>3, SizeType DEF IInv, Types
  <2> QED BY <2>1, <2>2, <1>0, <1>6 DEF Whereabouts
<1>7. Whereabouts'
  BY <1>2, <1>5, <1>6 DEF Whereabouts
<1> QED BY <1>5, <1>7 DEF Rest

LEMMA SendClipboardRest == ASSUME IInv, Rest, NEW d \in Clients, sendClipboard(d) PROVE Rest'
<1> DEFINE x == [pc |-> "none", sent |-> 0, to |-> "server"]
           u == Len(size')
<1>0. Lines /\ Filled /\ Whereabouts /\ Len(size) \in Nat /\ size \in Seq(Sizes)
  BY SizeType DEF IInv, Rest, Types
<1>1. x \in Threads /\ x.pc \in {"idle", "none"} /\ x.sent = 0
  BY DEF Threads, Pcs
<1> HIDE DEF x
<1>2. /\ UNCHANGED <<events, buffer, toClient, rejected, interrupted, lost, accepted>>
      /\ \E n \in Sizes : size' = Append(size, n)
      /\ thread' = Append(thread, x) /\ Len(size) < MaxTransfers
      /\ \A c \in Clients : c # d => toServer'[c] = toServer[c]
      /\ In(toServer[d]) \subseteq In(toServer'[d])
      /\ \A m \in In(toServer'[d]) : m \in In(toServer[d]) \/ (IsMsg(m, size') /\ m.of = u /\ m.mark # "drag")
      /\ \A k \in 1..size'[u] : Has(In(toServer'[d]), u, k)
  BY SendClipboardStep DEF x
<1>3. PICK n \in Sizes : size' = Append(size, n)
  BY <1>2
<1>4. \A c \in Clients : /\ In(toClient[c]) \subseteq In(toClient'[c])
                         /\ \A m \in In(toClient'[c]) : m \in In(toClient[c]) \/ m.mark = "drag"
  BY <1>2
<1>5. /\ Fresh' /\ Home' /\ Ended' /\ RejectedHadCause'
      /\ \A r \in Receivers : Dense(buffer'[r], lost')
      /\ \A c \in Clients : \A t \in (1..Len(size')) \ lost' :
            Complete(buffer'[c], In(toClient'[c]) \cup In(events'), t, thread'[t].sent, size'[t])
  BY <1>1, <1>2, <1>3, <1>4, NewRest
<1>6. ASSUME NEW c \in Clients, NEW t \in (1..Len(size')) \ lost, \E m \in In(toServer'[c]) : m.of = t
      PROVE  Complete(buffer["server"], In(toServer'[c]), t, size'[t], size'[t])
  <2>0. \A m \in In(toServer[c]) : m.of \in 1..Len(size)
    BY <1>0 DEF Lines, IsMsg
  <2>s. Len(size') = Len(size) + 1 /\ \A v \in 1..Len(size) : size'[v] = size[v] /\ v # u
    BY <1>0, <1>3, SizeType
  <2>1. CASE t # u
    <3>1. \A m \in In(toServer'[c]) : m.of = t => m \in In(toServer[c])
      BY <2>1, <1>2
    <3>2. \A m \in In(toServer[c]) : m \in In(toServer'[c])
      BY <1>2
    <3>3. t \in 1..Len(size)
      BY <3>1, <2>0, <1>6
    <3>4. Complete(buffer["server"], In(toServer[c]), t, size[t], size[t])
      BY <3>1, <3>3, <1>0, <1>6 DEF Whereabouts
    <3>5. Complete(buffer["server"], In(toServer'[c]), t, size[t], size[t])
      BY <3>1, <3>2, <3>4, Irrelevant
    <3> QED BY <3>3, <3>5, <2>s
  <2>2. CASE t = u
    <3>1. c = d
      <4>1. SUFFICES ASSUME c # d PROVE FALSE
        OBVIOUS
      <4>2. \E m \in In(toServer[c]) : m.of = t
        BY <4>1, <1>2, <1>6
      <4> QED BY <4>2, <2>0, <2>2, <2>s
    <3> QED BY <3>1, <2>2, <1>2 DEF Complete
  <2> QED BY <2>1, <2>2
<1>7. Whereabouts'
  BY <1>2, <1>5, <1>6 DEF Whereabouts
<1> QED BY <1>5, <1>7 DEF Rest

LEMMA FileReceivedRest == ASSUME IInv, Rest, NEW c \in Clients, fileReceived(c) PROVE Rest'
<1>0. /\ Types /\ Lines /\ Filled /\ size \in Seq(Sizes) /\ Fresh /\ Home /\ Ended /\ Whereabouts /\ RejectedHadCause
      /\ c \in Receivers /\ c # "server" /\ "server" \in Receivers /\ buffer[c] \in Buffers
      /\ Increasing(buffer[c], size) /\ buffer[c].opened \in 0..Len(size)
  BY Constants DEF IInv, Types, Rest, Receivers, Filled
<1> DEFINE m == Head(toClient[c])
           b == assemble(c, m)
           M == In(toClient'[c]) \cup In(events)
<1>1. /\ m \in Messages /\ IsMsg(m, size) /\ Posted(m, thread[m.of]) /\ Behind(buffer[c], m)
      /\ In(toClient[c]) = {m} \cup In(toClient'[c])
      /\ \A n \in M : Less(m, n)
      /\ \A d \in Clients : d # c => toClient'[d] = toClient[d]
      /\ UNCHANGED <<size, thread, events, toServer, accepted, interrupted, lost>>
      /\ \A r \in Receivers : r # c => buffer'[r] = buffer[r]
      /\ m.mark = "drag" => buffer' = buffer
      /\ m.mark # "drag" => buffer'[c] = b
      /\ rejected' = IF m.mark = "end" /\ ~Agrees(b) THEN rejected \cup {Note(c, b, m.of)} ELSE rejected
  BY FileReceivedStep
<1>2. /\ In(toClient[c]) \cup In(events) = M \cup {m}
      /\ \A n \in M : IsMsg(n, size) /\ Behind(buffer[c], n) /\ n \in In(toClient[c]) \cup In(events)
      /\ m.of \in 1..Len(size) /\ thread[m.of].sent \in Nat /\ size[m.of] \in Nat
  <2>1. In(toClient[c]) \cup In(events) = M \cup {m}
    BY <1>1
  <2>2. \A n \in In(toClient[c]) \cup In(events) : IsMsg(n, size)
    BY <1>0 DEF Lines
  <2>3. \A n \in In(toClient[c]) \cup In(events) : Behind(buffer[c], n)
    BY <1>0 DEF Filled, Unread
  <2>4. m.of \in 1..Len(size)
    BY <1>1 DEF IsMsg
  <2>5. thread \in Seq(Threads) /\ Len(thread) = Len(size)
    BY <1>0 DEF Types
  <2>6. thread[m.of].sent \in Nat /\ size[m.of] \in Nat
    BY <2>4, <2>5, <1>0, ThreadType, SizeType
  <2> QED BY <2>1, <2>2, <2>3, <2>4, <2>6
<1> HIDE DEF m, b, M
<1>3. \A t \in (1..Len(size)) \ lost : Complete(buffer[c], M \cup {m}, t, thread[t].sent, size[t])
  BY <1>0, <1>2 DEF Whereabouts
<1>4. Fresh' /\ Ended'
  <2>1. \A d \in Clients : In(toClient'[d]) \subseteq In(toClient[d])
    BY <1>1
  <2> QED BY <2>1, <1>0, <1>1 DEF Fresh, Ended
<1>5. /\ \A t \in (1..Len(size)) \ lost : Complete(buffer'[c], M, t, thread[t].sent, size[t])
      /\ Dense(buffer'[c], lost)
      /\ \A n \in rejected' : n \in rejected \/ (n.only /\ n.of = n.opened => n.of \in interrupted \cup lost)
      /\ buffer'[c].opened = buffer[c].opened \/ (m.mark = "start" /\ buffer'[c].opened = m.of)
  <2>1. CASE m.mark = "drag"
    <3>1. \A t \in (1..Len(size)) \ lost : Complete(buffer[c], M, t, thread[t].sent, size[t])
      BY <2>1, <1>3, Irrelevant
    <3>2. buffer'[c] = buffer[c] /\ rejected' = rejected
      BY <2>1, <1>1
    <3>3. Dense(buffer[c], lost)
      BY <1>0 DEF Whereabouts
    <3> QED BY <3>1, <3>2, <3>3
  <2>2. CASE m.mark # "drag"
    <3>0. Sound(c, m, M) /\ buffer'[c] = b
      BY <2>2, <1>0, <1>1, <1>2 DEF Sound
    <3>1. Full(m) => Num(m) <= thread[m.of].sent
      BY <1>1 DEF Posted, Full
    <3>2. Dense(buffer[c], lost) /\ (m.of \notin lost => Complete(buffer[c], M \cup {m}, m.of, thread[m.of].sent, size[m.of]))
      BY <1>0, <1>2, <1>3 DEF Whereabouts
    <3>3. /\ Dense(b, lost)
          /\ m.of \notin lost => Complete(b, M, m.of, thread[m.of].sent, size[m.of])
          /\ m.of \notin lost /\ m.mark = "end" /\ size[m.of] <= thread[m.of].sent /\ b.only /\ b.opened = m.of => Agrees(b)
      BY <3>0, <3>1, <3>2, <1>0, <1>2, AssembleWhere DEF b
    <3>4. ASSUME NEW t \in (1..Len(size)) \ lost PROVE Complete(b, M, t, thread[t].sent, size[t])
      <4>1. CASE t = m.of
        BY <4>1, <3>3
      <4>2. CASE t # m.of
        <5>1. Complete(buffer[c], M, t, thread[t].sent, size[t])
          BY <4>2, <1>3, Irrelevant
        <5>2. \A k \in M : Behind(buffer[c], k)
          BY <1>2
        <5> QED BY <4>2, <5>1, <5>2, <2>2, <1>0, <1>1, OtherWhere DEF b
      <4> QED BY <4>1, <4>2
    <3>5. ASSUME NEW n \in rejected', n \notin rejected, n.only, n.of = n.opened PROVE n.of \in interrupted \cup lost
      <4>1. m.mark = "end" /\ ~Agrees(b) /\ n = Note(c, b, m.of)
        BY <3>5, <1>1
      <4>2. n.only = b.only /\ n.of = m.of /\ n.opened = b.opened
        BY <4>1 DEF Note
      <4>3. SUFFICES ASSUME m.of \notin interrupted, m.of \notin lost PROVE FALSE
        BY <4>2
      <4>4. thread[m.of].sent >= size[m.of]
        BY <4>1, <4>3, <1>0, <1>1 DEF Ended
      <4>5. size[m.of] <= thread[m.of].sent
        BY <4>4, <1>2
      <4> QED BY <4>1, <4>2, <4>3, <4>5, <3>3, <3>5
    <3>6. b.opened = buffer[c].opened \/ (m.mark = "start" /\ b.opened = m.of)
      <4>1. CASE m.mark = "start"
        BY <4>1, AssembleStart DEF b
      <4>2. CASE m.mark = "data"
        <5>1. m.data \in Pieces
          BY <1>1 DEF Messages
        <5> QED BY <4>2, <5>1, <1>0, DataBuffer DEF b
      <4>3. CASE m.mark = "end"
        BY <4>3, <1>0, EndBuffer DEF b
      <4> QED BY <4>1, <4>2, <4>3, <2>2, <1>1 DEF Messages
    <3> QED BY <3>0, <3>3, <3>4, <3>5, <3>6
  <2> QED BY <2>1, <2>2
<1>6. Home'
  <2>1. ASSUME NEW d \in Clients, NEW n \in In(toClient'[d]), n.mark # "drag", n.of \notin lost
        PROVE  thread[n.of].to = d
    <3>1. n \in In(toClient[d])
      BY <2>1, <1>1
    <3> QED BY <3>1, <2>1, <1>0 DEF Home
  <2>2. ASSUME NEW d \in Clients, buffer'[d].opened # 0, buffer'[d].opened \notin lost
        PROVE  thread[buffer'[d].opened].to = d
    <3>1. CASE d # c
      <4>1. buffer'[d] = buffer[d]
        BY <3>1, <1>1 DEF Receivers
      <4> QED BY <4>1, <2>2, <1>0 DEF Home
    <3>2. CASE d = c /\ buffer'[c].opened = buffer[c].opened
      BY <3>2, <2>2, <1>0 DEF Home
    <3>3. CASE d = c /\ m.mark = "start" /\ buffer'[c].opened = m.of
      <4>1. m \in In(toClient[c]) /\ m.mark # "drag"
        BY <3>3, <1>1
      <4> QED BY <4>1, <3>3, <2>2, <1>0 DEF Home
    <3> QED BY <3>1, <3>2, <3>3, <1>5
  <2> QED BY <2>1, <2>2, <1>1 DEF Home
<1>7. RejectedHadCause'
  BY <1>0, <1>1, <1>5 DEF RejectedHadCause
<1>8. Whereabouts'
  <2>1. ASSUME NEW r \in Receivers PROVE Dense(buffer'[r], lost)
    <3>1. CASE r = c
      BY <3>1, <1>5
    <3>2. CASE r # c
      BY <3>2, <1>0, <1>1 DEF Whereabouts
    <3> QED BY <3>1, <3>2
  <2>2. ASSUME NEW d \in Clients, NEW t \in (1..Len(size)) \ lost
        PROVE  Complete(buffer'[d], In(toClient'[d]) \cup In(events), t, thread[t].sent, size[t])
    <3>1. CASE d = c
      BY <3>1, <1>5 DEF M
    <3>2. CASE d # c
      <4>1. buffer'[d] = buffer[d] /\ toClient'[d] = toClient[d]
        BY <3>2, <1>1 DEF Receivers
      <4> QED BY <4>1, <1>0 DEF Whereabouts
    <3> QED BY <3>1, <3>2
  <2>3. ASSUME NEW d \in Clients, NEW t \in (1..Len(size)) \ lost, \E n \in In(toServer[d]) : n.of = t
        PROVE  Complete(buffer'["server"], In(toServer[d]), t, size[t], size[t])
    <3>1. buffer'["server"] = buffer["server"]
      BY <1>0, <1>1
    <3> QED BY <3>1, <2>3, <1>0 DEF Whereabouts
  <2> QED BY <2>1, <2>2, <2>3, <1>1 DEF Whereabouts
<1> QED BY <1>4, <1>6, <1>7, <1>8 DEF Rest

LEMMA RecvClipboardRest == ASSUME IInv, Rest, NEW c \in Clients, recvClipboard(c) PROVE Rest'
<1>0. /\ Types /\ Lines /\ Filled /\ size \in Seq(Sizes) /\ Fresh /\ Home /\ Ended /\ Whereabouts /\ RejectedHadCause
      /\ "server" \in Receivers /\ buffer["server"] \in Buffers
      /\ Increasing(buffer["server"], size) /\ buffer["server"].opened \in 0..Len(size)
  BY DEF IInv, Types, Rest, Receivers, Filled
<1> DEFINE m == Head(toServer[c])
           b == assemble("server", m)
           M == In(toServer'[c])
<1>1. /\ m \in Messages /\ IsMsg(m, size) /\ m.mark # "drag" /\ Behind(buffer["server"], m)
      /\ In(toServer[c]) = {m} \cup In(toServer'[c])
      /\ \A n \in In(toServer'[c]) : Less(m, n)
      /\ \A d \in Clients : d # c => toServer'[d] = toServer[d]
      /\ UNCHANGED <<size, thread, events, toClient, interrupted, lost>>
      /\ \A d \in Clients : buffer'[d] = buffer[d]
      /\ buffer'["server"] = b
      /\ rejected' = IF m.mark = "end" /\ ~Agrees(b) THEN rejected \cup {Note("server", b, m.of)} ELSE rejected
  BY RecvClipboardStep
<1>2. /\ In(toServer[c]) = M \cup {m}
      /\ \A n \in M : IsMsg(n, size) /\ Behind(buffer["server"], n) /\ n \in In(toServer[c])
      /\ m.of \in 1..Len(size) /\ size[m.of] \in Nat
  <2>1. In(toServer[c]) = M \cup {m}
    BY <1>1
  <2>2. \A n \in In(toServer[c]) : IsMsg(n, size) /\ Behind(buffer["server"], n)
    BY <1>0 DEF Lines, Filled, Unread
  <2>3. m.of \in 1..Len(size)
    BY <1>1 DEF IsMsg
  <2>4. size[m.of] \in Nat
    BY <2>3, <1>0, SizeType
  <2> QED BY <2>1, <2>2, <2>3, <2>4
<1> HIDE DEF m, b, M
<1>3. Fresh' /\ Ended' /\ Home'
  BY <1>0, <1>1 DEF Fresh, Ended, Home
<1>4. Sound("server", m, M)
  BY <1>0, <1>1, <1>2 DEF Sound, M
<1>5. Full(m) => Num(m) <= size[m.of]
  <2>1. SUFFICES ASSUME Full(m) PROVE Num(m) <= size[m.of]
    OBVIOUS
  <2>2. Num(m) \in 1..size[m.of]
    BY <2>1, <1>0, <1>1, FullMessage
  <2> QED BY <2>2, <1>2
<1>6. /\ Dense(buffer["server"], lost)
      /\ m.of \notin lost => Complete(buffer["server"], M \cup {m}, m.of, size[m.of], size[m.of])
  <2>1. m \in In(toServer[c])
    BY <1>1
  <2> QED BY <2>1, <1>0, <1>2 DEF Whereabouts
<1>7. /\ Dense(b, lost)
      /\ m.of \notin lost => Complete(b, M, m.of, size[m.of], size[m.of])
      /\ m.of \notin lost /\ m.mark = "end" /\ size[m.of] <= size[m.of] /\ b.only /\ b.opened = m.of => Agrees(b)
  BY <1>0, <1>2, <1>4, <1>5, <1>6, AssembleWhere DEF b
<1>8. ASSUME NEW d \in Clients, NEW t \in (1..Len(size)) \ lost, \E n \in In(toServer'[d]) : n.of = t
      PROVE  Complete(b, In(toServer'[d]), t, size[t], size[t])
  <2>1. CASE d = c /\ t = m.of
    BY <2>1, <1>7 DEF M
  <2>2. CASE t # m.of
    <3>0. In(toServer'[d]) \subseteq In(toServer[d])
      BY <1>1
    <3>1. Complete(buffer["server"], In(toServer[d]), t, size[t], size[t])
      BY <3>0, <1>0, <1>8 DEF Whereabouts
    <3>2. \A n \in In(toServer[d]) : n.of = t => n \in In(toServer'[d])
      BY <2>2, <1>1
    <3>3. Complete(buffer["server"], In(toServer'[d]), t, size[t], size[t])
      BY <3>0, <3>1, <3>2, Irrelevant
    <3>4. \A k \in In(toServer'[d]) : Behind(buffer["server"], k)
      BY <3>0, <1>0 DEF Filled, Unread
    <3> QED BY <2>2, <3>3, <3>4, <1>0, <1>1, OtherWhere DEF b
  <2>3. CASE d # c /\ t = m.of
    <3>1. PICK n \in In(toServer[d]) : n.of = t
      BY <2>3, <1>1, <1>8
    <3>2. m \in In(toServer[c]) /\ c \in Clients \ {d}
      BY <2>3, <1>1
    <3>3. n.of # m.of
      BY <3>1, <3>2, <1>0 DEF Lines
    <3> QED BY <3>1, <3>3, <2>3
  <2> QED BY <2>1, <2>2, <2>3
<1>9. RejectedHadCause'
  <2>1. SUFFICES ASSUME NEW n \in rejected', n.only, n.of = n.opened PROVE n.of \in interrupted \cup lost
    BY <1>1 DEF RejectedHadCause
  <2>2. CASE n \in rejected
    BY <2>1, <2>2, <1>0 DEF RejectedHadCause
  <2>3. CASE n \notin rejected
    <3>1. m.mark = "end" /\ ~Agrees(b) /\ n = Note("server", b, m.of)
      BY <2>1, <2>3, <1>1
    <3>2. n.only = b.only /\ n.of = m.of /\ n.opened = b.opened
      BY <3>1 DEF Note
    <3>3. size[m.of] <= size[m.of]
      BY <1>2
    <3> QED BY <3>1, <3>2, <3>3, <2>1, <1>7
  <2> QED BY <2>2, <2>3
<1>10. Whereabouts'
  <2>1. ASSUME NEW r \in Receivers PROVE Dense(buffer'[r], lost)
    <3>1. CASE r = "server"
      BY <3>1, <1>1, <1>7
    <3>2. CASE r \in Clients
      BY <3>2, <1>0, <1>1 DEF Whereabouts
    <3> QED BY <3>1, <3>2 DEF Receivers
  <2>2. ASSUME NEW d \in Clients, NEW t \in (1..Len(size)) \ lost
        PROVE  Complete(buffer'[d], In(toClient[d]) \cup In(events), t, thread[t].sent, size[t])
    BY <1>0, <1>1 DEF Whereabouts
  <2> QED BY <2>1, <2>2, <1>1, <1>8 DEF Whereabouts
<1> QED BY <1>3, <1>9, <1>10 DEF Rest

LEMMA InitRest == Init => Rest
<1>1. SUFFICES ASSUME Init PROVE Rest
  OBVIOUS
<1>2. /\ size = <<>> /\ Len(size) = 0 /\ rejected = {}
      /\ \A c \in Clients : toClient[c] = <<>> /\ toServer[c] = <<>>
      /\ events = <<>>
  BY <1>1 DEF Init
<1>3. \A r \in Receivers : buffer[r].only = FALSE /\ buffer[r].opened = 0
  BY <1>1 DEF Init, None
<1>4. \A t \in 1..Len(size) : FALSE
  BY <1>2
<1>5. \A c \in Clients : c \in Receivers
  BY DEF Receivers
<1>6. Fresh /\ RejectedHadCause
  BY <1>2, <1>4 DEF Fresh, RejectedHadCause
<1>7. Home /\ Ended
  BY <1>2, <1>3, <1>4, <1>5, InEmpty DEF Home, Ended
<1>8. Whereabouts
  <2>1. \A r \in Receivers : ~buffer[r].only
    BY <1>3
  <2> QED BY <2>1, <1>4 DEF Whereabouts, Dense
<1> QED BY <1>6, <1>7, <1>8 DEF Rest

LEMMA NextRest == ASSUME IInv, Rest, [Next]_vars PROVE Rest'
<1>1. ASSUME NEW t \in 1..Len(thread), sendFile(t) \/ sendFileLoop(t) \/ sendFileEnd(t) PROVE Rest'
  BY <1>1, SendFileRest, SendFileLoopRest, SendFileEndRest
<1>2. ASSUME \/ \E t \in 1..Len(thread) : threadExit(t)
             \/ onMouseUp
             \/ \E s \in Screens : switchScreen(s)
             \/ \E c \in Clients : reconnect(c) \/ onFileReceiveCompleted(c) \/ write_to_drop_dir_thread(c)
             \/ UNCHANGED vars
      PROVE  Rest'
  BY <1>2, QuietRest
<1>3. CASE on_file_chunk_sending
  BY <1>3, DispatchRest
<1>4. ASSUME NEW c \in Clients, dragTo(c) \/ sendClipboard(c) \/ disconnect(c) PROVE Rest'
  BY <1>4, DragToRest, SendClipboardRest, DisconnectRest
<1>5. ASSUME NEW c \in Clients, fileReceived(c) \/ recvClipboard(c) PROVE Rest'
  BY <1>5, FileReceivedRest, RecvClipboardRest
<1> QED BY <1>1, <1>2, <1>3, <1>4, <1>5 DEF Next

\* For any number of transfers of any size, clients and jumps: an end that is
\* refused has a cause.  A transfer that is not interrupted, of which no chunk
\* goes to another screen or is lost and that no other one comes between is
\* always accepted, whatever happened to the transfers before it.
THEOREM RejectionsHaveCauses == Spec => []RejectedHadCause
<1>1. Init => JInv
  BY InitInv, InitRest DEF JInv
<1>2. JInv /\ [Next]_vars => JInv'
  BY NextInv, NextRest DEF JInv
<1>3. JInv => RejectedHadCause
  BY DEF JInv, Rest
<1> QED BY <1>1, <1>2, <1>3, PTL DEF Spec
==============================================================================
