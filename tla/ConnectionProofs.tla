--------------------------- MODULE ConnectionProofs ---------------------------
(***************************************************************************)
(* A client never gives up, and the server loses no connection and keeps   *)
(* no dead one, for any number of connections, faults and sleeps.          *)
(*                                                                         *)
(* KeepsTrying alone is not inductive: that an event which is dropped is   *)
(* not the one that would start the next attempt needs that events about a *)
(* stream and the client's own notes are different, which in turn needs    *)
(* that the server writes only its own messages.                           *)
(*                                                                         *)
(* OneOwner rests on two more invariants.  Budget bounds the restart       *)
(* timers: every chain of attempts is a stream, a timer, an event or a     *)
(* note at a time.  SInv follows a connection through the server: the      *)
(* handler of CLIENT_PROXY_DISCONNECTED tells who keeps the proxy (Owned), *)
(* what is over has its event in the queue (AllDue), and a connection is   *)
(* made known once (Fresh), so that no step makes a second proxy of it.    *)
(***************************************************************************)
EXTENDS Connection, FiniteSetTheorems, TLAPS

StreamTypes == ServerMessages \cup {"connected", "refused"}
Endings == {"failed", "disconnected"}
Posted == [type : StreamTypes, at : Conns] \cup [type : Endings \cup {"suspend", "resume"}, at : {None}]

\* An event in q will start another attempt.
Pending(q) == \E e \in Range(q) : e.type \in Endings

ClientTypes ==
    /\ m_stream \in Conns \cup {None}
    /\ m_timer \in BOOLEAN /\ m_suspended \in BOOLEAN /\ m_connectOnResume \in BOOLEAN
    /\ retries \in Nat
    /\ clientQueue \in Seq(Posted)
    /\ toClient \in [Conns -> Seq(ServerMessages)]

Attempts == m_stream # None \/ retries > 0 \/ Pending(clientQueue) \/ (m_connectOnResume /\ m_suspended)

Stages ==
    /\ stage \in {"idle", "connecting", "connected", "handshake", "ready"}
    /\ m_timer <=> stage \in {"connecting", "connected"}
    /\ m_stream = None <=> stage = "idle"

IInv == ClientTypes /\ Attempts /\ Stages

----------------------------------------------------------------------------
(* Queues.                                                                  *)

LEMMA QueueAppend ==
    ASSUME NEW q \in Seq(Posted), NEW e \in Posted
    PROVE  /\ Append(q, e) \in Seq(Posted)
           /\ Pending(Append(q, e)) <=> Pending(q) \/ e.type \in Endings
<1>1. /\ Append(q, e) \in Seq(Posted) /\ Len(q) \in Nat
      /\ DOMAIN q = 1..Len(q) /\ DOMAIN Append(q, e) = 1..Len(q) + 1
      /\ \A i \in 1..Len(q) : Append(q, e)[i] = q[i]
      /\ Append(q, e)[Len(q) + 1] = e
  OBVIOUS
<1>2. 1..Len(q) + 1 = 1..Len(q) \cup {Len(q) + 1}
  BY <1>1
<1>3. Range(Append(q, e)) = Range(q) \cup {e}
  BY <1>1, <1>2 DEF Range
<1> QED BY <1>1, <1>3 DEF Pending

LEMMA QueueTail ==
    ASSUME NEW q \in Seq(Posted), q # <<>>
    PROVE  /\ Tail(q) \in Seq(Posted) /\ Head(q) \in Posted
           /\ Pending(q) => Pending(Tail(q)) \/ Head(q).type \in Endings
<1>1. /\ Tail(q) \in Seq(Posted) /\ Head(q) \in Posted /\ Head(q) = q[1]
      /\ Len(q) \in Nat /\ DOMAIN q = 1..Len(q) /\ Len(Tail(q)) = Len(q) - 1
      /\ DOMAIN Tail(q) = 1..Len(Tail(q))
      /\ \A i \in 1..Len(Tail(q)) : Tail(q)[i] = q[i + 1]
  OBVIOUS
<1>2. \A i \in DOMAIN q : i = 1 \/ (i - 1 \in DOMAIN Tail(q) /\ q[i] = Tail(q)[i - 1])
  BY <1>1
<1>3. ASSUME NEW e \in Range(q) PROVE e \in Range(Tail(q)) \/ e = Head(q)
  <2>1. PICK i \in DOMAIN q : e = q[i]
    BY DEF Range
  <2> QED BY <1>1, <1>2, <2>1 DEF Range
<1> QED BY <1>1, <1>3 DEF Pending

\* What the client and the service thread post.
LEMMA Posts ==
    /\ \A t \in StreamTypes, c \in Conns : Event(t, c) \in Posted /\ Event(t, c).type = t
    /\ \A t \in Endings \cup {"suspend", "resume"} : Note(t) \in Posted /\ Note(t).type = t
    /\ \A e \in Posted : e.at # None => e.type \notin Endings
  BY ConnAssumption DEF Posted, Event, Note, Endings, StreamTypes, ServerMessages

\* The server writes its messages, and closes.
LEMMA PutTypes ==
    ASSUME toClient \in [Conns -> Seq(ServerMessages)], NEW c, NEW m \in ServerMessages
    PROVE  Put(toClient, c, m) \in [Conns -> Seq(ServerMessages)]
<1>1. CASE c \in Conns
  BY <1>1 DEF Put
<1>2. CASE c \notin Conns
  <2>1. [toClient EXCEPT ![c] = Append(@, m)] = toClient
    BY <1>2
  <2> QED BY <2>1 DEF Put
<1> QED BY <1>1, <1>2

----------------------------------------------------------------------------
(* The inductive invariant.                                                 *)

LEMMA IInvInit == Init => IInv
<1> SUFFICES ASSUME Init PROVE IInv
  OBVIOUS
<1>1. m_stream \in Conns /\ m_stream # None
  BY ConnAssumption DEF Init
<1>2. clientQueue \in Seq(Posted) /\ toClient \in [Conns -> Seq(ServerMessages)]
  BY DEF Init
<1>3. m_timer \in BOOLEAN /\ m_suspended \in BOOLEAN /\ m_connectOnResume \in BOOLEAN
  BY DEF Init
<1>4. retries \in Nat
  BY DEF Init
<1>5. m_timer /\ stage = "connecting"
  BY DEF Init
<1>6. ClientTypes
  BY <1>1, <1>2, <1>3, <1>4 DEF ClientTypes
<1>7. Stages
  BY <1>1, <1>5 DEF Stages
<1> QED BY <1>1, <1>6, <1>7 DEF IInv, Attempts

\* A step of the server or the network that leaves the client alone.
LEMMA ElsewhereStep ==
    ASSUME IInv, UNCHANGED clientVars, toClient' \in [Conns -> Seq(ServerMessages)]
    PROVE  IInv'
<1> USE DEF IInv, clientVars
<1>1. ClientTypes'
  BY DEF ClientTypes
<1>2. Attempts' /\ Stages'
  BY DEF Attempts, Stages, Pending
<1> QED BY <1>1, <1>2

LEMMA CloseTypes ==
    ASSUME toClient \in [Conns -> Seq(ServerMessages)], NEW c, Close(c)
    PROVE  toClient' \in [Conns -> Seq(ServerMessages)]
  BY PutTypes DEF Close, ServerMessages

\* A step of the client's process that only posts e.
LEMMA PostStep ==
    ASSUME IInv, NEW e \in Posted, clientQueue' = Append(clientQueue, e),
           UNCHANGED <<m_stream, stage, m_timer, retries, m_suspended, m_connectOnResume>>,
           toClient' \in [Conns -> Seq(ServerMessages)]
    PROVE  IInv'
<1> USE DEF IInv
<1>1. /\ clientQueue' \in Seq(Posted)
      /\ Pending(clientQueue) => Pending(clientQueue')
  BY QueueAppend DEF ClientTypes
<1>2. ClientTypes'
  BY <1>1 DEF ClientTypes
<1>3. Attempts' /\ Stages'
  BY <1>1 DEF Attempts, Stages
<1> QED BY <1>2, <1>3

\* cleanup() leaves no stream, and an event that starts the next attempt.
LEMMA CleanupStep ==
    ASSUME IInv, NEW posted \in Endings, NEW q \in Seq(Posted), cleanup(posted, q),
           retries' = retries, m_suspended' \in BOOLEAN, m_connectOnResume' \in BOOLEAN
    PROVE  IInv'
<1> USE DEF IInv
<1>1. Note(posted) \in Posted /\ Note(posted).type = posted
  BY Posts
<1>2. clientQueue' \in Seq(Posted) /\ Pending(clientQueue')
  BY <1>1, QueueAppend DEF cleanup
<1>3. toClient' \in [Conns -> Seq(ServerMessages)]
  <2>1. CASE m_stream = None
    BY <2>1 DEF cleanup, netVars, ClientTypes
  <2>2. CASE m_stream # None
    <3>1. toClient' = [toClient EXCEPT ![m_stream] = <<>>] /\ m_stream \in Conns
      BY <2>2 DEF cleanup, ClientTypes
    <3>2. <<>> \in Seq(ServerMessages) /\ toClient \in [Conns -> Seq(ServerMessages)]
      BY DEF ClientTypes
    <3> QED BY <3>1, <3>2
  <2> QED BY <2>1, <2>2
<1>4. m_stream' = None /\ stage' = "idle" /\ m_timer' = FALSE
  BY DEF cleanup
<1>5. m_timer' \in BOOLEAN
  BY <1>4
<1>6. ClientTypes'
  BY <1>2, <1>3, <1>4, <1>5 DEF ClientTypes
<1>7. Attempts' /\ Stages'
  BY <1>2, <1>4 DEF Attempts, Stages
<1> QED BY <1>6, <1>7

\* connect() makes a connection, has one, or notes that it must when the machine
\* wakes up.  q is what the handler leaves of the queue.
LEMMA ConnectStep ==
    ASSUME IInv, NEW suspended \in BOOLEAN, NEW onResume \in BOOLEAN, NEW q \in Seq(Posted),
           connect(suspended, onResume, q),
           retries' \in Nat, m_suspended' = suspended
    PROVE  IInv'
<1> USE DEF IInv
<1>1. clientQueue' = q /\ toClient' = toClient
  BY DEF connect, netVars
<1>2. CASE m_stream # None
  <2>1. /\ m_connectOnResume' = onResume
        /\ m_stream' = m_stream /\ stage' = stage /\ m_timer' = m_timer
    BY <1>2 DEF connect
  <2> QED BY <1>1, <1>2, <2>1 DEF ClientTypes, Attempts, Stages
<1>3. CASE m_stream = None /\ suspended
  <2>1. /\ m_connectOnResume' = TRUE
        /\ m_stream' = m_stream /\ stage' = stage /\ m_timer' = m_timer
    BY <1>3 DEF connect
  <2>2. m_connectOnResume' \in BOOLEAN /\ m_connectOnResume' /\ m_suspended'
    BY <1>3, <2>1
  <2> QED BY <1>1, <2>1, <2>2 DEF ClientTypes, Attempts, Stages
<1>4. CASE m_stream = None /\ ~suspended
  <2>1. PICK c \in Conns : m_stream' = c
    BY <1>4 DEF connect
  <2>2. m_connectOnResume' = onResume /\ stage' = "connecting" /\ m_timer' = TRUE
    BY <1>4 DEF connect
  <2>3. c # None /\ m_timer' \in BOOLEAN /\ m_timer' /\ m_connectOnResume' \in BOOLEAN
    BY <2>2, ConnAssumption
  <2>4. ClientTypes'
    BY <1>1, <2>1, <2>3 DEF ClientTypes
  <2>5. Attempts' /\ Stages'
    BY <2>1, <2>2, <2>3 DEF Attempts, Stages
  <2> QED BY <2>4, <2>5
<1> QED BY <1>2, <1>3, <1>4

\* An event of a stream is handled or dropped.
LEMMA StreamStep == IInv /\ dispatchStream => IInv'
<1> SUFFICES ASSUME IInv, dispatchStream PROVE IInv'
  OBVIOUS
<1> USE DEF IInv
<1> DEFINE e == Head(clientQueue)
           q == Tail(clientQueue)
<1>1. /\ clientQueue # <<>> /\ e.at # None
      /\ UNCHANGED <<retries, m_suspended, m_connectOnResume, boundVars, serverVars>>
  BY DEF dispatchStream
<1>2. q \in Seq(Posted) /\ e \in Posted /\ (Pending(clientQueue) => Pending(q))
  BY <1>1, QueueTail, Posts DEF ClientTypes
<1>3. ASSUME clientQueue' = q, m_stream' = m_stream, toClient' = toClient,
             \/ stage' = stage /\ m_timer' = m_timer
             \/ stage = "connecting" /\ stage' = "connected" /\ m_timer' = m_timer
             \/ stage = "connected" /\ stage' = "handshake" /\ m_timer' = FALSE
             \/ stage = "handshake" /\ stage' = "ready" /\ m_timer' = m_timer
      PROVE  IInv'
  <2>1. m_timer' \in BOOLEAN
    BY <1>3 DEF ClientTypes
  <2>2. ClientTypes'
    BY <1>1, <1>2, <1>3, <2>1 DEF ClientTypes
  <2>3. Attempts'
    BY <1>1, <1>2, <1>3 DEF Attempts
  <2>4. Stages'
    BY <1>3 DEF Stages
  <2> QED BY <2>2, <2>3, <2>4
<1>4. ASSUME NEW posted \in Endings, cleanup(posted, q) PROVE IInv'
  <2> HIDE DEF q
  <2> QED BY <1>1, <1>2, <1>4, CleanupStep DEF ClientTypes
<1>5. CASE ~(e.at = m_stream /\ HasHandler(e.type))
  <2>1. clientQueue' = q /\ UNCHANGED <<m_stream, stage, m_timer, netVars>>
    BY <1>5 DEF dispatchStream
  <2> QED BY <1>3, <2>1 DEF netVars
<1>6. CASE StreamEvent
  <2>1. "failed" \in Endings /\ "disconnected" \in Endings
    BY DEF Endings
  <2> HIDE DEF IInv
  <2> QED BY <1>3, <1>4, <1>6, <2>1 DEF StreamEvent, netVars
<1> QED BY <1>5, <1>6 DEF dispatchStream

\* What the server's handlers do to the client: they write messages.
LEMMA FailureTypes ==
    ASSUME toClient \in [Conns -> Seq(ServerMessages)], NEW c, NEW q, sendFailure(c, q)
    PROVE  toClient' \in [Conns -> Seq(ServerMessages)]
  BY CloseTypes DEF sendFailure, netVars

LEMMA ServerEventTypes ==
    ASSUME toClient \in [Conns -> Seq(ServerMessages)], ServerEvent
    PROVE  UNCHANGED clientVars /\ toClient' \in [Conns -> Seq(ServerMessages)]
<1>m. {"hello", "queryInfo", "options", "busy"} \subseteq ServerMessages
  BY DEF ServerMessages
<1>1. CASE handle_client_connecting \/ parseHandshakeMessage \/ handle_ready
  BY <1>1 DEF handle_client_connecting, parseHandshakeMessage, handle_ready, netVars
<1>2. CASE handle_client_accepted
  BY <1>2, <1>m, PutTypes DEF handle_client_accepted
<1>3. CASE handle_data
  BY <1>3, <1>m, PutTypes DEF handle_data
<1>4. CASE handle_disconnect
  <2>1. UNCHANGED clientVars
    BY <1>4 DEF handle_disconnect
  <2> DEFINE c == Head(serverQueue).at
  <2>2. \/ sendFailure(c, Rest) \/ disconnect(c, Rest) \/ UNCHANGED netVars
    BY <1>4 DEF handle_disconnect
  <2> QED BY <2>1, <2>2, FailureTypes, CloseTypes DEF disconnect, netVars
<1>5. CASE handle_unknown_client
  <2>1. UNCHANGED clientVars
    BY <1>5 DEF handle_unknown_client
  <2>2. UNCHANGED netVars \/ \E c \in Conns : adoptUnknown(c)
    BY <1>5 DEF handle_unknown_client
  <2>3. UNCHANGED netVars \/ \E c \in Conns : Close(c)
    BY <2>2 DEF adoptUnknown
  <2> QED BY <2>1, <2>3, CloseTypes DEF netVars
<1>6. CASE handle_client_connected
  <2> DEFINE c == Head(m_waitingClients)
             m == IF adopted = None THEN "options" ELSE "busy"
  <2>1. toClient' = toClient \/ toClient' = Put(toClient, c, m)
    BY <1>6 DEF handle_client_connected
  <2>2. m \in ServerMessages
    BY <1>m
  <2>3. UNCHANGED clientVars
    BY <1>6 DEF handle_client_connected
  <2> HIDE DEF c, m
  <2> QED BY <2>1, <2>2, <2>3, PutTypes
<1>7. CASE handle_client_disconnected
  <2> DEFINE c == Head(serverQueue).at
  <2>1. sendFailure(c, Rest) \/ UNCHANGED netVars
    BY <1>7 DEF handle_client_disconnected
  <2>2. UNCHANGED clientVars
    BY <1>7 DEF handle_client_disconnected
  <2> QED BY <2>1, <2>2, FailureTypes DEF netVars
<1> QED BY <1>1, <1>2, <1>3, <1>4, <1>5, <1>6, <1>7 DEF ServerEvent

LEMMA ServerTimerTypes ==
    ASSUME toClient \in [Conns -> Seq(ServerMessages)], NEW c \in Conns, ServerTimer(c)
    PROVE  UNCHANGED clientVars /\ toClient' \in [Conns -> Seq(ServerMessages)]
<1>1. CASE handle_timeout(c)
  BY <1>1, FailureTypes DEF handle_timeout
<1>2. CASE handle_flatline(c)
  BY <1>2, CloseTypes DEF handle_flatline, disconnect
<1>3. CASE handle_client_close_timeout(c)
  BY <1>3, CloseTypes DEF handle_client_close_timeout, netVars
<1> QED BY <1>1, <1>2, <1>3 DEF ServerTimer

LEMMA IInvStep == IInv /\ [Next]_vars => IInv'
<1> SUFFICES ASSUME IInv, [Next]_vars PROVE IInv'
  OBVIOUS
<1>i. ClientTypes /\ Attempts /\ Stages
  BY DEF IInv
<1>t. /\ toClient \in [Conns -> Seq(ServerMessages)]
      /\ m_suspended \in BOOLEAN /\ m_connectOnResume \in BOOLEAN
      /\ clientQueue \in Seq(Posted) /\ m_stream \in Conns \cup {None} /\ retries \in Nat
  BY <1>i DEF ClientTypes
<1>n. \A t \in Endings \cup {"suspend", "resume"} : Note(t) \in Posted
  BY Posts
<1>e. "failed" \in Endings /\ "disconnected" \in Endings /\ "suspend" \notin Endings /\ "resume" \notin Endings
  BY DEF Endings
<1>1. CASE tcpConnect \/ tcpRefuse
  <2>1. m_stream \in Conns
    BY <1>1, <1>i DEF tcpConnect, tcpRefuse, Stages, ClientTypes
  <2>2. Event("connected", m_stream) \in Posted /\ Event("refused", m_stream) \in Posted
    BY <2>1, Posts DEF StreamTypes
  <2> QED BY <1>1, <1>t, <2>2, PostStep DEF tcpConnect, tcpRefuse, netVars
<1>2. CASE sleep \/ wake
  BY <1>2, <1>n, <1>t, PostStep DEF sleep, wake, netVars
<1>3. CASE closeClients
  <2>1. "close" \in ServerMessages
    BY DEF ServerMessages
  <2>2. toClient' \in [Conns -> Seq(ServerMessages)]
    BY <1>3, <1>t, <2>1, PutTypes DEF closeClients
  <2> QED BY <1>3, <2>2, ElsewhereStep DEF closeClients
<1>4. CASE dispatchStream
  BY <1>4, StreamStep
<1>5. CASE scheduleClientRestart
  <2>1. Tail(clientQueue) \in Seq(Posted)
    BY <1>5, <1>t, QueueTail DEF scheduleClientRestart, Handle
  <2>2. retries' = retries + 1 /\ clientQueue' = Tail(clientQueue) /\ toClient' = toClient
        /\ UNCHANGED <<m_stream, stage, m_timer, m_suspended, m_connectOnResume>>
    BY <1>5 DEF scheduleClientRestart, netVars
  <2>3. retries' \in Nat /\ retries' > 0
    BY <1>t, <2>2
  <2>4. ClientTypes'
    BY <1>i, <2>1, <2>2, <2>3 DEF ClientTypes
  <2>5. Attempts' /\ Stages'
    BY <1>i, <2>2, <2>3 DEF Attempts, Stages
  <2> QED BY <2>4, <2>5 DEF IInv
<1>6. CASE handle_suspend
  <2>1. Tail(clientQueue) \in Seq(Posted)
    BY <1>6, <1>t, QueueTail DEF handle_suspend, Handle
  <2>2. m_suspended' \in BOOLEAN /\ m_connectOnResume' \in BOOLEAN /\ retries' = retries
    BY <1>6 DEF handle_suspend
  <2> QED BY <1>6, <1>e, <2>1, <2>2, CleanupStep DEF handle_suspend
<1>7. CASE handle_resume
  <2>1. /\ Tail(clientQueue) \in Seq(Posted)
        /\ Pending(clientQueue) => Pending(Tail(clientQueue))
    BY <1>7, <1>e, <1>t, QueueTail DEF handle_resume, Handle
  <2>2. m_suspended' = FALSE /\ retries' = retries
    BY <1>7 DEF handle_resume
  <2>3. CASE m_connectOnResume
    <3>1. connect(FALSE, FALSE, Tail(clientQueue)) /\ FALSE \in BOOLEAN
      BY <1>7, <2>3 DEF handle_resume
    <3> QED BY <1>t, <2>1, <2>2, <3>1, ConnectStep
  <2>4. CASE ~m_connectOnResume
    <3>1. clientQueue' = Tail(clientQueue) /\ toClient' = toClient
          /\ UNCHANGED <<m_stream, stage, m_timer, m_connectOnResume>>
      BY <1>7, <2>4 DEF handle_resume, netVars
    <3>2. m_suspended' \in BOOLEAN
      BY <2>2
    <3>3. ClientTypes'
      BY <1>i, <2>1, <2>2, <3>1, <3>2 DEF ClientTypes
    <3>4. Attempts' /\ Stages'
      BY <1>i, <2>1, <2>2, <2>4, <3>1 DEF Attempts, Stages
    <3> QED BY <3>3, <3>4 DEF IInv
  <2> QED BY <2>3, <2>4
<1>8. CASE handle_client_restart
  <2>1. retries' \in Nat /\ m_suspended' = m_suspended
    BY <1>8, <1>t DEF handle_client_restart
  <2> QED BY <1>8, <1>t, <2>1, ConnectStep DEF handle_client_restart
<1>9. CASE handle_connect_timeout \/ handle_keep_alive_alarm
  <2>1. m_suspended' = m_suspended /\ m_connectOnResume' \in BOOLEAN /\ retries' = retries
        /\ cleanup("failed", clientQueue)
    BY <1>9, <1>t DEF handle_connect_timeout, handle_keep_alive_alarm
  <2> QED BY <1>e, <1>t, <2>1, CleanupStep
<1>10. CASE ServerEvent
  BY <1>10, <1>t, ServerEventTypes, ElsewhereStep
<1>11. ASSUME NEW c \in Conns, goSilent(c) \/ Reads(c) \/ ServerTimer(c) PROVE IInv'
  <2>1. CASE goSilent(c)
    <3>1. toClient' = [toClient EXCEPT ![c] = <<>>] /\ <<>> \in Seq(ServerMessages)
      BY <2>1 DEF goSilent
    <3> QED BY <1>t, <2>1, <3>1, ElsewhereStep DEF goSilent
  <2>2. CASE serverReads(c)
    BY <1>t, <2>2, ElsewhereStep DEF serverReads
  <2>3. CASE clientReads(c)
    <3>1. /\ toClient' = [toClient EXCEPT ![c] = Tail(toClient[c])]
          /\ clientQueue' = Append(clientQueue, Event(Head(toClient[c]), c))
          /\ UNCHANGED <<m_stream, stage, m_timer, retries, m_suspended, m_connectOnResume>>
      BY <2>3 DEF clientReads
    <3>2. toClient[c] \in Seq(ServerMessages) /\ toClient[c] # <<>>
      BY <1>t, <2>3 DEF clientReads
    <3>3. Tail(toClient[c]) \in Seq(ServerMessages) /\ Head(toClient[c]) \in StreamTypes
      BY <3>2 DEF StreamTypes
    <3>4. toClient' \in [Conns -> Seq(ServerMessages)] /\ Event(Head(toClient[c]), c) \in Posted
      BY <1>t, <3>1, <3>3, Posts
    <3> QED BY <3>1, <3>4, PostStep
  <2>4. CASE ServerTimer(c)
    BY <1>t, <2>4, ServerTimerTypes, ElsewhereStep
  <2> QED BY <1>11, <2>1, <2>2, <2>3, <2>4 DEF Reads
<1>12. CASE UNCHANGED vars
  BY <1>12, <1>t, ElsewhereStep DEF vars, netVars
<1> QED BY <1>1, <1>2, <1>3, <1>4, <1>5, <1>6, <1>7, <1>8, <1>9, <1>10, <1>11, <1>12
        DEF Next, ClientEvent, ClientTimer

\* Whatever fails, and however often the machine sleeps, the client has a
\* connection, a restart timer, an event that leads to one, or a note to connect
\* when it wakes up; and a connection that no ServerProxy watches has the connect
\* timer.
THEOREM ClientKeepsTrying == Spec => []KeepsTrying
<1>1. IInv => KeepsTrying
  <2> SUFFICES ASSUME IInv PROVE KeepsTrying
    OBVIOUS
  <2>1. Attempts /\ Stages /\ m_timer \in BOOLEAN
    BY DEF IInv, ClientTypes
  <2>2. Pending(clientQueue) => \E e \in Range(clientQueue) : e.type \in {"failed", "disconnected"}
    BY DEF Pending, Endings
  <2>3. m_timer = (stage \in {"connecting", "connected"})
    BY <2>1 DEF Stages
  <2>4. (m_stream = None) = (stage = "idle")
    BY <2>1 DEF Stages
  <2> QED BY <2>1, <2>2, <2>3, <2>4 DEF Attempts, KeepsTrying
<1> QED BY <1>1, IInvInit, IInvStep, PTL DEF Spec

----------------------------------------------------------------------------
(* Every proxy has one owner.                                               *)

SocketTypes == ClientMessages \cup {"connecting", "accepted", "ready", "disconnected"}
Dispatched ==
    [type : SocketTypes, at : Conns] \cup [type : {"success", "failure"}, at : Addresses]
    \cup [type : {"connected"}, at : {None}]

\* How many events of these types are in the queue.
Count(q, T) == Cardinality({i \in DOMAIN q : q[i].type \in T})

One(b) == IF b THEN 1 ELSE 0

\* Restart timers are bounded: besides the first attempt, only a sleep starts a
\* chain of attempts, and every chain is in one of these places at a time.
Chains == retries + Count(clientQueue, Endings \cup {"suspend"})
          + One(m_stream # None) + One(m_connectOnResume)
Budget == suspends \in 0..MaxSuspends /\ Chains <= suspends + 1

ServerTypes ==
    /\ link \in [Conns -> {"none", "open", "silent"}]
    /\ toServer \in [Conns -> Seq(ClientMessages)]
    /\ serverQueue \in Seq(Dispatched)
    /\ client_sockets \subseteq Conns
    /\ unknown \in [Conns -> {"none", "hello", "refused", "proxy", "ready", "failed"}]
    /\ address \in [Conns -> Addresses \cup {None}]
    /\ proxy \in [Conns -> {"none", "handshake", "ready", "closed"}]
    /\ onDisconnected \in [Conns -> {"none", "unknown", "listener", "server"}]
    /\ m_waitingClients \in Seq(Conns)
    /\ adopted \in Conns \cup {None}
    /\ m_oldClients \subseteq Conns
    /\ faults \in 0..MaxFaults

\* The handler of CLIENT_PROXY_DISCONNECTED tells where the proxy is kept.
Owner(c) ==
    /\ proxy[c] = "none" <=> onDisconnected[c] = "none"
    /\ unknown[c] \in {"proxy", "ready"} <=> onDisconnected[c] = "unknown"
    /\ c \in Range(m_waitingClients) <=> onDisconnected[c] = "listener"
    /\ c = adopted \/ c \in m_oldClients <=> onDisconnected[c] = "server"
    /\ ~(c = adopted /\ c \in m_oldClients)
    /\ unknown[c] \in {"hello", "refused", "failed"} => proxy[c] = "none"
Owned == \A c \in Conns : Owner(c)

\* No client waits twice, and each is called.
InLine(s) == \A i, j \in DOMAIN s : s[i] = s[j] => i = j
Called == InLine(m_waitingClients) /\ Len(m_waitingClients) <= Count(serverQueue, {"connected"})

\* The ClientProxyUnknown objects are at different addresses.
Addressed ==
    /\ \A c \in Conns : unknown[c] = "none" <=> address[c] = None
    /\ \A c, d \in Conns : address[c] = address[d] /\ address[c] # None => c = d

\* What is over has its event under way.
Due(c) ==
    /\ proxy[c] = "closed" => InQueue("disconnected", c)
    /\ unknown[c] = "ready" => InQueue("success", address[c])
    /\ unknown[c] \in {"refused", "failed"} => InQueue("failure", address[c])
AllDue == \A c \in Conns : Due(c)

\* A connection is accepted once: nothing is known of it before, and at most one
\* event will make it known.
Opens(e) == e.type \in {"connecting", "accepted"}
Lone(q) == \A i, j \in DOMAIN q : Opens(q[i]) /\ Opens(q[j]) /\ q[i].at = q[j].at => i = j
Unseen(c) == unknown[c] = "none" /\ proxy[c] = "none"
Fresh ==
    /\ Lone(serverQueue)
    /\ \A e \in Range(serverQueue) : Opens(e) => Unseen(e.at)
    /\ m_stream # None /\ link[m_stream] = "none" =>
          /\ Unseen(m_stream)
          /\ \A e \in Range(serverQueue) : Opens(e) => e.at # m_stream

SInv == ServerTypes /\ Owned /\ Called /\ Addressed /\ AllDue /\ Fresh

----------------------------------------------------------------------------
(* Queues as sets, and how many events they hold.                           *)

\* Positions in a sequence that is one longer, or that lost its head.
LEMMA AppendAt ==
    ASSUME NEW S, NEW q \in Seq(S), NEW e \in S
    PROVE  /\ Append(q, e) \in Seq(S) /\ Len(q) \in Nat /\ Len(Append(q, e)) = Len(q) + 1
           /\ DOMAIN q = 1..Len(q) /\ DOMAIN Append(q, e) = 1..Len(q) + 1
           /\ DOMAIN Append(q, e) = DOMAIN q \cup {Len(q) + 1}
           /\ Len(q) + 1 \notin DOMAIN q
           /\ \A i \in DOMAIN q : Append(q, e)[i] = q[i]
           /\ Append(q, e)[Len(q) + 1] = e
           /\ Range(Append(q, e)) = Range(q) \cup {e}
<1>1. /\ Append(q, e) \in Seq(S) /\ Len(q) \in Nat /\ Len(Append(q, e)) = Len(q) + 1
      /\ DOMAIN q = 1..Len(q) /\ DOMAIN Append(q, e) = 1..Len(q) + 1
      /\ \A i \in 1..Len(q) : Append(q, e)[i] = q[i]
      /\ Append(q, e)[Len(q) + 1] = e
  OBVIOUS
<1>2. 1..Len(q) + 1 = 1..Len(q) \cup {Len(q) + 1} /\ Len(q) + 1 \notin 1..Len(q)
  BY <1>1
<1>3. Range(Append(q, e)) = Range(q) \cup {e}
  BY <1>1, <1>2 DEF Range
<1> QED BY <1>1, <1>2, <1>3

\* The elements of a tail.
LEMMA TailAt ==
    ASSUME NEW S, NEW q \in Seq(S), q # <<>>
    PROVE  /\ Tail(q) \in Seq(S) /\ Head(q) \in S /\ Head(q) = q[1]
           /\ Len(q) \in Nat \ {0} /\ Len(Tail(q)) = Len(q) - 1
           /\ DOMAIN q = 1..Len(q) /\ DOMAIN Tail(q) = 1..Len(q) - 1
           /\ \A i \in DOMAIN Tail(q) : i \in Nat /\ i + 1 \in DOMAIN q /\ i + 1 # 1 /\ Tail(q)[i] = q[i + 1]
           /\ \A i \in DOMAIN q : i = 1 \/ (i - 1 \in DOMAIN Tail(q) /\ i = (i - 1) + 1)
           /\ Range(q) = Range(Tail(q)) \cup {Head(q)}
<1>1. /\ Tail(q) \in Seq(S) /\ Head(q) \in S /\ Head(q) = q[1]
      /\ Len(q) \in Nat \ {0} /\ Len(Tail(q)) = Len(q) - 1
      /\ DOMAIN q = 1..Len(q) /\ DOMAIN Tail(q) = 1..Len(Tail(q))
      /\ \A i \in 1..Len(Tail(q)) : Tail(q)[i] = q[i + 1]
  OBVIOUS
<1>2. /\ \A i \in DOMAIN Tail(q) : i \in Nat /\ i + 1 \in DOMAIN q /\ i + 1 # 1 /\ Tail(q)[i] = q[i + 1]
      /\ \A i \in DOMAIN q : i = 1 \/ (i - 1 \in DOMAIN Tail(q) /\ i = (i - 1) + 1)
      /\ 1 \in DOMAIN q
  BY <1>1
<1>3. \A x : x \in Range(q) <=> x \in Range(Tail(q)) \cup {Head(q)}
  <2>1. ASSUME NEW x \in Range(q) PROVE x \in Range(Tail(q)) \cup {Head(q)}
    <3>1. PICK i \in DOMAIN q : x = q[i]
      BY DEF Range
    <3>2. CASE i = 1
      BY <1>1, <3>1, <3>2
    <3>3. CASE i # 1
      <4>1. i - 1 \in DOMAIN Tail(q) /\ Tail(q)[i - 1] = q[i]
        BY <1>1, <1>2, <3>3
      <4> QED BY <3>1, <4>1 DEF Range
    <3> QED BY <3>2, <3>3
  <2>2. ASSUME NEW x \in Range(Tail(q)) PROVE x \in Range(q)
    BY <1>2 DEF Range
  <2>3. Head(q) \in Range(q)
    BY <1>1, <1>2 DEF Range
  <2> QED BY <2>1, <2>2, <2>3
<1> QED BY <1>1, <1>2, <1>3

\* A count is a number.
LEMMA CountNat ==
    ASSUME NEW S, NEW q \in Seq(S), NEW T
    PROVE  /\ Count(q, T) \in Nat
           /\ IsFiniteSet({i \in DOMAIN q : q[i].type \in T})
           /\ q = <<>> => Count(q, T) = 0
<1>1. DOMAIN q = 1..Len(q) /\ Len(q) \in Nat
  OBVIOUS
<1>2. IsFiniteSet(1..Len(q))
  BY <1>1, FS_Interval
<1>3. {i \in DOMAIN q : q[i].type \in T} \subseteq 1..Len(q)
  BY <1>1
<1>4. IsFiniteSet({i \in DOMAIN q : q[i].type \in T})
  BY <1>2, <1>3, FS_Subset
<1>5. Count(q, T) \in Nat
  BY <1>4, FS_CardinalityType DEF Count
<1>6. ASSUME q = <<>> PROVE Count(q, T) = 0
  <2>1. {i \in DOMAIN q : q[i].type \in T} = {}
    BY <1>6
  <2> QED BY <2>1, FS_EmptySet DEF Count
<1> QED BY <1>4, <1>5, <1>6

\* What appending does to a count.
LEMMA CountAppend ==
    ASSUME NEW S, NEW q \in Seq(S), NEW e \in S, NEW T
    PROVE  Count(Append(q, e), T) = Count(q, T) + One(e.type \in T)
<1> DEFINE A == {i \in DOMAIN q : q[i].type \in T}
           B == {i \in DOMAIN Append(q, e) : Append(q, e)[i].type \in T}
<1>c. Count(q, T) = Cardinality(A) /\ Count(Append(q, e), T) = Cardinality(B)
  BY DEF Count
<1>n. Count(q, T) \in Nat /\ IsFiniteSet(A)
  BY CountNat
<1>1. Len(q) + 1 \notin A
  BY AppendAt
<1>2. CASE e.type \in T
  <2>1. B = A \cup {Len(q) + 1}
    BY <1>2, AppendAt
  <2>2. Cardinality(B) = Cardinality(A) + 1
    BY <1>1, <1>n, <2>1, FS_AddElement
  <2>3. One(e.type \in T) = 1
    BY <1>2 DEF One
  <2> HIDE DEF A, B
  <2> QED BY <1>c, <2>2, <2>3
<1>3. CASE e.type \notin T
  <2>1. B = A
    BY <1>3, AppendAt
  <2>2. One(e.type \in T) = 0
    BY <1>3 DEF One
  <2> HIDE DEF A, B
  <2> QED BY <1>c, <1>n, <2>1, <2>2
<1> QED BY <1>2, <1>3

\* What taking the head does to a count.
LEMMA CountTail ==
    ASSUME NEW S, NEW q \in Seq(S), NEW T, q # <<>>
    PROVE  Count(q, T) = Count(Tail(q), T) + One(Head(q).type \in T)
<1> DEFINE A == {i \in DOMAIN q : q[i].type \in T}
           B == {i \in DOMAIN Tail(q) : Tail(q)[i].type \in T}
           C == A \ {1}
           f == [i \in B |-> i + 1]
<1>0. Tail(q) \in Seq(S)
  BY TailAt
<1>c. Count(q, T) = Cardinality(A) /\ Count(Tail(q), T) = Cardinality(B)
  BY DEF Count
<1>1. IsFiniteSet(A) /\ IsFiniteSet(B) /\ Count(Tail(q), T) \in Nat
  BY <1>0, CountNat
<1>2. \A i \in B : i \in Nat /\ i + 1 \in C
  BY TailAt
<1>3. \A j \in C : j - 1 \in B /\ j = (j - 1) + 1
  <2> SUFFICES ASSUME NEW j \in C PROVE j - 1 \in B /\ j = (j - 1) + 1
    OBVIOUS
  <2>1. j - 1 \in DOMAIN Tail(q) /\ j = (j - 1) + 1
    BY TailAt
  <2>2. Tail(q)[j - 1] = q[j]
    BY <2>1, TailAt
  <2> QED BY <2>1, <2>2
<1>4. f \in Injection(B, C)
  BY <1>2 DEF Injection, IsInjective
<1>5. f \in Surjection(B, C)
  <2>1. f \in [B -> C]
    BY <1>2
  <2>2. ASSUME NEW j \in C PROVE \E i \in B : f[i] = j
    <3>1. j - 1 \in B /\ f[j - 1] = j
      BY <1>3
    <3> QED BY <3>1
  <2> QED BY <2>1, <2>2 DEF Surjection
<1>6. ExistsBijection(B, C)
  BY <1>4, <1>5 DEF ExistsBijection, Bijection
<1>7. Cardinality(C) = Cardinality(B)
  BY <1>1, <1>6, FS_Bijection
<1>8. CASE Head(q).type \in T
  <2>1. 1 \in A
    BY <1>8, TailAt
  <2>2. Cardinality(C) = Cardinality(A) - 1
    BY <1>1, <2>1, FS_RemoveElement
  <2>3. Cardinality(A) \in Nat
    BY <1>1, FS_CardinalityType
  <2>4. One(Head(q).type \in T) = 1
    BY <1>8 DEF One
  <2> HIDE DEF A, B, C
  <2> QED BY <1>7, <1>c, <2>2, <2>3, <2>4
<1>9. CASE Head(q).type \notin T
  <2>1. C = A
    BY <1>9, TailAt
  <2>2. One(Head(q).type \in T) = 0
    BY <1>9 DEF One
  <2> HIDE DEF A, B, C
  <2> QED BY <1>1, <1>7, <1>c, <2>1, <2>2
<1> QED BY <1>8, <1>9

----------------------------------------------------------------------------
(* The bound on restart timers.                                             *)

Steps == Endings \cup {"suspend"}

\* One counts a condition.
LEMMA OneIs == One(TRUE) = 1 /\ One(FALSE) = 0 /\ \A b \in BOOLEAN : One(b) \in {0, 1}
  BY DEF One

\* cleanup() gives up the stream, and posts what starts the next attempt.
LEMMA CleanupBudget ==
    ASSUME ClientTypes, Budget, NEW posted \in Endings, NEW q \in Seq(Posted), cleanup(posted, q),
           retries' = retries, suspends' = suspends, m_connectOnResume' \in BOOLEAN,
           Count(q, Steps) + One(m_connectOnResume') + 1
              <= Count(clientQueue, Steps) + One(m_stream # None) + One(m_connectOnResume)
    PROVE  Budget'
<1>1. Note(posted) \in Posted /\ Note(posted).type = posted /\ posted \in Steps
  BY Posts DEF Steps
<1>2. clientQueue' = Append(q, Note(posted)) /\ m_stream' = None
  BY DEF cleanup
<1>3. Count(clientQueue', Steps) = Count(q, Steps) + One(Note(posted).type \in Steps)
  BY <1>1, <1>2, CountAppend
<1>4. One(Note(posted).type \in Steps) = 1
  BY <1>1, OneIs
<1>5. One(m_stream' # None) = 0
  BY <1>2, OneIs
<1>6. /\ Count(q, Steps) \in Nat /\ Count(clientQueue, Steps) \in Nat
      /\ Count(clientQueue', Steps) = Count(q, Steps) + 1
  BY <1>3, <1>4, CountNat DEF ClientTypes
<1>7. /\ One(m_connectOnResume') \in {0, 1} /\ One(m_connectOnResume) \in {0, 1}
      /\ One(m_stream # None) \in {0, 1}
  BY OneIs DEF ClientTypes
<1>8. retries \in Nat /\ suspends \in Nat /\ suspends \in 0..MaxSuspends
  BY ConnAssumption DEF ClientTypes, Budget
<1>9. retries + Count(clientQueue, Steps) + One(m_stream # None) + One(m_connectOnResume) <= suspends + 1
  BY DEF Budget, Chains, Steps
<1>10. retries' + Count(clientQueue', Steps) + One(m_stream' # None) + One(m_connectOnResume') <= suspends' + 1
  BY <1>5, <1>6, <1>7, <1>8, <1>9
<1> QED BY <1>8, <1>10 DEF Budget, Chains, Steps

\* The arithmetic of Chains.
LEMMA SumUp ==
    \A a, n, s, r, k, o, a1, n1, s1, r1 \in Int :
       a1 + n1 + o + 1 <= a + n + r /\ s1 + r1 <= s + o + 1 /\ a + n + s + r <= k + 1
       => a1 + n1 + s1 + r1 <= k + 1
  OBVIOUS

\* connect() uses up the timer or the note that called for it.
LEMMA ConnectBudget ==
    ASSUME ClientTypes, Budget, NEW suspended, NEW onResume, onResume \in BOOLEAN,
           NEW q \in Seq(Posted), connect(suspended, onResume, q),
           retries' \in Nat, suspends' = suspends,
           retries' + Count(q, Steps) + One(onResume) + 1
              <= retries + Count(clientQueue, Steps) + One(m_connectOnResume)
    PROVE  Budget'
<1>1. clientQueue' = q
  BY DEF connect
<1>2. \/ m_stream' = m_stream /\ m_connectOnResume' = onResume
      \/ m_stream = None /\ m_stream' = None /\ m_connectOnResume' = TRUE
      \/ m_stream = None /\ m_connectOnResume' = onResume
  BY DEF connect
<1>3. Count(q, Steps) \in Nat /\ Count(clientQueue, Steps) \in Nat
  BY CountNat DEF ClientTypes
<1>4. /\ One(onResume) \in {0, 1} /\ One(m_connectOnResume) \in {0, 1}
      /\ One(m_stream # None) \in {0, 1} /\ One(m_stream' # None) \in {0, 1}
  BY OneIs DEF ClientTypes
<1>5. retries \in Nat /\ suspends \in Nat /\ suspends \in 0..MaxSuspends
  BY ConnAssumption DEF ClientTypes, Budget
<1>6. retries + Count(clientQueue, Steps) + One(m_stream # None) + One(m_connectOnResume) <= suspends + 1
  BY DEF Budget, Chains, Steps
<1>7. One(m_stream' # None) + One(m_connectOnResume') <= One(m_stream # None) + One(onResume) + 1
  <2>1. CASE m_stream' = m_stream /\ m_connectOnResume' = onResume
    BY <1>4, <2>1
  <2>2. CASE m_stream = None /\ m_stream' = None /\ m_connectOnResume' = TRUE
    <3>1. One(m_stream' # None) = 0 /\ One(m_stream # None) = 0 /\ One(m_connectOnResume') = 1
      BY <2>2, OneIs
    <3> QED BY <1>4, <3>1
  <2>3. CASE m_stream = None /\ m_connectOnResume' = onResume
    <3>1. One(m_connectOnResume') = One(onResume)
      BY <2>3
    <3> QED BY <1>4, <3>1
  <2> QED BY <1>2, <2>1, <2>2, <2>3
<1>8. One(m_connectOnResume') \in {0, 1}
  <2>1. m_connectOnResume' \in BOOLEAN
    BY <1>2
  <2> QED BY <2>1, OneIs
<1>9. retries' + Count(clientQueue', Steps) + One(m_stream' # None) + One(m_connectOnResume') <= suspends' + 1
  <2>1. /\ retries \in Int /\ retries' \in Int /\ suspends + 1 \in Int
        /\ Count(q, Steps) \in Int /\ Count(clientQueue, Steps) \in Int
    BY <1>3, <1>5
  <2>2. /\ One(onResume) \in Int /\ One(m_connectOnResume) \in Int /\ One(m_stream # None) \in Int
        /\ One(m_stream' # None) \in Int /\ One(m_connectOnResume') \in Int
    BY <1>4, <1>8
  <2>3. retries' + Count(q, Steps) + One(m_stream' # None) + One(m_connectOnResume') <= suspends + 1
    <3>1. PICK s \in Int, s1 \in Int, r \in Int, r1 \in Int, o \in Int, n \in Int, n1 \in Int :
            /\ s = One(m_stream # None) /\ s1 = One(m_stream' # None) /\ r = One(m_connectOnResume)
            /\ r1 = One(m_connectOnResume') /\ o = One(onResume)
            /\ n = Count(clientQueue, Steps) /\ n1 = Count(q, Steps)
      BY <2>1, <2>2
    <3>2. PICK a \in Int, a1 \in Int, k \in Int : a = retries /\ a1 = retries' /\ k = suspends
      BY <1>5, <2>1
    <3>3. a1 + n1 + o + 1 <= a + n + r /\ s1 + r1 <= s + o + 1 /\ a + n + s + r <= k + 1
      BY <1>6, <1>7, <3>1, <3>2
    <3>4. a1 + n1 + s1 + r1 <= k + 1
      BY <3>3, SumUp
    <3> QED BY <3>1, <3>2, <3>4
  <2> QED BY <1>1, <2>3
<1> QED BY <1>5, <1>9 DEF Budget, Chains, Steps

\* A step that only takes the head off the queue or puts an event that starts
\* nothing, and leaves the rest as it is.
LEMMA QuietBudget ==
    ASSUME ClientTypes, Budget, retries' = retries, suspends' = suspends, m_stream' = m_stream,
           m_connectOnResume' = m_connectOnResume,
           Count(clientQueue', Steps) \in Nat,
           Count(clientQueue', Steps) <= Count(clientQueue, Steps)
    PROVE  Budget'
<1>0. Count(clientQueue, Steps) \in Nat
  BY CountNat DEF ClientTypes
<1>1. retries \in Nat /\ suspends \in Nat /\ suspends \in 0..MaxSuspends
      /\ Count(clientQueue, Steps) \in Nat
  BY <1>0, ConnAssumption DEF ClientTypes, Budget
<1>2. One(m_connectOnResume) \in {0, 1} /\ One(m_stream # None) \in {0, 1}
  BY OneIs DEF ClientTypes
<1>3. retries + Count(clientQueue, Steps) + One(m_stream # None) + One(m_connectOnResume) <= suspends + 1
  BY DEF Budget, Chains, Steps
<1>4. retries + Count(clientQueue', Steps) + One(m_stream # None) + One(m_connectOnResume) <= suspends + 1
  BY <1>1, <1>2, <1>3
<1>5. One(m_stream' # None) = One(m_stream # None) /\ One(m_connectOnResume') = One(m_connectOnResume)
  OBVIOUS
<1> QED BY <1>1, <1>4, <1>5 DEF Budget, Chains, Steps

\* What the heads of the queue and the notes count for.
LEMMA StepTypes ==
    /\ "failed" \in Steps /\ "disconnected" \in Steps /\ "suspend" \in Steps
    /\ "resume" \notin Steps
    /\ \A t \in StreamTypes : t \notin Steps
    /\ \A e \in Posted : e.at # None => e.type \notin Steps
  BY ConnAssumption DEF Steps, Endings, StreamTypes, ServerMessages, Posted

\* The count after a step that takes the head, which is or is not one of Steps.
LEMMA HeadCounts ==
    ASSUME ClientTypes, clientQueue # <<>>
    PROVE  /\ Tail(clientQueue) \in Seq(Posted) /\ Count(Tail(clientQueue), Steps) \in Nat
           /\ Count(clientQueue, Steps) \in Nat
           /\ Head(clientQueue).type \in Steps =>
                 Count(clientQueue, Steps) = Count(Tail(clientQueue), Steps) + 1
           /\ Head(clientQueue).type \notin Steps =>
                 Count(clientQueue, Steps) = Count(Tail(clientQueue), Steps)
<1>1. clientQueue \in Seq(Posted)
  BY DEF ClientTypes
<1>2. Tail(clientQueue) \in Seq(Posted)
  BY <1>1, TailAt
<1>3. Count(Tail(clientQueue), Steps) \in Nat /\ Count(clientQueue, Steps) \in Nat
  BY <1>1, <1>2, CountNat
<1>4. Count(clientQueue, Steps) = Count(Tail(clientQueue), Steps) + One(Head(clientQueue).type \in Steps)
  BY <1>1, CountTail
<1>5. ASSUME Head(clientQueue).type \in Steps
      PROVE  Count(clientQueue, Steps) = Count(Tail(clientQueue), Steps) + 1
  <2>1. One(Head(clientQueue).type \in Steps) = 1
    BY <1>5, OneIs
  <2> QED BY <1>4, <2>1
<1>6. ASSUME Head(clientQueue).type \notin Steps
      PROVE  Count(clientQueue, Steps) = Count(Tail(clientQueue), Steps)
  <2>1. One(Head(clientQueue).type \in Steps) = 0
    BY <1>6 DEF One
  <2> QED BY <1>3, <1>4, <2>1
<1> QED BY <1>2, <1>3, <1>5, <1>6

\* A step that puts an event that starts nothing.
LEMMA PostBudget ==
    ASSUME ClientTypes, Budget, NEW e \in Posted, e.type \notin Steps,
           clientQueue' = Append(clientQueue, e), retries' = retries, suspends' = suspends,
           m_stream' = m_stream, m_connectOnResume' = m_connectOnResume
    PROVE  Budget'
<1>1. clientQueue \in Seq(Posted)
  BY DEF ClientTypes
<1>2. Count(clientQueue', Steps) = Count(clientQueue, Steps) + One(e.type \in Steps)
  BY <1>1, CountAppend
<1>3. One(e.type \in Steps) = 0
  BY DEF One
<1>4. Count(clientQueue, Steps) \in Nat
  BY <1>1, CountNat
<1>5. Count(clientQueue', Steps) \in Nat /\ Count(clientQueue', Steps) <= Count(clientQueue, Steps)
  BY <1>2, <1>3, <1>4
<1> QED BY <1>5, QuietBudget

\* The first attempt is the only one.
LEMMA BudgetInit == Init => Budget
<1> SUFFICES ASSUME Init PROVE Budget
  OBVIOUS
<1>1. clientQueue \in Seq(Posted) /\ clientQueue = <<>>
  BY DEF Init
<1>2. Count(clientQueue, Steps) = 0
  BY <1>1, CountNat
<1>3. retries = 0 /\ suspends = 0 /\ One(m_connectOnResume) = 0
  BY OneIs DEF Init
<1>4. One(m_stream # None) \in {0, 1}
  BY OneIs
<1>5. retries + Count(clientQueue, Steps) + One(m_stream # None) + One(m_connectOnResume) <= suspends + 1
  BY <1>2, <1>3, <1>4
<1>6. suspends \in 0..MaxSuspends
  BY <1>3, ConnAssumption
<1> QED BY <1>5, <1>6 DEF Budget, Chains, Steps

\* Every step keeps the number of chains of attempts within the sleeps there were.
LEMMA BudgetStep == IInv /\ Budget /\ [Next]_vars => Budget'
<1> SUFFICES ASSUME IInv, Budget, [Next]_vars PROVE Budget'
  OBVIOUS
<1>i. ClientTypes /\ Attempts /\ Stages
  BY DEF IInv
<1>t. /\ m_connectOnResume \in BOOLEAN /\ clientQueue \in Seq(Posted)
      /\ m_stream \in Conns \cup {None} /\ retries \in Nat /\ suspends \in Nat
  BY <1>i, ConnAssumption DEF ClientTypes, Budget
<1>n. /\ \A t \in Endings \cup {"suspend", "resume"} : Note(t) \in Posted /\ Note(t).type = t
      /\ "failed" \in Endings /\ "disconnected" \in Endings
  BY Posts DEF Endings
<1>c. Count(clientQueue, Steps) \in Nat
  BY <1>t, CountNat
<1>o. One(m_connectOnResume) \in {0, 1} /\ One(m_stream # None) \in {0, 1}
  BY <1>t, OneIs
<1>s. retries + Count(clientQueue, Steps) + One(m_stream # None) + One(m_connectOnResume) <= suspends + 1
  BY DEF Budget, Chains, Steps
<1>q. ASSUME UNCHANGED clientVars, suspends' = suspends PROVE Budget'
  BY <1>q, <1>i, <1>c, QuietBudget DEF clientVars
<1>1. CASE tcpConnect \/ tcpRefuse
  <2>1. m_stream \in Conns
    BY <1>1, <1>i DEF tcpConnect, tcpRefuse, Stages, ClientTypes
  <2>2. /\ Event("connected", m_stream) \in Posted /\ Event("connected", m_stream).type \notin Steps
        /\ Event("refused", m_stream) \in Posted /\ Event("refused", m_stream).type \notin Steps
    <3>1. "connected" \in StreamTypes /\ "refused" \in StreamTypes
      BY DEF StreamTypes
    <3> QED BY <2>1, <3>1, Posts, StepTypes
  <2> QED BY <1>1, <1>i, <2>2, PostBudget DEF tcpConnect, tcpRefuse, boundVars
<1>2. CASE sleep
  <2>1. Note("suspend") \in Posted /\ Note("suspend").type \in Steps
    BY <1>n, StepTypes
  <2>2. clientQueue' = Append(clientQueue, Note("suspend")) /\ suspends' = suspends + 1
        /\ suspends < MaxSuspends
        /\ UNCHANGED <<m_stream, retries, m_connectOnResume>>
    BY <1>2 DEF sleep
  <2>3. Count(clientQueue', Steps) = Count(clientQueue, Steps) + One(Note("suspend").type \in Steps)
    BY <1>t, <2>1, <2>2, CountAppend
  <2>4. One(Note("suspend").type \in Steps) = 1
    BY <2>1, OneIs
  <2>5. One(m_stream' # None) = One(m_stream # None) /\ One(m_connectOnResume') = One(m_connectOnResume)
    BY <2>2
  <2>6. retries' + Count(clientQueue', Steps) + One(m_stream' # None) + One(m_connectOnResume') <= suspends' + 1
    BY <1>t, <1>c, <1>o, <1>s, <2>2, <2>3, <2>4, <2>5
  <2>7. suspends' \in 0..MaxSuspends
    BY <1>t, <2>2, ConnAssumption
  <2> QED BY <2>6, <2>7 DEF Budget, Chains, Steps
<1>3. CASE wake
  <2>1. Note("resume") \in Posted /\ Note("resume").type \notin Steps
    BY <1>n, StepTypes
  <2> QED BY <1>3, <1>i, <2>1, PostBudget DEF wake, boundVars
<1>4. CASE closeClients \/ ServerEvent
  <2>1. CASE closeClients
    BY <2>1, <1>q DEF closeClients
  <2>2. CASE ServerEvent
    <3>1. UNCHANGED clientVars
      BY <1>i, <2>2, ServerEventTypes DEF ClientTypes
    <3>2. suspends' = suspends
      BY <2>2 DEF ServerEvent, handle_client_connecting, handle_client_accepted, handle_data,
                  parseHandshakeMessage, handle_disconnect, handle_ready, handle_unknown_client,
                  handle_client_connected, handle_client_disconnected, boundVars
    <3> QED BY <1>q, <3>1, <3>2
  <2> QED BY <1>4, <2>1, <2>2
<1>5. CASE dispatchStream
  <2>1. /\ clientQueue # <<>> /\ Head(clientQueue).at # None
        /\ retries' = retries /\ m_connectOnResume' = m_connectOnResume /\ suspends' = suspends
    BY <1>5 DEF dispatchStream, boundVars
  <2>2. Head(clientQueue).type \notin Steps
    BY <1>t, <2>1, TailAt, StepTypes
  <2>3. /\ Tail(clientQueue) \in Seq(Posted) /\ Count(Tail(clientQueue), Steps) \in Nat
        /\ Count(clientQueue, Steps) = Count(Tail(clientQueue), Steps)
    BY <1>i, <2>1, <2>2, HeadCounts
  <2>4. CASE clientQueue' = Tail(clientQueue) /\ m_stream' = m_stream
    <3>1. Count(clientQueue', Steps) \in Nat /\ Count(clientQueue', Steps) <= Count(clientQueue, Steps)
      BY <2>3, <2>4
    <3> QED BY <1>i, <2>1, <2>4, <3>1, QuietBudget
  <2>5. ASSUME NEW posted \in Endings, cleanup(posted, Tail(clientQueue)), Head(clientQueue).at = m_stream
        PROVE  Budget'
    <3>1. One(m_stream # None) = 1
      BY <2>1, <2>5, OneIs
    <3>2. One(m_connectOnResume') = One(m_connectOnResume) /\ m_connectOnResume' \in BOOLEAN
      BY <1>t, <2>1
    <3>3. Count(Tail(clientQueue), Steps) + One(m_connectOnResume') + 1
              <= Count(clientQueue, Steps) + One(m_stream # None) + One(m_connectOnResume)
      BY <1>o, <2>3, <3>1, <3>2
    <3> QED BY <1>i, <2>1, <2>3, <2>5, <3>2, <3>3, CleanupBudget
  <2>6. CASE Head(clientQueue).at = m_stream /\ StreamEvent
    <3>1. \/ clientQueue' = Tail(clientQueue) /\ m_stream' = m_stream
          \/ cleanup("failed", Tail(clientQueue))
          \/ cleanup("disconnected", Tail(clientQueue))
      BY <2>6 DEF StreamEvent
    <3> QED BY <1>n, <2>4, <2>5, <2>6, <3>1
  <2> QED BY <1>5, <2>4, <2>6 DEF dispatchStream
<1>6. CASE scheduleClientRestart
  <2>1. /\ clientQueue # <<>> /\ Head(clientQueue).type \in Steps
        /\ retries' = retries + 1 /\ clientQueue' = Tail(clientQueue)
        /\ UNCHANGED <<m_stream, m_connectOnResume, suspends>>
    BY <1>6, StepTypes DEF scheduleClientRestart, Handle, boundVars
  <2>2. Count(clientQueue', Steps) \in Nat /\ Count(clientQueue, Steps) = Count(clientQueue', Steps) + 1
    BY <1>i, <2>1, HeadCounts
  <2>3. One(m_stream' # None) = One(m_stream # None) /\ One(m_connectOnResume') = One(m_connectOnResume)
    BY <2>1
  <2>4. retries' + Count(clientQueue', Steps) + One(m_stream' # None) + One(m_connectOnResume') <= suspends' + 1
    BY <1>t, <1>o, <1>s, <2>1, <2>2, <2>3
  <2>5. suspends' \in 0..MaxSuspends
    BY <2>1 DEF Budget
  <2> QED BY <2>4, <2>5 DEF Budget, Chains, Steps
<1>7. CASE handle_suspend
  <2>1. /\ clientQueue # <<>> /\ Head(clientQueue).type \in Steps
        /\ cleanup("disconnected", Tail(clientQueue))
        /\ m_connectOnResume' = (stage \in {"handshake", "ready"})
        /\ retries' = retries /\ suspends' = suspends
    BY <1>7, StepTypes DEF handle_suspend, Handle, boundVars
  <2>2. /\ Tail(clientQueue) \in Seq(Posted) /\ Count(Tail(clientQueue), Steps) \in Nat
        /\ Count(clientQueue, Steps) = Count(Tail(clientQueue), Steps) + 1
    BY <1>i, <2>1, HeadCounts
  <2>3. One(m_connectOnResume') <= One(m_stream # None) /\ One(m_connectOnResume') \in {0, 1}
    <3>1. CASE stage \in {"handshake", "ready"}
      <4>1. m_stream # None
        BY <1>i, <3>1 DEF Stages
      <4>2. One(m_stream # None) = 1 /\ One(m_connectOnResume') = 1
        BY <2>1, <3>1, <4>1, OneIs
      <4> QED BY <4>2
    <3>2. CASE stage \notin {"handshake", "ready"}
      <4>1. One(m_connectOnResume') = 0
        BY <2>1, <3>2 DEF One
      <4> QED BY <1>o, <4>1
    <3> QED BY <3>1, <3>2
  <2>4. Count(Tail(clientQueue), Steps) + One(m_connectOnResume') + 1
              <= Count(clientQueue, Steps) + One(m_stream # None) + One(m_connectOnResume)
    BY <1>o, <2>2, <2>3
  <2>5. m_connectOnResume' \in BOOLEAN
    BY <2>1
  <2> QED BY <1>i, <1>n, <2>1, <2>2, <2>4, <2>5, CleanupBudget
<1>8. CASE handle_resume
  <2>1. /\ clientQueue # <<>> /\ Head(clientQueue).type \notin Steps
        /\ retries' = retries /\ suspends' = suspends
    BY <1>8, StepTypes DEF handle_resume, Handle, boundVars
  <2>2. /\ Tail(clientQueue) \in Seq(Posted) /\ Count(Tail(clientQueue), Steps) \in Nat
        /\ Count(clientQueue, Steps) = Count(Tail(clientQueue), Steps)
    BY <1>i, <2>1, HeadCounts
  <2>3. CASE m_connectOnResume
    <3>1. connect(FALSE, FALSE, Tail(clientQueue))
      BY <1>8, <2>3 DEF handle_resume
    <3>2. FALSE \in BOOLEAN
      OBVIOUS
    <3>5. One(m_connectOnResume) = 1
      BY <2>3 DEF One
    <3>6. One(FALSE) = 0
      BY DEF One
    <3>3. retries' + Count(Tail(clientQueue), Steps) + One(FALSE) + 1
              <= retries + Count(clientQueue, Steps) + One(m_connectOnResume)
      <4>1. retries + Count(clientQueue, Steps) + 0 + 1 <= retries + Count(clientQueue, Steps) + 1
        BY <1>t, <1>c
      <4> QED BY <2>1, <2>2, <3>5, <3>6, <4>1, Zenon
    <3>4. retries' \in Nat
      BY <1>t, <2>1
    <3> QED BY <1>i, <2>1, <2>2, <3>1, <3>2, <3>3, <3>4, ConnectBudget
  <2>4. CASE ~m_connectOnResume
    <3>1. clientQueue' = Tail(clientQueue) /\ m_stream' = m_stream /\ m_connectOnResume' = m_connectOnResume
      BY <1>8, <2>4 DEF handle_resume
    <3>2. Count(clientQueue', Steps) \in Nat /\ Count(clientQueue', Steps) <= Count(clientQueue, Steps)
      BY <2>2, <3>1
    <3> QED BY <1>i, <2>1, <3>1, <3>2, QuietBudget
  <2> QED BY <2>3, <2>4
<1>9. CASE handle_client_restart
  <2>1. /\ retries' = retries - 1 /\ retries > 0 /\ suspends' = suspends
        /\ connect(m_suspended, m_connectOnResume, clientQueue)
    BY <1>9 DEF handle_client_restart, boundVars
  <2>2. retries' \in Nat
    BY <1>t, <2>1
  <2>3. retries' + Count(clientQueue, Steps) + One(m_connectOnResume) + 1
              <= retries + Count(clientQueue, Steps) + One(m_connectOnResume)
    BY <1>t, <1>c, <1>o, <2>1
  <2> QED BY <1>i, <1>t, <2>1, <2>2, <2>3, ConnectBudget
<1>10. CASE handle_connect_timeout \/ handle_keep_alive_alarm
  <2>1. /\ cleanup("failed", clientQueue) /\ retries' = retries /\ suspends' = suspends
        /\ m_connectOnResume' \in {m_connectOnResume, FALSE}
    BY <1>10 DEF handle_connect_timeout, handle_keep_alive_alarm, boundVars
  <2>2. m_stream # None
    BY <1>10, <1>i DEF handle_connect_timeout, handle_keep_alive_alarm, Stages
  <2>3. One(m_stream # None) = 1
    BY <2>2, OneIs
  <2>4. One(m_connectOnResume') <= One(m_connectOnResume) /\ One(m_connectOnResume') \in {0, 1}
        /\ m_connectOnResume' \in BOOLEAN
    <3>1. CASE m_connectOnResume' = m_connectOnResume
      BY <1>t, <1>o, <3>1
    <3>2. CASE m_connectOnResume' = FALSE
      <4>1. One(m_connectOnResume') = 0
        BY <3>2, OneIs
      <4>2. One(m_connectOnResume') <= One(m_connectOnResume) /\ One(m_connectOnResume') \in {0, 1}
        BY <1>o, <4>1
      <4> QED BY <3>2, <4>2
    <3> QED BY <2>1, <3>1, <3>2
  <2>5. Count(clientQueue, Steps) + One(m_connectOnResume') + 1
              <= Count(clientQueue, Steps) + One(m_stream # None) + One(m_connectOnResume)
    BY <1>o, <1>c, <2>3, <2>4
  <2> QED BY <1>i, <1>n, <1>t, <2>1, <2>4, <2>5, CleanupBudget
<1>11. ASSUME NEW c \in Conns, goSilent(c) \/ Reads(c) \/ ServerTimer(c) PROVE Budget'
  <2>1. CASE goSilent(c)
    BY <1>q, <2>1 DEF goSilent
  <2>2. CASE serverReads(c)
    BY <1>q, <2>2 DEF serverReads, boundVars
  <2>3. CASE clientReads(c)
    <3>1. toClient[c] \in Seq(ServerMessages) /\ toClient[c] # <<>>
      BY <1>i, <2>3 DEF clientReads, ClientTypes
    <3>2. Head(toClient[c]) \in StreamTypes
      BY <3>1 DEF StreamTypes
    <3>3. Event(Head(toClient[c]), c) \in Posted /\ Event(Head(toClient[c]), c).type \notin Steps
      BY <3>2, Posts, StepTypes
    <3>4. clientQueue' = Append(clientQueue, Event(Head(toClient[c]), c))
          /\ UNCHANGED <<m_stream, retries, m_connectOnResume, suspends>>
      BY <2>3 DEF clientReads, boundVars
    <3> QED BY <1>i, <3>3, <3>4, PostBudget
  <2>4. CASE ServerTimer(c)
    <3>1. UNCHANGED clientVars
      BY <1>i, <2>4, ServerTimerTypes DEF ClientTypes
    <3>2. suspends' = suspends
      BY <2>4 DEF ServerTimer, handle_timeout, handle_flatline, handle_client_close_timeout, boundVars
    <3> QED BY <1>q, <3>1, <3>2
  <2> QED BY <1>11, <2>1, <2>2, <2>3, <2>4 DEF Reads
<1>12. CASE UNCHANGED vars
  BY <1>q, <1>12 DEF vars, boundVars
<1> QED BY <1>1, <1>2, <1>3, <1>4, <1>5, <1>6, <1>7, <1>8, <1>9, <1>10, <1>11, <1>12
        DEF Next, ClientEvent, ClientTimer

----------------------------------------------------------------------------
(* The server's queue.                                                      *)

\* What the server's threads and handlers post, and whom it is about.
LEMMA Dispatches ==
    /\ \A t \in SocketTypes, c \in Conns : Event(t, c) \in Dispatched
    /\ \A t \in {"success", "failure"}, a \in Addresses : Event(t, a) \in Dispatched
    /\ Note("connected") \in Dispatched
    /\ \A e \in Dispatched : /\ e.type \in SocketTypes => e.at \in Conns
                             /\ e.type \in {"success", "failure"} => e.at \in Addresses
                             /\ Opens(e) => e.at \in Conns
    /\ ClientMessages \subseteq SocketTypes
    /\ \A t \in ClientMessages : t \notin {"connecting", "accepted", "connected", "disconnected", "success", "failure"}
  BY DEF Dispatched, SocketTypes, ClientMessages, Event, Note, Opens

\* What an event is about.
LEMMA EventIs == \A t, c : Event(t, c).type = t /\ Event(t, c).at = c
  BY DEF Event

\* Taking the head leaves at most one event that makes a connection known.
LEMMA LoneTail ==
    ASSUME NEW q \in Seq(Dispatched), q # <<>>, Lone(q)
    PROVE  /\ Lone(Tail(q))
           /\ Opens(Head(q)) => \A e \in Range(Tail(q)) : Opens(e) => e.at # Head(q).at
<1>1. /\ \A i \in DOMAIN Tail(q) : i \in Nat /\ i + 1 \in DOMAIN q /\ i + 1 # 1 /\ Tail(q)[i] = q[i + 1]
      /\ Head(q) = q[1] /\ 1 \in DOMAIN q
  BY TailAt
<1>2. ASSUME NEW i \in DOMAIN Tail(q), NEW j \in DOMAIN Tail(q),
             Opens(Tail(q)[i]), Opens(Tail(q)[j]), Tail(q)[i].at = Tail(q)[j].at
      PROVE  i = j
  <2>1. i + 1 = j + 1
    BY <1>1, <1>2 DEF Lone
  <2> QED BY <1>1, <2>1
<1>3. ASSUME Opens(Head(q)), NEW e \in Range(Tail(q)), Opens(e) PROVE e.at # Head(q).at
  <2>1. PICK i \in DOMAIN Tail(q) : e = Tail(q)[i]
    BY DEF Range
  <2>2. e = q[i + 1] /\ i + 1 \in DOMAIN q /\ i + 1 # 1
    BY <1>1, <2>1
  <2> QED BY <1>1, <1>3, <2>2 DEF Lone
<1>4. Lone(Tail(q))
  BY <1>2 DEF Lone
<1> QED BY <1>3, <1>4

\* Posting the first event that makes a connection known.
LEMMA LoneAppend ==
    ASSUME NEW q \in Seq(Dispatched), Lone(q), NEW e \in Dispatched,
           Opens(e) => \A x \in Range(q) : Opens(x) => x.at # e.at
    PROVE  Lone(Append(q, e))
<1>1. /\ DOMAIN Append(q, e) = DOMAIN q \cup {Len(q) + 1}
      /\ \A i \in DOMAIN q : Append(q, e)[i] = q[i] /\ q[i] \in Range(q)
      /\ Append(q, e)[Len(q) + 1] = e
  BY AppendAt DEF Range
<1> QED BY <1>1 DEF Lone

\* The queue after a step that took the head or not, and posted an event or not
\* that makes no connection known.
LEMMA Queued ==
    ASSUME ServerTypes, Lone(serverQueue), NEW q,
           q = serverQueue \/ (serverQueue # <<>> /\ q = Rest),
           serverQueue' = q \/ \E e \in Dispatched : ~Opens(e) /\ serverQueue' = Append(q, e)
    PROVE  /\ serverQueue' \in Seq(Dispatched) /\ Lone(serverQueue')
           /\ \A x \in Range(serverQueue') : Opens(x) => x \in Range(serverQueue)
           /\ Range(q) \subseteq Range(serverQueue')
           /\ Count(q, {"connected"}) \in Nat /\ Count(serverQueue', {"connected"}) \in Nat
           /\ Count(q, {"connected"}) <= Count(serverQueue', {"connected"})
<1>1. serverQueue \in Seq(Dispatched)
  BY DEF ServerTypes
<1>2. q \in Seq(Dispatched) /\ Lone(q) /\ Range(q) \subseteq Range(serverQueue)
  <2>1. CASE q = serverQueue
    BY <1>1, <2>1
  <2>2. CASE serverQueue # <<>> /\ q = Rest
    BY <1>1, <2>2, LoneTail, TailAt DEF Rest
  <2> QED BY <2>1, <2>2
<1>3. Count(q, {"connected"}) \in Nat
  BY <1>2, CountNat
<1>4. CASE serverQueue' = q
  BY <1>2, <1>3, <1>4
<1>5. CASE \E e \in Dispatched : ~Opens(e) /\ serverQueue' = Append(q, e)
  <2>1. PICK e \in Dispatched : ~Opens(e) /\ serverQueue' = Append(q, e)
    BY <1>5
  <2>2. Append(q, e) \in Seq(Dispatched) /\ Range(Append(q, e)) = Range(q) \cup {e}
    BY <1>2, AppendAt
  <2>3. Lone(Append(q, e))
    BY <1>2, <2>1, LoneAppend
  <2>4. Count(Append(q, e), {"connected"}) = Count(q, {"connected"}) + One(e.type \in {"connected"})
    BY <1>2, CountAppend
  <2>5. One(e.type \in {"connected"}) \in {0, 1}
    BY DEF One
  <2>6. Count(Append(q, e), {"connected"}) \in Nat
        /\ Count(q, {"connected"}) <= Count(Append(q, e), {"connected"})
    BY <1>3, <2>4, <2>5
  <2>7. /\ \A x \in Range(Append(q, e)) : Opens(x) => x \in Range(serverQueue)
        /\ Range(q) \subseteq Range(Append(q, e))
    BY <1>2, <2>1, <2>2
  <2> QED BY <1>3, <2>1, <2>2, <2>3, <2>6, <2>7
<1> QED BY <1>4, <1>5

----------------------------------------------------------------------------
(* The server's steps.                                                      *)

\* What a step leaves alone when it is about connection c.
Others(c) ==
    \A d \in Conns : d # c =>
       /\ unknown'[d] = unknown[d] /\ address'[d] = address[d]
       /\ proxy'[d] = proxy[d] /\ onDisconnected'[d] = onDisconnected[d]
       /\ d \in Range(m_waitingClients') <=> d \in Range(m_waitingClients)
       /\ d = adopted' <=> d = adopted
       /\ d \in m_oldClients' <=> d \in m_oldClients

\* The events that are due for others than c stay in the queue.
Keeps(c) ==
    \A x \in Range(serverQueue) :
       \/ x \in Range(serverQueue')
       \/ x.type \notin {"disconnected", "success", "failure"}
       \/ x.type = "disconnected" /\ x.at = c
       \/ x.type \in {"success", "failure"} /\ \A d \in Conns : d # c => address[d] # x.at

\* The queue after a step that accepts no connection.
NoOpening ==
    /\ serverQueue' \in Seq(Dispatched) /\ Lone(serverQueue')
    /\ \A x \in Range(serverQueue') : Opens(x) => x \in Range(serverQueue)

\* A step that accepts no connection and lets none be known that was not.
LEMMA FreshKept ==
    ASSUME SInv, m_stream \in Conns \cup {None}, m_stream' = m_stream, link' = link, NoOpening,
           \A d \in Conns : Unseen(d) => Unseen(d)'
    PROVE  Fresh'
<1> USE DEF SInv
<1>1. ASSUME NEW e \in Range(serverQueue'), Opens(e)
      PROVE  Unseen(e.at)' /\ e \in Range(serverQueue)
  <2>1. e \in Range(serverQueue)
    BY <1>1 DEF NoOpening
  <2>2. Unseen(e.at) /\ e \in Dispatched
    <3>1. Unseen(e.at)
      BY <1>1, <2>1 DEF Fresh
    <3>2. serverQueue \in Seq(Dispatched)
      BY DEF ServerTypes
    <3>3. PICK i \in DOMAIN serverQueue : e = serverQueue[i]
      BY <2>1 DEF Range
    <3> QED BY <3>1, <3>2, <3>3
  <2>3. e.at \in Conns
    BY <1>1, <2>2, Dispatches
  <2> QED BY <2>1, <2>2, <2>3
<1>2. ASSUME m_stream # None, link[m_stream] = "none"
      PROVE  Unseen(m_stream)' /\ \A e \in Range(serverQueue') : Opens(e) => e.at # m_stream
  <2>0. PICK m \in Conns : m = m_stream
    BY <1>2
  <2>1. Unseen(m) /\ Unseen(m)'
    BY <1>2, <2>0 DEF Fresh
  <2>2. Unseen(m_stream)'
    BY <2>0, <2>1 DEF Unseen
  <2> QED BY <1>1, <1>2, <2>2 DEF Fresh
<1>3. Unseen(m_stream)' <=> unknown'[m_stream'] = "none" /\ proxy'[m_stream'] = "none"
  BY DEF Unseen
<1> QED BY <1>1, <1>2, <1>3 DEF Fresh, NoOpening, Unseen

\* A step that is about one connection keeps the invariant if it does so for it.
LEMMA OneChanges ==
    ASSUME SInv, ServerTypes', m_stream \in Conns \cup {None}, m_stream' = m_stream, link' = link,
           NEW c \in Conns, Others(c), Keeps(c), NoOpening,
           address'[c] = address[c] \/ address'[c] = None,
           unknown'[c] = "none" <=> address'[c] = None,
           Owner(c)', Due(c)', Called',
           Unseen(c) => Unseen(c)'
    PROVE  SInv'
<1> USE DEF SInv
<1>1. ASSUME NEW d \in Conns, d # c PROVE Owner(d)' /\ Due(d)' /\ (Unseen(d) <=> Unseen(d)')
  <2>1. /\ unknown'[d] = unknown[d] /\ address'[d] = address[d]
        /\ proxy'[d] = proxy[d] /\ onDisconnected'[d] = onDisconnected[d]
        /\ d \in Range(m_waitingClients') <=> d \in Range(m_waitingClients)
        /\ d = adopted' <=> d = adopted
        /\ d \in m_oldClients' <=> d \in m_oldClients
    BY <1>1 DEF Others
  <2>2. Owner(d) /\ Due(d)
    BY DEF Owned, AllDue
  <2>3. Owner(d)'
    BY <2>1, <2>2 DEF Owner
  <2>4. ASSUME NEW x \in Range(serverQueue),
               \/ x = Event("disconnected", d)
               \/ x = Event("success", address[d])
               \/ x = Event("failure", address[d])
        PROVE  x \in Range(serverQueue')
    BY <1>1, <2>4, EventIs DEF Keeps
  <2>5. Due(d)'
    BY <2>1, <2>2, <2>4 DEF Due, InQueue
  <2>6. Unseen(d) <=> Unseen(d)'
    BY <2>1 DEF Unseen
  <2> QED BY <2>3, <2>5, <2>6
<1>2. Owned'
  BY <1>1 DEF Owned
<1>3. AllDue'
  BY <1>1 DEF AllDue
<1>4. Addressed'
  <2>1. \A d \in Conns : unknown'[d] = "none" <=> address'[d] = None
    BY DEF Others, Addressed
  <2>2. \A d \in Conns : address'[d] = address[d] \/ address'[d] = None
    BY DEF Others
  <2> QED BY <2>1, <2>2 DEF Addressed
<1>5. \A d \in Conns : Unseen(d) => Unseen(d)'
  BY <1>1
<1>6. Fresh'
  BY <1>5, FreshKept
<1> QED BY <1>2, <1>3, <1>4, <1>6

\* The network's part of a step of the server.
LEMMA NetKept ==
    ASSUME ServerTypes, NEW c, UNCHANGED netVars \/ Close(c)
    PROVE  link' = link /\ toServer' \in [Conns -> Seq(ClientMessages)]
<1>1. CASE UNCHANGED netVars
  BY <1>1 DEF netVars, ServerTypes
<1>2. CASE Close(c)
  <2>1. <<>> \in Seq(ClientMessages) /\ toServer \in [Conns -> Seq(ClientMessages)]
    BY DEF ServerTypes
  <2>2. link' = link /\ toServer' = [toServer EXCEPT ![c] = <<>>]
    BY <1>2 DEF Close
  <2> QED BY <2>1, <2>2
<1> QED BY <1>1, <1>2

\* Nobody leaves the line, and no call is lost.
LEMMA CalledKept ==
    ASSUME ServerTypes, Called, m_waitingClients' = m_waitingClients,
           NEW q, q = serverQueue \/ (serverQueue # <<>> /\ Head(serverQueue).type # "connected" /\ q = Rest),
           Count(q, {"connected"}) \in Nat, Count(serverQueue', {"connected"}) \in Nat,
           Count(q, {"connected"}) <= Count(serverQueue', {"connected"})
    PROVE  Called'
<1>1. Count(q, {"connected"}) = Count(serverQueue, {"connected"})
  <2>1. CASE q = serverQueue
    BY <2>1
  <2>2. CASE serverQueue # <<>> /\ Head(serverQueue).type # "connected" /\ q = Rest
    <3>1. serverQueue \in Seq(Dispatched)
      BY DEF ServerTypes
    <3>2. Count(serverQueue, {"connected"}) = Count(Rest, {"connected"}) + One(Head(serverQueue).type \in {"connected"})
      BY <2>2, <3>1, CountTail DEF Rest
    <3>3. One(Head(serverQueue).type \in {"connected"}) = 0
      BY <2>2 DEF One
    <3> QED BY <2>2, <3>2, <3>3
  <2> QED BY <2>1, <2>2
<1>2. Len(m_waitingClients) \in Nat
  BY DEF ServerTypes
<1>3. Len(m_waitingClients) <= Count(serverQueue', {"connected"})
  BY <1>1, <1>2 DEF Called
<1> QED BY <1>3 DEF Called

\* A queue that lost its head or did not.
LEMMA HeadGone ==
    ASSUME ServerTypes, NEW q, q = serverQueue \/ (serverQueue # <<>> /\ q = Rest)
    PROVE  /\ q \in Seq(Dispatched) /\ Range(q) \subseteq Range(serverQueue)
           /\ \A x \in Range(serverQueue) :
                 x \in Range(q) \/ (serverQueue # <<>> /\ q = Rest /\ x = Head(serverQueue))
<1>1. serverQueue \in Seq(Dispatched)
  BY DEF ServerTypes
<1>2. CASE q = serverQueue
  BY <1>1, <1>2
<1>3. CASE serverQueue # <<>> /\ q = Rest
  <2>1. Tail(serverQueue) \in Seq(Dispatched)
        /\ Range(serverQueue) = Range(Tail(serverQueue)) \cup {Head(serverQueue)}
    BY <1>1, <1>3, TailAt
  <2> QED BY <1>3, <2>1 DEF Rest
<1> QED BY <1>2, <1>3

\* sendFailure(): the proxy is gone and the listener will be told.
LEMMA FailureStep ==
    ASSUME SInv, m_stream \in Conns \cup {None}, m_stream' = m_stream,
           NEW c \in Conns, unknown[c] \in {"hello", "proxy", "ready"},
           NEW q,
           \/ q = serverQueue
           \/ /\ serverQueue # <<>> /\ q = Rest
              /\ \/ Head(serverQueue).type = "hangup"
                 \/ Head(serverQueue).type = "disconnected" /\ Head(serverQueue).at = c,
           sendFailure(c, q), faults' \in 0..MaxFaults,
           UNCHANGED <<client_sockets, address, m_waitingClients, adopted, m_oldClients>>
    PROVE  SInv'
<1> USE DEF SInv
<1>1. Owner(c) /\ Due(c) /\ address[c] \in Addresses
  BY DEF Owned, AllDue, Addressed, ServerTypes
<1>2. /\ unknown' = [unknown EXCEPT ![c] = IF @ = "hello" THEN "refused" ELSE "failed"]
      /\ serverQueue' = Append(q, Event("failure", address[c]))
  BY DEF sendFailure
<1>3. /\ proxy' = [proxy EXCEPT ![c] = "none"]
      /\ onDisconnected' = [onDisconnected EXCEPT ![c] = "none"]
  <2>1. CASE proxy[c] = "none"
    BY <1>1, <2>1 DEF sendFailure, Owner, ServerTypes
  <2>2. CASE proxy[c] # "none"
    BY <2>2 DEF sendFailure
  <2> QED BY <2>1, <2>2
<1>4. Event("failure", address[c]) \in Dispatched /\ ~Opens(Event("failure", address[c]))
  BY <1>1, Dispatches, EventIs DEF Opens
<1>5. NoOpening /\ Range(q) \subseteq Range(serverQueue')
      /\ Count(q, {"connected"}) \in Nat /\ Count(serverQueue', {"connected"}) \in Nat
      /\ Count(q, {"connected"}) <= Count(serverQueue', {"connected"})
  <2>1. Lone(serverQueue)
    BY DEF Fresh
  <2> QED BY <1>2, <1>4, <2>1, Queued DEF NoOpening
<1>6. Called'
  BY <1>5, CalledKept
<1>7. link' = link /\ toServer' \in [Conns -> Seq(ClientMessages)]
  BY NetKept DEF sendFailure
<1>8. ServerTypes'
  BY <1>2, <1>3, <1>5, <1>7 DEF ServerTypes, NoOpening
<1>9. Event("failure", address[c]) \in Range(serverQueue')
  <2>1. q \in Seq(Dispatched)
    BY HeadGone
  <2> QED BY <1>2, <1>4, <2>1, AppendAt
<1>10. unknown'[c] \in {"refused", "failed"} /\ proxy'[c] = "none" /\ onDisconnected'[c] = "none"
  BY <1>2, <1>3 DEF ServerTypes
<1>11. Due(c)'
  BY <1>9, <1>10 DEF Due, InQueue
<1>12. Owner(c)'
  BY <1>1, <1>10 DEF Owner
<1>13. Others(c)
  BY <1>2, <1>3 DEF Others, ServerTypes
<1>14. Keeps(c)
  <2>1. \A x \in Range(serverQueue) : x \in Range(q) \/ (serverQueue # <<>> /\ q = Rest /\ x = Head(serverQueue))
    BY HeadGone
  <2> QED BY <1>5, <2>1 DEF Keeps
<1>15. ~Unseen(c) /\ unknown'[c] # "none" /\ address'[c] # None
  BY <1>1, <1>10, ConnAssumption DEF Unseen
<1> QED BY <1>5, <1>6, <1>7, <1>8, <1>11, <1>12, <1>13, <1>14, <1>15, OneChanges

\* ClientProxy1_6::disconnect(): the proxy stays until its owner is told.
LEMMA DisconnectStep ==
    ASSUME SInv, m_stream \in Conns \cup {None}, m_stream' = m_stream,
           NEW c \in Conns, proxy[c] \in {"handshake", "ready"},
           NEW q,
           \/ q = serverQueue
           \/ serverQueue # <<>> /\ q = Rest /\ Head(serverQueue).type = "hangup",
           disconnect(c, q), faults' \in 0..MaxFaults,
           UNCHANGED <<client_sockets, unknown, address, m_waitingClients, adopted, m_oldClients>>
    PROVE  SInv'
<1> USE DEF SInv
<1>1. Owner(c) /\ Due(c)
  BY DEF Owned, AllDue
<1>2. /\ proxy' = [proxy EXCEPT ![c] = "closed"] /\ onDisconnected' = onDisconnected
      /\ serverQueue' = Append(q, Event("disconnected", c))
  BY DEF disconnect
<1>4. Event("disconnected", c) \in Dispatched /\ ~Opens(Event("disconnected", c))
  BY Dispatches, EventIs DEF Opens, SocketTypes
<1>5. NoOpening /\ Range(q) \subseteq Range(serverQueue')
      /\ Count(q, {"connected"}) \in Nat /\ Count(serverQueue', {"connected"}) \in Nat
      /\ Count(q, {"connected"}) <= Count(serverQueue', {"connected"})
  <2>1. Lone(serverQueue)
    BY DEF Fresh
  <2> QED BY <1>2, <1>4, <2>1, Queued DEF NoOpening
<1>6. Called'
  BY <1>5, CalledKept
<1>7. link' = link /\ toServer' \in [Conns -> Seq(ClientMessages)]
  BY NetKept DEF disconnect
<1>8. ServerTypes'
  BY <1>2, <1>5, <1>7 DEF ServerTypes, NoOpening
<1>9. Event("disconnected", c) \in Range(serverQueue')
  <2>1. q \in Seq(Dispatched)
    BY HeadGone
  <2> QED BY <1>2, <1>4, <2>1, AppendAt
<1>10. proxy'[c] = "closed"
  BY <1>2 DEF ServerTypes
<1>a. \A x \in Range(serverQueue) : x \in Range(q) \/ (serverQueue # <<>> /\ q = Rest /\ x = Head(serverQueue))
  BY HeadGone
<1>11. Due(c)'
  BY <1>1, <1>2, <1>5, <1>9, <1>10, <1>a, EventIs DEF Due, InQueue
<1>12. Owner(c)'
  BY <1>1, <1>2, <1>10 DEF Owner
<1>13. Others(c)
  BY <1>2 DEF Others, ServerTypes
<1>14. Keeps(c)
  BY <1>5, <1>a DEF Keeps
<1>15. ~Unseen(c) /\ (unknown'[c] = "none" <=> address'[c] = None)
  BY DEF Unseen, Addressed
<1> QED BY <1>5, <1>6, <1>7, <1>8, <1>11, <1>12, <1>13, <1>14, <1>15, OneChanges

\* A step that changes only the queue, and takes nothing from it that is due.
LEMMA QuietStep ==
    ASSUME SInv, m_stream \in Conns \cup {None}, m_stream' = m_stream, link' = link,
           toServer' \in [Conns -> Seq(ClientMessages)], faults' \in 0..MaxFaults,
           UNCHANGED <<client_sockets, unknown, address, proxy, onDisconnected, m_waitingClients,
                       adopted, m_oldClients>>,
           NoOpening, Called',
           \A x \in Range(serverQueue) :
              \/ x \in Range(serverQueue')
              \/ x.type \notin {"disconnected", "success", "failure"}
              \/ x.type = "disconnected" /\ proxy[x.at] # "closed"
              \/ x.type \in {"success", "failure"} /\ \A d \in Conns : address[d] # x.at
    PROVE  SInv'
<1> USE DEF SInv
<1>1. ServerTypes'
  BY DEF ServerTypes, NoOpening
<1>2. Owned' /\ Addressed'
  BY DEF Owned, Owner, Addressed
<1>3. ASSUME NEW d \in Conns PROVE Due(d)'
  <2>1. Due(d)
    BY DEF AllDue
  <2>2. ASSUME NEW x \in Range(serverQueue),
               \/ x = Event("disconnected", d) /\ proxy[d] = "closed"
               \/ x = Event("success", address[d])
               \/ x = Event("failure", address[d])
        PROVE  x \in Range(serverQueue')
    BY <2>2, EventIs
  <2> QED BY <2>1, <2>2 DEF Due, InQueue
<1>4. AllDue'
  BY <1>3 DEF AllDue
<1>5. \A d \in Conns : Unseen(d) => Unseen(d)'
  BY DEF Unseen
<1>6. Fresh'
  BY <1>5, FreshKept
<1> QED BY <1>1, <1>2, <1>4, <1>6

\* What a handler of the server starts from.
LEMMA Dispatching ==
    ASSUME SInv, NEW t, Dispatch(t)
    PROVE  /\ serverQueue # <<>> /\ Rest \in Seq(Dispatched) /\ Lone(Rest) /\ Lone(serverQueue)
           /\ Head(serverQueue) \in Dispatched /\ Head(serverQueue).type = t
           /\ Range(serverQueue) = Range(Rest) \cup {Head(serverQueue)}
           /\ t \in SocketTypes => Head(serverQueue).at \in Conns
           /\ t \in {"success", "failure"} => Head(serverQueue).at \in Addresses
           /\ Opens(Head(serverQueue)) =>
                 \A e \in Range(Rest) : Opens(e) => e.at # Head(serverQueue).at
<1>1. serverQueue \in Seq(Dispatched) /\ serverQueue # <<>> /\ Head(serverQueue).type = t /\ Lone(serverQueue)
  BY DEF SInv, ServerTypes, Dispatch, Fresh
<1>2. Rest \in Seq(Dispatched) /\ Head(serverQueue) \in Dispatched
      /\ Range(serverQueue) = Range(Rest) \cup {Head(serverQueue)}
  BY <1>1, TailAt DEF Rest
<1>3. Lone(Rest) /\ (Opens(Head(serverQueue)) =>
                        \A e \in Range(Rest) : Opens(e) => e.at # Head(serverQueue).at)
  BY <1>1, LoneTail DEF Rest
<1>4. /\ t \in SocketTypes => Head(serverQueue).at \in Conns
      /\ t \in {"success", "failure"} => Head(serverQueue).at \in Addresses
  BY <1>1, <1>2, Dispatches
<1> QED BY <1>1, <1>2, <1>3, <1>4

\* The queue of a handler that takes the head and posts nothing, or something
\* that makes no connection known.
LEMMA Handled ==
    ASSUME SInv, NEW t, Dispatch(t),
           serverQueue' = Rest \/ \E e \in Dispatched : ~Opens(e) /\ serverQueue' = Append(Rest, e)
    PROVE  /\ NoOpening
           /\ \A x \in Range(serverQueue) : x \in Range(serverQueue') \/ x = Head(serverQueue)
           /\ t # "connected" /\ m_waitingClients' = m_waitingClients => Called'
<1>1. /\ serverQueue # <<>> /\ Lone(serverQueue) /\ Head(serverQueue).type = t
      /\ Range(serverQueue) = Range(Rest) \cup {Head(serverQueue)}
  BY Dispatching
<1>2. /\ serverQueue' \in Seq(Dispatched) /\ Lone(serverQueue')
      /\ \A x \in Range(serverQueue') : Opens(x) => x \in Range(serverQueue)
      /\ Range(Rest) \subseteq Range(serverQueue')
      /\ Count(Rest, {"connected"}) \in Nat /\ Count(serverQueue', {"connected"}) \in Nat
      /\ Count(Rest, {"connected"}) <= Count(serverQueue', {"connected"})
  BY <1>1, Queued DEF SInv
<1>3. t # "connected" /\ m_waitingClients' = m_waitingClients => Called'
  BY <1>1, <1>2, CalledKept DEF SInv
<1> QED BY <1>1, <1>2, <1>3 DEF NoOpening

\* A step of the service thread: the message becomes an event.
LEMMA ReadStep ==
    ASSUME SInv, m_stream \in Conns \cup {None}, NEW c \in Conns, serverReads(c)
    PROVE  SInv'
<1>1. toServer[c] \in Seq(ClientMessages) /\ toServer[c] # <<>> /\ toServer \in [Conns -> Seq(ClientMessages)]
  BY DEF SInv, ServerTypes, serverReads
<1>2. PICK m \in ClientMessages : m = Head(toServer[c])
  BY <1>1
<1>3. /\ serverQueue' = Append(serverQueue, Event(m, c)) /\ link' = link /\ m_stream' = m_stream
      /\ toServer' = [toServer EXCEPT ![c] = Tail(toServer[c])] /\ faults' = faults
      /\ UNCHANGED <<client_sockets, unknown, address, proxy, onDisconnected, m_waitingClients,
                     adopted, m_oldClients>>
  BY <1>2 DEF serverReads, listenVars, proxyVars, boundVars, clientVars
<1>4. Event(m, c) \in Dispatched /\ ~Opens(Event(m, c))
  BY Dispatches, EventIs DEF Opens
<1>5. toServer' \in [Conns -> Seq(ClientMessages)] /\ faults' \in 0..MaxFaults
  <2>1. Tail(toServer[c]) \in Seq(ClientMessages)
    BY <1>1
  <2> QED BY <1>1, <1>3, <2>1 DEF SInv, ServerTypes
<1>6. NoOpening /\ Range(serverQueue) \subseteq Range(serverQueue')
      /\ Count(serverQueue, {"connected"}) \in Nat /\ Count(serverQueue', {"connected"}) \in Nat
      /\ Count(serverQueue, {"connected"}) <= Count(serverQueue', {"connected"})
  <2>1. Lone(serverQueue)
    BY DEF SInv, Fresh
  <2> QED BY <1>3, <1>4, <2>1, Queued DEF NoOpening, SInv
<1>7. Called'
  BY <1>3, <1>6, CalledKept DEF SInv
<1> QED BY <1>3, <1>5, <1>6, <1>7, QuietStep

\* A connection is accepted: the socket waits for its secure layer, or has none.
LEMMA ConnectingStep ==
    ASSUME SInv, m_stream \in Conns \cup {None}, handle_client_connecting
    PROVE  SInv'
<1>d. Dispatch("connecting")
  BY DEF handle_client_connecting
<1>0. PICK c \in Conns : c = Head(serverQueue).at
  BY <1>d, Dispatching DEF SocketTypes
<1>1. /\ serverQueue' = Append(Rest, Event("accepted", c)) /\ client_sockets' = client_sockets \cup {c}
      /\ UNCHANGED <<m_stream, link, toServer, faults, unknown, address, proxy, onDisconnected,
                     m_waitingClients, adopted, m_oldClients>>
  BY <1>0 DEF handle_client_connecting, netVars, boundVars, proxyVars, clientVars
<1>2. Event("accepted", c) \in Dispatched /\ Opens(Event("accepted", c))
      /\ Event("accepted", c).at = c /\ Event("accepted", c).type = "accepted"
  BY Dispatches, EventIs DEF Opens, SocketTypes
<1>3. /\ serverQueue # <<>> /\ Rest \in Seq(Dispatched) /\ Lone(Rest)
      /\ Head(serverQueue).type = "connecting" /\ Opens(Head(serverQueue))
      /\ Range(serverQueue) = Range(Rest) \cup {Head(serverQueue)}
      /\ \A e \in Range(Rest) : Opens(e) => e.at # c
  BY <1>0, <1>d, Dispatching DEF Opens
<1>4. Lone(serverQueue') /\ serverQueue' \in Seq(Dispatched)
      /\ Range(serverQueue') = Range(Rest) \cup {Event("accepted", c)}
  BY <1>1, <1>2, <1>3, LoneAppend, AppendAt
<1>5. ServerTypes'
  BY <1>1, <1>4 DEF SInv, ServerTypes
<1>6. Owned' /\ Addressed'
  BY <1>1 DEF SInv, Owned, Owner, Addressed
<1>7. AllDue'
  <2>1. ASSUME NEW d \in Conns PROVE Due(d)'
    <3>1. Due(d)
      BY DEF SInv, AllDue
    <3>2. \A x \in Range(serverQueue) : x \in Range(serverQueue') \/ x.type = "connecting"
      BY <1>3, <1>4
    <3> QED BY <1>1, <3>1, <3>2, EventIs DEF Due, InQueue
  <2> QED BY <2>1 DEF AllDue
<1>8. Called'
  <2>1. Count(Append(Rest, Event("accepted", c)), {"connected"})
           = Count(Rest, {"connected"}) + One(Event("accepted", c).type \in {"connected"})
    BY <1>2, <1>3, CountAppend
  <2>2. One(Event("accepted", c).type \in {"connected"}) = 0
    BY <1>2 DEF One
  <2>3. Count(Rest, {"connected"}) \in Nat
    BY <1>3, CountNat
  <2>4. Count(serverQueue', {"connected"}) = Count(Rest, {"connected"})
    BY <1>1, <2>1, <2>2, <2>3
  <2>5. Count(serverQueue', {"connected"}) \in Nat
        /\ Count(Rest, {"connected"}) <= Count(serverQueue', {"connected"})
    BY <2>3, <2>4
  <2> QED BY <1>1, <1>3, <2>3, <2>5, CalledKept DEF SInv
<1>9. Fresh'
  <2>1. Unseen(c) /\ (m_stream # None /\ link[m_stream] = "none" => c # m_stream)
    BY <1>0, <1>3 DEF SInv, Fresh
  <2>2. \A e \in Range(serverQueue') : Opens(e) => Unseen(e.at)'
    BY <1>1, <1>2, <1>3, <1>4, <2>1 DEF SInv, Fresh, Unseen
  <2>3. m_stream # None /\ link[m_stream] = "none" =>
           /\ Unseen(m_stream)'
           /\ \A e \in Range(serverQueue') : Opens(e) => e.at # m_stream
    BY <1>1, <1>2, <1>3, <1>4, <2>1 DEF SInv, Fresh, Unseen
  <2> QED BY <1>1, <1>4, <2>2, <2>3 DEF Fresh
<1> QED BY <1>5, <1>6, <1>7, <1>8, <1>9 DEF SInv

\* A ClientProxyUnknown is made at an address where no other is.
LEMMA AcceptedStep ==
    ASSUME SInv, m_stream \in Conns \cup {None}, handle_client_accepted
    PROVE  SInv'
<1>d. Dispatch("accepted") /\ serverQueue' = Rest
  BY DEF handle_client_accepted
<1>0. PICK c \in Conns : c = Head(serverQueue).at
  BY <1>d, Dispatching DEF SocketTypes
<1>a. PICK a \in Addresses \ Range(address) : address' = [address EXCEPT ![c] = a]
  BY <1>0 DEF handle_client_accepted
<1>1. /\ client_sockets' = client_sockets \ {c} /\ unknown' = [unknown EXCEPT ![c] = "hello"]
      /\ UNCHANGED <<m_stream, link, toServer, faults, proxy, onDisconnected,
                     m_waitingClients, adopted, m_oldClients>>
  BY <1>0 DEF handle_client_accepted, boundVars, proxyVars, clientVars
<1>3. /\ serverQueue # <<>> /\ Rest \in Seq(Dispatched) /\ Lone(Rest)
      /\ Head(serverQueue).type = "accepted" /\ Opens(Head(serverQueue))
      /\ Range(serverQueue) = Range(Rest) \cup {Head(serverQueue)}
      /\ \A e \in Range(Rest) : Opens(e) => e.at # c
  BY <1>0, <1>d, Dispatching DEF Opens
<1>4. Unseen(c) /\ (m_stream # None /\ link[m_stream] = "none" => c # m_stream)
  BY <1>0, <1>3 DEF SInv, Fresh
<1>5. ServerTypes'
  BY <1>a, <1>1, <1>3, <1>d DEF SInv, ServerTypes
<1>6. \A d \in Conns : d # c => unknown'[d] = unknown[d] /\ address'[d] = address[d]
  BY <1>a, <1>1 DEF SInv, ServerTypes
<1>7. unknown'[c] = "hello" /\ address'[c] = a /\ a # None
  BY <1>a, <1>1, ConnAssumption DEF SInv, ServerTypes
<1>8. Owned'
  <2>1. ASSUME NEW d \in Conns PROVE Owner(d)'
    <3>1. Owner(d)
      BY DEF SInv, Owned
    <3>2. CASE d = c
      BY <1>1, <1>4, <1>7, <3>1, <3>2 DEF Owner, Unseen
    <3>3. CASE d # c
      BY <1>1, <1>6, <3>1, <3>3 DEF Owner
    <3> QED BY <3>2, <3>3
  <2> QED BY <2>1 DEF Owned
<1>9. AllDue'
  <2>1. ASSUME NEW d \in Conns PROVE Due(d)'
    <3>1. Due(d)
      BY DEF SInv, AllDue
    <3>2. \A x \in Range(serverQueue) : x \in Range(serverQueue') \/ x.type = "accepted"
      BY <1>3, <1>d
    <3>3. CASE d = c
      BY <1>1, <1>4, <1>7, <3>3 DEF Due, Unseen
    <3>4. CASE d # c
      BY <1>1, <1>6, <3>1, <3>2, <3>4, EventIs DEF Due, InQueue
    <3> QED BY <3>3, <3>4
  <2> QED BY <2>1 DEF AllDue
<1>10. Addressed'
  <2>1. \A d \in Conns : address[d] # a
    BY <1>a DEF SInv, ServerTypes, Range
  <2> QED BY <1>6, <1>7, <2>1 DEF SInv, Addressed
<1>11. Called'
  BY <1>d, <1>1, Handled
<1>12. Fresh'
  <2>1. \A e \in Range(serverQueue') : Opens(e) => e.at # c /\ e.at \in Conns /\ Unseen(e.at)
    <3>1. \A e \in Range(Rest) : e \in Dispatched
      BY <1>3 DEF Range
    <3> QED BY <1>3, <1>d, <3>1, Dispatches DEF SInv, Fresh
  <2>2. \A d \in Conns : d # c => (Unseen(d) => Unseen(d)')
    BY <1>1, <1>6 DEF Unseen
  <2>3. \A e \in Range(serverQueue') : Opens(e) => Unseen(e.at)'
    BY <2>1, <2>2
  <2>4. ASSUME m_stream # None, link[m_stream] = "none"
        PROVE  Unseen(m_stream)' /\ \A e \in Range(serverQueue') : Opens(e) => e.at # m_stream
    <3>1. PICK m \in Conns : m = m_stream /\ m # c /\ Unseen(m)
      BY <1>4, <2>4 DEF SInv, Fresh
    <3>2. Unseen(m)'
      BY <2>2, <3>1
    <3>3. Unseen(m_stream)'
      BY <1>1, <3>1, <3>2 DEF Unseen
    <3> QED BY <1>3, <1>d, <2>4, <3>3 DEF SInv, Fresh
  <2> QED BY <1>1, <1>3, <1>d, <2>3, <2>4 DEF Fresh
<1> QED BY <1>5, <1>8, <1>9, <1>10, <1>11, <1>12 DEF SInv

\* A handler that finds nothing to do drops the event.
LEMMA DropStep ==
    ASSUME SInv, m_stream \in Conns \cup {None}, NEW t, Dispatch(t), serverQueue' = Rest, t # "connected",
           UNCHANGED <<m_stream, link, toServer, faults, client_sockets, unknown, address, proxy,
                       onDisconnected, m_waitingClients, adopted, m_oldClients>>,
           \/ t \notin {"disconnected", "success", "failure"}
           \/ t = "disconnected" /\ proxy[Head(serverQueue).at] # "closed"
           \/ t \in {"success", "failure"} /\ \A d \in Conns : address[d] # Head(serverQueue).at
    PROVE  SInv'
<1>1. /\ NoOpening /\ Called' /\ Head(serverQueue).type = t
      /\ \A x \in Range(serverQueue) : x \in Range(serverQueue') \/ x = Head(serverQueue)
  BY Handled, Dispatching
<1>2. toServer' \in [Conns -> Seq(ClientMessages)] /\ faults' \in 0..MaxFaults
  BY DEF SInv, ServerTypes
<1> QED BY <1>1, <1>2, QuietStep

\* The real proxy is made, and ClientProxyUnknown watches it.
LEMMA DataStep ==
    ASSUME SInv, m_stream \in Conns \cup {None}, handle_data
    PROVE  SInv'
<1>d. Dispatch("helloBack") /\ serverQueue' = Rest
  BY DEF handle_data
<1>0. PICK c \in Conns : c = Head(serverQueue).at
  BY <1>d, Dispatching DEF SocketTypes, ClientMessages
<1>u. UNCHANGED <<m_stream, link, toServer, faults, client_sockets, address, m_waitingClients, adopted,
                  m_oldClients>>
  BY DEF handle_data, clientVars, boundVars
<1>1. CASE unknown[c] # "hello"
  BY <1>0, <1>1, <1>d, <1>u, DropStep DEF handle_data
<1>2. CASE unknown[c] = "hello"
  <2>1. /\ unknown' = [unknown EXCEPT ![c] = "proxy"] /\ proxy' = [proxy EXCEPT ![c] = "handshake"]
        /\ onDisconnected' = [onDisconnected EXCEPT ![c] = "unknown"]
    BY <1>0, <1>2 DEF handle_data
  <2>2. Owner(c) /\ (unknown[c] = "none" <=> address[c] = None)
    BY DEF SInv, Owned, Addressed
  <2>3. /\ NoOpening /\ Called' /\ Head(serverQueue).type = "helloBack"
        /\ \A x \in Range(serverQueue) : x \in Range(serverQueue') \/ x = Head(serverQueue)
    BY <1>d, <1>u, Handled, Dispatching
  <2>4. ServerTypes'
    BY <1>u, <2>1, <2>3 DEF SInv, ServerTypes, NoOpening
  <2>5. unknown'[c] = "proxy" /\ proxy'[c] = "handshake" /\ onDisconnected'[c] = "unknown"
    BY <2>1 DEF SInv, ServerTypes
  <2>6. Owner(c)' /\ Due(c)'
    BY <1>2, <1>u, <2>2, <2>5 DEF Owner, Due
  <2>7. Others(c) /\ Keeps(c)
    BY <1>u, <2>1, <2>3 DEF Others, Keeps, SInv, ServerTypes
  <2>8. ~Unseen(c) /\ (unknown'[c] = "none" <=> address'[c] = None) /\ address'[c] = address[c]
    BY <1>2, <1>u, <2>2, <2>5 DEF Unseen
  <2> QED BY <1>u, <2>3, <2>4, <2>6, <2>7, <2>8, OneChanges
<1> QED BY <1>1, <1>2

\* The client has told its screen: the proxy is ready, with the same owner.
LEMMA InfoStep ==
    ASSUME SInv, m_stream \in Conns \cup {None}, parseHandshakeMessage
    PROVE  SInv'
<1>d. Dispatch("info")
  BY DEF parseHandshakeMessage
<1>0. PICK c \in Conns : c = Head(serverQueue).at
  BY <1>d, Dispatching DEF SocketTypes, ClientMessages
<1>u. UNCHANGED <<m_stream, link, toServer, faults, client_sockets, unknown, address, onDisconnected,
                  m_waitingClients, adopted, m_oldClients>>
  BY DEF parseHandshakeMessage, clientVars, boundVars, netVars, listenVars
<1>1. CASE proxy[c] # "handshake"
  BY <1>0, <1>1, <1>d, <1>u, DropStep DEF parseHandshakeMessage
<1>2. CASE proxy[c] = "handshake"
  <2>1. proxy' = [proxy EXCEPT ![c] = "ready"] /\ serverQueue' = Append(Rest, Event("ready", c))
    BY <1>0, <1>2 DEF parseHandshakeMessage
  <2>2. Owner(c) /\ Due(c) /\ (unknown[c] = "none" <=> address[c] = None)
    BY DEF SInv, Owned, AllDue, Addressed
  <2>e. Event("ready", c) \in Dispatched /\ ~Opens(Event("ready", c))
    BY Dispatches, EventIs DEF Opens, SocketTypes
  <2>3. /\ NoOpening /\ Called' /\ Head(serverQueue).type = "info"
        /\ \A x \in Range(serverQueue) : x \in Range(serverQueue') \/ x = Head(serverQueue)
    BY <1>d, <1>u, <2>1, <2>e, Handled, Dispatching
  <2>4. ServerTypes'
    BY <1>u, <2>1, <2>3 DEF SInv, ServerTypes, NoOpening
  <2>5. proxy'[c] = "ready"
    BY <2>1 DEF SInv, ServerTypes
  <2>6. Owner(c)'
    BY <1>2, <1>u, <2>2, <2>5 DEF Owner
  <2>9. Due(c)'
    BY <1>u, <2>2, <2>3, <2>5, EventIs DEF Due, InQueue
  <2>7. Others(c) /\ Keeps(c)
    BY <1>u, <2>1, <2>3 DEF Others, Keeps, SInv, ServerTypes
  <2>8. ~Unseen(c) /\ (unknown'[c] = "none" <=> address'[c] = None) /\ address'[c] = address[c]
    BY <1>2, <1>u, <2>2 DEF Unseen
  <2> QED BY <1>u, <2>3, <2>4, <2>6, <2>7, <2>8, <2>9, OneChanges
<1> QED BY <1>1, <1>2

\* The end of the input: the handshake fails, or the proxy closes, or nobody
\* listens any more.
LEMMA HangupStep ==
    ASSUME SInv, m_stream \in Conns \cup {None}, handle_disconnect
    PROVE  SInv'
<1>d. Dispatch("hangup")
  BY DEF handle_disconnect
<1>0. PICK c \in Conns : c = Head(serverQueue).at
  BY <1>d, Dispatching DEF SocketTypes, ClientMessages
<1>u. UNCHANGED <<m_stream, faults, client_sockets, address, m_waitingClients, adopted, m_oldClients>>
  BY DEF handle_disconnect, clientVars, boundVars
<1>h. serverQueue # <<>> /\ Head(serverQueue).type = "hangup" /\ faults' \in 0..MaxFaults
  BY <1>d, <1>u, Dispatching DEF SInv, ServerTypes
<1>1. CASE unknown[c] = "hello"
  <2>1. proxy[c] \notin {"handshake", "ready"}
    BY <1>1 DEF SInv, Owned, Owner
  <2>2. sendFailure(c, Rest)
    BY <1>0, <1>1, <2>1 DEF handle_disconnect
  <2> QED BY <1>1, <1>h, <1>u, <2>2, FailureStep
<1>2. CASE unknown[c] # "hello" /\ proxy[c] \in {"handshake", "ready"}
  <2>1. disconnect(c, Rest) /\ UNCHANGED unknown
    BY <1>0, <1>2 DEF handle_disconnect
  <2> QED BY <1>2, <1>h, <1>u, <2>1, DisconnectStep
<1>3. CASE unknown[c] # "hello" /\ proxy[c] \notin {"handshake", "ready"}
  <2>1. serverQueue' = Rest /\ UNCHANGED <<unknown, proxy, onDisconnected, netVars>>
    BY <1>0, <1>3 DEF handle_disconnect
  <2> QED BY <1>d, <1>u, <2>1, DropStep DEF netVars
<1> QED BY <1>1, <1>2, <1>3

\* ClientProxyUnknown is done, and the listener will be told.
LEMMA ReadyStep ==
    ASSUME SInv, m_stream \in Conns \cup {None}, handle_ready
    PROVE  SInv'
<1>d. Dispatch("ready")
  BY DEF handle_ready
<1>0. PICK c \in Conns : c = Head(serverQueue).at
  BY <1>d, Dispatching DEF SocketTypes
<1>u. UNCHANGED <<m_stream, link, toServer, faults, client_sockets, address, proxy, onDisconnected,
                  m_waitingClients, adopted, m_oldClients>>
  BY DEF handle_ready, clientVars, boundVars, netVars, proxyVars
<1>1. CASE unknown[c] # "proxy"
  BY <1>0, <1>1, <1>d, <1>u, DropStep DEF handle_ready
<1>2. CASE unknown[c] = "proxy"
  <2>1. unknown' = [unknown EXCEPT ![c] = "ready"] /\ serverQueue' = Append(Rest, Event("success", address[c]))
    BY <1>0, <1>2 DEF handle_ready
  <2>2. Owner(c) /\ Due(c) /\ address[c] \in Addresses /\ address[c] # None
    BY <1>2 DEF SInv, Owned, AllDue, Addressed, ServerTypes
  <2>e. Event("success", address[c]) \in Dispatched /\ ~Opens(Event("success", address[c]))
    BY <2>2, Dispatches, EventIs DEF Opens
  <2>3. /\ NoOpening /\ Called' /\ Head(serverQueue).type = "ready" /\ Rest \in Seq(Dispatched)
        /\ \A x \in Range(serverQueue) : x \in Range(serverQueue') \/ x = Head(serverQueue)
    BY <1>d, <1>u, <2>1, <2>e, Handled, Dispatching
  <2>4. ServerTypes'
    BY <1>u, <2>1, <2>3 DEF SInv, ServerTypes, NoOpening
  <2>5. unknown'[c] = "ready"
    BY <2>1 DEF SInv, ServerTypes
  <2>6. Owner(c)'
    BY <1>2, <1>u, <2>2, <2>5 DEF Owner
  <2>a. Event("success", address[c]) \in Range(serverQueue')
    BY <2>1, <2>3, <2>e, AppendAt
  <2>9. Due(c)'
    BY <1>u, <2>2, <2>3, <2>5, <2>a, EventIs DEF Due, InQueue
  <2>7. Others(c) /\ Keeps(c)
    BY <1>u, <2>1, <2>3 DEF Others, Keeps, SInv, ServerTypes
  <2>8. ~Unseen(c) /\ unknown'[c] # "none" /\ address'[c] # None /\ address'[c] = address[c]
    BY <1>2, <1>u, <2>2, <2>5 DEF Unseen
  <2> QED BY <1>u, <2>3, <2>4, <2>6, <2>7, <2>8, <2>9, OneChanges
<1> QED BY <1>1, <1>2

----------------------------------------------------------------------------
(* ClientListener's line of waiting clients.                                *)

\* A client that is not in the line may join it.
LEMMA LineAppend ==
    ASSUME NEW s \in Seq(Conns), NEW c \in Conns, c \notin Range(s), InLine(s)
    PROVE  InLine(Append(s, c))
<1>1. /\ DOMAIN Append(s, c) = DOMAIN s \cup {Len(s) + 1}
      /\ \A i \in DOMAIN s : Append(s, c)[i] = s[i] /\ s[i] # c
      /\ Append(s, c)[Len(s) + 1] = c
  BY AppendAt DEF Range
<1> QED BY <1>1 DEF InLine

\* The first in the line leaves it.
LEMMA LineTail ==
    ASSUME NEW s \in Seq(Conns), s # <<>>, InLine(s)
    PROVE  InLine(Tail(s)) /\ Range(Tail(s)) = Range(s) \ {Head(s)}
<1>1. /\ \A i \in DOMAIN Tail(s) : i \in Nat /\ i + 1 \in DOMAIN s /\ i + 1 # 1 /\ Tail(s)[i] = s[i + 1]
      /\ Head(s) = s[1] /\ 1 \in DOMAIN s
      /\ Range(s) = Range(Tail(s)) \cup {Head(s)}
  BY TailAt
<1>2. Head(s) \notin Range(Tail(s))
  BY <1>1 DEF InLine, Range
<1>3. ASSUME NEW i \in DOMAIN Tail(s), NEW j \in DOMAIN Tail(s), Tail(s)[i] = Tail(s)[j] PROVE i = j
  <2>1. i + 1 = j + 1
    BY <1>1, <1>3 DEF InLine
  <2> QED BY <1>1, <2>1
<1> QED BY <1>1, <1>2, <1>3 DEF InLine

\* t is the line s without its i-th entry: the entries behind it move up.
Shifts(t, s, i, n) ==
    /\ s \in Seq(Conns) /\ n \in Nat /\ n = Len(s) /\ i \in 1..n
    /\ t \in Seq(Conns) /\ Len(t) = n - 1
    /\ \A k \in 1..n - 1 : k < i => t[k] = s[k]
    /\ \A k \in 1..n - 1 : k >= i => t[k] = s[k + 1]

LEMMA LineShift ==
    ASSUME NEW s, NEW t, NEW i, NEW n, Shifts(t, s, i, n), InLine(s)
    PROVE  InLine(t) /\ Range(t) = Range(s) \ {s[i]}
<1> USE DEF Shifts
<1>1. DOMAIN s = 1..n /\ DOMAIN t = 1..n - 1
  OBVIOUS
<1>2. \A k \in 1..n - 1 : \E m \in 1..n : t[k] = s[m] /\ m # i /\ (k < i => m = k) /\ (k >= i => m = k + 1)
  <2> SUFFICES ASSUME NEW k \in 1..n - 1
               PROVE  \E m \in 1..n : t[k] = s[m] /\ m # i /\ (k < i => m = k) /\ (k >= i => m = k + 1)
    OBVIOUS
  <2>1. CASE k < i
    <3>1. k \in 1..n /\ k # i /\ t[k] = s[k] /\ ~(k >= i)
      BY <2>1
    <3> QED BY <3>1
  <2>2. CASE k >= i
    <3>1. k + 1 \in 1..n /\ k + 1 # i /\ t[k] = s[k + 1] /\ ~(k < i)
      BY <2>2
    <3> QED BY <3>1
  <2> QED BY <2>1, <2>2
<1>3. \A m \in 1..n : m # i => \E k \in 1..n - 1 : t[k] = s[m]
  <2> SUFFICES ASSUME NEW m \in 1..n, m # i PROVE \E k \in 1..n - 1 : t[k] = s[m]
    OBVIOUS
  <2>1. CASE m < i
    <3>1. m \in 1..n - 1 /\ t[m] = s[m]
      BY <2>1
    <3> QED BY <3>1
  <2>2. CASE m > i
    <3>1. m - 1 \in 1..n - 1 /\ m - 1 >= i /\ (m - 1) + 1 = m
      BY <2>2
    <3>2. t[m - 1] = s[m]
      BY <3>1
    <3> QED BY <3>1, <3>2
  <2> QED BY <2>1, <2>2
<1>4. ASSUME NEW k \in 1..n - 1, NEW l \in 1..n - 1, t[k] = t[l] PROVE k = l
  <2>1. PICK m \in 1..n : t[k] = s[m] /\ m # i /\ (k < i => m = k) /\ (k >= i => m = k + 1)
    BY <1>2
  <2>2. PICK o \in 1..n : t[l] = s[o] /\ o # i /\ (l < i => o = l) /\ (l >= i => o = l + 1)
    BY <1>2
  <2>3. m = o
    BY <1>1, <1>4, <2>1, <2>2 DEF InLine
  <2> QED BY <2>1, <2>2, <2>3
<1>5. InLine(t)
  BY <1>1, <1>4 DEF InLine
<1>6. ASSUME NEW x \in Range(t) PROVE x \in Range(s) \ {s[i]}
  <2>1. PICK k \in 1..n - 1 : x = t[k]
    BY <1>1 DEF Range
  <2>2. PICK m \in 1..n : t[k] = s[m] /\ m # i
    BY <1>2
  <2> QED BY <1>1, <2>1, <2>2 DEF Range, InLine
<1>7. ASSUME NEW x \in Range(s) \ {s[i]} PROVE x \in Range(t)
  <2>1. PICK m \in 1..n : x = s[m]
    BY <1>1 DEF Range
  <2>2. m # i
    BY <1>7, <2>1
  <2>3. PICK k \in 1..n - 1 : t[k] = s[m]
    BY <1>3, <2>2
  <2> QED BY <1>1, <2>1, <2>3 DEF Range
<1> QED BY <1>5, <1>6, <1>7

\* A part of the line is a line.
LEMMA PieceIs ==
    ASSUME NEW s \in Seq(Conns), NEW m \in 1..Len(s) + 1, NEW n \in 0..Len(s), m <= n + 1
    PROVE  /\ SubSeq(s, m, n) \in Seq(Conns) /\ Len(SubSeq(s, m, n)) = n - m + 1
           /\ \A k \in 1..n - m + 1 : SubSeq(s, m, n)[k] = s[m + k - 1]
  OBVIOUS

\* Two parts of the line put together.
LEMMA JoinIs ==
    ASSUME NEW a \in Seq(Conns), NEW b \in Seq(Conns)
    PROVE  /\ a \o b \in Seq(Conns) /\ Len(a \o b) = Len(a) + Len(b)
           /\ Len(a) \in Nat /\ Len(b) \in Nat
           /\ \A k \in 1..Len(a) : (a \o b)[k] = a[k]
           /\ \A k \in 1..Len(b) : (a \o b)[Len(a) + k] = b[k]
  OBVIOUS

Erased(s, i) == SubSeq(s, 1, i - 1) \o SubSeq(s, i + 1, Len(s))

\* erase() takes out one client, and nobody else.
LEMMA LineErase ==
    ASSUME NEW s \in Seq(Conns), NEW i \in Int, i \in 1..Len(s), InLine(s)
    PROVE  /\ Erased(s, i) \in Seq(Conns) /\ InLine(Erased(s, i)) /\ Len(Erased(s, i)) = Len(s) - 1
           /\ Range(Erased(s, i)) = Range(s) \ {s[i]}
<1>1. Len(s) \in Nat /\ i \in 1..Len(s)
  OBVIOUS
<1>2. 1 \in 1..Len(s) + 1 /\ i - 1 \in 0..Len(s) /\ 1 <= (i - 1) + 1
      /\ i + 1 \in 1..Len(s) + 1 /\ Len(s) \in 0..Len(s) /\ i + 1 <= Len(s) + 1
  BY <1>1
<1>3. PICK a, b : a = SubSeq(s, 1, i - 1) /\ b = SubSeq(s, i + 1, Len(s))
  OBVIOUS
<1>4. a \in Seq(Conns) /\ Len(a) = (i - 1) - 1 + 1 /\ \A k \in 1..(i - 1) - 1 + 1 : a[k] = s[1 + k - 1]
  BY <1>2, <1>3, PieceIs
<1>5. b \in Seq(Conns) /\ Len(b) = Len(s) - (i + 1) + 1
      /\ \A k \in 1..Len(s) - (i + 1) + 1 : b[k] = s[(i + 1) + k - 1]
  BY <1>2, <1>3, PieceIs
<1>6. PICK t : t = a \o b
  OBVIOUS
<1>7. /\ t \in Seq(Conns) /\ Len(t) = Len(a) + Len(b)
      /\ \A k \in 1..Len(a) : t[k] = a[k]
      /\ \A k \in 1..Len(b) : t[Len(a) + k] = b[k]
  BY <1>4, <1>5, <1>6, JoinIs
<1>n. PICK n \in Nat, l \in Nat, m \in Nat, o \in Nat : n = Len(s) /\ l = Len(a) /\ m = Len(b) /\ o = Len(t)
  <2>1. \A q \in Seq(Conns) : Len(q) \in Nat
    OBVIOUS
  <2>2. Len(s) \in Nat /\ Len(a) \in Nat /\ Len(b) \in Nat /\ Len(t) \in Nat
    BY <1>4, <1>5, <1>7, <2>1
  <2> QED BY <2>2
<1>i. i \in 1..n /\ i \in Int
  BY <1>1, <1>n
<1>8. l = i - 1 /\ m = n - i /\ o = n - 1
  <2>1. l = (i - 1) - 1 + 1 /\ m = n - (i + 1) + 1 /\ o = l + m
    BY <1>4, <1>5, <1>7, <1>n
  <2>2. \A h, x, y, z, w \in Int : y = (h - 1) - 1 + 1 /\ z = x - (h + 1) + 1 /\ w = y + z
                                 => y = h - 1 /\ z = x - h /\ w = x - 1
    OBVIOUS
  <2>3. i \in Int /\ n \in Int /\ l \in Int /\ m \in Int /\ o \in Int
    BY <1>i
  <2> QED BY <2>1, <2>2, <2>3
<1>9. ASSUME NEW k \in 1..n - 1, k < i PROVE t[k] = s[k]
  <2>1. k \in 1..l /\ k \in 1..(i - 1) - 1 + 1 /\ 1 + k - 1 = k
    BY <1>i, <1>8, <1>9
  <2> QED BY <1>4, <1>7, <1>n, <2>1
<1>10. ASSUME NEW k \in 1..n - 1, k >= i PROVE t[k] = s[k + 1]
  <2>1. PICK j \in 1..m : j = k - l
    BY <1>i, <1>8, <1>10
  <2>2. j \in 1..n - (i + 1) + 1 /\ l + j = k /\ (i + 1) + j - 1 = k + 1
    <3>1. \A h, x, y, z, w \in Int : y = h - 1 /\ z = w - y =>
             x - (h + 1) + 1 = x - h /\ y + z = w /\ (h + 1) + z - 1 = w + 1
      OBVIOUS
    <3>2. i \in Int /\ n \in Int /\ l \in Int /\ k \in Int /\ j \in Int
      BY <1>i
    <3>3. n - (i + 1) + 1 = n - i /\ l + j = k /\ (i + 1) + j - 1 = k + 1
      BY <1>8, <2>1, <3>1, <3>2
    <3> QED BY <1>8, <3>3
  <2>3. t[l + j] = b[j] /\ b[j] = s[(i + 1) + j - 1]
    BY <1>5, <1>7, <1>n, <2>1, <2>2
  <2> QED BY <2>2, <2>3
<1>11. InLine(t) /\ Range(t) = Range(s) \ {s[i]}
  <2>1. Len(t) = n - 1
    BY <1>8, <1>n
  <2>2. \A k \in 1..n - 1 : k < i => t[k] = s[k]
    BY <1>9
  <2>3. \A k \in 1..n - 1 : k >= i => t[k] = s[k + 1]
    BY <1>10
  <2>4. n = Len(s) /\ t \in Seq(Conns)
    BY <1>n, <1>7
  <2>5. i \in 1..n /\ n \in Nat /\ InLine(s) /\ s \in Seq(Conns)
    BY <1>i
  <2>6. Shifts(t, s, i, n)
    BY <2>1, <2>2, <2>3, <2>4, <2>5 DEF Shifts
  <2> QED BY <2>6, LineShift
<1> QED BY <1>3, <1>6, <1>7, <1>8, <1>n, <1>11 DEF Erased

----------------------------------------------------------------------------
(* The server's steps, continued.                                           *)

\* How many calls are under way once the head is gone.
LEMMA RestCalls ==
    ASSUME SInv, NEW t, Dispatch(t)
    PROVE  /\ Count(Rest, {"connected"}) \in Nat /\ Count(serverQueue, {"connected"}) \in Nat
           /\ t # "connected" => Count(serverQueue, {"connected"}) = Count(Rest, {"connected"})
           /\ t = "connected" => Count(serverQueue, {"connected"}) = Count(Rest, {"connected"}) + 1
<1>1. serverQueue \in Seq(Dispatched) /\ serverQueue # <<>> /\ Rest \in Seq(Dispatched)
      /\ Head(serverQueue).type = t
  BY Dispatching DEF SInv, ServerTypes
<1>2. Count(Rest, {"connected"}) \in Nat /\ Count(serverQueue, {"connected"}) \in Nat
  BY <1>1, CountNat
<1>3. Count(serverQueue, {"connected"}) = Count(Rest, {"connected"}) + One(t \in {"connected"})
  BY <1>1, CountTail DEF Rest
<1>4. CASE t = "connected"
  <2>1. One(t \in {"connected"}) = 1
    BY <1>4 DEF One
  <2> QED BY <1>2, <1>3, <1>4, <2>1
<1>5. CASE t # "connected"
  <2>1. One(t \in {"connected"}) = 0
    BY <1>5 DEF One
  <2> QED BY <1>2, <1>3, <1>5, <2>1
<1> QED BY <1>4, <1>5

\* The listener takes the proxy into its line, or throws everything away.
LEMMA AdoptStep ==
    ASSUME SInv, m_stream \in Conns \cup {None}, m_stream' = m_stream,
           NEW t \in {"success", "failure"}, Dispatch(t),
           NEW c \in Conns, address[c] = Head(serverQueue).at, adoptUnknown(c),
           UNCHANGED <<faults, client_sockets, adopted, m_oldClients>>
    PROVE  SInv'
<1>1. /\ Owner(c) /\ Due(c) /\ address[c] \in Addresses /\ unknown[c] # "none"
      /\ \A d \in Conns : d # c => address[d] # address[c]
      /\ Head(serverQueue).type = t /\ Rest \in Seq(Dispatched)
  BY Dispatching, ConnAssumption DEF SInv, Owned, AllDue, Addressed
<1>2. unknown' = [unknown EXCEPT ![c] = "none"] /\ address' = [address EXCEPT ![c] = None]
  BY DEF adoptUnknown
<1>3. unknown'[c] = "none" /\ address'[c] = None /\ ~Unseen(c)
  BY <1>1, <1>2 DEF SInv, ServerTypes, Unseen
<1>w. m_waitingClients \in Seq(Conns) /\ InLine(m_waitingClients)
      /\ Len(m_waitingClients) <= Count(serverQueue, {"connected"})
      /\ Len(m_waitingClients) \in Nat
  BY DEF SInv, ServerTypes, Called
<1>4. CASE unknown[c] = "ready"
  <2>1. /\ m_waitingClients' = Append(m_waitingClients, c) /\ proxy' = proxy /\ UNCHANGED netVars
        /\ onDisconnected' = [onDisconnected EXCEPT ![c] = "listener"]
        /\ serverQueue' = Append(Rest, Note("connected"))
    BY <1>4 DEF adoptUnknown
  <2>e. Note("connected") \in Dispatched /\ ~Opens(Note("connected")) /\ Note("connected").type = "connected"
    BY Dispatches DEF Opens, Note
  <2>2. c \notin Range(m_waitingClients)
    BY <1>1, <1>4 DEF Owner
  <2>3. InLine(m_waitingClients') /\ m_waitingClients' \in Seq(Conns)
        /\ Len(m_waitingClients') = Len(m_waitingClients) + 1
        /\ Range(m_waitingClients') = Range(m_waitingClients) \cup {c}
    BY <1>w, <2>1, <2>2, LineAppend, AppendAt
  <2>4. Called'
    <3>1. Count(Append(Rest, Note("connected")), {"connected"})
             = Count(Rest, {"connected"}) + One(Note("connected").type \in {"connected"})
      BY <1>1, <2>e, CountAppend
    <3>2. One(Note("connected").type \in {"connected"}) = 1
      BY <2>e DEF One
    <3>3. Count(Rest, {"connected"}) \in Nat /\ Count(serverQueue, {"connected"}) = Count(Rest, {"connected"})
      BY RestCalls
    <3>4. Len(m_waitingClients') <= Count(serverQueue', {"connected"})
      BY <1>w, <2>1, <2>3, <3>1, <3>2, <3>3
    <3> QED BY <2>3, <3>4 DEF Called
  <2>5. NoOpening /\ \A x \in Range(serverQueue) : x \in Range(serverQueue') \/ x = Head(serverQueue)
    BY <2>1, <2>e, Handled
  <2>6. ServerTypes'
    BY <1>2, <2>1, <2>3, <2>5 DEF SInv, ServerTypes, NoOpening, netVars
  <2>7. onDisconnected'[c] = "listener" /\ proxy'[c] # "none"
    BY <1>1, <1>4, <2>1 DEF SInv, ServerTypes, Owner
  <2>8. Owner(c)'
    BY <1>1, <1>3, <1>4, <2>3, <2>7 DEF Owner
  <2>9. Due(c)'
    BY <1>1, <1>3, <2>1, <2>5, EventIs DEF Due, InQueue
  <2>10. Others(c)
    BY <1>2, <2>1, <2>3 DEF Others, SInv, ServerTypes
  <2>11. Keeps(c)
    BY <1>1, <2>5 DEF Keeps
  <2>12. link' = link
    BY <2>1 DEF netVars
  <2> QED BY <1>3, <2>4, <2>5, <2>6, <2>8, <2>9, <2>10, <2>11, <2>12, OneChanges
<1>5. CASE unknown[c] # "ready"
  <2>1. /\ m_waitingClients' = m_waitingClients /\ proxy' = [proxy EXCEPT ![c] = "none"]
        /\ onDisconnected' = [onDisconnected EXCEPT ![c] = "none"]
        /\ serverQueue' = Rest
        /\ UNCHANGED netVars \/ Close(c)
    BY <1>5 DEF adoptUnknown
  <2>2. c \notin Range(m_waitingClients) /\ c # adopted /\ c \notin m_oldClients
    BY <1>1 DEF Owner, SInv, ServerTypes
  <2>3. NoOpening /\ Called' /\ \A x \in Range(serverQueue) : x \in Range(serverQueue') \/ x = Head(serverQueue)
    BY <2>1, Handled
  <2>4. link' = link /\ toServer' \in [Conns -> Seq(ClientMessages)]
    BY <2>1, NetKept DEF SInv
  <2>5. ServerTypes'
    BY <1>2, <2>1, <2>3, <2>4 DEF SInv, ServerTypes, NoOpening
  <2>6. proxy'[c] = "none" /\ onDisconnected'[c] = "none"
    BY <2>1 DEF SInv, ServerTypes
  <2>7. Owner(c)' /\ Due(c)'
    BY <1>3, <2>1, <2>2, <2>6 DEF Owner, Due
  <2>8. Others(c)
    BY <1>2, <2>1 DEF Others, SInv, ServerTypes
  <2>9. Keeps(c)
    BY <1>1, <2>3 DEF Keeps
  <2> QED BY <1>3, <2>3, <2>4, <2>5, <2>7, <2>8, <2>9, OneChanges
<1> QED BY <1>4, <1>5

\* handle_unknown_client(), for an event about an object that may be gone or
\* replaced by another at its address.
LEMMA UnknownStep ==
    ASSUME SInv, m_stream \in Conns \cup {None}, handle_unknown_client
    PROVE  SInv'
<1>1. PICK t \in {"success", "failure"} : Dispatch(t)
  BY DEF handle_unknown_client
<1>2. UNCHANGED <<m_stream, faults, client_sockets, adopted, m_oldClients>>
  BY DEF handle_unknown_client, clientVars, boundVars
<1>3. CASE \A d \in Conns : address[d] # Head(serverQueue).at
  <2>1. {c \in Conns : address[c] = Head(serverQueue).at} = {}
    BY <1>3
  <2>2. serverQueue' = Rest
        /\ UNCHANGED <<unknown, address, proxy, onDisconnected, m_waitingClients, netVars>>
    BY <2>1 DEF handle_unknown_client
  <2> QED BY <1>1, <1>2, <1>3, <2>2, DropStep DEF netVars
<1>4. CASE \E d \in Conns : address[d] = Head(serverQueue).at
  <2>1. {c \in Conns : address[c] = Head(serverQueue).at} # {}
    BY <1>4
  <2>2. PICK c \in Conns : address[c] = Head(serverQueue).at /\ adoptUnknown(c)
    BY <2>1 DEF handle_unknown_client
  <2> QED BY <1>1, <1>2, <2>2, AdoptStep
<1> QED BY <1>3, <1>4

\* The server takes the client that waits longest.
LEMMA ConnectedStep ==
    ASSUME SInv, m_stream \in Conns \cup {None}, handle_client_connected
    PROVE  SInv'
<1>d. Dispatch("connected") /\ serverQueue' = Rest
  BY DEF handle_client_connected
<1>u. UNCHANGED <<m_stream, link, toServer, faults, client_sockets, unknown, address, proxy>>
  BY DEF handle_client_connected, clientVars, boundVars, listenVars
<1>w. m_waitingClients \in Seq(Conns) /\ InLine(m_waitingClients)
      /\ Len(m_waitingClients) <= Count(serverQueue, {"connected"})
      /\ Len(m_waitingClients) \in Nat
  BY DEF SInv, ServerTypes, Called
<1>q. NoOpening /\ \A x \in Range(serverQueue) : x \in Range(serverQueue') \/ x = Head(serverQueue)
  BY <1>d, Handled
<1>h. Head(serverQueue).type = "connected"
  BY <1>d, Dispatching
<1>c. Count(Rest, {"connected"}) \in Nat /\ Count(serverQueue, {"connected"}) = Count(Rest, {"connected"}) + 1
  BY <1>d, RestCalls
<1>t. toServer' \in [Conns -> Seq(ClientMessages)] /\ faults' \in 0..MaxFaults
  BY <1>u DEF SInv, ServerTypes
<1>1. CASE m_waitingClients = <<>>
  <2>1. UNCHANGED <<m_waitingClients, onDisconnected, adopted, m_oldClients>>
    BY <1>1 DEF handle_client_connected
  <2>2. Len(m_waitingClients') = 0
    BY <1>1, <2>1
  <2>3. Called'
    BY <1>c, <1>d, <1>w, <2>1, <2>2 DEF Called
  <2> QED BY <1>h, <1>q, <1>t, <1>u, <2>1, <2>3, QuietStep
<1>2. CASE m_waitingClients # <<>>
  <2>0. PICK c \in Conns : c = Head(m_waitingClients)
    BY <1>2, <1>w
  <2>1. /\ m_waitingClients' = Tail(m_waitingClients)
        /\ onDisconnected' = [onDisconnected EXCEPT ![c] = "server"]
        /\ \/ adopted = None /\ adopted' = c /\ m_oldClients' = m_oldClients
           \/ adopted # None /\ m_oldClients' = m_oldClients \cup {c} /\ adopted' = adopted
    BY <1>2, <2>0 DEF handle_client_connected
  <2>2. /\ InLine(m_waitingClients') /\ Range(m_waitingClients') = Range(m_waitingClients) \ {c}
        /\ m_waitingClients' \in Seq(Conns) /\ Len(m_waitingClients') = Len(m_waitingClients) - 1
        /\ c \in Range(m_waitingClients)
    BY <1>2, <1>w, <2>0, <2>1, LineTail, TailAt
  <2>3. Called'
    <3>1. Len(m_waitingClients') <= Count(Rest, {"connected"})
      BY <1>c, <1>w, <2>2
    <3> QED BY <1>d, <2>2, <3>1 DEF Called
  <2>4. Owner(c) /\ Due(c) /\ (unknown[c] = "none" <=> address[c] = None) /\ c # None
    BY ConnAssumption DEF SInv, Owned, AllDue, Addressed
  <2>5. ServerTypes'
    BY <1>q, <1>t, <1>u, <2>1, <2>2 DEF SInv, ServerTypes, NoOpening
  <2>6. onDisconnected'[c] = "server" /\ onDisconnected[c] = "listener" /\ proxy[c] # "none"
    BY <2>1, <2>2, <2>4 DEF SInv, ServerTypes, Owner
  <2>7. Owner(c)'
    <3>1. c \notin m_oldClients /\ c # adopted /\ unknown[c] \notin {"proxy", "ready"}
      BY <2>4, <2>6 DEF Owner
    <3>2. (c = adopted' \/ c \in m_oldClients') /\ ~(c = adopted' /\ c \in m_oldClients')
          /\ c \notin Range(m_waitingClients')
      BY <2>1, <2>2, <3>1
    <3> QED BY <1>u, <2>4, <2>6, <3>1, <3>2 DEF Owner
  <2>8. Due(c)'
    BY <1>h, <1>q, <1>u, <2>4, EventIs DEF Due, InQueue
  <2>9. Others(c)
    <3>1. \A d \in Conns : d # c => (d = adopted' <=> d = adopted) /\ (d \in m_oldClients' <=> d \in m_oldClients)
      BY <2>1, ConnAssumption
    <3> QED BY <1>u, <2>1, <2>2, <3>1 DEF Others, SInv, ServerTypes
  <2>10. Keeps(c)
    BY <1>h, <1>q DEF Keeps
  <2>11. ~Unseen(c) /\ address'[c] = address[c] /\ (unknown'[c] = "none" <=> address'[c] = None)
    BY <1>u, <2>4, <2>6 DEF Unseen
  <2> QED BY <1>q, <1>u, <2>3, <2>5, <2>7, <2>8, <2>9, <2>10, <2>11, OneChanges
<1> QED BY <1>1, <1>2

\* The listener or the server deletes a proxy, and keeps no trace of it.
LEMMA GoneStep ==
    ASSUME SInv, m_stream \in Conns \cup {None}, m_stream' = m_stream, link' = link,
           toServer' \in [Conns -> Seq(ClientMessages)], faults' \in 0..MaxFaults,
           NEW c \in Conns, onDisconnected[c] \in {"listener", "server"}, Deleted(c),
           UNCHANGED <<client_sockets, unknown, address>>,
           NoOpening, Called', Keeps(c), m_waitingClients' \in Seq(Conns),
           Range(m_waitingClients') = Range(m_waitingClients) \ {c},
           adopted' = IF adopted = c THEN None ELSE adopted,
           m_oldClients' = m_oldClients \ {c}
    PROVE  SInv'
<1>1. Owner(c) /\ (unknown[c] = "none" <=> address[c] = None)
  BY DEF SInv, Owned, Addressed
<1>2. unknown[c] = "none" /\ proxy[c] # "none"
  BY <1>1 DEF Owner, SInv, ServerTypes
<1>3. proxy' = [proxy EXCEPT ![c] = "none"] /\ onDisconnected' = [onDisconnected EXCEPT ![c] = "none"]
  BY DEF Deleted
<1>4. proxy'[c] = "none" /\ onDisconnected'[c] = "none"
  BY <1>3 DEF SInv, ServerTypes
<1>5. ServerTypes'
  BY <1>3 DEF SInv, ServerTypes, NoOpening
<1>6. c # adopted' /\ c \notin m_oldClients' /\ c \notin Range(m_waitingClients')
  BY ConnAssumption
<1>7. Owner(c)'
  BY <1>2, <1>4, <1>6 DEF Owner
<1>8. Due(c)'
  BY <1>2, <1>4 DEF Due
<1>9. Others(c)
  <2>1. \A d \in Conns : d # c => (d = adopted' <=> d = adopted) /\ (d \in m_oldClients' <=> d \in m_oldClients)
    BY ConnAssumption
  <2> QED BY <1>3, <2>1 DEF Others, SInv, ServerTypes
<1>10. ~Unseen(c) /\ address'[c] = address[c] /\ (unknown'[c] = "none" <=> address'[c] = None)
  BY <1>1, <1>2 DEF Unseen
<1> QED BY <1>5, <1>7, <1>8, <1>9, <1>10, OneChanges

\* Whoever owns the proxy hears that it closed.
LEMMA DisconnectedStep ==
    ASSUME SInv, m_stream \in Conns \cup {None}, handle_client_disconnected
    PROVE  SInv'
<1>d. Dispatch("disconnected")
  BY DEF handle_client_disconnected
<1>0. PICK c \in Conns : c = Head(serverQueue).at
  BY <1>d, Dispatching DEF SocketTypes
<1>u. UNCHANGED <<m_stream, faults, client_sockets, address>>
  BY DEF handle_client_disconnected, clientVars, boundVars
<1>h. serverQueue # <<>> /\ Head(serverQueue).type = "disconnected" /\ faults' \in 0..MaxFaults
  BY <1>d, <1>u, Dispatching DEF SInv, ServerTypes
<1>o. Owner(c)
  BY DEF SInv, Owned
<1>w. m_waitingClients \in Seq(Conns) /\ InLine(m_waitingClients)
      /\ Len(m_waitingClients) <= Count(serverQueue, {"connected"})
      /\ Len(m_waitingClients) \in Nat
  BY DEF SInv, ServerTypes, Called
<1>c. Count(Rest, {"connected"}) \in Nat /\ Count(serverQueue, {"connected"}) = Count(Rest, {"connected"})
  BY <1>d, RestCalls
<1>1. CASE onDisconnected[c] = "unknown"
  <2>1. sendFailure(c, Rest) /\ UNCHANGED <<m_waitingClients, adopted, m_oldClients>>
    BY <1>0, <1>1 DEF handle_client_disconnected
  <2>2. unknown[c] \in {"hello", "proxy", "ready"}
    BY <1>1, <1>o DEF Owner
  <2> QED BY <1>0, <1>h, <1>u, <2>1, <2>2, FailureStep
<1>2. CASE onDisconnected[c] = "listener"
  <2>1. /\ Deleted(c) /\ serverQueue' = Rest
        /\ UNCHANGED <<unknown, adopted, m_oldClients, netVars>>
        /\ \E i \in DOMAIN m_waitingClients : erase(i, c)
    BY <1>0, <1>2 DEF handle_client_disconnected
  <2>2. PICK i \in DOMAIN m_waitingClients : m_waitingClients[i] = c /\ m_waitingClients' = Erased(m_waitingClients, i)
    BY <2>1 DEF erase, Erased
  <2>3. i \in Int /\ i \in 1..Len(m_waitingClients)
    BY <1>w
  <2>4. /\ m_waitingClients' \in Seq(Conns) /\ InLine(m_waitingClients')
        /\ Len(m_waitingClients') = Len(m_waitingClients) - 1
        /\ Range(m_waitingClients') = Range(m_waitingClients) \ {c}
    BY <1>w, <2>2, <2>3, LineErase
  <2>5. Called'
    <3>1. Len(m_waitingClients') <= Count(Rest, {"connected"})
      BY <1>c, <1>w, <2>4
    <3> QED BY <2>1, <2>4, <3>1 DEF Called
  <2>6. NoOpening /\ \A x \in Range(serverQueue) : x \in Range(serverQueue') \/ x = Head(serverQueue)
    BY <1>d, <2>1, Handled
  <2>7. Keeps(c)
    BY <1>0, <1>h, <2>6 DEF Keeps
  <2>8. c # adopted /\ c \notin m_oldClients
    BY <1>2, <1>o DEF Owner
  <2>9. adopted' = (IF adopted = c THEN None ELSE adopted) /\ m_oldClients' = m_oldClients \ {c}
    BY <2>1, <2>8
  <2>10. link' = link /\ toServer' \in [Conns -> Seq(ClientMessages)]
    BY <2>1, NetKept DEF SInv
  <2> QED BY <1>2, <1>h, <1>u, <2>1, <2>4, <2>5, <2>6, <2>7, <2>9, <2>10, GoneStep
<1>3. CASE onDisconnected[c] = "server"
  <2>1. /\ Deleted(c) /\ serverQueue' = Rest
        /\ UNCHANGED <<unknown, m_waitingClients, netVars>>
        /\ adopted' = (IF adopted = c THEN None ELSE adopted) /\ m_oldClients' = m_oldClients \ {c}
    BY <1>0, <1>3 DEF handle_client_disconnected
  <2>2. NoOpening /\ Called' /\ \A x \in Range(serverQueue) : x \in Range(serverQueue') \/ x = Head(serverQueue)
    BY <1>d, <2>1, Handled
  <2>3. Keeps(c)
    BY <1>0, <1>h, <2>2 DEF Keeps
  <2>4. Range(m_waitingClients') = Range(m_waitingClients) \ {c} /\ m_waitingClients' \in Seq(Conns)
    BY <1>3, <1>o, <1>w, <2>1 DEF Owner
  <2>5. link' = link /\ toServer' \in [Conns -> Seq(ClientMessages)]
    BY <2>1, NetKept DEF SInv
  <2> QED BY <1>3, <1>h, <1>u, <2>1, <2>2, <2>3, <2>4, <2>5, GoneStep
<1>4. CASE onDisconnected[c] = "none"
  <2>1. serverQueue' = Rest
        /\ UNCHANGED <<unknown, proxy, onDisconnected, m_waitingClients, adopted, m_oldClients, netVars>>
    BY <1>0, <1>4 DEF handle_client_disconnected
  <2>2. proxy[Head(serverQueue).at] # "closed"
    BY <1>0, <1>4, <1>o DEF Owner
  <2> QED BY <1>d, <1>u, <2>1, <2>2, DropStep DEF netVars
<1> QED BY <1>1, <1>2, <1>3, <1>4 DEF SInv, ServerTypes

\* A time limit that passes keeps the faults within their bound.
LEMMA LateFaults ==
    ASSUME faults \in 0..MaxFaults, NEW gone, Late(gone)
    PROVE  faults' \in 0..MaxFaults
  BY ConnAssumption DEF Late

\* The server's timers.
LEMMA TimerStep ==
    ASSUME SInv, m_stream \in Conns \cup {None}, NEW c \in Conns, ServerTimer(c)
    PROVE  SInv'
<1>f. faults \in 0..MaxFaults /\ Owner(c) /\ Lone(serverQueue)
  BY DEF SInv, ServerTypes, Owned, Fresh
<1>1. CASE handle_timeout(c)
  <2>1. /\ unknown[c] \in {"hello", "proxy"} /\ sendFailure(c, serverQueue)
        /\ UNCHANGED <<m_stream, client_sockets, address, m_waitingClients, adopted, m_oldClients>>
    BY <1>1 DEF handle_timeout, clientVars
  <2>2. faults' \in 0..MaxFaults
    BY <1>1, <1>f, LateFaults DEF handle_timeout
  <2> QED BY <2>1, <2>2, FailureStep
<1>2. CASE handle_flatline(c)
  <2>1. /\ proxy[c] = "ready" /\ disconnect(c, serverQueue) /\ faults' = faults
        /\ UNCHANGED <<m_stream, client_sockets, unknown, address, m_waitingClients, adopted, m_oldClients>>
    BY <1>2 DEF handle_flatline, clientVars, boundVars, listenVars
  <2> QED BY <1>f, <2>1, DisconnectStep
<1>3. CASE handle_client_close_timeout(c)
  <2>1. /\ c \in m_oldClients /\ Deleted(c) /\ m_oldClients' = m_oldClients \ {c}
        /\ UNCHANGED netVars \/ Close(c)
        /\ UNCHANGED <<m_stream, client_sockets, unknown, address, m_waitingClients, adopted, serverQueue>>
    BY <1>3 DEF handle_client_close_timeout, clientVars, listenVars
  <2>2. faults' \in 0..MaxFaults
    BY <1>3, <1>f, LateFaults DEF handle_client_close_timeout
  <2>3. link' = link /\ toServer' \in [Conns -> Seq(ClientMessages)]
    BY <2>1, NetKept DEF SInv
  <2>4. onDisconnected[c] = "server" /\ c # adopted /\ c \notin Range(m_waitingClients)
    BY <1>f, <2>1 DEF Owner
  <2>5. NoOpening /\ Keeps(c) /\ Called'
    BY <2>1, <1>f DEF NoOpening, Keeps, Called, SInv, ServerTypes
  <2>6. /\ Range(m_waitingClients') = Range(m_waitingClients) \ {c} /\ m_waitingClients' \in Seq(Conns)
        /\ adopted' = (IF adopted = c THEN None ELSE adopted)
    BY <2>1, <2>4 DEF SInv, ServerTypes
  <2> QED BY <2>1, <2>2, <2>3, <2>4, <2>5, <2>6, GoneStep
<1> QED BY <1>1, <1>2, <1>3 DEF ServerTimer

\* The server tells its client to go, and still owns it.
LEMMA CloseStep ==
    ASSUME SInv, m_stream \in Conns \cup {None}, closeClients
    PROVE  SInv'
<1>0. PICK c \in Conns : c = adopted
  BY DEF closeClients, SInv, ServerTypes
<1>1. /\ m_oldClients' = m_oldClients \cup {c} /\ adopted' = None /\ faults' \in 0..MaxFaults
      /\ UNCHANGED <<m_stream, link, toServer, client_sockets, unknown, address, proxy, onDisconnected,
                     m_waitingClients, serverQueue>>
  BY <1>0, ConnAssumption DEF closeClients, clientVars, listenVars, SInv, ServerTypes
<1>2. Owner(c) /\ Due(c) /\ c # None /\ (unknown[c] = "none" <=> address[c] = None) /\ Lone(serverQueue)
  BY ConnAssumption DEF SInv, Owned, AllDue, Addressed, Fresh
<1>3. ServerTypes'
  BY <1>1 DEF SInv, ServerTypes
<1>4. Owner(c)' /\ Due(c)'
  BY <1>0, <1>1, <1>2 DEF Owner, Due, InQueue
<1>5. Others(c)
  <2>1. \A d \in Conns : d # c => (d = adopted' <=> d = adopted) /\ (d \in m_oldClients' <=> d \in m_oldClients)
    BY <1>0, <1>1, ConnAssumption
  <2> QED BY <1>1, <2>1 DEF Others
<1>6. NoOpening /\ Keeps(c) /\ Called'
  BY <1>1, <1>2 DEF NoOpening, Keeps, Called, SInv, ServerTypes
<1>7. (Unseen(c) => Unseen(c)') /\ address'[c] = address[c] /\ (unknown'[c] = "none" <=> address'[c] = None)
  BY <1>1, <1>2 DEF Unseen
<1> QED BY <1>1, <1>3, <1>4, <1>5, <1>6, <1>7, OneChanges

----------------------------------------------------------------------------
(* The steps of the network and of the client.                              *)

\* The client's stream, while it is not connected, is news to the server.
News(m, l) ==
    m # None /\ l[m] = "none" =>
       /\ Unseen(m)
       /\ \A e \in Range(serverQueue) : Opens(e) => e.at # m

\* Steps that leave the server alone.
LEMMA ClientSide ==
    ASSUME SInv, UNCHANGED serverVars, link' \in [Conns -> {"none", "open", "silent"}],
           toServer' \in [Conns -> Seq(ClientMessages)], faults' \in 0..MaxFaults,
           News(m_stream', link')
    PROVE  SInv'
<1>1. UNCHANGED <<client_sockets, unknown, address, proxy, onDisconnected, m_waitingClients,
                  adopted, m_oldClients, serverQueue>>
  BY DEF serverVars, listenVars, proxyVars
<1>2. ServerTypes'
  BY <1>1 DEF SInv, ServerTypes
<1>3. Owned' /\ Addressed' /\ AllDue' /\ Called'
  BY <1>1 DEF SInv, Owned, Owner, Addressed, AllDue, Due, InQueue, Called
<1>4. Fresh'
  BY <1>1 DEF SInv, Fresh, Unseen, News
<1> QED BY <1>2, <1>3, <1>4 DEF SInv

\* What the client writes are its own messages.
LEMMA PutToServer ==
    ASSUME ServerTypes, NEW c, NEW m \in ClientMessages
    PROVE  Put(toServer, c, m) \in [Conns -> Seq(ClientMessages)]
<1>1. toServer \in [Conns -> Seq(ClientMessages)]
  BY DEF ServerTypes
<1>2. CASE c \in Conns
  BY <1>1, <1>2 DEF Put
<1>3. CASE c \notin Conns
  <2>1. [toServer EXCEPT ![c] = Append(@, m)] = toServer
    BY <1>1, <1>3
  <2> QED BY <1>1, <2>1 DEF Put
<1> QED BY <1>2, <1>3

\* The client's clean-up, seen from the server.
LEMMA CleanupSide ==
    ASSUME SInv, UNCHANGED serverVars, NEW posted, NEW q, cleanup(posted, q), faults' \in 0..MaxFaults
    PROVE  SInv'
<1>1. m_stream' = None
  BY DEF cleanup
<1>2. link' = link
  BY DEF cleanup, netVars
<1>3. "hangup" \in ClientMessages
  BY DEF ClientMessages
<1>4. toServer' \in [Conns -> Seq(ClientMessages)]
  BY <1>3, PutToServer DEF cleanup, netVars, SInv, ServerTypes
<1>5. News(m_stream', link') /\ link' \in [Conns -> {"none", "open", "silent"}]
  BY <1>1, <1>2 DEF News, SInv, ServerTypes
<1> QED BY <1>4, <1>5, ClientSide

\* A step of the client that neither starts nor ends a connection.
LEMMA SameStream ==
    ASSUME SInv, UNCHANGED serverVars, m_stream' = m_stream, link' = link,
           toServer' \in [Conns -> Seq(ClientMessages)], faults' \in 0..MaxFaults
    PROVE  SInv'
<1>1. News(m_stream', link')
  BY DEF News, SInv, Fresh
<1>2. link' \in [Conns -> {"none", "open", "silent"}]
  BY DEF SInv, ServerTypes
<1> QED BY <1>1, <1>2, ClientSide

\* connect() uses a connection of which the server has nothing.
LEMMA ConnectSide ==
    ASSUME SInv, UNCHANGED serverVars, NEW suspended, NEW onResume, NEW q, connect(suspended, onResume, q),
           faults' \in 0..MaxFaults
    PROVE  SInv'
<1>t. toServer \in [Conns -> Seq(ClientMessages)] /\ link \in [Conns -> {"none", "open", "silent"}]
  BY DEF SInv, ServerTypes
<1>1. CASE UNCHANGED <<m_stream, netVars>>
  BY <1>1, <1>t, SameStream DEF netVars
<1>2. CASE \E c \in Conns : Free(c) /\ m_stream' = c /\ link' = [link EXCEPT ![c] = "none"] /\ toServer' = toServer
  <2>1. PICK c \in Conns : Free(c) /\ m_stream' = c /\ link' = [link EXCEPT ![c] = "none"] /\ toServer' = toServer
    BY <1>2
  <2>2. link' \in [Conns -> {"none", "open", "silent"}]
    BY <1>t, <2>1
  <2>3. News(m_stream', link')
    BY <2>1 DEF News, Free, Unseen
  <2> QED BY <1>t, <2>1, <2>2, <2>3, ClientSide
<1> QED BY <1>1, <1>2 DEF connect

\* TCP connects: the server hears of a connection that is news to it.
LEMMA TcpStep ==
    ASSUME SInv, IInv, tcpConnect
    PROVE  SInv'
<1>0. PICK c \in Conns : c = m_stream /\ link[c] = "none" /\ c # None
  BY ConnAssumption DEF tcpConnect, IInv, Stages, ClientTypes
<1>1. /\ link' = [link EXCEPT ![c] = "open"] /\ serverQueue' = Append(serverQueue, Event("connecting", c))
      /\ UNCHANGED <<m_stream, toServer, faults, client_sockets, unknown, address, proxy, onDisconnected,
                     m_waitingClients, adopted, m_oldClients>>
  BY <1>0 DEF tcpConnect, boundVars, listenVars, proxyVars
<1>2. /\ serverQueue \in Seq(Dispatched) /\ Lone(serverQueue) /\ Unseen(c)
      /\ \A e \in Range(serverQueue) : Opens(e) => Unseen(e.at) /\ e.at # c
  BY <1>0 DEF SInv, ServerTypes, Fresh
<1>3. Event("connecting", c) \in Dispatched /\ Event("connecting", c).at = c
      /\ Event("connecting", c).type = "connecting"
  BY Dispatches, EventIs DEF SocketTypes
<1>4. /\ serverQueue' \in Seq(Dispatched) /\ Range(serverQueue') = Range(serverQueue) \cup {Event("connecting", c)}
      /\ Lone(serverQueue')
  BY <1>1, <1>2, <1>3, AppendAt, LoneAppend
<1>5. ServerTypes'
  BY <1>1, <1>4 DEF SInv, ServerTypes
<1>6. Owned' /\ Addressed' /\ AllDue'
  <2>1. Owned' /\ Addressed'
    BY <1>1 DEF SInv, Owned, Owner, Addressed
  <2>2. ASSUME NEW d \in Conns PROVE Due(d)'
    <3>1. Due(d)
      BY DEF SInv, AllDue
    <3> QED BY <1>1, <1>4, <3>1 DEF Due, InQueue
  <2> QED BY <2>1, <2>2 DEF AllDue
<1>7. Called'
  <2>1. Count(Append(serverQueue, Event("connecting", c)), {"connected"})
           = Count(serverQueue, {"connected"}) + One(Event("connecting", c).type \in {"connected"})
    BY <1>2, <1>3, CountAppend
  <2>2. One(Event("connecting", c).type \in {"connected"}) = 0
    BY <1>3 DEF One
  <2>3. Count(serverQueue, {"connected"}) \in Nat
    BY <1>2, CountNat
  <2>4. Count(serverQueue', {"connected"}) = Count(serverQueue, {"connected"})
    BY <1>1, <2>1, <2>2, <2>3
  <2> QED BY <1>1, <2>4 DEF SInv, Called
<1>8. Fresh'
  <2>1. \A e \in Range(serverQueue') : Opens(e) => Unseen(e.at)'
    BY <1>1, <1>2, <1>3, <1>4 DEF Unseen
  <2>2. link'[m_stream'] = "open"
    BY <1>0, <1>1 DEF SInv, ServerTypes
  <2> QED BY <1>4, <2>1, <2>2 DEF Fresh
<1> QED BY <1>5, <1>6, <1>7, <1>8 DEF SInv

----------------------------------------------------------------------------
(* The inductive invariant of the server.                                   *)

\* Nothing has happened yet.
LEMMA SInvInit == Init => SInv
<1> SUFFICES ASSUME Init PROVE SInv
  OBVIOUS
<1>1. /\ serverQueue = <<>> /\ Range(serverQueue) = {} /\ m_waitingClients = <<>> /\ Range(m_waitingClients) = {}
  BY DEF Init, Range
<1>2. ServerTypes
  BY ConnAssumption DEF Init, ServerTypes
<1>3. Owned
  BY <1>1, ConnAssumption DEF Init, Owned, Owner
<1>4. Called
  <2>1. serverQueue \in Seq(Dispatched)
    BY <1>2 DEF ServerTypes
  <2>2. Count(serverQueue, {"connected"}) = 0
    BY <1>1, <2>1, CountNat
  <2> QED BY <1>1, <2>2 DEF Called, InLine
<1>5. Addressed /\ AllDue
  BY DEF Init, Addressed, AllDue, Due
<1>6. Fresh
  <2>1. m_stream \in Conns
    BY ConnAssumption DEF Init
  <2>2. Lone(serverQueue)
    BY <1>1 DEF Lone
  <2>3. Unseen(m_stream)
    BY <2>1 DEF Init, Unseen
  <2> QED BY <1>1, <2>2, <2>3 DEF Fresh
<1> QED BY <1>2, <1>3, <1>4, <1>5, <1>6 DEF SInv

\* Every step keeps the server's invariant.
LEMMA SInvStep == IInv /\ SInv /\ [Next]_vars => SInv'
<1> SUFFICES ASSUME IInv, SInv, [Next]_vars PROVE SInv'
  OBVIOUS
<1>t. /\ m_stream \in Conns \cup {None} /\ faults \in 0..MaxFaults
      /\ toServer \in [Conns -> Seq(ClientMessages)] /\ link \in [Conns -> {"none", "open", "silent"}]
  BY DEF IInv, ClientTypes, SInv, ServerTypes
<1>1. CASE tcpConnect
  BY <1>1, TcpStep
<1>2. CASE tcpRefuse
  <2>1. faults' \in 0..MaxFaults
    BY <1>2, <1>t, ConnAssumption DEF tcpRefuse
  <2> QED BY <1>2, <1>t, <2>1, SameStream DEF tcpRefuse, netVars
<1>3. CASE sleep \/ wake
  BY <1>3, <1>t, SameStream DEF sleep, wake, netVars, boundVars
<1>4. CASE closeClients
  BY <1>4, <1>t, CloseStep
<1>5. CASE dispatchStream
  <2>1. UNCHANGED serverVars /\ faults' \in 0..MaxFaults
    BY <1>5, <1>t DEF dispatchStream, boundVars
  <2>2. CASE UNCHANGED <<m_stream, netVars>>
    BY <1>t, <2>1, <2>2, SameStream DEF netVars
  <2>3. CASE StreamEvent
    <3>1. "helloBack" \in ClientMessages /\ "info" \in ClientMessages
      BY DEF ClientMessages
    <3>2. \/ m_stream' = m_stream /\ link' = link /\ toServer' = toServer
          \/ m_stream' = m_stream /\ link' = link /\ toServer' = Put(toServer, Head(clientQueue).at, "helloBack")
          \/ m_stream' = m_stream /\ link' = link /\ toServer' = Put(toServer, Head(clientQueue).at, "info")
          \/ cleanup("failed", Tail(clientQueue))
          \/ cleanup("disconnected", Tail(clientQueue))
      BY <2>3 DEF StreamEvent, netVars
    <3>3. /\ Put(toServer, Head(clientQueue).at, "helloBack") \in [Conns -> Seq(ClientMessages)]
          /\ Put(toServer, Head(clientQueue).at, "info") \in [Conns -> Seq(ClientMessages)]
      BY <3>1, PutToServer DEF SInv
    <3> QED BY <1>t, <2>1, <3>2, <3>3, SameStream, CleanupSide
  <2> QED BY <1>5, <2>2, <2>3 DEF dispatchStream
<1>6. CASE scheduleClientRestart
  BY <1>6, <1>t, SameStream DEF scheduleClientRestart, netVars, boundVars
<1>7. CASE handle_suspend
  BY <1>7, <1>t, CleanupSide DEF handle_suspend, boundVars
<1>8. CASE handle_resume
  <2>1. UNCHANGED serverVars /\ faults' \in 0..MaxFaults
    BY <1>8, <1>t DEF handle_resume, boundVars
  <2>2. connect(FALSE, FALSE, Tail(clientQueue)) \/ UNCHANGED <<m_stream, netVars>>
    BY <1>8 DEF handle_resume
  <2> QED BY <1>t, <2>1, <2>2, ConnectSide, SameStream DEF netVars
<1>9. CASE handle_client_restart
  BY <1>9, <1>t, ConnectSide DEF handle_client_restart, boundVars
<1>10. CASE handle_connect_timeout
  <2>1. faults' \in 0..MaxFaults
    BY <1>10, <1>t, LateFaults DEF handle_connect_timeout
  <2> QED BY <1>10, <2>1, CleanupSide DEF handle_connect_timeout
<1>11. CASE handle_keep_alive_alarm
  BY <1>11, <1>t, CleanupSide DEF handle_keep_alive_alarm, boundVars
<1>12. CASE ServerEvent
  BY <1>12, <1>t, ConnectingStep, AcceptedStep, DataStep, InfoStep, HangupStep, ReadyStep, UnknownStep,
     ConnectedStep, DisconnectedStep DEF ServerEvent
<1>13. ASSUME NEW c \in Conns, goSilent(c) \/ Reads(c) \/ ServerTimer(c) PROVE SInv'
  <2>1. CASE goSilent(c)
    <3>1. /\ link' = [link EXCEPT ![c] = "silent"] /\ m_stream' = m_stream /\ UNCHANGED serverVars
          /\ toServer' = [toServer EXCEPT ![c] = <<>>]
      BY <2>1 DEF goSilent, clientVars
    <3>2. faults' \in 0..MaxFaults
      BY <1>t, <2>1, ConnAssumption DEF goSilent
    <3>3. News(m_stream', link') /\ link' \in [Conns -> {"none", "open", "silent"}]
      BY <1>t, <3>1 DEF News, SInv, Fresh
    <3>4. toServer' \in [Conns -> Seq(ClientMessages)]
      <4>1. <<>> \in Seq(ClientMessages)
        OBVIOUS
      <4> QED BY <1>t, <3>1, <4>1
    <3> QED BY <3>1, <3>2, <3>3, <3>4, ClientSide
  <2>2. CASE serverReads(c)
    BY <1>t, <2>2, ReadStep
  <2>3. CASE clientReads(c)
    BY <1>t, <2>3, SameStream DEF clientReads, boundVars
  <2>4. CASE ServerTimer(c)
    BY <1>t, <2>4, TimerStep
  <2> QED BY <1>13, <2>1, <2>2, <2>3, <2>4 DEF Reads
<1>14. CASE UNCHANGED vars
  BY <1>14, <1>t, SameStream DEF vars, clientVars, netVars, boundVars
<1> QED BY <1>1, <1>2, <1>3, <1>4, <1>5, <1>6, <1>7, <1>8, <1>9, <1>10, <1>11, <1>12, <1>13, <1>14
        DEF Next, ClientEvent, ClientTimer

\* However far a client got when its line broke, its proxy has exactly one owner
\* that watches for its end (ClientProxyUnknown, ClientListener or Server), what is
\* closed or done has its event under way, every waiting client is called, and
\* sleeps of the client's machine never let restart timers pile up.
THEOREM ProxiesHaveOneOwner == Spec => []OneOwner
<1>1. IInv /\ Budget /\ SInv => OneOwner
  <2> SUFFICES ASSUME IInv, Budget, SInv PROVE OneOwner
    OBVIOUS
  <2>1. TypeOK
    <3>1. retries \in 0..MaxSuspends + 1
      <4>1. retries \in Nat /\ clientQueue \in Seq(Posted) /\ m_connectOnResume \in BOOLEAN
        BY DEF IInv, ClientTypes
      <4>2. Count(clientQueue, Steps) \in Nat
        BY <4>1, CountNat
      <4>3. One(m_stream # None) \in {0, 1} /\ One(m_connectOnResume) \in {0, 1}
        BY <4>1, OneIs
      <4>4. retries + Count(clientQueue, Steps) + One(m_stream # None) + One(m_connectOnResume) <= suspends + 1
            /\ suspends \in 0..MaxSuspends
        BY DEF Budget, Chains, Steps
      <4> QED BY <4>1, <4>2, <4>3, <4>4, ConnAssumption
    <3>2. \A c \in Conns : Range(toServer[c]) \subseteq ClientMessages /\ Range(toClient[c]) \subseteq ServerMessages
      <4> SUFFICES ASSUME NEW c \in Conns
                   PROVE  Range(toServer[c]) \subseteq ClientMessages /\ Range(toClient[c]) \subseteq ServerMessages
        OBVIOUS
      <4>1. toServer[c] \in Seq(ClientMessages) /\ toClient[c] \in Seq(ServerMessages)
        BY DEF IInv, ClientTypes, SInv, ServerTypes
      <4> QED BY <4>1 DEF Range
    <3>3. Range(m_waitingClients) \subseteq Conns
      <4>1. m_waitingClients \in Seq(Conns)
        BY DEF SInv, ServerTypes
      <4> QED BY <4>1 DEF Range
    <3>4. m_timer \in BOOLEAN /\ m_suspended \in BOOLEAN /\ m_connectOnResume \in BOOLEAN
      BY DEF IInv, ClientTypes
    <3>5. m_stream \in Conns \cup {None} /\ stage \in {"idle", "connecting", "connected", "handshake", "ready"}
      BY DEF IInv, ClientTypes, Stages
    <3>6. suspends \in 0..MaxSuspends
      BY DEF Budget
    <3>7. /\ link \in [Conns -> {"none", "open", "silent"}] /\ client_sockets \subseteq Conns
          /\ unknown \in [Conns -> {"none", "hello", "refused", "proxy", "ready", "failed"}]
          /\ address \in [Conns -> Addresses \cup {None}]
          /\ proxy \in [Conns -> {"none", "handshake", "ready", "closed"}]
          /\ onDisconnected \in [Conns -> {"none", "unknown", "listener", "server"}]
          /\ adopted \in Conns \cup {None} /\ m_oldClients \subseteq Conns /\ faults \in 0..MaxFaults
      BY DEF SInv, ServerTypes
    <3> QED BY <3>1, <3>2, <3>3, <3>4, <3>5, <3>6, <3>7 DEF TypeOK
  <2>2. ASSUME NEW c \in Conns
        PROVE  /\ {o \in {"unknown", "listener", "server"} :
                      \/ o = "unknown" /\ unknown[c] \in {"proxy", "ready"}
                      \/ o = "listener" /\ c \in Range(m_waitingClients)
                      \/ o = "server" /\ (c = adopted \/ c \in m_oldClients)}
                  = (IF proxy[c] = "none" THEN {} ELSE {onDisconnected[c]})
               /\ proxy[c] = "closed" => InQueue("disconnected", c)
               /\ unknown[c] = "ready" => InQueue("success", address[c])
               /\ unknown[c] \in {"refused", "failed"} =>
                     InQueue("failure", address[c]) \/ InQueue("success", address[c])
               /\ ~(c = adopted /\ c \in m_oldClients)
    <3>1. Owner(c) /\ Due(c) /\ onDisconnected[c] \in {"none", "unknown", "listener", "server"}
      BY DEF SInv, Owned, AllDue, ServerTypes
    <3>2. {o \in {"unknown", "listener", "server"} :
              \/ o = "unknown" /\ unknown[c] \in {"proxy", "ready"}
              \/ o = "listener" /\ c \in Range(m_waitingClients)
              \/ o = "server" /\ (c = adopted \/ c \in m_oldClients)}
          = (IF proxy[c] = "none" THEN {} ELSE {onDisconnected[c]})
      BY <3>1 DEF Owner
    <3> QED BY <3>1, <3>2 DEF Due, Owner
  <2>3. Len(m_waitingClients) <= Cardinality({i \in DOMAIN serverQueue : serverQueue[i].type = "connected"})
    <3>1. {i \in DOMAIN serverQueue : serverQueue[i].type \in {"connected"}}
          = {i \in DOMAIN serverQueue : serverQueue[i].type = "connected"}
      OBVIOUS
    <3> QED BY <3>1 DEF SInv, Called, Count
  <2> QED BY <2>1, <2>2, <2>3 DEF OneOwner
<1> QED BY <1>1, IInvInit, IInvStep, BudgetInit, BudgetStep, SInvInit, SInvStep, PTL DEF Spec
==============================================================================
