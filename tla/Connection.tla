----------------------------- MODULE Connection -----------------------------
(***************************************************************************)
(* How a client gets to the server and stays there: Client and ClientApp   *)
(* on one machine, ClientListener, ClientProxyUnknown, the handshake of    *)
(* ClientProxy1_6 and Server::adoptClient() on the other, over connections *)
(* that may be refused, fall silent or be slow, without TLS.               *)
(*                                                                         *)
(* Each side has an event queue and handles one event at a time; timers    *)
(* run out while the queue is empty.  A message is an event once the       *)
(* service thread has read it.  The server's objects for a connection are  *)
(* known by the connection, but the events of ClientProxyUnknown carry its *)
(* address, which a later object may get while such an event waits.        *)
(***************************************************************************)
EXTENDS Naturals, Sequences, FiniteSets, Functions

CONSTANTS
    Conns,          \* connections; one is used again when nothing is left of it
    Addresses,      \* where ClientProxyUnknown objects may be
    None,
    MaxFaults,      \* bound: faults of the network and closings by the server
    MaxSuspends     \* bound: times the client's machine goes to sleep

ASSUME ConnAssumption ==
    /\ Conns # {} /\ None \notin Conns \cup Addresses
    /\ {MaxFaults, MaxSuspends} \subseteq Nat

VARIABLES
    \* the client's process
    m_stream,           \* the connection that the client uses, or None
    stage,              \* which handlers are set up for it
    m_timer,            \* does the connect timer run?
    retries,            \* restart timers of ClientApp that run
    m_suspended, m_connectOnResume,
    clientQueue,
    \* the network
    link,               \* [Conns -> "none", "open" or "silent"]
    toServer, toClient, \* [Conns -> messages that were not read yet]
    faults, suspends,
    \* the server's process
    client_sockets,     \* accepted, without a ClientProxyUnknown
    unknown,            \* [Conns -> state of the ClientProxyUnknown; it failed
                        \* before ("refused") or after it made a proxy ("failed")]
    address,            \* [Conns -> its address]
    proxy,              \* [Conns -> state of the ClientProxy1_6]
    onDisconnected,     \* [Conns -> who handles CLIENT_PROXY_DISCONNECTED]
    m_waitingClients,   \* ClientListener's queue
    adopted,            \* the proxy in Server::m_clients, or None
    m_oldClients,       \* proxies that were told to go
    serverQueue

clientVars == <<m_stream, stage, m_timer, retries, m_suspended, m_connectOnResume, clientQueue>>
boundVars == <<faults, suspends>>
listenVars == <<client_sockets, unknown, address>>
proxyVars == <<proxy, onDisconnected, m_waitingClients, adopted, m_oldClients>>
serverVars == <<listenVars, proxyVars, serverQueue>>
netVars == <<link, toServer, toClient>>
vars == <<clientVars, netVars, boundVars, serverVars>>

\* Events about a connection, about a ClientProxyUnknown and about nothing more.
Event(type, c) == [type |-> type, at |-> c]
Note(type) == [type |-> type, at |-> None]

ClientMessages == {"helloBack", "info", "hangup"}
ServerMessages == {"hello", "queryInfo", "options", "busy", "close", "hangup"}

TypeOK ==
    /\ m_stream \in Conns \cup {None}
    /\ stage \in {"idle", "connecting", "connected", "handshake", "ready"}
    /\ m_timer \in BOOLEAN /\ m_suspended \in BOOLEAN /\ m_connectOnResume \in BOOLEAN
    /\ retries \in 0..MaxSuspends + 1
    /\ link \in [Conns -> {"none", "open", "silent"}]
    /\ \A c \in Conns : Range(toServer[c]) \subseteq ClientMessages
    /\ \A c \in Conns : Range(toClient[c]) \subseteq ServerMessages
    /\ client_sockets \subseteq Conns
    /\ unknown \in [Conns -> {"none", "hello", "refused", "proxy", "ready", "failed"}]
    /\ address \in [Conns -> Addresses \cup {None}]
    /\ proxy \in [Conns -> {"none", "handshake", "ready", "closed"}]
    /\ onDisconnected \in [Conns -> {"none", "unknown", "listener", "server"}]
    /\ Range(m_waitingClients) \subseteq Conns
    /\ adopted \in Conns \cup {None}
    /\ m_oldClients \subseteq Conns
    /\ faults \in 0..MaxFaults /\ suspends \in 0..MaxSuspends

----------------------------------------------------------------------------
(* The network.                                                             *)

\* A connection of which nothing is left on either side.
Free(c) ==
    /\ m_stream # c
    /\ c \notin client_sockets /\ unknown[c] = "none" /\ proxy[c] = "none"
    /\ toServer[c] = <<>> /\ toClient[c] = <<>>
    /\ \A e \in Range(serverQueue) : e.at # c
    /\ \A e \in Range(clientQueue) : e.at # c

Put(line, c, m) ==
    IF link[c] = "open" THEN [line EXCEPT ![c] = Append(@, m)] ELSE line

\* TCP connects, or the server's machine refuses, or nothing ever answers.
tcpConnect ==
    /\ stage = "connecting" /\ link[m_stream] = "none"
    /\ Event("refused", m_stream) \notin Range(clientQueue)
    /\ link' = [link EXCEPT ![m_stream] = "open"]
    /\ clientQueue' = Append(clientQueue, Event("connected", m_stream))
    /\ serverQueue' = Append(serverQueue, Event("connecting", m_stream))
    /\ UNCHANGED <<m_stream, stage, m_timer, retries, m_suspended, m_connectOnResume,
                   toServer, toClient, boundVars, listenVars, proxyVars>>

tcpRefuse ==
    /\ stage = "connecting" /\ link[m_stream] = "none"
    /\ faults < MaxFaults
    /\ Event("refused", m_stream) \notin Range(clientQueue)
    /\ faults' = faults + 1
    /\ clientQueue' = Append(clientQueue, Event("refused", m_stream))
    /\ UNCHANGED <<m_stream, stage, m_timer, retries, m_suspended, m_connectOnResume,
                   netVars, suspends, serverVars>>

\* A cable is pulled: what is under way is lost, and nobody is told.
goSilent(c) ==
    /\ \/ link[c] = "open"
       \/ c = m_stream /\ link[c] = "none" /\ Event("refused", c) \notin Range(clientQueue)
    /\ faults < MaxFaults
    /\ faults' = faults + 1
    /\ link' = [link EXCEPT ![c] = "silent"]
    /\ toServer' = [toServer EXCEPT ![c] = <<>>]
    /\ toClient' = [toClient EXCEPT ![c] = <<>>]
    /\ UNCHANGED <<clientVars, suspends, serverVars>>

\* The service threads read a message and post an event.
serverReads(c) ==
    /\ toServer[c] # <<>>
    /\ Event("connecting", c) \notin Range(serverQueue)
    /\ toServer' = [toServer EXCEPT ![c] = Tail(@)]
    /\ serverQueue' = Append(serverQueue, Event(Head(toServer[c]), c))
    /\ UNCHANGED <<clientVars, link, toClient, boundVars, listenVars, proxyVars>>

clientReads(c) ==
    /\ toClient[c] # <<>>
    /\ toClient' = [toClient EXCEPT ![c] = Tail(@)]
    /\ clientQueue' = Append(clientQueue, Event(Head(toClient[c]), c))
    /\ UNCHANGED <<m_stream, stage, m_timer, retries, m_suspended, m_connectOnResume,
                   link, toServer, boundVars, serverVars>>

----------------------------------------------------------------------------
(* The client.  A handler replaces the head of the queue by what it posts.  *)

Handle(type) == clientQueue # <<>> /\ Head(clientQueue).type = type

\* connect(): nothing while there is a stream; remembered while suspended.
connect(suspended, onResume, q) ==
    \/ /\ m_stream # None
       /\ m_connectOnResume' = onResume
       /\ clientQueue' = q
       /\ UNCHANGED <<m_stream, stage, m_timer, netVars>>
    \/ /\ m_stream = None /\ suspended
       /\ m_connectOnResume' = TRUE
       /\ clientQueue' = q
       /\ UNCHANGED <<m_stream, stage, m_timer, netVars>>
    \/ /\ m_stream = None /\ ~suspended
       /\ m_connectOnResume' = onResume
       /\ clientQueue' = q
       /\ \E c \in Conns :
             /\ Free(c)
             /\ m_stream' = c
             /\ link' = [link EXCEPT ![c] = "none"]
       /\ stage' = "connecting"
       /\ m_timer' = TRUE
       /\ UNCHANGED <<toServer, toClient>>

\* Faulty variant: a lost connection is noticed, and nobody is told.
cleanup_Quiet(posted, q) ==
    /\ m_stream' = None
    /\ stage' = "idle"
    /\ m_timer' = FALSE
    /\ clientQueue' = IF stage = "connected" THEN q ELSE Append(q, Note(posted))
    /\ IF m_stream = None THEN UNCHANGED netVars
       ELSE /\ toServer' = Put(toServer, m_stream, "hangup")
            /\ toClient' = [toClient EXCEPT ![m_stream] = <<>>]
            /\ UNCHANGED link

\* cleanupTimer(), cleanupScreen(), cleanupConnecting(), cleanupConnection():
\* the stream is deleted, and the socket closed.  Then an event is posted.
cleanup(posted, q) ==
    /\ m_stream' = None
    /\ stage' = "idle"
    /\ m_timer' = FALSE
    /\ clientQueue' = Append(q, Note(posted))
    /\ IF m_stream = None THEN UNCHANGED netVars
       ELSE /\ toServer' = Put(toServer, m_stream, "hangup")
            /\ toClient' = [toClient EXCEPT ![m_stream] = <<>>]
            /\ UNCHANGED link

\* An event of the client's stream, at a stage that has a handler for it.
StreamEvent ==
    LET e == Head(clientQueue)
        q == Tail(clientQueue)
    IN  \/ /\ e.type = "connected" /\ stage = "connecting"
           /\ stage' = "connected"
           /\ clientQueue' = q
           /\ UNCHANGED <<m_stream, m_timer, netVars>>
        \/ /\ e.type = "refused" /\ stage = "connecting"
           /\ cleanup("failed", q)
        \/ /\ e.type = "hello" /\ stage = "connected"
           /\ stage' = "handshake"
           /\ m_timer' = FALSE
           /\ toServer' = Put(toServer, e.at, "helloBack")
           /\ clientQueue' = q
           /\ UNCHANGED <<m_stream, link, toClient>>
        \/ /\ e.type = "queryInfo" /\ stage = "handshake"
           /\ toServer' = Put(toServer, e.at, "info")
           /\ clientQueue' = q
           /\ UNCHANGED <<m_stream, stage, m_timer, link, toClient>>
        \/ /\ e.type = "options" /\ stage = "handshake"
           /\ stage' = "ready"
           /\ clientQueue' = q
           /\ UNCHANGED <<m_stream, m_timer, netVars>>
        \/ /\ e.type = "busy" /\ stage \in {"handshake", "ready"}
           /\ cleanup("failed", q)
        \/ /\ \/ e.type = "close" /\ stage \in {"handshake", "ready"}
              \/ e.type = "hangup" /\ stage \in {"connected", "handshake", "ready"}
           /\ cleanup("disconnected", q)

HasHandler(type) ==
    CASE type \in {"connected", "refused"} -> stage = "connecting"
      [] type = "hello" -> stage = "connected"
      [] type \in {"queryInfo", "options"} -> stage = "handshake"
      [] type \in {"busy", "close"} -> stage \in {"handshake", "ready"}
      [] OTHER -> stage \in {"connected", "handshake", "ready"}

\* An event for a stream that is gone, or that has no handler, is dropped.
dispatchStream ==
    /\ clientQueue # <<>> /\ Head(clientQueue).at # None
    /\ LET e == Head(clientQueue)
       IN  IF e.at = m_stream /\ HasHandler(e.type) THEN StreamEvent
           ELSE /\ clientQueue' = Tail(clientQueue)
                /\ UNCHANGED <<m_stream, stage, m_timer, netVars>>
    /\ UNCHANGED <<retries, m_suspended, m_connectOnResume, boundVars, serverVars>>

\* handle_client_failed() and handle_client_disconnected() of ClientApp, whose
\* own m_suspended nothing sets: scheduleClientRestart().
scheduleClientRestart ==
    /\ Handle("failed") \/ Handle("disconnected")
    /\ retries' = retries + 1
    /\ clientQueue' = Tail(clientQueue)
    /\ UNCHANGED <<m_stream, stage, m_timer, m_suspended, m_connectOnResume,
                   netVars, boundVars, serverVars>>

\* handle_client_restart(): startClient() connects.
handle_client_restart ==
    /\ clientQueue = <<>> /\ retries > 0
    /\ retries' = retries - 1
    /\ connect(m_suspended, m_connectOnResume, clientQueue)
    /\ UNCHANGED <<m_suspended, boundVars, serverVars>>

\* The platform tells of a sleep and of its end.
sleep ==
    /\ suspends < MaxSuspends
    /\ suspends' = suspends + 1
    /\ clientQueue' = Append(clientQueue, Note("suspend"))
    /\ UNCHANGED <<m_stream, stage, m_timer, retries, m_suspended, m_connectOnResume,
                   netVars, faults, serverVars>>

wake ==
    /\ m_suspended \/ Note("suspend") \in Range(clientQueue)
    /\ Note("resume") \notin Range(clientQueue)
    /\ clientQueue' = Append(clientQueue, Note("resume"))
    /\ UNCHANGED <<m_stream, stage, m_timer, retries, m_suspended, m_connectOnResume,
                   netVars, boundVars, serverVars>>

handle_suspend ==
    /\ Handle("suspend")
    /\ m_suspended' = TRUE
    /\ cleanup("disconnected", Tail(clientQueue))
    /\ m_connectOnResume' = (stage \in {"handshake", "ready"})
    /\ UNCHANGED <<retries, boundVars, serverVars>>

handle_resume ==
    /\ Handle("resume")
    /\ m_suspended' = FALSE
    /\ IF m_connectOnResume THEN connect(FALSE, FALSE, Tail(clientQueue))
       ELSE /\ clientQueue' = Tail(clientQueue)
            /\ UNCHANGED <<m_stream, stage, m_timer, m_connectOnResume, netVars>>
    /\ UNCHANGED <<retries, boundVars, serverVars>>

\* A timer runs out because the other side is gone or the line is silent; one
\* that runs out while an answer is under way counts as a fault.
Late(gone) ==
    \/ gone /\ UNCHANGED faults
    \/ ~gone /\ faults < MaxFaults /\ faults' = faults + 1

\* handle_connect_timeout(), 15 s after connect() if no hello was handled.
handle_connect_timeout ==
    /\ clientQueue = <<>> /\ m_timer
    /\ Late(link[m_stream] = "silent")
    /\ cleanup("failed", clientQueue)
    /\ UNCHANGED <<retries, m_suspended, m_connectOnResume, suspends, serverVars>>

\* handle_keep_alive_alarm(): disconnect() with a message.
handle_keep_alive_alarm ==
    /\ clientQueue = <<>> /\ stage \in {"handshake", "ready"}
    /\ link[m_stream] = "silent"
    /\ cleanup("failed", clientQueue)
    /\ m_connectOnResume' = FALSE
    /\ UNCHANGED <<retries, m_suspended, boundVars, serverVars>>

----------------------------------------------------------------------------
(* The server.                                                              *)

Dispatch(type) == serverQueue # <<>> /\ Head(serverQueue).type = type

Rest == Tail(serverQueue)

\* The server's end of a connection is closed or deleted.
Close(c) ==
    /\ toClient' = Put(toClient, c, "hangup")
    /\ toServer' = [toServer EXCEPT ![c] = <<>>]
    /\ UNCHANGED link

handle_client_connecting ==
    /\ Dispatch("connecting")
    /\ client_sockets' = client_sockets \cup {Head(serverQueue).at}
    /\ serverQueue' = Append(Rest, Event("accepted", Head(serverQueue).at))
    /\ UNCHANGED <<clientVars, netVars, boundVars, unknown, address, proxyVars>>

handle_client_accepted ==
    /\ Dispatch("accepted")
    /\ LET c == Head(serverQueue).at
       IN  /\ client_sockets' = client_sockets \ {c}
           /\ unknown' = [unknown EXCEPT ![c] = "hello"]
           /\ \E a \in Addresses \ Range(address) : address' = [address EXCEPT ![c] = a]
           /\ toClient' = Put(toClient, c, "hello")
    /\ serverQueue' = Rest
    /\ UNCHANGED <<clientVars, link, toServer, boundVars, proxyVars>>

\* ClientProxyUnknown::handle_data(): the real proxy is made and asks for the
\* client's screen.
handle_data ==
    /\ Dispatch("helloBack")
    /\ LET c == Head(serverQueue).at
       IN  IF unknown[c] = "hello"
           THEN /\ unknown' = [unknown EXCEPT ![c] = "proxy"]
                /\ proxy' = [proxy EXCEPT ![c] = "handshake"]
                /\ onDisconnected' = [onDisconnected EXCEPT ![c] = "unknown"]
                /\ toClient' = Put(toClient, c, "queryInfo")
           ELSE UNCHANGED <<unknown, proxy, onDisconnected, toClient>>
    /\ serverQueue' = Rest
    /\ UNCHANGED <<clientVars, link, toServer, boundVars, client_sockets, address,
                   m_waitingClients, adopted, m_oldClients>>

\* ClientProxy1_6::parseHandshakeMessage()
parseHandshakeMessage ==
    /\ Dispatch("info")
    /\ LET c == Head(serverQueue).at
       IN  IF proxy[c] = "handshake"
           THEN /\ proxy' = [proxy EXCEPT ![c] = "ready"]
                /\ serverQueue' = Append(Rest, Event("ready", c))
           ELSE UNCHANGED proxy /\ serverQueue' = Rest
    /\ UNCHANGED <<clientVars, netVars, boundVars, listenVars, onDisconnected,
                   m_waitingClients, adopted, m_oldClients>>

\* sendFailure(): the proxy, if there is one, is deleted.
sendFailure(c, q) ==
    /\ unknown' = [unknown EXCEPT ![c] = IF @ = "hello" THEN "refused" ELSE "failed"]
    /\ serverQueue' = Append(q, Event("failure", address[c]))
    /\ IF proxy[c] = "none" THEN UNCHANGED <<proxy, onDisconnected, netVars>>
       ELSE /\ proxy' = [proxy EXCEPT ![c] = "none"]
            /\ onDisconnected' = [onDisconnected EXCEPT ![c] = "none"]
            /\ IF proxy[c] = "closed" THEN UNCHANGED netVars ELSE Close(c)

\* ClientProxy1_6::disconnect()
disconnect(c, q) ==
    /\ proxy' = [proxy EXCEPT ![c] = "closed"]
    /\ serverQueue' = Append(q, Event("disconnected", c))
    /\ Close(c)
    /\ UNCHANGED onDisconnected

\* The end of the input reaches ClientProxyUnknown or the real proxy; nobody
\* handles it once the proxy is closed.
handle_disconnect ==
    /\ Dispatch("hangup")
    /\ LET c == Head(serverQueue).at
       IN  CASE unknown[c] = "hello" -> sendFailure(c, Rest)
             [] proxy[c] \in {"handshake", "ready"} -> disconnect(c, Rest) /\ UNCHANGED unknown
             [] OTHER -> /\ serverQueue' = Rest
                         /\ UNCHANGED <<unknown, proxy, onDisconnected, netVars>>
    /\ UNCHANGED <<clientVars, boundVars, client_sockets, address, m_waitingClients,
                   adopted, m_oldClients>>

\* ClientProxyUnknown::handle_ready(): sendSuccess().
handle_ready ==
    /\ Dispatch("ready")
    /\ LET c == Head(serverQueue).at
       IN  IF unknown[c] = "proxy"
           THEN /\ unknown' = [unknown EXCEPT ![c] = "ready"]
                /\ serverQueue' = Append(Rest, Event("success", address[c]))
           ELSE UNCHANGED unknown /\ serverQueue' = Rest
    /\ UNCHANGED <<clientVars, netVars, boundVars, client_sockets, address, proxyVars>>

\* Faulty variant: the listener does not watch the client while it waits.
adoptUnknown_Blind(c) ==
    /\ unknown' = [unknown EXCEPT ![c] = "none"]
    /\ address' = [address EXCEPT ![c] = None]
    /\ onDisconnected' = [onDisconnected EXCEPT ![c] = "none"]
    /\ IF unknown[c] = "ready"
       THEN /\ m_waitingClients' = Append(m_waitingClients, c)
            /\ serverQueue' = Append(Rest, Note("connected"))
            /\ UNCHANGED <<proxy, netVars>>
       ELSE /\ proxy' = [proxy EXCEPT ![c] = "none"]
            /\ serverQueue' = Rest
            /\ Close(c)
            /\ UNCHANGED m_waitingClients

\* ClientListener::handle_unknown_client(), for whoever has that address now.
adoptUnknown(c) ==
    /\ unknown' = [unknown EXCEPT ![c] = "none"]
    /\ address' = [address EXCEPT ![c] = None]
    /\ IF unknown[c] = "ready"
       THEN /\ m_waitingClients' = Append(m_waitingClients, c)
            /\ onDisconnected' = [onDisconnected EXCEPT ![c] = "listener"]
            /\ serverQueue' = Append(Rest, Note("connected"))
            /\ UNCHANGED <<proxy, netVars>>
       ELSE /\ proxy' = [proxy EXCEPT ![c] = "none"]
            /\ onDisconnected' = [onDisconnected EXCEPT ![c] = "none"]
            /\ serverQueue' = Rest
            /\ IF \/ unknown[c] \in {"hello", "refused"}
                  \/ proxy[c] \in {"handshake", "ready"}
               THEN Close(c)
               ELSE UNCHANGED netVars
            /\ UNCHANGED m_waitingClients

handle_unknown_client ==
    /\ Dispatch("success") \/ Dispatch("failure")
    /\ LET owners == {c \in Conns : address[c] = Head(serverQueue).at}
       IN  IF owners = {}
           THEN /\ serverQueue' = Rest
                /\ UNCHANGED <<unknown, address, proxy, onDisconnected, m_waitingClients, netVars>>
           ELSE \E c \in owners : adoptUnknown(c)
    /\ UNCHANGED <<clientVars, boundVars, client_sockets, adopted, m_oldClients>>

\* ServerApp::handle_client_connected(): getNextClient() and, of
\* Server::adoptClient(), that a name is connected only once.
handle_client_connected ==
    /\ Dispatch("connected")
    /\ serverQueue' = Rest
    /\ IF m_waitingClients = <<>>
       THEN UNCHANGED <<m_waitingClients, onDisconnected, adopted, m_oldClients, toClient>>
       ELSE LET c == Head(m_waitingClients)
            IN  /\ m_waitingClients' = Tail(m_waitingClients)
                /\ onDisconnected' = [onDisconnected EXCEPT ![c] = "server"]
                /\ IF adopted = None
                   THEN adopted' = c /\ UNCHANGED m_oldClients
                   ELSE m_oldClients' = m_oldClients \cup {c} /\ UNCHANGED adopted
                /\ toClient' = IF proxy[c] = "closed" THEN toClient
                               ELSE Put(toClient, c, IF adopted = None THEN "options" ELSE "busy")
    /\ UNCHANGED <<clientVars, link, toServer, boundVars, listenVars, proxy>>

Deleted(c) ==
    /\ proxy' = [proxy EXCEPT ![c] = "none"]
    /\ onDisconnected' = [onDisconnected EXCEPT ![c] = "none"]

\* ClientListener's loop: the first entry for the client leaves the queue.
erase(i, c) ==
    /\ m_waitingClients[i] = c
    /\ \A j \in 1..i - 1 : m_waitingClients[j] # c
    /\ m_waitingClients' = SubSeq(m_waitingClients, 1, i - 1)
                           \o SubSeq(m_waitingClients, i + 1, Len(m_waitingClients))

\* CLIENT_PROXY_DISCONNECTED: the handler depends on how far the client got.
handle_client_disconnected ==
    /\ Dispatch("disconnected")
    /\ LET c == Head(serverQueue).at
       IN  \/ /\ onDisconnected[c] = "unknown"
              /\ sendFailure(c, Rest)
              /\ UNCHANGED <<m_waitingClients, adopted, m_oldClients>>
           \/ /\ onDisconnected[c] = "listener"
              /\ Deleted(c)
              /\ \E i \in DOMAIN m_waitingClients : erase(i, c)
              /\ serverQueue' = Rest
              /\ UNCHANGED <<unknown, adopted, m_oldClients, netVars>>
           \/ /\ onDisconnected[c] = "server"
              /\ Deleted(c)
              /\ adopted' = IF adopted = c THEN None ELSE adopted
              /\ m_oldClients' = m_oldClients \ {c}
              /\ serverQueue' = Rest
              /\ UNCHANGED <<unknown, m_waitingClients, netVars>>
           \/ /\ onDisconnected[c] = "none"
              /\ serverQueue' = Rest
              /\ UNCHANGED <<unknown, proxy, onDisconnected, m_waitingClients, adopted,
                             m_oldClients, netVars>>
    /\ UNCHANGED <<clientVars, boundVars, client_sockets, address>>

\* ClientProxyUnknown::handle_timeout(), 30 s after it was made.
handle_timeout(c) ==
    /\ serverQueue = <<>> /\ unknown[c] \in {"hello", "proxy"}
    /\ Late(link[c] = "silent" \/ (m_stream # c /\ toServer[c] = <<>>))
    /\ sendFailure(c, serverQueue)
    /\ UNCHANGED <<clientVars, suspends, client_sockets, address, m_waitingClients,
                   adopted, m_oldClients>>

\* Faulty variant: only clients that were not adopted yet are watched.
handle_flatline_New(c) ==
    /\ serverQueue = <<>> /\ proxy[c] = "ready" /\ link[c] = "silent" /\ c # adopted
    /\ disconnect(c, serverQueue)
    /\ UNCHANGED <<clientVars, boundVars, listenVars, m_waitingClients, adopted, m_oldClients>>

\* ClientProxy1_6::handle_flatline()
handle_flatline(c) ==
    /\ serverQueue = <<>> /\ proxy[c] = "ready" /\ link[c] = "silent"
    /\ disconnect(c, serverQueue)
    /\ UNCHANGED <<clientVars, boundVars, listenVars, m_waitingClients, adopted, m_oldClients>>

\* closeClients(), after a new configuration or a request to reconnect.
closeClients ==
    /\ adopted # None /\ faults < MaxFaults
    /\ faults' = faults + 1
    /\ m_oldClients' = m_oldClients \cup {adopted}
    /\ adopted' = None
    /\ toClient' = IF proxy[adopted] = "closed" THEN toClient ELSE Put(toClient, adopted, "close")
    /\ UNCHANGED <<clientVars, link, toServer, suspends, listenVars, proxy, onDisconnected,
                   m_waitingClients, serverQueue>>

\* handle_client_close_timeout(), 5 s after the client was told to go.
handle_client_close_timeout(c) ==
    /\ serverQueue = <<>> /\ c \in m_oldClients
    /\ Late(link[c] = "silent")
    /\ Deleted(c)
    /\ m_oldClients' = m_oldClients \ {c}
    /\ IF proxy[c] = "closed" THEN UNCHANGED netVars ELSE Close(c)
    /\ UNCHANGED <<clientVars, suspends, listenVars, m_waitingClients, adopted, serverQueue>>

----------------------------------------------------------------------------
\* startClient() has called connect().  Any connection will do.
Init ==
    /\ m_stream = CHOOSE c \in Conns : TRUE
    /\ stage = "connecting" /\ m_timer = TRUE
    /\ retries = 0
    /\ m_suspended = FALSE /\ m_connectOnResume = FALSE
    /\ clientQueue = <<>> /\ serverQueue = <<>>
    /\ link = [c \in Conns |-> "none"]
    /\ toServer = [c \in Conns |-> <<>>] /\ toClient = [c \in Conns |-> <<>>]
    /\ faults = 0 /\ suspends = 0
    /\ client_sockets = {}
    /\ unknown = [c \in Conns |-> "none"] /\ address = [c \in Conns |-> None]
    /\ proxy = [c \in Conns |-> "none"] /\ onDisconnected = [c \in Conns |-> "none"]
    /\ m_waitingClients = <<>> /\ adopted = None /\ m_oldClients = {}

ClientEvent ==
    dispatchStream \/ scheduleClientRestart \/ handle_suspend \/ handle_resume

ClientTimer ==
    handle_client_restart \/ handle_connect_timeout \/ handle_keep_alive_alarm

ServerEvent ==
    \/ handle_client_connecting
    \/ handle_client_accepted
    \/ handle_data
    \/ parseHandshakeMessage
    \/ handle_disconnect
    \/ handle_ready
    \/ handle_unknown_client
    \/ handle_client_connected
    \/ handle_client_disconnected

ServerTimer(c) ==
    handle_timeout(c) \/ handle_flatline(c) \/ handle_client_close_timeout(c)

Reads(c) == serverReads(c) \/ clientReads(c)

Next ==
    \/ tcpConnect \/ tcpRefuse \/ sleep \/ wake \/ closeClients
    \/ ClientEvent \/ ClientTimer \/ ServerEvent
    \/ \E c \in Conns : goSilent(c) \/ Reads(c) \/ ServerTimer(c)

Spec == Init /\ [][Next]_vars

(***************************************************************************)
(* Both loops run and the service threads read.  TCP connects in the end.  *)
(* A timer that runs is looked at again and again, whenever its queue is   *)
(* empty: strong fairness.                                                 *)
(***************************************************************************)
FairSpec ==
    /\ Spec
    /\ WF_vars(tcpConnect)
    /\ WF_vars(ClientEvent)
    /\ WF_vars(ServerEvent)
    /\ SF_vars(ClientTimer)
    /\ \A c \in Conns : WF_vars(Reads(c)) /\ SF_vars(ServerTimer(c))

----------------------------------------------------------------------------
(* Properties.                                                              *)

InQueue(type, at) == Event(type, at) \in Range(serverQueue)

(***************************************************************************)
(* The server loses no connection and keeps no dead one, wherever a client *)
(* disappears: every proxy has exactly one owner that watches for its end  *)
(* (ClientProxyUnknown, ClientListener or Server), a proxy that is closed  *)
(* has its CLIENT_PROXY_DISCONNECTED under way, a ClientProxyUnknown that  *)
(* is done has its event under way, and for every waiting client there is  *)
(* a CLIENT_LISTENER_CONNECTED.                                            *)
(***************************************************************************)
OneOwner ==
    /\ TypeOK
    /\ \A c \in Conns :
          LET owners == {o \in {"unknown", "listener", "server"} :
                            \/ o = "unknown" /\ unknown[c] \in {"proxy", "ready"}
                            \/ o = "listener" /\ c \in Range(m_waitingClients)
                            \/ o = "server" /\ (c = adopted \/ c \in m_oldClients)}
          IN  /\ owners = (IF proxy[c] = "none" THEN {} ELSE {onDisconnected[c]})
              /\ proxy[c] = "closed" => InQueue("disconnected", c)
              /\ unknown[c] = "ready" =>
                    InQueue("success", address[c])
              /\ unknown[c] \in {"refused", "failed"} =>
                    InQueue("failure", address[c]) \/ InQueue("success", address[c])
              /\ ~(c = adopted /\ c \in m_oldClients)
    /\ Len(m_waitingClients) <= Cardinality({i \in DOMAIN serverQueue : serverQueue[i].type = "connected"})

(***************************************************************************)
(* The client never gives up: whatever failed and in whatever order the    *)
(* machine went to sleep, there is a connection, a restart timer, an event *)
(* that will start one, or a note to connect when the machine wakes up.    *)
(* A connection without a ServerProxy, whose alarm would end it, has the   *)
(* connect timer.                                                          *)
(***************************************************************************)
KeepsTrying ==
    /\ \/ m_stream # None
       \/ retries > 0
       \/ \E e \in Range(clientQueue) : e.type \in {"failed", "disconnected"}
       \/ m_connectOnResume /\ m_suspended
    /\ m_timer = (stage \in {"connecting", "connected"})
    /\ (m_stream = None) = (stage = "idle")

(***************************************************************************)
(* Once the network behaves and the machine is awake, the client is        *)
(* connected for good: it is ready and its proxy is the one that the       *)
(* server has adopted, even if the server first takes it for a client that *)
(* is already connected (EBusy), because it has not noticed yet that an    *)
(* earlier connection is dead.                                             *)
(***************************************************************************)
EventuallyConnected ==
    <>[](~m_suspended) => <>[](stage = "ready" /\ adopted = m_stream)
=============================================================================
