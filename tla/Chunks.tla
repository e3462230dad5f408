-------------------------------- MODULE Chunks --------------------------------
(***************************************************************************)
(* Transfers in chunks.  A file that is dragged from the server to a       *)
(* client is read by a thread (StreamChunker::sendFile()) that posts a     *)
(* start, data and end chunk events; the server sends each one to the      *)
(* screen that is active when the event is dispatched.  A clipboard is     *)
(* posted at once (StreamChunker::sendClipboard()).  The receiver appends  *)
(* what it gets to a buffer and compares sizes at the end: one buffer in   *)
(* each client for files, one in the server for the clipboards of all its  *)
(* clients.  The threads share two flags that nothing protects.            *)
(***************************************************************************)
EXTENDS Naturals, Sequences, FiniteSets

CONSTANTS
    Clients,
    MaxTransfers,   \* bound: transfers in a behaviour, numbered from 1
    Sizes,          \* sizes of transfers, in chunks of g_chunkSize bytes
    MaxMoves        \* bound: jumps to another screen and connections lost

ASSUME ChunksAssumption ==
    /\ {MaxTransfers, MaxMoves} \cup Sizes \subseteq Nat
    /\ {"primary", "server"} \cap Clients = {}

Screens == Clients \cup {"primary"}
Receivers == Clients \cup {"server"}
Transfers == 1..MaxTransfers
None == 0

VARIABLES
    size,               \* the size of each transfer so far: its id is its place
    \* the server
    m_active,
    m_clients,          \* the clients that are connected
    m_dragging,         \* the file of getDraggingFilename(), or None
    m_sendFileThread,   \* the thread of the last file, by its transfer, or None
    s_isChunkingFile, s_interruptFile,
    thread,             \* the threads: where each is, how much it has posted and, as
                        \* history, the screen that its first message went to
    events,             \* FILE_CHUNK_SENDING events, oldest first
    \* the connections
    toClient, toServer,
    \* the receivers
    buffer,             \* each receiver's expected size and data
    m_dragFileList,     \* the file each client expects, or None
    completed,          \* FILE_RECEIVE_COMPLETED events queued in each client
    writers,            \* threads in each client that are about to write the file
    \* history
    accepted, rejected, \* what was written or stored, and the ends that failed
    interrupted,        \* transfers whose thread stopped early
    lost,               \* transfers some chunk of which did not get to its receiver
    moves

server == <<m_active, m_clients, m_dragging, m_sendFileThread>>
sender == <<s_isChunkingFile, s_interruptFile, thread>>
receiver == <<buffer, m_dragFileList, completed, writers>>
history == <<accepted, rejected, interrupted, lost, moves>>
vars == <<size, server, sender, events, toClient, toServer, receiver, history>>

\* The messages of transfer t.  What a data chunk carries is a sequence of pieces.
Start(t) == [mark |-> "start", of |-> t, size |-> size[t], data |-> <<>>]
Data(t, i) == [mark |-> "data", of |-> t, size |-> 0,
               data |-> IF i <= size[t] THEN <<<<t, i>>>> ELSE <<>>]
End(t) == [mark |-> "end", of |-> t, size |-> 0, data |-> <<>>]
DragInfo(t) == [mark |-> "drag", of |-> t, size |-> 0, data |-> <<>>]

\* The pieces of the whole transfer, in order.
Whole(t) == [i \in 1..size[t] |-> <<t, i>>]

Init ==
    /\ size = <<>>
    /\ m_active = "primary"
    /\ m_clients = Clients
    /\ m_dragging = None
    /\ m_sendFileThread = None
    /\ s_isChunkingFile = FALSE /\ s_interruptFile = FALSE
    /\ thread = <<>>
    /\ events = <<>>
    /\ toClient = [c \in Clients |-> <<>>]
    /\ toServer = [c \in Clients |-> <<>>]
    \* Client leaves m_expectedFileSize uninitialised: it has any value.
    /\ \E garbage \in Sizes :
          buffer = [r \in Receivers |-> [expected |-> IF r = "server" THEN 0 ELSE garbage,
                                         data |-> <<>>, opened |-> None, only |-> FALSE, ended |-> FALSE]]
    /\ m_dragFileList = [c \in Clients |-> None]
    /\ completed = [c \in Clients |-> 0]
    /\ writers = [c \in Clients |-> 0]
    /\ accepted = {} /\ rejected = {} /\ interrupted = {} /\ lost = {}
    /\ moves = 0

----------------------------------------------------------------------------
(* The sending thread.  The flags are written without a lock.               *)

\* interruptFile(): the flag is for whichever thread looks at it next.
interruptFile == s_interruptFile' = (s_interruptFile \/ s_isChunkingFile)

\* sendFile() up to the first message.  A file that cannot be opened ends the
\* thread and leaves s_isChunkingFile set.
sendFile(t) ==
    /\ thread[t].pc = "new"
    /\ s_isChunkingFile' = TRUE
    /\ \/ /\ thread' = [thread EXCEPT ![t].pc = "loop"]
          /\ events' = Append(events, Start(t))
          /\ UNCHANGED m_sendFileThread
       \/ /\ thread' = [thread EXCEPT ![t].pc = "done"]
          /\ m_sendFileThread' = None
          /\ UNCHANGED events
    /\ UNCHANGED <<size, m_active, m_clients, m_dragging, s_interruptFile, toClient, toServer,
                   receiver, history>>

\* A turn of the loop: stop if interrupted, else post a chunk.  An empty file has
\* one empty chunk.
sendFileLoop(t) ==
    /\ thread[t].pc = "loop"
    /\ \/ /\ s_interruptFile
          /\ s_interruptFile' = FALSE
          /\ interrupted' = interrupted \cup {t}
          /\ thread' = [thread EXCEPT ![t].pc = "end"]
          /\ UNCHANGED events
       \/ /\ ~s_interruptFile
          /\ events' = Append(events, Data(t, thread[t].sent + 1))
          /\ thread' = [thread EXCEPT ![t].sent = @ + 1,
                           ![t].pc = IF thread[t].sent + 1 >= size[t] THEN "end" ELSE "loop"]
          /\ UNCHANGED <<s_interruptFile, interrupted>>
    /\ UNCHANGED <<size, server, s_isChunkingFile, toClient, toServer, receiver, accepted,
                   rejected, lost, moves>>

sendFileEnd(t) ==
    /\ thread[t].pc = "end"
    /\ events' = Append(events, End(t))
    /\ s_isChunkingFile' = FALSE
    /\ thread' = [thread EXCEPT ![t].pc = "exit"]
    /\ UNCHANGED <<size, server, s_interruptFile, toClient, toServer, receiver, history>>

\* The last statement of send_file_thread(): it may forget a thread started since.
threadExit(t) ==
    /\ thread[t].pc = "exit"
    /\ thread' = [thread EXCEPT ![t].pc = "done"]
    /\ m_sendFileThread' = None
    /\ UNCHANGED <<size, m_active, m_clients, m_dragging, s_isChunkingFile, s_interruptFile,
                   events, toClient, toServer, receiver, history>>

----------------------------------------------------------------------------
(* The server's event thread.                                               *)

\* The cursor takes a file from the primary screen to a client: the thread of
\* send_drag_info_thread() tells the client the file's name, then the next
\* motion switches.
dragTo(c) ==
    /\ m_active = "primary"
    /\ c \in m_clients
    /\ moves < MaxMoves
    /\ Len(size) < MaxTransfers
    /\ m_dragging = None
    /\ \E n \in Sizes : size' = Append(size, n)
    /\ thread' = Append(thread, [pc |-> "idle", sent |-> 0, to |-> "primary"])
    /\ m_dragging' = Len(size')
    /\ toClient' = [toClient EXCEPT ![c] = Append(@, DragInfo(Len(size')))]
    /\ m_active' = c
    /\ moves' = moves + 1
    /\ UNCHANGED <<m_clients, m_sendFileThread, s_isChunkingFile, s_interruptFile, events,
                   toServer, receiver, accepted, rejected, interrupted, lost>>

\* Another jump.  A motion off a secondary screen interrupts, at the end of
\* onMouseMoveSecondary(), the file that is being sent; a jump by a hot key, the
\* switch delay or the screen saver, and any jump from the primary screen, does not.
switchScreen(s) ==
    /\ s # m_active
    /\ s \in m_clients \cup {"primary"}
    /\ moves < MaxMoves
    /\ m_active' = s
    /\ \/ /\ m_active # "primary"
          /\ m_sendFileThread # None
          /\ interruptFile
          /\ m_sendFileThread' = None
       \/ UNCHANGED <<s_interruptFile, m_sendFileThread>>
    /\ moves' = moves + 1
    /\ UNCHANGED <<size, m_clients, m_dragging, s_isChunkingFile, thread, events, toClient,
                   toServer, receiver, accepted, rejected, interrupted, lost>>

\* onMouseUp() with sendFileToClient(): the file is for the screen the button is
\* released on, and there it interrupts the one before and starts at once.
onMouseUp ==
    /\ m_dragging # None
    /\ m_dragging' = None
    /\ IF m_active # "primary"
       THEN /\ IF m_sendFileThread # None THEN interruptFile ELSE UNCHANGED s_interruptFile
            /\ m_sendFileThread' = m_dragging
            /\ thread' = [thread EXCEPT ![m_dragging].pc = "new"]
       ELSE UNCHANGED <<m_sendFileThread, s_interruptFile, thread>>
    /\ UNCHANGED <<size, m_active, m_clients, s_isChunkingFile, events, toClient, toServer,
                   receiver, history>>

\* on_file_chunk_sending(): the primary screen ignores the chunk.
on_file_chunk_sending ==
    /\ events # <<>>
    /\ events' = Tail(events)
    /\ toClient' = IF m_active = "primary" THEN toClient
                   ELSE [toClient EXCEPT ![m_active] = Append(@, Head(events))]
    /\ LET m == Head(events)
       IN  IF m.mark = "start"
           THEN thread' = [thread EXCEPT ![m.of].to = m_active] /\ UNCHANGED lost
           ELSE /\ lost' = IF m_active = thread[m.of].to THEN lost ELSE lost \cup {m.of}
                /\ UNCHANGED thread
    /\ UNCHANGED <<size, server, s_isChunkingFile, s_interruptFile, toServer, receiver, accepted,
                   rejected, interrupted, moves>>

----------------------------------------------------------------------------
(* Clipboards and connections.                                              *)

\* Client::sendClipboard(): a start, at least one data chunk and an end, at once.
sendClipboard(c) ==
    /\ c \in m_clients
    /\ Len(size) < MaxTransfers
    /\ \E n \in Sizes : size' = Append(size, n)
    /\ thread' = Append(thread, [pc |-> "none", sent |-> 0, to |-> "server"])
    /\ LET t == Len(size')
           pieces == IF size'[t] = 0 THEN <<<<>>>> ELSE [i \in 1..size'[t] |-> <<<<t, i>>>>]
       IN  toServer' = [toServer EXCEPT ![c] =
              @ \o <<[mark |-> "start", of |-> t, size |-> size'[t], data |-> <<>>]>>
                \o [i \in DOMAIN pieces |-> [mark |-> "data", of |-> t, size |-> 0, data |-> pieces[i]]]
                \o <<End(t)>>]
    /\ UNCHANGED <<server, s_isChunkingFile, s_interruptFile, events, toClient, receiver, history>>

\* A connection is lost with all that is on it.  The server goes back to the
\* primary screen; nothing interrupts the file.
disconnect(c) ==
    /\ c \in m_clients
    /\ moves < MaxMoves
    /\ moves' = moves + 1
    /\ m_clients' = m_clients \ {c}
    /\ m_active' = IF m_active = c THEN "primary" ELSE m_active
    /\ lost' = lost \cup {toClient[c][i].of : i \in DOMAIN toClient[c]}
                    \cup {toServer[c][i].of : i \in DOMAIN toServer[c]}
    /\ toClient' = [toClient EXCEPT ![c] = <<>>]
    /\ toServer' = [toServer EXCEPT ![c] = <<>>]
    /\ UNCHANGED <<size, m_dragging, m_sendFileThread, sender, events, receiver, accepted,
                   rejected, interrupted>>

\* Client and server keep their buffers; only the connection is new.
reconnect(c) ==
    /\ c \notin m_clients
    /\ m_clients' = m_clients \cup {c}
    /\ UNCHANGED <<size, m_active, m_dragging, m_sendFileThread, sender, events, toClient,
                   toServer, receiver, history>>

----------------------------------------------------------------------------
(* The receivers.                                                           *)

\* The end is kFinish if the sizes agree, else kError.
Agrees(b) == b.expected = Len(b.data)

assemble_Unchecked(r, m) ==  \* Faulty variant: the end does not compare the sizes.
    CASE m.mark = "start" ->
            [expected |-> m.size, data |-> <<>>, opened |-> m.of, only |-> TRUE, ended |-> FALSE]
      [] m.mark = "data"  ->
            [buffer[r] EXCEPT !.data = @ \o m.data, !.ended = FALSE,
                              !.only = @ /\ buffer[r].opened = m.of]
      [] OTHER -> [buffer[r] EXCEPT !.expected = Len(buffer[r].data), !.ended = TRUE,
                                     !.only = @ /\ buffer[r].opened = m.of]

assemble_Keep(r, m) ==  \* Faulty variant: the start keeps what is in the buffer.
    CASE m.mark = "start" ->
            [buffer[r] EXCEPT !.expected = m.size, !.opened = m.of, !.only = TRUE, !.ended = FALSE]
      [] m.mark = "data"  ->
            [buffer[r] EXCEPT !.data = @ \o m.data, !.ended = FALSE,
                              !.only = @ /\ buffer[r].opened = m.of]
      [] OTHER -> [buffer[r] EXCEPT !.ended = Agrees(buffer[r]),
                                     !.only = @ /\ buffer[r].opened = m.of]

\* ClipboardChunk::assemble() and FileChunk::assemble(): the buffer after message
\* m.  The rest is history: the transfer whose start came last, that no message
\* of another one came since, and that an end came last and the sizes agreed.
assemble(r, m) ==
    CASE m.mark = "start" ->
            [expected |-> m.size, data |-> <<>>, opened |-> m.of, only |-> TRUE, ended |-> FALSE]
      [] m.mark = "data"  ->
            [buffer[r] EXCEPT !.data = @ \o m.data, !.ended = FALSE,
                              !.only = @ /\ buffer[r].opened = m.of]
      [] OTHER -> [buffer[r] EXCEPT !.ended = Agrees(buffer[r]),
                                     !.only = @ /\ buffer[r].opened = m.of]

\* What is known of an end, for the properties.
Note(r, b, t) == [to |-> r, of |-> t, opened |-> b.opened, only |-> b.only, ended |-> b.ended, data |-> b.data]

\* ServerProxy::dragInfoReceived() and fileChunkReceived().
fileReceived(c) ==
    /\ toClient[c] # <<>>
    /\ toClient' = [toClient EXCEPT ![c] = Tail(@)]
    /\ LET m == Head(toClient[c])
           b == assemble(c, m)
       IN  /\ IF m.mark = "drag"
              THEN m_dragFileList' = [m_dragFileList EXCEPT ![c] = m.of] /\ UNCHANGED buffer
              ELSE buffer' = [buffer EXCEPT ![c] = b] /\ UNCHANGED m_dragFileList
           /\ completed' = [completed EXCEPT ![c] =
                               IF m.mark = "end" /\ Agrees(b) THEN @ + 1 ELSE @]
           /\ rejected' = IF m.mark = "end" /\ ~Agrees(b)
                          THEN rejected \cup {Note(c, b, m.of)} ELSE rejected
    /\ UNCHANGED <<size, server, sender, events, toServer, writers, accepted, interrupted, lost,
                   moves>>

\* onFileReceiveCompleted(): the sizes are compared again, then a thread writes.
onFileReceiveCompleted(c) ==
    /\ completed[c] > 0
    /\ completed' = [completed EXCEPT ![c] = @ - 1]
    /\ writers' = [writers EXCEPT ![c] = IF Agrees(buffer[c]) THEN @ + 1 ELSE @]
    /\ UNCHANGED <<size, server, sender, events, toClient, toServer, buffer, m_dragFileList,
                   history>>

\* write_to_drop_dir_thread() with DropHelper::writeToDir(): what the buffer holds
\* now, under the name the client was told; without one, nothing.
write_to_drop_dir_thread(c) ==
    /\ writers[c] > 0
    /\ writers' = [writers EXCEPT ![c] = @ - 1]
    /\ m_dragFileList' = [m_dragFileList EXCEPT ![c] = None]
    /\ accepted' = IF m_dragFileList[c] # None
                   THEN accepted \cup {Note(c, buffer[c], m_dragFileList[c])} ELSE accepted
    /\ UNCHANGED <<size, server, sender, events, toClient, toServer, buffer, completed, rejected,
                   interrupted, lost, moves>>

\* ClientProxy1_6::recvClipboard(): the buffer and the expected size are static,
\* the same for all clients.
recvClipboard(c) ==
    /\ toServer[c] # <<>>
    /\ toServer' = [toServer EXCEPT ![c] = Tail(@)]
    /\ LET m == Head(toServer[c])
           b == assemble("server", m)
       IN  /\ buffer' = [buffer EXCEPT !["server"] = b]
           /\ accepted' = IF m.mark = "end" /\ Agrees(b)
                          THEN accepted \cup {Note("server", b, m.of)} ELSE accepted
           /\ rejected' = IF m.mark = "end" /\ ~Agrees(b)
                          THEN rejected \cup {Note("server", b, m.of)} ELSE rejected
    /\ UNCHANGED <<size, server, sender, events, toClient, m_dragFileList, completed, writers,
                   interrupted, lost, moves>>

----------------------------------------------------------------------------
Next ==
    \/ \E t \in 1..Len(thread) : sendFile(t) \/ sendFileLoop(t) \/ sendFileEnd(t) \/ threadExit(t)
    \/ onMouseUp \/ on_file_chunk_sending
    \/ \E s \in Screens : switchScreen(s)
    \/ \E c \in Clients :
          \/ dragTo(c) \/ sendClipboard(c) \/ disconnect(c) \/ reconnect(c)
          \/ fileReceived(c) \/ onFileReceiveCompleted(c) \/ write_to_drop_dir_thread(c)
          \/ recvClipboard(c)

Spec == Init /\ [][Next]_vars

----------------------------------------------------------------------------
(* Properties.                                                              *)

\* The types of the variables.
TypeOK ==
    /\ size \in Seq(Sizes) /\ Len(size) <= MaxTransfers
    /\ m_clients \subseteq Clients
    /\ m_active \in m_clients \cup {"primary"}
    /\ {m_dragging, m_sendFileThread} \subseteq 0..Len(size)
    /\ {s_isChunkingFile, s_interruptFile} \subseteq BOOLEAN
    /\ Len(thread) = Len(size)
    /\ \A c \in Clients : m_dragFileList[c] \in 0..Len(size)
    /\ interrupted \cup lost \subseteq 1..Len(size)

\* A file that is written, or a clipboard that is stored, is the whole of the
\* transfer whose start came last, provided that no chunk of another one came
\* in between and that nothing came after its end: an interrupted file, a chunk
\* sent to another screen and a lost connection are never taken for a complete
\* transfer.
AcceptedIsWhole ==
    /\ TypeOK
    /\ \A n \in accepted : n.only /\ n.ended /\ n.of = n.opened => n.data = Whole(n.of)

\* An end that is refused has a cause: the thread was interrupted, a chunk went
\* elsewhere or was lost, or another transfer came in between.  A transfer that
\* nothing disturbs is never refused, whatever happened to the ones before.
RejectedHadCause ==
    \A n \in rejected : n.only /\ n.of = n.opened => n.of \in interrupted \cup lost

=============================================================================
