------------------------------- MODULE Clipboard -------------------------------
(***************************************************************************)
(* The shared clipboard: Server::handle_clipboard_grabbed(),               *)
(* onClipboardChanged() and the clipboard part of switchScreen(), the      *)
(* server's view of each client (ClientProxy1_6), and the client's side    *)
(* (Client, ServerProxy).  There is one clipboard; the code treats each    *)
(* clipboard id alike.  A transfer, which the code sends as a start, data  *)
(* and end chunks, is one message here: it takes effect at its end.        *)
(***************************************************************************)
EXTENDS Naturals, Sequences, FiniteSets

CONSTANTS
    Primary,      \* the server's own screen
    Clients,      \* the other screens
    Values,       \* what a user may copy
    Big,          \* the values over the server's size limit
    Users         \* the kinds of users, see below

\* A user copies only on the screen that has the cursor or also elsewhere, does or
\* does not wait for the screens to settle, copies these values, and copies,
\* moves to another screen and loses connections so often.
UserKinds == [onlyActive : BOOLEAN, patient : BOOLEAN, values : SUBSET Values,
              copies : Nat, switches : Nat, drops : Nat]

ASSUME ClipboardAssumption ==
    /\ Primary \notin Clients
    /\ Big \subseteq Values
    /\ Users \subseteq UserKinds

Screens == {Primary} \cup Clients
Empty == "empty"
Nothing == "nothing"    \* not a content: nothing has been sent
Contents == Values \cup {Empty}

VARIABLES
    \* the server
    m_clients,      \* the clients that are connected
    m_active,       \* the screen that has the cursor
    m_seqNum,
    owner, clipSeq, \* m_clipboardOwner and m_clipboardSeqNum
    m_clipboard, m_clipboardData,
    dirty,          \* the screens whose clipboard is dirty
    proxyData,      \* each client proxy's copy of the clipboard
    primarySeq,     \* the sequence number of the primary's last enter
    \* the clients
    active,         \* the clients with Client::m_active
    entered,        \* the clients whose screen has the cursor
    own,            \* the clients with m_ownClipboard
    sent,           \* what was sent since m_sentClipboard was last cleared
    seq,            \* ServerProxy::m_seqNum
    \* the screens and what is on its way
    local,          \* the content of the screen's own clipboard
    held,           \* the screens whose own clipboard belongs to this program
    events,         \* the event queue of each process; the primary's is the server's
    toClient, toServer,
    last,           \* history: the user's latest copy
    user,           \* the kind of user of this behaviour
    copies, drops   \* counters for its bounds

server == <<m_clients, m_active, m_seqNum, owner, clipSeq, m_clipboard, m_clipboardData,
            dirty, proxyData, primarySeq>>
client == <<active, entered, own, sent, seq>>
screen == <<local, held>>
history == <<last, user, copies, drops>>
vars == <<server, client, screen, events, toClient, toServer, history>>

Connected == {Primary} \cup m_clients
Quiescent ==
    /\ \A s \in Screens : events[s] = <<>>
    /\ \A c \in Clients : toClient[c] = <<>> /\ toServer[c] = <<>>

Init ==
    /\ m_clients = Clients
    /\ m_active = Primary
    /\ m_seqNum = 0
    /\ owner = Primary /\ clipSeq = 0
    /\ m_clipboard = Empty /\ m_clipboardData = Empty
    /\ dirty = Clients
    /\ proxyData = [c \in Clients |-> Empty]
    /\ primarySeq = 0
    /\ active = {} /\ entered = {} /\ own = {}
    /\ sent = [c \in Clients |-> Nothing]
    /\ seq = [c \in Clients |-> 0]
    /\ user \in Users
    /\ last \in user.values
    /\ local = [s \in Screens |-> IF s = Primary THEN last ELSE Empty]
    /\ held = Clients
    /\ events = [s \in Screens |-> <<>>]
    /\ toClient = [c \in Clients |-> <<>>]
    /\ toServer = [c \in Clients |-> <<>>]
    /\ copies = 0 /\ drops = 0

Post(s, batch) == events' = [events EXCEPT ![s] = @ \o batch]

----------------------------------------------------------------------------
(* The user.                                                                *)

\* Something on screen s copies v.  The platform screen notices only when the
\* screen's clipboard belonged to this program, and posts CLIPBOARD_GRABBED; the
\* primary's carries the sequence number of the time it is posted.
Copy(s, v) ==
    /\ copies < user.copies
    /\ v \in user.values
    /\ s \in Connected
    /\ user.onlyActive => IF s = Primary THEN m_active = Primary ELSE s \in entered
    /\ user.patient => Quiescent
    /\ copies' = copies + 1
    /\ last' = v
    /\ local' = [local EXCEPT ![s] = v]
    /\ held' = held \ {s}
    /\ IF s \in held THEN Post(s, <<[type |-> "grabbed", from |-> s, seq |-> primarySeq]>>)
                     ELSE UNCHANGED events
    /\ UNCHANGED <<server, client, toClient, toServer, user, drops>>

----------------------------------------------------------------------------
(* The server.                                                              *)

\* setClipboard() on the proxies: the one of the primary sets the screen's
\* clipboard, a client's posts the chunks as events.  Nothing if it is clean.
setClipboard(s, content, dirtyNow, q) ==
    /\ dirty' = dirtyNow \ {s}
    /\ IF s \in dirtyNow
       THEN IF s = Primary
            THEN /\ local' = [local EXCEPT ![s] = content]
                 /\ held' = held \cup {s}
                 /\ UNCHANGED proxyData
                 /\ events' = [events EXCEPT ![Primary] = q]
            ELSE /\ proxyData' = [proxyData EXCEPT ![s] = content]
                 /\ events' = [events EXCEPT ![Primary] =
                                  Append(q, [type |-> "sending", to |-> s, data |-> content])]
                 /\ UNCHANGED screen
       ELSE /\ events' = [events EXCEPT ![Primary] = q]
            /\ UNCHANGED <<screen, proxyData>>

\* The content onClipboardChanged() reads from the sender.
getClipboard(s) == IF s = Primary THEN local[Primary] ELSE proxyData[s]

\* The first event of the server's queue; the rest of it.
NextEvent == Head(events[Primary])
Rest == Tail(events[Primary])
Happens(type) == events[Primary] # <<>> /\ NextEvent.type = type

refusesGrab_Never(e) == FALSE  \* Faulty variant: old grabs are taken too.

\* A grab with an old sequence number is ignored; the primary's never is.
refusesGrab(e) == e.from # Primary /\ e.seq < clipSeq

dirtyAfterGrab_All(s) == dirty \cup Connected  \* Faulty variant: the grabber is dirty too.

\* Who lacks the clipboard after a grab by s, and after s has updated it.
dirtyAfterGrab(s) == (dirty \cup Connected) \ {s}

dirtyAfterChange_Kept(s) == dirty \ {s}  \* Faulty variant: nobody becomes dirty.

dirtyAfterChange(s) == Connected \ {s}

handle_clipboard_grabbed ==
    /\ Happens("grabbed")
    /\ events' = [events EXCEPT ![Primary] = Rest]
    /\ LET e == NextEvent
       IN  \/ /\ refusesGrab(e)
              /\ UNCHANGED <<owner, clipSeq, m_clipboard, m_clipboardData, dirty, screen, toClient>>
           \/ /\ ~refusesGrab(e)
              /\ owner' = e.from
              /\ clipSeq' = e.seq
              /\ m_clipboard' = Empty
              /\ m_clipboardData' = Empty
              /\ dirty' = dirtyAfterGrab(e.from)
              /\ toClient' = [c \in Clients |->
                                IF c \in m_clients \ {e.from}
                                THEN Append(toClient[c], [type |-> "grab"]) ELSE toClient[c]]
              /\ IF e.from = Primary
                 THEN UNCHANGED screen
                 ELSE /\ local' = [local EXCEPT ![Primary] = Empty]
                      /\ held' = held \cup {Primary}
    /\ UNCHANGED <<m_clients, m_active, m_seqNum, proxyData, primarySeq, client, toServer, history>>

\* handle_clipboard_changed() with onClipboardChanged(): the new content is for
\* everybody but its sender, and the active screen gets it at once.
handle_clipboard_changed ==
    /\ Happens("changed")
    /\ LET e == NextEvent
           content == getClipboard(e.from)
       IN  \/ /\ e.seq < clipSeq
              /\ events' = [events EXCEPT ![Primary] = Rest]
              /\ UNCHANGED <<m_clipboard, m_clipboardData, dirty, screen, proxyData>>
           \/ /\ e.seq >= clipSeq
              /\ m_clipboard' = content
              /\ IF content \in Big \/ content = m_clipboardData
                 THEN /\ events' = [events EXCEPT ![Primary] = Rest]
                      /\ UNCHANGED <<m_clipboardData, dirty, screen, proxyData>>
                 ELSE /\ m_clipboardData' = content
                      /\ setClipboard(m_active, content, dirtyAfterChange(e.from), Rest)
    /\ UNCHANGED <<m_clients, m_active, m_seqNum, owner, clipSeq, primarySeq, client,
                   toClient, toServer, history>>

\* handle_clipboard_sending_event(): the proxy writes the transfer.
handle_clipboard_sending_event ==
    /\ Happens("sending")
    /\ events' = [events EXCEPT ![Primary] = Rest]
    /\ toClient' = [toClient EXCEPT ![NextEvent.to] =
                      Append(@, [type |-> "data", data |-> NextEvent.data])]
    /\ UNCHANGED <<server, client, screen, toServer, history>>

\* recvGrabClipboard() and recvClipboard(): the proxy posts what it read.
recvGrabClipboard(c) ==
    /\ toServer[c] # <<>>
    /\ Head(toServer[c]).type = "grab"
    /\ toServer' = [toServer EXCEPT ![c] = Tail(@)]
    /\ Post(Primary, <<[type |-> "grabbed", from |-> c, seq |-> Head(toServer[c]).seq]>>)
    /\ UNCHANGED <<server, client, screen, toClient, history>>

recvClipboard(c) ==
    /\ toServer[c] # <<>>
    /\ Head(toServer[c]).type = "data"
    /\ toServer' = [toServer EXCEPT ![c] = Tail(@)]
    /\ proxyData' = [proxyData EXCEPT ![c] = Head(toServer[c]).data]
    /\ Post(Primary, <<[type |-> "changed", from |-> c, seq |-> Head(toServer[c]).seq]>>)
    /\ UNCHANGED <<m_clients, m_active, m_seqNum, owner, clipSeq, m_clipboard, m_clipboardData,
                   dirty, primarySeq, client, screen, toClient, history>>

\* switchScreen(): leaving the primary updates the server's clipboard if the
\* primary owns it, and the new screen gets the clipboard if it is dirty.
switchScreen(dst) ==
    /\ m_seqNum < user.switches
    /\ dst \in Connected \ {m_active}
    /\ user.patient => Quiescent
    /\ LET updates == m_active = Primary /\ owner = Primary
           content == IF updates THEN local[Primary] ELSE m_clipboard
           changes == updates /\ content \notin Big /\ content # m_clipboardData
           dirtyNow == IF changes THEN dirtyAfterChange(Primary) ELSE dirty
           messages(c) == (IF c = m_active THEN <<[type |-> "leave"]>> ELSE <<>>)
                          \o (IF c = dst THEN <<[type |-> "enter", seq |-> m_seqNum + 1]>> ELSE <<>>)
       IN  /\ m_clipboard' = content
           /\ m_clipboardData' = IF changes THEN content ELSE m_clipboardData
           /\ toClient' = [c \in Clients |-> toClient[c] \o messages(c)]
           /\ IF content \in Big
              THEN /\ dirty' = dirtyNow
                   /\ UNCHANGED <<screen, proxyData, events>>
              ELSE setClipboard(dst, content, dirtyNow, events[Primary])
    /\ m_active' = dst
    /\ m_seqNum' = m_seqNum + 1
    /\ primarySeq' = IF dst = Primary THEN m_seqNum + 1 ELSE primarySeq
    /\ UNCHANGED <<m_clients, owner, clipSeq, client, toServer, history>>

\* A client goes away: removeClient() with forceLeaveClient() on the server, and
\* on the client the connection with its queued chunks; Client::m_active stays.
drop(c) ==
    /\ drops < user.drops
    /\ c \in m_clients
    /\ drops' = drops + 1
    /\ m_clients' = m_clients \ {c}
    /\ m_active' = IF m_active = c THEN Primary ELSE m_active
    /\ primarySeq' = IF m_active = c THEN m_seqNum ELSE primarySeq
    /\ events' = [events EXCEPT ![c] = <<>>,
                    ![Primary] = SelectSeq(@, LAMBDA e :
                       IF e.type = "sending" THEN e.to # c ELSE e.from # c)]
    /\ toClient' = [toClient EXCEPT ![c] = <<>>]
    /\ toServer' = [toServer EXCEPT ![c] = <<>>]
    /\ entered' = entered \ {c}
    /\ dirty' = dirty \ {c}
    /\ UNCHANGED <<m_seqNum, owner, clipSeq, m_clipboard, m_clipboardData, proxyData,
                   active, own, sent, seq, screen, last, user, copies>>

\* It comes back: a new proxy, a new ServerProxy, and handle_connected() and
\* enableSecondary() on the client.
adoptClient(c) ==
    /\ c \notin m_clients
    /\ m_clients' = m_clients \cup {c}
    /\ dirty' = dirty \cup {c}
    /\ proxyData' = [proxyData EXCEPT ![c] = Empty]
    /\ own' = own \ {c}
    /\ sent' = [sent EXCEPT ![c] = Nothing]
    /\ seq' = [seq EXCEPT ![c] = 0]
    /\ local' = [local EXCEPT ![c] = Empty]
    /\ held' = held \cup {c}
    /\ UNCHANGED <<m_active, m_seqNum, owner, clipSeq, m_clipboard, m_clipboardData, primarySeq,
                   active, entered, events, toClient, toServer, history>>

----------------------------------------------------------------------------
(* A client.                                                                *)

sends_Once(c) == local[c] \notin Big /\ sent[c] = Nothing  \* Faulty variant: changes are not sent.

\* sendClipboard(): does it send?  The content is not over the limit, and new.
sends(c) == local[c] \notin Big /\ (sent[c] = Nothing \/ sent[c] # local[c])

\* The chunks a client posts to its own queue, with the number of its last enter.
chunks(c) == <<[type |-> "sending", seq |-> seq[c], data |-> local[c]]>>

sendsAtOnce_Never(c) == FALSE  \* Faulty variant: always waits for a leave.

\* "if we're not the active screen then send the clipboard now"
sendsAtOnce(c) == c \notin active /\ local[c] \notin Big

\* Client::handle_clipboard_grabbed(): tell the server, and send the content at
\* once if this is not the active screen.
clientGrabbed(c) ==
    /\ events[c] # <<>>
    /\ Head(events[c]).type = "grabbed"
    /\ toServer' = [toServer EXCEPT ![c] = Append(@, [type |-> "grab", seq |-> seq[c]])]
    /\ own' = own \cup {c}
    /\ LET now == sendsAtOnce(c)
       IN  /\ sent' = [sent EXCEPT ![c] = IF now THEN local[c] ELSE Nothing]
           /\ events' = [events EXCEPT ![c] = Tail(@) \o (IF now THEN chunks(c) ELSE <<>>)]
    /\ UNCHANGED <<server, active, entered, seq, screen, toClient, history>>

clientSending(c) ==
    /\ events[c] # <<>>
    /\ Head(events[c]).type = "sending"
    /\ events' = [events EXCEPT ![c] = Tail(@)]
    /\ toServer' = [toServer EXCEPT ![c] =
                      Append(@, [type |-> "data", seq |-> Head(events[c]).seq,
                                 data |-> Head(events[c]).data])]
    /\ UNCHANGED <<server, client, screen, toClient, history>>

\* The message a client reads next.
Reads(c, type) == toClient[c] # <<>> /\ Head(toClient[c]).type = type
Read(c) == toClient' = [toClient EXCEPT ![c] = Tail(@)]

enter(c) ==
    /\ Reads(c, "enter") /\ Read(c)
    /\ seq' = [seq EXCEPT ![c] = Head(toClient[c]).seq]
    /\ active' = active \cup {c}
    /\ entered' = entered \cup {c}
    /\ UNCHANGED <<server, own, sent, screen, events, toServer, history>>

leave(c) ==
    /\ Reads(c, "leave") /\ Read(c)
    /\ active' = active \ {c}
    /\ entered' = entered \ {c}
    /\ IF c \in own /\ sends(c)
       THEN /\ sent' = [sent EXCEPT ![c] = local[c]]
            /\ Post(c, chunks(c))
       ELSE UNCHANGED <<sent, events>>
    /\ UNCHANGED <<server, own, seq, screen, toServer, history>>

\* Client::grabClipboard() and Client::setClipboard(): another screen's content
\* replaces the local one, and this client owns the clipboard no longer.
lose(c, content) ==
    /\ local' = [local EXCEPT ![c] = content]
    /\ held' = held \cup {c}
    /\ own' = own \ {c}
    /\ sent' = [sent EXCEPT ![c] = Nothing]
    /\ UNCHANGED <<server, active, entered, seq, events, toServer, history>>

grabClipboard(c) == Reads(c, "grab") /\ Read(c) /\ lose(c, Empty)
clientSetClipboard(c) == Reads(c, "data") /\ Read(c) /\ lose(c, Head(toClient[c]).data)

----------------------------------------------------------------------------
UserNext == \E s \in Screens : switchScreen(s) \/ \E v \in Values : Copy(s, v)
ServerNext ==
    \/ handle_clipboard_grabbed \/ handle_clipboard_changed \/ handle_clipboard_sending_event
    \/ \E c \in Clients : recvGrabClipboard(c) \/ recvClipboard(c) \/ drop(c) \/ adoptClient(c)
ClientNext(c) ==
    \/ clientGrabbed(c) \/ clientSending(c) \/ enter(c) \/ leave(c)
    \/ grabClipboard(c) \/ clientSetClipboard(c)

Next == UserNext \/ ServerNext \/ \E c \in Clients : ClientNext(c)
Spec == Init /\ [][Next]_vars

----------------------------------------------------------------------------
(* Properties.                                                              *)

\* The types of the variables.
TypeOK ==
    /\ m_clients \subseteq Clients
    /\ m_active \in Connected
    /\ {m_seqNum, clipSeq, primarySeq} \subseteq 0..user.switches
    /\ owner \in Screens
    /\ {m_clipboard, m_clipboardData} \subseteq Contents
    /\ dirty \subseteq Connected
    /\ proxyData \in [Clients -> Contents]
    /\ entered \subseteq active /\ active \subseteq Clients
    /\ own \subseteq Clients
    /\ sent \in [Clients -> Contents \cup {Nothing}]
    /\ seq \in [Clients -> 0..user.switches]
    /\ local \in [Screens -> Contents]
    /\ held \subseteq Screens

\* The assertion of onClipboardChanged(), "should be the expected client": an
\* update that is not out of date comes from the screen that owns the clipboard.
ExpectedClient == Happens("changed") /\ NextEvent.seq >= clipSeq => NextEvent.from = owner

\* It holds, with connections lost and no waiting, for a user who copies only where
\* the cursor is: the sequence numbers keep late updates of former owners out.
FromOwner == TypeOK /\ (user.onlyActive => ExpectedClient)

\* Everything has arrived, nothing was lost, and nothing was done in between.
Settled == Quiescent /\ user.patient /\ drops = 0

\* The active screen, and every screen that is not dirty, has the server's
\* clipboard once everything has arrived, unless it is the owner or something
\* was copied there that the server need not know of yet.
CleanHasClipboard == Settled =>
    \A s \in (Connected \ dirty) \cup {m_active} :
       s \in held \ {owner} => local[s] = m_clipboardData \/ m_clipboard \in Big

\* Server and clients agree who owns the clipboard once everything has arrived:
\* the owner still takes itself for it, and will send it when the cursor leaves.
OwnersAgree == Settled /\ user.onlyActive => own \cap m_clients = {owner} \ {Primary}

\* "if we're not the active screen then send the clipboard now": once everything
\* has arrived, a connected client that has grabbed the clipboard and not the
\* cursor has sent its content, unless it is over the limit.
SentNow == Quiescent =>
    \A c \in (own \cap m_clients) \ {m_active} : local[c] \notin Big => sent[c] # Nothing

\* A background copy reaches the server without the cursor's help, past grabs and
\* updates of the other screens: once everything has arrived, a connected client
\* that has grabbed the clipboard has sent its content, also after connections were
\* lost; and if none was, the server has what the owner sent to hand out.  Left out
\* are contents over the limit and clients that take themselves for the active
\* screen, as one does that comes back after it was lost with the cursor.
GrabSent ==
    LET background == {c \in (own \cap m_clients) \ active : local[c] \notin Big}
    IN  /\ Quiescent => \A c \in background : sent[c] # Nothing
        /\ Settled /\ owner \in background =>
              m_clipboard = sent[owner] /\ m_clipboardData = sent[owner]

\* What the user copied last, on the screen with the cursor, is what the active
\* screen has to paste.
LatestCopy == Settled /\ user.onlyActive /\ last \notin Big => local[m_active] = last
=============================================================================
