------------------------------- MODULE FilePaste -------------------------------
(***************************************************************************)
(* Pasting files that were copied on another screen, from the application  *)
(* that pastes to the one that gets the files: the paste thread            *)
(* (MSWindowsFilePaste), the client's and the server's relay of requests   *)
(* and statuses (Client, ServerProxy, ClientProxy1_7, Server), and the     *)
(* thread that sends the files (MSWindowsTaildrop).  The files themselves  *)
(* go from machine to machine with Tailscale and are not part of it.       *)
(***************************************************************************)
EXTENDS Naturals, Sequences, FiniteSets, SequencesExt

CONSTANTS
    Primary,      \* the server's own screen
    Clients,      \* the other screens
    Old,          \* clients of a version that cannot send files
    Copiers,      \* the screens where the user copies files
    Pasters,      \* the screens where the user pastes
    MayTimeOut,   \* may a paste run into its time limits?
    Prompt,       \* does a paste thread notice a lost connection before it is back?
    MaxPastes, MaxCopies, MaxDrops   \* bounds

ASSUME FilePasteAssumption ==
    /\ Primary \notin Clients
    /\ Old \subseteq Clients
    /\ Copiers \cup Pasters \subseteq Clients \cup {Primary}
    /\ Pasters \cap Old = {}
    /\ {MayTimeOut, Prompt} \subseteq BOOLEAN
    /\ {MaxPastes, MaxCopies, MaxDrops} \subseteq Nat

Screens == {Primary} \cup Clients
None == <<>>     \* no request, no files

VARIABLES
    \* the server
    m_clients,      \* the clients in the layout
    m_file_pastes,  \* per request: its target and its source
    clip,           \* the files on the shared clipboard and the screen that owns it
    \* a screen's paste thread
    paste,          \* "idle", "asking", "waiting", "sending" (heard of) or "collect"
    waiting_, statuses_, connected_,
    \* a screen's Taildrop thread
    taildrop,       \* "idle", "start", "copying", "report" or "clear"
    job,            \* the request it works on, and how that ended
    \* the clipboards and what is on its way
    files,          \* the files on each screen's own clipboard
    link,           \* the clients with a working connection
    events,         \* the event queue of each process
    toServer, toClient,
    \* history, and counters for the bounds
    delivered,      \* requests whose files have been sent
    pasted,         \* requests whose paste ended well
    refusedIdle,    \* has send() refused a request with nothing left to send?
    pastes, copies, drops

server == <<m_clients, m_file_pastes>>
thread == <<paste, waiting_, statuses_>>
sender == <<taildrop, job, delivered, refusedIdle>>
clipboards == <<clip, files>>
wires == <<toServer, toClient>>
counters == <<pastes, copies, drops>>
vars == <<server, clip, thread, connected_, sender, files, link, events, wires, pasted, counters>>

busy_(s) == taildrop[s] # "idle"
Connected == {Primary} \cup m_clients

Init ==
    /\ m_clients = Clients
    /\ m_file_pastes = <<>>
    /\ clip = [owner |-> Primary, id |-> 0]
    /\ paste = [s \in Screens |-> "idle"]
    /\ waiting_ = [s \in Screens |-> None]
    /\ statuses_ = [s \in Screens |-> <<>>]
    /\ connected_ = [s \in Screens |-> TRUE]
    /\ taildrop = [s \in Screens |-> "idle"]
    /\ job = [s \in Screens |-> [req |-> None, state |-> "none"]]
    /\ files = [s \in Screens |-> 0]
    /\ link = Clients
    /\ events = [s \in Screens |-> <<>>]
    /\ toServer = [c \in Clients |-> <<>>]
    /\ toClient = [c \in Clients |-> <<>>]
    /\ delivered = {} /\ pasted = {}
    /\ refusedIdle = FALSE
    /\ pastes = 0 /\ copies = 0 /\ drops = 0

Status(r, state) == [type |-> "status", req |-> r, state |-> state]
Request(r, id) == [type |-> "request", req |-> r, id |-> id]
Send(r, id) == [type |-> "send", req |-> r, id |-> id]

----------------------------------------------------------------------------
(* The clipboards.                                                          *)

\* The user copies files on a screen; the server has their names at once.
copyFiles(s) ==
    /\ copies < MaxCopies
    /\ s \in Connected \cap Copiers
    /\ copies' = copies + 1
    /\ files' = [files EXCEPT ![s] = copies + 1]
    /\ clip' = [owner |-> s, id |-> copies + 1]
    /\ UNCHANGED <<server, thread, connected_, sender, link, events, wires, pasted, pastes, drops>>

\* Something else is copied there, and the server does not know yet.
copyOther(s) ==
    /\ files[s] # 0
    /\ files' = [files EXCEPT ![s] = 0]
    /\ UNCHANGED <<server, clip, thread, connected_, sender, link, events, wires, pasted, counters>>

----------------------------------------------------------------------------
(* The paste thread: render(), fetch(), wait_for_files() and collect().     *)

\* An application pastes.  fetch() fails at once without a connection.
fetch(s) ==
    /\ pastes < MaxPastes
    /\ s \in Pasters
    /\ paste[s] = "idle"
    /\ clip.id # 0
    /\ pastes' = pastes + 1
    /\ IF connected_[s]
       THEN /\ paste' = [paste EXCEPT ![s] = "asking"]
            /\ waiting_' = [waiting_ EXCEPT ![s] = <<s, pastes + 1>>]
            /\ statuses_' = [statuses_ EXCEPT ![s] = <<>>]
       ELSE UNCHANGED thread
    /\ UNCHANGED <<server, clipboards, connected_, sender, link, events, wires, pasted, copies, drops>>

\* fetch() ends: waiting_ and statuses_ are cleared.
ends(s) ==
    /\ paste' = [paste EXCEPT ![s] = "idle"]
    /\ waiting_' = [waiting_ EXCEPT ![s] = None]
    /\ statuses_' = [statuses_ EXCEPT ![s] = <<>>]

\* own_address() takes its time; the request is for the files that were on offer
\* when the application pasted, which may be gone by now.
ask(s) ==
    /\ paste[s] = "asking"
    /\ \/ /\ ends(s)
          /\ UNCHANGED events
       \/ /\ paste' = [paste EXCEPT ![s] = "waiting"]
          /\ \E id \in {clip.id, clip.id - 1} :
                events' = [events EXCEPT ![s] = Append(@, Request(waiting_[s], id))]
          /\ UNCHANGED <<waiting_, statuses_>>
    /\ UNCHANGED <<server, clipboards, connected_, sender, link, wires, pasted, counters>>

Waits(s) == paste[s] \in {"waiting", "sending"}
heard(s) == ~connected_[s] \/ statuses_[s] # <<>>

\* The status that ends the wait: the first that is not "sending".
answer(s, state) ==
    \E i \in 1..Len(statuses_[s]) :
       /\ statuses_[s][i] = state /\ state # "sending"
       /\ \A j \in 1..(i - 1) : statuses_[s][j] = "sending"

\* wait_for_files() has heard something: a lost connection ends the paste, and so
\* does an answer; otherwise it goes on to wait for the transfer.
hears(s) ==
    /\ Waits(s)
    /\ heard(s)
    /\ \/ /\ ~connected_[s] \/ answer(s, "failed")
          /\ ends(s)
       \/ /\ connected_[s] /\ answer(s, "sent")
          /\ paste' = [paste EXCEPT ![s] = "collect"]
          /\ UNCHANGED <<waiting_, statuses_>>
       \/ /\ connected_[s] /\ ~answer(s, "failed") /\ ~answer(s, "sent")
          /\ paste' = [paste EXCEPT ![s] = "sending"]
          /\ statuses_' = [statuses_ EXCEPT ![s] = <<>>]
          /\ UNCHANGED waiting_
    /\ UNCHANGED <<server, clipboards, connected_, sender, link, events, wires, pasted, counters>>

\* wait_for_files() has heard nothing for answer_timeout or transfer_timeout.
timesOut(s) ==
    /\ MayTimeOut
    /\ Waits(s)
    /\ ~heard(s)
    /\ ends(s)
    /\ UNCHANGED <<server, clipboards, connected_, sender, link, events, wires, pasted, counters>>

\* collect() finds the files, or gives up after arrival_timeout.
collect(s) ==
    /\ paste[s] = "collect"
    /\ pasted' \in {pasted, pasted \cup {waiting_[s]}}
    /\ ends(s)
    /\ UNCHANGED <<server, clipboards, connected_, sender, link, events, wires, counters>>

\* Faulty: the statuses of an earlier paste are taken too.
status_AnyRequest(s, r, state) ==
    statuses_' = IF waiting_[s] # None THEN [statuses_ EXCEPT ![s] = Append(@, state)] ELSE statuses_

\* status(): only of the paste that waits.
status(s, r, state) ==
    statuses_' = IF waiting_[s] = r THEN [statuses_ EXCEPT ![s] = Append(@, state)] ELSE statuses_

----------------------------------------------------------------------------
(* The screen that has the files.                                           *)

\* Faulty: a request that comes too late is dropped without a word.
send_files_Silent(s, r, id, q) ==
    /\ events' = [events EXCEPT ![s] = q]
    /\ \/ /\ files[s] = id /\ ~busy_(s)
          /\ taildrop' = [taildrop EXCEPT ![s] = "start"]
          /\ job' = [job EXCEPT ![s] = [req |-> r, state |-> "none"]]
       \/ (files[s] # id \/ busy_(s)) /\ UNCHANGED <<taildrop, job>>
    /\ UNCHANGED <<delivered, refusedIdle>>

\* send_files() with MSWindowsTaildrop::send(): starts the thread, or reports
\* that the clipboard is in use, the files are gone or another paste is still being
\* sent.  q is what is left of the process's event queue.
send_files(s, r, id, q) ==
    \/ /\ files[s] = id /\ ~busy_(s)
       /\ taildrop' = [taildrop EXCEPT ![s] = "start"]
       /\ job' = [job EXCEPT ![s] = [req |-> r, state |-> "none"]]
       /\ events' = [events EXCEPT ![s] = q]
       /\ UNCHANGED <<delivered, refusedIdle>>
    \/ /\ events' = [events EXCEPT ![s] = Append(q, Status(r, "failed"))]
       /\ \E open \in BOOLEAN :
             /\ open => files[s] # id \/ busy_(s)
             /\ refusedIdle' = (refusedIdle \/ (open /\ files[s] = id /\ taildrop[s] = "clear"))
       /\ UNCHANGED <<taildrop, job, delivered>>

\* MSWindowsTaildrop::run(): "sending", or the program is not installed.
startSending(s) ==
    /\ taildrop[s] = "start"
    /\ \/ /\ taildrop' = [taildrop EXCEPT ![s] = "copying"]
          /\ events' = [events EXCEPT ![s] = Append(@, Status(job[s].req, "sending"))]
          /\ UNCHANGED job
       \/ /\ taildrop' = [taildrop EXCEPT ![s] = "report"]
          /\ job' = [job EXCEPT ![s].state = "failed"]
          /\ UNCHANGED events
    /\ UNCHANGED <<server, clipboards, thread, connected_, delivered, refusedIdle, link, wires,
                   pasted, counters>>

\* "tailscale file cp" for each file: all arrive, or one fails.
copyToTarget(s) ==
    /\ taildrop[s] = "copying"
    /\ taildrop' = [taildrop EXCEPT ![s] = "report"]
    /\ \/ /\ job' = [job EXCEPT ![s].state = "sent"]
          /\ delivered' = delivered \cup {job[s].req}
       \/ /\ job' = [job EXCEPT ![s].state = "failed"]
          /\ UNCHANGED delivered
    /\ UNCHANGED <<server, clipboards, thread, connected_, refusedIdle, link, events, wires,
                   pasted, counters>>

\* The result is posted, and only then busy_ is cleared.
reportResult(s) ==
    /\ taildrop[s] = "report"
    /\ taildrop' = [taildrop EXCEPT ![s] = "clear"]
    /\ events' = [events EXCEPT ![s] = Append(@, Status(job[s].req, job[s].state))]
    /\ UNCHANGED <<server, clipboards, thread, connected_, job, delivered, refusedIdle, link,
                   wires, pasted, counters>>

clearBusy(s) ==
    /\ taildrop[s] = "clear"
    /\ taildrop' = [taildrop EXCEPT ![s] = "idle"]
    /\ UNCHANGED <<server, clipboards, thread, connected_, job, delivered, refusedIdle, link,
                   events, wires, pasted, counters>>

----------------------------------------------------------------------------
(* The server.                                                              *)

\* A message to each screen of batch; the primary's goes to its paste thread.
\* A connection that is down swallows what is written.
tell(batch) ==
    /\ LET mine == {m \in batch : m.to = Primary /\ m.msg.req = waiting_[Primary]}
       IN  statuses_' = [statuses_ EXCEPT ![Primary] = @ \o SetToSeq({m.msg.state : m \in mine})]
    /\ toClient' = [c \in Clients |->
                      IF c \in link THEN toClient[c] \o SetToSeq({m.msg : m \in {n \in batch : n.to = c}})
                      ELSE toClient[c]]

\* Faulty: the clipboard's owner may have gone.
refuses_NotAbsent(s, r, id) ==
    \/ s \notin Connected
    \/ r \in DOMAIN m_file_pastes
    \/ clip.id # id
    \/ clip.owner = s
    \/ clip.owner \in Old

\* Why file_paste_requested() fails a request; the last cases are about its source.
refuses(s, r, id) ==
    \/ s \notin Connected
    \/ r \in DOMAIN m_file_pastes
    \/ clip.id # id
    \/ clip.owner \notin Connected
    \/ clip.owner = s
    \/ clip.owner \in Old

\* file_paste_requested(); q is what is left of the server's event queue.
file_paste_requested(s, r, id, q) ==
    \/ /\ refuses(s, r, id)
       /\ tell({[to |-> s, msg |-> Status(r, "failed")]})
       /\ events' = [events EXCEPT ![Primary] = q]
       /\ UNCHANGED <<m_file_pastes, sender>>
    \/ /\ ~refuses(s, r, id)
       /\ m_file_pastes' = [x \in DOMAIN m_file_pastes \cup {r} |->
                              IF x = r THEN [target |-> s, source |-> clip.owner] ELSE m_file_pastes[x]]
       /\ IF clip.owner = Primary
          THEN /\ send_files(Primary, r, id, q)
               /\ UNCHANGED <<statuses_, toClient>>
          ELSE /\ toClient' = [toClient EXCEPT ![clip.owner] =
                                 IF clip.owner \in link THEN Append(@, Send(r, id)) ELSE @]
               /\ events' = [events EXCEPT ![Primary] = q]
               /\ UNCHANGED <<statuses_, sender>>

without(pastes_) == [r \in DOMAIN m_file_pastes \ pastes_ |-> m_file_pastes[r]]

\* file_paste_status(): from the source only, passed on to the target.
file_paste_status(s, r, state) ==
    IF r \in DOMAIN m_file_pastes /\ m_file_pastes[r].source = s
    THEN /\ m_file_pastes' = IF state = "sending" THEN m_file_pastes ELSE without({r})
         /\ LET target == m_file_pastes[r].target
            IN  tell(IF target \in Connected THEN {[to |-> target, msg |-> Status(r, state)]} ELSE {})
    ELSE UNCHANGED <<m_file_pastes, statuses_, toClient>>

\* The primary's own FILE_PASTE_REQUESTED and FILE_PASTE_STATUS events.
primaryEvent ==
    /\ events[Primary] # <<>>
    /\ LET e == Head(events[Primary])
           q == Tail(events[Primary])
       IN  \/ e.type = "request" /\ file_paste_requested(Primary, e.req, e.id, q)
           \/ /\ e.type = "status"
              /\ file_paste_status(Primary, e.req, e.state)
              /\ events' = [events EXCEPT ![Primary] = q]
              /\ UNCHANGED sender
    /\ UNCHANGED <<m_clients, clipboards, paste, waiting_, connected_, link, toServer, pasted, counters>>

\* ClientProxy1_7::parseMessage(): recv_file_paste() and recv_file_status().
parseMessage(c) ==
    /\ toServer[c] # <<>>
    /\ toServer' = [toServer EXCEPT ![c] = Tail(@)]
    /\ LET m == Head(toServer[c])
       IN  \/ m.type = "request" /\ file_paste_requested(c, m.req, m.id, events[Primary])
           \/ /\ m.type = "status"
              /\ file_paste_status(c, m.req, m.state)
              /\ UNCHANGED <<events, sender>>
    /\ UNCHANGED <<m_clients, clipboards, paste, waiting_, connected_, link, pasted, counters>>

\* Faulty: the pastes from a screen that disconnects stay.
ended_OnlyTarget(c) == {r \in DOMAIN m_file_pastes : m_file_pastes[r].target = c}


ended(c) == {r \in DOMAIN m_file_pastes : c \in {m_file_pastes[r].source, m_file_pastes[r].target}}

\* removeClient() with end_file_pastes(): pastes of its files fail.
removeClient(c) ==
    /\ c \in m_clients \ link
    /\ m_clients' = m_clients \ {c}
    /\ m_file_pastes' = without(ended(c))
    /\ tell({[to |-> m_file_pastes[r].target, msg |-> Status(r, "failed")] :
               r \in {x \in ended(c) : /\ m_file_pastes[x].source = c
                                       /\ m_file_pastes[x].target \in Connected \ {c}}})
    /\ UNCHANGED <<clipboards, paste, waiting_, connected_, sender, link, events, toServer,
                   pasted, counters>>

adoptClient(c) ==
    /\ c \in link \ m_clients
    /\ m_clients' = m_clients \cup {c}
    /\ UNCHANGED <<m_file_pastes, clipboards, thread, connected_, sender, link, events, wires,
                   pasted, counters>>

----------------------------------------------------------------------------
(* A client and its connection.                                             *)

\* Client::handle_file_paste_requested() and handle_file_paste_status(): written to
\* the server; without a connection nothing handles the event.
clientEvent(c) ==
    /\ events[c] # <<>>
    /\ events' = [events EXCEPT ![c] = Tail(@)]
    /\ toServer' = IF c \in link /\ connected_[c]
                   THEN [toServer EXCEPT ![c] = Append(@, Head(events[c]))] ELSE toServer
    /\ UNCHANGED <<server, clipboards, thread, connected_, sender, link, toClient, pasted, counters>>

\* ServerProxy::file_send() and file_status().
clientReads(c) ==
    /\ toClient[c] # <<>>
    /\ toClient' = [toClient EXCEPT ![c] = Tail(@)]
    /\ LET m == Head(toClient[c])
       IN  \/ /\ m.type = "send"
              /\ send_files(c, m.req, m.id, events[c])
              /\ UNCHANGED statuses_
           \/ /\ m.type = "status"
              /\ status(c, m.req, m.state)
              /\ UNCHANGED <<events, sender>>
    /\ UNCHANGED <<server, clipboards, paste, waiting_, connected_, link, toServer, pasted, counters>>

\* The connection breaks; each side finds out by itself.
lose(c) ==
    /\ drops < MaxDrops
    /\ c \in link
    /\ drops' = drops + 1
    /\ link' = link \ {c}
    /\ toServer' = [toServer EXCEPT ![c] = <<>>]
    /\ toClient' = [toClient EXCEPT ![c] = <<>>]
    /\ UNCHANGED <<server, clipboards, thread, connected_, sender, events, pasted, pastes, copies>>

\* Client::cleanupScreen() with MSWindowsScreen::disable().
cleanupScreen(c) ==
    /\ c \notin link
    /\ connected_[c]
    /\ connected_' = [connected_ EXCEPT ![c] = FALSE]
    /\ UNCHANGED <<server, clipboards, thread, sender, link, events, wires, pasted, counters>>

\* The client connects again, after its restart timer, and is enabled.
connect(c) ==
    /\ c \notin link \cup m_clients
    /\ ~connected_[c]
    /\ Prompt => ~Waits(c)
    /\ link' = link \cup {c}
    /\ connected_' = [connected_ EXCEPT ![c] = TRUE]
    /\ UNCHANGED <<server, clipboards, thread, sender, events, wires, pasted, counters>>

----------------------------------------------------------------------------
PasteThread(s) == ask(s) \/ hears(s) \/ collect(s)
Taildrop(s) == startSending(s) \/ copyToTarget(s) \/ reportResult(s) \/ clearBusy(s)
Relay(c) == \/ parseMessage(c) \/ removeClient(c) \/ adoptClient(c)
            \/ clientEvent(c) \/ clientReads(c) \/ cleanupScreen(c)

Next ==
    \/ \E s \in Screens : copyFiles(s) \/ copyOther(s) \/ fetch(s) \/ PasteThread(s) \/ timesOut(s) \/ Taildrop(s)
    \/ primaryEvent
    \/ \E c \in Clients : Relay(c) \/ lose(c) \/ connect(c)

Spec == Init /\ [][Next]_vars

\* The threads run, events are dispatched and messages read; nobody need paste,
\* lose a connection or get it back, and no time limit need run out.
Fairness ==
    /\ \A s \in Screens : WF_vars(PasteThread(s)) /\ WF_vars(Taildrop(s))
    /\ WF_vars(primaryEvent)
    /\ \A c \in Clients : /\ WF_vars(clientEvent(c)) /\ WF_vars(clientReads(c))
                          /\ WF_vars(parseMessage(c)) /\ WF_vars(cleanupScreen(c))
                          /\ WF_vars(removeClient(c)) /\ WF_vars(adoptClient(c))
FairSpec == Spec /\ Fairness

----------------------------------------------------------------------------
(* Properties.                                                              *)

\* The types of the variables.
TypeOK ==
    /\ m_clients \subseteq Clients
    /\ \A r \in DOMAIN m_file_pastes : {m_file_pastes[r].target, m_file_pastes[r].source} \subseteq Screens
    /\ clip \in [owner : Screens, id : 0..MaxCopies]
    /\ paste \in [Screens -> {"idle", "asking", "waiting", "sending", "collect"}]
    /\ \A s \in Screens : waiting_[s] = None <=> paste[s] = "idle"
    /\ \A s \in Screens : \A i \in 1..Len(statuses_[s]) : statuses_[s][i] \in {"sending", "sent", "failed"}
    /\ connected_ \in [Screens -> BOOLEAN]
    /\ taildrop \in [Screens -> {"idle", "start", "copying", "report", "clear"}]
    /\ files \in [Screens -> 0..MaxCopies]
    /\ link \subseteq Clients

\* Every paste the server keeps is between two different screens that are
\* connected: end_file_pastes() leaves none that nobody will finish.
PastesConnected ==
    /\ TypeOK
    /\ \A r \in DOMAIN m_file_pastes :
          /\ {m_file_pastes[r].target, m_file_pastes[r].source} \subseteq Connected
          /\ m_file_pastes[r].target # m_file_pastes[r].source

\* Is an answer to request r on its way from or at screen s?
WorksOn(s, r) ==
    \/ taildrop[s] \in {"start", "copying", "report"} /\ job[s].req = r
    \/ \E i \in 1..Len(events[s]) : events[s][i] = Status(r, "sent") \/ events[s][i] = Status(r, "failed")
    \/ /\ s \in Clients
       /\ \/ s \notin link
          \/ \E i \in 1..Len(toClient[s]) : toClient[s][i].type = "send" /\ toClient[s][i].req = r
          \/ \E i \in 1..Len(toServer[s]) :
                toServer[s][i] = Status(r, "sent") \/ toServer[s][i] = Status(r, "failed")

\* A paste that waits does not wait for nothing: its request is on its way, the
\* server knows a screen that works on it, or the end of it is on its way back.
\* The time limits are only for a screen or a program that hangs.
WaitsForSomething ==
    \A t \in Screens : LET r == waiting_[t] IN Waits(t) /\ ~heard(t) =>
       \/ t \in Clients \ link
       \/ \E i \in 1..Len(events[t]) : events[t][i].type = "request" /\ events[t][i].req = r
       \/ t \in Clients /\ \E i \in 1..Len(toServer[t]) : toServer[t][i].type = "request" /\ toServer[t][i].req = r
       \/ t \in Clients /\ \E i \in 1..Len(toClient[t]) :
             toClient[t][i] = Status(r, "sent") \/ toClient[t][i] = Status(r, "failed")
       \/ r \in DOMAIN m_file_pastes /\ WorksOn(m_file_pastes[r].source, r)

\* A paste ends well only if the files of that very request have been sent.
PastedWasDelivered == pasted \subseteq delivered

\* "Returns false, sending nothing, if a paste is still being sent": a request is
\* not refused when the result of the one before has been reported.
RefusesOnlyWhileSending == ~refusedIdle

\* Every paste comes to an end without the help of its time limits.
PasteEnds == \A s \in Pasters : paste[s] # "idle" ~> paste[s] = "idle"
=============================================================================
