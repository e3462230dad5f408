----------------------------- MODULE Multiplexer -----------------------------
(***************************************************************************)
(* The thread that serves all sockets: SocketMultiplexer, with the sockets *)
(* that use it, TCPSocket and TCPListenSocket.  Other threads add, replace *)
(* and remove jobs under a lock with a lock of its own, and wake the       *)
(* service thread out of poll(), which it calls with the list locked.  The *)
(* results of poll() are matched with the jobs by their position.          *)
(***************************************************************************)
EXTENDS Naturals, Sequences, FiniteSets

CONSTANTS
    Sockets,       \* data sockets, each used by a thread of its own
    Listener,      \* the listening socket
    MaxOps,        \* bound: calls that the sockets' threads make
    MaxInput,      \* bound: arrivals of data, connections or hangups
    MaxOut,        \* bound: bytes in an output buffer
    ListenErrors   \* may poll() report an error on the listening socket?

ASSUME MultiplexerAssumption ==
    /\ Listener \notin Sockets
    /\ {"service", "nobody"} \cap (Sockets \cup {Listener}) = {}
    /\ {MaxOps, MaxInput, MaxOut} \subseteq Nat
    /\ ListenErrors \in BOOLEAN

All == Sockets \cup {Listener}
Idle == "idle"
NoJob == [does |-> "none", read |-> FALSE, write |-> FALSE]
Job(does, read, write) == [does |-> does, read |-> read, write |-> write]
Jobs == [does : {"none", "connecting", "connected", "listening"}, read : BOOLEAN, write : BOOLEAN]

VARIABLES
    \* SocketMultiplexer
    m_socketJobs,     \* the job list: socket and job, NoJob where it was reset
    m_update,
    listLockLock,     \* who holds the lock on the lock
    listLock,         \* who holds the job list
    jobs_are_ready_,
    pfds,             \* what the service thread polls: socket and job
    revents,          \* what poll() reported for each entry
    next,             \* the entry of pfds that is next
    cursor,           \* the place in the list of the job that was run last
    service,          \* where the service thread is
    wakeup,           \* is there something in the unblock pipe?
    cancelled,        \* has the destructor cancelled the thread?
    \* the sockets
    tcp,              \* m_connected, m_readable, m_writable, output buffer, m_socket # nullptr
    caller,           \* what each socket's thread is about to do
    given,            \* the job it is about to add
    arrived,          \* what the kernel holds for the socket
    queued,           \* LISTEN_SOCKET_CONNECTING events
    ops, inputs

list == <<m_socketJobs, m_update>>
locks == <<listLockLock, listLock>>
thread == <<pfds, revents, next, cursor, service>>
bounds == <<ops, inputs>>
vars == <<list, locks, jobs_are_ready_, thread, wakeup, cancelled, tcp, caller, given, arrived,
          queued, bounds>>

Fresh == [connected |-> FALSE, readable |-> FALSE, writable |-> FALSE, out |-> 0, open |-> TRUE]
Closed == [Fresh EXCEPT !.open = FALSE]

Init ==
    /\ m_socketJobs = <<>> /\ m_update = FALSE
    /\ listLockLock = "nobody" /\ listLock = "nobody"
    /\ jobs_are_ready_ = FALSE
    /\ pfds = <<>> /\ revents = <<>> /\ next = 1 /\ cursor = 0 /\ service = "top"
    /\ wakeup = FALSE /\ cancelled = FALSE
    /\ tcp = [s \in All |-> Fresh]
    /\ caller = [s \in All |-> "new"]
    /\ given = [s \in All |-> NoJob]
    /\ arrived = [s \in All |-> {}]
    /\ queued = 0
    /\ ops = 0 /\ inputs = 0

----------------------------------------------------------------------------
(* Jobs and the job list.                                                   *)

newJob_ReadOnly(s, t) ==  \* Faulty variant: ignores the output buffer.
    IF ~t.open THEN NoJob
    ELSE IF s = Listener THEN Job("listening", TRUE, FALSE)
    ELSE IF ~t.connected THEN IF t.writable THEN Job("connecting", FALSE, TRUE) ELSE NoJob
    ELSE IF t.readable THEN Job("connected", TRUE, FALSE) ELSE NoJob

\* TCPSocket::newJob() and the job of setListeningJob().
newJob(s, t) ==
    LET w == t.writable /\ t.out > 0
    IN  IF ~t.open THEN NoJob
        ELSE IF s = Listener THEN Job("listening", TRUE, FALSE)
        ELSE IF ~t.connected THEN IF t.writable THEN Job("connecting", FALSE, TRUE) ELSE NoJob
        ELSE IF t.readable \/ w THEN Job("connected", t.readable, w)
        ELSE NoJob

Known(s) == \E i \in DOMAIN m_socketJobs : m_socketJobs[i].socket = s
Put(s, job) == [i \in DOMAIN m_socketJobs |->
                   IF m_socketJobs[i].socket = s THEN [socket |-> s, job |-> job]
                   ELSE m_socketJobs[i]]
IsJob(e) == e.job # NoJob

\* The insertion or replacement in addSocket().
insertJob(s, job) ==
    /\ m_socketJobs' = IF Known(s) THEN Put(s, job)
                       ELSE Append(m_socketJobs, [socket |-> s, job |-> job])
    /\ m_update' = TRUE

resetJob_Quiet(s) ==  \* Faulty variant: does not set m_update.
    /\ m_socketJobs' = Put(s, NoJob)
    /\ UNCHANGED m_update

\* The removal in removeSocket(): the entry stays, so that positions do.
resetJob(s) ==
    /\ m_socketJobs' = Put(s, NoJob)
    /\ m_update' = (m_update \/ \E i \in DOMAIN m_socketJobs :
                                    m_socketJobs[i].socket = s /\ IsJob(m_socketJobs[i]))

\* unlockJobList(): the list is free, and the thread has work if there are entries.
unlockJobList ==
    /\ listLock' = "nobody"
    /\ jobs_are_ready_' = (m_socketJobs' # <<>>)

----------------------------------------------------------------------------
(* The threads that use sockets.                                            *)

MayCall(s) == caller[s] = Idle /\ ops < MaxOps

\* The thread of socket s is about to call addSocket() with this job, or
\* removeSocket() if there is none.
Give(s, job) ==
    /\ caller' = [caller EXCEPT ![s] = IF job = NoJob THEN "remove" ELSE "add"]
    /\ given' = [given EXCEPT ![s] = job]

\* TCPSocket::connect(), or the constructor for an accepted socket; for the
\* listening socket, bind().
open(s) ==
    /\ caller[s] = "new"
    /\ \E now \in IF s = Listener THEN {TRUE} ELSE BOOLEAN :
          tcp' = [tcp EXCEPT ![s].connected = now, ![s].readable = now, ![s].writable = TRUE]
    /\ Give(s, newJob(s, tcp'[s]))
    /\ UNCHANGED <<list, locks, jobs_are_ready_, thread, wakeup, cancelled, arrived, queued, bounds>>

\* write(): the job is made after the socket's mutex is released.
write(s) ==
    /\ MayCall(s) /\ s # Listener
    /\ tcp[s].writable /\ tcp[s].out < MaxOut
    /\ tcp' = [tcp EXCEPT ![s].out = @ + 1]
    /\ IF tcp[s].out = 0
       THEN caller' = [caller EXCEPT ![s] = "newJob"] /\ UNCHANGED given
       ELSE UNCHANGED <<caller, given>>
    /\ ops' = ops + 1
    /\ UNCHANGED <<list, locks, jobs_are_ready_, thread, wakeup, cancelled, arrived, queued, inputs>>

\* The rest of write(): setJob(newJob()).
setJob(s) ==
    /\ caller[s] = "newJob"
    /\ Give(s, newJob(s, tcp[s]))
    /\ UNCHANGED <<list, locks, jobs_are_ready_, thread, wakeup, cancelled, tcp, arrived, queued,
                   bounds>>

\* flush() waits until the output buffer is empty.
flush(s) ==
    /\ caller[s] = Idle /\ s # Listener
    /\ tcp[s].out > 0
    /\ caller' = [caller EXCEPT ![s] = "flush"]
    /\ UNCHANGED <<list, locks, jobs_are_ready_, thread, wakeup, cancelled, tcp, given, arrived,
                   queued, bounds>>

flushed(s) ==
    /\ caller[s] = "flush"
    /\ tcp[s].out = 0
    /\ caller' = [caller EXCEPT ![s] = Idle]
    /\ UNCHANGED <<list, locks, jobs_are_ready_, thread, wakeup, cancelled, tcp, given, arrived,
                   queued, bounds>>

\* accept(), which handles a LISTEN_SOCKET_CONNECTING event: listen again, unless
\* there was nothing to accept.
accept ==
    /\ queued > 0 /\ caller[Listener] = Idle
    /\ queued' = queued - 1
    /\ arrived' = [arrived EXCEPT ![Listener] = {}]
    /\ Give(Listener, newJob(Listener, tcp[Listener])) \/ UNCHANGED <<caller, given>>
    /\ UNCHANGED <<list, locks, jobs_are_ready_, thread, wakeup, cancelled, tcp, bounds>>

\* close(), or the destructor: the job is removed first.
close(s) ==
    /\ MayCall(s)
    /\ caller' = [caller EXCEPT ![s] = "close"]
    /\ ops' = ops + 1
    /\ UNCHANGED <<list, locks, jobs_are_ready_, thread, wakeup, cancelled, tcp, given, arrived,
                   queued, inputs>>

Waiting(s) == [add |-> "adding", remove |-> "removing", close |-> "closing"][caller[s]]

\* addSocket() and removeSocket() up to the wait for the list.
lockJobListLock(s) ==
    /\ caller[s] \in {"add", "remove", "close"}
    /\ listLockLock = "nobody"
    /\ listLockLock' = s
    /\ wakeup' = TRUE
    /\ caller' = [caller EXCEPT ![s] = Waiting(s)]
    /\ UNCHANGED <<list, listLock, jobs_are_ready_, thread, cancelled, tcp, given, arrived, queued,
                   bounds>>

\* addSocket() from there: lock the list, put the job, unlock the list.
addSocket(s) ==
    /\ caller[s] = "adding"
    /\ listLock = "nobody"
    /\ listLockLock' = "nobody"
    /\ insertJob(s, given[s])
    /\ unlockJobList
    /\ caller' = [caller EXCEPT ![s] = Idle]
    /\ given' = [given EXCEPT ![s] = NoJob]
    /\ UNCHANGED <<thread, wakeup, cancelled, tcp, arrived, queued, bounds>>

\* removeSocket() from there; in close() the socket is closed after it.
removeSocket(s) ==
    /\ caller[s] \in {"removing", "closing"}
    /\ listLock = "nobody"
    /\ listLockLock' = "nobody"
    /\ resetJob(s)
    /\ unlockJobList
    /\ IF caller[s] = "closing"
       THEN /\ tcp' = [tcp EXCEPT ![s] = Closed]
            /\ caller' = [caller EXCEPT ![s] = "closed"]
       ELSE caller' = [caller EXCEPT ![s] = Idle] /\ UNCHANGED tcp
    /\ UNCHANGED <<thread, wakeup, cancelled, given, arrived, queued, bounds>>

\* The destructor, when the sockets are gone: cancel the thread and wake it.
destroy ==
    /\ ~cancelled
    /\ \A s \in All : caller[s] = "closed"
    /\ cancelled' = TRUE
    /\ wakeup' = TRUE
    /\ jobs_are_ready_' = TRUE
    /\ UNCHANGED <<list, locks, thread, tcp, caller, given, arrived, queued, bounds>>

----------------------------------------------------------------------------
(* The service thread.                                                      *)

topOfLoop ==
    /\ service = "top"
    /\ service' = IF cancelled THEN "done" ELSE "wait"
    /\ UNCHANGED <<list, locks, jobs_are_ready_, pfds, revents, next, cursor, wakeup, cancelled, tcp, caller,
                   given, arrived, queued, bounds>>

waitForJobs ==
    /\ service = "wait"
    /\ jobs_are_ready_
    /\ service' = "lock"
    /\ UNCHANGED <<list, locks, jobs_are_ready_, pfds, revents, next, cursor, wakeup, cancelled, tcp, caller,
                   given, arrived, queued, bounds>>

serviceLocksLock ==
    /\ service = "lock"
    /\ listLockLock = "nobody"
    /\ listLockLock' = "service"
    /\ service' = "collect"
    /\ UNCHANGED <<list, listLock, jobs_are_ready_, pfds, revents, next, cursor, wakeup, cancelled, tcp,
                   caller, given, arrived, queued, bounds>>

\* Lock the list and collect the poll entries, if the list changed.
collect ==
    /\ service = "collect"
    /\ listLock = "nobody"
    /\ listLock' = "service"
    /\ listLockLock' = "nobody"
    /\ pfds' = IF m_update THEN SelectSeq(m_socketJobs, IsJob) ELSE pfds
    /\ m_update' = FALSE
    /\ service' = "poll"
    /\ UNCHANGED <<m_socketJobs, jobs_are_ready_, revents, next, cursor, wakeup, cancelled, tcp,
                   caller, given, arrived, queued, bounds>>

\* What poll() reports for an entry: readable if there is something to read,
\* writable always (the peer takes what it is sent), an error after a reset.
Report(e) ==
    [read  |-> e.job.read /\ arrived[e.socket] \cap {"data", "hangup"} # {},
     write |-> e.job.write,
     error |-> "reset" \in arrived[e.socket]]
Nothing == [read |-> FALSE, write |-> FALSE, error |-> FALSE]

\* pollSocket() returns: nothing to poll, or some entry is ready, or it was woken.
pollSocket ==
    /\ service = "poll"
    /\ revents' = [i \in DOMAIN pfds |-> Report(pfds[i])]
    /\ \/ pfds = <<>> /\ UNCHANGED wakeup
       \/ /\ pfds # <<>>
          /\ wakeup \/ \E i \in DOMAIN pfds : revents'[i] # Nothing
          /\ wakeup' = FALSE
    /\ service' = IF \E i \in DOMAIN pfds : revents'[i] # Nothing THEN "run" ELSE "cleanup"
    /\ UNCHANGED <<list, locks, jobs_are_ready_, pfds, next, cursor, cancelled, tcp, caller, given, arrived,
                   queued, bounds>>

\* nextCursor(): the places in the list with a job, after the cursor.
Ahead == {i \in DOMAIN m_socketJobs : i > cursor /\ IsJob(m_socketJobs[i])}

\* How a socket may be after its job ran, and whether it returns a new job.
Same(t) == [tcp |-> t, new |-> FALSE]
New(t) == [tcp |-> t, new |-> TRUE]
Disconnected(t) == [t EXCEPT !.connected = FALSE, !.readable = FALSE, !.writable = FALSE, !.out = 0]

\* The write of serviceConnected(): some bytes go, or the other end is gone
\* (XArchNetworkShutdown, XArchNetworkDisconnected and other errors).
AfterWrite(t) ==
    (IF t.out = 0 THEN {Same(t)} ELSE {New([t EXCEPT !.out = n]) : n \in 0..(t.out - 1)})
    \cup {New([t EXCEPT !.writable = FALSE, !.out = 0]), New(Disconnected(t))}

\* The read of serviceConnected(), after the write.  The connection may be over
\* with a hangup if nothing is left to read or write.
AfterRead(a, s) ==
    IF "hangup" \in arrived[s]
    THEN {New([a.tcp EXCEPT !.readable = FALSE, !.connected = c]) :
             c \in IF a.tcp.writable THEN {TRUE} ELSE BOOLEAN}
    ELSE {a, New(Disconnected(a.tcp))}

serviceConnected(s, r) ==
    IF r.error THEN {New(Disconnected(tcp[s]))}
    ELSE UNION {IF r.read /\ a.tcp.readable THEN AfterRead(a, s) ELSE {a} :
                   a \in IF r.write THEN AfterWrite(tcp[s]) ELSE {Same(tcp[s])}}

serviceConnecting(s, r) ==
    {New(Disconnected(tcp[s]))} \cup
    (IF r.write THEN {New([tcp[s] EXCEPT !.connected = TRUE, !.readable = TRUE])} ELSE {Same(tcp[s])})

\* The job of a data socket, and what the loop does with its result.
serviceData(s, job, r) ==
    /\ \E a \in IF job.does = "connecting" THEN serviceConnecting(s, r) ELSE serviceConnected(s, r) :
          /\ tcp' = [tcp EXCEPT ![s] = a.tcp]
          /\ IF a.new THEN m_socketJobs' = Put(s, newJob(s, a.tcp)) /\ m_update' = TRUE
             ELSE UNCHANGED list
    /\ arrived' = [arrived EXCEPT ![s] = IF r.read THEN @ \ {"data"} ELSE @]
    /\ UNCHANGED <<listLockLock, service, queued>>

\* serviceListening(): stop listening until accept().  On an error close() calls
\* removeSocket(), which waits for the list that this thread holds.
serviceListening(s, r) ==
    \/ /\ r.error
       /\ service' = "stuck"
       /\ listLockLock' = "service"
       /\ UNCHANGED <<list, tcp, arrived, queued>>
    \/ /\ ~r.error /\ r.read
       /\ m_socketJobs' = Put(s, NoJob)
       /\ m_update' = TRUE
       /\ queued' = queued + 1
       /\ UNCHANGED <<listLockLock, service, tcp, arrived>>
    \/ /\ ~r.error /\ ~r.read
       /\ UNCHANGED <<listLockLock, service, list, tcp, arrived, queued>>

\* A turn of the loop over the jobs: the entry of pfds with the same number tells
\* the job what is ready.
runJob ==
    /\ service = "run"
    /\ next <= Len(pfds)
    /\ \E at \in Ahead :
          /\ \A i \in Ahead : at <= i
          /\ cursor' = at
          /\ LET s == m_socketJobs[at].socket
                 job == m_socketJobs[at].job
                 r == revents[next]
             IN  \/ job.does = "listening" /\ serviceListening(s, r)
                 \/ job.does # "listening" /\ serviceData(s, job, r)
    /\ next' = next + 1
    /\ UNCHANGED <<listLock, jobs_are_ready_, pfds, revents, wakeup, cancelled, caller, given, bounds>>

endOfRun ==
    /\ service = "run"
    /\ next > Len(pfds) \/ Ahead = {}
    /\ service' = "cleanup"
    /\ UNCHANGED <<list, locks, jobs_are_ready_, pfds, revents, next, cursor, wakeup, cancelled, tcp, caller,
                   given, arrived, queued, bounds>>

\* Delete the entries without a job, unlock the list.
cleanup ==
    /\ service = "cleanup"
    /\ m_socketJobs' = SelectSeq(m_socketJobs, IsJob)
    /\ m_update' = (m_update \/ \E i \in DOMAIN m_socketJobs : ~IsJob(m_socketJobs[i]))
    /\ unlockJobList
    /\ service' = "top"
    /\ next' = 1 /\ cursor' = 0 /\ revents' = <<>>
    /\ UNCHANGED <<listLockLock, pfds, wakeup, cancelled, tcp, caller, given, arrived,
                   queued, bounds>>

----------------------------------------------------------------------------
\* The network: data, a connection to accept, a hangup or a reset arrives.
arrive(s) ==
    /\ inputs < MaxInput
    /\ \E what \in IF s # Listener THEN {"data", "hangup", "reset"}
                    ELSE IF ListenErrors THEN {"data", "reset"} ELSE {"data"} :
          arrived' = [arrived EXCEPT ![s] = @ \cup {what}]
    /\ tcp[s].connected
    /\ inputs' = inputs + 1
    /\ UNCHANGED <<list, locks, jobs_are_ready_, thread, wakeup, cancelled, tcp, caller, given,
                   queued, ops>>

\* What the thread of socket s does once it has called something.
callerStep(s) ==
    \/ lockJobListLock(s) \/ addSocket(s) \/ removeSocket(s)
    \/ s \in Sockets /\ (setJob(s) \/ flushed(s))

serviceStep ==
    \/ topOfLoop \/ waitForJobs \/ serviceLocksLock \/ collect
    \/ pollSocket \/ runJob \/ endOfRun \/ cleanup

Next ==
    \/ \E s \in All : open(s) \/ close(s) \/ arrive(s) \/ callerStep(s)
    \/ \E s \in Sockets : write(s) \/ flush(s)
    \/ accept \/ destroy
    \/ serviceStep

Spec == Init /\ [][Next]_vars

\* The threads run.  Strong, because a thread that waits for the lock on the lock
\* may find it taken again: it gets it in the end, since the lock is free whenever
\* the service thread polls.
Fairness == SF_vars(serviceStep) /\ \A s \in All : SF_vars(callerStep(s))

FairSpec == Spec /\ Fairness

----------------------------------------------------------------------------
(* Properties.                                                              *)

\* The types of the variables.
TypeOK ==
    /\ \A i \in DOMAIN m_socketJobs : m_socketJobs[i] \in [socket : All, job : Jobs]
    /\ {m_update, jobs_are_ready_, wakeup, cancelled} \subseteq BOOLEAN
    /\ {listLockLock, listLock} \subseteq All \cup {"service", "nobody"}
    /\ given \in [All -> Jobs]
    /\ \A s \in All : tcp[s].out \in 0..MaxOut

\* While jobs are run, the entries of pfds that are left are those of the jobs that
\* are left, in the same order and made from the same jobs: no job is told what
\* poll() reported for another socket (a read that finds nothing is taken for a
\* hangup).  A closed socket has no job, so none runs on a deleted object.
JobsMatchPoll ==
    /\ TypeOK
    /\ service = "run" =>
          SubSeq(pfds, next, Len(pfds)) =
          SelectSeq(SubSeq(m_socketJobs, cursor + 1, Len(m_socketJobs)), IsJob)
    /\ \A s \in All : caller[s] = "closed" =>
          \A i \in DOMAIN m_socketJobs : m_socketJobs[i].socket = s => ~IsJob(m_socketJobs[i])

\* Bytes have arrived that the socket could read.
Unread(s) == tcp[s].readable /\ "data" \in arrived[s]

\* Every addSocket() and removeSocket() returns, though the service thread holds the
\* list while it waits in poll(); what is written is sent and what arrives is read,
\* unless the connection goes; and the destructor's wait for the thread ends.
EverythingServed ==
    /\ \A s \in All : caller[s] \notin {Idle, "new", "closed"} ~> caller[s] \in {Idle, "closed"}
    /\ \A s \in Sockets : tcp[s].out > 0 ~> tcp[s].out = 0
    /\ \A s \in Sockets : Unread(s) ~> ~Unread(s)
    /\ cancelled ~> service = "done"
=============================================================================
