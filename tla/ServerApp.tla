------------------------------ MODULE ServerApp ------------------------------
(***************************************************************************)
(* The life of the server process: class ServerApp of                      *)
(* src/src/lib/inputleap/ServerApp.cpp opens the screen, starts and stops  *)
(* the Server and its ClientListener, retries what is not available yet,   *)
(* and stops the server for a suspend, a reset or the end of the process.  *)
(*                                                                         *)
(* closeServer() waits for the clients in an event loop of its own, nested *)
(* in the handler that called it: every event may be handled inside it, a  *)
(* second stop included.  The C++ call stack is therefore a variable, with *)
(* one frame for each closeServer() that is waiting.                       *)
(***************************************************************************)
EXTENDS Naturals, Sequences

CONSTANTS
    Requests,        \* what the platform may ask for: "suspend", "reset", "reconnect"
    Restartable,     \* args().m_restartable
    Calm,            \* does no new stop begin while one is waiting?
    MaxUnavailable,  \* bound: how often the screen is not available
    MaxServers,      \* bound: Server objects created
    MaxQueue         \* bound: events in the queue

ASSUME ServerAppAssumption ==
    /\ Requests \subseteq {"suspend", "reset", "reconnect"}
    /\ Restartable \in BOOLEAN
    /\ Calm \in BOOLEAN
    /\ MaxUnavailable \in Nat
    /\ MaxServers \in Nat
    /\ MaxQueue \in Nat

VARIABLES
    app,          \* the members of ServerApp, see Blank
    handler,      \* what SERVER_DISCONNECTED of app.server does
    clients,      \* does app.server have clients, connected or closing?
    queue,        \* the event queue: <<"disc", server>> and <<"quit">>
    stack,        \* the closeServer() calls that are waiting, innermost last
    m_suspended,
    asleep,       \* the platform said suspend and has not said resume
    failed,       \* the last startServer() returned false and nobody looked
    asked,        \* history: something other than a stop posted QUIT
    exited        \* mainLoop() has returned

vars == <<app, handler, clients, queue, stack, m_suspended, asleep, failed, asked, exited>>

EServerState == {"Uninitialized", "Initializing", "InitializingToStart",
                 "Initialized", "Starting", "Started"}

Why == {"suspend", "reset", "exit"}

\* server and listener are 0 for a null pointer; created and unavailable count.
Blank == [state |-> "Uninitialized", timer |-> FALSE, primary |-> FALSE,
          server |-> 0, listener |-> 0, created |-> 0, unavailable |-> 0]

----------------------------------------------------------------------------
(* initServer() and startServer(), as functions of the application's state  *)
(* and of what the screen and the network answer.                           *)

Answer == {"ok", "later", "never"}

\* XScreenUnavailable is the only answer that is worth a retry.
ScreenAnswer(a) == IF a.unavailable < MaxUnavailable THEN Answer ELSE {"ok", "never"}

Result(ok, a) == [ok |-> ok, app |-> a]

initServer(a, screen) ==
    IF a.state # "Uninitialized" THEN Result(TRUE, a)
    ELSE IF screen = "ok"
         THEN Result(TRUE, [a EXCEPT !.state = "Initialized", !.primary = TRUE])
    ELSE IF screen = "later" /\ Restartable
         THEN Result(TRUE, [a EXCEPT !.state = "Initializing", !.timer = TRUE,
                                     !.unavailable = @ + 1])
    ELSE Result(FALSE, a)

\* The try block of startServer() and what follows it: listen and open a server.
openServer(a, net) ==
    IF net = "ok"
    THEN Result(TRUE, [a EXCEPT !.state = "Started", !.created = @ + 1,
                                !.server = a.created + 1, !.listener = a.created + 1])
    ELSE IF net = "later" /\ Restartable
         THEN Result(TRUE, [a EXCEPT !.state = "Starting", !.timer = TRUE])
    ELSE Result(FALSE, a)

startServer(a, screen, net) ==
    LET init == initServer(a, screen)
    IN  IF a.state \in {"Starting", "Started"} THEN Result(TRUE, a)
        ELSE IF ~init.ok THEN init
        ELSE IF init.app.state = "Initializing"
             THEN Result(TRUE, [init.app EXCEPT !.state = "InitializingToStart"])
        ELSE openServer(init.app, net)

\* Take the result of startServer(): a new server has its usual handler.
Adopt(before, after) ==
    /\ app' = after
    /\ handler' = IF after.server \notin {0, before.server} THEN "status" ELSE handler
    /\ clients' = IF after.server # before.server THEN FALSE ELSE clients

\* The answers startServer() meets in state a; a server is created within the bound.
Answers(a) == {w \in ScreenAnswer(a) \X Answer : a.created < MaxServers \/ w[2] # "ok"}

Init ==
    /\ \E w \in Answers(Blank) :
          LET r == startServer(Blank, w[1], w[2])
          IN  r.ok /\ app = r.app       \* otherwise startNode() ends the process
    /\ handler = IF app.server = 0 THEN "none" ELSE "status"
    /\ clients = FALSE
    /\ queue = <<>>
    /\ stack = <<>>
    /\ m_suspended = FALSE
    /\ asleep = FALSE
    /\ failed = FALSE
    /\ asked = FALSE
    /\ exited = FALSE

----------------------------------------------------------------------------
(* closeServer() and what is left to do after it.                           *)

Post(e) == queue' = Append(queue, e)

\* closeServer() up to the nested loop: without clients Server::disconnect()
\* answers at once; with clients their proxies close and answer later.
closeServer(why) ==
    /\ IF clients THEN UNCHANGED queue ELSE Post(<<"disc", app.server>>)
    /\ handler' = "quit"
    /\ stack' = Append(stack, [why |-> why, server |-> app.server, timer |-> TRUE])

\* The retry timer is stopped, and a server that is starting is given up.
stopRetryTimer(a) == [a EXCEPT !.timer = FALSE]

stopStarting(a) ==
    IF a.state = "Starting" THEN [stopRetryTimer(a) EXCEPT !.state = "Initialized"] ELSE a

\* cleanupServer() once nothing is started any more.
cleanup(a) ==
    IF a.state = "Initialized"
    THEN [a EXCEPT !.primary = FALSE, !.state = "Uninitialized"]
    ELSE IF a.state \in {"Initializing", "InitializingToStart"}
         THEN [stopRetryTimer(a) EXCEPT !.state = "Uninitialized"]
    ELSE a

\* Faulty variant: a resume that came during the stop is forgotten.
afterStop_Forget(why, a) ==
    \/ /\ why = "suspend"
       /\ app' = a
       /\ clients' = FALSE /\ handler' = "none"
       /\ UNCHANGED <<failed, exited>>
    \/ /\ why \in {"reset", "exit"}
       /\ app' = cleanup(a)
       /\ exited' = (why = "exit")
       /\ clients' = FALSE /\ handler' = "none"
       /\ UNCHANGED failed

\* What follows stopServer() in handle_suspend(), reset_server() and mainLoop().
afterStop(why, a) ==
    \/ /\ why = "suspend" /\ m_suspended'
       /\ app' = a
       /\ clients' = FALSE /\ handler' = "none"
       /\ UNCHANGED <<failed, exited>>
    \/ /\ \/ why = "suspend" /\ ~m_suspended'
          \/ why = "reset"
       /\ LET b == IF why = "reset" THEN cleanup(a) ELSE a
          IN  \E w \in Answers(b) :
                 LET r == startServer(b, w[1], w[2])
                 IN  /\ app' = r.app
                     /\ clients' = FALSE
                     /\ handler' = IF r.app.server = 0 THEN "none" ELSE "status"
                     /\ failed' = ~r.ok
       /\ UNCHANGED exited
    \/ /\ why = "exit"
       /\ app' = cleanup(a)
       /\ exited' = TRUE
       /\ clients' = FALSE /\ handler' = "none"
       /\ UNCHANGED failed

\* stopServer() and the rest of its caller.  With a server it only begins here.
stopServer(why) ==
    IF app.state = "Started"
    THEN closeServer(why) /\ UNCHANGED <<app, clients, failed, exited>>
    ELSE afterStop(why, stopStarting(app)) /\ UNCHANGED <<queue, stack>>

\* Faulty variant: server_ is not reset.
finishStop_Keep(frame) ==
    /\ afterStop(frame.why, [app EXCEPT !.listener = 0, !.state = "Initialized"])
    /\ stack' = SubSeq(stack, 1, Len(stack) - 1)

\* The nested loop met QUIT: the rest of closeServer(), of stopServer() and of
\* the caller.  frame.server is used here whether it is still alive or not.
finishStop(frame) ==
    /\ afterStop(frame.why, [app EXCEPT !.server = 0, !.listener = 0, !.state = "Initialized"])
    /\ stack' = SubSeq(stack, 1, Len(stack) - 1)

----------------------------------------------------------------------------
(* Events.  Those of the platform come at any time; a timer is looked at    *)
(* only while the queue is empty (EventQueue::getEvent).                    *)

HasScreen == app.primary /\ ~exited

handle_suspend_Unmarked ==  \* Faulty variant: m_suspended is not set before stopServer().
    /\ ~m_suspended
    /\ UNCHANGED m_suspended
    /\ stopServer("suspend")

handle_suspend ==
    /\ ~m_suspended
    /\ m_suspended' = TRUE
    /\ stopServer("suspend")

\* The platform may repeat the notification, once per window.
Suspend ==
    /\ "suspend" \in Requests
    /\ HasScreen
    /\ Calm => stack = <<>> \/ asleep
    /\ Len(queue) < MaxQueue
    /\ asleep' = TRUE
    /\ handle_suspend
    /\ UNCHANGED asked

handle_resume ==
    /\ m_suspended
    /\ m_suspended' = FALSE
    /\ \E w \in Answers(app) :
          LET r == startServer(app, w[1], w[2])
          IN  /\ Adopt(app, r.app)
              /\ failed' = ~r.ok

Resume ==
    /\ "suspend" \in Requests
    /\ HasScreen
    /\ asleep' = FALSE
    /\ handle_resume
    /\ UNCHANGED <<queue, stack, asked, exited>>

\* reset_server(): its own stopServer() does the work, cleanupServer() follows.
reset_server ==
    /\ "reset" \in Requests
    /\ ~exited
    /\ Calm => stack = <<>>
    /\ Len(queue) < MaxQueue
    /\ stopServer("reset")
    /\ UNCHANGED <<m_suspended, asleep, asked>>

\* A signal, the user or handle_screen_error() posts QUIT.
Quit ==
    /\ ~exited
    /\ ~asked
    /\ Len(queue) < MaxQueue
    /\ Post(<<"quit">>)
    /\ asked' = TRUE
    /\ UNCHANGED <<app, handler, clients, stack, m_suspended, asleep, failed, exited>>

handle_client_connected ==
    /\ app.listener # 0
    /\ ~exited
    /\ clients' = TRUE
    /\ UNCHANGED <<app, handler, queue, stack, m_suspended, asleep, failed, asked, exited>>

\* The last client is gone: Server::removeOldClient() or removeActiveClient().
LastClientGone ==
    /\ clients
    /\ ~exited
    /\ Len(queue) < MaxQueue
    /\ clients' = FALSE
    /\ Post(<<"disc", app.server>>)
    /\ UNCHANGED <<app, handler, stack, m_suspended, asleep, failed, asked, exited>>

\* Server::disconnect() from force_reconnect(); the clients close and go later.
force_reconnect ==
    /\ "reconnect" \in Requests
    /\ app.server # 0
    /\ \A i \in DOMAIN stack : stack[i].why # "exit"  \* its handler is removed by then
    /\ ~exited
    /\ ~clients
    /\ Len(queue) < MaxQueue
    /\ Post(<<"disc", app.server>>)
    /\ UNCHANGED <<app, handler, clients, stack, m_suspended, asleep, failed, asked, exited>>

handle_retry ==
    LET old == stopRetryTimer(app)
        fresh == [old EXCEPT !.state = IF @ = "Starting" THEN "Initialized" ELSE "Uninitialized"]
    IN  \E w \in Answers(fresh) :
           LET init == initServer(fresh, w[1])
               r == IF app.state = "Starting" THEN startServer(fresh, w[1], w[2])
                    ELSE IF app.state = "InitializingToStart" /\ init.ok
                                /\ init.app.state = "Initialized"
                         THEN startServer(init.app, w[1], w[2])
                    ELSE init
           IN  /\ Adopt(app, r.app)
               /\ IF r.ok THEN UNCHANGED <<queue, asked>>
                          ELSE Post(<<"quit">>) /\ asked' = TRUE

RetryTimerFires ==
    /\ app.timer
    /\ ~exited
    /\ queue = <<>>
    /\ handle_retry
    /\ UNCHANGED <<stack, m_suspended, asleep, failed, exited>>

CloseTimerFires_Never == FALSE  \* Faulty variant: the wait has no timeout.

\* The three seconds of one closeServer() are over: its handler posts QUIT.
CloseTimerFires ==
    /\ queue = <<>>
    /\ ~exited
    /\ \E i \in DOMAIN stack :
          /\ stack[i].timer
          /\ stack' = [stack EXCEPT ![i].timer = FALSE]
    /\ Post(<<"quit">>)
    /\ UNCHANGED <<app, handler, clients, m_suspended, asleep, failed, asked, exited>>

\* EventQueue::loop(): SERVER_DISCONNECTED goes to the handler of its target.
DispatchDisconnected ==
    /\ queue # <<>> /\ Head(queue)[1] = "disc"
    /\ ~exited
    /\ queue' = IF Head(queue)[2] = app.server /\ handler = "quit"
                THEN Append(Tail(queue), <<"quit">>)  \* handle_clients_disconnected()
                ELSE Tail(queue)                      \* handle_no_clients(), or nobody
    /\ UNCHANGED <<app, handler, clients, stack, m_suspended, asleep, failed, asked, exited>>

\* EventQueue::loop(): QUIT ends the innermost loop, whoever it was meant for.
DispatchQuit ==
    /\ queue # <<>> /\ Head(queue) = <<"quit">>
    /\ ~exited
    /\ UNCHANGED <<m_suspended, asleep, asked>>
    /\ \/ /\ stack # <<>>
          /\ finishStop(stack[Len(stack)])
          /\ queue' = Tail(queue)
       \/ /\ stack = <<>> /\ app.state # "Started"     \* cleanupServer() at once
          /\ afterStop("exit", stopStarting(app))
          /\ queue' = Tail(queue)
          /\ UNCHANGED stack
       \/ /\ stack = <<>> /\ app.state = "Started"     \* cleanupServer() must wait
          /\ handler' = "quit"
          /\ stack' = <<[why |-> "exit", server |-> app.server, timer |-> TRUE]>>
          /\ queue' = IF clients THEN Tail(queue)
                                 ELSE Append(Tail(queue), <<"disc", app.server>>)
          /\ UNCHANGED <<app, clients, failed, exited>>

Next ==
    \/ Suspend \/ Resume \/ reset_server \/ Quit
    \/ handle_client_connected \/ LastClientGone \/ force_reconnect
    \/ RetryTimerFires \/ CloseTimerFires
    \/ DispatchDisconnected \/ DispatchQuit

Spec == Init /\ [][Next]_vars

\* The event loop takes what is queued, and looks at timers when nothing is.
Fairness ==
    /\ WF_vars(DispatchDisconnected)
    /\ WF_vars(DispatchQuit)
    /\ WF_vars(CloseTimerFires)

FairSpec == Spec /\ Fairness

----------------------------------------------------------------------------
(* Properties.                                                              *)

\* The types of the variables.
TypeOK ==
    /\ app \in [state : EServerState, timer : BOOLEAN, primary : BOOLEAN,
                server : 0..MaxServers, listener : 0..MaxServers,
                created : 0..MaxServers, unavailable : 0..MaxUnavailable]
    /\ handler \in {"none", "status", "quit"}
    /\ clients \in BOOLEAN
    /\ \A i \in DOMAIN queue :
          queue[i] \in {<<"quit">>} \cup ({"disc"} \X (1..MaxServers))
    /\ \A i \in DOMAIN stack :
          stack[i] \in [why : Why, server : 1..MaxServers, timer : BOOLEAN]
    /\ {m_suspended, asleep, failed, asked, exited} \subseteq BOOLEAN

\* m_serverState tells which objects exist: the asserts of stopServer(),
\* cleanupServer() and startServer() about server_, m_listener and m_primaryClient.
\* A retry is scheduled exactly in the states that wait for one: a state that
\* waits without a timer never ends, and handle_retry() asserts the state.
StateTellsObjects ==
    /\ TypeOK
    /\ app.timer <=> app.state \in {"Initializing", "InitializingToStart", "Starting"}
    /\ app.server # 0 <=> app.state = "Started"
    /\ app.listener = app.server
    /\ app.primary <=> app.state \in {"Initialized", "Starting", "Started"}

\* handle_suspend() marks the server suspended first "so that it is stopped only
\* once": a closeServer() that waits still has its server when the wait ends,
\* and no other closeServer() waits for the same one.
StoppedOnce ==
    \A i \in DOMAIN stack :
       /\ stack[i].server = app.server
       /\ \A j \in DOMAIN stack : i # j => stack[i].server # stack[j].server

\* In the main loop a server that is neither suspended nor about to quit runs, or
\* is tried again later, whatever was handled while it was stopping.  handle_suspend() and
\* handle_resume() do not look at a hard failure of startServer().
RunsUnlessSuspended ==
    ~m_suspended /\ stack = <<>> /\ ~failed /\ ~exited /\ (\A i \in DOMAIN queue : queue[i] # <<"quit">>)
        => app.state \in {"Started", "Starting", "InitializingToStart"}

\* The QUIT of handle_clients_disconnected() ends the wait of closeServer() and
\* nothing else: the process ends only when something else posted QUIT.
ExitWasAsked == exited \/ (\E i \in DOMAIN stack : stack[i].why = "exit") => asked

\* closeServer() waits "for up to timeout seconds": the wait ends, with or
\* without the answer of the clients.
StopEnds == stack # <<>> ~> stack = <<>>
=============================================================================
