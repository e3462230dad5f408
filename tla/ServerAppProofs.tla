--------------------------- MODULE ServerAppProofs ---------------------------
(***************************************************************************)
(* For any number of servers, events and refusals, as long as no second    *)
(* stop begins inside the wait of a first one (Calm): m_serverState tells  *)
(* which objects exist and whether a retry is scheduled.                   *)
(*                                                                         *)
(* The argument follows the members of ServerApp through initServer(),     *)
(* startServer() and cleanup as functions of a record: each takes one that *)
(* Fits to one that Fits.  Alone is what a waiting closeServer() relies    *)
(* on: one frame at most, and the server of that frame still started.      *)
(***************************************************************************)
EXTENDS ServerApp, SequenceTheorems, TLAPS

Apps == [state : EServerState, timer : BOOLEAN, primary : BOOLEAN,
         server : 0..MaxServers, listener : 0..MaxServers,
         created : 0..MaxServers, unavailable : 0..MaxUnavailable]

Waiting == {"Initializing", "InitializingToStart", "Starting"}

\* The members agree with the state.
Fits(a) ==
    /\ a \in Apps
    /\ a.timer <=> a.state \in Waiting
    /\ a.server # 0 <=> a.state = "Started"
    /\ a.listener = a.server
    /\ a.primary <=> a.state \in {"Initialized", "Starting", "Started"}

Events == {<<"quit">>} \cup ({"disc"} \X (1..MaxServers))

Frames == [why : Why, server : 1..MaxServers, timer : BOOLEAN]

Types ==
    /\ handler \in {"none", "status", "quit"}
    /\ clients \in BOOLEAN
    /\ queue \in Seq(Events)
    /\ stack \in Seq(Frames)
    /\ m_suspended \in BOOLEAN /\ asleep \in BOOLEAN
    /\ failed \in BOOLEAN /\ asked \in BOOLEAN /\ exited \in BOOLEAN

\* At most one closeServer() waits, and its server is still there.
Alone ==
    /\ stack # <<>> => Len(stack) = 1 /\ stack[1].server = app.server /\ app.state = "Started"
    /\ clients => app.state = "Started"
    /\ asleep = m_suspended

IInv == Fits(app) /\ Types /\ Alone

----------------------------------------------------------------------------
(* What the functions of the application's state do.                        *)

LEMMA InitFits ==
    ASSUME NEW a, Fits(a), NEW screen \in ScreenAnswer(a)
    PROVE  LET r == initServer(a, screen)
           IN  /\ Fits(r.app) /\ r.ok \in BOOLEAN
               /\ r.app.server = a.server /\ r.app.created = a.created
               /\ r.ok => r.app.state # "Uninitialized"
               /\ a.state # "Uninitialized" => r.app = a
               /\ a.state = "Uninitialized" => r.app.state \in {"Uninitialized", "Initialized", "Initializing"}
               /\ ~r.ok => r.app = a /\ a.state = "Uninitialized"
<1> USE ServerAppAssumption
<1>1. CASE a.state # "Uninitialized"
  BY <1>1 DEF initServer, Result
<1>2. CASE a.state = "Uninitialized" /\ screen = "ok"
  BY <1>2 DEF initServer, Result, Fits, Apps, EServerState, Waiting
<1>3. CASE a.state = "Uninitialized" /\ screen = "later" /\ Restartable
  <2>1. a.unavailable < MaxUnavailable
    BY <1>3 DEF ScreenAnswer
  <2> DEFINE b == [a EXCEPT !.state = "Initializing", !.timer = TRUE,
                            !.unavailable = a.unavailable + 1]
  <2>2. initServer(a, screen) = Result(TRUE, b)
    BY <1>3 DEF initServer
  <2>3. a.unavailable + 1 \in 0..MaxUnavailable /\ a.unavailable + 1 > 0
    BY <2>1 DEF Fits, Apps
  <2>4. /\ b \in Apps /\ b.state = "Initializing" /\ b.timer /\ b.unavailable > 0
        /\ b.server = a.server /\ b.created = a.created /\ b.listener = a.listener
        /\ b.primary = a.primary
    BY <2>3 DEF Fits, Apps, EServerState
  <2> HIDE DEF b
  <2>5. Fits(b)
    BY <1>3, <2>4 DEF Fits, Waiting
  <2>6. initServer(a, screen).ok = TRUE /\ initServer(a, screen).app = b
    BY <2>2 DEF Result
  <2> QED BY <1>3, <2>1, <2>4, <2>5, <2>6
<1>4. CASE a.state = "Uninitialized" /\ screen # "ok" /\ ~(screen = "later" /\ Restartable)
  BY <1>4 DEF initServer, Result
<1> QED BY <1>1, <1>2, <1>3, <1>4

\* startServer() keeps a server that is there, opens one, or waits.
LEMMA StartFits ==
    ASSUME NEW a, Fits(a), NEW w \in Answers(a),
           a.state \notin {"Initializing", "InitializingToStart"}
    PROVE  LET r == startServer(a, w[1], w[2])
           IN  /\ Fits(r.app) /\ r.ok \in BOOLEAN
               /\ a.state \in {"Starting", "Started"} => r.app = a
<1> USE ServerAppAssumption
<1>w. /\ w[1] \in ScreenAnswer(a) /\ w[2] \in Answer
      /\ a.created < MaxServers \/ w[2] # "ok"
  BY DEF Answers
<1>1. CASE a.state \in {"Starting", "Started"}
  BY <1>1 DEF startServer, Result
<1>2. CASE a.state \notin {"Starting", "Started"}
  <2> DEFINE init == initServer(a, w[1])
  <2> DEFINE b == init.app
  <2>1. /\ Fits(b) /\ init.ok \in BOOLEAN
        /\ b.server = a.server /\ b.created = a.created
        /\ init.ok => b.state # "Uninitialized"
        /\ a.state # "Uninitialized" => b = a
        /\ a.state = "Uninitialized" => b.state \in {"Uninitialized", "Initialized", "Initializing"}
        /\ ~init.ok => b = a /\ a.state = "Uninitialized"
    BY <1>w, InitFits
  <2> HIDE DEF init
  <2>2. CASE ~init.ok
    BY <1>2, <2>1, <2>2 DEF startServer, init
  <2>3. CASE init.ok /\ b.state = "Initializing"
    BY <1>2, <2>1, <2>3 DEF startServer, init, Result, Fits, Apps, EServerState, Waiting
  <2>4. CASE init.ok /\ b.state # "Initializing"
    <3>1. b.state = "Initialized"
      BY <1>2, <2>1, <2>4 DEF Fits, Apps, EServerState
    <3>2. startServer(a, w[1], w[2]) = openServer(b, w[2])
      BY <1>2, <2>1, <2>4 DEF startServer, init
    <3> HIDE DEF b
    <3>3. CASE w[2] = "ok"
      <4> DEFINE c == [b EXCEPT !.state = "Started", !.created = b.created + 1,
                                !.server = b.created + 1, !.listener = b.created + 1]
      <4>1. openServer(b, w[2]) = Result(TRUE, c)
        BY <3>3 DEF openServer
      <4>2. b.created + 1 \in 0..MaxServers /\ b.created + 1 # 0
        BY <1>w, <2>1, <3>3 DEF Fits, Apps
      <4>3. /\ c \in Apps /\ c.state = "Started" /\ c.server # 0 /\ c.listener = c.server
            /\ c.timer = b.timer /\ c.primary = b.primary
        BY <2>1, <4>2 DEF Fits, Apps, EServerState
      <4> HIDE DEF c
      <4>4. Fits(c)
        BY <2>1, <3>1, <4>3 DEF Fits, Waiting
      <4> QED BY <1>2, <3>2, <4>1, <4>3, <4>4 DEF Result
    <3>4. CASE w[2] # "ok" /\ w[2] = "later" /\ Restartable
      <4> DEFINE c == [b EXCEPT !.state = "Starting", !.timer = TRUE]
      <4>1. openServer(b, w[2]) = Result(TRUE, c)
        BY <3>4 DEF openServer
      <4>2. Fits(c) /\ c.state = "Starting"
        BY <2>1, <3>1 DEF Fits, Apps, EServerState, Waiting
      <4> HIDE DEF c
      <4>3. LET r == startServer(a, w[1], w[2]) IN r.ok = TRUE /\ r.app = c
        BY <3>2, <4>1 DEF Result
      <4> QED BY <1>2, <4>2, <4>3
    <3>5. CASE w[2] # "ok" /\ ~(w[2] = "later" /\ Restartable)
      BY <1>2, <2>1, <3>1, <3>2, <3>5 DEF openServer, Result
    <3> QED BY <3>3, <3>4, <3>5
  <2> QED BY <2>1, <2>2, <2>3, <2>4
<1> QED BY <1>1, <1>2

\* What stopServer() and cleanupServer() leave once no server runs.
LEMMA StopFits ==
    ASSUME NEW a, Fits(a)
    PROVE  /\ a.state # "Started" => Fits(stopStarting(a))
           /\ stopStarting(a).state = IF a.state = "Starting" THEN "Initialized" ELSE a.state
           /\ stopStarting(a).server = a.server
           /\ a.state = "Started" =>
                 LET b == [a EXCEPT !.server = 0, !.listener = 0, !.state = "Initialized"]
                 IN  Fits(b) /\ b.state = "Initialized"
<1>1. CASE a.state = "Starting"
  BY <1>1, ServerAppAssumption DEF stopStarting, stopRetryTimer, Fits, Apps, EServerState, Waiting
<1>2. CASE a.state # "Starting"
  <2>1. stopStarting(a) = a
    BY <1>2 DEF stopStarting
  <2>2. ASSUME a.state = "Started"
        PROVE  LET b == [a EXCEPT !.server = 0, !.listener = 0, !.state = "Initialized"]
               IN  Fits(b) /\ b.state = "Initialized"
    <3> DEFINE b == [a EXCEPT !.server = 0, !.listener = 0, !.state = "Initialized"]
    <3>1. /\ b \in Apps /\ b.state = "Initialized" /\ b.server = 0 /\ b.listener = 0
          /\ b.timer = a.timer /\ b.primary = a.primary
      <4>1. 0 \in 0..MaxServers /\ "Initialized" \in EServerState /\ a \in Apps
        BY ServerAppAssumption DEF Fits, EServerState
      <4>2. b \in Apps
        BY <4>1 DEF Apps
      <4> QED BY <4>1, <4>2 DEF Apps
    <3> HIDE DEF b
    <3>2. Fits(b)
      BY <2>2, <3>1 DEF Fits, Waiting
    <3> QED BY <3>1, <3>2 DEF b
  <2> QED BY <1>2, <2>1, <2>2
<1> QED BY <1>1, <1>2

LEMMA CleanupFits ==
    ASSUME NEW a, Fits(a), a.state \notin {"Starting", "Started"}
    PROVE  Fits(cleanup(a)) /\ cleanup(a).state = "Uninitialized"
<1>1. a.state \in {"Uninitialized", "Initialized", "Initializing", "InitializingToStart"}
  BY DEF Fits, Apps, EServerState
<1> QED BY <1>1, ServerAppAssumption DEF cleanup, stopRetryTimer, Fits, Apps, EServerState, Waiting

\* What follows a stop, whoever asked for it.
LEMMA AfterStopFits ==
    ASSUME NEW why \in Why, NEW a, Fits(a), a.state \notin {"Starting", "Started"},
           why = "suspend" => a.state \notin {"Initializing", "InitializingToStart"},
           failed \in BOOLEAN, exited \in BOOLEAN, m_suspended' \in BOOLEAN,
           afterStop(why, a)
    PROVE  /\ Fits(app')
           /\ handler' \in {"none", "status"} /\ clients' = FALSE
           /\ failed' \in BOOLEAN /\ exited' \in BOOLEAN
<1>1. CASE why = "suspend" /\ m_suspended' /\ app' = a /\ clients' = FALSE /\ handler' = "none"
           /\ UNCHANGED <<failed, exited>>
  BY <1>1
<1>2. CASE why = "exit" /\ app' = cleanup(a) /\ exited' = TRUE /\ clients' = FALSE /\ handler' = "none"
           /\ UNCHANGED failed
  BY <1>2, CleanupFits
<1>3. ASSUME NEW b, Fits(b), b.state \notin {"Initializing", "InitializingToStart"},
             NEW w \in Answers(b),
             LET r == startServer(b, w[1], w[2])
             IN  /\ app' = r.app
                 /\ clients' = FALSE
                 /\ handler' = IF r.app.server = 0 THEN "none" ELSE "status"
                 /\ failed' = ~r.ok,
             UNCHANGED exited
      PROVE  /\ Fits(app')
             /\ handler' \in {"none", "status"} /\ clients' = FALSE
             /\ failed' \in BOOLEAN /\ exited' \in BOOLEAN
  <2> DEFINE r == startServer(b, w[1], w[2])
  <2>1. Fits(r.app) /\ r.ok \in BOOLEAN
    BY <1>3, StartFits
  <2> QED BY <1>3, <2>1
<1>4. CASE why = "reset"
  <2>1. Fits(cleanup(a)) /\ cleanup(a).state = "Uninitialized"
    BY CleanupFits
  <2> QED BY <1>3, <1>4, <2>1 DEF afterStop
<1>5. CASE why = "suspend" /\ ~m_suspended'
  BY <1>3, <1>5 DEF afterStop
<1> QED BY <1>1, <1>2, <1>4, <1>5 DEF afterStop, Why

\* handle_retry(), with fresh and r as it names them.
Fresh == [stopRetryTimer(app) EXCEPT !.state = IF @ = "Starting" THEN "Initialized" ELSE "Uninitialized"]

Retried(w) ==
    LET init == initServer(Fresh, w[1])
    IN  IF app.state = "Starting" THEN startServer(Fresh, w[1], w[2])
        ELSE IF app.state = "InitializingToStart" /\ init.ok /\ init.app.state = "Initialized"
             THEN startServer(init.app, w[1], w[2])
        ELSE init

\* A retry starts what waited, waits again or fails.
LEMMA RetryFits ==
    ASSUME Fits(app), app.timer, NEW w \in Answers(Fresh)
    PROVE  Fits(Retried(w).app) /\ Retried(w).ok \in BOOLEAN
<1> USE ServerAppAssumption
<1>1. app.state \in Waiting
  BY DEF Fits
<1>2. Fits(Fresh)
      /\ Fresh.state = IF app.state = "Starting" THEN "Initialized" ELSE "Uninitialized"
  BY <1>1 DEF Fresh, stopRetryTimer, Fits, Apps, EServerState, Waiting
<1>w. w[1] \in ScreenAnswer(Fresh) /\ w[2] \in Answer
      /\ (Fresh.created < MaxServers \/ w[2] # "ok")
  BY DEF Answers
<1>3. CASE app.state = "Starting"
  <2>1. Retried(w) = startServer(Fresh, w[1], w[2])
    BY <1>3 DEF Retried
  <2>2. Fresh.state \notin {"Initializing", "InitializingToStart"}
    BY <1>2, <1>3
  <2> QED BY <1>2, <2>1, <2>2, StartFits
<1>4. CASE app.state # "Starting"
  <2> DEFINE init == initServer(Fresh, w[1])
  <2>1. /\ Fits(init.app) /\ init.ok \in BOOLEAN
        /\ init.app.created = Fresh.created
        /\ init.ok => init.app.state # "Uninitialized"
        /\ Fresh.state = "Uninitialized" =>
             init.app.state \in {"Uninitialized", "Initialized", "Initializing"}
    BY <1>2, <1>w, InitFits
  <2>2. CASE app.state = "InitializingToStart" /\ init.ok /\ init.app.state = "Initialized"
    <3>1. Retried(w) = startServer(init.app, w[1], w[2])
      BY <1>4, <2>2 DEF Retried
    <3>2. w \in Answers(init.app)
      <4>1. init.app.unavailable = Fresh.unavailable
        BY <1>2, <1>4, <2>2 DEF initServer, Result, Fits, Apps
      <4> QED BY <4>1, <2>1, <1>w DEF Answers, ScreenAnswer
    <3> HIDE DEF init
    <3> QED BY <2>1, <2>2, <3>1, <3>2, StartFits
  <2>3. CASE ~(app.state = "InitializingToStart" /\ init.ok /\ init.app.state = "Initialized")
    <3>1. Retried(w) = init
      BY <1>4, <2>3 DEF Retried
    <3> HIDE DEF init
    <3> QED BY <2>1, <3>1
  <2> QED BY <2>2, <2>3
<1> QED BY <1>3, <1>4

----------------------------------------------------------------------------
(* The inductive invariant.                                                 *)

LEMMA BlankFits == Fits(Blank)
  BY ServerAppAssumption DEF Blank, Fits, Apps, EServerState, Waiting

LEMMA IInvInit == Init => IInv
<1> SUFFICES ASSUME Init PROVE IInv
  OBVIOUS
<1>1. PICK w \in Answers(Blank) :
         LET r == startServer(Blank, w[1], w[2]) IN r.ok /\ app = r.app
  BY DEF Init
<1>2. Blank.state = "Uninitialized"
  BY DEF Blank
<1>3. Fits(app)
  BY <1>1, <1>2, BlankFits, StartFits
<1>4. Types
  <2>1. handler \in {"none", "status"}
    BY DEF Init
  <2>2. queue \in Seq(Events) /\ stack \in Seq(Frames)
    BY DEF Init
  <2> QED BY <2>1, <2>2 DEF Init, Types
<1>5. Alone
  BY DEF Init, Alone
<1> QED BY <1>3, <1>4, <1>5 DEF IInv

\* A stop that begins: a server that runs waits in closeServer(), anything else is
\* given up at once.
LEMMA StopStep ==
    ASSUME IInv, NEW why \in {"suspend", "reset"}, stack = <<>>, stopServer(why),
           why = "suspend" => app.primary,
           m_suspended' \in BOOLEAN, m_suspended' = asleep', asked' \in BOOLEAN
    PROVE  IInv'
<1> USE DEF IInv
<1>1. CASE app.state = "Started"
  <2>1. app.server \in 1..MaxServers
    BY <1>1, ServerAppAssumption DEF Fits, Apps
  <2> DEFINE frame == [why |-> why, server |-> app.server, timer |-> TRUE]
  <2>2. /\ frame \in Frames /\ <<"disc", app.server>> \in Events
    BY <2>1 DEF Frames, Why, Events
  <2>3. /\ stack' = Append(stack, frame) /\ handler' = "quit"
        /\ queue' = IF clients THEN queue ELSE Append(queue, <<"disc", app.server>>)
        /\ UNCHANGED <<app, clients, failed, exited>>
    BY <1>1 DEF stopServer, closeServer, Post
  <2>4. stack' = <<frame>> /\ frame.server = app.server
    BY <2>3
  <2>5. Types'
    BY <2>2, <2>3, <2>4 DEF Types
  <2>6. Len(stack') = 1 /\ stack'[1] = frame /\ stack' # <<>>
    BY <2>4
  <2>7. Alone' /\ Fits(app')
    BY <1>1, <2>3, <2>4, <2>6 DEF Alone
  <2> QED BY <2>3, <2>5, <2>6, <2>7
<1>2. CASE app.state # "Started"
  <2> DEFINE a == stopStarting(app)
  <2>1. afterStop(why, a) /\ UNCHANGED <<queue, stack>>
    BY <1>2 DEF stopServer
  <2>2. Fits(a) /\ a.state = IF app.state = "Starting" THEN "Initialized" ELSE app.state
    BY <1>2, StopFits
  <2>3. why = "suspend" => a.state \notin {"Initializing", "InitializingToStart"}
    BY <2>2 DEF Fits
  <2>4. a.state \notin {"Starting", "Started"} /\ why \in Why
    BY <1>2, <2>2 DEF Why
  <2>5. /\ Fits(app')
        /\ handler' \in {"none", "status"} /\ clients' = FALSE
        /\ failed' \in BOOLEAN /\ exited' \in BOOLEAN
    <3> HIDE DEF a
    <3> QED BY <2>1, <2>2, <2>3, <2>4, AfterStopFits DEF Types
  <2> QED BY <2>1, <2>5 DEF Types, Alone
<1> QED BY <1>1, <1>2

\* A resume finds the screen open, so it starts the server at once or fails; inside
\* the wait of a stop it finds the server still started and does nothing.
LEMMA ResumeStep ==
    ASSUME IInv, Resume
    PROVE  IInv'
<1> USE DEF IInv
<1>1. PICK w \in Answers(app) :
         LET r == startServer(app, w[1], w[2]) IN Adopt(app, r.app) /\ failed' = ~r.ok
  BY DEF Resume, handle_resume
<1> DEFINE r == startServer(app, w[1], w[2])
<1>2. app.state \notin {"Initializing", "InitializingToStart"}
  BY DEF Resume, HasScreen, Fits
<1>3. /\ Fits(r.app) /\ r.ok \in BOOLEAN
      /\ app.state \in {"Starting", "Started"} => r.app = app
  BY <1>2, StartFits
<1>4. /\ app' = r.app /\ failed' = ~r.ok
      /\ handler' = IF r.app.server \notin {0, app.server} THEN "status" ELSE handler
      /\ clients' = IF r.app.server # app.server THEN FALSE ELSE clients
      /\ UNCHANGED <<queue, stack, asked, exited>>
      /\ asleep' = FALSE /\ m_suspended' = FALSE
  BY <1>1 DEF Adopt, Resume, handle_resume
<1> HIDE DEF r
<1>5. Types'
  BY <1>3, <1>4 DEF Types
<1>6. Alone'
  BY <1>3, <1>4 DEF Alone, Types
<1> QED BY <1>3, <1>4, <1>5, <1>6

\* A retry runs in the main loop only: a closeServer() that waits has a server.
LEMMA RetryStep ==
    ASSUME IInv, RetryTimerFires
    PROVE  IInv'
<1> USE DEF IInv
<1>1. PICK w \in Answers(Fresh) :
         /\ Adopt(app, Retried(w).app)
         /\ IF Retried(w).ok THEN UNCHANGED <<queue, asked>>
                             ELSE Post(<<"quit">>) /\ asked' = TRUE
  BY DEF RetryTimerFires, handle_retry, Fresh, Retried
<1> DEFINE r == Retried(w)
<1>2. Fits(r.app) /\ r.ok \in BOOLEAN
  BY RetryFits DEF RetryTimerFires
<1>3. app.state \in Waiting /\ stack = <<>> /\ ~clients
  BY DEF RetryTimerFires, Fits, Alone, Types, Waiting
<1>4. /\ app' = r.app /\ handler' \in {"status", handler}
      /\ clients' = FALSE \/ clients' = clients
      /\ queue = <<>> /\ (queue' = queue \/ queue' = Append(queue, <<"quit">>))
      /\ asked' = asked \/ asked' = TRUE
      /\ UNCHANGED <<stack, m_suspended, asleep, failed, exited>>
  BY <1>1, <1>2 DEF Adopt, RetryTimerFires, Post
<1> HIDE DEF r
<1>5. Types'
  <2>1. queue \in Seq(Events) /\ <<"quit">> \in Events
    BY DEF Types, Events
  <2>2. queue' \in Seq(Events)
    <3> HIDE DEF IInv
    <3>1. queue' = queue \/ queue' = Append(queue, <<"quit">>)
      BY <1>4
    <3>2. CASE queue' = queue
      BY <3>2, <2>1
    <3>3. CASE queue' = Append(queue, <<"quit">>)
      BY <3>3, <2>1, AppendProperties
    <3> QED BY <3>1, <3>2, <3>3
  <2> QED BY <1>4, <2>2 DEF Types
<1>6. Alone'
  <2>1. stack' = <<>> /\ ~clients' /\ asleep' = m_suspended'
    BY <1>3, <1>4 DEF Alone
  <2> QED BY <2>1 DEF Alone
<1> QED BY <1>2, <1>4, <1>5, <1>6

\* QUIT ends the wait of the one closeServer() there is, or the main loop.
LEMMA QuitStep ==
    ASSUME IInv, DispatchQuit
    PROVE  IInv'
<1> USE DEF IInv
<1>1. queue # <<>> /\ Tail(queue) \in Seq(Events) /\ UNCHANGED <<m_suspended, asleep, asked>>
  BY DEF DispatchQuit, Types
<1>2. CASE stack # <<>> /\ finishStop(stack[Len(stack)]) /\ queue' = Tail(queue)
  <2> DEFINE a == [app EXCEPT !.server = 0, !.listener = 0, !.state = "Initialized"]
  <2> DEFINE frame == stack[Len(stack)]
  <2>1. Len(stack) = 1 /\ app.state = "Started"
    BY <1>2 DEF Alone
  <2>2. frame \in Frames
    BY <2>1 DEF Types
  <2>3. Fits(a) /\ a.state = "Initialized"
    BY <2>1, StopFits
  <2>4. afterStop(frame.why, a) /\ stack' = SubSeq(stack, 1, Len(stack) - 1)
    BY <1>2 DEF finishStop
  <2>5. stack' = <<>>
    BY <2>1, <2>4 DEF Types
  <2>6. frame.why \in Why
    BY <2>2 DEF Frames
  <2> HIDE DEF a, frame
  <2>7. /\ Fits(app')
        /\ handler' \in {"none", "status"} /\ clients' = FALSE
        /\ failed' \in BOOLEAN /\ exited' \in BOOLEAN
    BY <1>1, <2>3, <2>4, <2>6, AfterStopFits DEF Types
  <2>8. Types'
    <3>1. queue' \in Seq(Events) /\ stack' \in Seq(Frames)
      BY <1>1, <1>2, <2>5
    <3> QED BY <1>1, <2>7, <3>1 DEF Types
  <2>9. Alone'
    BY <1>1, <2>5, <2>7 DEF Alone
  <2> QED BY <2>7, <2>8, <2>9
<1>3. CASE /\ stack = <<>> /\ app.state # "Started" /\ afterStop("exit", stopStarting(app))
           /\ queue' = Tail(queue) /\ UNCHANGED stack
  <2>1. app' = cleanup(stopStarting(app)) /\ exited' = TRUE /\ clients' = FALSE /\ handler' = "none"
        /\ failed' = failed
    BY <1>3 DEF afterStop
  <2>2. Fits(stopStarting(app)) /\ stopStarting(app).state \notin {"Starting", "Started"}
    BY <1>3, StopFits
  <2>3. Fits(app') /\ app'.state = "Uninitialized"
    BY <2>1, <2>2, CleanupFits
  <2>4. Types'
    BY <1>1, <1>3, <2>1 DEF Types
  <2>5. Alone'
    BY <1>1, <1>3, <2>1 DEF Alone
  <2> QED BY <2>1, <2>3, <2>4, <2>5
<1>4. CASE /\ stack = <<>> /\ app.state = "Started" /\ handler' = "quit"
           /\ stack' = <<[why |-> "exit", server |-> app.server, timer |-> TRUE]>>
           /\ queue' = IF clients THEN Tail(queue)
                                  ELSE Append(Tail(queue), <<"disc", app.server>>)
           /\ UNCHANGED <<app, clients, failed, exited>>
  <2>1. app.server \in 1..MaxServers
    BY <1>4, ServerAppAssumption DEF Fits, Apps
  <2> DEFINE frame == [why |-> "exit", server |-> app.server, timer |-> TRUE]
  <2>2. frame \in Frames /\ <<"disc", app.server>> \in Events /\ frame.server = app.server
    BY <2>1 DEF Frames, Why, Events
  <2>3. Types'
    BY <1>1, <1>4, <2>2 DEF Types
  <2>4. Len(stack') = 1 /\ stack'[1] = frame /\ stack' # <<>>
    BY <1>4
  <2>5. Alone'
    BY <1>1, <1>4, <2>2, <2>4 DEF Alone
  <2> QED BY <1>4, <2>3, <2>4, <2>5
<1> QED BY <1>2, <1>3, <1>4 DEF DispatchQuit

LEMMA IInvStep == ASSUME Calm PROVE IInv /\ [Next]_vars => IInv'
<1> SUFFICES ASSUME IInv, [Next]_vars PROVE IInv'
  OBVIOUS
<1>t. app \in Apps /\ Types /\ Alone /\ Fits(app)
  BY DEF IInv, Fits
<1>1. CASE Suspend
  <2>1. stack = <<>> /\ app.primary
    BY <1>1, <1>t DEF Suspend, HasScreen, handle_suspend, Alone
  <2>2. stopServer("suspend") /\ m_suspended' = TRUE /\ asleep' = TRUE /\ asked' = asked
    BY <1>1 DEF Suspend, handle_suspend
  <2> QED BY <1>t, <2>1, <2>2, StopStep DEF Types
<1>2. CASE Resume
  BY <1>2, ResumeStep
<1>3. CASE reset_server
  <2>1. stack = <<>> /\ stopServer("reset") /\ UNCHANGED <<m_suspended, asleep, asked>>
    BY <1>3 DEF reset_server
  <2> QED BY <1>t, <2>1, StopStep DEF Types, Alone
<1>4. CASE Quit
  <2>1. queue' \in Seq(Events)
    BY <1>4, <1>t DEF Quit, Post, Types, Events
  <2> QED BY <1>4, <1>t, <2>1 DEF Quit, IInv, Types, Alone
<1>5. CASE handle_client_connected
  BY <1>5, <1>t DEF handle_client_connected, IInv, Types, Alone, Fits
<1>6. CASE LastClientGone
  <2>1. app.server \in 1..MaxServers
    BY <1>6, <1>t, ServerAppAssumption DEF LastClientGone, Alone, Fits, Apps
  <2>2. <<"disc", app.server>> \in Events
    BY <2>1 DEF Events
  <2>3. queue' \in Seq(Events)
    BY <1>6, <1>t, <2>2 DEF LastClientGone, Post, Types
  <2> QED BY <1>6, <1>t, <2>3 DEF LastClientGone, IInv, Types, Alone
<1>7. CASE force_reconnect
  <2>1. app.server \in 1..MaxServers
    BY <1>7, <1>t, ServerAppAssumption DEF force_reconnect, Apps
  <2>2. <<"disc", app.server>> \in Events
    BY <2>1 DEF Events
  <2>3. queue' \in Seq(Events)
    BY <1>7, <1>t, <2>2 DEF force_reconnect, Post, Types
  <2> QED BY <1>7, <1>t, <2>3 DEF force_reconnect, IInv, Types, Alone
<1>8. CASE RetryTimerFires
  BY <1>8, RetryStep
<1>9. CASE CloseTimerFires
  <2>1. PICK i \in DOMAIN stack : stack' = [stack EXCEPT ![i].timer = FALSE]
    BY <1>9 DEF CloseTimerFires
  <2>2. stack \in Seq(Frames) /\ Len(stack) = 1 /\ i = 1 /\ DOMAIN stack = 1..1
        /\ stack[1].server = app.server /\ app.state = "Started" /\ stack[1] \in Frames
    BY <1>t, <2>1 DEF Types, Alone
  <2>3. /\ stack' \in Seq(Frames) /\ Len(stack') = 1
        /\ stack'[1] = [stack[1] EXCEPT !.timer = FALSE]
    <3> DEFINE f == [stack[1] EXCEPT !.timer = FALSE]
    <3>1. f \in Frames
      BY <2>2 DEF Frames
    <3>2. stack' = [stack EXCEPT ![1] = f]
      BY <2>1, <2>2
    <3> HIDE DEF f
    <3>3. stack' \in Seq(Frames) /\ Len(stack') = 1 /\ stack'[1] = f
      BY <2>2, <3>1, <3>2, ExceptSeq
    <3> QED BY <3>3 DEF f
  <2>4. stack'[1].server = stack[1].server
    BY <2>2, <2>3 DEF Frames
  <2>5. queue' \in Seq(Events)
    BY <1>9, <1>t DEF CloseTimerFires, Post, Types, Events
  <2> QED BY <1>9, <1>t, <2>2, <2>3, <2>4, <2>5 DEF CloseTimerFires, IInv, Types, Alone
<1>10. CASE DispatchDisconnected
  <2>1. <<"quit">> \in Events /\ queue \in Seq(Events) /\ queue # <<>>
    BY <1>10, <1>t DEF DispatchDisconnected, Types, Events
  <2>2. queue' \in Seq(Events)
    BY <1>10, <2>1 DEF DispatchDisconnected
  <2> QED BY <1>10, <1>t, <2>2 DEF DispatchDisconnected, IInv, Types, Alone
<1>11. CASE DispatchQuit
  BY <1>11, QuitStep
<1>12. CASE UNCHANGED vars
  BY <1>12, <1>t DEF vars, IInv, Types, Alone
<1> QED BY <1>1, <1>2, <1>3, <1>4, <1>5, <1>6, <1>7, <1>8, <1>9, <1>10, <1>11, <1>12 DEF Next

LEMMA Tells == ASSUME IInv PROVE StateTellsObjects
<1>1. TypeOK
  <2>1. app \in Apps /\ Types
    BY DEF IInv, Fits
  <2>2. /\ \A i \in DOMAIN queue : queue[i] \in Events
        /\ \A i \in DOMAIN stack : stack[i] \in Frames
    BY <2>1 DEF Types
  <2>3. {m_suspended, asleep, failed, asked, exited} \subseteq BOOLEAN
    BY <2>1, Zenon DEF Types
  <2>4. handler \in {"none", "status", "quit"} /\ clients \in BOOLEAN
    BY <2>1 DEF Types
  <2> QED BY <2>1, <2>2, <2>3, <2>4, Zenon DEF TypeOK, Apps, Events, Frames
<1> QED BY <1>1 DEF IInv, Fits, StateTellsObjects, Waiting
----------------------------------------------------------------------------
\* m_serverState tells which objects exist: stopServer(), cleanupServer() and
\* startServer() never meet a server, listener, screen or timer their asserts
\* exclude, for every sequence of answers, retries, suspends, resets and quits.
THEOREM AppStateTellsObjects == ASSUME Calm PROVE Spec => []StateTellsObjects
<1>1. Init => IInv
  BY IInvInit
<1>2. IInv /\ [Next]_vars => IInv'
  BY IInvStep
<1>3. IInv => StateTellsObjects
  BY Tells
<1> QED BY <1>1, <1>2, <1>3, PTL DEF Spec
=============================================================================
