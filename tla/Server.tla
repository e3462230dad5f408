------------------------------- MODULE Server -------------------------------
(***************************************************************************)
(* Which screen has the cursor, and which client proxies the server holds: *)
(* class Server of src/src/lib/server/Server.cpp, with the events that     *)
(* reach it one at a time from the event queue.                            *)
(*                                                                         *)
(* A screen is the primary client or a client proxy.  Each proxy is one    *)
(* C++ object: a client that reconnects gets a new one.  Positions on a    *)
(* screen, clipboards and file pastes are the subject of other modules;    *)
(* here a mouse move is told apart only by whether it crosses an edge and  *)
(* which connected screen, if any, lies behind that edge.                  *)
(*                                                                         *)
(* A call through a pointer to a deleted proxy has no defined outcome, so  *)
(* an action that would make one is not enabled: the invariants say        *)
(* whether such a state is reached.                                        *)
(***************************************************************************)
EXTENDS Naturals, FiniteSets

CONSTANTS
    Proxies,      \* client proxy objects
    Primary,      \* the primary client
    Nil,          \* a null pointer
    Names,        \* screen names, canonical or aliases
    NoName,       \* the empty string getCanonicalName() returns
    NameOf,       \* the name each screen gave: [Proxies \cup {Primary} -> Names]
    Dirs,         \* screen edges
    NoDirection,
    Configs,      \* the configurations the configuration file may hold
    SaverQuiet,   \* does nothing move the cursor while the screen saver runs?
    WaitQuiet     \* does the switch delay never run out for a screen that is gone?

Screens == Proxies \cup {Primary}

OptionSetting == {"unset", "off", "on"}

Config == [canon  : [Names -> Names \cup {NoName}],
           delay  : OptionSetting,   \* switchDelay
           twoTap : OptionSetting]   \* switchDoubleTap

\* A name table: aliases point to canonical names, never to other aliases.
WellFormed(c) == \A n \in Names : c.canon[n] # NoName => c.canon[c.canon[n]] = c.canon[n]

ASSUME ScreenAssumption ==
    /\ Primary \notin Proxies
    /\ Nil \notin Screens
    /\ NoName \notin Names
    /\ NoDirection \notin Dirs
    /\ NameOf \in [Screens -> Names]
    /\ {SaverQuiet, WaitQuiet} \subseteq BOOLEAN

ASSUME ConfigAssumption ==
    /\ Configs \subseteq Config
    /\ \A c \in Configs : WellFormed(c)

\* Server() and ServerApp::initServer() use a primary client with a canonical name.
HasPrimary(c) == c.canon[NameOf[Primary]] # NoName

VARIABLES
    m_config,           \* the Config object the server and ServerApp share
    m_clients,          \* connected screens by the name they were added under
    m_clientSet,        \* connected screens
    m_oldClients,       \* proxies told to close, each with a running close timer
    adopted,            \* proxies handed to the server so far
    deleted,            \* proxies that have been deleted
    disc,               \* CLIENT_PROXY_DISCONNECTED events in the event queue
    m_active,           \* the screen with the cursor
    m_activeSaver,      \* the screen that had it when the screen saver started
    saverOn,            \* the platform's screen saver is running
    entered,            \* screens told to enter and not told to leave since
    m_switch,           \* the switch being considered, see NoSwitch
    m_switchWaitDelay,  \* is the delay non-zero?
    m_switchTwoTapDelay,
    m_lockedToScreen,
    serverDisc,         \* a SERVER_DISCONNECTED event is in the event queue
    awaiting            \* history: disconnect() has not been answered yet

clientVars == <<m_clients, m_clientSet, m_oldClients, adopted, deleted, disc>>
activeVars == <<m_active, m_activeSaver, entered>>
optionVars == <<m_config, m_switchWaitDelay, m_switchTwoTapDelay>>
noticeVars == <<serverDisc, awaiting>>

vars == <<clientVars, activeVars, m_switch, optionVars, noticeVars,
          saverOn, m_lockedToScreen>>

Alive == Screens \ deleted

Connected == {m_clients[n] : n \in Names} \ {Nil}

-----------------------------------------------------------------------------
(***************************************************************************)
(* Names and options                                                       *)
(***************************************************************************)
getName(c, s) == IF c.canon[NameOf[s]] = NoName THEN NameOf[s] ELSE c.canon[NameOf[s]]

isCanonicalName(c, n) == c.canon[n] = n

\* An option missing from the new configuration keeps its old value.
optionValue(setting, old) == IF setting = "unset" THEN old ELSE setting = "on"

-----------------------------------------------------------------------------
(***************************************************************************)
(* The switch being considered: m_switchScreen, m_switchDir, whether the   *)
(* double tap is engaged or armed, whether the switch delay's timer runs.  *)
(***************************************************************************)
Switch == [screen : Screens \cup {Nil}, dir : Dirs \cup {NoDirection},
           tap : {"off", "engaged", "armed"}, wait : BOOLEAN]

NoSwitch == [screen |-> Nil, dir |-> NoDirection, tap |-> "off", wait |-> FALSE]

\* Faulty variant: the delay's timer is left running.
stopSwitch_TimerRuns(sw) == IF sw.screen # Nil THEN [NoSwitch EXCEPT !.wait = sw.wait] ELSE sw

stopSwitch(sw) == IF sw.screen # Nil THEN NoSwitch ELSE sw

\* processOptions(): an option that is given again cancels what it was timing.
processOptions(c, sw) ==
    [sw EXCEPT !.wait = (@ /\ c.delay = "unset"),
               !.tap = IF c.twoTap = "unset" THEN @ ELSE "off"]

\* Leaving the active screen for dst.  Leaving the primary screen can fail
\* (Screen::leave), leaving a client cannot; wrapping around to the same screen
\* only moves the cursor.
cutOver(dst) ==
    /\ {m_active, dst} \subseteq Alive
    /\ \/ /\ m_active # dst
          /\ m_active' = dst
          /\ entered' = (entered \ {m_active}) \cup {dst}
       \/ /\ m_active \in {dst, Primary}
          /\ UNCHANGED <<m_active, entered>>

switchScreen(dst) ==
    /\ m_switch' = stopSwitch(m_switch)
    /\ cutOver(dst)

\* The second tap of a double tap; inTime: it came fast enough.
shouldSwitchTwoTap(dir, inTime) == dir = m_switch.dir /\ m_switch.tap = "armed" /\ inTime

\* Does the double tap or the delay keep isSwitchOkay() from switching now?
preventSwitch(dir, inTime) ==
    IF m_switchTwoTapDelay /\ shouldSwitchTwoTap(dir, inTime)
    THEN FALSE
    ELSE m_switchTwoTapDelay \/ m_switchWaitDelay

\* What isSwitchOkay() remembers of a move across edge dir towards dst.
considerSwitch(dst, dir, inTime) ==
    LET tapped == m_switchTwoTapDelay /\ shouldSwitchTwoTap(dir, inTime)
        known  == dir = m_switch.dir /\ m_switch.screen # Nil
    IN  [screen |-> IF known THEN m_switch.screen ELSE dst,
         dir    |-> dir,
         tap    |-> IF m_switchTwoTapDelay /\ ~tapped THEN "engaged" ELSE m_switch.tap,
         wait   |-> m_switch.wait \/ (m_switchWaitDelay /\ ~tapped)]

-----------------------------------------------------------------------------
(***************************************************************************)
(* Dropping clients                                                        *)
(***************************************************************************)

\* Faulty variant: m_clients keeps its entry.
removeClients_KeepsEntry(c, gone) == UNCHANGED m_clients /\ m_clientSet' = m_clientSet \ gone

\* removeClient() for each of gone, under configuration c.
removeClients(c, gone) ==
    LET names == {getName(c, s) : s \in gone \cap m_clientSet}
    IN  /\ m_clients' = [n \in Names |-> IF n \in names THEN Nil ELSE m_clients[n]]
        /\ m_clientSet' = m_clientSet \ gone

\* forceLeaveClient() for each of gone.  At most one of the calls finds the
\* screen it looks for, and afterwards that screen is the primary, so the
\* order of the calls does not matter.
leftScreen == IF m_activeSaver # Nil THEN m_activeSaver ELSE m_active

\* Faulty variant: the saved screen is not forgotten.
forceLeaveClients_KeepsSaved(gone) ==
    /\ m_active' = IF leftScreen \in gone THEN Primary ELSE m_active
    /\ entered' = IF leftScreen \in gone THEN entered \cup {Primary} ELSE entered
    /\ UNCHANGED m_activeSaver

\* Faulty variant: the cursor comes home whoever leaves.
forceLeaveClients_Always(gone) ==
    /\ m_active' = IF gone = {} THEN m_active ELSE Primary
    /\ entered' = IF gone = {} THEN entered ELSE (entered \ {m_active}) \cup {Primary}
    /\ m_activeSaver' = IF m_activeSaver \in gone THEN Nil ELSE m_activeSaver

forceLeaveClients(gone) ==
    /\ IF leftScreen \in gone
       THEN /\ m_active' = Primary
            /\ entered' = IF m_activeSaver = Nil THEN entered \cup {Primary} ELSE entered
       ELSE UNCHANGED <<m_active, entered>>
    /\ m_activeSaver' = IF m_activeSaver \in gone THEN Nil ELSE m_activeSaver

\* The switch being considered after forceLeaveClient().
switchAfterLeave(gone) ==
    IF leftScreen \in gone /\ leftScreen = m_switch.screen
    THEN stopSwitch(m_switch) ELSE m_switch

\* SERVER_DISCONNECTED is posted when the last client is gone.
noClients(clients, old) == Cardinality({n \in Names : clients[n] # Nil}) = 1 /\ old = {}

postServerDisconnected(post) ==
    /\ serverDisc' = (serverDisc \/ post)
    /\ awaiting' = (awaiting /\ ~post)

-----------------------------------------------------------------------------
Init ==
    /\ m_config \in {c \in Configs : c.canon[NameOf[Primary]] = NameOf[Primary]}
    /\ m_clients = [n \in Names |-> IF n = NameOf[Primary] THEN Primary ELSE Nil]
    /\ m_clientSet = {Primary}
    /\ m_oldClients = {}
    /\ adopted = {}
    /\ deleted = {}
    /\ disc = {}
    /\ m_active = Primary
    /\ m_activeSaver = Nil
    /\ saverOn = FALSE
    /\ entered = {Primary}
    /\ m_switch = NoSwitch
    /\ m_switchWaitDelay = (m_config.delay = "on")
    /\ m_switchTwoTapDelay = (m_config.twoTap = "on")
    /\ m_lockedToScreen \in BOOLEAN
    /\ serverDisc = FALSE
    /\ awaiting = FALSE

\* A client that finished its handshake; closeClient() works on one that was
\* never added.
adoptClient(p) ==
    LET name == getName(m_config, p)
        accept == m_config.canon[NameOf[p]] # NoName /\ m_clients[name] = Nil
    IN  /\ p \notin adopted
        /\ adopted' = adopted \cup {p}
        /\ IF accept
           THEN /\ m_clients' = [m_clients EXCEPT ![name] = p]
                /\ m_clientSet' = m_clientSet \cup {p}
                /\ awaiting' = FALSE
                /\ UNCHANGED m_oldClients
           ELSE /\ m_oldClients' = m_oldClients \cup {p}
                /\ UNCHANGED <<m_clients, m_clientSet, awaiting>>
        /\ UNCHANGED <<deleted, disc, activeVars, m_switch, optionVars,
                       serverDisc, saverOn, m_lockedToScreen>>

\* ClientProxy1_6::disconnect(): the connection is gone, or its heartbeat is.
disconnected(p) ==
    /\ p \in adopted \ (deleted \cup disc)
    /\ disc' = disc \cup {p}
    /\ UNCHANGED <<m_clients, m_clientSet, m_oldClients, adopted, deleted, activeVars,
                   m_switch, optionVars, noticeVars, saverOn, m_lockedToScreen>>

\* removeActiveClient(), removeOldClient() and the delete.
handle_client_disconnected(p) ==
    /\ p \in disc
    /\ disc' = disc \ {p}
    /\ removeClients(m_config, {p})
    /\ IF p \in m_clientSet
       THEN /\ forceLeaveClients({p})
            /\ m_switch' = switchAfterLeave({p})
       ELSE UNCHANGED <<activeVars, m_switch>>
    /\ m_oldClients' = m_oldClients \ {p}
    /\ deleted' = deleted \cup {p}
    /\ postServerDisconnected(/\ p \in m_clientSet \cup m_oldClients
                              /\ noClients(m_clients', m_oldClients'))
    /\ UNCHANGED <<adopted, optionVars, saverOn, m_lockedToScreen>>

\* Faulty variant: looks for the client among the connected ones.
handle_client_close_timeout_Wrong(p) ==
    /\ p \in m_clientSet
    /\ m_oldClients' = m_oldClients \ {p}
    /\ UNCHANGED <<m_clients, m_clientSet, adopted, deleted, disc, activeVars, m_switch,
                   optionVars, noticeVars, saverOn, m_lockedToScreen>>

\* The queue handles timers only when it holds no events.
handle_client_close_timeout(p) ==
    /\ p \in m_oldClients
    /\ disc = {}
    /\ m_oldClients' = m_oldClients \ {p}
    /\ deleted' = deleted \cup {p}
    /\ postServerDisconnected(noClients(m_clients, m_oldClients'))
    /\ UNCHANGED <<m_clients, m_clientSet, adopted, disc, activeVars, m_switch,
                   optionVars, saverOn, m_lockedToScreen>>

\* closeClient() for each of closing, under configuration c: each gets a
\* message and a close timer.
closeClients(c, closing) ==
    /\ closing \subseteq Alive
    /\ removeClients(c, closing)
    /\ m_oldClients' = m_oldClients \cup closing
    /\ forceLeaveClients(closing)
    /\ UNCHANGED <<adopted, deleted, disc>>

\* The connected clients that setConfig(c) drops.
\* Faulty variant: nobody is dropped.
droppedBy_None(c) == {}

droppedBy(c) == {m_clients[n] : n \in {k \in Names : ~isCanonicalName(c, k)}} \ {Primary, Nil}

\* ServerApp::reload_config() reads the file into the Config object the server
\* uses, then calls Server::setConfig(), which may refuse it.
reload_config(c) ==
    /\ m_config' = c
    /\ IF HasPrimary(c)
       THEN /\ closeClients(c, droppedBy(c))
            /\ m_switch' = processOptions(c, switchAfterLeave(droppedBy(c)))
            /\ m_switchWaitDelay' = optionValue(c.delay, m_switchWaitDelay)
            /\ m_switchTwoTapDelay' = optionValue(c.twoTap, m_switchTwoTapDelay)
       ELSE UNCHANGED <<clientVars, activeVars, m_switch,
                        m_switchWaitDelay, m_switchTwoTapDelay>>
    /\ UNCHANGED <<noticeVars, saverOn, m_lockedToScreen>>

\* disconnect(): a reconnect hotkey, or the server being stopped.
disconnect ==
    /\ IF noClients(m_clients, m_oldClients)
       THEN /\ postServerDisconnected(TRUE)
            /\ UNCHANGED <<clientVars, activeVars, m_switch>>
       ELSE /\ closeClients(m_config, Connected \ {Primary})
            /\ m_switch' = switchAfterLeave(Connected \ {Primary})
            /\ awaiting' = TRUE
            /\ UNCHANGED serverDisc
    /\ UNCHANGED <<optionVars, saverOn, m_lockedToScreen>>

\* ServerApp::handle_no_clients()
handle_no_clients ==
    /\ serverDisc
    /\ serverDisc' = FALSE
    /\ UNCHANGED <<clientVars, activeVars, m_switch, optionVars, awaiting,
                   saverOn, m_lockedToScreen>>

-----------------------------------------------------------------------------
(***************************************************************************)
(* Moving the cursor                                                       *)
(***************************************************************************)
Undisturbed == SaverQuiet => ~saverOn

\* The hotkeys that switch to a named screen, to the next one or in a
\* direction; a lock does not stop them.
jumpToScreen(dst) ==
    /\ Undisturbed
    /\ dst \in Connected
    /\ switchScreen(dst)
    /\ UNCHANGED <<m_activeSaver, clientVars, optionVars, noticeVars,
                   saverOn, m_lockedToScreen>>

\* A mouse move across edge dir, with dst (or nothing) behind it.  A corner is
\* two such moves.  A locked corner bars the switch at any time; the server's
\* or the primary screen's lock and missing modifiers bar one that would
\* happen now.  A file being dragged off the primary screen holds it.
mouseMoveEdge(dst, dir, inTime) ==
    /\ Undisturbed
    /\ \/ /\ dst = Nil
          /\ m_switch' = stopSwitch(m_switch)
          /\ UNCHANGED <<m_active, entered>>
       \/ /\ dst # Nil
          /\ m_switch' = stopSwitch(considerSwitch(dst, dir, inTime))
          /\ UNCHANGED <<m_active, entered>>
       \/ /\ dst # Nil
          /\ preventSwitch(dir, inTime) \/ (m_active = Primary /\ dst # Primary)
          /\ m_switch' = considerSwitch(dst, dir, inTime)
          /\ UNCHANGED <<m_active, entered>>
       \/ /\ dst # Nil
          /\ ~preventSwitch(dir, inTime)
          /\ ~m_lockedToScreen
          /\ m_switch' = stopSwitch(considerSwitch(dst, dir, inTime))
          /\ cutOver(dst)
    /\ UNCHANGED <<m_activeSaver, clientVars, optionVars, noticeVars,
                   saverOn, m_lockedToScreen>>

\* A mouse move that stays on the screen, away from the edge: noSwitch().
\* A double tap that took too long is forgotten, one that has left the edge's
\* zone is armed.
mouseMoveInside ==
    /\ \E tap \in IF m_switch.tap = "off" THEN {"off"} ELSE {"off", m_switch.tap, "armed"} :
          m_switch' = [m_switch EXCEPT !.tap = tap, !.wait = FALSE]
    /\ UNCHANGED <<clientVars, activeVars, optionVars, noticeVars, saverOn, m_lockedToScreen>>

\* The switch delay has passed; a lock cancels the switch.
handle_switch_wait_event ==
    /\ m_switch.wait
    /\ disc = {} /\ ~serverDisc
    /\ Undisturbed
    /\ WaitQuiet => m_switch.screen \in m_clientSet
    /\ \/ /\ m_switch' = stopSwitch(m_switch)
          /\ UNCHANGED <<m_active, entered>>
       \/ ~m_lockedToScreen /\ switchScreen(m_switch.screen)
    /\ UNCHANGED <<m_activeSaver, clientVars, optionVars, noticeVars,
                   saverOn, m_lockedToScreen>>

\* Faulty variant: the screen is remembered after the switch.
onScreensaverActivated_Late ==
    /\ ~saverOn
    /\ saverOn' = TRUE
    /\ IF m_active # Primary THEN switchScreen(Primary)
                            ELSE UNCHANGED <<m_active, entered, m_switch>>
    /\ m_activeSaver' = m_active'
    /\ UNCHANGED <<clientVars, optionVars, noticeVars, m_lockedToScreen>>

\* The screen saver started: remember the active screen, go to the primary.
onScreensaverActivated ==
    /\ ~saverOn
    /\ saverOn' = TRUE
    /\ m_activeSaver' = m_active
    /\ IF m_active # Primary THEN switchScreen(Primary)
                            ELSE UNCHANGED <<m_active, entered, m_switch>>
    /\ UNCHANGED <<clientVars, optionVars, noticeVars, m_lockedToScreen>>

\* It stopped: go back, if that screen is still there.
onScreensaverDeactivated ==
    /\ saverOn
    /\ saverOn' = FALSE
    /\ m_activeSaver' = Nil
    /\ IF m_activeSaver \notin {Nil, Primary}
       THEN switchScreen(m_activeSaver)
       ELSE UNCHANGED <<m_active, entered, m_switch>>
    /\ UNCHANGED <<clientVars, optionVars, noticeVars, m_lockedToScreen>>

handle_lock_cursor_to_screen_event ==
    /\ m_lockedToScreen' = ~m_lockedToScreen
    /\ UNCHANGED <<clientVars, activeVars, m_switch, optionVars, noticeVars, saverOn>>

-----------------------------------------------------------------------------
Next ==
    \/ \E p \in Proxies : \/ adoptClient(p)
                         \/ disconnected(p)
                         \/ handle_client_disconnected(p)
                         \/ handle_client_close_timeout(p)
    \/ \E c \in Configs : reload_config(c)
    \/ disconnect
    \/ handle_no_clients
    \/ \E dst \in Screens : jumpToScreen(dst)
    \/ \E dst \in Connected \cup {Nil}, dir \in Dirs, inTime \in BOOLEAN :
          mouseMoveEdge(dst, dir, inTime)
    \/ mouseMoveInside
    \/ handle_switch_wait_event
    \/ onScreensaverActivated
    \/ onScreensaverDeactivated
    \/ handle_lock_cursor_to_screen_event

Spec == Init /\ [][Next]_vars

\* The event loop dispatches what is queued, and a close timer expires.
Fairness == \A p \in Proxies : /\ WF_vars(handle_client_disconnected(p))
                              /\ WF_vars(handle_client_close_timeout(p))

FairSpec == Spec /\ Fairness

-----------------------------------------------------------------------------
(***************************************************************************)
(* Properties                                                              *)
(***************************************************************************)

\* Every variable has the values its C++ counterpart can take.
TypeOK ==
    /\ m_config \in Configs
    /\ m_clients \in [Names -> Screens \cup {Nil}]
    /\ m_clientSet \subseteq Screens
    /\ m_oldClients \subseteq Proxies
    /\ adopted \subseteq Proxies
    /\ deleted \subseteq Proxies
    /\ disc \subseteq Proxies
    /\ m_active \in Screens
    /\ m_activeSaver \in Screens \cup {Nil}
    /\ entered \subseteq Screens
    /\ m_switch \in Switch
    /\ {m_switchWaitDelay, m_switchTwoTapDelay, m_lockedToScreen, saverOn,
        serverDisc, awaiting} \subseteq BOOLEAN

\* The server's two indexes of connected screens hold the same objects, none of
\* which is also waiting to be closed, and every adopted proxy is in one of
\* them until it is deleted, and then in none.
IndexesAgree ==
    /\ Connected = m_clientSet
    /\ m_clientSet \cap m_oldClients = {}
    /\ (m_clientSet \cup m_oldClients) \ {Primary} = adopted \ deleted

\* What the theorems and the passing run assume of the configurations: no name
\* changes its canonical name from one to another (it may be added or dropped if
\* it is not an alias).
StableNames == \A c, d \in Configs, s \in Screens : getName(c, s) = getName(d, s)

\* Every screen is connected under the name the configuration gives it, and
\* that name is a canonical one: neighbours and options are found by it.
ConnectedConfigured ==
    \A n \in Names : m_clients[n] # Nil =>
        isCanonicalName(m_config, n) /\ getName(m_config, m_clients[n]) = n

\* What the two indexes and the names say together.  Unlike IndexesAgree and
\* ConnectedConfigured it also holds of screens a refused configuration does
\* not know.
ClientsInv ==
    /\ \A n \in Names : m_clients[n] # Nil =>
          m_clients[n] \in m_clientSet /\ getName(m_config, m_clients[n]) = n
    /\ \A s \in m_clientSet : m_clients[getName(m_config, s)] = s
    /\ Primary \in m_clientSet
    /\ m_clientSet \cap m_oldClients = {}
    /\ (m_clientSet \cup m_oldClients) \ {Primary} = adopted \ deleted
    /\ deleted \cup disc \subseteq adopted

\* While a screen is saved for the end of the screen saver, the cursor is on the
\* primary.
SaverInv ==
    m_activeSaver # Nil => saverOn /\ m_active = Primary /\ m_activeSaver \in m_clientSet

\* Only screens that were adopted are entered.
EnteredAdopted == entered \subseteq adopted \cup {Primary}

\* The cursor is on a connected screen: forceLeaveClient() takes it off every
\* screen that is dropped, whichever way it is dropped.
ActiveConnected == m_active \in m_clientSet

\* Of the connected screens exactly the active one has been told to enter and
\* not to leave: Screen::enter() and Screen::leave() assert that they alternate.
EnteredIsActive == entered \cap m_clientSet = {m_active}

\* The inductive invariant behind the safety theorems.
IInv == TypeOK /\ ClientsInv /\ SaverInv /\ EnteredAdopted /\ ActiveConnected /\ EnteredIsActive

\* The screen to go back to after the screen saver is still connected.
SaverConnected == m_activeSaver # Nil => m_activeSaver \in m_clientSet

\* Wherever the cursor is or was, the object exists and is connected, through
\* every way to lose a client: the active screen, the one that was told to enter
\* and the one to go back to after the screen saver.
CursorConnected == TypeOK /\ ActiveConnected /\ EnteredIsActive /\ SaverConnected

\* A running switch delay has a screen to switch to, and the double tap is
\* engaged only for an edge being watched.
SwitchWhole == m_switch.screen = Nil => m_switch = NoSwitch

\* The screen of a running switch delay is connected: "stop waiting to switch
\* to this client" in forceLeaveClient().
WaitConnected == m_switch.wait => m_switch.screen \in m_clientSet

\* The switch delay in force is the one the configuration gives.
DelayAsConfigured == m_switchWaitDelay = (m_config.delay = "on")

\* Under a lock the screen that has the cursor, or will get it back after the
\* screen saver, is given up for three reasons only: a hotkey asks for another
\* one, it is lost itself, which brings the cursor home, or at the end of the
\* screen saver the primary refuses to be left.  No motion, switch delay, double
\* tap, reload, saver or loss of another client takes the cursor off it.
LockHolds ==
    [][m_lockedToScreen =>
          \/ leftScreen' = leftScreen
          \/ \E dst \in Screens : jumpToScreen(dst)
          \/ leftScreen \notin m_clientSet' /\ leftScreen' = Primary
          \/ onScreensaverDeactivated /\ m_active' = Primary]_vars

\* A client told to close goes away, by itself or when its timer expires.
ClosedGoAway == \A p \in Proxies : p \in m_oldClients ~> p \in deleted

\* disconnect() is answered by SERVER_DISCONNECTED unless a client joins.
DisconnectAnswered == awaiting ~> ~awaiting

\* Closing comes to an end: every client told to close is deleted, whether it
\* answers, breaks or stays silent, and whoever waits for all of them is told.
ClosingEnds == ClosedGoAway /\ DisconnectAnswered

-----------------------------------------------------------------------------
(***************************************************************************)
(* The server implements the abstract one: the connected screens are those *)
(* of m_clientSet, and the cursor is on m_active.                          *)
(***************************************************************************)
Abstract == INSTANCE AbstractServer
    WITH Clients <- Proxies, connected <- m_clientSet, cursor <- m_active,
         former <- adopted \ m_clientSet

\* Every step of the server is a step of AbstractServer or changes nothing there:
\* clients come and go without moving the cursor, except home when its own
\* screen is lost, and no hotkey, edge, delay or screen saver takes it anywhere
\* but to a connected screen.
SharesOneCursor == Abstract!Spec
=============================================================================
