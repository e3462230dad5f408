---------------------------- MODULE ServerProofs ----------------------------
(***************************************************************************)
(* Theorems about Server, for every set of proxies, names, edges and       *)
(* configurations.                                                         *)
(***************************************************************************)
EXTENDS Server, TLAPS

LEMMA NamesAreNames ==
    ASSUME NEW c \in Configs, NEW s \in Screens
    PROVE  getName(c, s) \in Names
BY ScreenAssumption, ConfigAssumption DEF getName, Config

\* The values of m_switch stay switches.
LEMMA SwitchTypes ==
    ASSUME TypeOK
    PROVE  /\ NoSwitch \in Switch
           /\ stopSwitch(m_switch) \in Switch
           /\ \A gone : switchAfterLeave(gone) \in Switch
           /\ \A dst \in Screens, dir \in Dirs, inTime \in BOOLEAN :
                 /\ considerSwitch(dst, dir, inTime) \in Switch
                 /\ stopSwitch(considerSwitch(dst, dir, inTime)) \in Switch
           /\ \A c \in Configs, sw \in Switch : processOptions(c, sw) \in Switch
<1>1. NoSwitch \in Switch
  BY DEF NoSwitch, Switch
<1>2. \A sw \in Switch : stopSwitch(sw) \in Switch
  BY <1>1 DEF stopSwitch
<1>3. m_switch \in Switch
  BY DEF TypeOK
<1>4. \A gone : switchAfterLeave(gone) \in Switch
  BY <1>2, <1>3 DEF switchAfterLeave
<1>5. ASSUME NEW dst \in Screens, NEW dir \in Dirs, NEW inTime \in BOOLEAN
      PROVE  considerSwitch(dst, dir, inTime) \in Switch
  <2>1. m_switch.screen \in Screens \cup {Nil} /\ m_switch.tap \in {"off", "engaged", "armed"}
    BY <1>3 DEF Switch
  <2>2. \A w : (m_switch.wait \/ w) \in BOOLEAN
    OBVIOUS
  <2> QED BY <2>1, <2>2 DEF considerSwitch, Switch
<1>6. ASSUME NEW c \in Configs, NEW sw \in Switch
      PROVE  processOptions(c, sw) \in Switch
  BY DEF processOptions, Switch
<1> QED BY <1>1, <1>2, <1>3, <1>4, <1>5, <1>6

\* Every variable keeps its type: in particular m_active always points to a
\* screen, never null, and m_clients to screens or nothing.
THEOREM TypeCorrect == Spec => []TypeOK
<1>1. Init => TypeOK
  <2> SUFFICES ASSUME Init PROVE TypeOK
    OBVIOUS
  <2>1. m_switch \in Switch
    BY DEF Init, NoSwitch, Switch
  <2>2. {m_switchWaitDelay, m_switchTwoTapDelay, m_lockedToScreen, saverOn,
         serverDisc, awaiting} \subseteq BOOLEAN
    BY DEF Init
  <2> QED BY <2>1, <2>2, ScreenAssumption DEF Init, TypeOK, Screens
<1>2. TypeOK /\ [Next]_vars => TypeOK'
  <2> SUFFICES ASSUME TypeOK, [Next]_vars PROVE TypeOK'
    OBVIOUS
  <2> USE ScreenAssumption DEF Screens
  <2>1. ASSUME NEW p \in Proxies, adoptClient(p) PROVE TypeOK'
    BY <2>1 DEF adoptClient, TypeOK, activeVars, optionVars
  <2>2. ASSUME NEW p \in Proxies, disconnected(p) PROVE TypeOK'
    BY <2>2 DEF disconnected, TypeOK, activeVars, optionVars, noticeVars
  <2>3. ASSUME NEW p \in Proxies, handle_client_disconnected(p) PROVE TypeOK'
    <3>1. m_switch' \in Switch
      BY <2>3, SwitchTypes DEF handle_client_disconnected, TypeOK
    <3>2. m_active' \in Screens /\ m_activeSaver' \in Screens \cup {Nil} /\ entered' \subseteq Screens
      BY <2>3 DEF handle_client_disconnected, TypeOK, forceLeaveClients, activeVars
    <3>3. m_clients' \in [Names -> Screens \cup {Nil}] /\ m_clientSet' \subseteq Screens
      BY <2>3 DEF handle_client_disconnected, TypeOK, removeClients
    <3>4. {serverDisc', awaiting'} \subseteq BOOLEAN
      BY <2>3 DEF handle_client_disconnected, TypeOK, postServerDisconnected
    <3> QED BY <2>3, <3>1, <3>2, <3>3, <3>4 DEF handle_client_disconnected, TypeOK, optionVars
  <2>4. ASSUME NEW p \in Proxies, handle_client_close_timeout(p) PROVE TypeOK'
    <3>1. {serverDisc', awaiting'} \subseteq BOOLEAN
      BY <2>4 DEF handle_client_close_timeout, TypeOK, postServerDisconnected
    <3> QED BY <2>4, <3>1 DEF handle_client_close_timeout, TypeOK, activeVars, optionVars
  <2>5. ASSUME NEW c \in Configs, NEW closing \in SUBSET Proxies, closeClients(c, closing)
        PROVE  /\ m_clients' \in [Names -> Screens \cup {Nil}]
               /\ m_clientSet' \subseteq Screens
               /\ m_oldClients' \subseteq Proxies
               /\ adopted' \subseteq Proxies
               /\ deleted' \subseteq Proxies
               /\ disc' \subseteq Proxies
               /\ m_active' \in Screens
               /\ m_activeSaver' \in Screens \cup {Nil}
               /\ entered' \subseteq Screens
    <3>1. m_active' \in Screens /\ m_activeSaver' \in Screens \cup {Nil} /\ entered' \subseteq Screens
      BY <2>5 DEF closeClients, TypeOK, forceLeaveClients, activeVars
    <3>2. m_clients' \in [Names -> Screens \cup {Nil}] /\ m_clientSet' \subseteq Screens
      BY <2>5 DEF closeClients, TypeOK, removeClients
    <3> QED BY <2>5, <3>1, <3>2 DEF closeClients, TypeOK
  <2>6. ASSUME NEW c \in Configs, reload_config(c) PROVE TypeOK'
    <3>1. droppedBy(c) \in SUBSET Proxies
      BY DEF droppedBy, TypeOK
    <3>2. CASE HasPrimary(c)
      <4>1. m_switch' \in Switch
        BY <2>6, <3>2, SwitchTypes DEF reload_config
      <4>2. {m_switchWaitDelay', m_switchTwoTapDelay'} \subseteq BOOLEAN
        BY <2>6, <3>2 DEF reload_config, TypeOK, optionValue
      <4> QED BY <2>6, <3>1, <3>2, <2>5, <4>1, <4>2 DEF reload_config, TypeOK, noticeVars
    <3>3. CASE ~HasPrimary(c)
      BY <2>6, <3>3 DEF reload_config, TypeOK, clientVars, activeVars, noticeVars
    <3> QED BY <3>2, <3>3
  <2>7. CASE disconnect
    <3>1. Connected \ {Primary} \in SUBSET Proxies
      BY DEF Connected, TypeOK
    <3>2. CASE noClients(m_clients, m_oldClients)
      <4>1. {serverDisc', awaiting'} \subseteq BOOLEAN
        BY <2>7, <3>2 DEF disconnect, TypeOK, postServerDisconnected
      <4> QED BY <2>7, <3>2, <4>1 DEF disconnect, TypeOK, clientVars, activeVars, optionVars
    <3>3. CASE ~noClients(m_clients, m_oldClients)
      <4>1. m_switch' \in Switch
        BY <2>7, <3>3, SwitchTypes DEF disconnect
      <4>2. m_config \in Configs
        BY DEF TypeOK
      <4> QED BY <2>7, <3>1, <3>3, <2>5, <4>1, <4>2 DEF disconnect, TypeOK, optionVars
    <3> QED BY <3>2, <3>3
  <2>8. CASE handle_no_clients
    BY <2>8 DEF handle_no_clients, TypeOK, clientVars, activeVars, optionVars
  <2>9. ASSUME NEW dst, cutOver(dst), {dst} \subseteq Alive
        PROVE  m_active' \in Screens /\ entered' \subseteq Screens
    BY <2>9 DEF cutOver, Alive, TypeOK
  <2>10. ASSUME NEW dst \in Screens, jumpToScreen(dst) PROVE TypeOK'
    <3>1. m_switch' \in Switch
      BY <2>10, SwitchTypes DEF jumpToScreen, switchScreen
    <3>2. m_active' \in Screens /\ entered' \subseteq Screens
      BY <2>9, <2>10 DEF jumpToScreen, switchScreen, cutOver
    <3> QED BY <2>10, <3>1, <3>2 DEF jumpToScreen, TypeOK, clientVars, optionVars, noticeVars
  <2>11. ASSUME NEW dst \in Connected \cup {Nil}, NEW dir \in Dirs, NEW inTime \in BOOLEAN,
                mouseMoveEdge(dst, dir, inTime)
         PROVE  TypeOK'
    <3>1. m_switch' \in Switch
      <4>1. dst # Nil => dst \in Screens
        BY <2>11 DEF Connected, TypeOK
      <4> QED BY <2>11, <4>1, SwitchTypes DEF mouseMoveEdge
    <3>2. m_active' \in Screens /\ entered' \subseteq Screens
      BY <2>9, <2>11 DEF mouseMoveEdge, cutOver, TypeOK
    <3> QED BY <2>11, <3>1, <3>2 DEF mouseMoveEdge, TypeOK, clientVars, optionVars, noticeVars
  <2>12. CASE mouseMoveInside
    <3>1. PICK tap \in {"off", m_switch.tap, "armed"} :
                m_switch' = [m_switch EXCEPT !.tap = tap, !.wait = FALSE]
      BY <2>12 DEF mouseMoveInside
    <3>2. m_switch' \in Switch
      BY <3>1 DEF TypeOK, Switch
    <3> QED BY <2>12, <3>2 DEF mouseMoveInside, TypeOK, clientVars, activeVars, optionVars, noticeVars
  <2>13. CASE handle_switch_wait_event
    <3>1. m_switch' \in Switch
      BY <2>13, SwitchTypes DEF handle_switch_wait_event, switchScreen
    <3>2. m_active' \in Screens /\ entered' \subseteq Screens
      BY <2>9, <2>13 DEF handle_switch_wait_event, switchScreen, cutOver, TypeOK
    <3> QED BY <2>13, <3>1, <3>2 DEF handle_switch_wait_event, TypeOK, clientVars, optionVars, noticeVars
  <2>14. CASE onScreensaverActivated
    <3>1. m_switch' \in Switch
      BY <2>14, SwitchTypes DEF onScreensaverActivated, switchScreen, TypeOK
    <3>2. m_active' \in Screens /\ entered' \subseteq Screens
      BY <2>9, <2>14 DEF onScreensaverActivated, switchScreen, cutOver, TypeOK
    <3> QED BY <2>14, <3>1, <3>2 DEF onScreensaverActivated, TypeOK, clientVars, optionVars, noticeVars
  <2>15. CASE onScreensaverDeactivated
    <3>1. m_switch' \in Switch
      BY <2>15, SwitchTypes DEF onScreensaverDeactivated, switchScreen, TypeOK
    <3>2. m_active' \in Screens /\ entered' \subseteq Screens
      BY <2>9, <2>15 DEF onScreensaverDeactivated, switchScreen, cutOver, TypeOK
    <3> QED BY <2>15, <3>1, <3>2 DEF onScreensaverDeactivated, TypeOK, clientVars, optionVars, noticeVars
  <2>16. CASE handle_lock_cursor_to_screen_event
    BY <2>16 DEF handle_lock_cursor_to_screen_event, TypeOK, clientVars, activeVars, optionVars, noticeVars
  <2>17. CASE UNCHANGED vars
    BY <2>17 DEF vars, TypeOK, clientVars, activeVars, optionVars, noticeVars
  <2> QED BY <2>1, <2>2, <2>3, <2>4, <2>6, <2>7, <2>8, <2>10, <2>11, <2>12, <2>13, <2>14,
             <2>15, <2>16, <2>17 DEF Next
<1> QED BY <1>1, <1>2, PTL DEF Spec

-----------------------------------------------------------------------------
(***************************************************************************)
(* The cursor is on a connected screen, if no canonical name changes, no    *)
(* switch delay runs out for a lost screen, and nothing moves the cursor   *)
(* under the screen saver.                                                 *)
(***************************************************************************)

\* Removing clients under any configuration erases exactly their entries.
LEMMA RemoveClients ==
    ASSUME StableNames, TypeOK, ClientsInv,
           NEW c \in Configs, NEW gone \in SUBSET Proxies, removeClients(c, gone)
    PROVE  /\ \A n \in Names : m_clients'[n] # Nil =>
                 m_clients'[n] \in m_clientSet' /\ getName(c, m_clients'[n]) = n
           /\ \A s \in m_clientSet' : m_clients'[getName(c, s)] = s
           /\ Primary \in m_clientSet'
           /\ m_clientSet' = m_clientSet \ gone
<1> USE ScreenAssumption
<1>1. \A s \in Screens : getName(c, s) = getName(m_config, s) /\ getName(c, s) \in Names
  BY NamesAreNames DEF StableNames, TypeOK
<1>2. m_clientSet \subseteq Screens /\ Primary \in m_clientSet' /\ m_clientSet' = m_clientSet \ gone
  BY DEF TypeOK, ClientsInv, removeClients, Screens
<1> DEFINE names == {getName(c, s) : s \in gone \cap m_clientSet}
<1>3. \A n \in Names : m_clients'[n] = IF n \in names THEN Nil ELSE m_clients[n]
  BY DEF removeClients
<1>4. ASSUME NEW n \in Names, m_clients'[n] # Nil
      PROVE  m_clients'[n] \in m_clientSet' /\ getName(c, m_clients'[n]) = n
  <2>1. n \notin names /\ m_clients'[n] = m_clients[n]
    BY <1>3, <1>4
  <2>2. m_clients[n] \in m_clientSet /\ getName(c, m_clients[n]) = n
    BY <1>1, <1>2, <1>4, <2>1 DEF ClientsInv
  <2>3. m_clients[n] \notin gone
    BY <2>1, <2>2
  <2> QED BY <1>2, <2>1, <2>2, <2>3
<1>5. ASSUME NEW s \in m_clientSet' PROVE m_clients'[getName(c, s)] = s
  <2>1. s \in m_clientSet /\ s \notin gone /\ m_clients[getName(c, s)] = s
    BY <1>1, <1>2 DEF ClientsInv
  <2>2. getName(c, s) \notin names
    <3> SUFFICES ASSUME NEW t \in gone \cap m_clientSet, getName(c, s) = getName(c, t)
                 PROVE  FALSE
      OBVIOUS
    <3>1. m_clients[getName(c, t)] = t
      BY <1>1, <1>2 DEF ClientsInv
    <3> QED BY <2>1, <3>1
  <2> QED BY <1>1, <1>2, <1>3, <2>1, <2>2
<1> QED BY <1>2, <1>4, <1>5

\* forceLeaveClient() takes the cursor off every client that is dropped.
LEMMA ForceLeaveClients ==
    ASSUME TypeOK, ClientsInv, SaverInv, ActiveConnected, EnteredIsActive,
           NEW gone \in SUBSET Proxies, forceLeaveClients(gone), m_clientSet' = m_clientSet \ gone,
           saverOn' = saverOn
    PROVE  SaverInv' /\ ActiveConnected' /\ EnteredIsActive' /\ entered' \subseteq entered \cup {Primary}
<1> USE ScreenAssumption DEF Screens
<1>1. Primary \in m_clientSet' /\ Nil \notin m_clientSet
  BY DEF ClientsInv, TypeOK
<1>2. SaverInv' /\ ActiveConnected'
  BY <1>1 DEF forceLeaveClients, leftScreen, SaverInv, ActiveConnected
<1>3. ASSUME m_activeSaver = Nil PROVE EnteredIsActive'
  BY <1>1, <1>3 DEF forceLeaveClients, leftScreen, ActiveConnected, EnteredIsActive
<1>4. ASSUME m_activeSaver # Nil PROVE EnteredIsActive'
  BY <1>1, <1>4 DEF forceLeaveClients, leftScreen, ActiveConnected, EnteredIsActive, SaverInv
<1>5. entered' \subseteq entered \cup {Primary}
  BY DEF forceLeaveClients
<1> QED BY <1>2, <1>3, <1>4, <1>5

\* Leaving the active screen for a connected one.
LEMMA CutOver ==
    ASSUME ActiveConnected, EnteredIsActive, NEW dst \in m_clientSet, cutOver(dst),
           m_clientSet' = m_clientSet
    PROVE  /\ ActiveConnected' /\ EnteredIsActive'
           /\ entered' \subseteq entered \cup {dst}
           /\ m_active' \in {m_active, dst}
BY DEF ActiveConnected, EnteredIsActive, cutOver

\* closeClient() for a set of clients, as a reload and a disconnect call it.
LEMMA CloseClients ==
    ASSUME StableNames, TypeOK, ClientsInv,
           NEW c \in Configs, NEW closing \in SUBSET (m_clientSet \ {Primary}),
           closeClients(c, closing), m_config' = c
    PROVE  /\ closing \in SUBSET Proxies
           /\ m_clientSet' = m_clientSet \ closing
           /\ ClientsInv'
<1> USE ScreenAssumption DEF Screens
<1>1. closing \in SUBSET Proxies
  BY DEF TypeOK
<1>2. removeClients(c, closing)
  BY DEF closeClients
<1>3. m_clientSet' = m_clientSet \ closing /\ m_oldClients' = m_oldClients \cup closing
      /\ UNCHANGED <<adopted, deleted, disc>>
  BY <1>1, <1>2, RemoveClients DEF closeClients
<1>4. /\ m_clientSet' \cap m_oldClients' = {}
      /\ (m_clientSet' \cup m_oldClients') \ {Primary} = adopted' \ deleted'
      /\ (deleted \cup disc)' \subseteq adopted'
  BY <1>3 DEF ClientsInv
<1> QED BY <1>1, <1>2, <1>3, <1>4, RemoveClients DEF ClientsInv

\* m_clients and m_clientSet hold the same screens.
LEMMA SameScreens ==
    ASSUME TypeOK, ClientsInv
    PROVE  Connected = m_clientSet
<1>1. \A s \in m_clientSet : getName(m_config, s) \in Names /\ s # Nil
  BY NamesAreNames, ScreenAssumption DEF TypeOK
<1> QED BY <1>1 DEF Connected, ClientsInv

-----------------------------------------------------------------------------
(***************************************************************************)
(* ClientsInv is inductive by itself, wherever the cursor is.              *)
(***************************************************************************)
LEMMA ClientsInit == ASSUME Init PROVE ClientsInv
<1> USE ScreenAssumption DEF Screens
<1>1. m_config \in Configs /\ m_config.canon[NameOf[Primary]] = NameOf[Primary]
  BY DEF Init
<1>2. getName(m_config, Primary) = NameOf[Primary] /\ NameOf[Primary] \in Names
  BY <1>1 DEF getName
<1> QED BY <1>2 DEF Init, ClientsInv

LEMMA ClientsStep ==
    ASSUME StableNames, TypeOK, ClientsInv, [Next]_vars
    PROVE  ClientsInv'
<1> USE ScreenAssumption DEF Screens
<1>a. ASSUME UNCHANGED <<clientVars, m_config>> PROVE ClientsInv'
  BY <1>a DEF ClientsInv, clientVars
<1>b. Connected = m_clientSet
  BY SameScreens
<1>1. ASSUME NEW p \in Proxies, adoptClient(p) PROVE ClientsInv'
  <2> DEFINE name == getName(m_config, p)
  <2>1. name \in Names
    BY NamesAreNames DEF TypeOK
  <2>2. \A s \in m_clientSet : getName(m_config, s) \in Names /\ s # Nil
    BY NamesAreNames DEF TypeOK
  <2>3. /\ p \notin adopted /\ adopted' = adopted \cup {p} /\ UNCHANGED <<deleted, disc, m_config>>
        /\ p \notin m_clientSet /\ p \notin m_oldClients /\ p \notin deleted
    BY <1>1 DEF adoptClient, optionVars, ClientsInv
  <2>4. CASE m_config.canon[NameOf[p]] # NoName /\ m_clients[name] = Nil
    <3>1. /\ m_clients' = [m_clients EXCEPT ![name] = p] /\ m_clientSet' = m_clientSet \cup {p}
          /\ m_oldClients' = m_oldClients
      BY <1>1, <2>4 DEF adoptClient
    <3>2. \A n \in Names : m_clients'[n] = IF n = name THEN p ELSE m_clients[n]
      BY <2>1, <3>1 DEF TypeOK
    <3>3. \A n \in Names : m_clients'[n] # Nil =>
              m_clients'[n] \in m_clientSet' /\ getName(m_config, m_clients'[n]) = n
      BY <3>1, <3>2 DEF ClientsInv
    <3>4. \A s \in m_clientSet' : m_clients'[getName(m_config, s)] = s
      BY <2>1, <2>2, <2>4, <3>1, <3>2 DEF ClientsInv
    <3> QED BY <2>3, <3>1, <3>3, <3>4 DEF ClientsInv
  <2>5. CASE ~(m_config.canon[NameOf[p]] # NoName /\ m_clients[name] = Nil)
    <3>1. UNCHANGED <<m_clients, m_clientSet>> /\ m_oldClients' = m_oldClients \cup {p}
      BY <1>1, <2>5 DEF adoptClient
    <3> QED BY <2>3, <3>1 DEF ClientsInv
  <2> QED BY <2>4, <2>5
<1>2. ASSUME NEW p \in Proxies, disconnected(p) PROVE ClientsInv'
  BY <1>2 DEF disconnected, ClientsInv, optionVars
<1>3. ASSUME NEW p \in Proxies, handle_client_disconnected(p) PROVE ClientsInv'
  <2>1. m_config \in Configs /\ {p} \in SUBSET Proxies /\ removeClients(m_config, {p})
    BY <1>3 DEF handle_client_disconnected, TypeOK
  <2>2. /\ m_clientSet' = m_clientSet \ {p} /\ m_oldClients' = m_oldClients \ {p}
        /\ deleted' = deleted \cup {p} /\ disc' = disc \ {p} /\ p \in disc
        /\ UNCHANGED <<adopted, m_config>>
    BY <1>3, <2>1, RemoveClients DEF handle_client_disconnected, optionVars
  <2>3. /\ m_clientSet' \cap m_oldClients' = {}
        /\ (m_clientSet' \cup m_oldClients') \ {Primary} = adopted' \ deleted'
        /\ (deleted \cup disc)' \subseteq adopted'
    BY <2>2 DEF ClientsInv
  <2> QED BY <2>1, <2>2, <2>3, RemoveClients DEF ClientsInv
<1>4. ASSUME NEW p \in Proxies, handle_client_close_timeout(p) PROVE ClientsInv'
  BY <1>4 DEF handle_client_close_timeout, ClientsInv, optionVars
<1>5. ASSUME NEW c \in Configs, reload_config(c) PROVE ClientsInv'
  <2>1. CASE HasPrimary(c)
    <3>1. droppedBy(c) \in SUBSET (m_clientSet \ {Primary})
      BY <1>b DEF droppedBy, Connected
    <3>2. closeClients(c, droppedBy(c)) /\ m_config' = c
      BY <1>5, <2>1 DEF reload_config
    <3> QED BY <3>1, <3>2, CloseClients
  <2>2. CASE ~HasPrimary(c)
    <3>1. UNCHANGED clientVars /\ m_config' = c
      BY <1>5, <2>2 DEF reload_config
    <3>2. \A s \in Screens : getName(c, s) = getName(m_config, s)
      BY DEF StableNames, TypeOK
    <3> QED BY <3>1, <3>2 DEF ClientsInv, clientVars, TypeOK
  <2> QED BY <2>1, <2>2
<1>6. CASE disconnect
  <2>1. CASE noClients(m_clients, m_oldClients)
    BY <1>6, <1>a, <2>1 DEF disconnect, optionVars
  <2>2. CASE ~noClients(m_clients, m_oldClients)
    <3>1. closeClients(m_config, m_clientSet \ {Primary}) /\ m_config' = m_config /\ m_config \in Configs
      BY <1>6, <1>b, <2>2 DEF disconnect, optionVars, TypeOK
    <3> QED BY <3>1, CloseClients
  <2> QED BY <2>1, <2>2
<1>7. CASE handle_no_clients
  BY <1>7, <1>a DEF handle_no_clients, optionVars
<1>8. ASSUME NEW dst \in Screens, jumpToScreen(dst) PROVE ClientsInv'
  BY <1>8, <1>a DEF jumpToScreen, optionVars
<1>9. ASSUME NEW dst, NEW dir, NEW inTime, mouseMoveEdge(dst, dir, inTime) PROVE ClientsInv'
  BY <1>9, <1>a DEF mouseMoveEdge, optionVars
<1>10. CASE mouseMoveInside
  BY <1>10, <1>a DEF mouseMoveInside, optionVars
<1>11. CASE handle_switch_wait_event
  BY <1>11, <1>a DEF handle_switch_wait_event, optionVars
<1>12. CASE onScreensaverActivated
  BY <1>12, <1>a DEF onScreensaverActivated, optionVars
<1>13. CASE onScreensaverDeactivated
  BY <1>13, <1>a DEF onScreensaverDeactivated, optionVars
<1>14. CASE handle_lock_cursor_to_screen_event
  BY <1>14, <1>a DEF handle_lock_cursor_to_screen_event, optionVars
<1>15. CASE UNCHANGED vars
  BY <1>15, <1>a DEF vars, optionVars
<1> QED BY <1>1, <1>2, <1>3, <1>4, <1>5, <1>6, <1>7, <1>8, <1>9, <1>10, <1>11, <1>12, <1>13,
           <1>14, <1>15 DEF Next

-----------------------------------------------------------------------------
\* The facts that make IInv an inductive invariant of the server.
LEMMA IInvInit == ASSUME Init PROVE IInv
<1> USE ScreenAssumption DEF Screens
<1>1. TypeOK
  <2>1. m_switch \in Switch
    BY DEF Init, NoSwitch, Switch
  <2>2. {m_switchWaitDelay, m_switchTwoTapDelay, m_lockedToScreen, saverOn,
         serverDisc, awaiting} \subseteq BOOLEAN
    BY DEF Init
  <2> QED BY <2>1, <2>2 DEF Init, TypeOK
<1>2. SaverInv /\ ActiveConnected /\ EnteredIsActive /\ EnteredAdopted
  BY DEF Init, SaverInv, ActiveConnected, EnteredIsActive, EnteredAdopted
<1> QED BY <1>1, <1>2, ClientsInit DEF IInv

LEMMA IInvStep ==
    ASSUME StableNames, SaverQuiet, WaitQuiet, IInv, TypeOK', [Next]_vars
    PROVE  IInv'
<1> USE ScreenAssumption DEF Screens
<1>a. TypeOK /\ ClientsInv /\ SaverInv /\ EnteredAdopted /\ ActiveConnected /\ EnteredIsActive
  BY DEF IInv
<1>b. Connected = m_clientSet
  BY <1>a, SameScreens
<1>c. ClientsInv'
  BY <1>a, ClientsStep
\* Steps that leave the cursor alone.
<1>d. ASSUME UNCHANGED <<clientVars, activeVars, saverOn>> PROVE IInv'
  BY <1>a, <1>c, <1>d DEF clientVars, activeVars, IInv, SaverInv, ActiveConnected, EnteredIsActive,
                          EnteredAdopted
\* Steps that drop a set of clients.
<1>e. ASSUME NEW gone \in SUBSET Proxies, forceLeaveClients(gone), m_clientSet' = m_clientSet \ gone,
             saverOn' = saverOn, adopted' = adopted
      PROVE  IInv'
  <2>1. SaverInv' /\ ActiveConnected' /\ EnteredIsActive' /\ entered' \subseteq entered \cup {Primary}
    BY <1>a, <1>e, ForceLeaveClients
  <2> QED BY <1>a, <1>c, <1>e, <2>1 DEF IInv, EnteredAdopted
<1>1. ASSUME NEW p \in Proxies, adoptClient(p) PROVE IInv'
  <2>1. SaverInv' /\ ActiveConnected' /\ EnteredIsActive'
    <3>1. m_clientSet' \in {m_clientSet, m_clientSet \cup {p}} /\ UNCHANGED <<activeVars, saverOn>>
      BY <1>1 DEF adoptClient
    <3>2. p \notin entered
      BY <1>1, <1>a DEF adoptClient, EnteredAdopted
    <3> QED BY <1>a, <3>1, <3>2 DEF activeVars, SaverInv, ActiveConnected, EnteredIsActive
  <2>2. EnteredAdopted'
    BY <1>1, <1>a DEF adoptClient, EnteredAdopted, activeVars
  <2> QED BY <1>c, <2>1, <2>2 DEF IInv
<1>2. ASSUME NEW p \in Proxies, disconnected(p) PROVE IInv'
  BY <1>2, <1>a, <1>c DEF disconnected, IInv, SaverInv, ActiveConnected, EnteredIsActive,
                          EnteredAdopted, activeVars
<1>3. ASSUME NEW p \in Proxies, handle_client_disconnected(p) PROVE IInv'
  <2>1. m_clientSet' = m_clientSet \ {p} /\ UNCHANGED <<adopted, saverOn>>
    BY <1>3 DEF handle_client_disconnected, removeClients
  <2>2. CASE p \in m_clientSet
    BY <1>3, <1>e, <2>1, <2>2 DEF handle_client_disconnected
  <2>3. CASE p \notin m_clientSet
    <3>1. UNCHANGED <<activeVars, m_clientSet>>
      BY <1>3, <2>1, <2>3 DEF handle_client_disconnected
    <3> QED BY <1>a, <1>c, <2>1, <3>1 DEF IInv, SaverInv, ActiveConnected, EnteredIsActive,
                                         EnteredAdopted, activeVars
  <2> QED BY <2>2, <2>3
<1>4. ASSUME NEW p \in Proxies, handle_client_close_timeout(p) PROVE IInv'
  BY <1>4, <1>a, <1>c DEF handle_client_close_timeout, IInv, SaverInv, ActiveConnected,
                          EnteredIsActive, EnteredAdopted, activeVars
<1>f. ASSUME NEW c \in Configs, NEW closing \in SUBSET (m_clientSet \ {Primary}),
             closeClients(c, closing), m_config' = c, saverOn' = saverOn
      PROVE  IInv'
  <2>1. closing \in SUBSET Proxies /\ m_clientSet' = m_clientSet \ closing
    BY <1>a, <1>f, CloseClients
  <2> QED BY <1>e, <1>f, <2>1 DEF closeClients
<1>5. ASSUME NEW c \in Configs, reload_config(c) PROVE IInv'
  <2>1. droppedBy(c) \in SUBSET (m_clientSet \ {Primary})
    BY <1>b DEF droppedBy, Connected
  <2>2. CASE HasPrimary(c)
    BY <1>5, <1>f, <2>1, <2>2 DEF reload_config
  <2>3. CASE ~HasPrimary(c)
    BY <1>5, <1>d, <2>3 DEF reload_config
  <2> QED BY <2>2, <2>3
<1>6. CASE disconnect
  <2>1. CASE noClients(m_clients, m_oldClients)
    BY <1>6, <1>d, <2>1 DEF disconnect
  <2>2. CASE ~noClients(m_clients, m_oldClients)
    <3>1. closeClients(m_config, m_clientSet \ {Primary}) /\ m_config' = m_config
          /\ m_config \in Configs /\ saverOn' = saverOn
      BY <1>6, <1>a, <1>b, <2>2 DEF disconnect, optionVars, TypeOK
    <3> QED BY <1>f, <3>1
  <2> QED BY <2>1, <2>2
<1>7. CASE handle_no_clients
  BY <1>7, <1>d DEF handle_no_clients
\* Switching to a connected screen while no screen is saved.
<1>g. ASSUME NEW dst \in m_clientSet, cutOver(dst), ~saverOn \/ dst = Primary,
             UNCHANGED <<clientVars, m_activeSaver, saverOn>>
      PROVE  IInv'
  <2>1. m_clientSet' = m_clientSet /\ adopted' = adopted /\ m_activeSaver' = m_activeSaver
    BY <1>g DEF clientVars
  <2>2. /\ ActiveConnected' /\ EnteredIsActive' /\ entered' \subseteq entered \cup {dst}
        /\ m_active' \in {m_active, dst}
    BY <1>a, <1>g, <2>1, CutOver
  <2>3. dst \in adopted \cup {Primary}
    BY <1>a DEF ClientsInv
  <2>4. SaverInv'
    BY <1>a, <1>g, <2>1, <2>2 DEF SaverInv
  <2> QED BY <1>a, <1>c, <1>g, <2>1, <2>2, <2>3, <2>4 DEF IInv, EnteredAdopted
<1>8. ASSUME NEW dst \in Screens, jumpToScreen(dst) PROVE IInv'
  <2>1. cutOver(dst) /\ dst \in m_clientSet
    BY <1>8, <1>b DEF jumpToScreen, switchScreen
  <2> QED BY <1>8, <1>g, <2>1 DEF jumpToScreen, Undisturbed
<1>9. ASSUME NEW dst \in Connected \cup {Nil}, NEW dir \in Dirs, NEW inTime \in BOOLEAN,
             mouseMoveEdge(dst, dir, inTime)
      PROVE  IInv'
  <2>1. CASE dst # Nil /\ cutOver(dst)
    BY <1>9, <1>b, <1>g, <2>1 DEF mouseMoveEdge, Undisturbed
  <2>2. CASE UNCHANGED <<m_active, entered>>
    BY <1>9, <1>d, <2>2 DEF mouseMoveEdge, activeVars
  <2> QED BY <1>9, <2>1, <2>2 DEF mouseMoveEdge
<1>10. CASE mouseMoveInside
  BY <1>10, <1>d DEF mouseMoveInside
<1>11. CASE handle_switch_wait_event
  <2>1. CASE UNCHANGED <<m_active, entered>>
    BY <1>11, <1>d, <2>1 DEF handle_switch_wait_event, activeVars
  <2>2. CASE switchScreen(m_switch.screen)
    <3>1. m_switch.screen \in m_clientSet /\ cutOver(m_switch.screen) /\ ~saverOn
      BY <1>11, <2>2 DEF handle_switch_wait_event, switchScreen, Undisturbed
    <3> QED BY <1>11, <1>g, <3>1 DEF handle_switch_wait_event
  <2> QED BY <1>11, <2>1, <2>2 DEF handle_switch_wait_event
<1>12. CASE onScreensaverActivated
  <2>1. m_activeSaver' = m_active /\ saverOn' /\ UNCHANGED clientVars
    BY <1>12 DEF onScreensaverActivated
  <2>2. m_clientSet' = m_clientSet /\ adopted' = adopted /\ Primary \in m_clientSet
    BY <1>a, <2>1 DEF clientVars, ClientsInv
  <2>3. m_active' = Primary /\ ActiveConnected' /\ EnteredIsActive' /\ entered' \subseteq entered \cup {Primary}
    <3>1. CASE m_active = Primary
      BY <1>12, <1>a, <2>2, <3>1 DEF onScreensaverActivated, ActiveConnected, EnteredIsActive
    <3>2. CASE m_active # Primary
      <4>1. cutOver(Primary)
        BY <1>12, <3>2 DEF onScreensaverActivated, switchScreen
      <4> QED BY <1>a, <2>2, <3>2, <4>1, CutOver DEF cutOver
    <3> QED BY <3>1, <3>2
  <2> QED BY <1>a, <1>c, <2>1, <2>2, <2>3 DEF IInv, EnteredAdopted, SaverInv, ActiveConnected
<1>13. CASE onScreensaverDeactivated
  <2>1. m_activeSaver' = Nil /\ UNCHANGED clientVars
    BY <1>13 DEF onScreensaverDeactivated
  <2>2. m_clientSet' = m_clientSet /\ adopted' = adopted
    BY <2>1 DEF clientVars
  <2>3. ActiveConnected' /\ EnteredIsActive' /\ entered' \subseteq adopted \cup {Primary}
    <3>1. CASE m_activeSaver \in {Nil, Primary}
      BY <1>13, <1>a, <2>2, <3>1 DEF onScreensaverDeactivated, ActiveConnected, EnteredIsActive, EnteredAdopted
    <3>2. CASE m_activeSaver \notin {Nil, Primary}
      <4>1. cutOver(m_activeSaver) /\ m_activeSaver \in m_clientSet
        BY <1>13, <1>a, <3>2 DEF onScreensaverDeactivated, switchScreen, SaverInv
      <4>2. m_activeSaver \in adopted \cup {Primary}
        BY <1>a, <4>1 DEF ClientsInv
      <4> QED BY <1>a, <2>2, <4>1, <4>2, CutOver DEF EnteredAdopted
    <3> QED BY <3>1, <3>2
  <2> QED BY <1>a, <1>c, <2>1, <2>2, <2>3 DEF IInv, EnteredAdopted, SaverInv
<1>14. CASE handle_lock_cursor_to_screen_event
  BY <1>14, <1>d DEF handle_lock_cursor_to_screen_event
<1>15. CASE UNCHANGED vars
  BY <1>15, <1>d DEF vars
<1> QED BY <1>1, <1>2, <1>3, <1>4, <1>5, <1>6, <1>7, <1>8, <1>9, <1>10, <1>11, <1>12, <1>13,
           <1>14, <1>15 DEF Next

\* Server::m_active always points to a connected screen, whatever joins, leaves,
\* times out or is dropped by a reload, and of the connected screens only that
\* one has been entered, if canonical names are stable, no switch delay runs out for
\* a screen that is gone and nothing moves the cursor under the screen saver.
THEOREM CursorOnConnectedScreen ==
    ASSUME StableNames, SaverQuiet, WaitQuiet
    PROVE  Spec => []CursorConnected
<1>1. Init => IInv
  BY IInvInit
<1>2. IInv /\ TypeOK' /\ [Next]_vars => IInv'
  BY IInvStep
<1>3. IInv => CursorConnected
  BY DEF IInv, SaverInv, SaverConnected, CursorConnected
<1> QED BY <1>1, <1>2, <1>3, TypeCorrect, PTL DEF Spec

\* Server::m_clients and Server::m_clientSet hold the same screens, apart from
\* m_oldClients, and together they hold exactly the adopted proxies that have
\* not been deleted: none leaks and none is used after its deletion.  This does
\* not depend on where the cursor is, only on stable canonical names.
THEOREM ClientIndexes ==
    ASSUME StableNames
    PROVE  Spec => []IndexesAgree
<1>1. Init => ClientsInv
  BY ClientsInit
<1>2. TypeOK /\ ClientsInv /\ [Next]_vars => ClientsInv'
  BY ClientsStep
<1>3. TypeOK /\ ClientsInv => IndexesAgree
  BY SameScreens DEF IndexesAgree, ClientsInv
<1> QED BY <1>1, <1>2, <1>3, TypeCorrect, PTL DEF Spec

\* No screen stays connected under a name the configuration does not know, and
\* getNeighbor() and the options find every connected screen by its name: a
\* reload drops whoever lost its name, as long as no configuration is refused.
THEOREM NamesAreConfigured ==
    ASSUME StableNames, \A c \in Configs : HasPrimary(c)
    PROVE  Spec => []ConnectedConfigured
<1> USE ScreenAssumption
\* Aliases point to canonical names.
<1>a. ASSUME NEW c \in Configs, NEW s \in Screens, c.canon[NameOf[s]] # NoName
      PROVE  isCanonicalName(c, getName(c, s)) /\ getName(c, s) \in Names
  <2>1. NameOf[s] \in Names /\ WellFormed(c) /\ c.canon \in [Names -> Names \cup {NoName}]
    BY ConfigAssumption DEF Config
  <2> QED BY <1>a, <2>1 DEF WellFormed, isCanonicalName, getName
<1>1. Init => ClientsInv /\ ConnectedConfigured
  <2> SUFFICES ASSUME Init PROVE ConnectedConfigured
    BY ClientsInit
  <2> QED BY DEF Init, ConnectedConfigured, isCanonicalName, getName
<1>2. TypeOK /\ ClientsInv /\ [Next]_vars => ClientsInv'
  BY ClientsStep
<1>3. TypeOK /\ ClientsInv /\ ConnectedConfigured /\ ClientsInv' /\ [Next]_vars => ConnectedConfigured'
  <2> SUFFICES ASSUME TypeOK, ClientsInv, ConnectedConfigured, ClientsInv', [Next]_vars
               PROVE  ConnectedConfigured'
    OBVIOUS
  <2>a. ASSUME NEW n \in Names, m_clients'[n] # Nil PROVE getName(m_config', m_clients'[n]) = n
    BY <2>a DEF ClientsInv
  \* An entry that is left over from before, under the same configuration.
  <2>b. ASSUME m_config' = m_config, \A n \in Names : m_clients'[n] \in {m_clients[n], Nil}
        PROVE  ConnectedConfigured'
    BY <2>a, <2>b DEF ConnectedConfigured
  <2>c. ASSUME NEW c \in Configs, NEW gone, removeClients(c, gone), m_config' = m_config
        PROVE  ConnectedConfigured'
    <3>1. \A n \in Names : m_clients'[n] \in {m_clients[n], Nil}
      BY <2>c DEF removeClients
    <3> QED BY <2>b, <2>c, <3>1
  <2>d. m_config \in Configs
    BY DEF TypeOK
  <2>1. ASSUME NEW p \in Proxies, adoptClient(p) PROVE ConnectedConfigured'
    <3> DEFINE name == getName(m_config, p)
    <3>1. m_config' = m_config
      BY <2>1 DEF adoptClient, optionVars
    <3>2. CASE m_config.canon[NameOf[p]] # NoName /\ m_clients[name] = Nil
      <4>1. isCanonicalName(m_config, name) /\ name \in Names
        BY <1>a, <2>d, <3>2 DEF Screens
      <4>2. \A n \in Names : n # name => m_clients'[n] = m_clients[n]
        BY <2>1, <3>2 DEF adoptClient, TypeOK
      <4> QED BY <2>a, <3>1, <4>1, <4>2 DEF ConnectedConfigured
    <3>3. CASE ~(m_config.canon[NameOf[p]] # NoName /\ m_clients[name] = Nil)
      BY <2>1, <2>b, <3>1, <3>3 DEF adoptClient
    <3> QED BY <3>2, <3>3
  <2>2. ASSUME NEW p \in Proxies, disconnected(p) PROVE ConnectedConfigured'
    BY <2>2, <2>b DEF disconnected, optionVars
  <2>3. ASSUME NEW p \in Proxies, handle_client_disconnected(p) PROVE ConnectedConfigured'
    BY <2>3, <2>c, <2>d DEF handle_client_disconnected, optionVars
  <2>4. ASSUME NEW p \in Proxies, handle_client_close_timeout(p) PROVE ConnectedConfigured'
    BY <2>4, <2>b DEF handle_client_close_timeout, optionVars
  <2>5. ASSUME NEW c \in Configs, reload_config(c) PROVE ConnectedConfigured'
    <3>1. removeClients(c, droppedBy(c)) /\ m_config' = c
      BY <2>5 DEF reload_config, closeClients
    <3> SUFFICES ASSUME NEW n \in Names, m_clients'[n] # Nil PROVE isCanonicalName(c, n)
      BY <2>a, <3>1 DEF ConnectedConfigured
    <3>2. m_clients'[n] = m_clients[n] /\ m_clients'[n] \in m_clientSet' /\ getName(c, m_clients[n]) = n
      BY <2>a, <3>1 DEF removeClients, ClientsInv
    <3>3. m_clients[n] \notin droppedBy(c)
      BY <3>1, <3>2 DEF removeClients
    <3>4. CASE m_clients[n] = Primary
      BY <1>a, <3>2, <3>4 DEF HasPrimary, Screens
    <3>5. CASE m_clients[n] # Primary
      BY <3>2, <3>3, <3>5 DEF droppedBy
    <3> QED BY <3>4, <3>5
  <2>6. CASE disconnect
    BY <2>6, <2>b, <2>c, <2>d DEF disconnect, closeClients, clientVars, optionVars
  <2>7. ASSUME UNCHANGED <<clientVars, optionVars>> PROVE ConnectedConfigured'
    BY <2>7, <2>b DEF clientVars, optionVars
  <2>8. CASE \/ handle_no_clients \/ (\E dst \in Screens : jumpToScreen(dst)) \/ mouseMoveInside
             \/ handle_switch_wait_event \/ onScreensaverActivated \/ onScreensaverDeactivated
             \/ handle_lock_cursor_to_screen_event \/ UNCHANGED vars
    BY <2>7, <2>8 DEF handle_no_clients, jumpToScreen, mouseMoveInside, handle_switch_wait_event,
        onScreensaverActivated, onScreensaverDeactivated, handle_lock_cursor_to_screen_event, vars
  <2>9. ASSUME NEW dst, NEW dir, NEW inTime, mouseMoveEdge(dst, dir, inTime)
        PROVE  ConnectedConfigured'
    BY <2>7, <2>9 DEF mouseMoveEdge
  <2> QED BY <2>1, <2>2, <2>3, <2>4, <2>5, <2>6, <2>8, <2>9 DEF Next
<1> QED BY <1>1, <1>2, <1>3, TypeCorrect, PTL DEF Spec

-----------------------------------------------------------------------------
(***************************************************************************)
(* The switch being considered.                                            *)
(***************************************************************************)

\* Whatever is done to a switch being considered, a forgotten screen takes the
\* direction, the double tap and the delay's timer with it.
LEMMA SwitchesStayWhole ==
    ASSUME TypeOK, SwitchWhole
    PROVE  /\ stopSwitch(m_switch) = NoSwitch
           /\ \A gone : switchAfterLeave(gone) \in {m_switch, NoSwitch}
           /\ \A c : processOptions(c, NoSwitch) = NoSwitch
           /\ \A c : processOptions(c, m_switch).screen = m_switch.screen
           /\ \A dst, dir, inTime : dst # Nil => considerSwitch(dst, dir, inTime).screen # Nil
<1>1. m_switch \in Switch
  BY DEF TypeOK
<1>2. stopSwitch(m_switch) = NoSwitch
  BY DEF SwitchWhole, stopSwitch
<1>3. \A gone : switchAfterLeave(gone) \in {m_switch, NoSwitch}
  BY <1>2 DEF switchAfterLeave
<1>4. ASSUME NEW c PROVE processOptions(c, NoSwitch) = NoSwitch
  <2>1. NoSwitch \in Switch /\ NoSwitch.wait = FALSE /\ NoSwitch.tap = "off"
    BY DEF NoSwitch, Switch
  <2>2. (NoSwitch.wait /\ c.delay = "unset") = FALSE
    BY <2>1
  <2> QED BY <2>1, <2>2 DEF processOptions, NoSwitch
<1>5. ASSUME NEW c PROVE processOptions(c, m_switch).screen = m_switch.screen
  BY <1>1 DEF processOptions, Switch
<1>6. ASSUME NEW dst, NEW dir, NEW inTime, dst # Nil
      PROVE  considerSwitch(dst, dir, inTime).screen # Nil
  BY <1>6 DEF considerSwitch
<1> QED BY <1>2, <1>3, <1>4, <1>5, <1>6

\* m_switchScreen, m_switchDir, the double tap and the delay's timer are set and
\* forgotten together: no delay runs out and no second tap counts without a screen
\* to switch to, whatever options a reload sets or clears meanwhile.
THEOREM SwitchesAreWhole == Spec => []SwitchWhole
<1>1. Init => SwitchWhole
  BY DEF Init, SwitchWhole
<1>2. TypeOK /\ SwitchWhole /\ [Next]_vars => SwitchWhole'
  <2> SUFFICES ASSUME TypeOK, SwitchWhole, [Next]_vars PROVE SwitchWhole'
    OBVIOUS
  <2>a. ASSUME m_switch' \in {m_switch, NoSwitch} PROVE SwitchWhole'
    BY <2>a DEF SwitchWhole
  <2>b. \A sw : sw.screen # Nil => stopSwitch(sw) = NoSwitch
    BY DEF stopSwitch
  <2>1. ASSUME NEW p \in Proxies, adoptClient(p) PROVE SwitchWhole'
    BY <2>1, <2>a DEF adoptClient
  <2>2. ASSUME NEW p \in Proxies, disconnected(p) PROVE SwitchWhole'
    BY <2>2, <2>a DEF disconnected
  <2>3. ASSUME NEW p \in Proxies, handle_client_disconnected(p) PROVE SwitchWhole'
    BY <2>3, <2>a, SwitchesStayWhole DEF handle_client_disconnected
  <2>4. ASSUME NEW p \in Proxies, handle_client_close_timeout(p) PROVE SwitchWhole'
    BY <2>4, <2>a DEF handle_client_close_timeout
  <2>5. ASSUME NEW c \in Configs, reload_config(c) PROVE SwitchWhole'
    <3>1. CASE HasPrimary(c)
      <4>1. m_switch' \in {processOptions(c, m_switch), NoSwitch}
        BY <2>5, <3>1, SwitchesStayWhole DEF reload_config
      <4>2. m_switch.screen = Nil => m_switch = NoSwitch
        BY DEF SwitchWhole
      <4> QED BY <4>1, <4>2, SwitchesStayWhole DEF SwitchWhole
    <3>2. CASE ~HasPrimary(c)
      BY <2>5, <2>a, <3>2 DEF reload_config
    <3> QED BY <3>1, <3>2
  <2>6. CASE disconnect
    BY <2>6, <2>a, SwitchesStayWhole DEF disconnect
  <2>7. CASE handle_no_clients
    BY <2>7, <2>a DEF handle_no_clients
  <2>8. ASSUME NEW dst \in Screens, jumpToScreen(dst) PROVE SwitchWhole'
    BY <2>8, <2>a, SwitchesStayWhole DEF jumpToScreen, switchScreen
  <2>9. ASSUME NEW dst, NEW dir \in Dirs, NEW inTime \in BOOLEAN, mouseMoveEdge(dst, dir, inTime)
        PROVE  SwitchWhole'
    <3>1. CASE dst = Nil
      BY <2>9, <2>a, <3>1, SwitchesStayWhole DEF mouseMoveEdge
    <3>2. CASE dst # Nil
      <4>1. considerSwitch(dst, dir, inTime).screen # Nil
        BY <3>2, SwitchesStayWhole
      <4>2. m_switch' \in {considerSwitch(dst, dir, inTime), NoSwitch}
        BY <2>9, <2>b, <3>2, <4>1 DEF mouseMoveEdge
      <4> QED BY <4>1, <4>2 DEF SwitchWhole
    <3> QED BY <3>1, <3>2
  <2>10. CASE mouseMoveInside
    <3>1. PICK tap \in IF m_switch.tap = "off" THEN {"off"} ELSE {"off", m_switch.tap, "armed"} :
                 m_switch' = [m_switch EXCEPT !.tap = tap, !.wait = FALSE]
      BY <2>10 DEF mouseMoveInside
    <3>2. m_switch \in Switch
      BY DEF TypeOK
    <3>3. CASE m_switch = NoSwitch
      BY <2>a, <3>1, <3>3 DEF NoSwitch
    <3>4. CASE m_switch.screen # Nil
      <4>1. m_switch'.screen = m_switch.screen
        BY <3>1, <3>2 DEF Switch
      <4> QED BY <3>4, <4>1 DEF SwitchWhole
    <3> QED BY <3>3, <3>4 DEF SwitchWhole
  <2>11. CASE handle_switch_wait_event
    BY <2>11, <2>a, SwitchesStayWhole DEF handle_switch_wait_event, switchScreen
  <2>12. CASE onScreensaverActivated
    BY <2>12, <2>a, SwitchesStayWhole DEF onScreensaverActivated, switchScreen
  <2>13. CASE onScreensaverDeactivated
    BY <2>13, <2>a, SwitchesStayWhole DEF onScreensaverDeactivated, switchScreen
  <2>14. CASE handle_lock_cursor_to_screen_event
    BY <2>14, <2>a DEF handle_lock_cursor_to_screen_event
  <2>15. CASE UNCHANGED vars
    BY <2>15, <2>a DEF vars
  <2> QED BY <2>1, <2>2, <2>3, <2>4, <2>5, <2>6, <2>7, <2>8, <2>9, <2>10, <2>11, <2>12, <2>13,
             <2>14, <2>15 DEF Next
<1> QED BY <1>1, <1>2, TypeCorrect, PTL DEF Spec

\* What a dropped client takes with it: the screen the cursor belongs to is given
\* up only if it is among the dropped ones, and then for the primary.
LEMMA DroppingKeepsScreen ==
    ASSUME IInv, NEW gone \in SUBSET (m_clientSet \ {Primary}), forceLeaveClients(gone),
           m_clientSet' = m_clientSet \ gone
    PROVE  leftScreen' = leftScreen \/ (leftScreen \notin m_clientSet' /\ leftScreen' = Primary)
<1> USE ScreenAssumption DEF Screens
<1>1. SaverInv /\ TypeOK
  BY DEF IInv
<1>2. CASE leftScreen \in gone
  <2>1. m_active' = Primary
    BY <1>2 DEF forceLeaveClients
  <2>2. m_activeSaver' = Nil
    BY <1>2, <1>1 DEF forceLeaveClients, leftScreen, TypeOK
  <2> QED BY <1>2, <2>1, <2>2 DEF leftScreen
<1>3. CASE leftScreen \notin gone
  BY <1>3 DEF forceLeaveClients, leftScreen
<1> QED BY <1>2, <1>3

\* While the cursor is locked to its screen, that screen is given up only for a
\* hotkey, because it is lost, or because the primary refuses to be left at the
\* end of the screen saver: no motion, delay that began before the lock, reload,
\* screen saver or loss of another client takes the cursor off it.
THEOREM LockIsKept ==
    ASSUME StableNames, SaverQuiet, WaitQuiet
    PROVE  Spec => LockHolds
<1> DEFINE Kept == \/ leftScreen' = leftScreen
                   \/ \E dst \in Screens : jumpToScreen(dst)
                   \/ leftScreen \notin m_clientSet' /\ leftScreen' = Primary
                   \/ onScreensaverDeactivated /\ m_active' = Primary
<1>1. Init => IInv
  BY IInvInit
<1>2. IInv /\ TypeOK' /\ [Next]_vars => IInv'
  BY IInvStep
<1>3. IInv /\ [Next]_vars => [m_lockedToScreen => Kept]_vars
  <2> SUFFICES ASSUME IInv, Next, m_lockedToScreen PROVE Kept
    OBVIOUS
  <2> USE ScreenAssumption
  <2>a. TypeOK /\ ClientsInv /\ SaverInv
    BY DEF IInv
  <2>b. Connected = m_clientSet
    BY <2>a, SameScreens
  <2>c. ASSUME UNCHANGED <<m_active, m_activeSaver>> PROVE Kept
    BY <2>c DEF leftScreen
  <2>d. ASSUME NEW c, NEW closing \in SUBSET (m_clientSet \ {Primary}), closeClients(c, closing)
        PROVE  Kept
    <3>1. forceLeaveClients(closing) /\ m_clientSet' = m_clientSet \ closing
      BY <2>d DEF closeClients, removeClients
    <3> QED BY <3>1, DroppingKeepsScreen
  <2>1. ASSUME NEW p \in Proxies, adoptClient(p) PROVE Kept
    BY <2>1, <2>c DEF adoptClient, activeVars
  <2>2. ASSUME NEW p \in Proxies, disconnected(p) PROVE Kept
    BY <2>2, <2>c DEF disconnected, activeVars
  <2>3. ASSUME NEW p \in Proxies, handle_client_disconnected(p) PROVE Kept
    <3>1. CASE p \in m_clientSet
      <4>1. forceLeaveClients({p}) /\ m_clientSet' = m_clientSet \ {p}
        BY <2>3, <3>1 DEF handle_client_disconnected, removeClients
      <4>2. {p} \in SUBSET (m_clientSet \ {Primary})
        BY <3>1
      <4> QED BY <4>1, <4>2, DroppingKeepsScreen
    <3>2. CASE p \notin m_clientSet
      BY <2>3, <2>c, <3>2 DEF handle_client_disconnected, activeVars
    <3> QED BY <3>1, <3>2
  <2>4. ASSUME NEW p \in Proxies, handle_client_close_timeout(p) PROVE Kept
    BY <2>4, <2>c DEF handle_client_close_timeout, activeVars
  <2>5. ASSUME NEW c \in Configs, reload_config(c) PROVE Kept
    <3>1. CASE HasPrimary(c)
      <4>1. closeClients(c, droppedBy(c)) /\ droppedBy(c) \in SUBSET (m_clientSet \ {Primary})
        BY <2>5, <2>b, <3>1 DEF reload_config, droppedBy, Connected
      <4> QED BY <2>d, <4>1
    <3>2. CASE ~HasPrimary(c)
      BY <2>5, <2>c, <3>2 DEF reload_config, activeVars
    <3> QED BY <3>1, <3>2
  <2>6. CASE disconnect
    <3>1. CASE noClients(m_clients, m_oldClients)
      BY <2>6, <2>c, <3>1 DEF disconnect, activeVars
    <3>2. CASE ~noClients(m_clients, m_oldClients)
      <4>1. closeClients(m_config, m_clientSet \ {Primary})
        BY <2>6, <2>b, <3>2 DEF disconnect
      <4> QED BY <2>d, <4>1
    <3> QED BY <3>1, <3>2
  <2>7. CASE handle_no_clients
    BY <2>7, <2>c DEF handle_no_clients, activeVars
  <2>8. CASE \E dst \in Screens : jumpToScreen(dst)
    BY <2>8
  <2>9. ASSUME NEW dst, NEW dir, NEW inTime, mouseMoveEdge(dst, dir, inTime) PROVE Kept
    <3>1. UNCHANGED <<m_active, m_activeSaver>>
      BY <2>9 DEF mouseMoveEdge
    <3> QED BY <2>c, <3>1
  <2>10. CASE mouseMoveInside
    BY <2>10, <2>c DEF mouseMoveInside, activeVars
  <2>11. CASE handle_switch_wait_event
    <3>1. UNCHANGED <<m_active, m_activeSaver>>
      BY <2>11 DEF handle_switch_wait_event
    <3> QED BY <2>c, <3>1
  \* The saved screen is the one that had the cursor.
  <2>12. CASE onScreensaverActivated
    <3>1. m_activeSaver = Nil /\ m_activeSaver' = m_active /\ m_active # Nil
      BY <2>12, <2>a DEF onScreensaverActivated, SaverInv, TypeOK
    <3> QED BY <3>1 DEF leftScreen
  \* It is the one that gets the cursor back, or the primary keeps it.
  <2>13. CASE onScreensaverDeactivated
    <3>1. m_activeSaver' = Nil
      BY <2>13 DEF onScreensaverDeactivated
    <3>2. CASE m_activeSaver \in {Nil, Primary}
      <4>1. m_active' = m_active
        BY <2>13, <3>2 DEF onScreensaverDeactivated
      <4>2. m_activeSaver # Nil => m_active = Primary
        BY <2>a DEF SaverInv
      <4> QED BY <3>1, <3>2, <4>1, <4>2 DEF leftScreen
    <3>3. CASE m_activeSaver \notin {Nil, Primary}
      <4>1. m_active = Primary
        BY <2>a, <3>3 DEF SaverInv
      <4>2. cutOver(m_activeSaver)
        BY <2>13, <3>3 DEF onScreensaverDeactivated, switchScreen
      <4>3. m_active' \in {m_activeSaver, Primary}
        BY <4>1, <4>2 DEF cutOver
      <4> QED BY <2>13, <3>1, <3>3, <4>3 DEF leftScreen
    <3> QED BY <3>2, <3>3
  <2>14. CASE handle_lock_cursor_to_screen_event
    BY <2>14, <2>c DEF handle_lock_cursor_to_screen_event, activeVars
  <2> QED BY <2>1, <2>2, <2>3, <2>4, <2>5, <2>6, <2>7, <2>8, <2>9, <2>10, <2>11, <2>12, <2>13,
             <2>14 DEF Next
<1> QED BY <1>1, <1>2, <1>3, TypeCorrect, PTL DEF Spec, LockHolds

-----------------------------------------------------------------------------
(***************************************************************************)
(* The server implements AbstractServer.                                   *)
(***************************************************************************)

\* Dropping a set of connected clients is Leave: forceLeaveClient() compares
\* with m_activeSaver while a screen is saved, and the cursor is then at home.
LEMMA DroppingLeaves ==
    ASSUME IInv, NEW gone \in SUBSET (m_clientSet \ {Primary}), forceLeaveClients(gone),
           m_clientSet' = m_clientSet \ gone, adopted' = adopted
    PROVE  Abstract!Next
<1> USE ScreenAssumption DEF Screens
<1>1. m_clientSet \ {Primary} \subseteq adopted
  BY DEF IInv, ClientsInv
<1>2. adopted' \ m_clientSet' = (adopted \ m_clientSet) \cup gone
  BY <1>1
<1>3. m_active' = IF m_active \in gone THEN Primary ELSE m_active
  <2>1. CASE m_activeSaver = Nil
    BY <2>1 DEF forceLeaveClients, leftScreen
  <2>2. CASE m_activeSaver # Nil
    <3>1. m_active = Primary
      BY <2>2 DEF IInv, SaverInv
    <3> QED BY <3>1 DEF forceLeaveClients
  <2> QED BY <2>1, <2>2
<1>4. Abstract!Leave(gone)
  BY <1>2, <1>3 DEF Abstract!Leave
<1> QED BY <1>4 DEF Abstract!Next

LEMMA StepImplements ==
    ASSUME StableNames, SaverQuiet, WaitQuiet, IInv, [Next]_vars
    PROVE  [Abstract!Next]_(Abstract!vars)
<1> USE ScreenAssumption DEF Screens
<1>a. TypeOK /\ ClientsInv /\ SaverInv /\ ActiveConnected
  BY DEF IInv
<1>b. Connected = m_clientSet
  BY <1>a, SameScreens
<1>c. ASSUME UNCHANGED <<clientVars, m_active>> PROVE UNCHANGED Abstract!vars
  BY <1>c DEF clientVars, Abstract!vars
<1>d. ASSUME UNCHANGED clientVars, m_active' \in m_clientSet PROVE Abstract!Next
  BY <1>d DEF clientVars, Abstract!Next, Abstract!Move
<1>e. ASSUME UNCHANGED clientVars, NEW dst \in m_clientSet, cutOver(dst)
      PROVE  m_active' \in m_clientSet
  BY <1>a, <1>e DEF cutOver, ActiveConnected
<1>1. ASSUME NEW p \in Proxies, adoptClient(p) PROVE Abstract!Next
  <2>1. p \notin adopted /\ adopted' = adopted \cup {p} /\ m_active' = m_active
    BY <1>1 DEF adoptClient, activeVars
  <2>2. p \notin m_clientSet
    BY <1>a, <2>1 DEF ClientsInv
  <2>3. CASE m_clientSet' = m_clientSet \cup {p}
    <3>1. Abstract!Join(p)
      BY <2>1, <2>2, <2>3 DEF Abstract!Join
    <3> QED BY <3>1 DEF Abstract!Next
  <2>4. CASE m_clientSet' = m_clientSet
    <3>1. Abstract!Refuse(p)
      BY <2>1, <2>2, <2>4 DEF Abstract!Refuse
    <3> QED BY <3>1 DEF Abstract!Next
  <2> QED BY <1>1, <2>3, <2>4 DEF adoptClient
<1>2. ASSUME NEW p \in Proxies, disconnected(p) PROVE UNCHANGED Abstract!vars
  BY <1>2 DEF disconnected, activeVars, Abstract!vars
<1>3. ASSUME NEW p \in Proxies, handle_client_disconnected(p)
      PROVE  Abstract!Next \/ UNCHANGED Abstract!vars
  <2>1. m_clientSet' = m_clientSet \ {p} /\ adopted' = adopted
    BY <1>3 DEF handle_client_disconnected, removeClients
  <2>2. CASE p \in m_clientSet
    <3>1. forceLeaveClients({p}) /\ {p} \in SUBSET (m_clientSet \ {Primary})
      BY <1>3, <2>2 DEF handle_client_disconnected
    <3> QED BY <2>1, <3>1, DroppingLeaves
  <2>3. CASE p \notin m_clientSet
    BY <1>3, <2>1, <2>3 DEF handle_client_disconnected, activeVars, Abstract!vars
  <2> QED BY <2>2, <2>3
<1>4. ASSUME NEW p \in Proxies, handle_client_close_timeout(p) PROVE UNCHANGED Abstract!vars
  BY <1>4 DEF handle_client_close_timeout, activeVars, Abstract!vars
<1>5. ASSUME NEW c \in Configs, NEW closing \in SUBSET (m_clientSet \ {Primary}),
             closeClients(c, closing)
      PROVE  Abstract!Next
  <2>1. forceLeaveClients(closing) /\ m_clientSet' = m_clientSet \ closing /\ adopted' = adopted
    BY <1>5 DEF closeClients, removeClients
  <2> QED BY <2>1, DroppingLeaves
<1>6. ASSUME NEW c \in Configs, reload_config(c)
      PROVE  Abstract!Next \/ UNCHANGED Abstract!vars
  <2>1. droppedBy(c) \in SUBSET (m_clientSet \ {Primary})
    BY <1>b DEF droppedBy, Connected
  <2>2. CASE HasPrimary(c)
    BY <1>5, <1>6, <2>1, <2>2 DEF reload_config
  <2>3. CASE ~HasPrimary(c)
    BY <1>c, <1>6, <2>3 DEF reload_config, activeVars
  <2> QED BY <2>2, <2>3
<1>7. ASSUME disconnect PROVE Abstract!Next \/ UNCHANGED Abstract!vars
  <2>1. CASE noClients(m_clients, m_oldClients)
    BY <1>c, <1>7, <2>1 DEF disconnect, activeVars
  <2>2. CASE ~noClients(m_clients, m_oldClients)
    <3>1. closeClients(m_config, m_clientSet \ {Primary}) /\ m_config \in Configs
      BY <1>a, <1>b, <1>7, <2>2 DEF disconnect, TypeOK
    <3> QED BY <1>5, <3>1
  <2> QED BY <2>1, <2>2
<1>8. CASE handle_no_clients
  BY <1>c, <1>8 DEF handle_no_clients, activeVars
<1>9. ASSUME NEW dst \in Screens, jumpToScreen(dst) PROVE Abstract!Next
  BY <1>b, <1>d, <1>e, <1>9 DEF jumpToScreen, switchScreen
<1>10. ASSUME NEW dst \in Connected \cup {Nil}, NEW dir \in Dirs, NEW inTime \in BOOLEAN,
              mouseMoveEdge(dst, dir, inTime)
       PROVE  Abstract!Next \/ UNCHANGED Abstract!vars
  BY <1>b, <1>c, <1>d, <1>e, <1>10 DEF mouseMoveEdge
<1>11. CASE mouseMoveInside
  BY <1>c, <1>11 DEF mouseMoveInside, activeVars
<1>12. ASSUME handle_switch_wait_event PROVE Abstract!Next \/ UNCHANGED Abstract!vars
  BY <1>c, <1>d, <1>e, <1>12 DEF handle_switch_wait_event, switchScreen
<1>13. ASSUME onScreensaverActivated PROVE Abstract!Next \/ UNCHANGED Abstract!vars
  <2>1. Primary \in m_clientSet
    BY <1>a DEF ClientsInv
  <2> QED BY <1>c, <1>d, <1>e, <1>13, <2>1 DEF onScreensaverActivated, switchScreen
<1>14. ASSUME onScreensaverDeactivated PROVE Abstract!Next \/ UNCHANGED Abstract!vars
  <2>1. m_activeSaver # Nil => m_activeSaver \in m_clientSet
    BY <1>a DEF SaverInv
  <2> QED BY <1>c, <1>d, <1>e, <1>14, <2>1 DEF onScreensaverDeactivated, switchScreen
<1>15. CASE handle_lock_cursor_to_screen_event
  BY <1>c, <1>15 DEF handle_lock_cursor_to_screen_event, activeVars
<1>16. CASE UNCHANGED vars
  BY <1>c, <1>16 DEF vars, activeVars
<1> QED BY <1>1, <1>2, <1>3, <1>4, <1>6, <1>7, <1>8, <1>9, <1>10, <1>11, <1>12, <1>13, <1>14,
           <1>15, <1>16 DEF Next

\* Server implements AbstractServer: each handler, with everything it calls, is
\* one Join, Refuse, Leave or Move of the one cursor or changes none of it, under
\* the conditions of CursorOnConnectedScreen.
THEOREM ServerSharesOneCursor ==
    ASSUME StableNames, SaverQuiet, WaitQuiet
    PROVE  Spec => SharesOneCursor
<1>1. Init => IInv /\ Abstract!Init
  BY IInvInit DEF Init, Abstract!Init
<1>2. IInv /\ TypeOK' /\ [Next]_vars => IInv'
  BY IInvStep
<1>3. IInv /\ [Next]_vars => [Abstract!Next]_(Abstract!vars)
  BY StepImplements
<1> QED BY <1>1, <1>2, <1>3, TypeCorrect, PTL DEF Spec, SharesOneCursor, Abstract!Spec

=============================================================================
