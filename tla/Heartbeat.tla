------------------------------ MODULE Heartbeat ------------------------------
(***************************************************************************)
(* How the two ends of a connection notice that the other one is gone:     *)
(* ClientProxy1_6 on the server (a periodic keep-alive timer and a         *)
(* one-shot alarm that every message from the client restarts) and         *)
(* ServerProxy on the client (it echoes keep-alives; its one-shot alarm is *)
(* restarted by keep-alives and by options).  Both use the timers of their *)
(* event queue (module Timers).                                            *)
(*                                                                         *)
(* Time passes in units of one second.  The network is two queues of       *)
(* messages, each with its age: unless the line is silent, a message is    *)
(* read at most MaxDelay after it was written, and a timer that has run    *)
(* out is looked at less than MaxLag later (an event queue looks at its    *)
(* timers only while no event waits).                                      *)
(***************************************************************************)
EXTENDS Timers, Sequences

CONSTANTS
  KeepAliveRate,  \* kKeepAliveRate, the rate when no option gives one
  Rates,          \* what the option "heartbeat" may say; 0 turns it off
  MaxDelay, MaxLag,
  MaxReloads      \* bound: how often the configuration is read again

KeepAlivesUntilDeath == 3

(***************************************************************************)
(* A round trip of a keep-alive that is sent as late as it can be must fit *)
(* into the alarm, and so must the handshake, during which the client's    *)
(* alarm already runs.                                                     *)
(***************************************************************************)
ASSUME RateAssumption ==
  /\ KeepAliveRate \in Nat \ {0} /\ Rates \subseteq Nat
  /\ MaxDelay \in Nat /\ MaxLag \in Nat /\ MaxReloads \in Nat
  /\ \A r \in (Rates \ {0}) \union {KeepAliveRate} :
       r + MaxLag + 2 * MaxDelay < KeepAlivesUntilDeath * r
  /\ 4 * MaxDelay < KeepAlivesUntilDeath * KeepAliveRate

VARIABLES
  queue,          \* [Ends -> the timers of the event queue of that end]
  connected,      \* [Ends -> the connection object exists and is not closed]
  parser,         \* the proxy on the server: none, handshake or ready
  adopting,       \* CLIENT_PROXY_READY is queued
  keepAliveRate,  \* ClientProxy1_6::m_keepAliveRate
  alarm,          \* [Ends -> m_heartbeatAlarm, m_keepAliveAlarm]
  line,           \* [Ends -> messages under way to that end, with their age]
  silent,         \* the line swallows everything and tells nobody
  reloads,
  quiet,          \* [Ends -> history: time since the alarm was restarted]
  falseAlarm      \* history: an alarm went off on a line that was not silent

vars == <<queue, connected, parser, adopting, keepAliveRate, alarm, line,
          silent, reloads, quiet, falseAlarm>>

Ends == {"server", "client"}

Other(p) == IF p = "server" THEN "client" ELSE "server"

NoOption == -1    \* the configuration has no option "heartbeat"

\* Only setOptions carries a rate.
Messages ==
  {m \in [kind : {"helloBack", "queryInfo", "info", "keepAlive", "resetOptions",
                  "setOptions", "close"},
          rate : Rates \union {NoOption}, age : 0 .. MaxDelay] :
     m.kind # "setOptions" => m.rate = NoOption}

Msg(kind) == [kind |-> kind, rate |-> NoOption, age |-> 0]

SetOptions(option) == [kind |-> "setOptions", rate |-> option, age |-> 0]

TypeOK ==
  /\ \A p \in Ends :
       /\ queue[p].time \in Nat
       /\ Running(queue[p]) \subseteq {"keepAlive", "alarm"}
       /\ \A t \in Running(queue[p]) : queue[p].timers[t].left \in Int
  /\ connected \in [Ends -> BOOLEAN]
  /\ parser \in {"none", "handshake", "ready"}
  /\ adopting \in BOOLEAN /\ silent \in BOOLEAN /\ falseAlarm \in BOOLEAN
  /\ keepAliveRate \in Int /\ alarm \in [Ends -> Int]
  /\ line \in [Ends -> Seq(Messages)]
  /\ reloads \in 0 .. MaxReloads
  /\ quiet \in [Ends -> Nat]

------------------------------------------------------------------------------
(* What is written is lost once the line is silent.                        *)

Sent(l, p, ms) ==
  IF silent THEN l
  ELSE [l EXCEPT ![Other(p)] = @ \o ms]

------------------------------------------------------------------------------
(* ClientProxy1_6: timers.  q is the queue of the server's process.        *)

resetHeartbeatTimer(q, a) ==
  LET q1 == deleteTimer(q, "alarm")
  IN  IF a > 0 THEN newOneShotTimer(q1, "alarm", a) ELSE q1

\* Faulty variant: the keep-alives start again, the alarm does not.
addHeartbeatTimer_NoAlarm(q, r, a) ==
  IF r > 0 THEN newTimer(q, "keepAlive", r) ELSE q

addHeartbeatTimer(q, r, a) ==
  LET q1 == IF r > 0 THEN newTimer(q, "keepAlive", r) ELSE q
  IN  IF a > 0 THEN newOneShotTimer(q1, "alarm", a) ELSE q1

removeHeartbeatTimer(q) == deleteTimer(deleteTimer(q, "keepAlive"), "alarm")

------------------------------------------------------------------------------
(* ServerProxy: its alarm and rate.                                        *)

resetKeepAliveAlarm(q, a) == resetHeartbeatTimer(q, a)

------------------------------------------------------------------------------
(* An end closes its connection: no timer is left, and the other end reads *)
(* of it after everything written before.                                  *)

disconnect(p) ==
  /\ connected' = [connected EXCEPT ![p] = FALSE]
  /\ queue' = [queue EXCEPT ![p] = removeHeartbeatTimer(@)]
  /\ line' = [Sent(line, p, <<Msg("close")>>) EXCEPT ![p] = << >>]
  /\ adopting' = (adopting /\ p # "server")
  /\ UNCHANGED <<parser, keepAliveRate, alarm, quiet>>

------------------------------------------------------------------------------
(* The server.                                                             *)

(***************************************************************************)
(* sendOptions(): resetOptions() and then setOptions(); each starts the    *)
(* timers again with the rate it leaves.                                   *)
(***************************************************************************)
sendOptions(option) ==
  LET rate == CASE option = NoOption -> KeepAliveRate
                [] option = 0        -> -1
                [] OTHER             -> option
      dead == rate * KeepAlivesUntilDeath
  IN  /\ keepAliveRate' = rate
      /\ alarm' = [alarm EXCEPT !["server"] = dead]
      /\ queue' = [queue EXCEPT !["server"] =
                     addHeartbeatTimer(removeHeartbeatTimer(@), rate, dead)]
      /\ line' = Sent(line, "server", <<Msg("resetOptions"), SetOptions(option)>>)
      /\ quiet' = [quiet EXCEPT !["server"] = 0]

\* CLIENT_PROXY_READY is handled: the client is adopted and gets its options.
adoptClient ==
  /\ adopting
  /\ adopting' = FALSE
  /\ \E option \in Rates \union {NoOption} : sendOptions(option)
  /\ UNCHANGED <<connected, parser, silent, reloads, falseAlarm>>

\* The configuration is read again and every client gets its options again.
setConfig ==
  /\ connected["server"] /\ parser = "ready" /\ ~adopting
  /\ reloads < MaxReloads
  /\ reloads' = reloads + 1
  /\ \E option \in Rates \union {NoOption} : sendOptions(option)
  /\ UNCHANGED <<connected, parser, adopting, silent, falseAlarm>>

(***************************************************************************)
(* ClientProxyUnknown reads the answer to its hello and makes the proxy,   *)
(* which asks for the client's screen.  No timer of the proxy runs before  *)
(* the answer (the 30 s timer of ClientProxyUnknown is another module's).  *)
(***************************************************************************)
newProxy ==
  /\ parser' = "handshake"
  /\ keepAliveRate' = KeepAliveRate
  /\ alarm' = [alarm EXCEPT !["server"] = KeepAliveRate * KeepAlivesUntilDeath]
  /\ line' = Sent([line EXCEPT !["server"] = Tail(@)], "server", <<Msg("queryInfo")>>)
  /\ UNCHANGED <<queue, connected, adopting, quiet>>

\* parseHandshakeMessage() and the end of handle_data() for the client's info.
handshakeInfo ==
  /\ parser' = "ready"
  /\ adopting' = TRUE
  /\ queue' = [queue EXCEPT !["server"] =
                 resetHeartbeatTimer(
                   addHeartbeatTimer(@, keepAliveRate, alarm["server"]),
                   alarm["server"])]
  /\ quiet' = [quiet EXCEPT !["server"] = 0]
  /\ line' = [line EXCEPT !["server"] = Tail(@)]
  /\ UNCHANGED <<connected, keepAliveRate, alarm>>

\* parseMessage() and the end of handle_data() for any message after it.
clientMessage ==
  /\ queue' = [queue EXCEPT !["server"] = resetHeartbeatTimer(@, alarm["server"])]
  /\ quiet' = [quiet EXCEPT !["server"] = 0]
  /\ line' = [line EXCEPT !["server"] = Tail(@)]
  /\ UNCHANGED <<connected, parser, adopting, keepAliveRate, alarm>>

serverReads ==
  /\ connected["server"] /\ line["server"] # << >> /\ ~adopting
  /\ LET m == Head(line["server"]).kind
     IN  \/ m = "helloBack" /\ newProxy
         \/ m = "close" /\ disconnect("server")
         \/ m \notin {"helloBack", "close"} /\ parser = "ready" /\ clientMessage
         \/ m \notin {"helloBack", "close"} /\ parser # "ready" /\ handshakeInfo
  /\ UNCHANGED <<silent, reloads, falseAlarm>>

------------------------------------------------------------------------------
(* The client: ServerProxy::handle_data(), one message.                    *)

\* setKeepAliveRate()
setKeepAliveRate(rate) ==
  LET a == rate * KeepAlivesUntilDeath
  IN  /\ alarm' = [alarm EXCEPT !["client"] = a]
      /\ queue' = [queue EXCEPT !["client"] = resetKeepAliveAlarm(@, a)]
      /\ quiet' = [quiet EXCEPT !["client"] = 0]

Echo ==
  /\ line' = Sent([line EXCEPT !["client"] = Tail(@)], "client", <<Msg("keepAlive")>>)
  /\ queue' = [queue EXCEPT !["client"] = resetKeepAliveAlarm(@, alarm["client"])]
  /\ quiet' = [quiet EXCEPT !["client"] = 0]
  /\ UNCHANGED alarm

queryInfo ==
  /\ line' = Sent([line EXCEPT !["client"] = Tail(@)], "client", <<Msg("info")>>)
  /\ UNCHANGED <<queue, alarm, quiet>>

Take == line' = [line EXCEPT !["client"] = Tail(@)]

clientReads ==
  /\ connected["client"] /\ line["client"] # << >>
  /\ LET m == Head(line["client"])
     IN  \/ m.kind = "close" /\ disconnect("client")
         \/ /\ \/ m.kind = "keepAlive" /\ Echo
               \/ m.kind = "queryInfo" /\ queryInfo
               \/ m.kind = "resetOptions" /\ Take /\ setKeepAliveRate(KeepAliveRate)
               \/ m.kind = "setOptions" /\ m.rate # NoOption /\ Take /\ setKeepAliveRate(m.rate)
               \/ m.kind = "setOptions" /\ m.rate = NoOption /\ Take /\ UNCHANGED <<queue, alarm, quiet>>
            /\ UNCHANGED <<connected, parser, adopting, keepAliveRate>>
  /\ UNCHANGED <<silent, reloads, falseAlarm>>

\* The screen of the client changes, or its clipboard: it writes by itself.
clientWrites ==
  /\ connected["client"] /\ parser = "ready" /\ line["server"] = << >> /\ ~silent
  /\ line' = Sent(line, "client", <<Msg("info")>>)
  /\ UNCHANGED <<queue, connected, parser, adopting, keepAliveRate, alarm,
                 silent, reloads, quiet, falseAlarm>>

------------------------------------------------------------------------------
(* The timers: getEvent() looks at them while no event waits and hands the *)
(* event of the one that has run out straight to its handler.              *)

keepAlive(q) ==
  /\ line' = Sent(line, "server", <<Msg("keepAlive")>>)
  /\ queue' = [queue EXCEPT !["server"] = expire(q, "keepAlive")]
  /\ UNCHANGED <<connected, parser, adopting, keepAliveRate, alarm, quiet, falseAlarm>>

\* handle_flatline() and handle_keep_alive_alarm()
flatline(p) ==
  /\ disconnect(p)
  /\ falseAlarm' = (falseAlarm \/ ~silent)

hasTimerExpired(p) ==
  /\ ~(p = "server" /\ adopting)
  /\ LET q == countdown(queue[p])
     IN  IF Expired(q) = {}
         THEN /\ q # queue[p]
              /\ queue' = [queue EXCEPT ![p] = q]
              /\ UNCHANGED <<connected, parser, adopting, keepAliveRate, alarm,
                             line, quiet, falseAlarm>>
         ELSE \E t \in Expired(q) :
                IF t = "keepAlive" THEN keepAlive(q) ELSE flatline(p)
  /\ UNCHANGED <<silent, reloads>>

------------------------------------------------------------------------------
(* Time, and what happens to the line.                                     *)

tick ==
  /\ ~adopting
  /\ \A p \in Ends :
       /\ \A i \in DOMAIN line[p] : connected[p] => line[p][i].age < MaxDelay
       /\ ~MustLook(queue[p], MaxLag)
  /\ queue' = [p \in Ends |-> passTime(queue[p])]
  /\ line' = [p \in Ends |-> [i \in DOMAIN line[p] |->
                IF connected[p] THEN [line[p][i] EXCEPT !.age = @ + 1]
                                ELSE line[p][i]]]
  /\ quiet' = [p \in Ends |-> IF Running(queue[p]) = {} THEN 0 ELSE quiet[p] + 1]
  /\ UNCHANGED <<connected, parser, adopting, keepAliveRate, alarm, silent,
                 reloads, falseAlarm>>

\* A cable is pulled, a machine loses power or goes to sleep.
goSilent ==
  /\ ~silent
  /\ silent' = TRUE
  /\ line' = [p \in Ends |-> << >>]
  /\ UNCHANGED <<queue, connected, parser, adopting, keepAliveRate, alarm,
                 reloads, quiet, falseAlarm>>

\* An end stops on purpose.
hangUp(p) ==
  /\ connected[p]
  /\ disconnect(p)
  /\ UNCHANGED <<silent, reloads, falseAlarm>>

------------------------------------------------------------------------------
(* The client has just answered the hello: its ServerProxy exists and its  *)
(* alarm runs.                                                             *)

Init ==
  /\ alarm = [p \in Ends |-> IF p = "client" THEN KeepAliveRate * KeepAlivesUntilDeath ELSE 0]
  /\ queue = [p \in Ends |-> IF p = "client"
                             THEN resetKeepAliveAlarm(NoTimers, alarm["client"])
                             ELSE NoTimers]
  /\ connected = [p \in Ends |-> TRUE]
  /\ parser = "none"
  /\ adopting = FALSE
  /\ keepAliveRate = 0
  /\ line = [p \in Ends |-> IF p = "server" THEN <<Msg("helloBack")>>
                                            ELSE << >>]
  /\ silent = FALSE
  /\ reloads = 0
  /\ quiet = [p \in Ends |-> 0]
  /\ falseAlarm = FALSE

Next ==
  \/ adoptClient
  \/ setConfig
  \/ serverReads
  \/ clientReads
  \/ clientWrites
  \/ \E p \in Ends : hasTimerExpired(p)
  \/ tick
  \/ goSilent
  \/ \E p \in Ends : hangUp(p)

Spec == Init /\ [][Next]_vars

------------------------------------------------------------------------------
(* Properties.                                                             *)

(***************************************************************************)
(* A live connection is not given up: handle_flatline() and                *)
(* handle_keep_alive_alarm() run only on a silent line, however the        *)
(* handshake, reloads that change the rate, late timers and slow messages  *)
(* fall; and an end that closed its connection left no timer behind, which *)
(* would run a handler of an object that is gone.                          *)
(***************************************************************************)
NoFalseDeath ==
  /\ ~falseAlarm
  /\ \A p \in Ends : ~connected[p] => Running(queue[p]) = {}

(***************************************************************************)
(* A dead connection is given up: an end whose heartbeat is on never waits *)
(* longer for a word from the other than its alarm (and the lag of its own *)
(* queue), from the moment the handshake is over.                          *)
(***************************************************************************)
DeadDetected ==
  /\ TypeOK
  /\ \A p \in Ends :
       /\ connected[p] /\ alarm[p] > 0 /\ (p = "server" => parser = "ready")
            => "alarm" \in Running(queue[p])
       /\ Running(queue[p]) # {} => quiet[p] <= alarm[p] + MaxLag
==============================================================================
