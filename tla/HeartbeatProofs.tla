---------------------------- MODULE HeartbeatProofs ----------------------------
(***************************************************************************)
(* For any rates, delays and lags: an end of a connection whose heartbeat  *)
(* is on always has its alarm running and gives up in time when the other  *)
(* end is silent, and no end gives up while the line carries messages.     *)
(*                                                                         *)
(* DeadDetected is not inductive.  What an alarm has left must be tied to  *)
(* the time since it was last restarted (Alarms), no timer may run without *)
(* the alarm, and the answer to the hello must be read only once (Hello),  *)
(* because a new proxy would take the alarm's length from a running timer. *)
(*                                                                         *)
(* NoFalseDeath needs, beside that, the lengths that alarms and periods    *)
(* can have (Lengths), and where the next message that restarts an alarm   *)
(* is (Live): under way, or about to be answered, or to be sent when the   *)
(* keep-alive timer of the server runs out, in each case early enough.     *)
(* While options are under way the two ends may use different rates; they  *)
(* agree once the client has read what is under way (Agreed).              *)
(***************************************************************************)
EXTENDS Heartbeat, TLAPS

Names == {"keepAlive", "alarm"}
Timer == [left : Int, timeout : Int, oneShot : BOOLEAN]

IsQueue(q) ==
    /\ q \in [time : Nat, timers : {q.timers}]
    /\ Running(q) \subseteq Names
    /\ q.timers \in [Running(q) -> Timer]

\* What the alarm has left, counted from now.
Left(q) == q.timers["alarm"].left - q.time

Lines == [Ends -> Seq(Messages)]

Types ==
    /\ queue = [p \in Ends |-> queue[p]] /\ \A p \in Ends : IsQueue(queue[p])
    /\ connected \in [Ends -> BOOLEAN]
    /\ parser \in {"none", "handshake", "ready"}
    /\ adopting \in BOOLEAN /\ silent \in BOOLEAN /\ falseAlarm \in BOOLEAN
    /\ keepAliveRate \in Int /\ alarm \in [Ends -> Int]
    /\ line \in Lines
    /\ reloads \in 0 .. MaxReloads
    /\ quiet \in [Ends -> Nat]

\* The handshake of this end is over, and it has not closed its connection.
On(p) == connected[p] /\ (p = "server" => parser = "ready")

EndOk(p) ==
    /\ "alarm" \in Running(queue[p]) =>
          alarm[p] > 0 /\ Left(queue[p]) = alarm[p] - quiet[p] /\ quiet[p] <= alarm[p] + MaxLag
    /\ "keepAlive" \in Running(queue[p]) => "alarm" \in Running(queue[p]) /\ p = "server"
    /\ On(p) /\ alarm[p] > 0 => "alarm" \in Running(queue[p])
    /\ ~On(p) => Running(queue[p]) = {}

Alarms ==
    /\ alarm["server"] = KeepAlivesUntilDeath * keepAliveRate
    /\ adopting => On("server")
    /\ \A p \in Ends : EndOk(p)

\* Only the first message to the server is the answer to its hello.
HelloOn(l) ==
    \A i \in 1..Len(l["server"]) : l["server"][i].kind = "helloBack" => i = 1 /\ parser = "none"

Hello == HelloOn(line)

IInv == Types /\ Alarms /\ Hello

------------------------------------------------------------------------------
(* Queues of timers.                                                       *)

LEMMA StartedQueue ==
    ASSUME NEW q, NEW t, NEW d, NEW o, NEW l, NEW r,
           IsQueue(q), t \in Names, d \in Int, o \in BOOLEAN, l \in Int, r = Started(q, t, d, o, l)
    PROVE  /\ IsQueue(r) /\ r.time = q.time /\ Running(r) = Running(q) \cup {t}
           /\ r.timers[t].left = l
<1> DEFINE T == [u \in Running(q) \cup {t} |->
                   IF u = t THEN [left |-> l, timeout |-> d, oneShot |-> o] ELSE q.timers[u]]
<1>1. q.time \in Nat /\ DOMAIN q = {"time", "timers"} /\ q = [time |-> q.time, timers |-> q.timers]
  BY DEF IsQueue
<1>2. r = [time |-> q.time, timers |-> T]
  <2>1. r = [q EXCEPT !.timers = T]
    BY DEF Started
  <2> HIDE DEF T
  <2> QED BY <1>1, <2>1
<1>3. T \in [Running(q) \cup {t} -> Timer]
  BY DEF IsQueue, Timer
<1>4. Running(r) = Running(q) \cup {t}
  BY <1>2, <1>3 DEF Running
<1>5. r.time = q.time /\ r.timers = T
  BY <1>2
<1>6. IsQueue(r)
  <2> HIDE DEF T
  <2> QED BY <1>1, <1>2, <1>3, <1>4, <1>5 DEF IsQueue
<1> QED BY <1>4, <1>5, <1>6

LEMMA DeletedQueue ==
    ASSUME NEW q, IsQueue(q), NEW t
    PROVE  LET r == deleteTimer(q, t)
           IN  /\ IsQueue(r) /\ r.time = q.time /\ Running(r) = Running(q) \ {t}
               /\ \A u \in Running(r) : r.timers[u] = q.timers[u]
<1> DEFINE T == [u \in Running(q) \ {t} |-> q.timers[u]]
           r == deleteTimer(q, t)
<1>1. q.time \in Nat /\ q = [time |-> q.time, timers |-> q.timers]
  BY DEF IsQueue
<1>2. r = [time |-> q.time, timers |-> T]
  <2>1. r = [q EXCEPT !.timers = T]
    BY DEF deleteTimer
  <2> HIDE DEF T
  <2> QED BY <1>1, <2>1
<1>3. T \in [Running(q) \ {t} -> Timer]
  BY DEF IsQueue
<1>4. Running(r) = Running(q) \ {t}
  BY <1>2, <1>3 DEF Running
<1>5. r.time = q.time /\ r.timers = T
  BY <1>2
<1>6. IsQueue(r)
  <2> HIDE DEF T, r
  <2> QED BY <1>1, <1>2, <1>3, <1>4, <1>5 DEF IsQueue
<1> QED BY <1>4, <1>5, <1>6

\* A one-shot timer has its whole duration left from now.
LEMMA ResetQueue ==
    ASSUME NEW q, IsQueue(q), NEW a \in Int
    PROVE  LET r == resetHeartbeatTimer(q, a)
           IN  /\ IsQueue(r)
               /\ Running(r) = (Running(q) \ {"alarm"}) \cup (IF a > 0 THEN {"alarm"} ELSE {})
               /\ a > 0 => Left(r) = a
<1> DEFINE q1 == deleteTimer(q, "alarm")
           r == resetHeartbeatTimer(q, a)
<1>1. IsQueue(q1) /\ q1.time = q.time /\ Running(q1) = Running(q) \ {"alarm"}
  BY DeletedQueue
<1>2. r = IF a > 0 THEN Started(q1, "alarm", a, TRUE, a + q1.time) ELSE q1
  BY DEF resetHeartbeatTimer, newOneShotTimer
<1> HIDE DEF q1, r
<1>3. CASE a > 0
  <2>1. "alarm" \in Names /\ a + q1.time \in Int /\ q1.time \in Int
    BY <1>1 DEF Names, IsQueue
  <2>2. /\ IsQueue(r) /\ r.time = q1.time /\ Running(r) = Running(q1) \cup {"alarm"}
        /\ r.timers["alarm"].left = a + q1.time
    <3> DEFINE oneShot == TRUE
    <3>1. r = Started(q1, "alarm", a, oneShot, a + q1.time) /\ oneShot \in BOOLEAN
      BY <1>2, <1>3
    <3> HIDE DEF oneShot
    <3> QED BY <1>1, <2>1, <3>1, StartedQueue
  <2>3. Left(r) = a
    BY <2>1, <2>2 DEF Left
  <2> QED BY <1>1, <1>3, <2>2, <2>3 DEF r
<1>4. CASE ~(a > 0)
  BY <1>1, <1>2, <1>4 DEF r
<1> QED BY <1>3, <1>4

LEMMA RemovedQueue ==
    ASSUME NEW q, IsQueue(q)
    PROVE  LET r == removeHeartbeatTimer(q)
           IN  IsQueue(r) /\ Running(r) = {}
<1> DEFINE q1 == deleteTimer(q, "keepAlive")
           r == removeHeartbeatTimer(q)
<1>1. IsQueue(q1) /\ Running(q1) = Running(q) \ {"keepAlive"}
  BY DeletedQueue
<1>2. r = deleteTimer(q1, "alarm")
  BY DEF removeHeartbeatTimer
<1> HIDE DEF q1, r
<1>3. IsQueue(r) /\ Running(r) = Running(q1) \ {"alarm"}
  BY <1>1, <1>2, DeletedQueue
<1>4. Running(q) \subseteq {"keepAlive", "alarm"}
  BY DEF IsQueue, Names
<1> QED BY <1>1, <1>3, <1>4 DEF r

LEMMA AddedQueue ==
    ASSUME NEW q, IsQueue(q), NEW rate \in Int, NEW a \in Int
    PROVE  LET r == addHeartbeatTimer(q, rate, a)
           IN  /\ IsQueue(r)
               /\ Running(r) = Running(q) \cup (IF rate > 0 THEN {"keepAlive"} ELSE {})
                                          \cup (IF a > 0 THEN {"alarm"} ELSE {})
               /\ a > 0 => Left(r) = a
<1> DEFINE q1 == IF rate > 0 THEN newTimer(q, "keepAlive", rate) ELSE q
           r == addHeartbeatTimer(q, rate, a)
<1>n. "keepAlive" \in Names /\ "alarm" \in Names /\ q.time \in Nat /\ rate + q.time \in Int
  BY DEF Names, IsQueue
<1>1. /\ IsQueue(q1) /\ q1.time = q.time
      /\ Running(q1) = Running(q) \cup (IF rate > 0 THEN {"keepAlive"} ELSE {})
  <2>1. CASE rate > 0
    <3> DEFINE oneShot == FALSE
    <3>1. q1 = Started(q, "keepAlive", rate, oneShot, rate + q.time) /\ oneShot \in BOOLEAN
      BY <2>1 DEF newTimer
    <3> HIDE DEF q1, oneShot
    <3>2. IsQueue(q1) /\ q1.time = q.time /\ Running(q1) = Running(q) \cup {"keepAlive"}
      BY <1>n, <3>1, StartedQueue
    <3> QED BY <2>1, <3>2
  <2>2. CASE ~(rate > 0)
    BY <2>2
  <2> QED BY <2>1, <2>2
<1>2. r = IF a > 0 THEN Started(q1, "alarm", a, TRUE, a + q1.time) ELSE q1
  BY DEF addHeartbeatTimer, newOneShotTimer
<1> HIDE DEF q1, r
<1>3. CASE a > 0
  <2>1. a + q1.time \in Int /\ q1.time \in Int
    BY <1>1, <1>n
  <2>2. /\ IsQueue(r) /\ r.time = q1.time /\ Running(r) = Running(q1) \cup {"alarm"}
        /\ r.timers["alarm"].left = a + q1.time
    <3> DEFINE oneShot == TRUE
    <3>1. r = Started(q1, "alarm", a, oneShot, a + q1.time) /\ oneShot \in BOOLEAN
      BY <1>2, <1>3
    <3> HIDE DEF oneShot
    <3> QED BY <1>1, <1>n, <2>1, <3>1, StartedQueue
  <2>3. Left(r) = a
    BY <2>1, <2>2 DEF Left
  <2> QED BY <1>1, <1>3, <2>2, <2>3 DEF r
<1>4. CASE ~(a > 0)
  BY <1>1, <1>2, <1>4 DEF r
<1> QED BY <1>3, <1>4

\* A look at the timers changes what none of them has left from now.
LEMMA CountedQueue ==
    ASSUME NEW q, IsQueue(q)
    PROVE  LET r == countdown(q)
           IN  /\ IsQueue(r) /\ Running(r) = Running(q)
               /\ "alarm" \in Running(q) => Left(r) = Left(q)
<1> DEFINE T == [u \in Running(q) |-> [q.timers[u] EXCEPT !.left = @ - q.time]]
           r == countdown(q)
<1>1. q.time \in Nat /\ q.timers \in [Running(q) -> Timer]
  BY DEF IsQueue
<1>2. CASE Running(q) = {}
  BY <1>2 DEF countdown
<1>3. CASE Running(q) # {}
  <2>1. r = [time |-> 0, timers |-> T]
    BY <1>3 DEF countdown
  <2>2. T \in [Running(q) -> Timer] /\ \A u \in Running(q) : T[u].left = q.timers[u].left - q.time
    <3>1. ASSUME NEW u \in Running(q)
          PROVE  /\ [q.timers[u] EXCEPT !.left = @ - q.time] \in Timer
                 /\ [q.timers[u] EXCEPT !.left = @ - q.time].left = q.timers[u].left - q.time
      <4>1. q.timers[u] \in Timer
        BY <1>1
      <4> QED BY <1>1, <4>1 DEF Timer
    <3> QED BY <3>1
  <2>3. Running(r) = Running(q) /\ r.timers = T /\ r.time = 0
    BY <2>1, <2>2 DEF Running
  <2>4. IsQueue(r)
    <3> HIDE DEF T, r
    <3> QED BY <2>1, <2>2, <2>3 DEF IsQueue
  <2>5. "alarm" \in Running(q) => Left(r) = Left(q)
    <3>1. ASSUME "alarm" \in Running(q) PROVE Left(r) = Left(q)
      <4>1. q.timers["alarm"].left \in Int
        BY <1>1, <3>1 DEF Timer
      <4>2. T["alarm"].left = q.timers["alarm"].left - q.time
        BY <2>2, <3>1
      <4> HIDE DEF T, r
      <4> QED BY <1>1, <2>3, <4>1, <4>2 DEF Left
    <3> QED BY <3>1
  <2> QED BY <2>3, <2>4, <2>5
<1> QED BY <1>2, <1>3

\* The keep-alive timer starts again; the alarm is not concerned.
LEMMA ExpiredQueue ==
    ASSUME NEW q, IsQueue(q), "keepAlive" \in Running(q), "alarm" \in Running(q)
    PROVE  LET r == expire(q, "keepAlive")
           IN  /\ IsQueue(r) /\ "alarm" \in Running(r) /\ Left(r) = Left(q)
<1> DEFINE r == expire(q, "keepAlive")
<1>1. CASE q.timers["keepAlive"].oneShot
  <2>1. r = deleteTimer(q, "keepAlive")
    BY <1>1 DEF expire
  <2> HIDE DEF r
  <2>2. /\ IsQueue(r) /\ r.time = q.time /\ Running(r) = Running(q) \ {"keepAlive"}
        /\ \A u \in Running(r) : r.timers[u] = q.timers[u]
    BY <2>1, DeletedQueue
  <2> QED BY <2>2 DEF Left, r
<1>2. CASE ~q.timers["keepAlive"].oneShot
  <2> DEFINE T == [q.timers EXCEPT !["keepAlive"].left = q.timers["keepAlive"].timeout]
  <2>1. q.time \in Nat /\ q = [time |-> q.time, timers |-> q.timers]
        /\ q.timers \in [Running(q) -> Timer] /\ Running(q) \subseteq Names
    BY DEF IsQueue
  <2>2. r = [q EXCEPT !.timers = T]
    BY <1>2 DEF expire
  <2>3. T \in [Running(q) -> Timer] /\ T["alarm"] = q.timers["alarm"]
    <3>1. q.timers["keepAlive"] \in Timer
      BY <2>1
    <3>2. [q.timers["keepAlive"] EXCEPT !.left = q.timers["keepAlive"].timeout] \in Timer
      BY <3>1 DEF Timer
    <3> QED BY <2>1, <3>2
  <2>4. r = [time |-> q.time, timers |-> T]
    <3> HIDE DEF T
    <3> QED BY <2>1, <2>2
  <2>5. Running(r) = Running(q) /\ r.timers = T /\ r.time = q.time
    BY <2>3, <2>4 DEF Running
  <2> HIDE DEF T, r
  <2>6. IsQueue(r)
    BY <2>1, <2>3, <2>4, <2>5 DEF IsQueue
  <2> QED BY <2>3, <2>5, <2>6 DEF Left, r
<1> QED BY <1>1, <1>2

LEMMA PassedQueue ==
    ASSUME NEW q, IsQueue(q)
    PROVE  LET r == passTime(q)
           IN  /\ IsQueue(r) /\ Running(r) = Running(q)
               /\ "alarm" \in Running(q) => Left(r) = Left(q) - 1
<1> DEFINE r == passTime(q)
<1>1. q.time \in Nat /\ q = [time |-> q.time, timers |-> q.timers]
      /\ q.timers \in [Running(q) -> Timer]
  BY DEF IsQueue
<1>2. CASE r = q /\ Running(q) = {}
  BY <1>2
<1>3. CASE r = [q EXCEPT !.time = q.time + 1]
  <2>1. r = [time |-> q.time + 1, timers |-> q.timers]
    BY <1>1, <1>3
  <2>2. r.time = q.time + 1 /\ r.timers = q.timers /\ Running(r) = Running(q)
    BY <2>1 DEF Running
  <2> HIDE DEF r
  <2>3. IsQueue(r)
    BY <2>1, <2>2 DEF IsQueue
  <2>4. "alarm" \in Running(q) => Left(r) = Left(q) - 1
    <3>1. "alarm" \in Running(q) => q.timers["alarm"].left \in Int
      BY <1>1 DEF Timer
    <3> QED BY <1>1, <2>2, <3>1 DEF Left
  <2> QED BY <2>2, <2>3, <2>4 DEF r
<1> QED BY <1>2, <1>3 DEF passTime

------------------------------------------------------------------------------
(* Messages.                                                               *)

LEMMA Constants ==
    /\ KeepAliveRate \in Nat \ {0} /\ Rates \subseteq Nat /\ MaxLag \in Nat /\ MaxDelay \in Nat
    /\ MaxReloads \in Nat /\ NoOption \in Int /\ KeepAlivesUntilDeath = 3
    /\ Ends = {"server", "client"} /\ Other("server") = "client" /\ Other("client") = "server"
  BY RateAssumption DEF NoOption, KeepAlivesUntilDeath, Ends, Other

LEMMA MsgTypes ==
    /\ \A k \in {"queryInfo", "info", "keepAlive", "resetOptions", "close"} :
          Msg(k) \in Messages /\ Msg(k).kind # "helloBack"
    /\ Msg("helloBack") \in Messages
    /\ \A o \in Rates \cup {NoOption} :
          SetOptions(o) \in Messages /\ SetOptions(o).kind # "helloBack"
  BY Constants DEF Msg, SetOptions, Messages

LEMMA SentOne ==
    ASSUME NEW l, NEW p, NEW m,
           l \in Lines, p \in Ends, m \in Messages, m.kind # "helloBack"
    PROVE  /\ Sent(l, p, <<m>>) \in Lines
           /\ HelloOn(l) => HelloOn(Sent(l, p, <<m>>))
           /\ p = "server" => Sent(l, p, <<m>>)["server"] = l["server"]
<1>1. CASE silent
  BY <1>1 DEF Sent
<1>2. CASE ~silent
  <2> DEFINE o == Other(p)
  <2>1. o \in Ends /\ l[o] \in Seq(Messages)
    BY Constants DEF Lines, Other
  <2>2. l[o] \o <<m>> = Append(l[o], m)
    BY <2>1
  <2>3. Sent(l, p, <<m>>) = [l EXCEPT ![o] = Append(l[o], m)]
    BY <1>2, <2>2 DEF Sent
  <2>4. Append(l[o], m) \in Seq(Messages)
    BY <2>1
  <2>5. Sent(l, p, <<m>>) \in Lines
    BY <2>1, <2>3, <2>4 DEF Lines
  <2>6. CASE p = "server"
    <3>1. Sent(l, p, <<m>>)["server"] = l["server"]
      BY <2>3, <2>6, Constants DEF Lines
    <3> QED BY <2>5, <3>1 DEF HelloOn
  <2>7. CASE p = "client"
    <3>1. Sent(l, p, <<m>>)["server"] = Append(l["server"], m) /\ l["server"] \in Seq(Messages)
      BY <2>1, <2>3, <2>7, Constants DEF Lines
    <3>2. ASSUME HelloOn(l) PROVE HelloOn(Sent(l, p, <<m>>))
      <4> DEFINE s == l["server"]
      <4>1. /\ Len(Append(s, m)) = Len(s) + 1 /\ Len(s) \in Nat /\ Append(s, m)[Len(s) + 1] = m
            /\ \A i \in 1..Len(s) : Append(s, m)[i] = s[i]
        BY <3>1
      <4>2. ASSUME NEW i \in 1..Len(Append(s, m)), Append(s, m)[i].kind = "helloBack"
            PROVE  i = 1 /\ parser = "none"
        <5>1. i \in 1..Len(s)
          BY <4>1, <4>2
        <5> QED BY <3>2, <4>1, <4>2, <5>1 DEF HelloOn
      <4> QED BY <3>1, <4>2 DEF HelloOn
    <3> QED BY <2>5, <2>7, <3>2
  <2> QED BY <2>6, <2>7, Constants
<1> QED BY <1>1, <1>2

\* The first message is taken: after it there is no other answer to the hello.
LEMMA TakenServer ==
    ASSUME line \in Lines, line["server"] # <<>>, Hello
    PROVE  LET l == [line EXCEPT !["server"] = Tail(@)]
           IN  /\ l \in Lines
               /\ \A i \in 1..Len(l["server"]) : l["server"][i].kind # "helloBack"
<1> DEFINE s == line["server"]
           l == [line EXCEPT !["server"] = Tail(@)]
<1>1. s \in Seq(Messages) /\ s # <<>>
  BY Constants DEF Lines
<1>2. /\ Tail(s) \in Seq(Messages) /\ Len(s) \in Nat /\ Len(Tail(s)) = Len(s) - 1
      /\ \A i \in 1..Len(Tail(s)) : Tail(s)[i] = s[i + 1]
  BY <1>1
<1>3. l \in Lines /\ l["server"] = Tail(s)
  BY <1>2, Constants DEF Lines
<1>4. \A i \in 1..Len(Tail(s)) : i + 1 \in 1..Len(s) /\ i + 1 # 1
  BY <1>2
<1>5. \A i \in 1..Len(Tail(s)) : Tail(s)[i].kind # "helloBack"
  BY <1>2, <1>4 DEF Hello, HelloOn
<1> QED BY <1>3, <1>5

LEMMA TakenClient ==
    ASSUME line \in Lines, line["client"] # <<>>
    PROVE  LET l == [line EXCEPT !["client"] = Tail(@)]
           IN  l \in Lines /\ (Hello => HelloOn(l)) /\ Head(line["client"]) \in Messages
<1> DEFINE s == line["client"]
<1>1. s \in Seq(Messages) /\ s # <<>>
  BY Constants DEF Lines
<1>2. Tail(s) \in Seq(Messages) /\ Head(s) \in Messages
  BY <1>1
<1> QED BY <1>2, Constants DEF Lines, Hello, HelloOn

------------------------------------------------------------------------------
(* The inductive invariant.                                                *)

LEMMA SameEnd ==
    ASSUME NEW p, EndOk(p), queue'[p] = queue[p], alarm'[p] = alarm[p], quiet'[p] = quiet[p],
           On(p)' <=> On(p)
    PROVE  EndOk(p)'
  BY DEF EndOk

\* The timers of one end become r, with n since its alarm was restarted.
LEMMA NewQueue ==
    ASSUME Types, NEW p \in Ends, NEW r, IsQueue(r), queue' = [queue EXCEPT ![p] = r]
    PROVE  /\ queue' = [e \in Ends |-> queue'[e]] /\ \A e \in Ends : IsQueue(queue'[e])
           /\ queue'[p] = r /\ \A e \in Ends : e # p => queue'[e] = queue[e]
<1>1. queue = [e \in Ends |-> queue[e]] /\ \A e \in Ends : IsQueue(queue[e])
  BY DEF Types
<1> QED BY <1>1

LEMMA DisconnectStep ==
    ASSUME IInv, NEW p \in Ends, disconnect(p), silent' = silent, reloads' = reloads,
           falseAlarm' \in BOOLEAN
    PROVE  IInv'
<1> USE DEF IInv
<1>1. IsQueue(queue[p])
  BY DEF Types
<1> DEFINE r == removeHeartbeatTimer(queue[p])
<1>2. IsQueue(r) /\ Running(r) = {}
  BY <1>1, RemovedQueue
<1>3. queue' = [queue EXCEPT ![p] = r]
  BY DEF disconnect
<1> HIDE DEF r
<1>4. /\ queue' = [e \in Ends |-> queue'[e]] /\ \A e \in Ends : IsQueue(queue'[e])
      /\ queue'[p] = r /\ \A e \in Ends : e # p => queue'[e] = queue[e]
  BY <1>2, <1>3, NewQueue
<1>5. /\ connected' = [connected EXCEPT ![p] = FALSE]
      /\ adopting' = (adopting /\ p # "server")
      /\ UNCHANGED <<parser, keepAliveRate, alarm, quiet>>
  BY DEF disconnect
<1>6. connected' \in [Ends -> BOOLEAN] /\ ~connected'[p] /\ adopting' \in BOOLEAN
      /\ \A e \in Ends : e # p => connected'[e] = connected[e]
  BY <1>5 DEF Types
<1> DEFINE l == Sent(line, p, <<Msg("close")>>)
<1>7. l \in Lines /\ HelloOn(l)
  BY MsgTypes, SentOne DEF Types, Hello
<1>8. line' = [l EXCEPT ![p] = <<>>] /\ <<>> \in Seq(Messages)
  BY DEF disconnect
<1> HIDE DEF l
<1>9. line' \in Lines
  BY <1>7, <1>8 DEF Lines
<1>10. line'["server"] = l["server"] \/ line'["server"] = <<>>
  BY <1>7, <1>8, Constants DEF Lines
<1>11. Hello'
  BY <1>5, <1>7, <1>10 DEF Hello, HelloOn
<1>12. Types'
  BY <1>4, <1>5, <1>6, <1>9 DEF Types
<1>13. EndOk(p)'
  BY <1>2, <1>4, <1>6 DEF EndOk, On
<1>14. ASSUME NEW e \in Ends, e # p PROVE EndOk(e)'
  <2>1. EndOk(e) /\ (On(e)' <=> On(e))
    BY <1>5, <1>6, <1>14 DEF On, Alarms
  <2> QED BY <1>4, <1>5, <1>14, <2>1, SameEnd
<1>15. adopting' => On("server")'
  <2>1. ASSUME adopting' PROVE On("server")'
    <3>1. adopting /\ p # "server"
      BY <1>5, <2>1
    <3>2. connected'["server"] = connected["server"]
      BY <1>6, <3>1, Constants
    <3> QED BY <1>5, <3>1, <3>2 DEF On, Alarms
  <2> QED BY <2>1
<1>16. alarm'["server"] = KeepAlivesUntilDeath * keepAliveRate'
  BY <1>5 DEF Alarms
<1> QED BY <1>11, <1>12, <1>13, <1>14, <1>15, <1>16 DEF Alarms

\* sendOptions(): the timers start again with the rate that the option gives.
LEMMA OptionsStep ==
    ASSUME IInv, NEW option \in Rates \cup {NoOption}, sendOptions(option), On("server"),
           UNCHANGED <<connected, parser, silent, falseAlarm>>,
           adopting' = FALSE, reloads' \in 0 .. MaxReloads
    PROVE  IInv'
<1> USE DEF IInv
<1> DEFINE rate == CASE option = NoOption -> KeepAliveRate
                     [] option = 0        -> -1
                     [] OTHER             -> option
           dead == rate * KeepAlivesUntilDeath
           q == removeHeartbeatTimer(queue["server"])
           r == addHeartbeatTimer(q, rate, dead)
<1>1. rate \in Int /\ dead \in Int /\ dead = KeepAlivesUntilDeath * rate /\ (rate > 0 <=> dead > 0)
  <2>1. rate \in Int
    BY Constants
  <2> HIDE DEF rate
  <2> QED BY <2>1, Constants
<1>2. /\ keepAliveRate' = rate /\ alarm' = [alarm EXCEPT !["server"] = dead]
      /\ queue' = [queue EXCEPT !["server"] = r]
      /\ line' = Sent(line, "server", <<Msg("resetOptions"), SetOptions(option)>>)
      /\ quiet' = [quiet EXCEPT !["server"] = 0]
  BY DEF sendOptions
<1> HIDE DEF rate, dead
<1>3. IsQueue(q) /\ Running(q) = {}
  BY RemovedQueue, Constants DEF Types
<1> HIDE DEF q
<1>4. /\ IsQueue(r)
      /\ Running(r) = (IF rate > 0 THEN {"keepAlive"} ELSE {}) \cup (IF dead > 0 THEN {"alarm"} ELSE {})
      /\ dead > 0 => Left(r) = dead
  BY <1>1, <1>3, AddedQueue
<1> HIDE DEF r
<1>5. /\ queue' = [e \in Ends |-> queue'[e]] /\ \A e \in Ends : IsQueue(queue'[e])
      /\ queue'["server"] = r /\ queue'["client"] = queue["client"]
  BY <1>2, <1>4, NewQueue, Constants
<1>6. /\ alarm' \in [Ends -> Int] /\ quiet' \in [Ends -> Nat]
      /\ alarm'["server"] = dead /\ quiet'["server"] = 0
      /\ alarm'["client"] = alarm["client"] /\ quiet'["client"] = quiet["client"]
  BY <1>1, <1>2, Constants DEF Types
<1>7. line' \in Lines /\ line'["server"] = line["server"]
  <2>1. CASE silent
    BY <1>2, <2>1 DEF Sent, Types
  <2>2. CASE ~silent
    <3> DEFINE two == <<Msg("resetOptions"), SetOptions(option)>>
    <3>1. two \in Seq(Messages)
      BY MsgTypes
    <3>2. line' = [line EXCEPT !["client"] = line["client"] \o two]
      BY <1>2, <2>2, Constants DEF Sent
    <3>3. line["client"] \in Seq(Messages) /\ line \in [Ends -> Seq(Messages)]
      BY Constants DEF Types, Lines
    <3> HIDE DEF two
    <3>4. line["client"] \o two \in Seq(Messages)
      BY <3>1, <3>3
    <3> QED BY <3>2, <3>3, <3>4, Constants DEF Lines
  <2> QED BY <2>1, <2>2
<1>8. Hello'
  BY <1>7 DEF Hello, HelloOn
<1>9. Types'
  <2>1. adopting' \in BOOLEAN
    OBVIOUS
  <2> QED BY <1>1, <1>2, <1>5, <1>6, <1>7, <2>1 DEF Types
<1>10. On("server")' /\ (On("client")' <=> On("client"))
  BY DEF On
<1>11. EndOk("server")'
  BY <1>1, <1>4, <1>5, <1>6, <1>10, Constants DEF EndOk
<1>12. EndOk("client")'
  BY <1>5, <1>6, <1>10, SameEnd, Constants DEF Alarms
<1> QED BY <1>1, <1>2, <1>6, <1>8, <1>9, <1>11, <1>12, Constants DEF Alarms

\* ClientProxyUnknown makes the proxy: no timer runs yet.
LEMMA ProxyStep ==
    ASSUME IInv, newProxy, line["server"] # <<>>, Head(line["server"]).kind = "helloBack",
           ~adopting, UNCHANGED <<silent, reloads, falseAlarm>>
    PROVE  IInv'
<1> USE DEF IInv
<1>1. parser = "none"
  <2>1. line["server"] \in Seq(Messages)
    BY Constants DEF Types, Lines
  <2>2. 1 \in 1..Len(line["server"]) /\ line["server"][1] = Head(line["server"])
    BY <2>1
  <2> QED BY <2>2 DEF Hello, HelloOn
<1>2. /\ parser' = "handshake" /\ keepAliveRate' = KeepAliveRate
      /\ alarm' = [alarm EXCEPT !["server"] = KeepAliveRate * KeepAlivesUntilDeath]
      /\ line' = Sent([line EXCEPT !["server"] = Tail(@)], "server", <<Msg("queryInfo")>>)
      /\ UNCHANGED <<queue, connected, adopting, quiet>>
  BY DEF newProxy
<1> DEFINE l == [line EXCEPT !["server"] = Tail(@)]
<1>3. l \in Lines /\ \A i \in 1..Len(l["server"]) : l["server"][i].kind # "helloBack"
  BY TakenServer DEF Types
<1> HIDE DEF l
<1>4. line' \in Lines /\ line'["server"] = l["server"]
  BY <1>2, <1>3, MsgTypes, SentOne, Constants DEF l
<1>5. Hello'
  BY <1>3, <1>4 DEF Hello, HelloOn
<1>6. /\ alarm' \in [Ends -> Int] /\ alarm'["server"] = KeepAlivesUntilDeath * keepAliveRate'
      /\ alarm'["client"] = alarm["client"]
  BY <1>2, Constants DEF Types
<1>7. Types'
  BY <1>2, <1>4, <1>6, Constants DEF Types
<1>8. ~On("server") /\ ~On("server")' /\ (On("client")' <=> On("client"))
  BY <1>1, <1>2 DEF On
<1>9. EndOk("server")'
  BY <1>2, <1>8, Constants DEF EndOk, Alarms
<1>10. EndOk("client")'
  BY <1>2, <1>6, <1>8, SameEnd, Constants DEF Alarms
<1> QED BY <1>2, <1>5, <1>6, <1>7, <1>9, <1>10, Constants DEF Alarms

\* Any other message restarts the alarm of the server's end.
LEMMA MessageStep ==
    ASSUME IInv, handshakeInfo \/ clientMessage, connected["server"], line["server"] # <<>>, ~adopting,
           clientMessage => parser = "ready", handshakeInfo => parser # "ready",
           UNCHANGED <<silent, reloads, falseAlarm>>
    PROVE  IInv'
<1> USE DEF IInv
<1>1. IsQueue(queue["server"]) /\ alarm["server"] \in Int /\ keepAliveRate \in Int
      /\ alarm["server"] = KeepAlivesUntilDeath * keepAliveRate /\ EndOk("server") /\ EndOk("client")
  BY Constants DEF Types, Alarms
<1>2. PICK r : /\ IsQueue(r) /\ queue' = [queue EXCEPT !["server"] = r]
               /\ "alarm" \in Running(r) <=> alarm["server"] > 0
               /\ "alarm" \in Running(r) => Left(r) = alarm["server"]
               /\ "keepAlive" \in Running(r) => "alarm" \in Running(r)
  <2>1. CASE handshakeInfo
    <3> DEFINE q == addHeartbeatTimer(queue["server"], keepAliveRate, alarm["server"])
               r == resetHeartbeatTimer(q, alarm["server"])
    <3>1. Running(queue["server"]) = {}
      BY <1>1, <2>1 DEF EndOk, On
    <3>2. /\ IsQueue(q)
          /\ "keepAlive" \in Running(q) => keepAliveRate > 0
      BY <1>1, <3>1, AddedQueue
    <3>3. queue' = [queue EXCEPT !["server"] = r]
      BY <2>1 DEF handshakeInfo
    <3> HIDE DEF q
    <3>4. /\ IsQueue(r)
          /\ Running(r) = (Running(q) \ {"alarm"}) \cup (IF alarm["server"] > 0 THEN {"alarm"} ELSE {})
          /\ alarm["server"] > 0 => Left(r) = alarm["server"]
      BY <1>1, <3>2, ResetQueue
    <3>5. keepAliveRate > 0 => alarm["server"] > 0
      BY <1>1, Constants
    <3> HIDE DEF r
    <3> QED BY <3>2, <3>3, <3>4, <3>5
  <2>2. CASE clientMessage
    <3> DEFINE r == resetHeartbeatTimer(queue["server"], alarm["server"])
    <3>1. queue' = [queue EXCEPT !["server"] = r]
      BY <2>2 DEF clientMessage
    <3>2. /\ IsQueue(r)
          /\ Running(r) = (Running(queue["server"]) \ {"alarm"})
                             \cup (IF alarm["server"] > 0 THEN {"alarm"} ELSE {})
          /\ alarm["server"] > 0 => Left(r) = alarm["server"]
      BY <1>1, ResetQueue
    <3>3. "keepAlive" \in Running(queue["server"]) => alarm["server"] > 0
      BY <1>1 DEF EndOk
    <3> HIDE DEF r
    <3> QED BY <3>1, <3>2, <3>3
  <2> QED BY <2>1, <2>2
<1>3. /\ queue' = [e \in Ends |-> queue'[e]] /\ \A e \in Ends : IsQueue(queue'[e])
      /\ queue'["server"] = r /\ queue'["client"] = queue["client"]
  BY <1>2, NewQueue, Constants
<1>4. /\ quiet' = [quiet EXCEPT !["server"] = 0] /\ line' = [line EXCEPT !["server"] = Tail(@)]
      /\ UNCHANGED <<connected, keepAliveRate, alarm>> /\ parser' = "ready"
      /\ adopting' \in BOOLEAN
  BY DEF handshakeInfo, clientMessage, Types
<1>5. /\ line' \in Lines
      /\ \A i \in 1..Len(line'["server"]) : line'["server"][i].kind # "helloBack"
  BY <1>4, TakenServer DEF Types
<1>6. Hello'
  BY <1>5 DEF Hello, HelloOn
<1>7. quiet' \in [Ends -> Nat] /\ quiet'["server"] = 0 /\ quiet'["client"] = quiet["client"]
  BY <1>4, Constants DEF Types
<1>8. Types'
  BY <1>3, <1>4, <1>5, <1>7 DEF Types
<1>9. On("server")' /\ (On("client")' <=> On("client"))
  BY <1>4 DEF On
<1>10. EndOk("server")'
  BY <1>1, <1>2, <1>3, <1>4, <1>7, <1>9, Constants DEF EndOk
<1>11. EndOk("client")'
  BY <1>1, <1>3, <1>4, <1>7, <1>9, SameEnd
<1> QED BY <1>1, <1>4, <1>6, <1>8, <1>9, <1>10, <1>11, Constants DEF Alarms

\* The client's alarm is restarted, with length a.
LEMMA ClientAlarm ==
    ASSUME IInv, NEW a \in Int, NEW l, l \in Lines, HelloOn(l), line' = l,
           alarm' = [alarm EXCEPT !["client"] = a],
           queue' = [queue EXCEPT !["client"] = resetKeepAliveAlarm(@, a)],
           quiet' = [quiet EXCEPT !["client"] = 0], connected["client"],
           UNCHANGED <<connected, parser, adopting, keepAliveRate, silent, reloads, falseAlarm>>
    PROVE  IInv'
<1> USE DEF IInv
<1> DEFINE r == resetHeartbeatTimer(queue["client"], a)
<1>1. IsQueue(queue["client"]) /\ EndOk("server") /\ EndOk("client")
  BY Constants DEF Types, Alarms
<1>2. /\ IsQueue(r)
      /\ Running(r) = (Running(queue["client"]) \ {"alarm"}) \cup (IF a > 0 THEN {"alarm"} ELSE {})
      /\ a > 0 => Left(r) = a
  BY <1>1, ResetQueue
<1>3. queue' = [queue EXCEPT !["client"] = r]
  BY DEF resetKeepAliveAlarm
<1> HIDE DEF r
<1>4. /\ queue' = [e \in Ends |-> queue'[e]] /\ \A e \in Ends : IsQueue(queue'[e])
      /\ queue'["client"] = r /\ queue'["server"] = queue["server"]
  BY <1>2, <1>3, NewQueue, Constants
<1>5. /\ alarm' \in [Ends -> Int] /\ quiet' \in [Ends -> Nat]
      /\ alarm'["client"] = a /\ quiet'["client"] = 0
      /\ alarm'["server"] = alarm["server"] /\ quiet'["server"] = quiet["server"]
  BY Constants DEF Types
<1>6. Types'
  BY <1>4, <1>5 DEF Types
<1>7. Hello'
  BY DEF Hello, HelloOn
<1>8. (On("server")' <=> On("server")) /\ On("client")'
  BY DEF On
<1>9. "keepAlive" \notin Running(queue["client"])
  BY <1>1 DEF EndOk
<1>10. EndOk("client")'
  BY <1>2, <1>4, <1>5, <1>8, <1>9, Constants DEF EndOk
<1>11. EndOk("server")'
  BY <1>1, <1>4, <1>5, <1>8, SameEnd
<1> QED BY <1>5, <1>6, <1>7, <1>8, <1>10, <1>11, Constants DEF Alarms

\* Only the lines change.
LEMMA LineStep ==
    ASSUME IInv, line' \in Lines, Hello', silent' \in BOOLEAN,
           UNCHANGED <<queue, connected, parser, adopting, keepAliveRate, alarm, reloads, quiet, falseAlarm>>
    PROVE  IInv'
<1>1. Types'
  BY DEF IInv, Types
<1>2. Alarms'
  BY DEF IInv, Alarms, EndOk, On
<1> QED BY <1>1, <1>2 DEF IInv

LEMMA ClientStep == IInv /\ clientReads => IInv'
<1> SUFFICES ASSUME IInv, clientReads PROVE IInv'
  OBVIOUS
<1> DEFINE m == Head(line["client"])
           l == [line EXCEPT !["client"] = Tail(@)]
<1>1. connected["client"] /\ line["client"] # <<>> /\ UNCHANGED <<silent, reloads, falseAlarm>>
  BY DEF clientReads
<1>2. l \in Lines /\ HelloOn(l) /\ m \in Messages /\ falseAlarm \in BOOLEAN /\ "client" \in Ends
  BY <1>1, TakenClient, Constants DEF IInv, Types
<1>3. m.rate \in Int
  <2> HIDE DEF m
  <2>1. m.rate \in Rates \cup {NoOption}
    BY <1>2 DEF Messages
  <2>2. \A o \in Rates \cup {NoOption} : o \in Int
    BY Constants
  <2> QED BY <2>1, <2>2, Zenon
<1>4. CASE m.kind = "close"
  <2>1. disconnect("client")
    BY <1>4 DEF clientReads
  <2> QED BY <1>1, <1>2, <2>1, DisconnectStep
<1>5. CASE m.kind # "close"
  <2>1. UNCHANGED <<connected, parser, adopting, keepAliveRate>>
    BY <1>5 DEF clientReads
  <2>2. \/ Echo \/ queryInfo
        \/ \E rate \in {KeepAliveRate, m.rate} : Take /\ setKeepAliveRate(rate)
        \/ Take /\ UNCHANGED <<queue, alarm, quiet>>
    BY <1>5 DEF clientReads
  <2>3. Hello' <=> HelloOn(line')
    BY <2>1 DEF Hello, HelloOn
  <2>4. CASE Echo
    <3> DEFINE k == Sent(l, "client", <<Msg("keepAlive")>>)
    <3>1. k \in Lines /\ HelloOn(k)
      BY <1>2, MsgTypes, SentOne
    <3>2. line' = k /\ alarm' = alarm /\ quiet' = [quiet EXCEPT !["client"] = 0]
          /\ queue' = [queue EXCEPT !["client"] = resetKeepAliveAlarm(@, alarm["client"])]
      BY <2>4 DEF Echo
    <3>3. alarm["client"] \in Int /\ alarm' = [alarm EXCEPT !["client"] = alarm["client"]]
      BY <1>2, <3>2 DEF IInv, Types
    <3> HIDE DEF k
    <3> QED BY <1>1, <2>1, <3>1, <3>2, <3>3, ClientAlarm
  <2>5. CASE queryInfo
    <3> DEFINE k == Sent(l, "client", <<Msg("info")>>)
    <3>1. k \in Lines /\ HelloOn(k)
      BY <1>2, MsgTypes, SentOne
    <3>2. line' = k /\ UNCHANGED <<queue, alarm, quiet>>
      BY <2>5 DEF queryInfo
    <3>3. silent' \in BOOLEAN
      BY <1>1 DEF IInv, Types
    <3> HIDE DEF k, l
    <3> QED BY <1>1, <2>1, <2>3, <3>1, <3>2, <3>3, LineStep
  <2>6. ASSUME NEW rate \in {KeepAliveRate, m.rate}, Take, setKeepAliveRate(rate) PROVE IInv'
    <3> DEFINE a == rate * KeepAlivesUntilDeath
    <3>1. a \in Int
      BY <1>3, Constants
    <3>2. line' = l /\ alarm' = [alarm EXCEPT !["client"] = a] /\ quiet' = [quiet EXCEPT !["client"] = 0]
          /\ queue' = [queue EXCEPT !["client"] = resetKeepAliveAlarm(@, a)]
      BY <2>6 DEF Take, setKeepAliveRate
    <3> HIDE DEF a, l, m
    <3> QED BY <1>1, <1>2, <2>1, <3>1, <3>2, ClientAlarm
  <2>7. CASE Take /\ UNCHANGED <<queue, alarm, quiet>>
    <3>1. line' = l
      BY <2>7 DEF Take
    <3>2. silent' \in BOOLEAN
      BY <1>1 DEF IInv, Types
    <3> HIDE DEF l
    <3> QED BY <1>1, <1>2, <2>1, <2>3, <2>7, <3>1, <3>2, LineStep
  <2> QED BY <2>2, <2>4, <2>5, <2>6, <2>7
<1> QED BY <1>4, <1>5

LEMMA TimerStep == IInv /\ (\E p \in Ends : hasTimerExpired(p)) => IInv'
<1> SUFFICES ASSUME IInv, NEW p \in Ends, hasTimerExpired(p) PROVE IInv'
  OBVIOUS
<1> DEFINE q == countdown(queue[p])
<1>1. IsQueue(queue[p]) /\ EndOk(p) /\ UNCHANGED <<silent, reloads>>
  BY DEF IInv, Types, Alarms, hasTimerExpired
<1>2. IsQueue(q) /\ Running(q) = Running(queue[p])
      /\ ("alarm" \in Running(queue[p]) => Left(q) = Left(queue[p]))
  BY <1>1, CountedQueue
<1>3. ASSUME NEW r, IsQueue(r), queue' = [queue EXCEPT ![p] = r],
             "alarm" \in Running(r) <=> "alarm" \in Running(q),
             "keepAlive" \in Running(r) => "keepAlive" \in Running(q),
             "alarm" \in Running(q) => Left(r) = Left(q),
             UNCHANGED <<connected, parser, adopting, keepAliveRate, alarm, quiet, falseAlarm>>,
             line' \in Lines, HelloOn(line')
      PROVE  IInv'
  <2>1. /\ queue' = [e \in Ends |-> queue'[e]] /\ \A e \in Ends : IsQueue(queue'[e])
        /\ queue'[p] = r /\ \A e \in Ends : e # p => queue'[e] = queue[e]
    BY <1>3, NewQueue DEF IInv
  <2>2. Types'
    BY <1>1, <1>3, <2>1 DEF IInv, Types
  <2>3. Hello'
    BY <1>3 DEF Hello, HelloOn
  <2>4. \A e : On(e)' <=> On(e)
    BY <1>3 DEF On
  <2>5. EndOk(p)'
    <3>1. Running(r) \subseteq Names
      BY <1>3 DEF IsQueue
    <3> QED BY <1>1, <1>2, <1>3, <2>1, <2>4, <3>1 DEF EndOk, Names
  <2>6. ASSUME NEW e \in Ends, e # p PROVE EndOk(e)'
    BY <1>3, <2>1, <2>4, <2>6, SameEnd DEF IInv, Alarms
  <2> QED BY <1>3, <2>2, <2>3, <2>4, <2>5, <2>6 DEF IInv, Alarms
<1>4. CASE Expired(q) = {}
  <2>1. queue' = [queue EXCEPT ![p] = q]
        /\ UNCHANGED <<connected, parser, adopting, keepAliveRate, alarm, line, quiet, falseAlarm>>
    BY <1>4 DEF hasTimerExpired
  <2>2. line' \in Lines /\ HelloOn(line')
    BY <2>1 DEF IInv, Types, Hello
  <2> HIDE DEF q
  <2> QED BY <1>2, <1>3, <2>1, <2>2
<1>5. CASE Expired(q) # {}
  <2>1. PICK t \in Expired(q) : IF t = "keepAlive" THEN keepAlive(q) ELSE flatline(p)
    BY <1>5 DEF hasTimerExpired
  <2>2. CASE t = "keepAlive"
    <3>1. "keepAlive" \in Running(q)
      BY <2>1, <2>2 DEF Expired, Top
    <3>2. p = "server" /\ "alarm" \in Running(q)
      BY <1>1, <1>2, <3>1 DEF EndOk
    <3> DEFINE r == expire(q, "keepAlive")
               k == Sent(line, "server", <<Msg("keepAlive")>>)
    <3>3. k \in Lines /\ HelloOn(k)
      BY MsgTypes, SentOne, Constants DEF IInv, Types, Hello
    <3>4. IsQueue(r) /\ "alarm" \in Running(r) /\ Left(r) = Left(q)
      <4> HIDE DEF q
      <4> QED BY <1>2, <3>1, <3>2, ExpiredQueue
    <3>5. line' = k /\ queue' = [queue EXCEPT ![p] = r]
          /\ UNCHANGED <<connected, parser, adopting, keepAliveRate, alarm, quiet, falseAlarm>>
      BY <2>1, <2>2, <3>2 DEF keepAlive
    <3> HIDE DEF q, r, k
    <3> QED BY <1>3, <3>1, <3>2, <3>3, <3>4, <3>5
  <2>3. CASE t # "keepAlive"
    <3>1. disconnect(p) /\ falseAlarm' = (falseAlarm \/ ~silent)
      BY <2>1, <2>3 DEF flatline
    <3>2. falseAlarm' \in BOOLEAN
      BY <3>1 DEF IInv, Types
    <3> QED BY <1>1, <3>1, <3>2, DisconnectStep
  <2> QED BY <2>2, <2>3
<1> QED BY <1>4, <1>5

\* Time passes only while no alarm is MaxLag late.
LEMMA TickStep == IInv /\ tick => IInv'
<1> SUFFICES ASSUME IInv, tick PROVE IInv'
  OBVIOUS
<1> USE DEF IInv
<1>1. /\ queue' = [p \in Ends |-> passTime(queue[p])]
      /\ quiet' = [p \in Ends |-> IF Running(queue[p]) = {} THEN 0 ELSE quiet[p] + 1]
      /\ UNCHANGED <<connected, parser, adopting, keepAliveRate, alarm, silent, reloads, falseAlarm>>
      /\ \A p \in Ends : ~MustLook(queue[p], MaxLag)
  BY DEF tick
<1>2. ASSUME NEW p \in Ends
      PROVE  /\ IsQueue(queue'[p]) /\ Running(queue'[p]) = Running(queue[p])
             /\ "alarm" \in Running(queue[p]) => Left(queue'[p]) = Left(queue[p]) - 1
  BY <1>1, PassedQueue DEF Types
<1>3. queue' = [p \in Ends |-> queue'[p]] /\ quiet' \in [Ends -> Nat]
  BY <1>1 DEF Types
<1>4. ASSUME NEW p \in Ends
      PROVE  /\ line'[p] \in Seq(Messages) /\ Len(line'[p]) = Len(line[p])
             /\ \A i \in 1..Len(line[p]) : line'[p][i].kind = line[p][i].kind
  <2> DEFINE s == line[p]
             aged(i) == IF connected[p] THEN [s[i] EXCEPT !.age = @ + 1] ELSE s[i]
  <2>1. s \in Seq(Messages) /\ DOMAIN s = 1..Len(s) /\ Len(s) \in Nat
    BY DEF Types, Lines
  <2>2. line'[p] = [i \in 1..Len(s) |-> aged(i)]
    BY <2>1 DEF tick
  <2>3. ASSUME NEW i \in 1..Len(s) PROVE aged(i) \in Messages /\ aged(i).kind = s[i].kind
    <3>1. s[i] \in Messages
      BY <2>1
    <3>2. CASE connected[p]
      <4>1. s[i].age < MaxDelay
        BY <2>1, <3>2 DEF tick
      <4>2. s[i].age + 1 \in 0 .. MaxDelay
        BY <3>1, <4>1, Constants DEF Messages
      <4> QED BY <3>1, <3>2, <4>2 DEF Messages
    <3>3. CASE ~connected[p]
      BY <3>1, <3>3
    <3> QED BY <3>2, <3>3
  <2> HIDE DEF aged
  <2>4. line'[p] \in Seq(Messages) /\ Len(line'[p]) = Len(s)
    BY <2>1, <2>2, <2>3
  <2>5. \A i \in 1..Len(s) : line'[p][i] = aged(i)
    BY <2>2
  <2> QED BY <2>3, <2>4, <2>5
<1>5. line' \in Lines
  <2>1. DOMAIN line' = Ends /\ line' = [p \in Ends |-> line'[p]]
    BY DEF tick
  <2> QED BY <1>4, <2>1 DEF Lines
<1>6. Hello'
  BY <1>1, <1>4, Constants DEF Hello, HelloOn
<1>7. Types'
  BY <1>1, <1>2, <1>3, <1>5 DEF Types
<1>8. ASSUME NEW p \in Ends PROVE EndOk(p)'
  <2>1. EndOk(p) /\ (On(p)' <=> On(p)) /\ alarm'[p] = alarm[p] /\ alarm[p] \in Int /\ quiet[p] \in Nat
    BY <1>1 DEF Alarms, On, Types
  <2>2. CASE "alarm" \in Running(queue[p])
    <3>1. quiet'[p] = quiet[p] + 1
      BY <1>1, <2>2
    <3>2. ~(queue[p].timers["alarm"].left - queue[p].time <= -MaxLag)
      BY <1>1, <2>2 DEF MustLook
    <3>3. queue[p].timers["alarm"].left \in Int /\ queue[p].time \in Int
      BY <2>2 DEF Types, IsQueue, Timer
    <3>4. Left(queue[p]) > -MaxLag /\ Left(queue[p]) = alarm[p] - quiet[p]
      BY <2>1, <2>2, <3>2, <3>3, Constants DEF Left, EndOk
    <3>5. quiet'[p] <= alarm[p] + MaxLag /\ Left(queue'[p]) = alarm[p] - quiet'[p]
      BY <1>2, <2>1, <2>2, <3>1, <3>4, Constants
    <3> QED BY <1>2, <2>1, <2>2, <3>5 DEF EndOk
  <2>3. CASE "alarm" \notin Running(queue[p])
    BY <1>2, <2>1, <2>3 DEF EndOk
  <2> QED BY <2>2, <2>3
<1> QED BY <1>1, <1>6, <1>7, <1>8 DEF Alarms, On

LEMMA IInvInit == Init => IInv
<1> SUFFICES ASSUME Init PROVE IInv
  OBVIOUS
<1> DEFINE a == KeepAliveRate * KeepAlivesUntilDeath
           r == resetHeartbeatTimer(NoTimers, a)
<1>1. a \in Int /\ a > 0
  BY Constants
<1>2. IsQueue(NoTimers) /\ Running(NoTimers) = {}
  <2>1. Running(NoTimers) = {} /\ NoTimers.time = 0 /\ NoTimers.timers = << >>
    BY DEF NoTimers, Running
  <2>2. << >> \in [{} -> Timer]
    OBVIOUS
  <2> QED BY <2>1, <2>2 DEF IsQueue, NoTimers
<1>3. IsQueue(r) /\ Running(r) = {"alarm"} /\ Left(r) = a
  <2> HIDE DEF a
  <2> QED BY <1>1, <1>2, ResetQueue
<1>4. /\ alarm["client"] = a /\ alarm["server"] = 0 /\ alarm \in [Ends -> Int]
      /\ queue["client"] = r /\ queue["server"] = NoTimers /\ queue = [p \in Ends |-> queue[p]]
  BY <1>1, Constants DEF Init, resetKeepAliveAlarm
<1> HIDE DEF a, r
<1>5. /\ connected \in [Ends -> BOOLEAN] /\ \A p \in Ends : connected[p]
      /\ adopting = FALSE /\ silent = FALSE /\ falseAlarm = FALSE /\ parser = "none"
      /\ keepAliveRate = 0 /\ reloads = 0 /\ quiet = [p \in Ends |-> 0]
  BY DEF Init
<1>6. line["server"] = <<Msg("helloBack")>> /\ line["client"] = << >> /\ line = [p \in Ends |-> line[p]]
  BY Constants DEF Init
<1>7. line \in Lines
  <2>1. <<Msg("helloBack")>> \in Seq(Messages) /\ << >> \in Seq(Messages)
    BY MsgTypes
  <2>2. \A p \in Ends : line[p] \in Seq(Messages)
    BY <1>6, <2>1, Constants
  <2> QED BY <1>6, <2>2 DEF Lines
<1>8. Hello
  <2>1. 1..Len(<<Msg("helloBack")>>) = {1}
    OBVIOUS
  <2> QED BY <1>5, <1>6, <2>1 DEF Hello, HelloOn
<1>9. Types
  <2>1. adopting \in BOOLEAN /\ silent \in BOOLEAN /\ falseAlarm \in BOOLEAN
    BY <1>5
  <2>2. reloads \in 0 .. MaxReloads /\ quiet \in [Ends -> Nat] /\ keepAliveRate \in Int
    BY <1>5, Constants
  <2>3. \A p \in Ends : IsQueue(queue[p])
    BY <1>2, <1>3, <1>4, Constants
  <2> QED BY <1>4, <1>5, <1>7, <2>1, <2>2, <2>3 DEF Types
<1>10. EndOk("server")
  BY <1>2, <1>4, <1>5 DEF EndOk, On
<1>11. EndOk("client")
  <2>1. On("client") /\ quiet["client"] = 0
    BY <1>5, Constants DEF On
  <2> QED BY <1>1, <1>3, <1>4, <2>1, Constants DEF EndOk
<1>12. Alarms
  BY <1>4, <1>5, <1>10, <1>11, Constants DEF Alarms
<1> QED BY <1>8, <1>9, <1>12 DEF IInv

LEMMA IInvStep == IInv /\ [Next]_vars => IInv'
<1> SUFFICES ASSUME IInv, [Next]_vars PROVE IInv'
  OBVIOUS
<1>t. line \in Lines /\ Hello /\ silent \in BOOLEAN /\ falseAlarm \in BOOLEAN /\ reloads \in 0 .. MaxReloads
  BY DEF IInv, Types
<1>1. CASE adoptClient
  <2>1. PICK option \in Rates \cup {NoOption} : sendOptions(option)
    BY <1>1 DEF adoptClient
  <2>2. On("server")
    BY <1>1 DEF adoptClient, IInv, Alarms
  <2> QED BY <1>1, <1>t, <2>1, <2>2, OptionsStep DEF adoptClient
<1>2. CASE setConfig
  <2>1. PICK option \in Rates \cup {NoOption} : sendOptions(option)
    BY <1>2 DEF setConfig
  <2>2. On("server") /\ adopting' = FALSE
    BY <1>2 DEF setConfig, On, IInv, Types
  <2>3. reloads' \in 0 .. MaxReloads
    BY <1>2, <1>t, Constants DEF setConfig
  <2> QED BY <1>2, <2>1, <2>2, <2>3, OptionsStep DEF setConfig
<1>3. CASE serverReads
  <2>1. connected["server"] /\ line["server"] # << >> /\ ~adopting /\ "server" \in Ends
        /\ UNCHANGED <<silent, reloads, falseAlarm>>
    BY <1>3, Constants DEF serverReads
  <2>2. \/ Head(line["server"]).kind = "helloBack" /\ newProxy
        \/ disconnect("server")
        \/ parser = "ready" /\ clientMessage
        \/ parser # "ready" /\ handshakeInfo
    BY <1>3 DEF serverReads
  <2>3. CASE Head(line["server"]).kind = "helloBack" /\ newProxy
    BY <2>1, <2>3, ProxyStep
  <2>4. CASE disconnect("server")
    BY <1>t, <2>1, <2>4, DisconnectStep
  <2>5. CASE parser = "ready" /\ clientMessage
    <3>1. handshakeInfo => adopting'
      BY DEF handshakeInfo
    <3>2. ~handshakeInfo
      BY <2>1, <2>5, <3>1 DEF clientMessage
    <3> QED BY <2>1, <2>5, <3>2, MessageStep
  <2>6. CASE parser # "ready" /\ handshakeInfo
    <3>1. ~clientMessage
      BY <2>6 DEF clientMessage, handshakeInfo
    <3> QED BY <2>1, <2>6, <3>1, MessageStep
  <2> QED BY <2>2, <2>3, <2>4, <2>5, <2>6
<1>4. CASE clientReads
  BY <1>4, ClientStep
<1>5. CASE clientWrites
  <2> DEFINE k == Sent(line, "client", <<Msg("info")>>)
  <2>1. k \in Lines /\ HelloOn(k)
    BY <1>t, MsgTypes, SentOne, Constants DEF Hello
  <2>2. line' = k /\ UNCHANGED <<queue, connected, parser, adopting, keepAliveRate, alarm,
                                 silent, reloads, quiet, falseAlarm>>
    BY <1>5 DEF clientWrites
  <2> HIDE DEF k
  <2>3. Hello'
    BY <2>1, <2>2 DEF Hello, HelloOn
  <2> QED BY <1>t, <2>1, <2>2, <2>3, LineStep
<1>6. CASE \E p \in Ends : hasTimerExpired(p)
  BY <1>6, TimerStep
<1>7. CASE tick
  BY <1>7, TickStep
<1>8. CASE goSilent
  <2>1. silent' = TRUE /\ line' = [p \in Ends |-> << >>]
        /\ UNCHANGED <<queue, connected, parser, adopting, keepAliveRate, alarm, reloads, quiet, falseAlarm>>
    BY <1>8 DEF goSilent
  <2>2. line' \in Lines /\ line'["server"] = << >> /\ silent' \in BOOLEAN
    BY <2>1, Constants DEF Lines
  <2>3. Hello'
    BY <2>2 DEF Hello, HelloOn
  <2> QED BY <2>1, <2>2, <2>3, LineStep
<1>9. CASE \E p \in Ends : hangUp(p)
  BY <1>9, <1>t, DisconnectStep DEF hangUp
<1>10. CASE UNCHANGED vars
  <2>1. Hello'
    BY <1>10, <1>t DEF vars, Hello, HelloOn
  <2> QED BY <1>10, <1>t, <2>1, LineStep DEF vars
<1> QED BY <1>1, <1>2, <1>3, <1>4, <1>5, <1>6, <1>7, <1>8, <1>9, <1>10 DEF Next

LEMMA Inductive == Spec => []IInv
  BY IInvInit, IInvStep, PTL DEF Spec

\* An end whose handshake is over and whose heartbeat is on has its alarm running,
\* and handle_flatline() or handle_keep_alive_alarm() ends a connection no later
\* than the alarm's length and the lag after the last message that restarts it:
\* for any keep-alive rates, and however reloads change them.
THEOREM DeadIsDetected == Spec => []DeadDetected
<1>1. IInv => DeadDetected
  <2> SUFFICES ASSUME IInv PROVE DeadDetected
    OBVIOUS
  <2>1. TypeOK
    <3>1. ASSUME NEW p \in Ends
          PROVE  /\ queue[p].time \in Nat /\ Running(queue[p]) \subseteq {"keepAlive", "alarm"}
                 /\ \A t \in Running(queue[p]) : queue[p].timers[t].left \in Int
      BY DEF IInv, Types, IsQueue, Timer, Names
    <3> QED BY <3>1 DEF IInv, Types, TypeOK, Lines
  <2>2. ASSUME NEW p \in Ends
        PROVE  /\ connected[p] /\ alarm[p] > 0 /\ (p = "server" => parser = "ready")
                    => "alarm" \in Running(queue[p])
               /\ Running(queue[p]) # {} => quiet[p] <= alarm[p] + MaxLag
    <3>1. Running(queue[p]) \subseteq {"keepAlive", "alarm"} /\ EndOk(p)
      BY DEF IInv, Types, IsQueue, Names, Alarms
    <3> QED BY <3>1 DEF EndOk, On
  <2> QED BY <2>1, <2>2 DEF DeadDetected
<1> QED BY <1>1, Inductive, PTL

------------------------------------------------------------------------------
(* No end is given up while the line is not silent: on its way to an end   *)
(* whose alarm runs there is always something that will restart the alarm  *)
(* in time, at one of several places.                                      *)

KLeft(q) == q.timers["keepAlive"].left - q.time

\* One of the messages M is on its way in s and is read within n.
Within(s, M, n) == \E i \in 1..Len(s) : s[i] \in M /\ n + s[i].age > MaxDelay

\* Whether a message is in M does not depend on its age.
Ageless(M) ==
    /\ M \subseteq Messages
    /\ \A m \in M, k \in Messages : k.kind = m.kind /\ k.rate = m.rate => k \in M

Kinds(K) == {m \in Messages : m.kind \in K}

\* What restarts the client's alarm, or ends the connection.
Restarting ==
    {m \in Messages : \/ m.kind \in {"keepAlive", "resetOptions", "close"}
                      \/ m.kind = "setOptions" /\ m.rate # NoOption}

\* The keep-alive timer of q runs and is never more than MaxLag late.
Beats(q, rate) ==
    /\ "keepAlive" \in Running(q)
    /\ q.timers["keepAlive"].timeout = rate /\ ~q.timers["keepAlive"].oneShot
    /\ -MaxLag <= KLeft(q) /\ KLeft(q) <= rate

\* The lengths of the alarms are those that RateAssumption is about.
Lengths ==
    /\ "alarm" \in Running(queue["server"]) => Beats(queue["server"], keepAliveRate)
    /\ keepAliveRate > 0 => keepAliveRate \in Rates \cup {KeepAliveRate}
    /\ \E r \in Rates \cup {KeepAliveRate} : alarm["client"] = KeepAlivesUntilDeath * r

\* The rate that the server uses for an option.
RateOf(option) == IF option = NoOption THEN KeepAliveRate ELSE IF option = 0 THEN -1 ELSE option

\* An end that closes its connection tells the other one, whose line is s.
Told(up, other, s) == ~up /\ other => Within(s, Kinds({"close"}), MaxDelay + 1)

\* Options are under way to the client in pairs, the first of which it may have
\* read already, and the last pair tells the rate that the server uses.
Pairs(s, rate, a) ==
    /\ \A i \in 1..Len(s) : s[i].kind = "resetOptions" => i + 1 \in 1..Len(s) /\ s[i + 1].kind = "setOptions"
    /\ \A i \in 1..Len(s) : s[i].kind = "setOptions" =>
          /\ i > 1 => s[i - 1].kind = "resetOptions"
          /\ i = 1 => a = KeepAlivesUntilDeath * KeepAliveRate
          /\ RateOf(s[i].rate) = rate \/ \E j \in 1..Len(s) : j > i /\ s[j].kind = "resetOptions"

\* The client's alarm a, once it has read the options under way, is the server's,
\* and before it is adopted none are.
Agreed(s, adopted, rate, a) ==
    /\ Pairs(s, rate, a)
    /\ adopted /\ (\A i \in 1..Len(s) : s[i].kind # "setOptions") =>
          a = IF rate > 0 THEN KeepAlivesUntilDeath * rate ELSE 0
    /\ ~adopted => \A i \in 1..Len(s) : s[i].kind \notin {"keepAlive", "resetOptions", "setOptions"}

\* With timers q, the messages s under way to the server and c to the client: the
\* server hears of the client (which is there if up) before its alarm goes off.
ServerHears(q, s, c, up) ==
    "alarm" \in Running(q) =>
       \/ Within(s, Messages, Left(q))
       \/ up /\ Within(c, Kinds({"keepAlive"}), Left(q) - MaxDelay)
       \/ up /\ Left(q) > KLeft(q) + MaxLag + 2 * MaxDelay

\* The same for the client, whose timers are q; those of the server are r.
ClientHears(q, r, s, c, up, stage, wait) ==
    "alarm" \in Running(q) =>
       \/ Within(c, Restarting, Left(q))
       \/ up /\ \/ stage = "none" /\ Within(s, Messages, Left(q) - 3 * MaxDelay)
                \/ stage = "handshake" /\ Within(c, Kinds({"queryInfo"}), Left(q) - 2 * MaxDelay)
                \/ stage = "handshake" /\ Within(s, Messages, Left(q) - MaxDelay)
                \/ wait /\ Left(q) > MaxDelay
                \/ "alarm" \in Running(r) /\ Left(q) > KLeft(r) + MaxLag + MaxDelay

Adopted == parser = "ready" /\ ~adopting

Live ==
    ~silent =>
       /\ Told(connected["client"], connected["server"], line["server"])
       /\ Told(connected["server"], connected["client"], line["client"])
       /\ ServerHears(queue["server"], line["server"], line["client"], connected["client"])
       /\ ClientHears(queue["client"], queue["server"], line["server"], line["client"],
                      connected["server"], parser, adopting)
       /\ connected["client"] /\ connected["server"] =>
             Agreed(line["client"], Adopted, keepAliveRate, alarm["client"])

LInv == IInv /\ Lengths /\ ~falseAlarm /\ Live

------------------------------------------------------------------------------
(* What is under way.                                                      *)

LEMMA WithinTypes ==
    ASSUME NEW s, NEW i, s \in Seq(Messages), i \in 1..Len(s)
    PROVE  s[i] \in Messages /\ s[i].age \in 0 .. MaxDelay /\ s[i].age \in Int
<1>1. s[i] \in Messages
  OBVIOUS
<1> QED BY <1>1, Constants DEF Messages

LEMMA WithinPositive ==
    ASSUME NEW s, NEW M, NEW n, s \in Seq(Messages), n \in Int, Within(s, M, n)
    PROVE  n > 0
<1>1. PICK i \in 1..Len(s) : n + s[i].age > MaxDelay
  BY DEF Within
<1>2. s[i].age \in 0 .. MaxDelay
  BY WithinTypes
<1> QED BY <1>1, <1>2, Constants

LEMMA WithinLater ==
    ASSUME NEW s, NEW M, NEW n, NEW k, s \in Seq(Messages), n \in Int, k \in Int, n <= k, Within(s, M, n)
    PROVE  Within(s, M, k)
<1>1. PICK i \in 1..Len(s) : s[i] \in M /\ n + s[i].age > MaxDelay
  BY DEF Within
<1>2. s[i].age \in Int
  BY WithinTypes
<1>3. k + s[i].age > MaxDelay
  BY <1>1, <1>2, Constants
<1> QED BY <1>1, <1>3 DEF Within

LEMMA WithinKept ==
    ASSUME NEW s, NEW t, NEW M, NEW n, s \in Seq(Messages), t \in Seq(Messages), Within(s, M, n)
    PROVE  Within(s \o t, M, n)
<1>1. PICK i \in 1..Len(s) : s[i] \in M /\ n + s[i].age > MaxDelay
  BY DEF Within
<1>2. i \in 1..Len(s \o t) /\ (s \o t)[i] = s[i]
  OBVIOUS
<1> QED BY <1>1, <1>2 DEF Within

LEMMA WithinNew ==
    ASSUME NEW s, NEW t, NEW M, NEW n, s \in Seq(Messages), t \in Seq(Messages), t # <<>>,
           t[1] \in M, t[1].age = 0, n \in Int, n > MaxDelay
    PROVE  Within(s \o t, M, n)
<1>1. Len(s) + 1 \in 1..Len(s \o t) /\ (s \o t)[Len(s) + 1] = t[1]
  OBVIOUS
<1>2. n + t[1].age > MaxDelay
  BY Constants
<1> QED BY <1>1, <1>2 DEF Within

LEMMA WithinRead ==
    ASSUME NEW s, NEW M, NEW n, s \in Seq(Messages), s # <<>>, Within(s, M, n), Head(s) \notin M
    PROVE  Within(Tail(s), M, n)
<1>1. PICK i \in 1..Len(s) : s[i] \in M /\ n + s[i].age > MaxDelay
  BY DEF Within
<1>2. i # 1
  BY <1>1
<1>3. i - 1 \in 1..Len(Tail(s)) /\ Tail(s)[i - 1] = s[i]
  BY <1>2
<1> QED BY <1>1, <1>3 DEF Within

LEMMA WithinAged ==
    ASSUME NEW s, NEW t, NEW M, NEW n, s \in Seq(Messages), t \in Seq(Messages), n \in Int, Ageless(M),
           Len(t) = Len(s), Within(s, M, n),
           \A i \in 1..Len(s) : t[i].kind = s[i].kind /\ t[i].rate = s[i].rate /\ t[i].age = s[i].age + 1
    PROVE  Within(t, M, n - 1)
<1>1. PICK i \in 1..Len(s) : s[i] \in M /\ n + s[i].age > MaxDelay
  BY DEF Within
<1>2. s[i].age \in Int /\ t[i] \in Messages /\ i \in 1..Len(t)
  BY WithinTypes
<1>3. t[i] \in M
  BY <1>1, <1>2 DEF Ageless
<1>4. (n - 1) + t[i].age > MaxDelay
  BY <1>1, <1>2, Constants
<1> QED BY <1>2, <1>3, <1>4 DEF Within

LEMMA AgelessSets ==
    /\ Ageless(Messages) /\ Ageless(Restarting) /\ \A K : Ageless(Kinds(K))
    /\ \A k \in {"queryInfo", "info", "keepAlive", "resetOptions", "close"} :
          /\ Msg(k) \in Messages /\ Msg(k).age = 0 /\ Msg(k).kind = k
          /\ Msg(k) \in Kinds({k}) /\ Msg(k) \in Messages
          /\ k \in {"keepAlive", "resetOptions", "close"} => Msg(k) \in Restarting
    /\ Kinds({"close"}) \subseteq Restarting /\ Kinds({"keepAlive"}) \subseteq Restarting
    /\ Restarting \subseteq Messages /\ \A K : Kinds(K) \subseteq Messages
<1>1. \A k \in {"queryInfo", "info", "keepAlive", "resetOptions", "close"} :
         Msg(k) \in Messages /\ Msg(k).age = 0 /\ Msg(k).kind = k
  BY MsgTypes DEF Msg
<1>2. Ageless(Messages) /\ Ageless(Restarting) /\ \A K : Ageless(Kinds(K))
  BY DEF Ageless, Restarting, Kinds
<1> QED BY <1>1, <1>2 DEF Restarting, Kinds

\* A subset of what is waited for will do.
LEMMA WithinMore ==
    ASSUME NEW s, NEW M, NEW N, NEW n, Within(s, M, n), M \subseteq N
    PROVE  Within(s, N, n)
  BY DEF Within

\* What is sent while the line is not silent.
LEMMA SentLive ==
    ASSUME NEW l, NEW t, l \in Lines, t \in Seq(Messages), ~silent
    PROVE  /\ Sent(l, "server", t)["client"] = l["client"] \o t
           /\ Sent(l, "server", t)["server"] = l["server"]
           /\ Sent(l, "client", t)["server"] = l["server"] \o t
           /\ Sent(l, "client", t)["client"] = l["client"]
           /\ Sent(l, "server", t) \in Lines /\ Sent(l, "client", t) \in Lines
<1>1. l["server"] \in Seq(Messages) /\ l["client"] \in Seq(Messages)
  BY Constants DEF Lines
<1>2. l["server"] \o t \in Seq(Messages) /\ l["client"] \o t \in Seq(Messages)
  BY <1>1
<1>3. /\ Sent(l, "server", t) = [l EXCEPT !["client"] = l["client"] \o t]
      /\ Sent(l, "client", t) = [l EXCEPT !["server"] = l["server"] \o t]
  BY Constants DEF Sent
<1> QED BY <1>2, <1>3, Constants DEF Lines

------------------------------------------------------------------------------
(* The keep-alive timer.                                                   *)

LEMMA BeatTypes ==
    ASSUME NEW q, NEW rate, IsQueue(q), Beats(q, rate)
    PROVE  /\ q.time \in Nat /\ q.timers["keepAlive"] \in Timer /\ q.timers["keepAlive"].left \in Int
           /\ KLeft(q) \in Int /\ q.timers \in [Running(q) -> Timer]
<1>1. q.time \in Nat /\ q.timers["keepAlive"] \in Timer /\ q.timers \in [Running(q) -> Timer]
  BY DEF IsQueue, Beats
<1>2. q.timers["keepAlive"].left \in Int
  BY <1>1 DEF Timer
<1> QED BY <1>1, <1>2 DEF KLeft

LEMMA LeftTypes ==
    ASSUME NEW q, IsQueue(q), "alarm" \in Running(q)
    PROVE  Left(q) \in Int /\ q.timers["alarm"].left \in Int /\ q.time \in Nat
<1>1. q.time \in Nat /\ q.timers["alarm"] \in Timer
  BY DEF IsQueue
<1>2. q.timers["alarm"].left \in Int
  BY <1>1 DEF Timer
<1> QED BY <1>1, <1>2 DEF Left

LEMMA SameBeats ==
    ASSUME NEW q, NEW r, NEW rate, Beats(q, rate), "keepAlive" \in Running(r),
           r.time = q.time, r.timers["keepAlive"] = q.timers["keepAlive"]
    PROVE  Beats(r, rate) /\ KLeft(r) = KLeft(q)
  BY DEF Beats, KLeft

LEMMA BeatsReset ==
    ASSUME NEW q, NEW a, NEW rate, IsQueue(q), a \in Int, Beats(q, rate)
    PROVE  LET r == resetHeartbeatTimer(q, a)
           IN  Beats(r, rate) /\ KLeft(r) = KLeft(q)
<1> DEFINE q1 == deleteTimer(q, "alarm")
           r == resetHeartbeatTimer(q, a)
           T == [u \in Running(q1) \cup {"alarm"} |->
                   IF u = "alarm" THEN [left |-> a + q1.time, timeout |-> a, oneShot |-> TRUE]
                                  ELSE q1.timers[u]]
<1>1. /\ IsQueue(q1) /\ q1.time = q.time /\ "keepAlive" \in Running(q1)
      /\ q1.timers["keepAlive"] = q.timers["keepAlive"]
  BY DeletedQueue DEF Beats
<1>2. r = IF a > 0 THEN [q1 EXCEPT !.timers = T] ELSE q1
  BY DEF resetHeartbeatTimer, newOneShotTimer, Started
<1>3. T["keepAlive"] = q1.timers["keepAlive"] /\ DOMAIN T = Running(q1) \cup {"alarm"}
  BY <1>1
<1>4. q1 = [time |-> q1.time, timers |-> q1.timers]
  BY <1>1 DEF IsQueue
<1> HIDE DEF q1, T, r
<1>5. r.time = q1.time /\ "keepAlive" \in Running(r) /\ r.timers["keepAlive"] = q1.timers["keepAlive"]
  <2>1. CASE a > 0
    <3>1. r = [time |-> q1.time, timers |-> T]
      BY <1>2, <1>4, <2>1
    <3>2. r.time = q1.time /\ r.timers = T
      BY <3>1
    <3> QED BY <1>1, <1>3, <3>2 DEF Running
  <2>2. CASE ~(a > 0)
    BY <1>1, <1>2, <2>2
  <2> QED BY <2>1, <2>2
<1> QED BY <1>1, <1>5, SameBeats DEF r

LEMMA BeatsAdded ==
    ASSUME NEW q, NEW a, NEW rate, IsQueue(q), a \in Int, rate \in Int, rate > 0
    PROVE  LET r == addHeartbeatTimer(q, rate, a)
           IN  Beats(r, rate) /\ KLeft(r) = rate
<1> DEFINE k == [left |-> rate + q.time, timeout |-> rate, oneShot |-> FALSE]
           S == [u \in Running(q) \cup {"keepAlive"} |-> IF u = "keepAlive" THEN k ELSE q.timers[u]]
           q1 == newTimer(q, "keepAlive", rate)
           T == [u \in Running(q1) \cup {"alarm"} |->
                   IF u = "alarm" THEN [left |-> a + q1.time, timeout |-> a, oneShot |-> TRUE]
                                  ELSE q1.timers[u]]
           r == addHeartbeatTimer(q, rate, a)
<1>1. q = [time |-> q.time, timers |-> q.timers] /\ q.time \in Nat
  BY DEF IsQueue
<1>2. q1 = [q EXCEPT !.timers = S] /\ S["keepAlive"] = k /\ "keepAlive" \in DOMAIN S
  BY DEF newTimer, Started
<1>3. k.left = rate + q.time /\ k.timeout = rate /\ ~k.oneShot
  OBVIOUS
<1>4. r = IF a > 0 THEN [q1 EXCEPT !.timers = T] ELSE q1
  BY DEF addHeartbeatTimer, newOneShotTimer, Started
<1>5. ("keepAlive" \in Running(q1) => T["keepAlive"] = q1.timers["keepAlive"])
      /\ DOMAIN T = Running(q1) \cup {"alarm"}
  OBVIOUS
<1> HIDE DEF k, S, q1, T, r
<1>6. q1 = [time |-> q.time, timers |-> S]
  BY <1>1, <1>2
<1>7. q1.time = q.time /\ q1.timers = S /\ q1.timers["keepAlive"] = k /\ "keepAlive" \in Running(q1)
  BY <1>2, <1>6 DEF Running
<1>8. r.time = q.time /\ r.timers["keepAlive"] = k /\ "keepAlive" \in Running(r)
  <2>1. CASE a > 0
    <3>1. r = [time |-> q.time, timers |-> T]
      BY <1>4, <1>6, <2>1
    <3>2. r.time = q.time /\ r.timers = T
      BY <3>1
    <3> QED BY <1>5, <1>7, <3>2 DEF Running
  <2>2. CASE ~(a > 0)
    BY <1>4, <1>7, <2>2
  <2> QED BY <2>1, <2>2
<1>9. KLeft(r) = rate
  BY <1>1, <1>3, <1>8 DEF KLeft
<1>10. Beats(r, rate)
  BY <1>3, <1>8, <1>9, Constants DEF Beats
<1> QED BY <1>9, <1>10 DEF r

LEMMA BeatsCounted ==
    ASSUME NEW q, NEW rate, IsQueue(q), Beats(q, rate)
    PROVE  LET r == countdown(q)
           IN  Beats(r, rate) /\ KLeft(r) = KLeft(q) /\ r.time = 0
<1> DEFINE T == [u \in Running(q) |-> [q.timers[u] EXCEPT !.left = @ - q.time]]
           r == countdown(q)
           k == q.timers["keepAlive"]
<1>1. q.time \in Nat /\ k \in Timer /\ k.left \in Int /\ "keepAlive" \in Running(q)
  BY BeatTypes DEF Beats
<1>2. r = [time |-> 0, timers |-> T]
  BY <1>1 DEF countdown
<1>3. T["keepAlive"] = [k EXCEPT !.left = k.left - q.time] /\ DOMAIN T = Running(q)
  BY <1>1
<1> HIDE DEF T, r
<1>4. r.time = 0 /\ r.timers = T /\ "keepAlive" \in Running(r)
  BY <1>1, <1>2, <1>3 DEF Running
<1>5. T["keepAlive"].left = k.left - q.time /\ T["keepAlive"].timeout = k.timeout
      /\ T["keepAlive"].oneShot = k.oneShot
  BY <1>1, <1>3 DEF Timer
<1>6. KLeft(r) = KLeft(q)
  BY <1>1, <1>4, <1>5 DEF KLeft
<1>7. Beats(r, rate)
  BY <1>4, <1>5, <1>6 DEF Beats
<1> QED BY <1>4, <1>6, <1>7 DEF r

LEMMA BeatsExpired ==
    ASSUME NEW q, NEW rate, IsQueue(q), Beats(q, rate), q.time = 0, rate \in Int, rate > 0
    PROVE  LET r == expire(q, "keepAlive")
           IN  Beats(r, rate) /\ KLeft(r) = rate
<1> DEFINE k == q.timers["keepAlive"]
           T == [q.timers EXCEPT !["keepAlive"].left = q.timers["keepAlive"].timeout]
           r == expire(q, "keepAlive")
<1>1. k \in Timer /\ q.timers \in [Running(q) -> Timer] /\ "keepAlive" \in Running(q)
      /\ k.timeout = rate /\ ~k.oneShot /\ q = [time |-> q.time, timers |-> q.timers]
  BY BeatTypes DEF Beats, IsQueue
<1>2. r = [q EXCEPT !.timers = T]
  BY <1>1 DEF expire
<1>3. T["keepAlive"] = [k EXCEPT !.left = k.timeout] /\ DOMAIN T = Running(q)
  BY <1>1
<1> HIDE DEF T, r
<1>4. r = [time |-> q.time, timers |-> T]
  BY <1>1, <1>2
<1>5. r.time = 0 /\ r.timers = T /\ "keepAlive" \in Running(r)
  BY <1>1, <1>3, <1>4 DEF Running
<1>6. T["keepAlive"].left = rate /\ T["keepAlive"].timeout = rate /\ T["keepAlive"].oneShot = k.oneShot
  BY <1>1, <1>3 DEF Timer
<1>7. KLeft(r) = rate
  BY <1>5, <1>6 DEF KLeft
<1>8. Beats(r, rate)
  BY <1>1, <1>5, <1>6, <1>7, Constants DEF Beats
<1> QED BY <1>7, <1>8 DEF r

LEMMA BeatsPassed ==
    ASSUME NEW q, NEW rate, IsQueue(q), Beats(q, rate), rate \in Int, ~MustLook(q, MaxLag)
    PROVE  LET r == passTime(q)
           IN  Beats(r, rate) /\ KLeft(r) = KLeft(q) - 1
<1> DEFINE r == passTime(q)
<1>1. q.time \in Nat /\ q.timers["keepAlive"].left \in Int /\ KLeft(q) \in Int
      /\ "keepAlive" \in Running(q) /\ q = [time |-> q.time, timers |-> q.timers]
  BY BeatTypes DEF Beats, IsQueue
<1>2. r = [q EXCEPT !.time = q.time + 1]
  BY <1>1 DEF passTime
<1> HIDE DEF r
<1>3. r = [time |-> q.time + 1, timers |-> q.timers]
  BY <1>1, <1>2
<1>4. r.time = q.time + 1 /\ r.timers = q.timers /\ Running(r) = Running(q)
  BY <1>3 DEF Running
<1>5. KLeft(r) = KLeft(q) - 1
  BY <1>1, <1>4 DEF KLeft
<1>6. ~(q.timers["keepAlive"].left - q.time <= -MaxLag)
  BY <1>1 DEF MustLook
<1>7. KLeft(q) > -MaxLag /\ KLeft(q) <= rate
  BY <1>1, <1>6, Constants DEF KLeft, Beats
<1>8. -MaxLag <= KLeft(r) /\ KLeft(r) <= rate
  BY <1>1, <1>5, <1>7, Constants
<1>9. Beats(r, rate)
  BY <1>1, <1>4, <1>8 DEF Beats
<1> QED BY <1>5, <1>9 DEF r

------------------------------------------------------------------------------
(* Options under way.                                                      *)

OptionKinds == {"resetOptions", "setOptions"}

LEMMA AgreedSent ==
    ASSUME NEW s, NEW m, NEW adopted, NEW rate, NEW a,
           s \in Seq(Messages), m \in Messages, Agreed(s, adopted, rate, a),
           m.kind \notin OptionKinds, m.kind = "keepAlive" => adopted
    PROVE  Agreed(s \o <<m>>, adopted, rate, a)
<1> DEFINE t == s \o <<m>>
<1>1. /\ t \in Seq(Messages) /\ Len(t) = Len(s) + 1 /\ t[Len(s) + 1] = m /\ Len(s) \in Nat
      /\ \A i \in 1..Len(s) : t[i] = s[i] /\ i \in 1..Len(t)
  OBVIOUS
<1> HIDE DEF t
<1>2. \A i \in 1..Len(t) : t[i].kind \in OptionKinds => i \in 1..Len(s)
  BY <1>1
<1>3. Pairs(t, rate, a)
  <2>1. ASSUME NEW i \in 1..Len(t), t[i].kind = "resetOptions"
        PROVE  i + 1 \in 1..Len(t) /\ t[i + 1].kind = "setOptions"
    <3>1. i \in 1..Len(s)
      BY <1>2, <2>1 DEF OptionKinds
    <3>2. s[i].kind = "resetOptions"
      BY <1>1, <2>1, <3>1
    <3>3. i + 1 \in 1..Len(s) /\ s[i + 1].kind = "setOptions"
      BY <3>1, <3>2 DEF Agreed, Pairs
    <3> QED BY <1>1, <3>3
  <2>2. ASSUME NEW i \in 1..Len(t), t[i].kind = "setOptions"
        PROVE  /\ i > 1 => t[i - 1].kind = "resetOptions"
               /\ i = 1 => a = KeepAlivesUntilDeath * KeepAliveRate
               /\ RateOf(t[i].rate) = rate \/ \E j \in 1..Len(t) : j > i /\ t[j].kind = "resetOptions"
    <3>1. i \in 1..Len(s) /\ t[i] = s[i] /\ (i > 1 => i - 1 \in 1..Len(s))
      BY <1>1, <1>2, <2>2 DEF OptionKinds
    <3>2. /\ i > 1 => s[i - 1].kind = "resetOptions"
          /\ i = 1 => a = KeepAlivesUntilDeath * KeepAliveRate
          /\ RateOf(s[i].rate) = rate \/ \E j \in 1..Len(s) : j > i /\ s[j].kind = "resetOptions"
      BY <2>2, <3>1 DEF Agreed, Pairs
    <3>3. i > 1 => t[i - 1].kind = "resetOptions"
      BY <1>1, <3>1, <3>2
    <3>4. RateOf(t[i].rate) = rate \/ \E j \in 1..Len(t) : j > i /\ t[j].kind = "resetOptions"
      BY <1>1, <3>1, <3>2
    <3> QED BY <3>2, <3>3, <3>4
  <2> QED BY <2>1, <2>2 DEF Pairs
<1>4. adopted /\ (\A i \in 1..Len(t) : t[i].kind # "setOptions") =>
         a = IF rate > 0 THEN KeepAlivesUntilDeath * rate ELSE 0
  <2>1. ASSUME adopted, \A i \in 1..Len(t) : t[i].kind # "setOptions"
        PROVE  a = IF rate > 0 THEN KeepAlivesUntilDeath * rate ELSE 0
    <3>1. \A i \in 1..Len(s) : s[i].kind # "setOptions"
      BY <1>1, <2>1
    <3> QED BY <2>1, <3>1 DEF Agreed
  <2> QED BY <2>1
<1>5. ~adopted => \A i \in 1..Len(t) : t[i].kind \notin {"keepAlive", "resetOptions", "setOptions"}
  <2>1. ASSUME ~adopted, NEW i \in 1..Len(t) PROVE t[i].kind \notin {"keepAlive", "resetOptions", "setOptions"}
    <3>1. CASE i \in 1..Len(s)
      BY <1>1, <2>1, <3>1 DEF Agreed
    <3>2. CASE i \notin 1..Len(s)
      <4>1. i = Len(s) + 1
        BY <1>1, <3>2
      <4> QED BY <1>1, <2>1, <4>1 DEF OptionKinds
    <3> QED BY <3>1, <3>2
  <2> QED BY <2>1
<1> QED BY <1>3, <1>4, <1>5 DEF Agreed, t

LEMMA Joined ==
    ASSUME NEW s, NEW t, s \in Seq(Messages), t \in Seq(Messages)
    PROVE  /\ s \o t \in Seq(Messages) /\ Len(s \o t) = Len(s) + Len(t) /\ Len(s) \in Nat /\ Len(t) \in Nat
           /\ \A i \in 1..Len(s) : (s \o t)[i] = s[i]
           /\ \A i \in 1..Len(t) : (s \o t)[Len(s) + i] = t[i]
  OBVIOUS

LEMMA AgreedOptions ==
    ASSUME NEW s, NEW option, NEW adopted, NEW old, NEW rate, NEW a,
           s \in Seq(Messages), option \in Rates \cup {NoOption}, rate = RateOf(option),
           Agreed(s, adopted, old, a)
    PROVE  Agreed(s \o <<Msg("resetOptions"), SetOptions(option)>>, TRUE, rate, a)
<1> DEFINE two == <<Msg("resetOptions"), SetOptions(option)>>
           t == s \o two
<1>1. /\ two \in Seq(Messages) /\ two[1].kind = "resetOptions" /\ two[2].kind = "setOptions"
      /\ two[2].rate = option /\ Len(two) = 2
  BY MsgTypes DEF Msg, SetOptions
<1> HIDE DEF two
<1>2. /\ t \in Seq(Messages) /\ Len(t) = Len(s) + 2 /\ Len(s) \in Nat
      /\ t[Len(s) + 1] = two[1] /\ t[Len(s) + 2] = two[2]
      /\ \A i \in 1..Len(s) : t[i] = s[i] /\ i \in 1..Len(t)
  <2>1. /\ t \in Seq(Messages) /\ Len(t) = Len(s) + Len(two) /\ Len(s) \in Nat
        /\ \A i \in 1..Len(s) : t[i] = s[i]
        /\ \A i \in 1..Len(two) : t[Len(s) + i] = two[i]
    BY <1>1, Joined
  <2> HIDE DEF t
  <2>2. 1 \in 1..Len(two) /\ 2 \in 1..Len(two)
    BY <1>1
  <2>3. \A i \in 1..Len(s) : i \in 1..Len(t)
    BY <1>1, <2>1
  <2> QED BY <1>1, <2>1, <2>2, <2>3
<1> HIDE DEF t
<1>3. \A i \in 1..Len(t) : i \in 1..Len(s) \/ i = Len(s) + 1 \/ i = Len(s) + 2
  BY <1>2
<1>4. Len(s) + 1 \in 1..Len(t) /\ Len(s) + 2 \in 1..Len(t)
  BY <1>2
<1>5. Pairs(t, rate, a)
  <2>1. ASSUME NEW i \in 1..Len(t), t[i].kind = "resetOptions"
        PROVE  i + 1 \in 1..Len(t) /\ t[i + 1].kind = "setOptions"
    <3>1. CASE i \in 1..Len(s)
      <4>1. i + 1 \in 1..Len(s) /\ s[i + 1].kind = "setOptions"
        BY <1>2, <2>1, <3>1 DEF Agreed, Pairs
      <4> QED BY <1>2, <4>1
    <3>2. CASE i = Len(s) + 1
      BY <1>1, <1>2, <1>4, <3>2
    <3>3. CASE i = Len(s) + 2
      BY <1>1, <1>2, <2>1, <3>3
    <3> QED BY <1>3, <3>1, <3>2, <3>3
  <2>2. ASSUME NEW i \in 1..Len(t), t[i].kind = "setOptions"
        PROVE  /\ i > 1 => t[i - 1].kind = "resetOptions"
               /\ i = 1 => a = KeepAlivesUntilDeath * KeepAliveRate
               /\ RateOf(t[i].rate) = rate \/ \E j \in 1..Len(t) : j > i /\ t[j].kind = "resetOptions"
    <3>1. CASE i \in 1..Len(s)
      <4>1. t[i] = s[i] /\ (i > 1 => i - 1 \in 1..Len(s))
        BY <1>2, <3>1
      <4>2. /\ i > 1 => s[i - 1].kind = "resetOptions"
            /\ i = 1 => a = KeepAlivesUntilDeath * KeepAliveRate
        BY <2>2, <3>1, <4>1 DEF Agreed, Pairs
      <4>3. Len(s) + 1 > i /\ t[Len(s) + 1].kind = "resetOptions"
        BY <1>1, <1>2, <3>1
      <4> QED BY <1>2, <1>4, <4>1, <4>2, <4>3
    <3>2. CASE i = Len(s) + 1
      BY <1>1, <1>2, <2>2, <3>2
    <3>3. CASE i = Len(s) + 2
      <4>1. i - 1 = Len(s) + 1 /\ i # 1
        BY <1>2, <3>3
      <4> QED BY <1>1, <1>2, <3>3, <4>1
    <3> QED BY <1>3, <3>1, <3>2, <3>3
  <2> QED BY <2>1, <2>2 DEF Pairs
<1>6. t[Len(s) + 2].kind = "setOptions"
  BY <1>1, <1>2
<1> QED BY <1>4, <1>5, <1>6 DEF Agreed, t, two

\* The client reads the first message, and its alarm has length b then.
LEMMA AgreedRead ==
    ASSUME NEW s, NEW adopted, NEW rate, NEW a, NEW b,
           s \in Seq(Messages), s # <<>>, Agreed(s, adopted, rate, a), rate \in Int,
           b = IF Head(s).kind = "resetOptions" THEN KeepAlivesUntilDeath * KeepAliveRate
               ELSE IF Head(s).kind = "setOptions" /\ Head(s).rate # NoOption
                    THEN KeepAlivesUntilDeath * Head(s).rate
               ELSE a
    PROVE  Agreed(Tail(s), adopted, rate, b)
<1> DEFINE t == Tail(s)
           m == Head(s)
<1>1. /\ t \in Seq(Messages) /\ Len(s) \in Nat /\ Len(t) = Len(s) - 1
      /\ \A i \in 1..Len(t) : t[i] = s[i + 1]
      /\ m = s[1] /\ 1 \in 1..Len(s) /\ m \in Messages
  OBVIOUS
<1> HIDE DEF t, m
<1>2. /\ \A i \in 1..Len(t) : i + 1 \in 1..Len(s) /\ i + 1 > 1 /\ (i + 1) - 1 = i
      /\ \A i \in 1..Len(s) : i > 1 => i - 1 \in 1..Len(t) /\ t[i - 1] = s[i]
  BY <1>1
<1>3. Pairs(t, rate, b)
  <2>1. ASSUME NEW i \in 1..Len(t), t[i].kind = "resetOptions"
        PROVE  i + 1 \in 1..Len(t) /\ t[i + 1].kind = "setOptions"
    <3>1. (i + 1) + 1 \in 1..Len(s) /\ s[(i + 1) + 1].kind = "setOptions"
      BY <1>1, <1>2, <2>1 DEF Agreed, Pairs
    <3>2. i + 1 \in 1..Len(t)
      BY <1>1, <3>1
    <3> QED BY <1>1, <3>1, <3>2
  <2>2. ASSUME NEW i \in 1..Len(t), t[i].kind = "setOptions"
        PROVE  /\ i > 1 => t[i - 1].kind = "resetOptions"
               /\ i = 1 => b = KeepAlivesUntilDeath * KeepAliveRate
               /\ RateOf(t[i].rate) = rate \/ \E j \in 1..Len(t) : j > i /\ t[j].kind = "resetOptions"
    <3>1. i + 1 \in 1..Len(s) /\ i + 1 > 1 /\ (i + 1) - 1 = i /\ t[i] = s[i + 1]
      BY <1>1, <1>2
    <3>2. /\ s[i].kind = "resetOptions"
          /\ RateOf(s[i + 1].rate) = rate \/ \E j \in 1..Len(s) : j > i + 1 /\ s[j].kind = "resetOptions"
      BY <2>2, <3>1 DEF Agreed, Pairs
    <3>3. i > 1 => t[i - 1].kind = "resetOptions"
      <4>1. ASSUME i > 1 PROVE t[i - 1].kind = "resetOptions"
        <5>1. i - 1 \in 1..Len(t) /\ (i - 1) + 1 = i
          BY <1>1, <4>1
        <5> QED BY <1>1, <3>2, <5>1
      <4> QED BY <4>1
    <3>4. i = 1 => b = KeepAlivesUntilDeath * KeepAliveRate
      BY <1>1, <3>2 DEF m
    <3>5. RateOf(t[i].rate) = rate \/ \E j \in 1..Len(t) : j > i /\ t[j].kind = "resetOptions"
      <4>1. ASSUME NEW j \in 1..Len(s), j > i + 1, s[j].kind = "resetOptions"
            PROVE  j - 1 \in 1..Len(t) /\ j - 1 > i /\ t[j - 1].kind = "resetOptions"
        <5>1. j > 1 /\ j - 1 > i
          BY <4>1
        <5> QED BY <1>2, <4>1, <5>1
      <4> QED BY <3>1, <3>2, <4>1
    <3> QED BY <3>3, <3>4, <3>5
  <2> QED BY <2>1, <2>2 DEF Pairs
<1>4. ASSUME adopted, \A i \in 1..Len(t) : t[i].kind # "setOptions"
      PROVE  b = IF rate > 0 THEN KeepAlivesUntilDeath * rate ELSE 0
  <2>1. \A i \in 1..Len(s) : i > 1 => s[i].kind # "setOptions"
    BY <1>2, <1>4
  <2>2. m.kind # "resetOptions"
    <3>1. SUFFICES ASSUME s[1].kind = "resetOptions" PROVE FALSE
      BY <1>1
    <3>2. 1 + 1 \in 1..Len(s) /\ s[1 + 1].kind = "setOptions"
      BY <1>1, <3>1 DEF Agreed, Pairs
    <3> QED BY <2>1, <3>2
  <2>3. CASE m.kind = "setOptions"
    <3>1. a = KeepAlivesUntilDeath * KeepAliveRate
      BY <1>1, <2>3 DEF Agreed, Pairs
    <3>2. RateOf(m.rate) = rate
      <4>1. SUFFICES ASSUME NEW j \in 1..Len(s), j > 1, s[j].kind = "resetOptions" PROVE FALSE
        BY <1>1, <2>3 DEF Agreed, Pairs
      <4>2. j + 1 \in 1..Len(s) /\ s[j + 1].kind = "setOptions" /\ j + 1 > 1
        BY <4>1 DEF Agreed, Pairs
      <4> QED BY <2>1, <4>2
    <3>3. m.rate \in Rates \cup {NoOption}
      BY <1>1 DEF Messages
    <3>4. CASE m.rate = NoOption
      <4>1. rate = KeepAliveRate
        BY <3>2, <3>4 DEF RateOf
      <4> QED BY <2>2, <3>1, <3>4, <4>1, Constants DEF m
    <3>5. CASE m.rate # NoOption
      <4>1. m.rate \in Nat /\ b = KeepAlivesUntilDeath * m.rate
        BY <2>2, <2>3, <3>3, <3>5, Constants DEF m
      <4>2. rate = IF m.rate = 0 THEN -1 ELSE m.rate
        BY <3>2, <3>5 DEF RateOf
      <4> QED BY <4>1, <4>2, Constants
    <3> QED BY <3>4, <3>5
  <2>4. CASE m.kind # "setOptions"
    <3>1. \A i \in 1..Len(s) : s[i].kind # "setOptions"
      BY <1>1, <2>1, <2>4
    <3>2. a = IF rate > 0 THEN KeepAlivesUntilDeath * rate ELSE 0
      BY <1>4, <3>1 DEF Agreed
    <3> QED BY <2>2, <2>4, <3>2 DEF m
  <2> QED BY <2>3, <2>4
<1>5. ASSUME ~adopted, NEW i \in 1..Len(t) PROVE t[i].kind \notin {"keepAlive", "resetOptions", "setOptions"}
  BY <1>1, <1>2, <1>5 DEF Agreed
<1> QED BY <1>3, <1>4, <1>5 DEF Agreed, t

------------------------------------------------------------------------------
(* What the invariant says of the two ends.                                *)

LEMMA RateFacts ==
    ASSUME NEW r, r \in Rates \cup {KeepAliveRate}
    PROVE  /\ r \in Int /\ KeepAlivesUntilDeath * r = 3 * r
           /\ 3 * r > 0 => /\ r > 0 /\ r + MaxLag + 2 * MaxDelay < 3 * r
                           /\ MaxDelay < 3 * r /\ r + MaxLag + MaxDelay < 3 * r
<1>1. r \in Nat /\ MaxDelay \in Nat /\ MaxLag \in Nat /\ KeepAlivesUntilDeath = 3
  BY Constants
<1>2. r # 0 => r + MaxLag + 2 * MaxDelay < KeepAlivesUntilDeath * r
  BY RateAssumption
<1> QED BY <1>1, <1>2

ServerFacts ==
    /\ IsQueue(queue["server"]) /\ line["server"] \in Seq(Messages) /\ connected["server"] \in BOOLEAN
    /\ keepAliveRate \in Int
    /\ "alarm" \in Running(queue["server"]) =>
          /\ connected["server"] /\ parser = "ready"
          /\ keepAliveRate \in Rates \cup {KeepAliveRate} /\ 3 * keepAliveRate > 0
          /\ Beats(queue["server"], keepAliveRate)
          /\ Left(queue["server"]) \in Int /\ KLeft(queue["server"]) \in Int
          /\ -MaxLag <= KLeft(queue["server"]) /\ KLeft(queue["server"]) <= keepAliveRate
          /\ quiet["server"] = 0 => Left(queue["server"]) = 3 * keepAliveRate
    /\ connected["server"] /\ parser = "ready" /\ 3 * keepAliveRate > 0 => "alarm" \in Running(queue["server"])

ClientFacts ==
    /\ IsQueue(queue["client"]) /\ line["client"] \in Seq(Messages) /\ connected["client"] \in BOOLEAN
    /\ alarm["client"] \in Int
    /\ "alarm" \in Running(queue["client"]) =>
          /\ connected["client"] /\ alarm["client"] > 0 /\ Left(queue["client"]) \in Int
          /\ quiet["client"] = 0 => Left(queue["client"]) = alarm["client"]

LEMMA Facts == IInv /\ Lengths => ServerFacts /\ ClientFacts
<1> SUFFICES ASSUME IInv, Lengths PROVE ServerFacts /\ ClientFacts
  OBVIOUS
<1>1. /\ \A p \in Ends : /\ IsQueue(queue[p]) /\ line[p] \in Seq(Messages) /\ connected[p] \in BOOLEAN
                         /\ alarm[p] \in Int /\ quiet[p] \in Nat
      /\ keepAliveRate \in Int /\ alarm["server"] = 3 * keepAliveRate
      /\ EndOk("server") /\ EndOk("client")
  BY Constants DEF IInv, Types, Lines, Alarms
<1>2. ASSUME "alarm" \in Running(queue["server"])
      PROVE  /\ connected["server"] /\ parser = "ready"
             /\ keepAliveRate \in Rates \cup {KeepAliveRate} /\ 3 * keepAliveRate > 0
             /\ Beats(queue["server"], keepAliveRate)
             /\ Left(queue["server"]) \in Int /\ KLeft(queue["server"]) \in Int
             /\ -MaxLag <= KLeft(queue["server"]) /\ KLeft(queue["server"]) <= keepAliveRate
             /\ quiet["server"] = 0 => Left(queue["server"]) = 3 * keepAliveRate
  <2>1. connected["server"] /\ parser = "ready"
    BY <1>1, <1>2 DEF EndOk, On
  <2>2. alarm["server"] > 0 /\ Left(queue["server"]) = alarm["server"] - quiet["server"]
    BY <1>1, <1>2 DEF EndOk
  <2>3. keepAliveRate > 0 /\ 3 * keepAliveRate > 0
    BY <1>1, <2>2
  <2>4. keepAliveRate \in Rates \cup {KeepAliveRate} /\ Beats(queue["server"], keepAliveRate)
    BY <1>2, <2>3 DEF Lengths
  <2>5. KLeft(queue["server"]) \in Int /\ -MaxLag <= KLeft(queue["server"])
        /\ KLeft(queue["server"]) <= keepAliveRate
    <3>1. KLeft(queue["server"]) \in Int
      BY <1>1, <2>4, BeatTypes, Constants
    <3> QED BY <2>4, <3>1 DEF Beats
  <2>6. Left(queue["server"]) \in Int /\ (quiet["server"] = 0 => Left(queue["server"]) = 3 * keepAliveRate)
    BY <1>1, <2>2, Constants
  <2> QED BY <2>1, <2>3, <2>4, <2>5, <2>6
<1>3. connected["server"] /\ parser = "ready" /\ 3 * keepAliveRate > 0 => "alarm" \in Running(queue["server"])
  BY <1>1 DEF EndOk, On
<1>4. ASSUME "alarm" \in Running(queue["client"])
      PROVE  /\ connected["client"] /\ alarm["client"] > 0 /\ Left(queue["client"]) \in Int
             /\ quiet["client"] = 0 => Left(queue["client"]) = alarm["client"]
  <2>1. connected["client"]
    BY <1>1, <1>4 DEF EndOk, On
  <2>2. alarm["client"] > 0 /\ Left(queue["client"]) = alarm["client"] - quiet["client"]
    BY <1>1, <1>4 DEF EndOk
  <2> QED BY <1>1, <2>1, <2>2, Constants
<1>5. ServerFacts
  BY <1>1, <1>2, <1>3, Constants DEF ServerFacts
<1>6. ClientFacts
  BY <1>1, <1>4, Constants DEF ClientFacts
<1> QED BY <1>5, <1>6

LEMMA FactsAfter == (IInv /\ Lengths)' => ServerFacts' /\ ClientFacts'
  BY Facts, PTL

\* The server's alarm has not run out, and unless a message of the client is
\* already on its way there is time for a new one.
LEMMA ServerAlive ==
    ASSUME ServerFacts, ClientFacts, "alarm" \in Running(queue["server"]),
           ServerHears(queue["server"], line["server"], line["client"], connected["client"])
    PROVE  /\ Left(queue["server"]) > 0
           /\ \/ Within(line["server"], Messages, Left(queue["server"]))
              \/ connected["client"] /\ Left(queue["server"]) > MaxDelay
<1> DEFINE n == Left(queue["server"])
           k == KLeft(queue["server"])
<1>1. /\ n \in Int /\ k \in Int /\ -MaxLag <= k
      /\ line["server"] \in Seq(Messages) /\ line["client"] \in Seq(Messages)
  BY DEF ServerFacts, ClientFacts
<1>2. \/ Within(line["server"], Messages, n)
      \/ connected["client"] /\ Within(line["client"], Kinds({"keepAlive"}), n - MaxDelay)
      \/ connected["client"] /\ n > k + MaxLag + 2 * MaxDelay
  BY DEF ServerHears
<1> HIDE DEF n, k
<1>3. CASE Within(line["server"], Messages, n)
  BY <1>1, <1>3, WithinPositive DEF n
<1>4. CASE connected["client"] /\ Within(line["client"], Kinds({"keepAlive"}), n - MaxDelay)
  <2>1. n - MaxDelay \in Int
    BY <1>1, Constants
  <2>2. n - MaxDelay > 0
    BY <1>1, <1>4, <2>1, WithinPositive
  <2>3. n > 0 /\ n > MaxDelay
    BY <1>1, <2>2, Constants
  <2> QED BY <1>4, <2>3 DEF n
<1>5. CASE connected["client"] /\ n > k + MaxLag + 2 * MaxDelay
  <2>1. n > 0 /\ n > MaxDelay
    BY <1>1, <1>5, Constants
  <2> QED BY <1>5, <2>1 DEF n
<1> QED BY <1>2, <1>3, <1>4, <1>5

LEMMA ClientAlive ==
    ASSUME ServerFacts, ClientFacts, "alarm" \in Running(queue["client"]),
           ClientHears(queue["client"], queue["server"], line["server"], line["client"],
                       connected["server"], parser, adopting)
    PROVE  /\ Left(queue["client"]) > 0
           /\ \/ Within(line["client"], Restarting, Left(queue["client"]))
              \/ connected["server"] /\ Left(queue["client"]) > MaxDelay
<1> DEFINE n == Left(queue["client"])
           k == KLeft(queue["server"])
<1>1. /\ n \in Int /\ ("alarm" \in Running(queue["server"]) => k \in Int /\ -MaxLag <= k)
      /\ line["server"] \in Seq(Messages) /\ line["client"] \in Seq(Messages)
  BY DEF ServerFacts, ClientFacts
<1>2. \/ Within(line["client"], Restarting, n)
      \/ /\ connected["server"]
         /\ \/ Within(line["server"], Messages, n - 3 * MaxDelay)
            \/ Within(line["client"], Kinds({"queryInfo"}), n - 2 * MaxDelay)
            \/ Within(line["server"], Messages, n - MaxDelay)
            \/ n > MaxDelay
            \/ "alarm" \in Running(queue["server"]) /\ n > k + MaxLag + MaxDelay
  BY DEF ClientHears
<1> HIDE DEF n, k
<1>3. n - 3 * MaxDelay \in Int /\ n - 2 * MaxDelay \in Int /\ n - MaxDelay \in Int
  BY <1>1, Constants
<1>4. CASE Within(line["client"], Restarting, n)
  BY <1>1, <1>4, WithinPositive DEF n
<1>5. ASSUME n > MaxDelay, connected["server"] PROVE n > 0 /\ n > MaxDelay /\ connected["server"]
  BY <1>1, <1>5, Constants
<1>6. CASE Within(line["server"], Messages, n - 3 * MaxDelay) /\ connected["server"]
  <2>1. n - 3 * MaxDelay > 0
    BY <1>1, <1>3, <1>6, WithinPositive
  <2> QED BY <1>1, <1>5, <1>6, <2>1, Constants DEF n
<1>7. CASE Within(line["client"], Kinds({"queryInfo"}), n - 2 * MaxDelay) /\ connected["server"]
  <2>1. n - 2 * MaxDelay > 0
    BY <1>1, <1>3, <1>7, WithinPositive
  <2> QED BY <1>1, <1>5, <1>7, <2>1, Constants DEF n
<1>8. CASE Within(line["server"], Messages, n - MaxDelay) /\ connected["server"]
  <2>1. n - MaxDelay > 0
    BY <1>1, <1>3, <1>8, WithinPositive
  <2> QED BY <1>1, <1>5, <1>8, <2>1, Constants DEF n
<1>9. CASE n > MaxDelay /\ connected["server"]
  BY <1>5, <1>9 DEF n
<1>10. CASE "alarm" \in Running(queue["server"]) /\ n > k + MaxLag + MaxDelay /\ connected["server"]
  <2>1. n > MaxDelay
    BY <1>1, <1>10, Constants
  <2> QED BY <1>5, <1>10, <2>1 DEF n
<1> QED BY <1>2, <1>4, <1>6, <1>7, <1>8, <1>9, <1>10

\* An alarm that has just been restarted: there is time for a keep-alive.
LEMMA ServerRestarted ==
    ASSUME NEW q, NEW s, NEW c, NEW up, NEW rate, s \in Seq(Messages),
           Told(up, TRUE, s),
           "alarm" \in Running(q) =>
              /\ Left(q) \in Int /\ KLeft(q) \in Int /\ Left(q) = 3 * rate /\ KLeft(q) <= rate
              /\ rate \in Rates \cup {KeepAliveRate} /\ 3 * rate > 0
    PROVE  ServerHears(q, s, c, up)
<1> SUFFICES ASSUME "alarm" \in Running(q)
             PROVE  \/ Within(s, Messages, Left(q))
                    \/ up /\ Left(q) > KLeft(q) + MaxLag + 2 * MaxDelay
  BY DEF ServerHears
<1>1. rate \in Int /\ rate + MaxLag + 2 * MaxDelay < 3 * rate /\ MaxDelay < 3 * rate
  BY RateFacts
<1>2. CASE up
  <2>1. Left(q) > KLeft(q) + MaxLag + 2 * MaxDelay
    BY <1>1, Constants
  <2> QED BY <1>2, <2>1
<1>3. CASE ~up
  <2>1. Within(s, Kinds({"close"}), MaxDelay + 1) /\ MaxDelay + 1 \in Int /\ MaxDelay + 1 <= Left(q)
    BY <1>1, <1>3, Constants DEF Told
  <2>2. Within(s, Kinds({"close"}), Left(q))
    BY <2>1, WithinLater
  <2> QED BY <2>2, WithinMore, AgelessSets
<1> QED BY <1>2, <1>3

\* The client's alarm has just been restarted: the options that it has read are
\* the ones in force, or others follow.
LEMMA ClientRestarted ==
    ASSUME NEW q, NEW r, NEW s, NEW c, NEW up, NEW stage, NEW wait, NEW rate, NEW a,
           c \in Seq(Messages), Told(up, TRUE, c),
           "alarm" \in Running(q) => Left(q) \in Int /\ Left(q) = a /\ a > 0,
           \E x \in Rates \cup {KeepAliveRate} : a = KeepAlivesUntilDeath * x,
           up => Agreed(c, TRUE, rate, a) /\ rate \in Int /\ (3 * rate > 0 => "alarm" \in Running(r)),
           "alarm" \in Running(r) => KLeft(r) \in Int /\ KLeft(r) <= rate
    PROVE  ClientHears(q, r, s, c, up, stage, wait)
<1> SUFFICES ASSUME "alarm" \in Running(q)
             PROVE  \/ Within(c, Restarting, Left(q))
                    \/ up /\ "alarm" \in Running(r) /\ Left(q) > KLeft(r) + MaxLag + MaxDelay
  BY DEF ClientHears
<1>1. PICK x \in Rates \cup {KeepAliveRate} : a = KeepAlivesUntilDeath * x
  OBVIOUS
<1>2. a = 3 * x /\ x \in Int /\ x + MaxLag + MaxDelay < 3 * x /\ MaxDelay < a /\ x > 0 /\ a \in Int /\ Left(q) = a
  BY <1>1, RateFacts
<1>3. ASSUME NEW i \in 1..Len(c), c[i] \in Restarting PROVE Within(c, Restarting, Left(q))
  <2>1. c[i].age \in Int /\ c[i].age >= 0
    BY WithinTypes, Constants
  <2>2. Left(q) + c[i].age > MaxDelay
    BY <1>2, <2>1, Constants
  <2> QED BY <1>3, <2>2 DEF Within
<1>4. \A i \in 1..Len(c) : c[i] \in Messages
  OBVIOUS
<1>5. CASE ~up
  <2>1. PICK i \in 1..Len(c) : c[i] \in Kinds({"close"})
    BY <1>5 DEF Told, Within
  <2> QED BY <1>3, <2>1, AgelessSets
<1>6. CASE up /\ \E i \in 1..Len(c) : c[i].kind = "resetOptions"
  BY <1>3, <1>4, <1>6 DEF Restarting
<1>7. CASE up /\ \A i \in 1..Len(c) : c[i].kind # "resetOptions"
  <2>1. Pairs(c, rate, a) /\ rate \in Int /\ (3 * rate > 0 => "alarm" \in Running(r))
    BY <1>7 DEF Agreed
  <2>2. ASSUME a = 3 * rate PROVE "alarm" \in Running(r) /\ Left(q) > KLeft(r) + MaxLag + MaxDelay
    <3>1. rate = x /\ 3 * rate > 0
      BY <1>2, <2>1, <2>2
    <3>2. "alarm" \in Running(r) /\ KLeft(r) \in Int /\ KLeft(r) <= rate
      BY <2>1, <3>1
    <3>3. Left(q) > KLeft(r) + MaxLag + MaxDelay
      BY <1>2, <3>1, <3>2, Constants
    <3> QED BY <3>2, <3>3
  <2>3. CASE \E i \in 1..Len(c) : c[i].kind = "setOptions"
    <3>1. PICK i \in 1..Len(c) : c[i].kind = "setOptions"
      BY <2>3
    <3>2. i > 1 => i - 1 \in 1..Len(c)
      OBVIOUS
    <3>3. ~(i > 1)
      BY <1>7, <2>1, <3>1, <3>2 DEF Pairs
    <3>4. i = 1
      BY <3>3
    <3>5. a = KeepAlivesUntilDeath * KeepAliveRate /\ RateOf(c[i].rate) = rate
      BY <1>7, <2>1, <3>1, <3>4 DEF Pairs
    <3>6. CASE c[i].rate = NoOption
      <4>1. rate = KeepAliveRate
        BY <3>5, <3>6 DEF RateOf
      <4>2. a = 3 * rate
        BY <3>5, <4>1, Constants
      <4> QED BY <1>7, <2>2, <4>2
    <3>7. CASE c[i].rate # NoOption
      <4>1. c[i] \in Restarting
        BY <1>4, <3>1, <3>7 DEF Restarting
      <4> QED BY <1>3, <4>1
    <3> QED BY <3>6, <3>7
  <2>4. CASE \A i \in 1..Len(c) : c[i].kind # "setOptions"
    <3>1. a = IF rate > 0 THEN KeepAlivesUntilDeath * rate ELSE 0
      BY <1>7, <2>4 DEF Agreed
    <3>2. a = 3 * rate
      BY <1>2, <2>1, <3>1, Constants
    <3> QED BY <1>7, <2>2, <3>2
  <2> QED BY <2>3, <2>4
<1> QED BY <1>5, <1>6, <1>7

------------------------------------------------------------------------------
(* Lengths of the alarms, step by step.                                    *)

LEMMA RateOfTypes ==
    ASSUME NEW option, option \in Rates \cup {NoOption}
    PROVE  /\ RateOf(option) \in Int
           /\ RateOf(option) > 0 => RateOf(option) \in Rates \cup {KeepAliveRate}
           /\ RateOf(option) = CASE option = NoOption -> KeepAliveRate
                                 [] option = 0        -> -1
                                 [] OTHER             -> option
<1>1. CASE option = NoOption
  <2>1. RateOf(option) = KeepAliveRate /\ KeepAliveRate \in Int
    BY <1>1, Constants DEF RateOf
  <2>2. option # 0
    BY <1>1 DEF NoOption
  <2> QED BY <1>1, <2>1, <2>2
<1>2. CASE option # NoOption
  <2>1. option \in Rates /\ option \in Nat
    BY <1>2, Constants
  <2> QED BY <1>2, <2>1 DEF RateOf
<1> QED BY <1>1, <1>2

\* The timers of the server stay, and the length of the client's alarm is right.
LEMMA SameLengths ==
    ASSUME Lengths, queue'["server"] = queue["server"], keepAliveRate' = keepAliveRate,
           alarm'["client"] = alarm["client"]
    PROVE  Lengths'
  BY DEF Lengths

LEMMA NewBeats ==
    ASSUME Lengths, "alarm" \in Running(queue'["server"]) => Beats(queue'["server"], keepAliveRate'),
           keepAliveRate' = keepAliveRate, alarm'["client"] = alarm["client"]
    PROVE  Lengths'
  BY DEF Lengths

LEMMA OptionsLengths ==
    ASSUME IInv, IInv', Lengths, NEW option \in Rates \cup {NoOption}, sendOptions(option)
    PROVE  Lengths' /\ keepAliveRate' = RateOf(option)
<1> DEFINE rate == RateOf(option)
           q == removeHeartbeatTimer(queue["server"])
           dead == rate * KeepAlivesUntilDeath
           r == addHeartbeatTimer(q, rate, dead)
<1>1. rate \in Int /\ (rate > 0 => rate \in Rates \cup {KeepAliveRate}) /\ dead \in Int
      /\ keepAliveRate' = rate /\ queue' = [queue EXCEPT !["server"] = r]
      /\ alarm' = [alarm EXCEPT !["server"] = dead]
  <2>1. rate \in Int /\ (rate > 0 => rate \in Rates \cup {KeepAliveRate})
        /\ rate = CASE option = NoOption -> KeepAliveRate
                    [] option = 0        -> -1
                    [] OTHER             -> option
    BY RateOfTypes
  <2>2. dead \in Int
    BY <2>1, Constants
  <2> HIDE DEF rate
  <2> QED BY <2>1, <2>2 DEF sendOptions
<1> HIDE DEF rate, dead
<1>2. IsQueue(q)
  BY RemovedQueue, Constants DEF IInv, Types
<1> HIDE DEF q
<1>3. rate > 0 => Beats(r, rate)
  BY <1>1, <1>2, BeatsAdded
<1>4. queue'["server"] = r /\ alarm'["client"] = alarm["client"]
  <2>1. queue = [p \in Ends |-> queue[p]] /\ alarm \in [Ends -> Int]
    BY DEF IInv, Types
  <2> HIDE DEF r
  <2> QED BY <1>1, <2>1, Constants
<1>5. "alarm" \in Running(queue'["server"]) => keepAliveRate' > 0
  <2>1. SUFFICES ASSUME "alarm" \in Running(queue'["server"]) PROVE keepAliveRate' > 0
    OBVIOUS
  <2>2. alarm'["server"] > 0
    BY <2>1, Constants DEF IInv, Alarms, EndOk
  <2>3. alarm'["server"] = 3 * keepAliveRate' /\ rate \in Int
    BY <1>1, Constants DEF IInv, Alarms
  <2> QED BY <1>1, <2>2, <2>3
<1> HIDE DEF r
<1>6. Lengths'
  BY <1>1, <1>3, <1>4, <1>5 DEF Lengths
<1> QED BY <1>1, <1>6 DEF rate

LEMMA DisconnectLengths ==
    ASSUME IInv, IInv', Lengths, NEW p \in Ends, disconnect(p)
    PROVE  Lengths'
<1>1. /\ UNCHANGED <<keepAliveRate, alarm>> /\ connected' = [connected EXCEPT ![p] = FALSE]
      /\ \E r : queue' = [queue EXCEPT ![p] = r]
  BY DEF disconnect
<1>2. queue = [e \in Ends |-> queue[e]] /\ connected \in [Ends -> BOOLEAN]
  BY DEF IInv, Types
<1>3. CASE p = "server"
  <2>1. ~connected'["server"]
    BY <1>1, <1>2, <1>3, Constants
  <2>2. Running(queue'["server"]) = {}
    BY <2>1, Constants DEF IInv, Alarms, EndOk, On
  <2> QED BY <1>1, <2>2, NewBeats
<1>4. CASE p = "client"
  <2>1. queue'["server"] = queue["server"]
    BY <1>1, <1>2, <1>4, Constants
  <2> QED BY <1>1, <2>1, SameLengths
<1> QED BY <1>3, <1>4, Constants

LEMMA ReadLengths == IInv /\ IInv' /\ Lengths /\ serverReads => Lengths'
<1> SUFFICES ASSUME IInv, IInv', Lengths, serverReads PROVE Lengths'
  OBVIOUS
<1>1. /\ queue = [e \in Ends |-> queue[e]] /\ IsQueue(queue["server"]) /\ alarm \in [Ends -> Int]
      /\ keepAliveRate \in Int /\ alarm["server"] = 3 * keepAliveRate
  BY Constants DEF IInv, Types, Alarms
<1>2. newProxy \/ disconnect("server") \/ (parser = "ready" /\ clientMessage) \/ (parser # "ready" /\ handshakeInfo)
  BY DEF serverReads
<1>3. CASE newProxy
  <2>1. /\ keepAliveRate' = KeepAliveRate /\ queue' = queue /\ parser' = "handshake"
        /\ alarm' = [alarm EXCEPT !["server"] = KeepAliveRate * KeepAlivesUntilDeath]
    BY <1>3 DEF newProxy
  <2>2. alarm'["client"] = alarm["client"]
    BY <1>1, <2>1, Constants
  <2>3. Running(queue'["server"]) = {}
    BY <2>1, Constants DEF IInv, Alarms, EndOk, On
  <2> QED BY <2>1, <2>2, <2>3 DEF Lengths
<1>4. CASE disconnect("server")
  BY <1>4, DisconnectLengths, Constants
<1>5. CASE parser = "ready" /\ clientMessage
  <2> DEFINE r == resetHeartbeatTimer(queue["server"], alarm["server"])
  <2>1. queue' = [queue EXCEPT !["server"] = r] /\ UNCHANGED <<keepAliveRate, alarm, connected>>
        /\ connected["server"]
    BY <1>5 DEF clientMessage, serverReads
  <2> HIDE DEF r
  <2>2. queue'["server"] = r
    BY <1>1, <2>1, Constants
  <2>3. "alarm" \in Running(queue'["server"]) => Beats(r, keepAliveRate)
    <3>1. SUFFICES ASSUME "alarm" \in Running(queue'["server"]) PROVE Beats(r, keepAliveRate)
      OBVIOUS
    <3>2. alarm["server"] > 0
      BY <2>1, <3>1, Constants DEF IInv, Alarms, EndOk
    <3>3. "alarm" \in Running(queue["server"])
      BY <1>5, <2>1, <3>2, Constants DEF IInv, Alarms, EndOk, On
    <3>4. Beats(queue["server"], keepAliveRate)
      BY <3>3 DEF Lengths
    <3>5. alarm["server"] \in Int
      BY <1>1, Constants
    <3> QED BY <1>1, <3>4, <3>5, BeatsReset DEF r
  <2> QED BY <2>1, <2>2, <2>3, NewBeats
<1>6. CASE parser # "ready" /\ handshakeInfo
  <2> DEFINE q == addHeartbeatTimer(queue["server"], keepAliveRate, alarm["server"])
             r == resetHeartbeatTimer(q, alarm["server"])
  <2>1. queue' = [queue EXCEPT !["server"] = r] /\ UNCHANGED <<keepAliveRate, alarm>>
    BY <1>6 DEF handshakeInfo
  <2>2. alarm["server"] \in Int
    BY <1>1, Constants
  <2>3. IsQueue(q) /\ (keepAliveRate > 0 => Beats(q, keepAliveRate))
    BY <1>1, <2>2, AddedQueue, BeatsAdded
  <2> HIDE DEF q
  <2>4. keepAliveRate > 0 => Beats(r, keepAliveRate)
    BY <2>2, <2>3, BeatsReset
  <2> HIDE DEF r
  <2>5. queue'["server"] = r
    BY <1>1, <2>1, Constants
  <2>6. "alarm" \in Running(queue'["server"]) => keepAliveRate > 0
    <3>1. "alarm" \in Running(queue'["server"]) => alarm["server"] > 0
      BY <2>1, Constants DEF IInv, Alarms, EndOk
    <3> QED BY <1>1, <3>1
  <2> QED BY <2>1, <2>4, <2>5, <2>6, NewBeats
<1> QED BY <1>2, <1>3, <1>4, <1>5, <1>6

LEMMA ClientLengths == IInv /\ IInv' /\ Lengths /\ clientReads => Lengths'
<1> SUFFICES ASSUME IInv, IInv', Lengths, clientReads PROVE Lengths'
  OBVIOUS
<1> DEFINE m == Head(line["client"])
<1>1. /\ queue = [e \in Ends |-> queue[e]] /\ alarm \in [Ends -> Int] /\ line["client"] # <<>>
      /\ line \in Lines
  BY DEF IInv, Types, clientReads
<1>2. m \in Messages
  BY <1>1, TakenClient
<1>3. CASE m.kind = "close"
  <2>1. disconnect("client")
    BY <1>3 DEF clientReads
  <2> QED BY <2>1, DisconnectLengths, Constants
<1>4. CASE m.kind # "close"
  <2>1. keepAliveRate' = keepAliveRate
    BY <1>4 DEF clientReads
  <2>2. \/ UNCHANGED <<queue, alarm>>
        \/ UNCHANGED alarm /\ \E r : queue' = [queue EXCEPT !["client"] = r]
        \/ Take /\ setKeepAliveRate(KeepAliveRate)
        \/ m.rate # NoOption /\ Take /\ setKeepAliveRate(m.rate)
    BY <1>4 DEF clientReads, Echo, queryInfo, Take
  <2>3. CASE UNCHANGED <<queue, alarm>>
    BY <2>1, <2>3, SameLengths
  <2>4. CASE UNCHANGED alarm /\ \E r : queue' = [queue EXCEPT !["client"] = r]
    <3>1. queue'["server"] = queue["server"]
      BY <1>1, <2>4, Constants
    <3> QED BY <2>1, <2>4, <3>1, SameLengths
  <2>5. ASSUME NEW rate, rate \in Rates \cup {KeepAliveRate}, setKeepAliveRate(rate) PROVE Lengths'
    <3>1. /\ alarm' = [alarm EXCEPT !["client"] = rate * KeepAlivesUntilDeath]
          /\ \E r : queue' = [queue EXCEPT !["client"] = r]
      BY <2>5 DEF setKeepAliveRate
    <3>2. queue'["server"] = queue["server"] /\ alarm'["client"] = rate * KeepAlivesUntilDeath
      BY <1>1, <3>1, Constants
    <3>3. rate * KeepAlivesUntilDeath = KeepAlivesUntilDeath * rate
      BY <2>5, RateFacts, Constants
    <3> QED BY <2>1, <2>5, <3>2, <3>3 DEF Lengths
  <2>6. m.rate # NoOption => m.rate \in Rates \cup {KeepAliveRate}
    <3> HIDE DEF m
    <3> QED BY <1>2 DEF Messages
  <2> HIDE DEF m
  <2> QED BY <2>2, <2>3, <2>4, <2>5, <2>6
<1> QED BY <1>3, <1>4

LEMMA TimerLengths == IInv /\ IInv' /\ Lengths /\ (\E p \in Ends : hasTimerExpired(p)) => Lengths'
<1> SUFFICES ASSUME IInv, IInv', Lengths, NEW p \in Ends, hasTimerExpired(p) PROVE Lengths'
  OBVIOUS
<1> DEFINE q == countdown(queue[p])
<1>1. /\ queue = [e \in Ends |-> queue[e]] /\ IsQueue(queue[p]) /\ IsQueue(queue["server"])
      /\ alarm \in [Ends -> Int] /\ EndOk(p)
  BY Constants DEF IInv, Types, Alarms
<1>2. IsQueue(q) /\ Running(q) = Running(queue[p])
  BY <1>1, CountedQueue
<1>3. p = "server" /\ "alarm" \in Running(q) => Beats(q, keepAliveRate) /\ q.time = 0
  <2>1. SUFFICES ASSUME p = "server", "alarm" \in Running(q) PROVE Beats(q, keepAliveRate) /\ q.time = 0
    OBVIOUS
  <2>2. Beats(queue[p], keepAliveRate)
    BY <1>2, <2>1 DEF Lengths
  <2> QED BY <1>1, <2>2, BeatsCounted
<1>4. ASSUME NEW r, queue' = [queue EXCEPT ![p] = r], UNCHANGED <<keepAliveRate, alarm>>,
             p = "server" /\ "alarm" \in Running(r) => Beats(r, keepAliveRate)
      PROVE  Lengths'
  <2>1. CASE p = "server"
    <3>1. queue'["server"] = r
      BY <1>1, <1>4, <2>1, Constants
    <3> QED BY <1>4, <2>1, <3>1, NewBeats
  <2>2. CASE p = "client"
    <3>1. queue'["server"] = queue["server"]
      BY <1>1, <1>4, <2>2, Constants
    <3> QED BY <1>4, <3>1, SameLengths
  <2> QED BY <2>1, <2>2, Constants
<1>5. CASE Expired(q) = {}
  <2>1. queue' = [queue EXCEPT ![p] = q] /\ UNCHANGED <<keepAliveRate, alarm>>
    BY <1>5 DEF hasTimerExpired
  <2> HIDE DEF q
  <2> QED BY <1>3, <1>4, <2>1
<1>6. CASE Expired(q) # {}
  <2>1. PICK t \in Expired(q) : IF t = "keepAlive" THEN keepAlive(q) ELSE flatline(p)
    BY <1>6 DEF hasTimerExpired
  <2>2. CASE t = "keepAlive"
    <3>1. "keepAlive" \in Running(q)
      BY <2>1, <2>2 DEF Expired, Top
    <3>2. p = "server" /\ "alarm" \in Running(q) /\ alarm["server"] > 0
      BY <1>1, <1>2, <3>1 DEF EndOk
    <3> DEFINE r == expire(q, "keepAlive")
    <3>3. queue' = [queue EXCEPT ![p] = r] /\ UNCHANGED <<keepAliveRate, alarm>>
      BY <2>1, <2>2, <3>2 DEF keepAlive
    <3>4. keepAliveRate \in Int /\ keepAliveRate > 0
      <4>1. alarm["server"] = 3 * keepAliveRate /\ keepAliveRate \in Int
        BY Constants DEF IInv, Alarms, Types
      <4> QED BY <3>2, <4>1
    <3>5. Beats(r, keepAliveRate)
      <4> HIDE DEF q
      <4> QED BY <1>2, <1>3, <3>2, <3>4, BeatsExpired
    <3> HIDE DEF q, r
    <3> QED BY <1>4, <3>3, <3>5
  <2>3. CASE t # "keepAlive"
    BY <2>1, <2>3, DisconnectLengths DEF flatline
  <2> QED BY <2>2, <2>3
<1> QED BY <1>5, <1>6

LEMMA LengthsStep == IInv /\ IInv' /\ Lengths /\ [Next]_vars => Lengths'
<1> SUFFICES ASSUME IInv, IInv', Lengths, [Next]_vars PROVE Lengths'
  OBVIOUS
<1>1. CASE adoptClient \/ setConfig
  <2>1. PICK option \in Rates \cup {NoOption} : sendOptions(option)
    BY <1>1 DEF adoptClient, setConfig
  <2> QED BY <2>1, OptionsLengths
<1>2. CASE serverReads
  BY <1>2, ReadLengths
<1>3. CASE clientReads
  BY <1>3, ClientLengths
<1>4. CASE \E p \in Ends : hasTimerExpired(p)
  BY <1>4, TimerLengths
<1>5. CASE tick
  <2>1. /\ queue' = [p \in Ends |-> passTime(queue[p])] /\ UNCHANGED <<keepAliveRate, alarm>>
        /\ \A p \in Ends : ~MustLook(queue[p], MaxLag)
    BY <1>5 DEF tick
  <2> DEFINE q == queue["server"]
  <2>2. queue'["server"] = passTime(q) /\ IsQueue(q) /\ keepAliveRate \in Int /\ ~MustLook(q, MaxLag)
    BY <2>1, Constants DEF IInv, Types
  <2>3. Running(passTime(q)) = Running(q)
    BY <2>2, PassedQueue
  <2>4. "alarm" \in Running(q) => Beats(passTime(q), keepAliveRate)
    <3>1. "alarm" \in Running(q) => Beats(q, keepAliveRate)
      BY DEF Lengths
    <3> HIDE DEF q
    <3> QED BY <2>2, <3>1, BeatsPassed
  <2> HIDE DEF q
  <2> QED BY <2>1, <2>2, <2>3, <2>4, NewBeats
<1>6. CASE clientWrites \/ goSilent \/ UNCHANGED vars
  BY <1>6, SameLengths DEF clientWrites, goSilent, vars
<1>7. CASE \E p \in Ends : hangUp(p)
  BY <1>7, DisconnectLengths DEF hangUp
<1> QED BY <1>1, <1>2, <1>3, <1>4, <1>5, <1>6, <1>7 DEF Next

------------------------------------------------------------------------------
(* Every step leaves something under way that restarts each alarm in time. *)

LEMMA ToldMore ==
    ASSUME NEW up, NEW other, NEW s, NEW t, s \in Seq(Messages), t \in Seq(Messages), Told(up, other, s)
    PROVE  Told(up, other, s \o t)
  BY WithinKept DEF Told

LEMMA ToldRead ==
    ASSUME NEW up, NEW other, NEW s, s \in Seq(Messages), s # <<>>, Told(up, other, s), Head(s).kind # "close"
    PROVE  Told(up, other, Tail(s))
<1>1. Head(s) \notin Kinds({"close"})
  BY DEF Kinds
<1> QED BY <1>1, WithinRead DEF Told

LEMMA HeardServer ==
    ASSUME NEW q, NEW s, NEW c, NEW up, NEW t,
           s \in Seq(Messages), t \in Seq(Messages), ServerHears(q, s, c, up)
    PROVE  ServerHears(q, s \o t, c, up)
  BY WithinKept DEF ServerHears

LEMMA HeardServerMore ==
    ASSUME NEW q, NEW s, NEW c, NEW up, NEW t,
           c \in Seq(Messages), t \in Seq(Messages), ServerHears(q, s, c, up)
    PROVE  ServerHears(q, s, c \o t, up)
  BY WithinKept DEF ServerHears

LEMMA HeardClient ==
    ASSUME NEW q, NEW r, NEW s, NEW c, NEW up, NEW stage, NEW wait, NEW t,
           s \in Seq(Messages), t \in Seq(Messages), ClientHears(q, r, s, c, up, stage, wait)
    PROVE  ClientHears(q, r, s \o t, c, up, stage, wait)
  BY WithinKept DEF ClientHears

LEMMA AgreedBefore ==
    ASSUME NEW s, NEW adopted, NEW old, NEW a, NEW after, NEW rate,
           s \in Seq(Messages), Agreed(s, adopted, old, a), ~adopted, ~after
    PROVE  Agreed(s, after, rate, a)
<1>1. \A i \in 1..Len(s) : s[i].kind \notin {"keepAlive", "resetOptions", "setOptions"}
  BY DEF Agreed
<1>2. Pairs(s, rate, a)
  BY <1>1 DEF Pairs
<1> QED BY <1>1, <1>2 DEF Agreed

\* What is common to all steps but goSilent.
Before == IInv /\ Lengths /\ Live /\ ~silent /\ (IInv /\ Lengths)' /\ silent' = silent

LEMMA LiveBefore ==
    ASSUME Before
    PROVE  /\ ServerFacts /\ ClientFacts /\ ServerFacts' /\ ClientFacts'
           /\ Told(connected["client"], connected["server"], line["server"])
           /\ Told(connected["server"], connected["client"], line["client"])
           /\ ServerHears(queue["server"], line["server"], line["client"], connected["client"])
           /\ ClientHears(queue["client"], queue["server"], line["server"], line["client"],
                          connected["server"], parser, adopting)
           /\ connected["client"] /\ connected["server"] =>
                 Agreed(line["client"], Adopted, keepAliveRate, alarm["client"])
  BY Facts, FactsAfter DEF Before, Live

LEMMA LiveAfter ==
    ASSUME Before,
           Told(connected'["client"], connected'["server"], line'["server"]),
           Told(connected'["server"], connected'["client"], line'["client"]),
           ServerHears(queue'["server"], line'["server"], line'["client"], connected'["client"]),
           ClientHears(queue'["client"], queue'["server"], line'["server"], line'["client"],
                       connected'["server"], parser', adopting'),
           connected'["client"] /\ connected'["server"] =>
              Agreed(line'["client"], Adopted', keepAliveRate', alarm'["client"])
    PROVE  Live'
  BY DEF Live

LEMMA OptionsLive ==
    ASSUME Before, NEW option \in Rates \cup {NoOption}, sendOptions(option),
           On("server"), UNCHANGED <<connected, parser>>, adopting' = FALSE
    PROVE  Live'
<1> DEFINE two == <<Msg("resetOptions"), SetOptions(option)>>
           s == line["server"]
           c == line["client"]
<1>1. two \in Seq(Messages) /\ two[1] = Msg("resetOptions") /\ two # <<>> /\ line \in Lines
  BY MsgTypes DEF Before, IInv, Types
<1> HIDE DEF two
<1>2. line'["server"] = s /\ line'["client"] = c \o two
  <2>1. line' = Sent(line, "server", two) /\ ~silent /\ "server" \in Ends
    BY Constants DEF sendOptions, Before, two
  <2> QED BY <1>1, <2>1, SentLive, Constants
<1>3. connected["server"] /\ parser = "ready" /\ connected'["server"] /\ Adopted' = TRUE
  BY DEF On, Adopted
<1>4. s \in Seq(Messages) /\ c \in Seq(Messages)
  BY LiveBefore DEF ServerFacts, ClientFacts
<1>5. Told(connected'["client"], connected'["server"], line'["server"])
  BY <1>2, LiveBefore
<1>6. Told(connected'["server"], connected'["client"], line'["client"])
  BY <1>3 DEF Told
<1>7. quiet'["server"] = 0 /\ queue'["client"] = queue["client"] /\ alarm'["client"] = alarm["client"]
  BY Constants DEF sendOptions, Before, IInv, Types
<1>8. ServerHears(queue'["server"], line'["server"], line'["client"], connected'["client"])
  <2>1. Told(connected'["client"], TRUE, s)
    BY <1>2, <1>3, <1>5 DEF Told
  <2>2. "alarm" \in Running(queue'["server"]) =>
           /\ Left(queue'["server"]) \in Int /\ KLeft(queue'["server"]) \in Int
           /\ Left(queue'["server"]) = 3 * keepAliveRate' /\ KLeft(queue'["server"]) <= keepAliveRate'
           /\ keepAliveRate' \in Rates \cup {KeepAliveRate} /\ 3 * keepAliveRate' > 0
    BY <1>7, LiveBefore DEF ServerFacts
  <2> QED BY <1>2, <1>4, <2>1, <2>2, ServerRestarted
<1>9. ClientHears(queue'["client"], queue'["server"], line'["server"], line'["client"],
                  connected'["server"], parser', adopting')
  <2>1. SUFFICES ASSUME "alarm" \in Running(queue["client"])
                 PROVE  Within(c \o two, Restarting, Left(queue["client"]))
    BY <1>2, <1>7 DEF ClientHears
  <2>2. Left(queue["client"]) \in Int
    BY <2>1, LiveBefore DEF ClientFacts
  <2>3. Within(c, Restarting, Left(queue["client"])) \/ Left(queue["client"]) > MaxDelay
    BY <2>1, LiveBefore, ClientAlive
  <2>4. CASE Within(c, Restarting, Left(queue["client"]))
    BY <1>1, <1>4, <2>4, WithinKept
  <2>5. CASE Left(queue["client"]) > MaxDelay
    BY <1>1, <1>4, <2>2, <2>5, WithinNew, AgelessSets
  <2> QED BY <2>3, <2>4, <2>5
<1>10. ASSUME connected'["client"], connected'["server"]
       PROVE  Agreed(line'["client"], Adopted', keepAliveRate', alarm'["client"])
  <2>1. Agreed(c, Adopted, keepAliveRate, alarm["client"])
    BY <1>3, <1>10, LiveBefore
  <2>2. keepAliveRate' = RateOf(option)
    BY OptionsLengths DEF Before
  <2>3. Agreed(c \o two, TRUE, keepAliveRate', alarm["client"])
    BY <1>4, <2>1, <2>2, AgreedOptions DEF two
  <2> QED BY <1>2, <1>3, <1>7, <2>3
<1> QED BY <1>5, <1>6, <1>8, <1>9, <1>10, LiveAfter

LEMMA ProxyLive ==
    ASSUME Before, newProxy, connected["server"], line["server"] # <<>>, ~adopting,
           Head(line["server"]).kind = "helloBack"
    PROVE  Live'
<1> DEFINE s == line["server"]
           c == line["client"]
           one == <<Msg("queryInfo")>>
           l == [line EXCEPT !["server"] = Tail(@)]
<1>1. s \in Seq(Messages) /\ c \in Seq(Messages) /\ line \in Lines
  BY LiveBefore DEF ServerFacts, ClientFacts, Before, IInv, Types
<1>2. l \in Lines /\ l["server"] = Tail(s) /\ l["client"] = c
  BY <1>1, Constants, TakenServer DEF Before, IInv, Lines
<1>3. one \in Seq(Messages) /\ one # <<>> /\ one[1] = Msg("queryInfo")
  BY MsgTypes
<1>4. /\ parser' = "handshake" /\ keepAliveRate' = KeepAliveRate /\ line' = Sent(l, "server", one)
      /\ alarm' = [alarm EXCEPT !["server"] = KeepAliveRate * KeepAlivesUntilDeath]
      /\ UNCHANGED <<queue, connected, adopting>>
  BY DEF newProxy
<1> HIDE DEF l, one
<1>5. line'["server"] = Tail(s) /\ line'["client"] = c \o one
  <2>1. ~silent /\ l \in Lines /\ one \in Seq(Messages)
    BY <1>2, <1>3 DEF Before
  <2>2. Sent(l, "server", one)["client"] = l["client"] \o one /\ Sent(l, "server", one)["server"] = l["server"]
    BY <2>1, SentLive
  <2> QED BY <1>2, <1>4, <2>2
<1>6. parser = "none"
  <2>1. 1 \in 1..Len(s) /\ s[1] = Head(s)
    BY <1>1
  <2> QED BY <2>1 DEF Before, IInv, Hello, HelloOn
<1>7. Told(connected'["client"], connected'["server"], line'["server"])
  BY <1>1, <1>4, <1>5, LiveBefore, ToldRead
<1>8. Told(connected'["server"], connected'["client"], line'["client"])
  BY <1>4 DEF Told
<1>9. ServerHears(queue'["server"], line'["server"], line'["client"], connected'["client"])
  <2>1. "alarm" \notin Running(queue'["server"])
    BY <1>4, LiveBefore DEF ServerFacts
  <2> QED BY <2>1 DEF ServerHears
<1>10. ClientHears(queue'["client"], queue'["server"], line'["server"], line'["client"],
                   connected'["server"], parser', adopting')
  <2> DEFINE n == Left(queue["client"])
  <2>1. SUFFICES ASSUME "alarm" \in Running(queue["client"])
                 PROVE  Within(c \o one, Restarting, n) \/ Within(c \o one, Kinds({"queryInfo"}), n - 2 * MaxDelay)
    BY <1>4, <1>5 DEF ClientHears
  <2>2. n \in Int
    BY <2>1, LiveBefore DEF ClientFacts
  <2>3. "alarm" \notin Running(queue["server"])
    BY <1>6, LiveBefore DEF ServerFacts
  <2>4. Within(c, Restarting, n) \/ Within(s, Messages, n - 3 * MaxDelay)
    BY <1>6, <2>1, <2>3, LiveBefore DEF ClientHears
  <2> HIDE DEF n
  <2>5. CASE Within(c, Restarting, n)
    BY <1>1, <1>3, <2>5, WithinKept
  <2>6. CASE Within(s, Messages, n - 3 * MaxDelay)
    <3>1. n - 3 * MaxDelay \in Int /\ n - 2 * MaxDelay \in Int
      BY <2>2, Constants
    <3>2. n - 3 * MaxDelay > 0
      BY <1>1, <2>6, <3>1, WithinPositive
    <3>3. n - 2 * MaxDelay > MaxDelay
      BY <2>2, <3>2, Constants
    <3> QED BY <1>1, <1>3, <3>1, <3>3, WithinNew, AgelessSets
  <2> QED BY <2>4, <2>5, <2>6
<1>11. ASSUME connected'["client"], connected'["server"]
       PROVE  Agreed(line'["client"], Adopted', keepAliveRate', alarm'["client"])
  <2>1. Agreed(c, Adopted, keepAliveRate, alarm["client"]) /\ ~Adopted /\ ~Adopted'
    BY <1>4, <1>6, <1>11, LiveBefore DEF Adopted
  <2>2. alarm'["client"] = alarm["client"]
    BY <1>4, Constants DEF Before, IInv, Types
  <2>3. Agreed(c, Adopted', keepAliveRate', alarm["client"])
    BY <1>1, <2>1, AgreedBefore
  <2>4. Msg("queryInfo") \in Messages /\ Msg("queryInfo").kind = "queryInfo"
    BY AgelessSets
  <2>5. Agreed(c \o one, Adopted', keepAliveRate', alarm["client"])
    BY <1>1, <2>3, <2>4, AgreedSent DEF one, OptionKinds
  <2> QED BY <1>5, <2>2, <2>5
<1> QED BY <1>7, <1>8, <1>9, <1>10, <1>11, LiveAfter

LEMMA MessageLive ==
    ASSUME Before, connected["server"], line["server"] # <<>>, ~adopting, Head(line["server"]).kind # "close",
           \/ parser = "ready" /\ clientMessage
           \/ parser # "ready" /\ handshakeInfo
    PROVE  Live'
<1> DEFINE s == line["server"]
           c == line["client"]
           n == Left(queue["client"])
<1>1. s \in Seq(Messages) /\ c \in Seq(Messages) /\ line \in Lines /\ Tail(s) \in Seq(Messages)
      /\ queue = [p \in Ends |-> queue[p]]
  <2>1. line \in Lines /\ queue = [p \in Ends |-> queue[p]]
    BY DEF Before, IInv, Types
  <2>2. s \in Seq(Messages) /\ c \in Seq(Messages)
    BY <2>1, Constants DEF Lines
  <2>3. Tail(s) \in Seq(Messages)
    BY <2>2
  <2> QED BY <2>1, <2>2, <2>3
<1>2. /\ line' = [line EXCEPT !["server"] = Tail(@)] /\ UNCHANGED <<connected, keepAliveRate, alarm>>
      /\ quiet' = [quiet EXCEPT !["server"] = 0] /\ parser' = "ready"
      /\ \E r : queue' = [queue EXCEPT !["server"] = r]
  BY DEF clientMessage, handshakeInfo
<1>3. line'["server"] = Tail(s) /\ line'["client"] = c /\ quiet'["server"] = 0
      /\ queue'["client"] = queue["client"]
  BY <1>1, <1>2, Constants DEF Before, IInv, Types, Lines
<1>4. Told(connected'["client"], connected'["server"], line'["server"])
  <2>1. Told(connected["client"], connected["server"], s)
    BY LiveBefore
  <2>2. Told(connected["client"], connected["server"], Tail(s))
    BY <1>1, <2>1, ToldRead
  <2> QED BY <1>2, <1>3, <2>2
<1>5. Told(connected'["server"], connected'["client"], line'["client"])
  BY <1>2 DEF Told
<1>6. ServerHears(queue'["server"], line'["server"], line'["client"], connected'["client"])
  <2>1. Told(connected'["client"], TRUE, line'["server"])
    BY <1>2, <1>4 DEF Told
  <2>2. "alarm" \in Running(queue'["server"]) =>
           /\ Left(queue'["server"]) \in Int /\ KLeft(queue'["server"]) \in Int
           /\ Left(queue'["server"]) = 3 * keepAliveRate' /\ KLeft(queue'["server"]) <= keepAliveRate'
           /\ keepAliveRate' \in Rates \cup {KeepAliveRate} /\ 3 * keepAliveRate' > 0
    BY <1>3, LiveBefore DEF ServerFacts
  <2> QED BY <1>1, <1>3, <2>1, <2>2, ServerRestarted
<1>7. CASE parser = "ready" /\ clientMessage
  <2>1. ClientHears(queue'["client"], queue'["server"], line'["server"], line'["client"],
                    connected'["server"], parser', adopting')
    <3>1. SUFFICES ASSUME "alarm" \in Running(queue["client"])
                   PROVE  \/ Within(c, Restarting, n)
                          \/ "alarm" \in Running(queue'["server"]) /\ n > KLeft(queue'["server"]) + MaxLag + MaxDelay
      BY <1>2, <1>3 DEF ClientHears
    <3>2. \/ Within(c, Restarting, n)
          \/ "alarm" \in Running(queue["server"]) /\ n > KLeft(queue["server"]) + MaxLag + MaxDelay
      BY <1>7, <3>1, LiveBefore DEF ClientHears
    <3>3. CASE "alarm" \in Running(queue["server"]) /\ n > KLeft(queue["server"]) + MaxLag + MaxDelay
      <4> DEFINE r == resetHeartbeatTimer(queue["server"], alarm["server"])
      <4>1. "alarm" \in Running(queue'["server"])
        BY <1>2, <3>3, LiveBefore DEF ServerFacts
      <4>2. IsQueue(queue["server"]) /\ Beats(queue["server"], keepAliveRate) /\ alarm["server"] \in Int
        BY <3>3, LiveBefore, Constants DEF ServerFacts, Before, IInv, Types
      <4>3. KLeft(r) = KLeft(queue["server"])
        BY <4>2, BeatsReset
      <4>4. queue'["server"] = r
        <5>1. queue' = [queue EXCEPT !["server"] = r]
          BY <1>7 DEF clientMessage
        <5> HIDE DEF r
        <5> QED BY <1>1, <5>1, Constants
      <4> HIDE DEF n, r
      <4> QED BY <3>3, <4>1, <4>3, <4>4
    <3> QED BY <3>2, <3>3
  <2>2. Adopted' = Adopted
    BY <1>7 DEF clientMessage, Adopted
  <2>3. connected'["client"] /\ connected'["server"] =>
           Agreed(line'["client"], Adopted', keepAliveRate', alarm'["client"])
    BY <1>2, <1>3, <2>2, LiveBefore
  <2> QED BY <1>4, <1>5, <1>6, <2>1, <2>3, LiveAfter
<1>8. CASE parser # "ready" /\ handshakeInfo
  <2>1. adopting' = TRUE
    BY <1>8 DEF handshakeInfo
  <2>2. ClientHears(queue'["client"], queue'["server"], line'["server"], line'["client"],
                    connected'["server"], parser', adopting')
    <3>1. SUFFICES ASSUME "alarm" \in Running(queue["client"]) PROVE Within(c, Restarting, n) \/ n > MaxDelay
      BY <1>2, <1>3, <2>1 DEF ClientHears
    <3> QED BY <3>1, LiveBefore, ClientAlive
  <2>3. ASSUME connected'["client"], connected'["server"]
        PROVE  Agreed(line'["client"], Adopted', keepAliveRate', alarm'["client"])
    <3>1. Agreed(c, Adopted, keepAliveRate, alarm["client"]) /\ ~Adopted /\ ~Adopted'
      BY <1>2, <1>8, <2>1, <2>3, LiveBefore DEF Adopted
    <3>2. Agreed(c, Adopted', keepAliveRate', alarm["client"])
      BY <1>1, <3>1, AgreedBefore
    <3> QED BY <1>2, <1>3, <3>2
  <2> QED BY <1>4, <1>5, <1>6, <2>2, <2>3, LiveAfter
<1> QED BY <1>7, <1>8

LEMMA DisconnectLive ==
    ASSUME Before, NEW p \in Ends, disconnect(p)
    PROVE  Live'
<1> DEFINE s == line["server"]
           c == line["client"]
           one == <<Msg("close")>>
           l == Sent(line, p, one)
<1>1. s \in Seq(Messages) /\ c \in Seq(Messages) /\ line \in Lines /\ ~silent
  BY LiveBefore DEF ServerFacts, ClientFacts, Before, IInv, Types
<1>2. /\ one \in Seq(Messages) /\ one # <<>> /\ one[1] = Msg("close") /\ Msg("close").age = 0
      /\ Msg("close") \in Messages /\ Msg("close") \in Kinds({"close"}) /\ Msg("close") \in Restarting
  BY AgelessSets
<1>3. /\ line' = [l EXCEPT ![p] = <<>>] /\ connected' = [connected EXCEPT ![p] = FALSE]
      /\ \E r : queue' = [queue EXCEPT ![p] = r]
  BY DEF disconnect
<1>4. queue = [e \in Ends |-> queue[e]] /\ connected \in [Ends -> BOOLEAN]
  BY DEF Before, IInv, Types
<1> HIDE DEF one
<1>5. MaxDelay + 1 \in Int /\ MaxDelay + 1 > MaxDelay
  BY Constants
<1>6. CASE p = "client"
  <2>1. l \in Lines /\ l["server"] = s \o one
    BY <1>1, <1>2, <1>6, SentLive
  <2> HIDE DEF l
  <2>2. line'["server"] = s \o one /\ ~connected'["client"] /\ connected'["server"] = connected["server"]
        /\ queue'["server"] = queue["server"]
    BY <1>3, <1>4, <1>6, <2>1, Constants DEF Lines
  <2>3. Told(connected'["client"], connected'["server"], line'["server"])
    BY <1>1, <1>2, <1>5, <2>2, WithinNew DEF Told
  <2>4. Told(connected'["server"], connected'["client"], line'["client"])
    BY <2>2 DEF Told
  <2>5. ServerHears(queue'["server"], line'["server"], line'["client"], connected'["client"])
    <3> DEFINE n == Left(queue["server"])
    <3>1. SUFFICES ASSUME "alarm" \in Running(queue["server"]) PROVE Within(s \o one, Messages, n)
      BY <2>2 DEF ServerHears
    <3>2. n \in Int /\ (Within(s, Messages, n) \/ n > MaxDelay)
      BY <3>1, LiveBefore, ServerAlive DEF ServerFacts
    <3> HIDE DEF n
    <3>3. CASE Within(s, Messages, n)
      BY <1>1, <1>2, <3>3, WithinKept
    <3>4. CASE n > MaxDelay
      BY <1>1, <1>2, <3>2, <3>4, WithinNew
    <3> QED BY <3>2, <3>3, <3>4
  <2>6. "alarm" \notin Running(queue'["client"])
    BY <2>2, LiveBefore DEF ClientFacts
  <2>7. ClientHears(queue'["client"], queue'["server"], line'["server"], line'["client"],
                    connected'["server"], parser', adopting')
    BY <2>6 DEF ClientHears
  <2> QED BY <2>2, <2>3, <2>4, <2>5, <2>7, LiveAfter
<1>7. CASE p = "server"
  <2>1. l \in Lines /\ l["client"] = c \o one
    BY <1>1, <1>2, <1>7, SentLive
  <2> HIDE DEF l
  <2>2. line'["client"] = c \o one /\ ~connected'["server"] /\ connected'["client"] = connected["client"]
        /\ queue'["client"] = queue["client"]
    BY <1>3, <1>4, <1>7, <2>1, Constants DEF Lines
  <2>3. Told(connected'["server"], connected'["client"], line'["client"])
    BY <1>1, <1>2, <1>5, <2>2, WithinNew DEF Told
  <2>4. Told(connected'["client"], connected'["server"], line'["server"])
    BY <2>2 DEF Told
  <2>5. ClientHears(queue'["client"], queue'["server"], line'["server"], line'["client"],
                    connected'["server"], parser', adopting')
    <3> DEFINE n == Left(queue["client"])
    <3>1. SUFFICES ASSUME "alarm" \in Running(queue["client"]) PROVE Within(c \o one, Restarting, n)
      BY <2>2 DEF ClientHears
    <3>2. n \in Int /\ (Within(c, Restarting, n) \/ n > MaxDelay)
      BY <3>1, LiveBefore, ClientAlive DEF ClientFacts
    <3> HIDE DEF n
    <3>3. CASE Within(c, Restarting, n)
      BY <1>1, <1>2, <3>3, WithinKept
    <3>4. CASE n > MaxDelay
      BY <1>1, <1>2, <3>2, <3>4, WithinNew
    <3> QED BY <3>2, <3>3, <3>4
  <2>6. "alarm" \notin Running(queue'["server"])
    BY <2>2, LiveBefore DEF ServerFacts
  <2>7. ServerHears(queue'["server"], line'["server"], line'["client"], connected'["client"])
    BY <2>6 DEF ServerHears
  <2> QED BY <2>2, <2>3, <2>4, <2>5, <2>7, LiveAfter
<1> QED BY <1>6, <1>7, Constants

\* The client reads a message that does not end the connection, and writes t.
LEMMA ClientReadLive ==
    ASSUME Before, NEW t, t \in Seq(Messages), connected["client"], line["client"] # <<>>,
           Head(line["client"]).kind # "close",
           line'["server"] = line["server"] \o t, line'["client"] = Tail(line["client"]),
           queue'["server"] = queue["server"], UNCHANGED <<connected, parser, adopting, keepAliveRate>>,
           Head(line["client"]).kind = "keepAlive" => t = <<Msg("keepAlive")>>,
           alarm'["client"] = IF Head(line["client"]).kind = "resetOptions"
                              THEN KeepAlivesUntilDeath * KeepAliveRate
                              ELSE IF /\ Head(line["client"]).kind = "setOptions"
                                      /\ Head(line["client"]).rate # NoOption
                                   THEN KeepAlivesUntilDeath * Head(line["client"]).rate
                              ELSE alarm["client"],
           \/ quiet'["client"] = 0 /\ Head(line["client"]).kind \in {"keepAlive", "resetOptions", "setOptions"}
           \/ /\ queue'["client"] = queue["client"] /\ Head(line["client"]) \notin Restarting
              /\ Head(line["client"]).kind = "queryInfo" => t = <<Msg("info")>>
    PROVE  Live'
<1> DEFINE s == line["server"]
           c == line["client"]
           m == Head(c)
<1>1. s \in Seq(Messages) /\ c \in Seq(Messages) /\ keepAliveRate \in Int
  BY LiveBefore DEF ServerFacts, ClientFacts
<1>2. m \in Messages /\ Tail(c) \in Seq(Messages) /\ s \o t \in Seq(Messages)
  BY <1>1
<1>3. Told(connected'["client"], connected'["server"], line'["server"])
  BY DEF Told
<1>4. Told(connected'["server"], connected'["client"], line'["client"])
  <2>1. Told(connected["server"], connected["client"], c)
    BY LiveBefore
  <2>2. Told(connected["server"], connected["client"], Tail(c))
    BY <1>1, <2>1, ToldRead
  <2> QED BY <2>2
<1>5. connected["server"] => Agreed(c, Adopted, keepAliveRate, alarm["client"])
  BY LiveBefore
<1>6. Adopted' = Adopted
  BY DEF Adopted
<1>7. connected["server"] => Agreed(Tail(c), Adopted, keepAliveRate, alarm'["client"])
  BY <1>1, <1>5, AgreedRead
<1>8. ServerHears(queue'["server"], line'["server"], line'["client"], connected'["client"])
  <2> DEFINE n == Left(queue["server"])
             k == KLeft(queue["server"])
  <2>1. SUFFICES ASSUME "alarm" \in Running(queue["server"])
                 PROVE  \/ Within(s \o t, Messages, n)
                        \/ Within(Tail(c), Kinds({"keepAlive"}), n - MaxDelay)
                        \/ n > k + MaxLag + 2 * MaxDelay
    BY DEF ServerHears
  <2>2. \/ Within(s, Messages, n)
        \/ Within(c, Kinds({"keepAlive"}), n - MaxDelay)
        \/ n > k + MaxLag + 2 * MaxDelay
    BY <2>1, LiveBefore DEF ServerHears
  <2>3. n \in Int /\ n - MaxDelay \in Int
    <3>1. n \in Int
      BY <2>1, LiveBefore DEF ServerFacts
    <3> QED BY <3>1, Constants
  <2> HIDE DEF n, k
  <2>4. CASE Within(s, Messages, n)
    BY <1>1, <2>4, WithinKept
  <2>5. CASE Within(c, Kinds({"keepAlive"}), n - MaxDelay)
    <3>1. CASE m.kind = "keepAlive"
      <4>1. t = <<Msg("keepAlive")>>
        BY <3>1
      <4>2. t # <<>> /\ t[1] = Msg("keepAlive")
        BY <4>1
      <4>3. n - MaxDelay > 0
        BY <1>1, <2>3, <2>5, WithinPositive
      <4>4. n > MaxDelay
        BY <2>3, <4>3, Constants
      <4>5. t[1] \in Messages /\ t[1].age = 0
        BY <4>2, AgelessSets
      <4> QED BY <1>1, <2>3, <4>2, <4>4, <4>5, WithinNew
    <3>2. CASE m.kind # "keepAlive"
      <4>1. m \notin Kinds({"keepAlive"})
        BY <3>2 DEF Kinds
      <4> QED BY <1>1, <2>5, <4>1, WithinRead
    <3> QED BY <3>1, <3>2
  <2> QED BY <2>2, <2>4, <2>5
<1>9. CASE quiet'["client"] = 0 /\ m.kind \in {"keepAlive", "resetOptions", "setOptions"}
  <2>1. connected["server"] => Agreed(Tail(c), TRUE, keepAliveRate, alarm'["client"])
    <3>1. SUFFICES ASSUME connected["server"] PROVE Agreed(Tail(c), TRUE, keepAliveRate, alarm'["client"])
      OBVIOUS
    <3>2. 1 \in 1..Len(c) /\ c[1] = m
      BY <1>1
    <3>3. Adopted
      BY <1>5, <1>9, <3>1, <3>2 DEF Agreed
    <3>4. Adopted = TRUE
      BY <3>3 DEF Adopted
    <3> QED BY <1>7, <3>1, <3>4
  <2>2. Told(connected'["server"], TRUE, Tail(c))
    BY <1>4 DEF Told
  <2>3. "alarm" \in Running(queue'["client"]) =>
           /\ Left(queue'["client"]) \in Int /\ Left(queue'["client"]) = alarm'["client"]
           /\ alarm'["client"] > 0
    BY <1>9, LiveBefore DEF ClientFacts
  <2>4. \E x \in Rates \cup {KeepAliveRate} : alarm'["client"] = KeepAlivesUntilDeath * x
    BY DEF Before, Lengths
  <2>5. /\ connected'["server"] => /\ Agreed(Tail(c), TRUE, keepAliveRate, alarm'["client"])
                                   /\ keepAliveRate \in Int
                                   /\ 3 * keepAliveRate > 0 => "alarm" \in Running(queue'["server"])
        /\ "alarm" \in Running(queue'["server"]) =>
              KLeft(queue'["server"]) \in Int /\ KLeft(queue'["server"]) <= keepAliveRate
    <3>1. connected["server"] /\ 3 * keepAliveRate > 0 => "alarm" \in Running(queue["server"])
      <4>1. SUFFICES ASSUME connected["server"], 3 * keepAliveRate > 0 PROVE "alarm" \in Running(queue["server"])
        OBVIOUS
      <4>2. parser = "ready"
        <5>1. 1 \in 1..Len(c) /\ c[1] = m
          BY <1>1
        <5>2. Adopted
          BY <1>5, <1>9, <4>1, <5>1 DEF Agreed
        <5> QED BY <5>2 DEF Adopted
      <4> QED BY <4>1, <4>2, LiveBefore DEF ServerFacts
    <3>2. "alarm" \in Running(queue["server"]) =>
              KLeft(queue["server"]) \in Int /\ KLeft(queue["server"]) <= keepAliveRate
      BY LiveBefore DEF ServerFacts
    <3> QED BY <1>1, <2>1, <3>1, <3>2
  <2>6. ClientHears(queue'["client"], queue'["server"], line'["server"], Tail(c),
                    connected'["server"], parser', adopting')
    <3> HIDE DEF c
    <3> QED BY <1>2, <2>2, <2>3, <2>4, <2>5, ClientRestarted
  <2> QED BY <1>3, <1>4, <1>6, <1>7, <1>8, <2>6, LiveAfter
<1>10. CASE /\ queue'["client"] = queue["client"] /\ m \notin Restarting
            /\ m.kind = "queryInfo" => t = <<Msg("info")>>
  <2> DEFINE n == Left(queue["client"])
             k == KLeft(queue["server"])
  <2>1. ClientHears(queue'["client"], queue'["server"], line'["server"], line'["client"],
                    connected'["server"], parser', adopting')
    <3>1. SUFFICES ASSUME "alarm" \in Running(queue["client"])
                   PROVE  \/ Within(Tail(c), Restarting, n)
                          \/ connected["server"] /\
                               \/ parser = "none" /\ Within(s \o t, Messages, n - 3 * MaxDelay)
                               \/ parser = "handshake" /\ Within(Tail(c), Kinds({"queryInfo"}), n - 2 * MaxDelay)
                               \/ parser = "handshake" /\ Within(s \o t, Messages, n - MaxDelay)
                               \/ adopting /\ n > MaxDelay
                               \/ "alarm" \in Running(queue["server"]) /\ n > k + MaxLag + MaxDelay
      BY <1>10 DEF ClientHears
    <3>2. \/ Within(c, Restarting, n)
          \/ connected["server"] /\
               \/ parser = "none" /\ Within(s, Messages, n - 3 * MaxDelay)
               \/ parser = "handshake" /\ Within(c, Kinds({"queryInfo"}), n - 2 * MaxDelay)
               \/ parser = "handshake" /\ Within(s, Messages, n - MaxDelay)
               \/ adopting /\ n > MaxDelay
               \/ "alarm" \in Running(queue["server"]) /\ n > k + MaxLag + MaxDelay
      BY <3>1, LiveBefore DEF ClientHears
    <3>3. n \in Int
      BY <3>1, LiveBefore DEF ClientFacts
    <3> HIDE DEF n, k
    <3>4. n - 2 * MaxDelay \in Int /\ n - MaxDelay \in Int
      BY <3>3, Constants
    <3>5. Within(c, Restarting, n) => Within(Tail(c), Restarting, n)
      BY <1>1, <1>10, WithinRead
    <3>6. \A i \in Int : Within(s, Messages, i) => Within(s \o t, Messages, i)
      BY <1>1, WithinKept
    <3>7. Within(c, Kinds({"queryInfo"}), n - 2 * MaxDelay) =>
             Within(Tail(c), Kinds({"queryInfo"}), n - 2 * MaxDelay) \/ Within(s \o t, Messages, n - MaxDelay)
      <4>1. SUFFICES ASSUME Within(c, Kinds({"queryInfo"}), n - 2 * MaxDelay)
                     PROVE  \/ Within(Tail(c), Kinds({"queryInfo"}), n - 2 * MaxDelay)
                            \/ Within(s \o t, Messages, n - MaxDelay)
        OBVIOUS
      <4>2. CASE m.kind = "queryInfo"
        <5>1. t = <<Msg("info")>>
          BY <1>10, <4>2
        <5>2. t # <<>> /\ t[1] = Msg("info")
          BY <5>1
        <5>3. n - 2 * MaxDelay > 0
          BY <1>1, <3>4, <4>1, WithinPositive
        <5>4. n - MaxDelay > MaxDelay
          BY <3>3, <5>3, Constants
        <5>5. t[1] \in Messages /\ t[1].age = 0
          BY <5>2, AgelessSets
        <5> QED BY <1>1, <3>4, <5>2, <5>4, <5>5, WithinNew
      <4>3. CASE m.kind # "queryInfo"
        <5>1. m \notin Kinds({"queryInfo"})
          BY <4>3 DEF Kinds
        <5> QED BY <1>1, <4>1, <5>1, WithinRead
      <4> QED BY <4>2, <4>3
    <3>8. n - 3 * MaxDelay \in Int
      BY <3>3, Constants
    <3> HIDE DEF s, c, m
    <3> QED BY <3>2, <3>4, <3>5, <3>6, <3>7, <3>8
  <2> QED BY <1>3, <1>4, <1>6, <1>7, <1>8, <2>1, LiveAfter
<1> QED BY <1>9, <1>10

LEMMA ClientLive == Before /\ clientReads => Live'
<1> SUFFICES ASSUME Before, clientReads PROVE Live'
  OBVIOUS
<1> DEFINE c == line["client"]
           m == Head(c)
           l == [line EXCEPT !["client"] = Tail(@)]
<1>1. connected["client"] /\ c # <<>>
  BY DEF clientReads
<1>2. line \in Lines /\ queue = [e \in Ends |-> queue[e]] /\ alarm \in [Ends -> Int]
      /\ quiet \in [Ends -> Nat] /\ ~silent
  BY DEF Before, IInv, Types
<1>3. l \in Lines /\ m \in Messages /\ l["client"] = Tail(c) /\ l["server"] = line["server"]
  BY <1>1, <1>2, TakenClient, Constants DEF Lines
<1>4. CASE m.kind = "close"
  <2>1. disconnect("client")
    BY <1>4 DEF clientReads
  <2> QED BY <2>1, DisconnectLive, Constants
<1>5. CASE m.kind # "close"
  <2>1. UNCHANGED <<connected, parser, adopting, keepAliveRate>>
    BY <1>5 DEF clientReads
  <2>a. \/ m.kind = "keepAlive" /\ Echo
        \/ m.kind = "queryInfo" /\ queryInfo
        \/ m.kind = "resetOptions" /\ Take /\ setKeepAliveRate(KeepAliveRate)
        \/ m.kind = "setOptions" /\ m.rate # NoOption /\ Take /\ setKeepAliveRate(m.rate)
        \/ m.kind = "setOptions" /\ m.rate = NoOption /\ Take /\ UNCHANGED <<queue, alarm, quiet>>
    BY <1>5 DEF clientReads
  <2>2. line["server"] \in Seq(Messages) /\ line["server"] \o <<>> = line["server"] /\ <<>> \in Seq(Messages)
    BY <1>2, Constants DEF Lines
  <2>3. CASE m.kind = "keepAlive"
    <3> DEFINE t == <<Msg("keepAlive")>>
    <3>1. Echo
      BY <2>a, <2>3
    <3>2. t \in Seq(Messages)
      BY MsgTypes
    <3>3. /\ line' = Sent(l, "client", t) /\ alarm' = alarm /\ quiet' = [quiet EXCEPT !["client"] = 0]
          /\ \E r : queue' = [queue EXCEPT !["client"] = r]
      BY <3>1 DEF Echo
    <3> HIDE DEF l
    <3>4. line'["server"] = line["server"] \o t /\ line'["client"] = Tail(c)
      <4> HIDE DEF t
      <4>1. Sent(l, "client", t)["server"] = l["server"] \o t /\ Sent(l, "client", t)["client"] = l["client"]
        BY <1>2, <1>3, <3>2, SentLive
      <4> QED BY <1>3, <3>3, <4>1
    <3>5. quiet'["client"] = 0 /\ queue'["server"] = queue["server"] /\ alarm'["client"] = alarm["client"]
      BY <1>2, <3>3, Constants
    <3> QED BY <1>1, <1>5, <2>1, <2>3, <3>2, <3>4, <3>5, ClientReadLive
  <2>4. CASE m.kind = "queryInfo"
    <3> DEFINE t == <<Msg("info")>>
    <3>1. queryInfo
      BY <2>a, <2>4
    <3>2. t \in Seq(Messages)
      BY MsgTypes
    <3>3. line' = Sent(l, "client", t) /\ UNCHANGED <<alarm, quiet, queue>>
      BY <3>1 DEF queryInfo
    <3> HIDE DEF l
    <3>4. line'["server"] = line["server"] \o t /\ line'["client"] = Tail(c)
      <4> HIDE DEF t
      <4>1. Sent(l, "client", t)["server"] = l["server"] \o t /\ Sent(l, "client", t)["client"] = l["client"]
        BY <1>2, <1>3, <3>2, SentLive
      <4> QED BY <1>3, <3>3, <4>1
    <3>5. m \notin Restarting
      BY <2>4 DEF Restarting
    <3> QED BY <1>1, <1>5, <2>1, <2>4, <3>2, <3>3, <3>4, <3>5, ClientReadLive
  <2>5. ASSUME Take PROVE line'["server"] = line["server"] \o <<>> /\ line'["client"] = Tail(c)
    <3>1. line' = l
      BY <2>5 DEF Take
    <3> HIDE DEF l
    <3> QED BY <1>3, <2>2, <3>1
  <2>6. ASSUME NEW rate, setKeepAliveRate(rate), rate \in Int
        PROVE  /\ alarm'["client"] = KeepAlivesUntilDeath * rate /\ quiet'["client"] = 0
               /\ queue'["server"] = queue["server"]
    <3>1. /\ alarm' = [alarm EXCEPT !["client"] = rate * KeepAlivesUntilDeath]
          /\ quiet' = [quiet EXCEPT !["client"] = 0] /\ \E r : queue' = [queue EXCEPT !["client"] = r]
      BY <2>6 DEF setKeepAliveRate
    <3>2. alarm'["client"] = rate * KeepAlivesUntilDeath /\ quiet'["client"] = 0
          /\ queue'["server"] = queue["server"]
      BY <1>2, <3>1, Constants
    <3>3. rate * KeepAlivesUntilDeath = KeepAlivesUntilDeath * rate
      BY <2>6, Constants
    <3> QED BY <3>2, <3>3
  <2>7. CASE m.kind = "resetOptions"
    <3>1. Take /\ setKeepAliveRate(KeepAliveRate)
      BY <2>a, <2>7
    <3>2. /\ alarm'["client"] = KeepAlivesUntilDeath * KeepAliveRate /\ quiet'["client"] = 0
          /\ queue'["server"] = queue["server"]
      BY <2>6, <3>1, Constants
    <3> QED BY <1>1, <2>1, <2>2, <2>5, <2>7, <3>1, <3>2, ClientReadLive
  <2>8. CASE m.kind = "setOptions" /\ m.rate = NoOption
    <3>1. Take /\ UNCHANGED <<queue, alarm, quiet>>
      BY <2>a, <2>8
    <3>2. m \notin Restarting
      BY <1>5, <2>8 DEF Restarting
    <3> QED BY <1>1, <1>5, <2>1, <2>2, <2>5, <2>8, <3>1, <3>2, ClientReadLive
  <2>9. CASE m.kind = "setOptions" /\ m.rate # NoOption
    <3>1. Take /\ setKeepAliveRate(m.rate)
      BY <2>a, <2>9
    <3>2. m.rate \in Int
      <4> HIDE DEF m
      <4>1. m.rate \in Rates
        BY <1>3, <2>9 DEF Messages
      <4>2. \A o \in Rates : o \in Int
        BY Constants
      <4> QED BY <4>1, <4>2, Zenon
    <3>3. /\ alarm'["client"] = KeepAlivesUntilDeath * m.rate /\ quiet'["client"] = 0
          /\ queue'["server"] = queue["server"]
      BY <2>6, <3>1, <3>2
    <3> QED BY <1>1, <2>1, <2>2, <2>5, <2>9, <3>1, <3>3, ClientReadLive
  <2> QED BY <2>a, <2>3, <2>4, <2>7, <2>8, <2>9
<1> QED BY <1>4, <1>5

LEMMA WritesLive == Before /\ clientWrites => Live'
<1> SUFFICES ASSUME Before, clientWrites PROVE Live'
  OBVIOUS
<1> DEFINE t == <<Msg("info")>>
           s == line["server"]
<1>1. line \in Lines /\ s \in Seq(Messages) /\ t \in Seq(Messages) /\ ~silent
  BY MsgTypes, LiveBefore DEF Before, IInv, Types, ServerFacts
<1>2. line' = Sent(line, "client", t) /\ UNCHANGED <<queue, connected, parser, adopting, keepAliveRate, alarm>>
  BY DEF clientWrites
<1> HIDE DEF t
<1>3. line'["server"] = s \o t /\ line'["client"] = line["client"]
  BY <1>1, <1>2, SentLive
<1>4. Told(connected'["client"], connected'["server"], line'["server"])
  BY <1>1, <1>2, <1>3, LiveBefore, ToldMore
<1>5. Told(connected'["server"], connected'["client"], line'["client"])
  BY <1>2, <1>3, LiveBefore
<1>6. ServerHears(queue'["server"], line'["server"], line'["client"], connected'["client"])
  BY <1>1, <1>2, <1>3, LiveBefore, HeardServer
<1>7. ClientHears(queue'["client"], queue'["server"], line'["server"], line'["client"],
                  connected'["server"], parser', adopting')
  BY <1>1, <1>2, <1>3, LiveBefore, HeardClient
<1>8. Adopted' = Adopted
  BY <1>2 DEF Adopted
<1> QED BY <1>2, <1>3, <1>4, <1>5, <1>6, <1>7, <1>8, LiveBefore, LiveAfter

\* A look at the timers, which may send a keep-alive but finds no alarm run out.
LEMMA TimerLive ==
    ASSUME Before, NEW p \in Ends, hasTimerExpired(p)
    PROVE  Live' /\ falseAlarm' = falseAlarm
<1> DEFINE q == countdown(queue[p])
           s == line["server"]
           c == line["client"]
<1>1. /\ queue = [e \in Ends |-> queue[e]] /\ IsQueue(queue[p]) /\ EndOk(p) /\ line \in Lines /\ ~silent
      /\ s \in Seq(Messages) /\ c \in Seq(Messages)
  BY LiveBefore DEF Before, IInv, Types, Alarms, ServerFacts, ClientFacts
<1>2. IsQueue(q) /\ Running(q) = Running(queue[p])
      /\ ("alarm" \in Running(queue[p]) => Left(q) = Left(queue[p]))
  BY <1>1, CountedQueue
<1>3. p = "server" /\ "alarm" \in Running(q) =>
         Beats(q, keepAliveRate) /\ q.time = 0 /\ KLeft(q) = KLeft(queue["server"])
  <2>1. SUFFICES ASSUME p = "server", "alarm" \in Running(q)
                 PROVE  Beats(q, keepAliveRate) /\ q.time = 0 /\ KLeft(q) = KLeft(queue["server"])
    OBVIOUS
  <2>2. Beats(queue[p], keepAliveRate)
    BY <1>2, <2>1, LiveBefore DEF ServerFacts
  <2> QED BY <1>1, <2>1, <2>2, BeatsCounted
<1>4. CASE Expired(q) = {}
  <2>1. queue' = [queue EXCEPT ![p] = q] /\ falseAlarm' = falseAlarm
        /\ UNCHANGED <<connected, parser, adopting, keepAliveRate, alarm, line>>
    BY <1>4 DEF hasTimerExpired
  <2> HIDE DEF q
  <2>2. \A e \in Ends : queue'[e] = IF e = p THEN q ELSE queue[e]
    BY <1>1, <2>1
  <2>3. \A e \in Ends : /\ "alarm" \in Running(queue'[e]) <=> "alarm" \in Running(queue[e])
                        /\ "alarm" \in Running(queue[e]) => Left(queue'[e]) = Left(queue[e])
    BY <1>2, <2>2
  <2>4. "alarm" \in Running(queue["server"]) => KLeft(queue'["server"]) = KLeft(queue["server"])
    BY <1>2, <1>3, <2>2, Constants
  <2>5. ServerHears(queue'["server"], line'["server"], line'["client"], connected'["client"])
    BY <2>1, <2>3, <2>4, LiveBefore, Constants DEF ServerHears
  <2>6. ClientHears(queue'["client"], queue'["server"], line'["server"], line'["client"],
                    connected'["server"], parser', adopting')
    BY <2>1, <2>3, <2>4, LiveBefore, Constants DEF ClientHears
  <2>7. Adopted' = Adopted
    BY <2>1 DEF Adopted
  <2> QED BY <2>1, <2>5, <2>6, <2>7, LiveBefore, LiveAfter
<1>5. CASE Expired(q) # {}
  <2>1. PICK t \in Expired(q) : IF t = "keepAlive" THEN keepAlive(q) ELSE flatline(p)
    BY <1>5 DEF hasTimerExpired
  <2>2. CASE t = "keepAlive"
    <3>1. "keepAlive" \in Running(q)
      BY <2>1, <2>2 DEF Expired, Top
    <3>2. p = "server" /\ "alarm" \in Running(q) /\ "alarm" \in Running(queue["server"])
      BY <1>1, <1>2, <3>1 DEF EndOk
    <3> DEFINE r == expire(q, "keepAlive")
               one == <<Msg("keepAlive")>>
    <3>3. /\ queue' = [queue EXCEPT !["server"] = r] /\ line' = Sent(line, "server", one)
          /\ UNCHANGED <<connected, parser, adopting, keepAliveRate, alarm, falseAlarm>>
      BY <2>1, <2>2 DEF keepAlive
    <3>4. /\ keepAliveRate \in Int /\ keepAliveRate > 0 /\ connected["server"] /\ parser = "ready"
          /\ Left(queue["server"]) \in Int /\ KLeft(queue["server"]) \in Int
          /\ -MaxLag <= KLeft(queue["server"])
      <4>1. /\ keepAliveRate \in Int /\ 3 * keepAliveRate > 0 /\ connected["server"] /\ parser = "ready"
            /\ Left(queue["server"]) \in Int /\ KLeft(queue["server"]) \in Int
            /\ -MaxLag <= KLeft(queue["server"])
        BY <3>2, LiveBefore DEF ServerFacts
      <4>2. keepAliveRate > 0
        BY <4>1
      <4> QED BY <4>1, <4>2
    <3>5. "alarm" \in Running(r) /\ Left(r) = Left(queue["server"])
      <4>1. "alarm" \in Running(r) /\ Left(r) = Left(q)
        <5> HIDE DEF q
        <5> QED BY <1>2, <3>1, <3>2, ExpiredQueue
      <4> HIDE DEF q, r
      <4> QED BY <1>2, <3>2, <4>1
    <3> HIDE DEF q, r
    <3>6. queue'["server"] = r /\ queue'["client"] = queue["client"]
      BY <1>1, <3>3, Constants
    <3>7. /\ one \in Seq(Messages) /\ one # <<>> /\ one[1] = Msg("keepAlive") /\ Msg("keepAlive").age = 0
          /\ Msg("keepAlive") \in Messages /\ Msg("keepAlive").kind = "keepAlive"
          /\ Msg("keepAlive") \in Kinds({"keepAlive"}) /\ Msg("keepAlive") \in Restarting
      BY AgelessSets
    <3> HIDE DEF one
    <3>8. line'["server"] = s /\ line'["client"] = c \o one
      BY <1>1, <3>3, <3>7, SentLive
    <3>9. Told(connected'["client"], connected'["server"], line'["server"])
      BY <3>3, <3>8, LiveBefore
    <3>10. Told(connected'["server"], connected'["client"], line'["client"])
      BY <3>3, <3>4 DEF Told
    <3>11. ServerHears(queue'["server"], line'["server"], line'["client"], connected'["client"])
      <4> DEFINE n == Left(queue["server"])
                 k == KLeft(queue["server"])
      <4>1. SUFFICES \/ Within(s, Messages, n)
                     \/ connected["client"] /\ Within(c \o one, Kinds({"keepAlive"}), n - MaxDelay)
        BY <3>3, <3>5, <3>6, <3>8 DEF ServerHears
      <4>2. \/ Within(s, Messages, n)
            \/ connected["client"] /\ Within(c, Kinds({"keepAlive"}), n - MaxDelay)
            \/ connected["client"] /\ n > k + MaxLag + 2 * MaxDelay
        BY <3>2, LiveBefore DEF ServerHears
      <4>3. n \in Int /\ k \in Int /\ -MaxLag <= k
        BY <3>4
      <4> HIDE DEF n, k
      <4>4. CASE connected["client"] /\ Within(c, Kinds({"keepAlive"}), n - MaxDelay)
        BY <1>1, <3>7, <4>4, WithinKept
      <4>5. CASE connected["client"] /\ n > k + MaxLag + 2 * MaxDelay
        <5>1. n - MaxDelay \in Int /\ n - MaxDelay > MaxDelay
          BY <4>3, <4>5, Constants
        <5> QED BY <1>1, <3>7, <4>5, <5>1, WithinNew
      <4> QED BY <4>2, <4>4, <4>5
    <3>12. ClientHears(queue'["client"], queue'["server"], line'["server"], line'["client"],
                       connected'["server"], parser', adopting')
      <4> DEFINE n == Left(queue["client"])
      <4>1. SUFFICES ASSUME "alarm" \in Running(queue["client"]) PROVE Within(c \o one, Restarting, n)
        BY <3>6, <3>8 DEF ClientHears
      <4>2. n \in Int /\ (Within(c, Restarting, n) \/ n > MaxDelay)
        BY <4>1, LiveBefore, ClientAlive DEF ClientFacts
      <4> HIDE DEF n
      <4>3. CASE Within(c, Restarting, n)
        BY <1>1, <3>7, <4>3, WithinKept
      <4>4. CASE n > MaxDelay
        BY <1>1, <3>7, <4>2, <4>4, WithinNew
      <4> QED BY <4>2, <4>3, <4>4
    <3>13. ASSUME connected'["client"], connected'["server"]
           PROVE  Agreed(line'["client"], Adopted', keepAliveRate', alarm'["client"])
      <4>1. Adopted' = Adopted /\ Adopted
        BY <3>2, <3>3, <3>4 DEF Adopted, hasTimerExpired
      <4>2. Agreed(c, Adopted, keepAliveRate, alarm["client"])
        BY <3>3, <3>13, LiveBefore
      <4>3. Agreed(c \o one, Adopted, keepAliveRate, alarm["client"])
        BY <1>1, <3>7, <4>1, <4>2, AgreedSent DEF one, OptionKinds
      <4> QED BY <3>3, <3>8, <4>1, <4>3
    <3>14. Live'
      BY <3>9, <3>10, <3>11, <3>12, <3>13, LiveAfter
    <3> QED BY <3>3, <3>14
  <2>3. CASE t # "keepAlive"
    <3>1. t = "alarm" /\ "alarm" \in Running(queue[p]) /\ q.timers["alarm"].left <= 0 /\ "alarm" \in Running(q)
      <4>1. t \in Running(q) /\ q.timers[t].left <= 0 /\ Running(q) \subseteq Names
        BY <1>2, <2>1 DEF Expired, Top, IsQueue
      <4> HIDE DEF q
      <4>2. t = "alarm"
        BY <2>3, <4>1 DEF Names
      <4> QED BY <1>2, <4>1, <4>2
    <3>2. Left(queue[p]) <= 0 /\ Left(queue[p]) \in Int
      <4>1. q.time \in Nat /\ q.timers["alarm"].left \in Int /\ Left(q) \in Int
        <5> HIDE DEF q
        <5> QED BY <1>2, <3>1, LeftTypes
      <4>2. Left(q) = Left(queue[p])
        BY <1>2, <3>1
      <4> HIDE DEF q
      <4>3. Left(q) <= 0
        BY <3>1, <4>1 DEF Left
      <4> QED BY <4>1, <4>2, <4>3
    <3>3. Left(queue[p]) > 0
      BY <3>1, LiveBefore, ServerAlive, ClientAlive, Constants
    <3> QED BY <3>2, <3>3
  <2> QED BY <2>2, <2>3
<1> QED BY <1>4, <1>5

\* Agreement does not depend on the age of messages.
LEMMA AgreedAged ==
    ASSUME NEW s, NEW t, NEW adopted, NEW rate, NEW a, Len(s) \in Nat, Agreed(s, adopted, rate, a), Len(t) = Len(s),
           \A i \in 1..Len(s) : t[i].kind = s[i].kind /\ t[i].rate = s[i].rate
    PROVE  Agreed(t, adopted, rate, a)
<1>1. Pairs(t, rate, a)
  <2>1. ASSUME NEW i \in 1..Len(t), t[i].kind = "resetOptions"
        PROVE  i + 1 \in 1..Len(t) /\ t[i + 1].kind = "setOptions"
    BY <2>1 DEF Agreed, Pairs
  <2>2. ASSUME NEW i \in 1..Len(t), t[i].kind = "setOptions"
        PROVE  /\ i > 1 => t[i - 1].kind = "resetOptions"
               /\ i = 1 => a = KeepAlivesUntilDeath * KeepAliveRate
               /\ RateOf(t[i].rate) = rate \/ \E j \in 1..Len(t) : j > i /\ t[j].kind = "resetOptions"
    <3>1. s[i].kind = "setOptions" /\ t[i].rate = s[i].rate
      BY <2>2
    <3>2. /\ i > 1 => s[i - 1].kind = "resetOptions"
          /\ i = 1 => a = KeepAlivesUntilDeath * KeepAliveRate
          /\ RateOf(s[i].rate) = rate \/ \E j \in 1..Len(s) : j > i /\ s[j].kind = "resetOptions"
      BY <3>1 DEF Agreed, Pairs
    <3>3. i > 1 => i - 1 \in 1..Len(s)
      OBVIOUS
    <3> QED BY <3>1, <3>2, <3>3
  <2> QED BY <2>1, <2>2 DEF Pairs
<1>2. (\A i \in 1..Len(t) : t[i].kind # "setOptions") <=> (\A i \in 1..Len(s) : s[i].kind # "setOptions")
  OBVIOUS
<1>3. ~adopted => \A i \in 1..Len(t) : t[i].kind \notin {"keepAlive", "resetOptions", "setOptions"}
  BY DEF Agreed
<1> QED BY <1>1, <1>2, <1>3 DEF Agreed

\* Time passes: what is waited for comes nearer as fast as the alarms run down.
LEMMA TickLive == Before /\ tick => Live'
<1> SUFFICES ASSUME Before, tick PROVE Live'
  OBVIOUS
<1> DEFINE s == line["server"]
           c == line["client"]
<1>1. /\ queue' = [p \in Ends |-> passTime(queue[p])]
      /\ UNCHANGED <<connected, parser, adopting, keepAliveRate, alarm>>
      /\ \A p \in Ends : ~MustLook(queue[p], MaxLag)
      /\ ~adopting
  BY DEF tick
<1>2. ASSUME NEW p \in Ends
      PROVE  /\ Running(queue'[p]) = Running(queue[p])
             /\ "alarm" \in Running(queue[p]) => Left(queue'[p]) = Left(queue[p]) - 1
  BY <1>1, PassedQueue DEF Before, IInv, Types
<1>3. ASSUME NEW p \in Ends
      PROVE  /\ line[p] \in Seq(Messages) /\ line'[p] \in Seq(Messages) /\ Len(line'[p]) = Len(line[p])
             /\ Len(line[p]) \in Nat
             /\ \A i \in 1..Len(line[p]) : /\ line'[p][i].kind = line[p][i].kind
                                           /\ line'[p][i].rate = line[p][i].rate
                                           /\ connected[p] => line'[p][i].age = line[p][i].age + 1
  <2> DEFINE l == line[p]
             aged(i) == IF connected[p] THEN [l[i] EXCEPT !.age = @ + 1] ELSE l[i]
  <2>1. l \in Seq(Messages) /\ DOMAIN l = 1..Len(l) /\ Len(l) \in Nat /\ line'[p] \in Seq(Messages)
    BY DEF Before, IInv, Types, Lines
  <2>2. line'[p] = [i \in 1..Len(l) |-> aged(i)]
    BY <2>1 DEF tick
  <2>3. ASSUME NEW i \in 1..Len(l)
        PROVE  aged(i).kind = l[i].kind /\ aged(i).rate = l[i].rate /\ (connected[p] => aged(i).age = l[i].age + 1)
    <3>1. l[i] \in Messages
      BY <2>1
    <3> QED BY <3>1 DEF Messages
  <2> HIDE DEF aged
  <2>4. Len(line'[p]) = Len(l)
    BY <2>1, <2>2
  <2>5. \A i \in 1..Len(l) : line'[p][i] = aged(i)
    BY <2>2
  <2> QED BY <2>1, <2>3, <2>4, <2>5
<1>4. ASSUME NEW p \in Ends, connected[p], NEW M, NEW n, Ageless(M), n \in Int, Within(line[p], M, n)
      PROVE  Within(line'[p], M, n - 1)
  BY <1>3, <1>4, WithinAged
<1>5. "alarm" \in Running(queue["server"]) => KLeft(queue'["server"]) = KLeft(queue["server"]) - 1
  <2>1. SUFFICES ASSUME "alarm" \in Running(queue["server"])
                 PROVE  KLeft(queue'["server"]) = KLeft(queue["server"]) - 1
    OBVIOUS
  <2>2. IsQueue(queue["server"]) /\ Beats(queue["server"], keepAliveRate) /\ keepAliveRate \in Int
    BY <2>1, LiveBefore DEF ServerFacts
  <2>3. ~MustLook(queue["server"], MaxLag) /\ queue'["server"] = passTime(queue["server"])
    BY <1>1, Constants
  <2> QED BY <2>2, <2>3, BeatsPassed
<1>6. ASSUME NEW p \in Ends, NEW up, Told(up, connected[p], line[p]) PROVE Told(up, connected[p], line'[p])
  <2>1. SUFFICES ASSUME ~up, connected[p] PROVE Within(line'[p], Kinds({"close"}), MaxDelay + 1)
    BY DEF Told
  <2>2. Within(line[p], Kinds({"close"}), MaxDelay + 1) /\ MaxDelay + 1 \in Int /\ (MaxDelay + 1) - 1 = MaxDelay
    BY <1>6, <2>1, Constants DEF Told
  <2>3. Within(line'[p], Kinds({"close"}), MaxDelay)
    BY <1>4, <2>1, <2>2, AgelessSets
  <2> QED BY <1>3, <2>2, <2>3, WithinLater, Constants
<1>7. "server" \in Ends /\ "client" \in Ends
  BY Constants
<1>8. Told(connected'["client"], connected'["server"], line'["server"])
  BY <1>1, <1>6, <1>7, LiveBefore
<1>9. Told(connected'["server"], connected'["client"], line'["client"])
  BY <1>1, <1>6, <1>7, LiveBefore
<1>10. ServerHears(queue'["server"], line'["server"], line'["client"], connected'["client"])
  <2> DEFINE n == Left(queue["server"])
             k == KLeft(queue["server"])
  <2>1. SUFFICES ASSUME "alarm" \in Running(queue["server"])
                 PROVE  \/ Within(line'["server"], Messages, n - 1)
                        \/ connected["client"] /\ Within(line'["client"], Kinds({"keepAlive"}), (n - 1) - MaxDelay)
                        \/ connected["client"] /\ n - 1 > (k - 1) + MaxLag + 2 * MaxDelay
    BY <1>1, <1>2, <1>5, <1>7 DEF ServerHears
  <2>2. \/ Within(s, Messages, n)
        \/ connected["client"] /\ Within(c, Kinds({"keepAlive"}), n - MaxDelay)
        \/ connected["client"] /\ n > k + MaxLag + 2 * MaxDelay
    BY <2>1, LiveBefore DEF ServerHears
  <2>3. n \in Int /\ k \in Int /\ connected["server"]
    BY <2>1, LiveBefore DEF ServerFacts
  <2> HIDE DEF n, k
  <2>4. n - MaxDelay \in Int /\ (n - MaxDelay) - 1 = (n - 1) - MaxDelay
    BY <2>3, Constants
  <2>5. CASE Within(s, Messages, n)
    BY <1>4, <1>7, <2>3, <2>5, AgelessSets
  <2>6. CASE connected["client"] /\ Within(c, Kinds({"keepAlive"}), n - MaxDelay)
    <3>1. Within(line'["client"], Kinds({"keepAlive"}), (n - MaxDelay) - 1)
      BY <1>4, <1>7, <2>4, <2>6, AgelessSets
    <3> QED BY <2>4, <2>6, <3>1
  <2>7. CASE connected["client"] /\ n > k + MaxLag + 2 * MaxDelay
    <3>1. n - 1 > (k - 1) + MaxLag + 2 * MaxDelay
      BY <2>3, <2>7, Constants
    <3> QED BY <2>7, <3>1
  <2> QED BY <2>2, <2>5, <2>6, <2>7
<1>11. ClientHears(queue'["client"], queue'["server"], line'["server"], line'["client"],
                   connected'["server"], parser', adopting')
  <2> DEFINE n == Left(queue["client"])
             k == KLeft(queue["server"])
  <2>1. SUFFICES ASSUME "alarm" \in Running(queue["client"])
                 PROVE  \/ Within(line'["client"], Restarting, n - 1)
                        \/ connected["server"] /\ parser = "none"
                              /\ Within(line'["server"], Messages, (n - 1) - 3 * MaxDelay)
                        \/ connected["server"] /\ parser = "handshake"
                              /\ Within(line'["client"], Kinds({"queryInfo"}), (n - 1) - 2 * MaxDelay)
                        \/ connected["server"] /\ parser = "handshake"
                              /\ Within(line'["server"], Messages, (n - 1) - MaxDelay)
                        \/ connected["server"] /\ "alarm" \in Running(queue["server"])
                              /\ n - 1 > (k - 1) + MaxLag + MaxDelay
    BY <1>1, <1>2, <1>5, <1>7 DEF ClientHears
  <2>2. \/ Within(c, Restarting, n)
        \/ connected["server"] /\ parser = "none" /\ Within(s, Messages, n - 3 * MaxDelay)
        \/ connected["server"] /\ parser = "handshake" /\ Within(c, Kinds({"queryInfo"}), n - 2 * MaxDelay)
        \/ connected["server"] /\ parser = "handshake" /\ Within(s, Messages, n - MaxDelay)
        \/ connected["server"] /\ "alarm" \in Running(queue["server"]) /\ n > k + MaxLag + MaxDelay
    BY <1>1, <2>1, LiveBefore DEF ClientHears
  <2>3. n \in Int /\ connected["client"] /\ ("alarm" \in Running(queue["server"]) => k \in Int)
    BY <2>1, LiveBefore DEF ClientFacts, ServerFacts
  <2> HIDE DEF n, k
  <2>4. /\ n - MaxDelay \in Int /\ (n - MaxDelay) - 1 = (n - 1) - MaxDelay
        /\ n - 2 * MaxDelay \in Int /\ (n - 2 * MaxDelay) - 1 = (n - 1) - 2 * MaxDelay
        /\ n - 3 * MaxDelay \in Int /\ (n - 3 * MaxDelay) - 1 = (n - 1) - 3 * MaxDelay
    BY <2>3, Constants
  <2>5. CASE Within(c, Restarting, n)
    BY <1>4, <1>7, <2>3, <2>5, AgelessSets
  <2>6. CASE connected["server"] /\ parser = "none" /\ Within(s, Messages, n - 3 * MaxDelay)
    <3>1. Within(line'["server"], Messages, (n - 3 * MaxDelay) - 1)
      BY <1>4, <1>7, <2>4, <2>6, AgelessSets
    <3> QED BY <2>4, <2>6, <3>1
  <2>7. CASE connected["server"] /\ parser = "handshake" /\ Within(c, Kinds({"queryInfo"}), n - 2 * MaxDelay)
    <3>1. Within(line'["client"], Kinds({"queryInfo"}), (n - 2 * MaxDelay) - 1)
      BY <1>4, <1>7, <2>3, <2>4, <2>7, AgelessSets
    <3> QED BY <2>4, <2>7, <3>1
  <2>8. CASE connected["server"] /\ parser = "handshake" /\ Within(s, Messages, n - MaxDelay)
    <3>1. Within(line'["server"], Messages, (n - MaxDelay) - 1)
      BY <1>4, <1>7, <2>4, <2>8, AgelessSets
    <3> QED BY <2>4, <2>8, <3>1
  <2>9. CASE connected["server"] /\ "alarm" \in Running(queue["server"]) /\ n > k + MaxLag + MaxDelay
    <3>1. n - 1 > (k - 1) + MaxLag + MaxDelay
      BY <2>3, <2>9, Constants
    <3> QED BY <2>9, <3>1
  <2> QED BY <2>2, <2>5, <2>6, <2>7, <2>8, <2>9
<1>12. ASSUME connected'["client"], connected'["server"]
       PROVE  Agreed(line'["client"], Adopted', keepAliveRate', alarm'["client"])
  <2>1. Agreed(c, Adopted, keepAliveRate, alarm["client"]) /\ Adopted' = Adopted
    BY <1>1, <1>12, LiveBefore DEF Adopted
  <2>2. Agreed(line'["client"], Adopted, keepAliveRate, alarm["client"])
    BY <1>3, <1>7, <2>1, AgreedAged
  <2> QED BY <1>1, <2>1, <2>2
<1> QED BY <1>8, <1>9, <1>10, <1>11, <1>12, LiveAfter

------------------------------------------------------------------------------
(* The invariant.                                                          *)

LEMMA LiveStep ==
    ASSUME IInv, Lengths, Live, ~falseAlarm, (IInv /\ Lengths)', [Next]_vars
    PROVE  Live' /\ ~falseAlarm'
<1>1. CASE silent
  <2>1. silent' = silent
    <3>1. CASE serverReads \/ clientReads \/ clientWrites
      BY <3>1 DEF serverReads, clientReads, clientWrites
    <3>2. CASE adoptClient \/ setConfig \/ tick \/ goSilent \/ UNCHANGED vars
      BY <1>1, <3>2 DEF adoptClient, setConfig, tick, goSilent, vars
    <3>3. CASE \E p \in Ends : hasTimerExpired(p) \/ hangUp(p)
      BY <3>3 DEF hasTimerExpired, hangUp
    <3> QED BY <3>1, <3>2, <3>3 DEF Next
  <2>2. falseAlarm' = falseAlarm
    <3>1. CASE serverReads \/ clientReads \/ clientWrites
      BY <3>1 DEF serverReads, clientReads, clientWrites
    <3>2. CASE adoptClient \/ setConfig \/ tick \/ goSilent \/ UNCHANGED vars
      BY <3>2 DEF adoptClient, setConfig, tick, goSilent, vars
    <3>3. CASE \E p \in Ends : hangUp(p)
      BY <3>3 DEF hangUp
    <3>4. CASE \E p \in Ends : hasTimerExpired(p)
      <4>1. PICK p \in Ends : hasTimerExpired(p)
        BY <3>4
      <4>2. CASE Expired(countdown(queue[p])) = {}
        BY <4>1, <4>2 DEF hasTimerExpired
      <4>3. CASE Expired(countdown(queue[p])) # {}
        <5>1. PICK t : IF t = "keepAlive" THEN keepAlive(countdown(queue[p])) ELSE flatline(p)
          BY <4>1, <4>3 DEF hasTimerExpired
        <5>2. falseAlarm' = falseAlarm \/ falseAlarm' = (falseAlarm \/ ~silent)
          BY <5>1 DEF keepAlive, flatline
        <5>3. falseAlarm \in BOOLEAN
          BY DEF IInv, Types
        <5> QED BY <1>1, <5>2, <5>3
      <4> QED BY <4>2, <4>3
    <3> QED BY <3>1, <3>2, <3>3, <3>4 DEF Next
  <2> QED BY <1>1, <2>1, <2>2 DEF Live
<1>2. CASE ~silent
  <2>1. CASE goSilent
    BY <2>1 DEF goSilent, Live
  <2>2. ASSUME silent' = silent PROVE Before
    BY <1>2, <2>2 DEF Before
  <2>3. CASE adoptClient
    <3>1. PICK option \in Rates \cup {NoOption} : sendOptions(option)
      BY <2>3 DEF adoptClient
    <3>2. UNCHANGED <<silent, falseAlarm, connected, parser>> /\ adopting' = FALSE /\ On("server")
      BY <2>3 DEF adoptClient, IInv, Alarms
    <3> QED BY <2>2, <3>1, <3>2, OptionsLive
  <2>4. CASE setConfig
    <3>1. PICK option \in Rates \cup {NoOption} : sendOptions(option)
      BY <2>4 DEF setConfig
    <3>2. UNCHANGED <<silent, falseAlarm, connected, parser>> /\ adopting' = FALSE /\ On("server")
      BY <2>4 DEF setConfig, On, IInv, Types
    <3> QED BY <2>2, <3>1, <3>2, OptionsLive
  <2>5. CASE serverReads
    <3>1. /\ UNCHANGED <<silent, falseAlarm>> /\ connected["server"] /\ line["server"] # <<>> /\ ~adopting
          /\ \/ Head(line["server"]).kind = "helloBack" /\ newProxy
             \/ disconnect("server")
             \/ Head(line["server"]).kind # "close" /\ parser = "ready" /\ clientMessage
             \/ Head(line["server"]).kind # "close" /\ parser # "ready" /\ handshakeInfo
      BY <2>5 DEF serverReads
    <3>2. Before
      BY <2>2, <3>1
    <3>3. CASE Head(line["server"]).kind = "helloBack" /\ newProxy
      BY <3>1, <3>2, <3>3, ProxyLive
    <3>4. CASE disconnect("server")
      BY <3>1, <3>2, <3>4, DisconnectLive, Constants
    <3>5. CASE Head(line["server"]).kind # "close" /\ parser = "ready" /\ clientMessage
      BY <3>1, <3>2, <3>5, MessageLive
    <3>6. CASE Head(line["server"]).kind # "close" /\ parser # "ready" /\ handshakeInfo
      BY <3>1, <3>2, <3>6, MessageLive
    <3> QED BY <3>1, <3>3, <3>4, <3>5, <3>6
  <2>6. CASE clientReads
    BY <2>2, <2>6, ClientLive DEF clientReads
  <2>7. CASE clientWrites
    BY <2>2, <2>7, WritesLive DEF clientWrites
  <2>8. CASE \E p \in Ends : hasTimerExpired(p)
    <3>1. silent' = silent
      BY <2>8 DEF hasTimerExpired
    <3> QED BY <2>2, <2>8, <3>1, TimerLive
  <2>9. CASE tick
    BY <2>2, <2>9, TickLive DEF tick
  <2>10. CASE \E p \in Ends : hangUp(p)
    <3>1. PICK p \in Ends : disconnect(p) /\ UNCHANGED <<silent, falseAlarm>>
      BY <2>10 DEF hangUp
    <3> QED BY <2>2, <3>1, DisconnectLive
  <2>11. CASE UNCHANGED vars
    <3>1. UNCHANGED <<queue, connected, parser, adopting, keepAliveRate, alarm, line, silent, falseAlarm>>
      BY <2>11 DEF vars
    <3>2. Adopted' = Adopted
      BY <3>1 DEF Adopted
    <3> QED BY <3>1, <3>2 DEF Live
  <2> QED BY <2>1, <2>3, <2>4, <2>5, <2>6, <2>7, <2>8, <2>9, <2>10, <2>11 DEF Next
<1> QED BY <1>1, <1>2

LEMMA LInvInit == Init => LInv
<1> SUFFICES ASSUME Init PROVE LInv
  OBVIOUS
<1>1. IInv
  BY IInvInit
<1>2. /\ alarm["client"] = KeepAlivesUntilDeath * KeepAliveRate /\ alarm["client"] \in Int
      /\ alarm["client"] > 4 * MaxDelay /\ quiet["client"] = 0 /\ keepAliveRate = 0
      /\ queue["server"] = NoTimers /\ line["server"] = <<Msg("helloBack")>> /\ line["client"] = <<>>
      /\ \A p \in Ends : connected[p]
      /\ parser = "none" /\ adopting = FALSE /\ ~falseAlarm
  <2>1. alarm["client"] = KeepAliveRate * KeepAlivesUntilDeath
    BY Constants DEF Init
  <2>2. alarm["client"] = KeepAlivesUntilDeath * KeepAliveRate /\ alarm["client"] \in Int
        /\ alarm["client"] > 4 * MaxDelay
    BY <2>1, Constants, RateAssumption
  <2> QED BY <2>2, Constants DEF Init
<1>3. "alarm" \notin Running(queue["server"])
  BY <1>2 DEF NoTimers, Running
<1>4. Lengths
  BY <1>2, <1>3 DEF Lengths
<1>5. "alarm" \in Running(queue["client"]) => Left(queue["client"]) = alarm["client"]
  BY <1>1, <1>2, <1>4, Facts DEF ClientFacts
<1>6. Told(connected["client"], connected["server"], line["server"])
  BY <1>2, Constants DEF Told
<1>7. Told(connected["server"], connected["client"], line["client"])
  BY <1>2, Constants DEF Told
<1>8. ServerHears(queue["server"], line["server"], line["client"], connected["client"])
  BY <1>3 DEF ServerHears
<1>9. ClientHears(queue["client"], queue["server"], line["server"], line["client"],
                  connected["server"], parser, adopting)
  <2>1. Within(line["server"], Messages, alarm["client"] - 3 * MaxDelay)
    <3>1. Msg("helloBack").age = 0 /\ Msg("helloBack") \in Messages
      BY MsgTypes DEF Msg
    <3> DEFINE m == Msg("helloBack")
    <3> HIDE DEF m
    <3>2. (alarm["client"] - 3 * MaxDelay) + m.age > MaxDelay
      BY <1>2, <3>1, Constants DEF m
    <3>3. Len(<<m>>) = 1 /\ <<m>>[1] = m /\ m \in Messages /\ 1 \in 1..Len(<<m>>)
      BY <3>1 DEF m
    <3>4. line["server"] = <<m>>
      BY <1>2 DEF m
    <3> QED BY <3>2, <3>3, <3>4 DEF Within
  <2> QED BY <1>2, <1>5, <2>1, Constants DEF ClientHears
<1>10. Agreed(line["client"], Adopted, keepAliveRate, alarm["client"])
  BY <1>2 DEF Agreed, Adopted, Pairs
<1> QED BY <1>1, <1>2, <1>4, <1>6, <1>7, <1>8, <1>9, <1>10 DEF LInv, Live

LEMMA LInvStep == LInv /\ [Next]_vars => LInv'
<1> SUFFICES ASSUME LInv, [Next]_vars PROVE LInv'
  OBVIOUS
<1>1. IInv /\ Lengths /\ Live /\ ~falseAlarm
  BY DEF LInv
<1>2. IInv'
  BY <1>1, IInvStep
<1>3. Lengths'
  BY <1>1, <1>2, LengthsStep
<1>4. Live' /\ ~falseAlarm'
  BY <1>1, <1>2, <1>3, LiveStep
<1> QED BY <1>2, <1>3, <1>4 DEF LInv

\* handle_flatline() and handle_keep_alive_alarm() never run while the line carries
\* messages within MaxDelay and no timer is looked at more than MaxLag late, and an
\* end that closed its connection left no timer behind: for any rates, delays and
\* lags that RateAssumption allows and any number of reloads.
THEOREM NoEndGivenUp == Spec => []NoFalseDeath
<1>1. LInv => NoFalseDeath
  <2>1. IInv => \A p \in Ends : ~connected[p] => Running(queue[p]) = {}
    BY DEF IInv, Alarms, EndOk, On
  <2> QED BY <2>1 DEF LInv, NoFalseDeath
<1>2. Spec => []LInv
  BY LInvInit, LInvStep, PTL DEF Spec
<1> QED BY <1>1, <1>2, PTL
==============================================================================
