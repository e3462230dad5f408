--------------------------- MODULE FilePasteProofs ---------------------------
(***************************************************************************)
(* For any set of clients and any number of pastes, copies and lost        *)
(* connections: the pastes that the server keeps are between connected     *)
(* screens, a paste ends well only if its own files have been sent, and a  *)
(* paste waits only while somebody will still answer it.                   *)
(*                                                                         *)
(* Requests are numbered by the screen that pastes, so that a request      *)
(* tells whom its answer is for (Mail, Pairs).  The answer of a request    *)
(* is followed from the thread that sends the files through the events and *)
(* connections to the statuses of the one that waits: a "sent" on the way  *)
(* is about delivered files (Sent), and a paste that has not got its       *)
(* answer has a request, an answer or somebody who works on it (Expects).  *)
(* Which element of a queue is first does not matter for any of this, so   *)
(* the queues are seen as sets (In).                                       *)
(***************************************************************************)
EXTENDS FilePaste, Integers, FiniteSetTheorems, TLAPS

In(q) == {q[i] : i \in 1..Len(q)}

Reqs == Screens \X Nat
States == {"sending", "sent", "failed"}
Statuses == [type : {"status"}, req : Reqs, state : States]
Messages == Statuses \cup [type : {"request", "send"}, req : Reqs, id : Int]
Pairs == [target : Screens, source : Screens]

Types ==
    /\ m_clients \subseteq Clients /\ link \subseteq Clients
    /\ IsFiniteSet(DOMAIN m_file_pastes) /\ DOMAIN m_file_pastes \subseteq Reqs
    /\ m_file_pastes \in [DOMAIN m_file_pastes -> Pairs]
    /\ clip \in [owner : Screens, id : 0..MaxCopies]
    /\ paste \in [Screens -> {"idle", "asking", "waiting", "sending", "collect"}]
    /\ waiting_ \in [Screens -> Reqs \cup {None}]
    /\ statuses_ \in [Screens -> Seq(States)]
    /\ connected_ \in [Screens -> BOOLEAN]
    /\ taildrop \in [Screens -> {"idle", "start", "copying", "report", "clear"}]
    /\ job \in [Screens -> [req : Reqs \cup {None}, state : States \cup {"none"}]]
    /\ files \in [Screens -> 0..MaxCopies]
    /\ events \in [Screens -> Seq(Messages)]
    /\ toServer \in [Clients -> Seq(Messages)]
    /\ toClient \in [Clients -> Seq(Messages)]
    /\ pastes \in Nat /\ copies \in 0..MaxCopies /\ drops \in Nat

\* A request carries the name of the screen that pastes.
Asks(M, s) == \A m \in M : m.type = "request" => m.req[1] = s

Mail ==
    /\ \A s \in Screens : /\ waiting_[s] = None <=> paste[s] = "idle"
                          /\ waiting_[s] # None => waiting_[s][1] = s
                          /\ Asks(In(events[s]), s)
    /\ \A c \in Clients : Asks(In(toServer[c]), c)

Jobs ==
    \A s \in Screens : /\ taildrop[s] # "idle" => job[s].req \in Reqs
                       /\ taildrop[s] = "report" => job[s].state \in {"sent", "failed"}

Kept ==
    \A r \in DOMAIN m_file_pastes :
       /\ m_file_pastes[r].target \in Connected /\ m_file_pastes[r].source \in Connected
       /\ m_file_pastes[r].target # m_file_pastes[r].source
       /\ m_file_pastes[r].target = r[1]

Up == \A c \in link : connected_[c]

IInv == Types /\ Mail /\ Jobs /\ Kept /\ Up

\* Every "sent" in M is about files that have been sent.
True(M, D) == \A m \in M : m.type = "status" /\ m.state = "sent" => m.req \in D

Sent ==
    /\ \A s \in Screens :
          /\ True(In(events[s]), delivered)
          /\ taildrop[s] # "idle" /\ job[s].state = "sent" => job[s].req \in delivered
          /\ "sent" \in In(statuses_[s]) \/ paste[s] = "collect" => waiting_[s] \in delivered
    /\ \A c \in Clients : True(In(toServer[c]), delivered) /\ True(In(toClient[c]), delivered)
    /\ pasted \subseteq delivered

Asked(M, r) == \E m \in M : m.type = "request" /\ m.req = r
Answered(M, r) == Status(r, "sent") \in M \/ Status(r, "failed") \in M
Ordered(M, r) == \E m \in M : m.type = "send" /\ m.req = r

Works(s, r) ==
    \/ taildrop[s] \in {"start", "copying", "report"} /\ job[s].req = r
    \/ Answered(In(events[s]), r)
    \/ s \in Clients /\ (s \notin link \/ Ordered(In(toClient[s]), r) \/ Answered(In(toServer[s]), r))

Waiting(t) == Waits(t) /\ connected_[t] /\ In(statuses_[t]) \subseteq {"sending"}

Cared(t, r) ==
    \/ t \in Clients \ link
    \/ Asked(In(events[t]), r)
    \/ t \in Clients /\ (Asked(In(toServer[t]), r) \/ Answered(In(toClient[t]), r))
    \/ r \in DOMAIN m_file_pastes /\ Works(m_file_pastes[r].source, r)

Expects == \A t \in Screens, r \in Reqs : Waiting(t) /\ waiting_[t] = r => Cared(t, r)

----------------------------------------------------------------------------
(* Queues as sets.                                                          *)

\* An empty queue has no elements.
LEMMA InEmpty == In(<<>>) = {}
BY DEF In

\* Appending adds one element.
LEMMA InAppend ==
    ASSUME NEW S, NEW q \in Seq(S), NEW x \in S
    PROVE  Append(q, x) \in Seq(S) /\ In(Append(q, x)) = In(q) \cup {x}
<1>1. Append(q, x) \in Seq(S) /\ Len(Append(q, x)) = Len(q) + 1 /\ Len(q) \in Nat
  OBVIOUS
<1>2. Append(q, x)[Len(q) + 1] = x /\ \A i \in 1..Len(q) : Append(q, x)[i] = q[i]
  OBVIOUS
<1>3. 1..(Len(q) + 1) = (1..Len(q)) \cup {Len(q) + 1}
  BY <1>1
<1> QED
  BY <1>1, <1>2, <1>3 DEF In

\* A queue that is not empty has its head and what follows it.
LEMMA InTail ==
    ASSUME NEW S, NEW q \in Seq(S), q # <<>>
    PROVE  Head(q) \in S /\ Tail(q) \in Seq(S) /\ In(q) = In(Tail(q)) \cup {Head(q)}
<1>1. Head(q) \in S /\ Head(q) = q[1] /\ Tail(q) \in Seq(S) /\ Len(Tail(q)) = Len(q) - 1 /\ Len(q) \in Nat \ {0}
  OBVIOUS
<1>2. \A i \in 1..Len(Tail(q)) : Tail(q)[i] = q[i + 1] /\ i + 1 \in 1..Len(q)
  OBVIOUS
<1>3. ASSUME NEW i \in 1..Len(q) PROVE i = 1 \/ (i - 1 \in 1..Len(Tail(q)) /\ Tail(q)[i - 1] = q[i])
  BY <1>1, <1>2
<1>4. 1 \in 1..Len(q)
  BY <1>1
<1>5. In(q) \subseteq In(Tail(q)) \cup {Head(q)}
  BY <1>1, <1>3 DEF In
<1>6. In(Tail(q)) \cup {Head(q)} \subseteq In(q)
  BY <1>1, <1>2, <1>4 DEF In
<1> QED
  BY <1>1, <1>5, <1>6

\* Concatenation is union.
LEMMA InConcat ==
    ASSUME NEW S, NEW q \in Seq(S), NEW p \in Seq(S)
    PROVE  q \o p \in Seq(S) /\ In(q \o p) = In(q) \cup In(p)
<1>1. q \o p \in Seq(S) /\ Len(q \o p) = Len(q) + Len(p) /\ Len(q) \in Nat /\ Len(p) \in Nat
  OBVIOUS
<1>2. \A i \in 1..Len(q) : (q \o p)[i] = q[i] /\ i \in 1..Len(q \o p)
  BY <1>1
<1>3. \A i \in 1..Len(p) : (q \o p)[Len(q) + i] = p[i] /\ Len(q) + i \in 1..Len(q \o p)
  BY <1>1
<1>4. ASSUME NEW i \in 1..Len(q \o p)
      PROVE  i \in 1..Len(q) \/ (i - Len(q) \in 1..Len(p) /\ (q \o p)[i] = p[i - Len(q)])
  BY <1>1, <1>3
<1>5. In(q \o p) \subseteq In(q) \cup In(p)
  BY <1>2, <1>4 DEF In
<1>6. In(q) \cup In(p) \subseteq In(q \o p)
  BY <1>2, <1>3 DEF In
<1> QED
  BY <1>1, <1>5, <1>6

\* The elements of a queue over S are in S.
LEMMA InSubset ==
    ASSUME NEW S, NEW q \in Seq(S)
    PROVE  In(q) \subseteq S
BY DEF In

\* SetToSeq() lists a finite set, all of it.
LEMMA InSetToSeq ==
    ASSUME NEW S, NEW T, IsFiniteSet(T), T \subseteq S
    PROVE  SetToSeq(T) \in Seq(S) /\ In(SetToSeq(T)) = T
<1> DEFINE n == Cardinality(T)
           f == SetToSeq(T)
<1>1. n \in Nat /\ ExistsBijection(1..n, T)
  BY FS_CardinalityType
<1>2. PICK g : g \in [1..n -> T] /\ IsInjective(g)
  BY <1>1 DEF ExistsBijection, Bijection, Injection
<1>3. f \in [1..n -> T] /\ IsInjective(f)
  BY <1>2 DEF SetToSeq
<1>4. f \in Injection(1..n, T)
  BY <1>3 DEF Injection
<1>5. Cardinality(1..n) = n
  BY <1>1, FS_Interval
<1> HIDE DEF f
<1>6. f \in Surjection(1..n, T)
  BY <1>4, <1>5, FS_Injection
<1>7. \A x \in T : \E i \in 1..n : f[i] = x
  BY <1>6 DEF Surjection
<1>8. f \in Seq(S) /\ Len(f) = n
  BY <1>1, <1>3
<1>9. In(f) = T
  BY <1>3, <1>7, <1>8 DEF In
<1> QED
  BY <1>8, <1>9 DEF f

\* The image of a finite set under a function is finite.
LEMMA FiniteImage ==
    ASSUME NEW S, IsFiniteSet(S), NEW T, NEW f \in [S -> T], \A y \in T : \E x \in S : f[x] = y
    PROVE  IsFiniteSet(T)
<1>1. f \in Surjection(S, T)
  BY DEF Surjection
<1> QED
  BY <1>1, FS_Surjection

\* There are three states, so every set of states is finite.
LEMMA FiniteStates == \A T : T \subseteq States => IsFiniteSet(T)
<1>1. IsFiniteSet({"sending"}) /\ IsFiniteSet({"sending"} \cup {"sent"}) /\ IsFiniteSet(({"sending"} \cup {"sent"}) \cup {"failed"})
  BY FS_Singleton, FS_AddElement
<1>2. States = ({"sending"} \cup {"sent"}) \cup {"failed"}
  BY DEF States
<1>3. IsFiniteSet(States)
  BY <1>1, <1>2
<1> QED
  BY <1>3, FS_Subset

----------------------------------------------------------------------------
(* What the parts of the handlers do.                                       *)

\* tell(): each screen of the batch gets its statuses, the others nothing.
LEMMA TellEffect ==
    ASSUME Types, NEW B, IsFiniteSet(B), B \subseteq [to : Screens, msg : Statuses], tell(B)
    PROVE  /\ statuses_' \in [Screens -> Seq(States)]
           /\ \A s \in Screens \ {Primary} : statuses_'[s] = statuses_[s]
           /\ In(statuses_'[Primary]) = In(statuses_[Primary]) \cup
                 {m.msg.state : m \in {n \in B : n.to = Primary /\ n.msg.req = waiting_[Primary]}}
           /\ toClient' \in [Clients -> Seq(Messages)]
           /\ \A c \in Clients : In(toClient'[c]) =
                 In(toClient[c]) \cup {m.msg : m \in {n \in B : n.to = c /\ c \in link}}
<1> DEFINE mine == {n \in B : n.to = Primary /\ n.msg.req = waiting_[Primary]}
           S == {m.msg.state : m \in mine}
<1>1. S \subseteq States /\ IsFiniteSet(S)
  <2>1. S \subseteq States
    BY DEF Statuses
  <2> QED
    BY <2>1, FiniteStates
<1>2. statuses_ \in [Screens -> Seq(States)] /\ Primary \in Screens /\ toClient \in [Clients -> Seq(Messages)]
  BY DEF Types, Screens
<1>3. statuses_' = [statuses_ EXCEPT ![Primary] = statuses_[Primary] \o SetToSeq(S)]
  BY DEF tell
<1>4. SetToSeq(S) \in Seq(States) /\ In(SetToSeq(S)) = S
  BY <1>1, InSetToSeq
<1> HIDE DEF S
<1>5. statuses_[Primary] \o SetToSeq(S) \in Seq(States)
      /\ In(statuses_[Primary] \o SetToSeq(S)) = In(statuses_[Primary]) \cup S
  BY <1>2, <1>4, InConcat
<1>6. /\ statuses_' \in [Screens -> Seq(States)]
      /\ \A s \in Screens \ {Primary} : statuses_'[s] = statuses_[s]
      /\ In(statuses_'[Primary]) = In(statuses_[Primary]) \cup S
  BY <1>2, <1>3, <1>5
<1>7. ASSUME NEW c \in Clients
      PROVE  /\ toClient'[c] \in Seq(Messages)
             /\ In(toClient'[c]) = In(toClient[c]) \cup {m.msg : m \in {n \in B : n.to = c /\ c \in link}}
  <2>1. CASE c \notin link
    <3>1. toClient'[c] = toClient[c]
      BY <2>1 DEF tell
    <3>2. {m.msg : m \in {n \in B : n.to = c /\ c \in link}} = {}
      BY <2>1
    <3> QED
      BY <1>2, <3>1, <3>2
  <2>2. CASE c \in link
    <3> DEFINE X == {n \in B : n.to = c}
               M == {m.msg : m \in X}
    <3>1. toClient'[c] = toClient[c] \o SetToSeq(M)
      BY <2>2 DEF tell
    <3>2. IsFiniteSet(X)
      BY FS_Subset
    <3> DEFINE f == [m \in X |-> m.msg]
    <3>3. f \in [X -> M] /\ \A y \in M : \E x \in X : f[x] = y
      OBVIOUS
    <3>5. M \subseteq Messages
      BY DEF Messages
    <3>6. M = {m.msg : m \in {n \in B : n.to = c /\ c \in link}}
      BY <2>2
    <3> HIDE DEF M, X, f
    <3>4. IsFiniteSet(M)
      BY <3>2, <3>3, FiniteImage
    <3>7. SetToSeq(M) \in Seq(Messages) /\ In(SetToSeq(M)) = M
      BY <3>4, <3>5, InSetToSeq
    <3>8. toClient[c] \o SetToSeq(M) \in Seq(Messages) /\ In(toClient[c] \o SetToSeq(M)) = In(toClient[c]) \cup M
      BY <1>2, <3>7, InConcat
    <3> QED
      BY <3>1, <3>6, <3>8
  <2> QED
    BY <2>1, <2>2
<1>8. toClient' \in [Clients -> Seq(Messages)]
  <2> DEFINE Q(c) == IF c \in link THEN toClient[c] \o SetToSeq({m.msg : m \in {n \in B : n.to = c}})
                     ELSE toClient[c]
  <2>1. toClient' = [c \in Clients |-> Q(c)]
    BY DEF tell
  <2>2. \A c \in Clients : Q(c) \in Seq(Messages)
    BY <1>7, <2>1
  <2> HIDE DEF Q
  <2> QED
    BY <2>1, <2>2
<1> QED
  BY <1>6, <1>7, <1>8 DEF S

\* A batch of one message.
LEMMA TellOne ==
    ASSUME Types, NEW t \in Screens, NEW x \in Statuses, tell({[to |-> t, msg |-> x]})
    PROVE  /\ statuses_' \in [Screens -> Seq(States)] /\ toClient' \in [Clients -> Seq(Messages)]
           /\ \A s \in Screens : In(statuses_'[s]) = In(statuses_[s]) \cup
                 (IF s = t /\ s = Primary /\ waiting_[s] = x.req THEN {x.state} ELSE {})
           /\ \A c \in Clients : In(toClient'[c]) = In(toClient[c]) \cup (IF c = t /\ c \in link THEN {x} ELSE {})
<1> DEFINE b == [to |-> t, msg |-> x]
           B == {b}
<1>1. B \subseteq [to : Screens, msg : Statuses] /\ IsFiniteSet(B) /\ tell(B)
  <2>1. \A y : IsFiniteSet({y})
    BY FS_Singleton
  <2>2. IsFiniteSet(B)
    BY <2>1
  <2>3. b \in [to : Screens, msg : Statuses]
    OBVIOUS
  <2>4. tell(B)
    OBVIOUS
  <2> HIDE DEF b
  <2> QED
    BY <2>2, <2>3, <2>4
<1>2. b.to = t /\ b.msg = x
  OBVIOUS
<1> HIDE DEF b
<1>3. {m.msg.state : m \in {n \in B : n.to = Primary /\ n.msg.req = waiting_[Primary]}}
        = IF t = Primary /\ waiting_[Primary] = x.req THEN {x.state} ELSE {}
  BY <1>2
<1>4. \A c \in Clients : {m.msg : m \in {n \in B : n.to = c /\ c \in link}} = IF c = t /\ c \in link THEN {x} ELSE {}
  BY <1>2
<1> HIDE DEF B
<1>5. /\ statuses_' \in [Screens -> Seq(States)]
      /\ \A s \in Screens \ {Primary} : statuses_'[s] = statuses_[s]
      /\ In(statuses_'[Primary]) = In(statuses_[Primary]) \cup
            (IF t = Primary /\ waiting_[Primary] = x.req THEN {x.state} ELSE {})
      /\ toClient' \in [Clients -> Seq(Messages)]
      /\ \A c \in Clients : In(toClient'[c]) = In(toClient[c]) \cup (IF c = t /\ c \in link THEN {x} ELSE {})
  <2>1. /\ statuses_' \in [Screens -> Seq(States)]
        /\ \A s \in Screens \ {Primary} : statuses_'[s] = statuses_[s]
        /\ In(statuses_'[Primary]) = In(statuses_[Primary]) \cup
              {m.msg.state : m \in {n \in B : n.to = Primary /\ n.msg.req = waiting_[Primary]}}
        /\ toClient' \in [Clients -> Seq(Messages)]
        /\ \A c \in Clients : In(toClient'[c]) =
              In(toClient[c]) \cup {m.msg : m \in {n \in B : n.to = c /\ c \in link}}
    BY <1>1, TellEffect
  <2>2. In(statuses_'[Primary]) = In(statuses_[Primary]) \cup
            (IF t = Primary /\ waiting_[Primary] = x.req THEN {x.state} ELSE {})
    BY <2>1, <1>3
  <2>3. ASSUME NEW c \in Clients
        PROVE  In(toClient'[c]) = In(toClient[c]) \cup (IF c = t /\ c \in link THEN {x} ELSE {})
    BY <2>1, <1>4
  <2> QED
    BY <2>1, <2>2, <2>3
<1>6. \A s \in Screens : In(statuses_'[s]) = In(statuses_[s]) \cup
         (IF s = t /\ s = Primary /\ waiting_[s] = x.req THEN {x.state} ELSE {})
  BY <1>5
<1> QED
  BY <1>5, <1>6

\* A status is a message.
LEMMA StatusType ==
    \A r \in Reqs, x \in States :
       /\ Status(r, x) \in Statuses /\ Status(r, x) \in Messages
       /\ Status(r, x).type = "status" /\ Status(r, x).req = r /\ Status(r, x).state = x
BY DEF Status, Statuses, Messages

\* A message that is not a request or an order is a status, and told by its fields.
LEMMA MessageType ==
    \A m \in Messages :
       /\ m.req \in Reqs /\ m.type \in {"status", "request", "send"}
       /\ m.type = "status" => m \in Statuses /\ m.state \in States /\ m = Status(m.req, m.state)
       /\ m.type # "status" => m.id \in Int
BY DEF Status, Statuses, Messages

\* send_files(): the thread starts, or a failure is posted.
LEMMA SendEffect ==
    ASSUME Types, NEW s \in Screens, NEW r \in Reqs, NEW id, NEW q \in Seq(Messages), send_files(s, r, id, q)
    PROVE  /\ events' \in [Screens -> Seq(Messages)]
           /\ taildrop' \in [Screens -> {"idle", "start", "copying", "report", "clear"}]
           /\ job' \in [Screens -> [req : Reqs \cup {None}, state : States \cup {"none"}]]
           /\ \A x \in Screens \ {s} : events'[x] = events[x] /\ taildrop'[x] = taildrop[x] /\ job'[x] = job[x]
           /\ delivered' = delivered
           /\ \/ /\ taildrop[s] = "idle" /\ taildrop'[s] = "start"
                 /\ job'[s] = [req |-> r, state |-> "none"] /\ In(events'[s]) = In(q)
              \/ /\ taildrop'[s] = taildrop[s] /\ job'[s] = job[s]
                 /\ In(events'[s]) = In(q) \cup {Status(r, "failed")}
<1>1. /\ events \in [Screens -> Seq(Messages)]
      /\ taildrop \in [Screens -> {"idle", "start", "copying", "report", "clear"}]
      /\ job \in [Screens -> [req : Reqs \cup {None}, state : States \cup {"none"}]]
  BY DEF Types
<1>2. Status(r, "failed") \in Messages
  BY StatusType DEF States
<1>3. Append(q, Status(r, "failed")) \in Seq(Messages)
      /\ In(Append(q, Status(r, "failed"))) = In(q) \cup {Status(r, "failed")}
  BY <1>2, InAppend
<1>4. CASE /\ files[s] = id /\ ~busy_(s)
           /\ taildrop' = [taildrop EXCEPT ![s] = "start"]
           /\ job' = [job EXCEPT ![s] = [req |-> r, state |-> "none"]]
           /\ events' = [events EXCEPT ![s] = q]
           /\ UNCHANGED <<delivered, refusedIdle>>
  <2>1. [req |-> r, state |-> "none"] \in [req : Reqs \cup {None}, state : States \cup {"none"}]
    OBVIOUS
  <2> QED
    BY <1>1, <1>4, <2>1 DEF busy_
<1>5. CASE /\ events' = [events EXCEPT ![s] = Append(q, Status(r, "failed"))]
           /\ UNCHANGED <<taildrop, job, delivered>>
  BY <1>1, <1>3, <1>5
<1> QED
  BY <1>4, <1>5 DEF send_files

----------------------------------------------------------------------------
(* The server takes a message or an event of screen s.                      *)

\* e is what it takes, and q is then left of its own events.
Takes(s, e, q) ==
    /\ e \in Messages /\ q \in Seq(Messages)
    /\ toServer' \in [Clients -> Seq(Messages)]
    /\ e \in IF s = Primary THEN In(events[s]) ELSE In(toServer[s])
    /\ In(events[Primary]) = In(q) \cup (IF s = Primary THEN {e} ELSE {})
    /\ \A c \in Clients : In(toServer[c]) = In(toServer'[c]) \cup (IF c = s THEN {e} ELSE {})
    /\ UNCHANGED <<m_clients, clipboards, paste, waiting_, connected_, link, pasted, counters>>

Handles(s, e, q) ==
    \/ e.type = "request" /\ file_paste_requested(s, e.req, e.id, q)
    \/ /\ e.type = "status"
       /\ file_paste_status(s, e.req, e.state)
       /\ events' = [events EXCEPT ![Primary] = q]
       /\ UNCHANGED sender

\* primaryEvent and parseMessage() are of this form.
LEMMA ServerTakes ==
    ASSUME Types, primaryEvent \/ \E c \in Clients : parseMessage(c)
    PROVE  \E s \in Screens : \E e, q : Takes(s, e, q) /\ Handles(s, e, q)
<1>1. /\ events \in [Screens -> Seq(Messages)] /\ toServer \in [Clients -> Seq(Messages)]
      /\ Primary \in Screens /\ Clients \subseteq Screens /\ Primary \notin Clients
  BY FilePasteAssumption DEF Types, Screens
<1>2. CASE primaryEvent
  <2> DEFINE e == Head(events[Primary])
             q == Tail(events[Primary])
  <2>1. e \in Messages /\ q \in Seq(Messages) /\ In(events[Primary]) = In(q) \cup {e}
    BY <1>1, <1>2, InTail DEF primaryEvent
  <2>2. Handles(Primary, e, q)
    BY <1>2 DEF primaryEvent, Handles
  <2>3. Takes(Primary, e, q)
    <3> HIDE DEF e, q
    <3> QED
      BY <1>1, <1>2, <2>1 DEF primaryEvent, Takes
  <2> QED
    BY <1>1, <2>2, <2>3
<1>3. ASSUME NEW c \in Clients, parseMessage(c)
      PROVE  \E s \in Screens : \E e, q : Takes(s, e, q) /\ Handles(s, e, q)
  <2> DEFINE e == Head(toServer[c])
             q == events[Primary]
  <2>1. e \in Messages /\ Tail(toServer[c]) \in Seq(Messages) /\ In(toServer[c]) = In(Tail(toServer[c])) \cup {e}
    BY <1>1, <1>3, InTail DEF parseMessage
  <2>2. Handles(c, e, q)
    BY <1>1, <1>3 DEF parseMessage, Handles
  <2>3. /\ toServer' = [toServer EXCEPT ![c] = Tail(toServer[c])]
        /\ UNCHANGED <<m_clients, clipboards, paste, waiting_, connected_, link, pasted, counters>>
    BY <1>3 DEF parseMessage
  <2>4. Takes(c, e, q)
    <3> HIDE DEF e
    <3>1. toServer' \in [Clients -> Seq(Messages)] /\ toServer'[c] = Tail(toServer[c]) /\ \A d \in Clients \ {c} : toServer'[d] = toServer[d]
      BY <1>1, <2>1, <2>3
    <3>2. e \in IF c = Primary THEN In(events[c]) ELSE In(toServer[c])
      BY <1>1, <2>1
    <3> QED
      BY <1>1, <2>1, <2>3, <3>1, <3>2 DEF Takes
  <2> QED
    BY <1>1, <2>2, <2>4
<1> QED
  BY <1>2, <1>3

\* Types of what the server's handlers may change.
Typed ==
    /\ statuses_ \in [Screens -> Seq(States)]
    /\ toClient \in [Clients -> Seq(Messages)]
    /\ events \in [Screens -> Seq(Messages)]
    /\ taildrop \in [Screens -> {"idle", "start", "copying", "report", "clear"}]
    /\ job \in [Screens -> [req : Reqs \cup {None}, state : States \cup {"none"}]]
    /\ IsFiniteSet(DOMAIN m_file_pastes) /\ DOMAIN m_file_pastes \subseteq Reqs
    /\ m_file_pastes \in [DOMAIN m_file_pastes -> Pairs]

\* The rest of the invariant is not touched by a handler of the server.
LEMMA TakesKeeps ==
    ASSUME IInv, NEW s \in Screens, NEW e, NEW q, Takes(s, e, q), Typed', Jobs', Kept',
           \A x \in Screens \ {Primary} : events'[x] = events[x],
           In(events'[Primary]) \subseteq In(q) \cup Statuses
    PROVE  IInv'
<1>1. Types'
  BY DEF IInv, Types, Typed, Takes, clipboards, counters
<1>2. Mail'
  <2>1. \A x \in Screens : /\ (waiting_[x] = None <=> paste[x] = "idle")'
                           /\ (waiting_[x] # None => waiting_[x][1] = x)'
    BY DEF IInv, Mail, Takes
  <2>2. \A m \in Statuses : m.type # "request"
    BY DEF Statuses
  <2>3. \A x \in Screens : Asks(In(events[x]), x)
    BY DEF IInv, Mail
  <2>4. In(q) \subseteq In(events[Primary]) /\ Primary \in Screens
    BY DEF Takes, Screens
  <2>5. Asks(In(events'[Primary]), Primary)
    BY <2>2, <2>3, <2>4 DEF Asks
  <2>6. \A x \in Screens : Asks(In(events'[x]), x)
    BY <2>3, <2>5
  <2>7. \A c \in Clients : Asks(In(toServer[c]), c) /\ In(toServer'[c]) \subseteq In(toServer[c])
    BY DEF IInv, Mail, Takes
  <2>8. \A c \in Clients : Asks(In(toServer'[c]), c)
    BY <2>7 DEF Asks
  <2> QED
    BY <2>1, <2>6, <2>8 DEF Mail
<1>3. Up'
  BY DEF IInv, Up, Takes
<1> QED
  BY <1>1, <1>2, <1>3 DEF IInv

\* The screen of a request is the one it came from.
LEMMA TakesFrom ==
    ASSUME IInv, NEW s \in Screens, NEW e, NEW q, Takes(s, e, q)
    PROVE  e \in Messages /\ e.req \in Reqs /\ (e.type = "request" => e.req[1] = s)
<1>1. e \in Messages
  BY DEF Takes
<1>2. e \in In(events[s]) \/ (s \in Clients /\ e \in In(toServer[s]))
  BY DEF Takes, Screens
<1>3. e.type = "request" => e.req[1] = s
  BY <1>2 DEF IInv, Mail, Asks
<1> QED
  BY <1>1, <1>3, MessageType

\* file_paste_requested() adds a paste between two different connected screens.
LEMMA AddPaste ==
    ASSUME IInv, NEW s \in Connected, NEW o \in Connected, s # o, NEW r \in Reqs, r[1] = s,
           UNCHANGED m_clients,
           m_file_pastes' = [x \in DOMAIN m_file_pastes \cup {r} |->
                               IF x = r THEN [target |-> s, source |-> o] ELSE m_file_pastes[x]]
    PROVE  /\ IsFiniteSet(DOMAIN m_file_pastes') /\ DOMAIN m_file_pastes' \subseteq Reqs
           /\ m_file_pastes' \in [DOMAIN m_file_pastes' -> Pairs]
           /\ Kept'
<1>1. /\ IsFiniteSet(DOMAIN m_file_pastes) /\ DOMAIN m_file_pastes \subseteq Reqs
      /\ m_file_pastes \in [DOMAIN m_file_pastes -> Pairs]
      /\ Connected \subseteq Screens
  BY DEF IInv, Types, Connected, Screens
<1>2. DOMAIN m_file_pastes' = DOMAIN m_file_pastes \cup {r}
  OBVIOUS
<1>3. IsFiniteSet(DOMAIN m_file_pastes')
  BY <1>1, <1>2, FS_AddElement
<1>4. [target |-> s, source |-> o] \in Pairs
  BY <1>1 DEF Pairs
<1>5. m_file_pastes' \in [DOMAIN m_file_pastes' -> Pairs]
  BY <1>1, <1>2, <1>4
<1>6. Connected' = Connected
  BY DEF Connected
<1>7. ASSUME NEW x \in DOMAIN m_file_pastes'
      PROVE  /\ m_file_pastes'[x].target \in Connected /\ m_file_pastes'[x].source \in Connected
             /\ m_file_pastes'[x].target # m_file_pastes'[x].source
             /\ m_file_pastes'[x].target = x[1]
  <2>1. CASE x = r
    <3>1. m_file_pastes'[x] = [target |-> s, source |-> o]
      BY <2>1
    <3> QED
      BY <2>1, <3>1
  <2>2. CASE x # r
    <3>1. x \in DOMAIN m_file_pastes /\ m_file_pastes'[x] = m_file_pastes[x]
      BY <1>2, <2>2
    <3> QED
      BY <3>1 DEF IInv, Kept
  <2> QED
    BY <2>1, <2>2
<1>8. Kept'
  BY <1>6, <1>7 DEF Kept
<1> QED
  BY <1>1, <1>2, <1>3, <1>5, <1>8

\* Pastes are removed, and those that stay are between connected screens.
LEMMA RemovePastes ==
    ASSUME IInv, NEW R, m_file_pastes' = without(R),
           \A r \in DOMAIN m_file_pastes \ R :
              {m_file_pastes[r].target, m_file_pastes[r].source} \subseteq Connected'
    PROVE  /\ IsFiniteSet(DOMAIN m_file_pastes') /\ DOMAIN m_file_pastes' \subseteq Reqs
           /\ m_file_pastes' \in [DOMAIN m_file_pastes' -> Pairs]
           /\ Kept'
<1>1. /\ IsFiniteSet(DOMAIN m_file_pastes) /\ DOMAIN m_file_pastes \subseteq Reqs
      /\ m_file_pastes \in [DOMAIN m_file_pastes -> Pairs]
  BY DEF IInv, Types
<1>2. DOMAIN m_file_pastes' = DOMAIN m_file_pastes \ R
  BY DEF without
<1>3. IsFiniteSet(DOMAIN m_file_pastes')
  BY <1>1, <1>2, FS_Subset
<1>4. \A x \in DOMAIN m_file_pastes' : m_file_pastes'[x] = m_file_pastes[x] /\ x \in DOMAIN m_file_pastes
  BY <1>2 DEF without
<1>5. m_file_pastes' \in [DOMAIN m_file_pastes' -> Pairs]
  BY <1>1, <1>4 DEF without
<1>6. Kept'
  BY <1>2, <1>4 DEF IInv, Kept
<1> QED
  BY <1>1, <1>2, <1>3, <1>5, <1>6

\* Screen t has its answer to r, or the answer is on its way, or t has lost its connection.
Told(t, r) ==
    \/ t \in Clients \ link
    \/ t \in Clients /\ Answered(In(toClient[t]), r)
    \/ t = Primary /\ (waiting_[t] = r => ~(In(statuses_[t]) \subseteq {"sending"}))

\* The state of a status that is written because of e.
Says(e, x) == x = "failed" \/ (e.type = "status" /\ x = e.state)

\* What a handler of the server does to the queues, ...
Writes(e, q) ==
    /\ \A x \in Screens \ {Primary} : events'[x] = events[x] /\ taildrop'[x] = taildrop[x] /\ job'[x] = job[x]
    /\ \/ /\ taildrop'[Primary] = taildrop[Primary] /\ job'[Primary] = job[Primary]
          /\ In(events'[Primary]) \in {In(q), In(q) \cup {Status(e.req, "failed")}}
       \/ /\ taildrop[Primary] = "idle" /\ taildrop'[Primary] = "start"
          /\ job'[Primary] = [req |-> e.req, state |-> "none"] /\ In(events'[Primary]) = In(q)
    /\ \A x \in Screens : \/ In(statuses_'[x]) = In(statuses_[x])
                          \/ /\ waiting_[x] = e.req
                             /\ \E y : Says(e, y) /\ In(statuses_'[x]) = In(statuses_[x]) \cup {y}
    /\ \A c \in Clients :
          \/ In(toClient'[c]) = In(toClient[c])
          \/ \E m : /\ In(toClient'[c]) = In(toClient[c]) \cup {m}
                    /\ m.type = "send" \/ (m.req = e.req /\ Says(e, m.state))

\* ... and who cares for the pastes it knew and the one it is asked for.
Cares(s, e) ==
    /\ \A r \in DOMAIN m_file_pastes :
          \/ /\ r \in DOMAIN m_file_pastes' /\ m_file_pastes'[r] = m_file_pastes[r]
             /\ ~(m_file_pastes[r].source = s /\ e.type = "status" /\ e.req = r /\ e.state # "sending")
          \/ Told(r[1], r)'
    /\ e.type = "request" =>
          Told(s, e.req)' \/ (e.req \in DOMAIN m_file_pastes /\ Works(m_file_pastes[e.req].source, e.req))'

Effect(s, e, q) == Typed' /\ Kept' /\ delivered' = delivered /\ Writes(e, q) /\ Cares(s, e)

\* The primary's events when nothing is posted to them.
LEMMA QueueOnly ==
    ASSUME Types, NEW q \in Seq(Messages), events' = [events EXCEPT ![Primary] = q], UNCHANGED sender
    PROVE  /\ events' \in [Screens -> Seq(Messages)] /\ events'[Primary] = q
           /\ taildrop' \in [Screens -> {"idle", "start", "copying", "report", "clear"}]
           /\ job' \in [Screens -> [req : Reqs \cup {None}, state : States \cup {"none"}]]
           /\ \A x \in Screens \ {Primary} : events'[x] = events[x] /\ taildrop'[x] = taildrop[x] /\ job'[x] = job[x]
           /\ taildrop'[Primary] = taildrop[Primary] /\ job'[Primary] = job[Primary]
           /\ delivered' = delivered
BY DEF Types, sender, Screens

\* One status is told: who gets it.
LEMMA TellTells ==
    ASSUME Types, NEW t \in Screens, NEW r \in Reqs, NEW x \in States,
           tell({[to |-> t, msg |-> Status(r, x)]}), UNCHANGED <<link, waiting_>>
    PROVE  /\ statuses_' \in [Screens -> Seq(States)] /\ toClient' \in [Clients -> Seq(Messages)]
           /\ \A s \in Screens : \/ In(statuses_'[s]) = In(statuses_[s])
                                 \/ waiting_[s] = r /\ In(statuses_'[s]) = In(statuses_[s]) \cup {x}
           /\ \A c \in Clients : In(toClient'[c]) \in {In(toClient[c]), In(toClient[c]) \cup {Status(r, x)}}
           /\ x # "sending" => Told(t, r)'
<1>1. Status(r, x) \in Statuses /\ Status(r, x).req = r /\ Status(r, x).state = x
  BY StatusType
<1> DEFINE y == Status(r, x)
<1>2. /\ statuses_' \in [Screens -> Seq(States)] /\ toClient' \in [Clients -> Seq(Messages)]
      /\ \A s \in Screens : In(statuses_'[s]) = In(statuses_[s]) \cup
            (IF s = t /\ s = Primary /\ waiting_[s] = y.req THEN {y.state} ELSE {})
      /\ \A c \in Clients : In(toClient'[c]) = In(toClient[c]) \cup (IF c = t /\ c \in link THEN {y} ELSE {})
  <2>1. y \in Statuses /\ tell({[to |-> t, msg |-> y]})
    BY <1>1
  <2> HIDE DEF y
  <2> QED
    BY <2>1, TellOne
<1>3. x # "sending" => Told(t, r)'
  <2>1. CASE t \in Clients
    <3>1. t \in link => Status(r, x) \in In(toClient'[t])
      BY <1>2, <2>1
    <3>2. x # "sending" => x \in {"sent", "failed"}
      BY DEF States
    <3> QED
      BY <2>1, <3>1, <3>2 DEF Told, Answered
  <2>2. CASE t = Primary
    <3>1. waiting_[t] = r => x \in In(statuses_'[t])
      BY <1>1, <1>2, <2>2
    <3> QED
      BY <2>2, <3>1 DEF Told
  <2> QED
    BY <2>1, <2>2 DEF Screens
<1>4. \A c \in Clients : In(toClient'[c]) \in {In(toClient[c]), In(toClient[c]) \cup {Status(r, x)}}
  BY <1>2
<1>5. \A s \in Screens : \/ In(statuses_'[s]) = In(statuses_[s])
                         \/ waiting_[s] = r /\ In(statuses_'[s]) = In(statuses_[s]) \cup {x}
  BY <1>1, <1>2
<1> QED
  BY <1>2, <1>3, <1>4, <1>5

\* file_paste_requested(): refused with an answer, or kept with a source that works on it.
LEMMA RequestEffect ==
    ASSUME IInv, NEW s \in Screens, NEW e, NEW q, Takes(s, e, q),
           e.type = "request", file_paste_requested(s, e.req, e.id, q)
    PROVE  Effect(s, e, q)
<1> DEFINE r == e.req
<1>1. e \in Messages /\ r \in Reqs /\ r[1] = s /\ q \in Seq(Messages) /\ e.id \in Int
  BY TakesFrom, MessageType DEF Takes
<1>2. Types /\ Kept /\ UNCHANGED <<m_clients, waiting_, link>> /\ Primary \in Screens /\ Primary \notin Clients
  BY FilePasteAssumption DEF IInv, Takes, Screens
<1>3. /\ statuses_ \in [Screens -> Seq(States)] /\ toClient \in [Clients -> Seq(Messages)]
      /\ IsFiniteSet(DOMAIN m_file_pastes) /\ DOMAIN m_file_pastes \subseteq Reqs
      /\ m_file_pastes \in [DOMAIN m_file_pastes -> Pairs]
  BY <1>2 DEF Types
<1>4. CASE /\ refuses(s, r, e.id)
           /\ tell({[to |-> s, msg |-> Status(r, "failed")]})
           /\ events' = [events EXCEPT ![Primary] = q]
           /\ UNCHANGED <<m_file_pastes, sender>>
  <2>1. "failed" \in States
    BY DEF States
  <2>2. /\ statuses_' \in [Screens -> Seq(States)] /\ toClient' \in [Clients -> Seq(Messages)]
        /\ \A x \in Screens : \/ In(statuses_'[x]) = In(statuses_[x])
                              \/ waiting_[x] = r /\ In(statuses_'[x]) = In(statuses_[x]) \cup {"failed"}
        /\ \A c \in Clients : In(toClient'[c]) \in {In(toClient[c]), In(toClient[c]) \cup {Status(r, "failed")}}
        /\ Told(s, r)'
    <3>1. tell({[to |-> s, msg |-> Status(r, "failed")]}) /\ UNCHANGED <<link, waiting_>> /\ r \in Reqs /\ Types
      BY <1>1, <1>2, <1>4
    <3>2. "failed" # "sending"
      OBVIOUS
    <3> HIDE DEF r
    <3> QED
      BY <2>1, <3>1, <3>2, TellTells
  <2>3. /\ events' \in [Screens -> Seq(Messages)] /\ events'[Primary] = q
        /\ taildrop' \in [Screens -> {"idle", "start", "copying", "report", "clear"}]
        /\ job' \in [Screens -> [req : Reqs \cup {None}, state : States \cup {"none"}]]
        /\ \A x \in Screens \ {Primary} : events'[x] = events[x] /\ taildrop'[x] = taildrop[x] /\ job'[x] = job[x]
        /\ taildrop'[Primary] = taildrop[Primary] /\ job'[Primary] = job[Primary]
        /\ delivered' = delivered
    BY <1>1, <1>2, <1>4, QueueOnly
  <2>4. Typed'
    BY <1>3, <1>4, <2>2, <2>3 DEF Typed
  <2>5. Kept'
    BY <1>2, <1>4 DEF Kept, Connected
  <2>6. Says(e, "failed") /\ Status(r, "failed").req = r /\ Status(r, "failed").state = "failed"
    BY <1>1, <2>1, StatusType DEF Says
  <2>7. Writes(e, q)
    <3>1. \A x \in Screens : \/ In(statuses_'[x]) = In(statuses_[x])
                             \/ /\ waiting_[x] = e.req
                                /\ \E y : Says(e, y) /\ In(statuses_'[x]) = In(statuses_[x]) \cup {y}
      BY <2>2, <2>6
    <3>2. \A c \in Clients :
             \/ In(toClient'[c]) = In(toClient[c])
             \/ \E m : /\ In(toClient'[c]) = In(toClient[c]) \cup {m}
                       /\ m.type = "send" \/ (m.req = e.req /\ Says(e, m.state))
      BY <2>2, <2>6
    <3>3. In(events'[Primary]) \in {In(q), In(q) \cup {Status(e.req, "failed")}}
      BY <2>3
    <3> QED
      BY <2>3, <3>1, <3>2, <3>3 DEF Writes
  <2>8. Cares(s, e)
    BY <1>4, <2>2 DEF Cares
  <2> QED
    BY <2>3, <2>4, <2>5, <2>7, <2>8 DEF Effect
<1>5. CASE /\ ~refuses(s, r, e.id)
           /\ m_file_pastes' = [x \in DOMAIN m_file_pastes \cup {r} |->
                                  IF x = r THEN [target |-> s, source |-> clip.owner] ELSE m_file_pastes[x]]
           /\ IF clip.owner = Primary
              THEN /\ send_files(Primary, r, e.id, q)
                   /\ UNCHANGED <<statuses_, toClient>>
              ELSE /\ toClient' = [toClient EXCEPT ![clip.owner] =
                                     IF clip.owner \in link THEN Append(@, Send(r, e.id)) ELSE @]
                   /\ events' = [events EXCEPT ![Primary] = q]
                   /\ UNCHANGED <<statuses_, sender>>
  <2>0. PICK o : o = clip.owner
    OBVIOUS
  <2>1. s \in Connected /\ o \in Connected /\ s # o /\ r \notin DOMAIN m_file_pastes
    BY <1>5, <2>0 DEF refuses
  <2>2. /\ IsFiniteSet(DOMAIN m_file_pastes') /\ DOMAIN m_file_pastes' \subseteq Reqs
        /\ m_file_pastes' \in [DOMAIN m_file_pastes' -> Pairs]
        /\ Kept'
    <3>1. m_file_pastes' = [x \in DOMAIN m_file_pastes \cup {r} |->
                               IF x = r THEN [target |-> s, source |-> o] ELSE m_file_pastes[x]]
      BY <1>5, <2>0
    <3> HIDE DEF r
    <3> QED
      BY <1>1, <1>2, <2>1, <3>1, AddPaste
  <2>3. r \in DOMAIN m_file_pastes' /\ m_file_pastes'[r].source = o
    BY <1>5, <2>0
  <2>4. \A x \in DOMAIN m_file_pastes : x \in DOMAIN m_file_pastes' /\ m_file_pastes'[x] = m_file_pastes[x]
    BY <1>5, <2>1
  <2>5. Works(o, r)' => Cares(s, e)
    BY <2>3, <2>4 DEF Cares
  <2>6. CASE o = Primary
    <3>1. send_files(Primary, r, e.id, q) /\ UNCHANGED <<statuses_, toClient>>
      BY <1>5, <2>0, <2>6
    <3>2. /\ events' \in [Screens -> Seq(Messages)]
          /\ taildrop' \in [Screens -> {"idle", "start", "copying", "report", "clear"}]
          /\ job' \in [Screens -> [req : Reqs \cup {None}, state : States \cup {"none"}]]
          /\ \A x \in Screens \ {Primary} : events'[x] = events[x] /\ taildrop'[x] = taildrop[x] /\ job'[x] = job[x]
          /\ delivered' = delivered
          /\ \/ /\ taildrop[Primary] = "idle" /\ taildrop'[Primary] = "start"
                /\ job'[Primary] = [req |-> r, state |-> "none"] /\ In(events'[Primary]) = In(q)
             \/ /\ taildrop'[Primary] = taildrop[Primary] /\ job'[Primary] = job[Primary]
                /\ In(events'[Primary]) = In(q) \cup {Status(r, "failed")}
      <4> HIDE DEF r
      <4> QED
        BY <1>1, <1>2, <3>1, SendEffect
    <3>3. Typed'
      BY <1>3, <2>2, <3>1, <3>2 DEF Typed
    <3>4. Writes(e, q)
      BY <3>1, <3>2 DEF Writes
    <3>5. Works(o, r)'
      <4>1. CASE taildrop'[Primary] = "start" /\ job'[Primary] = [req |-> r, state |-> "none"]
        BY <2>6, <4>1 DEF Works
      <4>2. CASE Status(r, "failed") \in In(events'[Primary])
        BY <2>6, <4>2 DEF Works, Answered
      <4> QED
        BY <3>2, <4>1, <4>2
    <3> QED
      BY <2>2, <2>5, <3>2, <3>3, <3>4, <3>5 DEF Effect
  <2>7. CASE o # Primary
    <3>1. /\ toClient' = [toClient EXCEPT ![o] = IF o \in link THEN Append(toClient[o], Send(r, e.id)) ELSE toClient[o]]
          /\ events' = [events EXCEPT ![Primary] = q] /\ UNCHANGED <<statuses_, sender>>
      BY <1>5, <2>0, <2>7
    <3>2. o \in Clients
      BY <1>2, <2>1, <2>7 DEF Connected, Types
    <3>3. Send(r, e.id) \in Messages /\ Send(r, e.id).type = "send" /\ Send(r, e.id).req = r
      BY <1>1 DEF Send, Messages
    <3>4. Append(toClient[o], Send(r, e.id)) \in Seq(Messages)
          /\ In(Append(toClient[o], Send(r, e.id))) = In(toClient[o]) \cup {Send(r, e.id)}
      BY <1>3, <3>2, <3>3, InAppend
    <3>5. /\ toClient' \in [Clients -> Seq(Messages)]
          /\ \A c \in Clients \ {o} : toClient'[c] = toClient[c]
          /\ toClient'[o] = IF o \in link THEN Append(toClient[o], Send(r, e.id)) ELSE toClient[o]
      BY <1>3, <3>1, <3>2, <3>4
    <3>6. /\ events' \in [Screens -> Seq(Messages)] /\ events'[Primary] = q
          /\ taildrop' \in [Screens -> {"idle", "start", "copying", "report", "clear"}]
          /\ job' \in [Screens -> [req : Reqs \cup {None}, state : States \cup {"none"}]]
          /\ \A x \in Screens \ {Primary} : events'[x] = events[x] /\ taildrop'[x] = taildrop[x] /\ job'[x] = job[x]
          /\ taildrop'[Primary] = taildrop[Primary] /\ job'[Primary] = job[Primary]
          /\ delivered' = delivered
      BY <1>1, <1>2, <3>1, QueueOnly
    <3>7. Typed'
      BY <1>3, <2>2, <3>1, <3>5, <3>6 DEF Typed
    <3>8. \A c \in Clients : \/ In(toClient'[c]) = In(toClient[c])
                             \/ In(toClient'[c]) = In(toClient[c]) \cup {Send(r, e.id)}
      BY <3>4, <3>5
    <3>9. Writes(e, q)
      BY <3>1, <3>3, <3>6, <3>8 DEF Writes
    <3>10. Works(o, r)'
      <4>1. o \in link => Send(r, e.id) \in In(toClient'[o])
        BY <3>4, <3>5
      <4> QED
        BY <1>2, <3>2, <3>3, <4>1 DEF Works, Ordered
    <3> QED
      BY <2>2, <2>5, <3>6, <3>7, <3>9, <3>10 DEF Effect
  <2> QED
    BY <2>6, <2>7
<1> QED
  BY <1>4, <1>5 DEF file_paste_requested

\* file_paste_status(): passed on to the target, which is connected, or ignored.
LEMMA StatusEffect ==
    ASSUME IInv, NEW s \in Screens, NEW e, NEW q, Takes(s, e, q),
           e.type = "status", file_paste_status(s, e.req, e.state),
           events' = [events EXCEPT ![Primary] = q], UNCHANGED sender
    PROVE  Effect(s, e, q)
<1> DEFINE r == e.req
           x == e.state
<1>1. e \in Messages /\ r \in Reqs /\ q \in Seq(Messages) /\ x \in States
  BY TakesFrom, MessageType DEF Takes
<1>2. Types /\ Kept /\ UNCHANGED <<m_clients, waiting_, link>> /\ Primary \in Screens
  BY DEF IInv, Takes, Screens
<1>3. /\ statuses_ \in [Screens -> Seq(States)] /\ toClient \in [Clients -> Seq(Messages)]
      /\ IsFiniteSet(DOMAIN m_file_pastes) /\ DOMAIN m_file_pastes \subseteq Reqs
      /\ m_file_pastes \in [DOMAIN m_file_pastes -> Pairs]
  BY <1>2 DEF Types
<1>4. /\ events' \in [Screens -> Seq(Messages)] /\ events'[Primary] = q
      /\ taildrop' \in [Screens -> {"idle", "start", "copying", "report", "clear"}]
      /\ job' \in [Screens -> [req : Reqs \cup {None}, state : States \cup {"none"}]]
      /\ \A y \in Screens \ {Primary} : events'[y] = events[y] /\ taildrop'[y] = taildrop[y] /\ job'[y] = job[y]
      /\ taildrop'[Primary] = taildrop[Primary] /\ job'[Primary] = job[Primary]
      /\ delivered' = delivered
  BY <1>1, <1>2, QueueOnly
<1>5. In(events'[Primary]) \in {In(q), In(q) \cup {Status(e.req, "failed")}}
  BY <1>4
<1>6. Connected' = Connected
  BY <1>2 DEF Connected
<1>7. CASE r \in DOMAIN m_file_pastes /\ m_file_pastes[r].source = s
  <2>1. PICK t : t = m_file_pastes[r].target
    OBVIOUS
  <2>2. t \in Connected /\ t \in Screens /\ t = r[1]
    BY <1>2, <1>7, <2>1 DEF Kept, Types, Connected, Screens
  <2>3. /\ m_file_pastes' = IF x = "sending" THEN m_file_pastes ELSE without({r})
        /\ tell({[to |-> t, msg |-> Status(r, x)]})
    BY <1>7, <2>1, <2>2 DEF file_paste_status
  <2>4. /\ statuses_' \in [Screens -> Seq(States)] /\ toClient' \in [Clients -> Seq(Messages)]
        /\ \A y \in Screens : \/ In(statuses_'[y]) = In(statuses_[y])
                              \/ waiting_[y] = r /\ In(statuses_'[y]) = In(statuses_[y]) \cup {x}
        /\ \A c \in Clients : In(toClient'[c]) \in {In(toClient[c]), In(toClient[c]) \cup {Status(r, x)}}
        /\ x # "sending" => Told(t, r)'
    <3>1. tell({[to |-> t, msg |-> Status(r, x)]}) /\ UNCHANGED <<link, waiting_>> /\ r \in Reqs /\ Types /\ x \in States
      BY <1>1, <1>2, <2>3
    <3> HIDE DEF r, x
    <3> QED
      BY <2>2, <3>1, TellTells
  <2>5. /\ IsFiniteSet(DOMAIN m_file_pastes') /\ DOMAIN m_file_pastes' \subseteq Reqs
        /\ m_file_pastes' \in [DOMAIN m_file_pastes' -> Pairs]
        /\ Kept'
    <3>1. CASE x = "sending"
      <4>1. UNCHANGED m_file_pastes
        BY <2>3, <3>1
      <4>2. Kept'
        BY <1>2, <1>6, <4>1 DEF Kept
      <4> QED
        BY <1>3, <4>1, <4>2
    <3>2. CASE x # "sending"
      <4> DEFINE R == {r}
      <4>1. m_file_pastes' = without(R)
        BY <2>3, <3>2
      <4>2. \A y \in DOMAIN m_file_pastes \ R :
               {m_file_pastes[y].target, m_file_pastes[y].source} \subseteq Connected'
        BY <1>2, <1>6 DEF Kept
      <4> HIDE DEF R
      <4> QED
        BY <4>1, <4>2, RemovePastes
    <3> QED
      BY <3>1, <3>2
  <2>6. Typed'
    BY <1>4, <2>4, <2>5 DEF Typed
  <2>7. Says(e, x) /\ Status(r, x).req = r /\ Status(r, x).state = x
    BY <1>1, StatusType DEF Says
  <2>8. Writes(e, q)
    <3>1. \A y \in Screens : \/ In(statuses_'[y]) = In(statuses_[y])
                             \/ /\ waiting_[y] = e.req
                                /\ \E z : Says(e, z) /\ In(statuses_'[y]) = In(statuses_[y]) \cup {z}
      BY <2>4, <2>7
    <3>2. \A c \in Clients :
             \/ In(toClient'[c]) = In(toClient[c])
             \/ \E m : /\ In(toClient'[c]) = In(toClient[c]) \cup {m}
                       /\ m.type = "send" \/ (m.req = e.req /\ Says(e, m.state))
      BY <2>4, <2>7
    <3> QED
      BY <1>4, <1>5, <3>1, <3>2 DEF Writes
  <2>9. Cares(s, e)
    <3>1. CASE x = "sending"
      BY <2>3, <3>1 DEF Cares
    <3>2. CASE x # "sending"
      <4>1. \A y \in DOMAIN m_file_pastes : y # r => y \in DOMAIN m_file_pastes' /\ m_file_pastes'[y] = m_file_pastes[y]
        BY <2>3, <3>2 DEF without
      <4>2. Told(t, r)' /\ t = r[1]
        BY <2>2, <2>4, <3>2
      <4>3. Told(r[1], r)'
        BY <4>2
      <4> HIDE DEF x
      <4> QED
        BY <4>1, <4>3 DEF Cares
    <3> QED
      BY <3>1, <3>2
  <2> QED
    BY <1>4, <2>5, <2>6, <2>8, <2>9 DEF Effect
<1>8. CASE ~(r \in DOMAIN m_file_pastes /\ m_file_pastes[r].source = s)
  <2>1. UNCHANGED <<m_file_pastes, statuses_, toClient>>
    BY <1>8 DEF file_paste_status
  <2>2. Kept'
    BY <1>2, <1>6, <2>1 DEF Kept
  <2>3. Typed'
    BY <1>3, <1>4, <2>1 DEF Typed
  <2>4. Writes(e, q)
    BY <1>4, <1>5, <2>1 DEF Writes
  <2>5. Cares(s, e)
    BY <1>8, <2>1 DEF Cares
  <2> QED
    BY <1>4, <2>2, <2>3, <2>4, <2>5 DEF Effect
<1> QED
  BY <1>7, <1>8

\* Whatever the server takes, the effect is of this kind.
LEMMA ServerEffect ==
    ASSUME IInv, primaryEvent \/ \E c \in Clients : parseMessage(c)
    PROVE  \E s \in Screens : \E e, q : Takes(s, e, q) /\ Effect(s, e, q)
<1>0. PICK s \in Screens : \E e, q : Takes(s, e, q) /\ Handles(s, e, q)
  BY ServerTakes DEF IInv
<1>1. PICK e, q : Takes(s, e, q) /\ Handles(s, e, q)
  BY <1>0
<1>2. Effect(s, e, q)
  BY <1>1, RequestEffect, StatusEffect DEF Handles
<1> QED
  BY <1>1, <1>2

\* The server's handlers keep the invariant.
LEMMA ServerKeeps ==
    ASSUME IInv, NEW s \in Screens, NEW e, NEW q, Takes(s, e, q), Effect(s, e, q)
    PROVE  IInv'
<1>1. Typed' /\ Kept' /\ Writes(e, q)
  BY DEF Effect
<1>2. e \in Messages /\ e.req \in Reqs
  BY TakesFrom
<1>3. Status(e.req, "failed") \in Statuses
  BY <1>2, StatusType DEF States
<1>4. In(events'[Primary]) \subseteq In(q) \cup Statuses
  BY <1>1, <1>3 DEF Writes
<1>5. Jobs'
  <2>1. \A y \in Screens : \/ taildrop'[y] = taildrop[y] /\ job'[y] = job[y]
                           \/ taildrop'[y] = "start" /\ job'[y] = [req |-> e.req, state |-> "none"]
    BY <1>1 DEF Writes
  <2> QED
    BY <1>2, <2>1 DEF IInv, Jobs
<1>6. \A x \in Screens \ {Primary} : events'[x] = events[x]
  BY <1>1 DEF Writes
<1> QED
  BY <1>1, <1>4, <1>5, <1>6, TakesKeeps

----------------------------------------------------------------------------
(* A client leaves, and a client reads.                                     *)

\* removeClient() tells the target of every paste that has lost its source.
LEMMA RemoveEffect ==
    ASSUME IInv, NEW c \in Clients, removeClient(c)
    PROVE  /\ IInv'
           /\ \A x \in Screens : In(statuses_'[x]) \in {In(statuses_[x]), In(statuses_[x]) \cup {"failed"}}
           /\ \A d \in Clients : /\ In(toClient[d]) \subseteq In(toClient'[d])
                                 /\ \A m \in In(toClient'[d]) \ In(toClient[d]) : m.type = "status" /\ m.state = "failed"
           /\ \A r \in DOMAIN m_file_pastes :
                 \/ r \in DOMAIN m_file_pastes' /\ m_file_pastes'[r] = m_file_pastes[r]
                 \/ Told(r[1], r)'
<1> DEFINE X == {x \in ended(c) : m_file_pastes[x].source = c /\ m_file_pastes[x].target \in Connected \ {c}}
           F(r) == [to |-> m_file_pastes[r].target, msg |-> Status(r, "failed")]
           B == {F(r) : r \in X}
<1>1. /\ c \in m_clients \ link /\ m_clients' = m_clients \ {c} /\ m_file_pastes' = without(ended(c))
      /\ UNCHANGED <<clipboards, paste, waiting_, connected_, sender, link, events, toServer, pasted, counters>>
  BY DEF removeClient
<1>2. tell(B)
  BY DEF removeClient
<1>3. Types /\ Kept /\ Primary \in Screens /\ Primary \notin Clients /\ Clients \subseteq Screens
  BY FilePasteAssumption DEF IInv, Screens
<1>4. /\ IsFiniteSet(DOMAIN m_file_pastes) /\ DOMAIN m_file_pastes \subseteq Reqs
      /\ m_file_pastes \in [DOMAIN m_file_pastes -> Pairs] /\ X \subseteq DOMAIN m_file_pastes
  BY <1>3 DEF Types, ended
<1>5. "failed" \in States
  BY DEF States
<1>6. \A r \in X : /\ F(r).to = m_file_pastes[r].target /\ F(r).to \in Screens
                   /\ F(r).msg = Status(r, "failed") /\ F(r).msg \in Statuses
                   /\ F(r).msg.state = "failed" /\ F(r).msg.type = "status" /\ F(r).msg.req = r
  BY <1>4, <1>5, StatusType DEF Pairs
<1>7. B \subseteq [to : Screens, msg : Statuses]
  BY <1>6
<1>8. IsFiniteSet(B)
  <2> DEFINE f == [r \in X |-> F(r)]
  <2>1. f \in [X -> B] /\ \A y \in B : \E r \in X : f[r] = y
    OBVIOUS
  <2>2. IsFiniteSet(X)
    BY <1>4, FS_Subset
  <2> HIDE DEF f, B, X
  <2> QED
    BY <2>1, <2>2, FiniteImage
<1>9. \A b \in B : \E r \in X : /\ b.to = m_file_pastes[r].target
                                /\ b.msg = Status(r, "failed") /\ b.msg.state = "failed" /\ b.msg.type = "status" /\ b.msg.req = r
  BY <1>6
<1>10. \A r \in X : \E b \in B : /\ b.to = m_file_pastes[r].target
                                 /\ b.msg = Status(r, "failed") /\ b.msg.state = "failed" /\ b.msg.req = r
  BY <1>6
<1> HIDE DEF B, F
<1>11. /\ statuses_' \in [Screens -> Seq(States)]
       /\ \A s \in Screens \ {Primary} : statuses_'[s] = statuses_[s]
       /\ In(statuses_'[Primary]) = In(statuses_[Primary]) \cup
             {m.msg.state : m \in {n \in B : n.to = Primary /\ n.msg.req = waiting_[Primary]}}
       /\ toClient' \in [Clients -> Seq(Messages)]
       /\ \A d \in Clients : In(toClient'[d]) =
             In(toClient[d]) \cup {m.msg : m \in {n \in B : n.to = d /\ d \in link}}
  BY <1>2, <1>3, <1>7, <1>8, TellEffect
<1>12. \A x \in Screens : In(statuses_'[x]) \in {In(statuses_[x]), In(statuses_[x]) \cup {"failed"}}
  <2>1. {m.msg.state : m \in {n \in B : n.to = Primary /\ n.msg.req = waiting_[Primary]}} \in {{}, {"failed"}}
    <3>1. \A m \in B : m.msg.state = "failed"
      BY <1>9
    <3> QED
      BY <3>1
  <2> QED
    BY <1>11, <2>1
<1>13. \A d \in Clients : /\ In(toClient[d]) \subseteq In(toClient'[d])
                          /\ \A m \in In(toClient'[d]) \ In(toClient[d]) : m.type = "status" /\ m.state = "failed"
  <2>1. \A b \in B : b.msg.type = "status" /\ b.msg.state = "failed"
    BY <1>9
  <2>2. \A d \in Clients : \A m \in {b.msg : b \in {n \in B : n.to = d /\ d \in link}} :
           m.type = "status" /\ m.state = "failed"
    BY <2>1
  <2> QED
    BY <1>11, <2>2
<1>14. ASSUME NEW r \in DOMAIN m_file_pastes
       PROVE  \/ r \in DOMAIN m_file_pastes' /\ m_file_pastes'[r] = m_file_pastes[r]
              \/ Told(r[1], r)'
  <2>1. CASE r \notin ended(c)
    BY <1>1, <2>1 DEF without
  <2>2. CASE r \in ended(c) /\ m_file_pastes[r].target = c
    <3>1. r[1] = c
      BY <1>3, <2>2 DEF Kept
    <3>2. Told(c, r)'
      BY <1>1 DEF Told
    <3> QED
      BY <3>1, <3>2
  <2>3. CASE r \in ended(c) /\ m_file_pastes[r].target # c
    <3>1. PICK t : t = m_file_pastes[r].target
      OBVIOUS
    <3>2. r \in X /\ t = r[1] /\ t \in Screens
      BY <1>3, <2>3, <3>1 DEF Kept, ended, Connected, Types, Screens
    <3>3. PICK b \in B : b.to = t /\ b.msg = Status(r, "failed") /\ b.msg.state = "failed" /\ b.msg.req = r
      BY <1>10, <3>1, <3>2
    <3>4. CASE t \in Clients
      <4>1. t \in link => Status(r, "failed") \in In(toClient'[t])
        BY <1>11, <3>3, <3>4
      <4>2. Told(t, r)'
        BY <1>1, <3>4, <4>1 DEF Told, Answered
      <4> QED
        BY <3>2, <4>2
    <3>5. CASE t = Primary
      <4>1. waiting_[t] = r => "failed" \in In(statuses_'[t])
        BY <1>11, <3>3, <3>5
      <4>2. Told(t, r)'
        BY <1>1, <3>5, <4>1 DEF Told
      <4> QED
        BY <3>2, <4>2
    <3> QED
      BY <3>2, <3>4, <3>5 DEF Screens
  <2> QED
    BY <2>1, <2>2, <2>3
<1>15. IInv'
  <2> DEFINE R == ended(c)
  <2>1. m_file_pastes' = without(R)
    BY <1>1
  <2>2. \A y \in DOMAIN m_file_pastes \ R :
           {m_file_pastes[y].target, m_file_pastes[y].source} \subseteq Connected'
    BY <1>1, <1>3 DEF Kept, ended, Connected
  <2> HIDE DEF R
  <2>3. /\ IsFiniteSet(DOMAIN m_file_pastes') /\ DOMAIN m_file_pastes' \subseteq Reqs
        /\ m_file_pastes' \in [DOMAIN m_file_pastes' -> Pairs]
        /\ Kept'
    BY <2>1, <2>2, RemovePastes
  <2>4. Types'
    BY <1>1, <1>3, <1>11, <2>3 DEF Types, clipboards, sender, counters
  <2>5. Mail'
    BY <1>1 DEF IInv, Mail
  <2>6. Jobs'
    BY <1>1 DEF IInv, Jobs, sender
  <2>7. Up'
    BY <1>1 DEF IInv, Up
  <2> QED
    BY <2>3, <2>4, <2>5, <2>6, <2>7 DEF IInv
<1> QED
  BY <1>12, <1>13, <1>14, <1>15

\* A client reads an order, which starts its thread or fails, or a status.
LEMMA ReadEffect ==
    ASSUME IInv, NEW c \in Clients, clientReads(c)
    PROVE  /\ IInv' /\ delivered' = delivered
           /\ UNCHANGED <<server, clipboards, paste, waiting_, connected_, link, toServer, pasted, counters>>
           /\ \A x \in Screens \ {c} : events'[x] = events[x] /\ taildrop'[x] = taildrop[x] /\ job'[x] = job[x]
                                       /\ statuses_'[x] = statuses_[x]
           /\ \A d \in Clients \ {c} : toClient'[d] = toClient[d]
           /\ \E m \in Messages :
                 /\ In(toClient[c]) = In(toClient'[c]) \cup {m}
                 /\ \/ /\ m.type = "send" /\ statuses_'[c] = statuses_[c]
                       /\ \/ /\ taildrop[c] = "idle" /\ taildrop'[c] = "start"
                             /\ job'[c] = [req |-> m.req, state |-> "none"] /\ In(events'[c]) = In(events[c])
                          \/ /\ taildrop'[c] = taildrop[c] /\ job'[c] = job[c]
                             /\ In(events'[c]) = In(events[c]) \cup {Status(m.req, "failed")}
                    \/ /\ m.type = "status" /\ m = Status(m.req, m.state)
                       /\ taildrop'[c] = taildrop[c] /\ job'[c] = job[c] /\ events'[c] = events[c]
                       /\ In(statuses_'[c]) = In(statuses_[c]) \cup (IF waiting_[c] = m.req THEN {m.state} ELSE {})
<1> DEFINE m == Head(toClient[c])
<1>1. Types /\ c \in Screens
  BY DEF IInv, Screens
<1>2. /\ toClient \in [Clients -> Seq(Messages)] /\ events \in [Screens -> Seq(Messages)]
      /\ statuses_ \in [Screens -> Seq(States)]
      /\ taildrop \in [Screens -> {"idle", "start", "copying", "report", "clear"}]
      /\ job \in [Screens -> [req : Reqs \cup {None}, state : States \cup {"none"}]]
  BY <1>1 DEF Types
<1>3. /\ toClient[c] # <<>> /\ toClient' = [toClient EXCEPT ![c] = Tail(@)]
      /\ UNCHANGED <<server, clipboards, paste, waiting_, connected_, link, toServer, pasted, counters>>
      /\ \/ m.type = "send" /\ send_files(c, m.req, m.id, events[c]) /\ UNCHANGED statuses_
         \/ m.type = "status" /\ status(c, m.req, m.state) /\ UNCHANGED <<events, sender>>
  BY DEF clientReads
<1>4. m \in Messages /\ Tail(toClient[c]) \in Seq(Messages) /\ In(toClient[c]) = In(Tail(toClient[c])) \cup {m}
  BY <1>2, <1>3, InTail
<1> HIDE DEF m
<1>5. m.req \in Reqs /\ (m.type = "status" => m.state \in States /\ m = Status(m.req, m.state))
  BY <1>4, MessageType
<1>6. /\ toClient' \in [Clients -> Seq(Messages)] /\ In(toClient[c]) = In(toClient'[c]) \cup {m}
      /\ \A d \in Clients \ {c} : toClient'[d] = toClient[d]
  BY <1>2, <1>3, <1>4
<1>7. CASE m.type = "send" /\ send_files(c, m.req, m.id, events[c]) /\ UNCHANGED statuses_
  <2>1. /\ events' \in [Screens -> Seq(Messages)]
        /\ taildrop' \in [Screens -> {"idle", "start", "copying", "report", "clear"}]
        /\ job' \in [Screens -> [req : Reqs \cup {None}, state : States \cup {"none"}]]
        /\ \A x \in Screens \ {c} : events'[x] = events[x] /\ taildrop'[x] = taildrop[x] /\ job'[x] = job[x]
        /\ delivered' = delivered
        /\ \/ /\ taildrop[c] = "idle" /\ taildrop'[c] = "start"
              /\ job'[c] = [req |-> m.req, state |-> "none"] /\ In(events'[c]) = In(events[c])
           \/ /\ taildrop'[c] = taildrop[c] /\ job'[c] = job[c]
              /\ In(events'[c]) = In(events[c]) \cup {Status(m.req, "failed")}
    <3> DEFINE r == m.req
               q == events[c]
    <3>1. q \in Seq(Messages) /\ r \in Reqs /\ send_files(c, r, m.id, q)
      BY <1>1, <1>2, <1>5, <1>7
    <3> HIDE DEF r, q
    <3>2. /\ events' \in [Screens -> Seq(Messages)]
          /\ taildrop' \in [Screens -> {"idle", "start", "copying", "report", "clear"}]
          /\ job' \in [Screens -> [req : Reqs \cup {None}, state : States \cup {"none"}]]
          /\ \A x \in Screens \ {c} : events'[x] = events[x] /\ taildrop'[x] = taildrop[x] /\ job'[x] = job[x]
          /\ delivered' = delivered
          /\ \/ /\ taildrop[c] = "idle" /\ taildrop'[c] = "start"
                /\ job'[c] = [req |-> r, state |-> "none"] /\ In(events'[c]) = In(q)
             \/ /\ taildrop'[c] = taildrop[c] /\ job'[c] = job[c]
                /\ In(events'[c]) = In(q) \cup {Status(r, "failed")}
      BY <1>1, <3>1, SendEffect
    <3> QED
      BY <3>2 DEF r, q
  <2>2. Types'
    BY <1>1, <1>3, <1>6, <1>7, <2>1 DEF Types, server, clipboards, counters
  <2>3. Mail'
    <3>1. Status(m.req, "failed").type = "status"
      BY DEF Status
    <3>2. Asks(In(events'[c]), c)
      BY <1>1, <2>1, <3>1 DEF IInv, Mail, Asks
    <3>3. \A x \in Screens : Asks(In(events'[x]), x)
      BY <2>1, <3>2 DEF IInv, Mail
    <3> QED
      BY <1>3, <3>3 DEF IInv, Mail
  <2>4. Jobs'
    <3>1. \A y \in Screens : \/ taildrop'[y] = taildrop[y] /\ job'[y] = job[y]
                             \/ taildrop'[y] = "start" /\ job'[y] = [req |-> m.req, state |-> "none"]
      BY <2>1
    <3> QED
      BY <1>5, <3>1 DEF IInv, Jobs
  <2>5. Kept' /\ Up'
    BY <1>3 DEF IInv, Kept, Up, server, Connected
  <2>6. IInv'
    BY <2>2, <2>3, <2>4, <2>5 DEF IInv
  <2>7. \A x \in Screens : statuses_'[x] = statuses_[x]
    BY <1>7
  <2> QED
    BY <1>1, <1>3, <1>4, <1>6, <1>7, <2>1, <2>6, <2>7
<1>8. CASE m.type = "status" /\ status(c, m.req, m.state) /\ UNCHANGED <<events, sender>>
  <2>1. Append(statuses_[c], m.state) \in Seq(States)
        /\ In(Append(statuses_[c], m.state)) = In(statuses_[c]) \cup {m.state}
    BY <1>1, <1>2, <1>5, <1>8, InAppend
  <2>2. /\ statuses_' \in [Screens -> Seq(States)]
        /\ \A x \in Screens \ {c} : statuses_'[x] = statuses_[x]
        /\ In(statuses_'[c]) = In(statuses_[c]) \cup (IF waiting_[c] = m.req THEN {m.state} ELSE {})
    BY <1>1, <1>2, <1>8, <2>1 DEF status
  <2>3. Types'
    BY <1>1, <1>3, <1>6, <1>8, <2>2 DEF Types, server, clipboards, counters, sender
  <2>4. Mail' /\ Jobs' /\ Kept' /\ Up'
    BY <1>3, <1>8 DEF IInv, Mail, Jobs, Kept, Up, server, Connected, sender
  <2>5. IInv' /\ UNCHANGED <<events, taildrop, job, delivered>>
    BY <1>8, <2>3, <2>4 DEF IInv, sender
  <2> QED
    BY <1>1, <1>3, <1>4, <1>5, <1>6, <1>8, <2>2, <2>5
<1> QED
  BY <1>3, <1>7, <1>8

----------------------------------------------------------------------------
(* The first theorem: the pastes that the server keeps.                     *)

\* The invariant holds at first.
LEMMA Start == Init => IInv
<1> SUFFICES ASSUME Init PROVE IInv
  OBVIOUS
<1>1. Primary \in Screens /\ Clients \subseteq Screens /\ MaxCopies \in Nat
  BY FilePasteAssumption DEF Screens
<1>2. DOMAIN m_file_pastes = {}
  BY DEF Init
<1>3. IsFiniteSet(DOMAIN m_file_pastes)
  BY <1>2, FS_EmptySet
<1>4. m_file_pastes \in [DOMAIN m_file_pastes -> Pairs]
  BY <1>2 DEF Init
<1>5. Types
  BY <1>1, <1>2, <1>3, <1>4 DEF Init, Types, None
<1>6. Mail
  BY <1>1 DEF Init, Mail, Asks, In
<1>7. Jobs /\ Kept /\ Up
  BY <1>1, <1>2 DEF Init, Jobs, Kept, Up
<1> QED
  BY <1>5, <1>6, <1>7 DEF IInv

\* A request is not None.
LEMMA ReqNotNone == \A r \in Reqs : r # None
BY DEF Reqs, None

\* The clipboards and the paste thread keep the invariant.
LEMMA PasteKeeps ==
    ASSUME IInv, NEW s \in Screens,
           copyFiles(s) \/ copyOther(s) \/ fetch(s) \/ ask(s) \/ hears(s) \/ timesOut(s) \/ collect(s)
    PROVE  IInv'
<1>1. Types /\ Mail /\ Jobs /\ Kept /\ Up
  BY DEF IInv
<1>2. ASSUME ends(s) PROVE /\ paste' \in [Screens -> {"idle", "asking", "waiting", "sending", "collect"}]
                           /\ waiting_' \in [Screens -> Reqs \cup {None}]
                           /\ statuses_' \in [Screens -> Seq(States)]
                           /\ \A x \in Screens : /\ waiting_'[x] = None <=> paste'[x] = "idle"
                                                 /\ waiting_'[x] # None => waiting_'[x][1] = x
  <2>1. None \in Reqs \cup {None} /\ <<>> \in Seq(States)
    OBVIOUS
  <2> QED
    BY <1>1, <1>2, <2>1 DEF ends, Types, Mail
<1>3. CASE copyFiles(s)
  <2>1. copies + 1 \in 0..MaxCopies
    BY <1>1, <1>3, FilePasteAssumption DEF copyFiles, Types
  <2>2. Types'
    BY <1>1, <1>3, <2>1 DEF copyFiles, Types, server, thread, sender, wires
  <2> QED
    BY <1>1, <1>3, <2>2 DEF IInv, copyFiles, Mail, Jobs, Kept, Up, Connected, server, thread, sender, wires
<1>4. CASE copyOther(s)
  <2>1. Types'
    BY <1>1, <1>4, FilePasteAssumption DEF copyOther, Types, server, thread, sender, wires, counters
  <2> QED
    BY <1>1, <1>4, <2>1 DEF IInv, copyOther, Mail, Jobs, Kept, Up, Connected, server, thread, sender, wires
<1>5. CASE fetch(s)
  <2>0. <<s, pastes + 1>> \in Reqs /\ <<s, pastes + 1>>[1] = s /\ pastes + 1 \in Nat
    BY <1>1 DEF Types, Reqs
  <2>1. <<s, pastes + 1>> # None /\ <<>> \in Seq(States)
    BY <2>0, ReqNotNone
  <2>2. CASE connected_[s]
    <3>1. /\ paste' = [paste EXCEPT ![s] = "asking"]
          /\ waiting_' = [waiting_ EXCEPT ![s] = <<s, pastes + 1>>]
          /\ statuses_' = [statuses_ EXCEPT ![s] = <<>>]
      BY <1>5, <2>2 DEF fetch
    <3> DEFINE r == <<s, pastes + 1>>
    <3> HIDE DEF r
    <3>2. /\ paste' \in [Screens -> {"idle", "asking", "waiting", "sending", "collect"}]
          /\ waiting_' \in [Screens -> Reqs \cup {None}]
          /\ statuses_' \in [Screens -> Seq(States)]
          /\ \A x \in Screens : /\ waiting_'[x] = None <=> paste'[x] = "idle"
                                /\ waiting_'[x] # None => waiting_'[x][1] = x
      <4>1. r \in Reqs /\ r[1] = s /\ r # None
        BY <2>0, <2>1 DEF r
      <4>2. waiting_' = [waiting_ EXCEPT ![s] = r]
        BY <3>1 DEF r
      <4>3. waiting_' \in [Screens -> Reqs \cup {None}] /\ waiting_'[s] = r /\ \A x \in Screens \ {s} : waiting_'[x] = waiting_[x]
        BY <1>1, <4>1, <4>2 DEF Types
      <4>4. paste' \in [Screens -> {"idle", "asking", "waiting", "sending", "collect"}]
            /\ paste'[s] = "asking" /\ \A x \in Screens \ {s} : paste'[x] = paste[x]
        BY <1>1, <3>1 DEF Types
      <4>5. statuses_' \in [Screens -> Seq(States)]
        BY <1>1, <2>1, <3>1 DEF Types
      <4>6. ASSUME NEW x \in Screens
            PROVE  /\ waiting_'[x] = None <=> paste'[x] = "idle"
                   /\ waiting_'[x] # None => waiting_'[x][1] = x
        <5>1. CASE x = s
          BY <4>1, <4>3, <4>4, <5>1
        <5>2. CASE x # s
          BY <1>1, <4>3, <4>4, <5>2 DEF Mail
        <5> QED
          BY <5>1, <5>2
      <4> QED
        BY <4>3, <4>4, <4>5, <4>6
    <3>3. Types'
      BY <1>1, <1>5, <2>0, <3>2 DEF fetch, Types, server, clipboards, sender, wires
    <3>4. Mail'
      BY <1>1, <1>5, <3>2 DEF Mail, fetch, wires
    <3> QED
      BY <1>1, <1>5, <3>3, <3>4 DEF IInv, fetch, Jobs, Kept, Up, Connected, server, sender
  <2>3. CASE ~connected_[s]
    <3>1. Types'
      BY <1>1, <1>5, <2>0, <2>3 DEF fetch, Types, server, thread, clipboards, sender, wires
    <3> QED
      BY <1>1, <1>5, <2>3, <3>1 DEF IInv, fetch, Mail, Jobs, Kept, Up, Connected, server, thread, sender, wires
  <2> QED
    BY <2>2, <2>3
<1>6. CASE ask(s)
  <2>1. CASE ends(s) /\ UNCHANGED events
    <3>1. Types'
      BY <1>1, <1>2, <1>6, <2>1 DEF ask, Types, server, clipboards, sender, wires, counters
    <3>2. Mail'
      BY <1>1, <1>2, <1>6, <2>1 DEF Mail, ask, wires
    <3> QED
      BY <1>1, <1>6, <3>1, <3>2 DEF IInv, ask, Jobs, Kept, Up, Connected, server, sender
  <2>2. ASSUME NEW id, id \in {clip.id, clip.id - 1}, paste' = [paste EXCEPT ![s] = "waiting"],
               events' = [events EXCEPT ![s] = Append(@, Request(waiting_[s], id))],
               UNCHANGED <<waiting_, statuses_>>
        PROVE  IInv'
    <3>1. id \in Int
      BY <1>1, <2>2, FilePasteAssumption DEF Types
    <3>2. waiting_[s] \in Reqs /\ waiting_[s][1] = s
      BY <1>1, <1>6 DEF ask, Types, Mail
    <3> DEFINE x == Request(waiting_[s], id)
    <3>3. x \in Messages /\ x.req[1] = s
      BY <3>1, <3>2 DEF Request, Messages
    <3>4. events' = [events EXCEPT ![s] = Append(@, x)]
      BY <2>2
    <3> HIDE DEF x
    <3>5. Append(events[s], x) \in Seq(Messages) /\ In(Append(events[s], x)) = In(events[s]) \cup {x}
      BY <1>1, <3>3, InAppend DEF Types
    <3>6. /\ events' \in [Screens -> Seq(Messages)]
          /\ \A y \in Screens : In(events'[y]) = In(events[y]) \cup (IF y = s THEN {x} ELSE {})
      BY <1>1, <3>4, <3>5 DEF Types
    <3>7. Types'
      BY <1>1, <1>6, <2>2, <3>6 DEF ask, Types, server, clipboards, sender, wires, counters
    <3>8. Mail'
      <4>1. \A y \in Screens : Asks(In(events'[y]), y)
        BY <1>1, <3>3, <3>6 DEF Mail, Asks
      <4>2. \A y \in Screens : /\ (waiting_[y] = None <=> paste[y] = "idle")'
                               /\ (waiting_[y] # None => waiting_[y][1] = y)'
        BY <1>1, <1>6, <2>2 DEF Mail, Types, ask
      <4> QED
        BY <1>1, <1>6, <4>1, <4>2 DEF Mail, ask, wires
    <3> QED
      BY <1>1, <1>6, <3>7, <3>8 DEF IInv, ask, Jobs, Kept, Up, Connected, server, sender
  <2> QED
    BY <1>6, <2>1, <2>2 DEF ask
<1>7. CASE hears(s)
  <2>1. /\ paste' \in [Screens -> {"idle", "asking", "waiting", "sending", "collect"}]
        /\ waiting_' \in [Screens -> Reqs \cup {None}]
        /\ statuses_' \in [Screens -> Seq(States)]
        /\ \A x \in Screens : /\ waiting_'[x] = None <=> paste'[x] = "idle"
                              /\ waiting_'[x] # None => waiting_'[x][1] = x
    <3>1. CASE ends(s)
      BY <1>2, <3>1
    <3>2. CASE UNCHANGED waiting_ /\ paste' = [paste EXCEPT ![s] = "collect"] /\ UNCHANGED statuses_
      BY <1>1, <1>7, <3>2 DEF hears, Waits, Types, Mail
    <3>3. CASE UNCHANGED waiting_ /\ paste' = [paste EXCEPT ![s] = "sending"] /\ statuses_' = [statuses_ EXCEPT ![s] = <<>>]
      <4>1. <<>> \in Seq(States)
        OBVIOUS
      <4> QED
        BY <1>1, <1>7, <3>3, <4>1 DEF hears, Waits, Types, Mail
    <3> QED
      BY <1>7, <3>1, <3>2, <3>3 DEF hears
  <2>2. Types'
    BY <1>1, <1>7, <2>1 DEF hears, Types, server, clipboards, sender, wires, counters
  <2>3. Mail'
    BY <1>1, <1>7, <2>1 DEF Mail, hears, wires
  <2> QED
    BY <1>1, <1>7, <2>2, <2>3 DEF IInv, hears, Jobs, Kept, Up, Connected, server, sender
<1>8. CASE timesOut(s)
  <2>1. Types'
    BY <1>1, <1>2, <1>8 DEF timesOut, Types, server, clipboards, sender, wires, counters
  <2>2. Mail'
    BY <1>1, <1>2, <1>8 DEF Mail, timesOut, wires
  <2> QED
    BY <1>1, <1>8, <2>1, <2>2 DEF IInv, timesOut, Jobs, Kept, Up, Connected, server, sender
<1>9. CASE collect(s)
  <2>1. Types'
    BY <1>1, <1>2, <1>9 DEF collect, Types, server, clipboards, sender, wires, counters
  <2>2. Mail'
    BY <1>1, <1>2, <1>9 DEF Mail, collect, wires
  <2> QED
    BY <1>1, <1>9, <2>1, <2>2 DEF IInv, collect, Jobs, Kept, Up, Connected, server, sender
<1> QED
  BY <1>3, <1>4, <1>5, <1>6, <1>7, <1>8, <1>9

\* The thread that sends the files keeps the invariant.
LEMMA TaildropKeeps ==
    ASSUME IInv, NEW s \in Screens, Taildrop(s)
    PROVE  IInv'
<1>1. Types /\ Mail /\ Jobs /\ Kept /\ Up
  BY DEF IInv
<1>2. /\ taildrop \in [Screens -> {"idle", "start", "copying", "report", "clear"}]
      /\ job \in [Screens -> [req : Reqs \cup {None}, state : States \cup {"none"}]]
      /\ events \in [Screens -> Seq(Messages)] /\ {"sending", "sent", "failed"} = States
  BY <1>1 DEF Types, States
<1>3. ASSUME NEW x \in States, taildrop[s] # "idle",
             events' = [events EXCEPT ![s] = Append(@, Status(job[s].req, x))]
      PROVE  events' \in [Screens -> Seq(Messages)] /\ \A y \in Screens : Asks(In(events'[y]), y)
  <2> DEFINE m == Status(job[s].req, x)
  <2>1. job[s].req \in Reqs
    BY <1>1, <1>3 DEF Jobs
  <2>2. m \in Messages /\ m.type = "status"
    BY <2>1, StatusType
  <2>3. events' = [events EXCEPT ![s] = Append(@, m)]
    BY <1>3
  <2> HIDE DEF m
  <2>4. Append(events[s], m) \in Seq(Messages) /\ In(Append(events[s], m)) = In(events[s]) \cup {m}
    BY <1>2, <2>2, InAppend
  <2>5. /\ events' \in [Screens -> Seq(Messages)]
        /\ \A y \in Screens : In(events'[y]) = In(events[y]) \cup (IF y = s THEN {m} ELSE {})
    BY <1>2, <2>3, <2>4
  <2> QED
    BY <1>1, <2>2, <2>5 DEF Mail, Asks
<1>4. CASE startSending(s)
  <2>1. CASE /\ taildrop' = [taildrop EXCEPT ![s] = "copying"]
             /\ events' = [events EXCEPT ![s] = Append(@, Status(job[s].req, "sending"))]
             /\ UNCHANGED job
    <3>1. events' \in [Screens -> Seq(Messages)] /\ \A y \in Screens : Asks(In(events'[y]), y)
      BY <1>2, <1>3, <1>4, <2>1 DEF startSending
    <3>2. Types'
      BY <1>1, <1>4, <2>1, <3>1 DEF startSending, Types, server, clipboards, thread, wires, counters
    <3>3. Mail'
      BY <1>1, <1>4, <3>1 DEF startSending, Mail, thread, wires
    <3>4. Jobs'
      BY <1>1, <1>2, <1>4, <2>1 DEF startSending, Jobs
    <3> QED
      BY <1>1, <1>4, <3>2, <3>3, <3>4 DEF IInv, startSending, Kept, Up, Connected, server
  <2>2. CASE /\ taildrop' = [taildrop EXCEPT ![s] = "report"]
             /\ job' = [job EXCEPT ![s].state = "failed"]
             /\ UNCHANGED events
    <3>1. Types'
      BY <1>1, <1>4, <2>2 DEF startSending, Types, server, clipboards, thread, wires, counters, States
    <3>2. Mail'
      BY <1>1, <1>4, <2>2 DEF startSending, Mail, thread, wires
    <3>3. Jobs'
      BY <1>1, <1>2, <1>4, <2>2 DEF startSending, Jobs
    <3> QED
      BY <1>1, <1>4, <3>1, <3>2, <3>3 DEF IInv, startSending, Kept, Up, Connected, server
  <2> QED
    BY <1>4, <2>1, <2>2 DEF startSending
<1>5. CASE copyToTarget(s)
  <2>1. PICK x \in {"sent", "failed"} : job' = [job EXCEPT ![s].state = x]
    BY <1>5 DEF copyToTarget
  <2>2. Types'
    BY <1>1, <1>5, <2>1 DEF copyToTarget, Types, server, clipboards, thread, wires, counters, States
  <2>3. Mail'
    BY <1>1, <1>5 DEF copyToTarget, Mail, thread, wires
  <2>4. Jobs'
    BY <1>1, <1>2, <1>5, <2>1 DEF copyToTarget, Jobs
  <2> QED
    BY <1>1, <1>5, <2>2, <2>3, <2>4 DEF IInv, copyToTarget, Kept, Up, Connected, server
<1>6. CASE reportResult(s)
  <2>1. PICK x \in States : x = job[s].state
    BY <1>1, <1>2, <1>6 DEF reportResult, Jobs
  <2>2. events' \in [Screens -> Seq(Messages)] /\ \A y \in Screens : Asks(In(events'[y]), y)
    BY <1>3, <1>6, <2>1 DEF reportResult
  <2>3. Types'
    BY <1>1, <1>6, <2>2 DEF reportResult, Types, server, clipboards, thread, wires, counters
  <2>4. Mail'
    BY <1>1, <1>6, <2>2 DEF reportResult, Mail, thread, wires
  <2>5. Jobs'
    BY <1>1, <1>2, <1>6 DEF reportResult, Jobs
  <2> QED
    BY <1>1, <1>6, <2>3, <2>4, <2>5 DEF IInv, reportResult, Kept, Up, Connected, server
<1>7. CASE clearBusy(s)
  <2>1. Types'
    BY <1>1, <1>7 DEF clearBusy, Types, server, clipboards, thread, wires, counters
  <2>2. Jobs'
    BY <1>1, <1>2, <1>7 DEF clearBusy, Jobs
  <2> QED
    BY <1>1, <1>7, <2>1, <2>2 DEF IInv, clearBusy, Mail, Kept, Up, Connected, server, thread, wires
<1> QED
  BY <1>4, <1>5, <1>6, <1>7 DEF Taildrop

\* A client's events: handled, and written to the server if there is a connection.
LEMMA EventEffect ==
    ASSUME IInv, NEW c \in Clients, clientEvent(c)
    PROVE  /\ IInv'
           /\ \A x \in Screens \ {c} : events'[x] = events[x]
           /\ \A d \in Clients \ {c} : toServer'[d] = toServer[d]
           /\ \E e \in Messages :
                 /\ In(events[c]) = In(events'[c]) \cup {e}
                 /\ In(toServer'[c]) = In(toServer[c]) \cup (IF c \in link THEN {e} ELSE {})
<1> DEFINE e == Head(events[c])
<1>1. Types /\ Mail /\ Jobs /\ Kept /\ Up /\ c \in Screens
  BY DEF IInv, Screens
<1>2. /\ events \in [Screens -> Seq(Messages)] /\ toServer \in [Clients -> Seq(Messages)]
      /\ events[c] # <<>> /\ events' = [events EXCEPT ![c] = Tail(@)]
      /\ toServer' = IF c \in link /\ connected_[c] THEN [toServer EXCEPT ![c] = Append(@, e)] ELSE toServer
      /\ UNCHANGED <<server, clipboards, thread, connected_, sender, link, toClient, pasted, counters>>
  BY <1>1 DEF Types, clientEvent
<1>3. e \in Messages /\ Tail(events[c]) \in Seq(Messages) /\ In(events[c]) = In(Tail(events[c])) \cup {e}
  BY <1>1, <1>2, InTail
<1> HIDE DEF e
<1>4. Append(toServer[c], e) \in Seq(Messages) /\ In(Append(toServer[c], e)) = In(toServer[c]) \cup {e}
  BY <1>2, <1>3, InAppend
<1>5. /\ events' \in [Screens -> Seq(Messages)] /\ In(events[c]) = In(events'[c]) \cup {e}
      /\ \A x \in Screens \ {c} : events'[x] = events[x]
  BY <1>1, <1>2, <1>3
<1>6. c \in link => connected_[c]
  BY <1>1 DEF Up
<1>7. /\ toServer' \in [Clients -> Seq(Messages)]
      /\ In(toServer'[c]) = In(toServer[c]) \cup (IF c \in link THEN {e} ELSE {})
      /\ \A d \in Clients \ {c} : toServer'[d] = toServer[d]
  <2>1. CASE c \in link
    <3>1. toServer' = [toServer EXCEPT ![c] = Append(toServer[c], e)]
      BY <1>2, <1>6, <2>1
    <3> QED
      BY <1>2, <1>4, <2>1, <3>1
  <2>2. CASE c \notin link
    BY <1>2, <2>2
  <2> QED
    BY <2>1, <2>2
<1>8. Types'
  BY <1>1, <1>2, <1>5, <1>7 DEF Types, server, clipboards, thread, sender, counters
<1>9. Mail'
  <2>1. Asks(In(events[c]), c) /\ Asks(In(toServer[c]), c)
    BY <1>1 DEF Mail
  <2>2. Asks(In(events'[c]), c) /\ Asks(In(toServer'[c]), c)
    BY <1>5, <1>7, <2>1 DEF Asks
  <2>3. (\A x \in Screens : Asks(In(events'[x]), x)) /\ (\A d \in Clients : Asks(In(toServer'[d]), d))
    BY <1>1, <1>5, <1>7, <2>2 DEF Mail
  <2> QED
    BY <1>1, <1>2, <2>3 DEF Mail, thread
<1>10. Jobs' /\ Kept' /\ Up'
  BY <1>1, <1>2 DEF Jobs, Kept, Up, Connected, server, sender
<1>11. IInv'
  BY <1>8, <1>9, <1>10 DEF IInv
<1> QED
  BY <1>3, <1>5, <1>7, <1>11

\* Connections come and go.
LEMMA LinkKeeps ==
    ASSUME IInv, NEW c \in Clients, adoptClient(c) \/ lose(c) \/ cleanupScreen(c) \/ connect(c)
    PROVE  IInv'
<1>1. Types /\ Mail /\ Jobs /\ Kept /\ Up /\ c \in Screens
  BY DEF IInv, Screens
<1>2. CASE adoptClient(c)
  <2>1. Types'
    BY <1>1, <1>2 DEF adoptClient, Types, clipboards, thread, sender, wires, counters
  <2>2. Kept'
    BY <1>1, <1>2 DEF adoptClient, Kept, Connected
  <2> QED
    BY <1>1, <1>2, <2>1, <2>2 DEF IInv, adoptClient, Mail, Jobs, Up, thread, sender, wires
<1>3. CASE lose(c)
  <2>1. <<>> \in Seq(Messages) /\ drops + 1 \in Nat
    BY <1>1 DEF Types
  <2>2. Types'
    BY <1>1, <1>3, <2>1 DEF lose, Types, server, clipboards, thread, sender
  <2>3. \A d \in Clients : In(toServer'[d]) = In(toServer[d]) \/ In(toServer'[d]) = {}
    BY <1>1, <1>3, InEmpty DEF lose, Types
  <2>4. \A d \in Clients : Asks(In(toServer'[d]), d)
    BY <1>1, <2>3 DEF Mail, Asks
  <2>5. Mail'
    BY <1>1, <1>3, <2>4 DEF Mail, lose, thread
  <2> QED
    BY <1>1, <1>3, <2>2, <2>5 DEF IInv, lose, Jobs, Kept, Up, Connected, server, sender
<1>4. CASE cleanupScreen(c)
  <2>1. Types'
    BY <1>1, <1>4 DEF cleanupScreen, Types, server, clipboards, thread, sender, wires, counters
  <2>2. Up'
    BY <1>1, <1>4 DEF cleanupScreen, Up, Types
  <2> QED
    BY <1>1, <1>4, <2>1, <2>2 DEF IInv, cleanupScreen, Mail, Jobs, Kept, Connected, server, thread, sender, wires
<1>5. CASE connect(c)
  <2>1. Types'
    BY <1>1, <1>5 DEF connect, Types, server, clipboards, thread, sender, wires, counters
  <2>2. Up'
    <3>1. \A d \in Clients : d = c \/ d \in link => connected_'[d]
      BY <1>1, <1>5 DEF connect, Up, Types, Screens
    <3> QED
      BY <1>1, <1>5, <3>1 DEF connect, Up, Types
  <2> QED
    BY <1>1, <1>5, <2>1, <2>2 DEF IInv, connect, Mail, Jobs, Kept, Connected, server, thread, sender, wires
<1> QED
  BY <1>2, <1>3, <1>4, <1>5

\* Every step keeps the invariant.
LEMMA Step == IInv /\ [Next]_vars => IInv'
<1> SUFFICES ASSUME IInv, [Next]_vars PROVE IInv'
  OBVIOUS
<1>1. CASE UNCHANGED vars
  BY <1>1 DEF IInv, Types, Mail, Jobs, Kept, Up, Connected, vars, server, thread, sender, wires, counters
<1>2. ASSUME NEW s \in Screens,
             copyFiles(s) \/ copyOther(s) \/ fetch(s) \/ PasteThread(s) \/ timesOut(s) \/ Taildrop(s)
      PROVE  IInv'
  BY <1>2, PasteKeeps, TaildropKeeps DEF PasteThread
<1>3. ASSUME primaryEvent \/ \E c \in Clients : parseMessage(c) PROVE IInv'
  BY <1>3, ServerEffect, ServerKeeps
<1>4. ASSUME NEW c \in Clients, Relay(c) \/ lose(c) \/ connect(c) PROVE IInv'
  BY <1>3, <1>4, RemoveEffect, ReadEffect, EventEffect, LinkKeeps DEF Relay
<1> QED
  BY <1>1, <1>2, <1>3, <1>4 DEF Next

\* Whatever is copied, pasted and lost, a paste that the server keeps is between two
\* different screens that are connected: Server::end_file_pastes() leaves none behind.
THEOREM KeptPastesConnected == Spec => []PastesConnected
<1>1. IInv => PastesConnected
  <2> SUFFICES ASSUME IInv PROVE PastesConnected
    OBVIOUS
  <2>1. Types /\ Mail /\ Kept
    BY DEF IInv
  <2>2. \A s \in Screens : \A i \in 1..Len(statuses_[s]) : statuses_[s][i] \in {"sending", "sent", "failed"}
    BY <2>1 DEF Types, States
  <2>3. \A r \in DOMAIN m_file_pastes : {m_file_pastes[r].target, m_file_pastes[r].source} \subseteq Screens
    BY <2>1 DEF Types, Pairs
  <2>4. TypeOK
    BY <2>1, <2>2, <2>3 DEF TypeOK, Types, Mail
  <2> QED
    BY <2>1, <2>4 DEF PastesConnected, Kept
<1> QED
  BY <1>1, Start, Step, PTL DEF Spec

----------------------------------------------------------------------------
(* The second theorem: what has been pasted was delivered.                  *)

\* fetch() ends: nothing is left of its statuses.
LEMMA EndsSent ==
    ASSUME IInv, Sent, NEW s \in Screens, ends(s)
    PROVE  \A x \in Screens : "sent" \in In(statuses_'[x]) \/ paste'[x] = "collect" => waiting_'[x] \in delivered
<1>1. /\ \A x \in Screens \ {s} : statuses_'[x] = statuses_[x] /\ paste'[x] = paste[x] /\ waiting_'[x] = waiting_[x]
      /\ statuses_'[s] = <<>> /\ paste'[s] = "idle"
  BY DEF ends, IInv, Types
<1>2. "sent" \notin In(statuses_'[s])
  BY <1>1, InEmpty
<1> QED
  BY <1>1, <1>2 DEF Sent

\* The clipboards and the paste thread keep it.
LEMMA PasteSent ==
    ASSUME IInv, Sent, NEW s \in Screens,
           copyFiles(s) \/ copyOther(s) \/ fetch(s) \/ ask(s) \/ hears(s) \/ timesOut(s) \/ collect(s)
    PROVE  Sent'
<1>1. Types
  BY DEF IInv
<1>2. CASE copyFiles(s) \/ copyOther(s)
  BY <1>2 DEF Sent, copyFiles, copyOther, thread, sender, wires
<1>3. CASE fetch(s)
  <2>1. \A x \in Screens : "sent" \in In(statuses_'[x]) \/ paste'[x] = "collect" => waiting_'[x] \in delivered
    <3>1. CASE connected_[s]
      <4>1. /\ \A x \in Screens \ {s} : statuses_'[x] = statuses_[x] /\ paste'[x] = paste[x] /\ waiting_'[x] = waiting_[x]
            /\ statuses_'[s] = <<>> /\ paste'[s] = "asking"
        BY <1>1, <1>3, <3>1 DEF fetch, Types
      <4>2. "sent" \notin In(statuses_'[s])
        BY <4>1, InEmpty
      <4> QED
        BY <4>1, <4>2 DEF Sent
    <3>2. CASE ~connected_[s]
      BY <1>3, <3>2 DEF fetch, thread, Sent
    <3> QED
      BY <3>1, <3>2
  <2> QED
    BY <1>3, <2>1 DEF Sent, fetch, sender, wires
<1>4. CASE ask(s)
  <2>1. CASE ends(s) /\ UNCHANGED events
    BY <1>4, <2>1, EndsSent DEF Sent, ask, sender, wires
  <2>2. ASSUME NEW id, paste' = [paste EXCEPT ![s] = "waiting"],
               events' = [events EXCEPT ![s] = Append(@, Request(waiting_[s], id))], id \in {clip.id, clip.id - 1},
               UNCHANGED <<waiting_, statuses_>>
        PROVE  Sent'
    <3> DEFINE m == Request(waiting_[s], id)
    <3>1. waiting_[s] \in Reqs /\ id \in Int
      BY <1>1, <1>4, <2>2, FilePasteAssumption DEF ask, IInv, Types, Mail
    <3>2. m \in Messages /\ m.type = "request" /\ events' = [events EXCEPT ![s] = Append(@, m)]
      BY <2>2, <3>1 DEF Request, Messages
    <3> HIDE DEF m
    <3>3. Append(events[s], m) \in Seq(Messages) /\ In(Append(events[s], m)) = In(events[s]) \cup {m}
      BY <1>1, <3>2, InAppend DEF Types
    <3>4. \A x \in Screens : In(events'[x]) = In(events[x]) \cup (IF x = s THEN {m} ELSE {})
      BY <1>1, <3>2, <3>3 DEF Types
    <3>5. \A x \in Screens : True(In(events'[x]), delivered)
      BY <3>2, <3>4 DEF Sent, True
    <3>6. \A x \in Screens : "sent" \in In(statuses_'[x]) \/ paste'[x] = "collect" => waiting_'[x] \in delivered
      BY <1>1, <2>2 DEF Sent, Types
    <3> QED
      BY <1>4, <3>5, <3>6 DEF Sent, ask, sender, wires
  <2> QED
    BY <1>4, <2>1, <2>2 DEF ask
<1>5. CASE hears(s)
  <2>1. \A x \in Screens : "sent" \in In(statuses_'[x]) \/ paste'[x] = "collect" => waiting_'[x] \in delivered
    <3>1. CASE ends(s)
      BY <3>1, EndsSent
    <3>2. CASE answer(s, "sent") /\ UNCHANGED <<waiting_, statuses_>> /\ paste' = [paste EXCEPT ![s] = "collect"]
      <4>1. "sent" \in In(statuses_[s])
        BY <3>2 DEF answer, In
      <4>2. waiting_[s] \in delivered
        BY <4>1 DEF Sent
      <4> QED
        BY <1>1, <3>2, <4>2 DEF Sent, Types
    <3>3. CASE UNCHANGED waiting_ /\ paste' = [paste EXCEPT ![s] = "sending"] /\ statuses_' = [statuses_ EXCEPT ![s] = <<>>]
      <4>1. /\ \A x \in Screens \ {s} : statuses_'[x] = statuses_[x] /\ paste'[x] = paste[x] /\ waiting_'[x] = waiting_[x]
            /\ statuses_'[s] = <<>> /\ paste'[s] = "sending"
        BY <1>1, <3>3 DEF Types
      <4>2. "sent" \notin In(statuses_'[s])
        BY <4>1, InEmpty
      <4> QED
        BY <4>1, <4>2 DEF Sent
    <3> QED
      BY <1>5, <3>1, <3>2, <3>3 DEF hears
  <2> QED
    BY <1>5, <2>1 DEF Sent, hears, sender, wires
<1>6. CASE timesOut(s)
  BY <1>6, EndsSent DEF Sent, timesOut, sender, wires
<1>7. CASE collect(s)
  <2>1. waiting_[s] \in delivered
    BY <1>7 DEF Sent, collect
  <2>2. pasted' \subseteq delivered
    BY <1>7, <2>1 DEF Sent, collect
  <2>3. \A x \in Screens : "sent" \in In(statuses_'[x]) \/ paste'[x] = "collect" => waiting_'[x] \in delivered
    BY <1>7, EndsSent DEF collect
  <2> QED
    BY <1>7, <2>2, <2>3 DEF Sent, collect, sender, wires
<1> QED
  BY <1>2, <1>3, <1>4, <1>5, <1>6, <1>7

\* The thread that sends the files keeps it: "sent" is posted after the last file.
LEMMA TaildropSent ==
    ASSUME IInv, Sent, NEW s \in Screens, Taildrop(s)
    PROVE  Sent'
<1>1. Types /\ Jobs
  BY DEF IInv
<1>2. ASSUME NEW x \in States, taildrop[s] # "idle", x = "sent" => job[s].req \in delivered,
             events' = [events EXCEPT ![s] = Append(@, Status(job[s].req, x))]
      PROVE  \A y \in Screens : True(In(events'[y]), delivered)
  <2> DEFINE m == Status(job[s].req, x)
  <2>1. job[s].req \in Reqs
    BY <1>1, <1>2 DEF Jobs
  <2>2. m \in Messages /\ m.req = job[s].req /\ m.state = x
    BY <2>1, StatusType
  <2>3. events' = [events EXCEPT ![s] = Append(@, m)]
    BY <1>2
  <2> HIDE DEF m
  <2>4. Append(events[s], m) \in Seq(Messages) /\ In(Append(events[s], m)) = In(events[s]) \cup {m}
    BY <1>1, <2>2, InAppend DEF Types
  <2>5. \A y \in Screens : In(events'[y]) = In(events[y]) \cup (IF y = s THEN {m} ELSE {})
    BY <1>1, <2>3, <2>4 DEF Types
  <2> QED
    BY <1>2, <2>2, <2>5 DEF Sent, True
<1>3. CASE startSending(s)
  <2>1. \A y \in Screens : True(In(events'[y]), delivered)
    <3>1. "sending" \in States /\ taildrop[s] # "idle"
      BY <1>3 DEF States, startSending
    <3> QED
      BY <1>2, <1>3, <3>1 DEF startSending, Sent
  <2>2. \A y \in Screens : taildrop'[y] # "idle" /\ job'[y].state = "sent" => job'[y].req \in delivered
    <3>1. \A y \in Screens : (taildrop'[y] # "idle" => taildrop[y] # "idle") /\ (job'[y] = job[y] \/ job'[y].state = "failed")
      BY <1>1, <1>3 DEF startSending, Types
    <3> QED
      BY <3>1 DEF Sent
  <2> QED
    BY <1>3, <2>1, <2>2 DEF Sent, startSending, thread, wires
<1>4. CASE copyToTarget(s)
  <2>1. delivered \subseteq delivered'
    BY <1>4 DEF copyToTarget
  <2>2. \A y \in Screens : taildrop'[y] # "idle" /\ job'[y].state = "sent" => job'[y].req \in delivered'
    BY <1>1, <1>4 DEF copyToTarget, Sent, Types
  <2>3. \A M : True(M, delivered) => True(M, delivered')
    BY <2>1 DEF True
  <2> QED
    BY <1>4, <2>1, <2>2, <2>3 DEF Sent, copyToTarget, thread, wires
<1>5. CASE reportResult(s)
  <2>1. PICK x \in States : x = job[s].state
    BY <1>1, <1>5 DEF reportResult, Jobs, States
  <2>2. \A y \in Screens : True(In(events'[y]), delivered)
    BY <1>2, <1>5, <2>1 DEF reportResult, Sent
  <2>3. \A y \in Screens : taildrop'[y] # "idle" /\ job'[y].state = "sent" => job'[y].req \in delivered
    BY <1>1, <1>5 DEF reportResult, Sent, Types
  <2> QED
    BY <1>5, <2>2, <2>3 DEF Sent, reportResult, thread, wires
<1>6. CASE clearBusy(s)
  <2>1. \A y \in Screens : taildrop'[y] # "idle" /\ job'[y].state = "sent" => job'[y].req \in delivered
    BY <1>1, <1>6 DEF clearBusy, Sent, Types
  <2> QED
    BY <1>6, <2>1 DEF Sent, clearBusy, thread, wires
<1> QED
  BY <1>3, <1>4, <1>5, <1>6 DEF Taildrop

\* The server keeps it: it passes on what it was told, and adds failures only.
LEMMA ServerSent ==
    ASSUME IInv, Sent, NEW s \in Screens, NEW e, NEW q, Takes(s, e, q), Effect(s, e, q)
    PROVE  Sent'
<1>1. delivered' = delivered /\ Writes(e, q) /\ UNCHANGED <<paste, waiting_, pasted>>
  BY DEF Effect, Takes
<1>2. e.type = "status" /\ e.state = "sent" => e.req \in delivered
  BY DEF Takes, Sent, True, Screens
<1>3. \A y : Says(e, y) /\ y = "sent" => e.req \in delivered
  BY <1>2 DEF Says
<1>4. Primary \in Screens /\ True(In(q), delivered)
  BY DEF Takes, Sent, True, Screens
<1>5. \A x \in Screens : True(In(events'[x]), delivered)
  <2>1. Status(e.req, "failed").state = "failed"
    BY DEF Status
  <2>2. True(In(q) \cup {Status(e.req, "failed")}, delivered)
    BY <1>4, <2>1 DEF True
  <2>3. In(events'[Primary]) \in {In(q), In(q) \cup {Status(e.req, "failed")}}
    BY <1>1 DEF Writes
  <2>4. True(In(events'[Primary]), delivered)
    BY <1>4, <2>2, <2>3
  <2> QED
    BY <1>1, <2>4 DEF Writes, Sent
<1>6. \A x \in Screens : taildrop'[x] # "idle" /\ job'[x].state = "sent" => job'[x].req \in delivered
  <2>1. \A x \in Screens : \/ taildrop'[x] = taildrop[x] /\ job'[x] = job[x]
                           \/ job'[x] = [req |-> e.req, state |-> "none"]
    BY <1>1 DEF Writes
  <2> QED
    BY <2>1 DEF Sent
<1>7. \A x \in Screens : "sent" \in In(statuses_'[x]) \/ paste'[x] = "collect" => waiting_'[x] \in delivered
  BY <1>1, <1>3 DEF Writes, Sent
<1>8. \A c \in Clients : True(In(toClient'[c]), delivered)
  <2> SUFFICES ASSUME NEW c \in Clients PROVE True(In(toClient'[c]), delivered)
    OBVIOUS
  <2>1. True(In(toClient[c]), delivered)
    BY DEF Sent
  <2>2. ASSUME NEW m, m.type = "send" \/ (m.req = e.req /\ Says(e, m.state))
        PROVE  m.type = "status" /\ m.state = "sent" => m.req \in delivered
    BY <1>3, <2>2
  <2> QED
    BY <1>1, <2>1, <2>2 DEF Writes, True
<1>9. \A c \in Clients : True(In(toServer'[c]), delivered)
  <2>1. \A c \in Clients : In(toServer'[c]) \subseteq In(toServer[c])
    BY DEF Takes
  <2> QED
    BY <2>1 DEF Sent, True
<1> QED
  BY <1>1, <1>5, <1>6, <1>7, <1>8, <1>9 DEF Sent

\* So do a client that leaves, reads or handles an event, and the connections.
LEMMA ClientSent ==
    ASSUME IInv, Sent, NEW c \in Clients,
           removeClient(c) \/ clientReads(c) \/ clientEvent(c) \/ adoptClient(c) \/ lose(c) \/ cleanupScreen(c) \/ connect(c)
    PROVE  Sent'
<1>1. Types /\ c \in Screens
  BY DEF IInv, Screens
<1>2. CASE removeClient(c)
  <2>1. UNCHANGED <<paste, waiting_, sender, events, toServer, pasted>>
    BY <1>2 DEF removeClient
  <2>2. \A x \in Screens : "sent" \in In(statuses_'[x]) => "sent" \in In(statuses_[x])
    BY <1>2, RemoveEffect
  <2>3. \A d \in Clients : True(In(toClient'[d]), delivered)
    BY <1>2, RemoveEffect DEF Sent, True
  <2> QED
    BY <2>1, <2>2, <2>3 DEF Sent, sender
<1>3. CASE clientReads(c)
  <2>1. /\ delivered' = delivered
        /\ UNCHANGED <<server, clipboards, paste, waiting_, connected_, link, toServer, pasted, counters>>
        /\ \A x \in Screens \ {c} : events'[x] = events[x] /\ taildrop'[x] = taildrop[x] /\ job'[x] = job[x]
                                    /\ statuses_'[x] = statuses_[x]
        /\ \A d \in Clients \ {c} : toClient'[d] = toClient[d]
    BY <1>3, ReadEffect
  <2>2. PICK m \in Messages :
           /\ In(toClient[c]) = In(toClient'[c]) \cup {m}
           /\ \/ /\ m.type = "send" /\ statuses_'[c] = statuses_[c]
                 /\ \/ /\ taildrop[c] = "idle" /\ taildrop'[c] = "start"
                       /\ job'[c] = [req |-> m.req, state |-> "none"] /\ In(events'[c]) = In(events[c])
                    \/ /\ taildrop'[c] = taildrop[c] /\ job'[c] = job[c]
                       /\ In(events'[c]) = In(events[c]) \cup {Status(m.req, "failed")}
              \/ /\ m.type = "status" /\ m = Status(m.req, m.state)
                 /\ taildrop'[c] = taildrop[c] /\ job'[c] = job[c] /\ events'[c] = events[c]
                 /\ In(statuses_'[c]) = In(statuses_[c]) \cup (IF waiting_[c] = m.req THEN {m.state} ELSE {})
    BY <1>3, ReadEffect
  <2>3. True(In(toClient[c]), delivered)
    BY DEF Sent
  <2>4. (m.type = "status" /\ m.state = "sent" => m.req \in delivered) /\ True(In(toClient'[c]), delivered)
    BY <2>2, <2>3 DEF True
  <2>5. \A d \in Clients : True(In(toClient'[d]), delivered)
    BY <2>1, <2>4 DEF Sent
  <2>6. \A x \in Screens : True(In(events'[x]), delivered)
    <3>1. Status(m.req, "failed").state = "failed"
      BY DEF Status
    <3>2. True(In(events[c]), delivered)
      BY <1>1 DEF Sent
    <3>3. True(In(events'[c]), delivered)
      BY <2>2, <3>1, <3>2 DEF True
    <3> QED
      BY <2>1, <3>3 DEF Sent
  <2>7. \A x \in Screens : taildrop'[x] # "idle" /\ job'[x].state = "sent" => job'[x].req \in delivered
    <3>1. \A x \in Screens : \/ taildrop'[x] = taildrop[x] /\ job'[x] = job[x]
                             \/ job'[x] = [req |-> m.req, state |-> "none"]
      BY <2>1, <2>2
    <3> QED
      BY <3>1 DEF Sent
  <2>8. \A x \in Screens : "sent" \in In(statuses_'[x]) => "sent" \in In(statuses_[x]) \/ waiting_[x] \in delivered
    <3>1. "sent" \in In(statuses_'[c]) => "sent" \in In(statuses_[c]) \/ waiting_[c] \in delivered
      BY <2>2, <2>4
    <3> QED
      BY <2>1, <3>1
  <2> QED
    BY <2>1, <2>5, <2>6, <2>7, <2>8 DEF Sent
<1>4. CASE clientEvent(c)
  <2>1. /\ \A x \in Screens \ {c} : events'[x] = events[x]
        /\ \A d \in Clients \ {c} : toServer'[d] = toServer[d]
        /\ UNCHANGED <<thread, sender, toClient, pasted>>
    BY <1>4, EventEffect DEF clientEvent
  <2>2. PICK e \in Messages :
           /\ In(events[c]) = In(events'[c]) \cup {e}
           /\ In(toServer'[c]) = In(toServer[c]) \cup (IF c \in link THEN {e} ELSE {})
    BY <1>4, EventEffect
  <2>3. True(In(events[c]), delivered) /\ True(In(toServer[c]), delivered)
    BY <1>1 DEF Sent
  <2>4. True(In(events'[c]), delivered) /\ True(In(toServer'[c]), delivered)
    BY <2>2, <2>3 DEF True
  <2>5. (\A x \in Screens : True(In(events'[x]), delivered)) /\ (\A d \in Clients : True(In(toServer'[d]), delivered))
    BY <2>1, <2>4 DEF Sent
  <2> QED
    BY <2>1, <2>5 DEF Sent, thread, sender
<1>5. CASE lose(c)
  <2>1. \A d \in Clients : /\ toServer'[d] = toServer[d] \/ toServer'[d] = <<>>
                           /\ toClient'[d] = toClient[d] \/ toClient'[d] = <<>>
    BY <1>1, <1>5 DEF lose, Types
  <2>2. True(In(<<>>), delivered)
    BY InEmpty DEF True
  <2>3. \A d \in Clients : True(In(toServer'[d]), delivered) /\ True(In(toClient'[d]), delivered)
    BY <2>1, <2>2 DEF Sent
  <2> QED
    BY <1>5, <2>3 DEF Sent, lose, thread, sender
<1>6. CASE adoptClient(c) \/ cleanupScreen(c) \/ connect(c)
  BY <1>6 DEF Sent, adoptClient, cleanupScreen, connect, thread, sender, wires
<1> QED
  BY <1>2, <1>3, <1>4, <1>5, <1>6

\* Every step keeps it.
LEMMA SentStep == IInv /\ Sent /\ [Next]_vars => Sent'
<1> SUFFICES ASSUME IInv, Sent, [Next]_vars PROVE Sent'
  OBVIOUS
<1>1. CASE UNCHANGED vars
  BY <1>1 DEF Sent, vars, thread, sender, wires
<1>2. ASSUME NEW s \in Screens,
             copyFiles(s) \/ copyOther(s) \/ fetch(s) \/ PasteThread(s) \/ timesOut(s) \/ Taildrop(s)
      PROVE  Sent'
  BY <1>2, PasteSent, TaildropSent DEF PasteThread
<1>3. ASSUME primaryEvent \/ \E c \in Clients : parseMessage(c) PROVE Sent'
  BY <1>3, ServerEffect, ServerSent
<1>4. ASSUME NEW c \in Clients, Relay(c) \/ lose(c) \/ connect(c) PROVE Sent'
  BY <1>3, <1>4, ClientSent DEF Relay
<1> QED
  BY <1>1, <1>2, <1>3, <1>4 DEF Next

\* A paste ends well only if the files of that very request have been sent, although
\* statuses of pastes that timed out arrive while later ones wait: the numbers of
\* MSWindowsFilePaste::new_request() and the check in status() are enough.
THEOREM PastesDelivered == Spec => []PastedWasDelivered
<1>1. Init => Sent
  BY InEmpty DEF Init, Sent, True, Screens
<1>2. Sent => PastedWasDelivered
  BY DEF Sent, PastedWasDelivered
<1> QED
  BY <1>1, <1>2, Start, Step, SentStep, PTL DEF Spec

----------------------------------------------------------------------------
(* The third theorem: a paste that waits is cared for.                      *)

\* A set of naturals that is not empty has a least element.
LEMMA LeastNatural ==
    ASSUME NEW T \in SUBSET Nat, T # {}
    PROVE  \E x \in T : \A y \in T : x <= y
<1> DEFINE R == OpToRel(<, Nat)
<1>1. IsWellFoundedOn(R, Nat)
  BY NatLessThanWellFounded
<1>2. \A x, y \in Nat : <<y, x>> \in R <=> y < x
  BY DEF OpToRel
<1> HIDE DEF R
<1>3. PICK x \in T : \A y \in T : ~(<<y, x>> \in R)
  BY <1>1, WFMin
<1>4. \A y \in T : ~(y < x)
  BY <1>2, <1>3, Zenon
<1> QED
  BY <1>4

\* If no status is an answer, all are "sending".
LEMMA NoAnswer ==
    ASSUME Types, NEW s \in Screens, ~answer(s, "sent"), ~answer(s, "failed")
    PROVE  In(statuses_[s]) \subseteq {"sending"}
<1> DEFINE T == {i \in 1..Len(statuses_[s]) : statuses_[s][i] # "sending"}
<1>1. statuses_[s] \in Seq(States)
  BY DEF Types
<1>2. CASE T = {}
  BY <1>2 DEF In
<1>3. CASE T # {}
  <2>1. T \in SUBSET Nat
    OBVIOUS
  <2>2. PICK i \in T : \A j \in T : i <= j
    BY <1>3, <2>1, LeastNatural
  <2>3. i \in 1..Len(statuses_[s]) /\ statuses_[s][i] \in {"sent", "failed"}
    BY <1>1, <2>2 DEF States
  <2>4. \A j \in 1..(i - 1) : statuses_[s][j] = "sending"
    BY <2>2, <2>3
  <2> QED
    BY <2>3, <2>4 DEF answer
<1> QED
  BY <1>2, <1>3

\* Whoever is cared for stays so if nothing is taken away and nobody stops working.
LEMMA CaredStays ==
    ASSUME Types, NEW t \in Screens, NEW r \in Reqs, Cared(t, r),
           UNCHANGED <<m_file_pastes, toServer, toClient>>, link' \subseteq link,
           In(events[t]) \subseteq In(events'[t]),
           \A o \in Screens : Works(o, r) => Works(o, r)'
    PROVE  Cared(t, r)'
<1>1. CASE t \in Clients \ link
  BY <1>1 DEF Cared
<1>2. CASE Asked(In(events[t]), r)
  <2>1. Asked(In(events'[t]), r)
    BY <1>2 DEF Asked
  <2> QED
    BY <2>1 DEF Cared
<1>3. CASE t \in Clients /\ (Asked(In(toServer[t]), r) \/ Answered(In(toClient[t]), r))
  BY <1>3 DEF Cared
<1>4. CASE r \in DOMAIN m_file_pastes /\ Works(m_file_pastes[r].source, r)
  <2>1. PICK o \in Screens : o = m_file_pastes[r].source
    BY <1>4 DEF Types, Pairs
  <2>2. Works(o, r)'
    BY <1>4, <2>1
  <2> QED
    BY <1>4, <2>1, <2>2 DEF Cared
<1> QED
  BY <1>1, <1>2, <1>3, <1>4 DEF Cared

\* Work stays if what is said, ordered and lost stays.
LEMMA WorksStays ==
    ASSUME NEW o \in Screens, NEW r, Works(o, r), link' \subseteq link,
           taildrop[o] \in {"start", "copying", "report"} /\ job[o].req = r =>
              \/ taildrop'[o] \in {"start", "copying", "report"} /\ job'[o].req = r
              \/ Answered(In(events'[o]), r),
           Answered(In(events[o]), r) =>
              Answered(In(events'[o]), r) \/ (o \in Clients /\ (o \notin link \/ Answered(In(toServer'[o]), r))),
           o \in Clients => /\ In(toServer[o]) \subseteq In(toServer'[o]) \/ o \notin link'
                            /\ In(toClient[o]) \subseteq In(toClient'[o]) \/ o \notin link'
    PROVE  Works(o, r)'
<1>1. CASE taildrop[o] \in {"start", "copying", "report"} /\ job[o].req = r
  BY <1>1 DEF Works
<1>2. CASE Answered(In(events[o]), r)
  BY <1>2 DEF Works
<1>3. CASE o \in Clients /\ (o \notin link \/ Ordered(In(toClient[o]), r) \/ Answered(In(toServer[o]), r))
  <2>1. CASE o \notin link'
    BY <1>3, <2>1 DEF Works
  <2>2. CASE o \in link'
    <3>1. o \in link
      BY <2>2
    <3>2. Ordered(In(toClient[o]), r) => Ordered(In(toClient'[o]), r)
      BY <1>3, <2>2 DEF Ordered
    <3>3. Answered(In(toServer[o]), r) => Answered(In(toServer'[o]), r)
      BY <1>3, <2>2 DEF Answered
    <3> QED
      BY <1>3, <3>1, <3>2, <3>3 DEF Works
  <2> QED
    BY <2>1, <2>2
<1> QED
  BY <1>1, <1>2, <1>3 DEF Works

\* fetch() ends: that screen does not wait, and of the others nothing changes.
LEMMA EndsWaiting ==
    ASSUME Types, NEW s \in Screens, ends(s), UNCHANGED connected_
    PROVE  ~Waiting(s)' /\ \A t \in Screens \ {s} : Waiting(t)' => Waiting(t) /\ waiting_'[t] = waiting_[t]
<1>1. /\ \A x \in Screens \ {s} : statuses_'[x] = statuses_[x] /\ paste'[x] = paste[x] /\ waiting_'[x] = waiting_[x]
      /\ paste'[s] = "idle"
  BY DEF ends, Types
<1> QED
  BY <1>1 DEF Waiting, Waits

\* Nothing that anybody works with changes.
LEMMA WorksSame ==
    ASSUME UNCHANGED <<taildrop, job, events, toServer, toClient>>, link' \subseteq link
    PROVE  \A o \in Screens, r \in Reqs : Works(o, r) => Works(o, r)'
BY WorksStays

\* The clipboards and the paste thread keep it.
LEMMA PasteExpects ==
    ASSUME IInv, Expects, NEW s \in Screens,
           copyFiles(s) \/ copyOther(s) \/ fetch(s) \/ ask(s) \/ hears(s) \/ timesOut(s) \/ collect(s)
    PROVE  Expects'
<1>1. Types
  BY DEF IInv
<1>2. UNCHANGED <<m_file_pastes, toServer, toClient, link, connected_, taildrop, job>>
  BY DEF copyFiles, copyOther, fetch, ask, hears, timesOut, collect, server, sender, wires
<1>3. ASSUME UNCHANGED events,
             \A t \in Screens : Waiting(t)' => Waiting(t) /\ waiting_'[t] = waiting_[t]
      PROVE  Expects'
  <2> SUFFICES ASSUME NEW t \in Screens, NEW r \in Reqs, Waiting(t)', waiting_'[t] = r PROVE Cared(t, r)'
    BY DEF Expects
  <2>1. Cared(t, r)
    BY <1>3 DEF Expects
  <2>2. \A o \in Screens : Works(o, r) => Works(o, r)'
    BY <1>2, <1>3, WorksSame
  <2> QED
    BY <1>1, <1>2, <1>3, <2>1, <2>2, CaredStays
<1>4. CASE copyFiles(s) \/ copyOther(s)
  <2>1. UNCHANGED <<events, paste, waiting_, statuses_>>
    BY <1>4 DEF copyFiles, copyOther, thread
  <2> QED
    BY <1>2, <1>3, <2>1 DEF Waiting, Waits
<1>5. CASE fetch(s)
  <2>1. UNCHANGED events
    BY <1>5 DEF fetch
  <2>2. \A t \in Screens : Waiting(t)' => Waiting(t) /\ waiting_'[t] = waiting_[t]
    <3>1. CASE connected_[s]
      <4>1. /\ \A x \in Screens \ {s} : statuses_'[x] = statuses_[x] /\ paste'[x] = paste[x] /\ waiting_'[x] = waiting_[x]
            /\ paste'[s] = "asking"
        BY <1>1, <1>5, <3>1 DEF fetch, Types
      <4> QED
        BY <1>2, <4>1 DEF Waiting, Waits
    <3>2. CASE ~connected_[s]
      BY <1>2, <1>5, <3>2 DEF fetch, thread, Waiting, Waits
    <3> QED
      BY <3>1, <3>2
  <2> QED
    BY <1>3, <2>1, <2>2
<1>6. CASE ask(s)
  <2>1. CASE ends(s) /\ UNCHANGED events
    <3>1. \A t \in Screens : Waiting(t)' => Waiting(t) /\ waiting_'[t] = waiting_[t]
      BY <1>1, <1>2, <2>1, EndsWaiting
    <3> QED
      BY <1>3, <2>1, <3>1
  <2>2. ASSUME NEW id, paste' = [paste EXCEPT ![s] = "waiting"], id \in {clip.id, clip.id - 1},
               events' = [events EXCEPT ![s] = Append(@, Request(waiting_[s], id))],
               UNCHANGED <<waiting_, statuses_>>
        PROVE  Expects'
    <3>1. PICK m : m = Request(waiting_[s], id)
      OBVIOUS
    <3>2. waiting_[s] \in Reqs /\ id \in Int
      BY <1>1, <1>6, <2>2, FilePasteAssumption DEF ask, IInv, Types, Mail
    <3>3. m \in Messages /\ m.type = "request" /\ m.req = waiting_[s] /\ events' = [events EXCEPT ![s] = Append(@, m)]
      BY <2>2, <3>1, <3>2 DEF Request, Messages
    <3>4. Append(events[s], m) \in Seq(Messages) /\ In(Append(events[s], m)) = In(events[s]) \cup {m}
      BY <1>1, <3>3, InAppend DEF Types
    <3>5. \A x \in Screens : In(events'[x]) = In(events[x]) \cup (IF x = s THEN {m} ELSE {})
      BY <1>1, <3>3, <3>4 DEF Types
    <3> SUFFICES ASSUME NEW t \in Screens, NEW r \in Reqs, Waiting(t)', waiting_'[t] = r PROVE Cared(t, r)'
      BY DEF Expects
    <3>6. CASE t = s
      <4>1. Asked(In(events'[t]), r)
        BY <2>2, <3>3, <3>5, <3>6 DEF Asked
      <4> QED
        BY <4>1 DEF Cared
    <3>7. CASE t # s
      <4>1. Waiting(t) /\ waiting_[t] = r
        BY <1>1, <1>2, <2>2, <3>7 DEF Waiting, Waits, Types
      <4>2. Cared(t, r)
        BY <4>1 DEF Expects
      <4>3. \A o \in Screens : Works(o, r) => Works(o, r)'
        <5> SUFFICES ASSUME NEW o \in Screens, Works(o, r) PROVE Works(o, r)'
          OBVIOUS
        <5>1. Answered(In(events[o]), r) => Answered(In(events'[o]), r)
          BY <3>5 DEF Answered
        <5> QED
          BY <1>2, <5>1, WorksStays
      <4>4. In(events[t]) \subseteq In(events'[t])
        BY <3>5
      <4> QED
        BY <1>1, <1>2, <4>2, <4>3, <4>4, CaredStays
    <3> QED
      BY <3>6, <3>7
  <2> QED
    BY <1>6, <2>1, <2>2 DEF ask
<1>7. CASE hears(s)
  <2>1. UNCHANGED events
    BY <1>7 DEF hears
  <2>2. \A t \in Screens : Waiting(t)' => Waiting(t) /\ waiting_'[t] = waiting_[t]
    <3>1. CASE ends(s)
      BY <1>1, <1>2, <3>1, EndsWaiting
    <3>2. CASE paste' = [paste EXCEPT ![s] = "collect"] /\ UNCHANGED <<waiting_, statuses_>>
      BY <1>1, <1>2, <3>2 DEF Waiting, Waits, Types
    <3>3. CASE /\ connected_[s] /\ ~answer(s, "failed") /\ ~answer(s, "sent")
               /\ paste' = [paste EXCEPT ![s] = "sending"]
               /\ statuses_' = [statuses_ EXCEPT ![s] = <<>>]
               /\ UNCHANGED waiting_
      <4>1. Waiting(s)
        BY <1>1, <1>7, <3>3, NoAnswer DEF Waiting, hears
      <4>2. \A x \in Screens \ {s} : statuses_'[x] = statuses_[x] /\ paste'[x] = paste[x]
        BY <1>1, <3>3 DEF Types
      <4> QED
        BY <1>2, <3>3, <4>1, <4>2 DEF Waiting, Waits
    <3> QED
      BY <1>7, <3>1, <3>2, <3>3 DEF hears
  <2> QED
    BY <1>3, <2>1, <2>2
<1>8. CASE timesOut(s) \/ collect(s)
  <2>1. ends(s) /\ UNCHANGED events
    BY <1>8 DEF timesOut, collect
  <2>2. \A t \in Screens : Waiting(t)' => Waiting(t) /\ waiting_'[t] = waiting_[t]
    BY <1>1, <1>2, <2>1, EndsWaiting
  <2> QED
    BY <1>3, <2>1, <2>2
<1> QED
  BY <1>4, <1>5, <1>6, <1>7, <1>8

\* The thread that sends the files keeps it: it ends with a report.
LEMMA TaildropExpects ==
    ASSUME IInv, Expects, NEW s \in Screens, Taildrop(s)
    PROVE  Expects'
<1>1. Types /\ Jobs
  BY DEF IInv
<1>2. UNCHANGED <<m_file_pastes, toServer, toClient, link, connected_, paste, waiting_, statuses_>>
  BY DEF Taildrop, startSending, copyToTarget, reportResult, clearBusy, server, thread, wires
<1>3. ASSUME NEW x \in States, taildrop[s] # "idle",
             events' = [events EXCEPT ![s] = Append(@, Status(job[s].req, x))]
      PROVE  \A y \in Screens : In(events'[y]) = In(events[y]) \cup (IF y = s THEN {Status(job[s].req, x)} ELSE {})
  <2> DEFINE m == Status(job[s].req, x)
  <2>1. job[s].req \in Reqs
    BY <1>1, <1>3 DEF Jobs
  <2>2. m \in Messages
    BY <2>1, StatusType
  <2>3. events' = [events EXCEPT ![s] = Append(@, m)]
    BY <1>3
  <2> HIDE DEF m
  <2>4. Append(events[s], m) \in Seq(Messages) /\ In(Append(events[s], m)) = In(events[s]) \cup {m}
    BY <1>1, <2>2, InAppend DEF Types
  <2>5. \A y \in Screens : In(events'[y]) = In(events[y]) \cup (IF y = s THEN {m} ELSE {})
    BY <1>1, <2>3, <2>4 DEF Types
  <2> QED
    BY <2>5 DEF m
<1>4. /\ \A y \in Screens : In(events[y]) \subseteq In(events'[y])
      /\ \A y \in Screens : taildrop[y] \in {"start", "copying", "report"} =>
            \/ taildrop'[y] \in {"start", "copying", "report"} /\ job'[y].req = job[y].req
            \/ Answered(In(events'[y]), job[y].req)
  <2>1. CASE startSending(s)
    <3>1. "sending" \in States /\ taildrop[s] # "idle"
      BY <2>1 DEF States, startSending
    <3>2. \A y \in Screens : In(events[y]) \subseteq In(events'[y])
      BY <1>3, <2>1, <3>1 DEF startSending
    <3>3. \A y \in Screens : taildrop[y] \in {"start", "copying", "report"} =>
             taildrop'[y] \in {"start", "copying", "report"} /\ job'[y].req = job[y].req
      <4>1. \A y \in Screens : job'[y].req = job[y].req
        <5>1. job \in [Screens -> [req : Reqs \cup {None}, state : States \cup {"none"}]]
          BY <1>1 DEF Types
        <5>2. CASE UNCHANGED job
          BY <5>2
        <5>3. CASE job' = [job EXCEPT ![s].state = "failed"]
          BY <5>1, <5>3
        <5> QED
          BY <2>1, <5>2, <5>3 DEF startSending
      <4>2. \A y \in Screens : taildrop'[y] = taildrop[y] \/ taildrop'[y] \in {"copying", "report"}
        BY <1>1, <2>1 DEF startSending, Types
      <4> QED
        BY <4>1, <4>2
    <3> QED
      BY <3>2, <3>3
  <2>2. CASE copyToTarget(s)
    <3>1. \A y \in Screens : taildrop[y] \in {"start", "copying", "report"} =>
             taildrop'[y] \in {"start", "copying", "report"} /\ job'[y].req = job[y].req
      BY <1>1, <2>2 DEF copyToTarget, Types
    <3> QED
      BY <2>2, <3>1 DEF copyToTarget
  <2>3. CASE reportResult(s)
    <3>1. PICK x \in {"sent", "failed"} : x = job[s].state
      BY <1>1, <2>3 DEF reportResult, Jobs
    <3>2. x \in States /\ taildrop[s] # "idle" /\ events' = [events EXCEPT ![s] = Append(@, Status(job[s].req, x))]
      BY <2>3, <3>1 DEF States, reportResult
    <3>3. \A y \in Screens : In(events'[y]) = In(events[y]) \cup (IF y = s THEN {Status(job[s].req, x)} ELSE {})
      BY <1>3, <3>2
    <3>4. Answered(In(events'[s]), job[s].req)
      BY <3>1, <3>3 DEF Answered
    <3>5. \A y \in Screens \ {s} : taildrop'[y] = taildrop[y] /\ job'[y] = job[y]
      BY <1>1, <2>3 DEF reportResult, Types
    <3> QED
      BY <3>3, <3>4, <3>5
  <2>4. CASE clearBusy(s)
    <3>1. \A y \in Screens : taildrop[y] \in {"start", "copying", "report"} =>
             taildrop'[y] \in {"start", "copying", "report"} /\ job'[y].req = job[y].req
      BY <1>1, <2>4 DEF clearBusy, Types
    <3> QED
      BY <2>4, <3>1 DEF clearBusy
  <2> QED
    BY <2>1, <2>2, <2>3, <2>4 DEF Taildrop
<1> SUFFICES ASSUME NEW t \in Screens, NEW r \in Reqs, Waiting(t)', waiting_'[t] = r PROVE Cared(t, r)'
  BY DEF Expects
<1>5. Cared(t, r)
  BY <1>2 DEF Expects, Waiting, Waits
<1>6. \A o \in Screens : Works(o, r) => Works(o, r)'
  <2> SUFFICES ASSUME NEW o \in Screens, Works(o, r) PROVE Works(o, r)'
    OBVIOUS
  <2>1. Answered(In(events[o]), r) => Answered(In(events'[o]), r)
    BY <1>4 DEF Answered
  <2> QED
    BY <1>2, <1>4, <2>1, WorksStays
<1> QED
  BY <1>1, <1>2, <1>4, <1>5, <1>6, CaredStays

\* The server keeps it: it cares for the request it takes, and for every paste it forgets.
LEMMA ServerExpects ==
    ASSUME IInv, Expects, NEW s \in Screens, NEW e, NEW q, Takes(s, e, q), Effect(s, e, q)
    PROVE  Expects'
<1>1. Types /\ Kept /\ Mail /\ Primary \in Screens /\ Primary \notin Clients
  BY FilePasteAssumption DEF IInv, Screens
<1>2. Writes(e, q) /\ Cares(s, e) /\ UNCHANGED <<paste, waiting_, connected_, link>>
  BY DEF Effect, Takes
<1>3. \A x \in Screens : In(statuses_[x]) \subseteq In(statuses_'[x])
  BY <1>2 DEF Writes
<1>4. \A c \in Clients : In(toClient[c]) \subseteq In(toClient'[c])
  BY <1>2 DEF Writes
<1>5. \A c \in Clients : In(toServer[c]) = In(toServer'[c]) \cup (IF c = s THEN {e} ELSE {})
  BY DEF Takes
<1>6. \A x \in Screens : In(events[x]) \subseteq In(events'[x]) \cup (IF x = Primary /\ s = Primary THEN {e} ELSE {})
  <2>1. In(events[Primary]) = In(q) \cup (IF s = Primary THEN {e} ELSE {})
    BY DEF Takes
  <2>2. In(q) \subseteq In(events'[Primary]) /\ \A x \in Screens \ {Primary} : events'[x] = events[x]
    BY <1>2 DEF Writes
  <2> QED
    BY <2>1, <2>2
<1>7. e \in Messages
  BY DEF Takes
<1> SUFFICES ASSUME NEW t \in Screens, NEW r \in Reqs, Waiting(t)', waiting_'[t] = r PROVE Cared(t, r)'
  BY DEF Expects
<1>8. Waiting(t) /\ waiting_[t] = r
  BY <1>2, <1>3 DEF Waiting, Waits
<1>9. Cared(t, r) /\ t = r[1]
  <2>1. waiting_[t] # None
    BY <1>8, ReqNotNone
  <2> QED
    BY <1>1, <1>8, <2>1 DEF Expects, Mail
<1>10. CASE e.type = "request" /\ e.req = r
  <2>1. s = t
    BY <1>9, <1>10, TakesFrom
  <2>2. CASE Told(s, e.req)'
    <3>1. Told(t, r)'
      BY <1>10, <2>1, <2>2
    <3> QED
      BY <3>1 DEF Told, Cared, Waiting
  <2>3. CASE (e.req \in DOMAIN m_file_pastes /\ Works(m_file_pastes[e.req].source, e.req))'
    <3>1. PICK o : o = m_file_pastes'[r].source
      OBVIOUS
    <3>2. r \in DOMAIN m_file_pastes' /\ Works(o, r)'
      BY <1>10, <2>3, <3>1
    <3> QED
      BY <3>1, <3>2 DEF Cared
  <2> QED
    BY <1>2, <1>10, <2>2, <2>3 DEF Cares
<1>11. CASE ~(e.type = "request" /\ e.req = r)
  <2>1. CASE t \in Clients \ link
    BY <1>2, <2>1 DEF Cared
  <2>2. CASE Asked(In(events[t]), r)
    <3>1. Asked(In(events'[t]), r)
      BY <1>6, <1>11, <2>2 DEF Asked
    <3> QED
      BY <3>1 DEF Cared
  <2>3. CASE t \in Clients /\ Asked(In(toServer[t]), r)
    <3>1. Asked(In(toServer'[t]), r)
      BY <1>5, <1>11, <2>3 DEF Asked
    <3> QED
      BY <2>3, <3>1 DEF Cared
  <2>4. CASE t \in Clients /\ Answered(In(toClient[t]), r)
    <3>1. Answered(In(toClient'[t]), r)
      BY <1>4, <2>4 DEF Answered
    <3> QED
      BY <2>4, <3>1 DEF Cared
  <2>5. CASE r \in DOMAIN m_file_pastes /\ Works(m_file_pastes[r].source, r)
    <3>1. PICK o \in Screens : o = m_file_pastes[r].source
      BY <1>1, <2>5 DEF Types, Pairs
    <3>2. CASE Told(r[1], r)'
      <4>1. Told(t, r)'
        BY <1>9, <3>2
      <4> QED
        BY <4>1 DEF Told, Cared, Waiting
    <3>3. CASE /\ r \in DOMAIN m_file_pastes' /\ m_file_pastes'[r] = m_file_pastes[r]
               /\ ~(m_file_pastes[r].source = s /\ e.type = "status" /\ e.req = r /\ e.state # "sending")
      <4>1. o = s => e # Status(r, "sent") /\ e # Status(r, "failed")
        BY <3>1, <3>3, StatusType DEF States
      <4>2. Answered(In(events[o]), r) => Answered(In(events'[o]), r)
        BY <1>6, <4>1 DEF Answered
      <4>3. o \in Clients /\ Answered(In(toServer[o]), r) => Answered(In(toServer'[o]), r)
        BY <1>5, <4>1 DEF Answered
      <4>4. o \in Clients /\ Ordered(In(toClient[o]), r) => Ordered(In(toClient'[o]), r)
        BY <1>4 DEF Ordered
      <4>5. taildrop[o] \in {"start", "copying", "report"} => taildrop'[o] = taildrop[o] /\ job'[o] = job[o]
        <5>1. CASE o = Primary
          BY <1>2, <5>1 DEF Writes
        <5>2. CASE o # Primary
          BY <1>2, <5>2 DEF Writes
        <5> QED
          BY <5>1, <5>2
      <4>6. Works(o, r)
        BY <2>5, <3>1
      <4>7. Works(o, r)'
        BY <1>2, <4>2, <4>3, <4>4, <4>5, <4>6 DEF Works
      <4> QED
        BY <3>1, <3>3, <4>7 DEF Cared
    <3> QED
      BY <1>2, <2>5, <3>2, <3>3 DEF Cares
  <2> QED
    BY <1>9, <2>1, <2>2, <2>3, <2>4, <2>5 DEF Cared
<1> QED
  BY <1>10, <1>11

\* A client that leaves: the pastes of its files are answered.
LEMMA RemoveExpects ==
    ASSUME IInv, Expects, NEW c \in Clients, removeClient(c)
    PROVE  Expects'
<1>1. Types /\ Mail
  BY DEF IInv
<1>2. UNCHANGED <<paste, waiting_, connected_, link, events, toServer, taildrop, job>>
  BY DEF removeClient, sender
<1>3. \A x \in Screens : In(statuses_[x]) \subseteq In(statuses_'[x])
  BY RemoveEffect
<1>4. \A d \in Clients : In(toClient[d]) \subseteq In(toClient'[d])
  BY RemoveEffect
<1>5. \A r \in DOMAIN m_file_pastes :
         \/ r \in DOMAIN m_file_pastes' /\ m_file_pastes'[r] = m_file_pastes[r]
         \/ Told(r[1], r)'
  BY RemoveEffect
<1> SUFFICES ASSUME NEW t \in Screens, NEW r \in Reqs, Waiting(t)', waiting_'[t] = r PROVE Cared(t, r)'
  BY DEF Expects
<1>6. Waiting(t) /\ waiting_[t] = r
  BY <1>2, <1>3 DEF Waiting, Waits
<1>7. Cared(t, r) /\ t = r[1]
  <2>1. waiting_[t] # None
    BY <1>6, ReqNotNone
  <2> QED
    BY <1>1, <1>6, <2>1 DEF Expects, Mail
<1>8. CASE t \in Clients \ link \/ Asked(In(events[t]), r) \/ (t \in Clients /\ Asked(In(toServer[t]), r))
  BY <1>2, <1>8 DEF Cared
<1>9. CASE t \in Clients /\ Answered(In(toClient[t]), r)
  <2>1. Answered(In(toClient'[t]), r)
    BY <1>4, <1>9 DEF Answered
  <2> QED
    BY <1>9, <2>1 DEF Cared
<1>10. CASE r \in DOMAIN m_file_pastes /\ Works(m_file_pastes[r].source, r)
  <2>1. PICK o \in Screens : o = m_file_pastes[r].source
    BY <1>1, <1>10 DEF Types, Pairs
  <2>2. CASE r \in DOMAIN m_file_pastes' /\ m_file_pastes'[r] = m_file_pastes[r]
    <3>1. Works(o, r)
      BY <1>10, <2>1
    <3>2. Works(o, r)'
      BY <1>2, <1>4, <3>1, WorksStays
    <3> QED
      BY <2>1, <2>2, <3>2 DEF Cared
  <2>3. CASE Told(r[1], r)'
    <3>1. Told(t, r)'
      BY <1>7, <2>3
    <3> QED
      BY <3>1 DEF Told, Cared, Waiting
  <2> QED
    BY <1>5, <1>10, <2>2, <2>3
<1> QED
  BY <1>7, <1>8, <1>9, <1>10 DEF Cared

\* A client that reads: an order becomes work or a failure, an answer ends the wait.
LEMMA ReadExpects ==
    ASSUME IInv, Expects, NEW c \in Clients, clientReads(c)
    PROVE  Expects'
<1>1. Types /\ c \in Screens
  BY DEF IInv, Screens
<1>2. /\ UNCHANGED <<server, clipboards, paste, waiting_, connected_, link, toServer, pasted, counters>>
      /\ \A x \in Screens \ {c} : events'[x] = events[x] /\ taildrop'[x] = taildrop[x] /\ job'[x] = job[x]
                                  /\ statuses_'[x] = statuses_[x]
      /\ \A d \in Clients \ {c} : toClient'[d] = toClient[d]
  BY ReadEffect
<1>3. PICK m \in Messages :
         /\ In(toClient[c]) = In(toClient'[c]) \cup {m}
         /\ \/ /\ m.type = "send" /\ statuses_'[c] = statuses_[c]
               /\ \/ /\ taildrop[c] = "idle" /\ taildrop'[c] = "start"
                     /\ job'[c] = [req |-> m.req, state |-> "none"] /\ In(events'[c]) = In(events[c])
                  \/ /\ taildrop'[c] = taildrop[c] /\ job'[c] = job[c]
                     /\ In(events'[c]) = In(events[c]) \cup {Status(m.req, "failed")}
            \/ /\ m.type = "status" /\ m = Status(m.req, m.state)
               /\ taildrop'[c] = taildrop[c] /\ job'[c] = job[c] /\ events'[c] = events[c]
               /\ In(statuses_'[c]) = In(statuses_[c]) \cup (IF waiting_[c] = m.req THEN {m.state} ELSE {})
  BY ReadEffect
<1>4. UNCHANGED m_file_pastes
  BY <1>2 DEF server
<1>5. In(statuses_[c]) \subseteq In(statuses_'[c]) /\ In(events[c]) \subseteq In(events'[c])
  BY <1>3
<1>6. \A x \in Screens : In(statuses_[x]) \subseteq In(statuses_'[x]) /\ In(events[x]) \subseteq In(events'[x])
  BY <1>2, <1>5
<1> SUFFICES ASSUME NEW t \in Screens, NEW r \in Reqs, Waiting(t)', waiting_'[t] = r PROVE Cared(t, r)'
  BY DEF Expects
<1>7. Waiting(t) /\ waiting_[t] = r
  BY <1>2, <1>6 DEF Waiting, Waits
<1>8. Cared(t, r)
  BY <1>7 DEF Expects
<1>9. CASE t \in Clients \ link \/ (t \in Clients /\ Asked(In(toServer[t]), r))
  BY <1>2, <1>9 DEF Cared
<1>10. CASE Asked(In(events[t]), r)
  <2>1. Asked(In(events'[t]), r)
    BY <1>6, <1>10 DEF Asked
  <2> QED
    BY <2>1 DEF Cared
<1>11. CASE t \in Clients /\ Answered(In(toClient[t]), r)
  <2>1. CASE t = c
    <3>1. m # Status(r, "sent") /\ m # Status(r, "failed")
      <4> SUFFICES ASSUME NEW x \in {"sent", "failed"}, m = Status(r, x) PROVE FALSE
        OBVIOUS
      <4>1. m.type = "status" /\ m.req = r /\ m.state = x
        BY StatusType DEF States
      <4>2. x \in In(statuses_'[c])
        BY <1>3, <1>7, <2>1, <4>1
      <4> QED
        BY <2>1, <4>2 DEF Waiting
    <3>2. Answered(In(toClient'[t]), r)
      BY <1>3, <1>11, <2>1, <3>1 DEF Answered
    <3> QED
      BY <1>11, <3>2 DEF Cared
  <2>2. CASE t # c
    BY <1>2, <1>11, <2>2 DEF Cared
  <2> QED
    BY <2>1, <2>2
<1>12. CASE r \in DOMAIN m_file_pastes /\ Works(m_file_pastes[r].source, r)
  <2>1. PICK o \in Screens : o = m_file_pastes[r].source
    BY <1>1, <1>12 DEF Types, Pairs
  <2>2. Works(o, r)
    BY <1>12, <2>1
  <2>3. CASE o # c
    <3>1. Works(o, r)'
      BY <1>2, <2>2, <2>3 DEF Works
    <3> QED
      BY <1>4, <1>12, <2>1, <3>1 DEF Cared
  <2>4. CASE o = c
    <3> SUFFICES Works(o, r)'
      BY <1>4, <1>12, <2>1 DEF Cared
    <3>1. CASE taildrop[o] \in {"start", "copying", "report"} /\ job[o].req = r
      BY <1>3, <2>4, <3>1 DEF Works
    <3>2. CASE Answered(In(events[o]), r)
      <4>1. Answered(In(events'[o]), r)
        BY <1>6, <3>2 DEF Answered
      <4> QED
        BY <4>1 DEF Works
    <3>3. CASE o \in Clients /\ (o \notin link \/ Answered(In(toServer[o]), r))
      BY <1>2, <3>3 DEF Works
    <3>4. CASE o \in Clients /\ Ordered(In(toClient[o]), r)
      <4>1. PICK n \in In(toClient[o]) : n.type = "send" /\ n.req = r
        BY <3>4 DEF Ordered
      <4>2. CASE n \in In(toClient'[o])
        <5>1. Ordered(In(toClient'[o]), r)
          BY <4>1, <4>2 DEF Ordered
        <5> QED
          BY <3>4, <5>1 DEF Works
      <4>3. CASE n = m
        <5>1. \/ taildrop'[o] = "start" /\ job'[o] = [req |-> r, state |-> "none"]
              \/ Status(r, "failed") \in In(events'[o])
          BY <1>3, <2>4, <4>1, <4>3
        <5>2. taildrop'[o] = "start" /\ job'[o] = [req |-> r, state |-> "none"] => Works(o, r)'
          BY DEF Works
        <5>3. Status(r, "failed") \in In(events'[o]) => Works(o, r)'
          BY DEF Works, Answered
        <5> QED
          BY <5>1, <5>2, <5>3
      <4> QED
        BY <1>3, <2>4, <4>1, <4>2, <4>3
    <3> QED
      BY <2>2, <3>1, <3>2, <3>3, <3>4 DEF Works
  <2> QED
    BY <2>3, <2>4
<1> QED
  BY <1>8, <1>9, <1>10, <1>11, <1>12 DEF Cared

\* A client's event becomes a message, or the connection is gone.
LEMMA EventExpects ==
    ASSUME IInv, Expects, NEW c \in Clients, clientEvent(c)
    PROVE  Expects'
<1>1. Types /\ c \in Screens
  BY DEF IInv, Screens
<1>2. /\ \A x \in Screens \ {c} : events'[x] = events[x]
      /\ \A d \in Clients \ {c} : toServer'[d] = toServer[d]
      /\ UNCHANGED <<m_file_pastes, paste, waiting_, statuses_, connected_, taildrop, job, link, toClient>>
  BY EventEffect DEF clientEvent, server, thread, sender
<1>3. PICK e \in Messages :
         /\ In(events[c]) = In(events'[c]) \cup {e}
         /\ In(toServer'[c]) = In(toServer[c]) \cup (IF c \in link THEN {e} ELSE {})
  BY EventEffect
<1> SUFFICES ASSUME NEW t \in Screens, NEW r \in Reqs, Waiting(t)', waiting_'[t] = r PROVE Cared(t, r)'
  BY DEF Expects
<1>4. Cared(t, r)
  BY <1>2 DEF Expects, Waiting, Waits
<1>5. \A o \in Screens : Works(o, r) => Works(o, r)'
  <2> SUFFICES ASSUME NEW o \in Screens, Works(o, r) PROVE Works(o, r)'
    OBVIOUS
  <2>1. CASE o # c
    BY <1>2, <2>1 DEF Works
  <2>2. CASE o = c
    <3>1. In(toServer[o]) \subseteq In(toServer'[o])
      BY <1>3, <2>2
    <3>2. Answered(In(events[o]), r) =>
             Answered(In(events'[o]), r) \/ (o \in Clients /\ (o \notin link \/ Answered(In(toServer'[o]), r)))
      BY <1>3, <2>2 DEF Answered
    <3> QED
      BY <1>2, <3>1, <3>2, WorksStays
  <2> QED
    BY <2>1, <2>2
<1>6. CASE t \in Clients \ link \/ (t \in Clients /\ Answered(In(toClient[t]), r))
  BY <1>2, <1>6 DEF Cared
<1>7. CASE Asked(In(events[t]), r)
  <2>1. CASE t # c
    BY <1>2, <1>7, <2>1 DEF Cared
  <2>2. CASE t = c
    <3>1. c \notin link \/ Asked(In(events'[t]), r) \/ Asked(In(toServer'[t]), r)
      BY <1>3, <1>7, <2>2 DEF Asked
    <3> QED
      BY <1>2, <2>2, <3>1 DEF Cared
  <2> QED
    BY <2>1, <2>2
<1>8. CASE t \in Clients /\ Asked(In(toServer[t]), r)
  <2>1. In(toServer[t]) \subseteq In(toServer'[t])
    BY <1>2, <1>3, <1>8
  <2>2. Asked(In(toServer'[t]), r)
    BY <1>8, <2>1 DEF Asked
  <2> QED
    BY <1>8, <2>2 DEF Cared
<1>9. CASE r \in DOMAIN m_file_pastes /\ Works(m_file_pastes[r].source, r)
  <2>1. PICK o \in Screens : o = m_file_pastes[r].source
    BY <1>1, <1>9 DEF Types, Pairs
  <2>2. Works(o, r)'
    BY <1>5, <1>9, <2>1
  <2> QED
    BY <1>2, <1>9, <2>1, <2>2 DEF Cared
<1> QED
  BY <1>4, <1>6, <1>7, <1>8, <1>9 DEF Cared

\* Connections: one that breaks has nobody wait on it, and if paste threads are prompt
\* one that is back has nobody wait for what was lost with the old one.
LEMMA LinkExpects ==
    ASSUME IInv, Expects, Prompt, NEW c \in Clients, adoptClient(c) \/ lose(c) \/ cleanupScreen(c) \/ connect(c)
    PROVE  Expects'
<1>1. Types /\ Kept /\ c \in Screens /\ c # Primary
  BY FilePasteAssumption DEF IInv, Screens
<1>2. UNCHANGED <<m_file_pastes, paste, waiting_, statuses_, taildrop, job, events>>
  BY DEF adoptClient, lose, cleanupScreen, connect, server, thread, sender
<1> SUFFICES ASSUME NEW t \in Screens, NEW r \in Reqs, Waiting(t)', waiting_'[t] = r PROVE Cared(t, r)'
  BY DEF Expects
<1>3. CASE adoptClient(c) \/ cleanupScreen(c)
  <2>1. UNCHANGED <<link, toServer, toClient>>
    BY <1>3 DEF adoptClient, cleanupScreen, wires
  <2>2. Waiting(t)
    BY <1>1, <1>2, <1>3 DEF adoptClient, cleanupScreen, Waiting, Waits, Types
  <2>3. Cared(t, r)
    BY <1>2, <2>2 DEF Expects
  <2>4. \A o \in Screens : Works(o, r) => Works(o, r)'
    BY <1>2, <2>1, WorksSame
  <2> QED
    BY <1>1, <1>2, <2>1, <2>3, <2>4, CaredStays
<1>4. CASE lose(c)
  <2>1. link' = link \ {c} /\ UNCHANGED connected_ /\ \A d \in Clients \ {c} : toServer'[d] = toServer[d] /\ toClient'[d] = toClient[d]
    BY <1>1, <1>4 DEF lose, Types
  <2>2. Cared(t, r)
    BY <1>2, <2>1 DEF Expects, Waiting, Waits
  <2>3. CASE t = c
    BY <2>1, <2>3 DEF Cared
  <2>4. CASE t # c
    <3>1. CASE t \in Clients \ link \/ Asked(In(events[t]), r)
               \/ (t \in Clients /\ (Asked(In(toServer[t]), r) \/ Answered(In(toClient[t]), r)))
      BY <1>2, <2>1, <2>4, <3>1 DEF Cared
    <3>2. CASE r \in DOMAIN m_file_pastes /\ Works(m_file_pastes[r].source, r)
      <4>1. PICK o \in Screens : o = m_file_pastes[r].source
        BY <1>1, <3>2 DEF Types, Pairs
      <4>2. Works(o, r)
        BY <3>2, <4>1
      <4>3. Works(o, r)'
        <5>1. CASE o = c
          BY <2>1, <5>1 DEF Works
        <5>2. CASE o # c
          BY <1>2, <2>1, <4>2, <5>2 DEF Works
        <5> QED
          BY <5>1, <5>2
      <4> QED
        BY <1>2, <3>2, <4>1, <4>3 DEF Cared
    <3> QED
      BY <2>2, <3>1, <3>2 DEF Cared
  <2> QED
    BY <2>3, <2>4
<1>5. CASE connect(c)
  <2>1. /\ link' = link \cup {c} /\ ~Waits(c) /\ c \notin m_clients /\ UNCHANGED <<toServer, toClient>>
        /\ \A x \in Screens \ {c} : connected_'[x] = connected_[x]
    BY <1>1, <1>5 DEF connect, Types, wires
  <2>2. t # c /\ Waiting(t)
    BY <1>2, <2>1 DEF Waiting, Waits
  <2>3. Cared(t, r)
    BY <1>2, <2>2 DEF Expects
  <2>4. CASE t \in Clients \ link \/ Asked(In(events[t]), r)
             \/ (t \in Clients /\ (Asked(In(toServer[t]), r) \/ Answered(In(toClient[t]), r)))
    BY <1>2, <2>1, <2>2, <2>4 DEF Cared
  <2>5. CASE r \in DOMAIN m_file_pastes /\ Works(m_file_pastes[r].source, r)
    <3>1. PICK o \in Screens : o = m_file_pastes[r].source
      BY <1>1, <2>5 DEF Types, Pairs
    <3>2. o # c
      BY <1>1, <2>1, <2>5, <3>1 DEF Kept, Connected
    <3>3. Works(o, r)
      BY <2>5, <3>1
    <3>4. Works(o, r)'
      BY <1>2, <2>1, <3>2, <3>3 DEF Works
    <3> QED
      BY <1>2, <2>5, <3>1, <3>4 DEF Cared
  <2> QED
    BY <2>3, <2>4, <2>5 DEF Cared
<1> QED
  BY <1>3, <1>4, <1>5

\* Every step keeps it, if paste threads are prompt.
LEMMA ExpectsStep == Prompt /\ IInv /\ Expects /\ [Next]_vars => Expects'
<1> SUFFICES ASSUME Prompt, IInv, Expects, [Next]_vars PROVE Expects'
  OBVIOUS
<1>1. CASE UNCHANGED vars
  <2>1. UNCHANGED <<m_file_pastes, paste, waiting_, statuses_, connected_, taildrop, job, link, events, toServer, toClient>>
    BY <1>1 DEF vars, server, thread, sender, wires
  <2> QED
    BY <2>1 DEF Expects, Waiting, Waits, Cared, Works
<1>2. ASSUME NEW s \in Screens,
             copyFiles(s) \/ copyOther(s) \/ fetch(s) \/ PasteThread(s) \/ timesOut(s) \/ Taildrop(s)
      PROVE  Expects'
  BY <1>2, PasteExpects, TaildropExpects DEF PasteThread
<1>3. ASSUME primaryEvent \/ \E c \in Clients : parseMessage(c) PROVE Expects'
  BY <1>3, ServerEffect, ServerExpects
<1>4. ASSUME NEW c \in Clients, Relay(c) \/ lose(c) \/ connect(c) PROVE Expects'
  BY <1>3, <1>4, RemoveExpects, ReadExpects, EventExpects, LinkExpects DEF Relay
<1> QED
  BY <1>1, <1>2, <1>3, <1>4 DEF Next

\* What the invariant calls cared for is what the property asks for.
LEMMA CaredMeans ==
    ASSUME IInv, Expects
    PROVE  WaitsForSomething
<1>1. Types /\ Mail
  BY DEF IInv
<1> SUFFICES ASSUME NEW t \in Screens, NEW r, r = waiting_[t], Waits(t), ~heard(t)
             PROVE  \/ t \in Clients \ link
                    \/ \E i \in 1..Len(events[t]) : events[t][i].type = "request" /\ events[t][i].req = r
                    \/ t \in Clients /\ \E i \in 1..Len(toServer[t]) : toServer[t][i].type = "request" /\ toServer[t][i].req = r
                    \/ t \in Clients /\ \E i \in 1..Len(toClient[t]) :
                          toClient[t][i] = Status(r, "sent") \/ toClient[t][i] = Status(r, "failed")
                    \/ r \in DOMAIN m_file_pastes /\ WorksOn(m_file_pastes[r].source, r)
  BY DEF WaitsForSomething
<1>2. r \in Reqs
  BY <1>1 DEF Waits, Types, Mail
<1>3. Waiting(t)
  BY InEmpty DEF Waiting, heard
<1>4. Cared(t, r)
  BY <1>2, <1>3 DEF Expects
<1>5. \A M : Asked(In(M), r) => \E i \in 1..Len(M) : M[i].type = "request" /\ M[i].req = r
  BY DEF Asked, In
<1>6. \A M : Answered(In(M), r) => \E i \in 1..Len(M) : M[i] = Status(r, "sent") \/ M[i] = Status(r, "failed")
  BY DEF Answered, In
<1>7. \A M : Ordered(In(M), r) => \E i \in 1..Len(M) : M[i].type = "send" /\ M[i].req = r
  BY DEF Ordered, In
<1>8. \A o : Works(o, r) => WorksOn(o, r)
  BY <1>6, <1>7 DEF Works, WorksOn
<1> QED
  BY <1>4, <1>5, <1>6, <1>8 DEF Cared

\* If paste threads notice a lost connection before it is back, no paste waits for
\* nothing, whatever is refused, lost or removed on the way: wait_for_files() needs its
\* time limits only for a screen or a program that hangs.
THEOREM PastesAreCaredFor ==
    ASSUME Prompt
    PROVE  Spec => []WaitsForSomething
<1>1. Init => Expects
  BY DEF Init, Expects, Waiting, Waits
<1>2. IInv /\ Expects => WaitsForSomething
  BY CaredMeans
<1>3. IInv /\ Expects /\ [Next]_vars => Expects'
  BY ExpectsStep
<1> QED
  BY <1>1, <1>2, <1>3, Start, Step, PTL DEF Spec
=============================================================================
