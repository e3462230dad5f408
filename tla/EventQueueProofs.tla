--------------------------- MODULE EventQueueProofs ---------------------------
(***************************************************************************)
(* For any number of threads and events, with early events, a buffer that  *)
(* refuses events and a buffer that is swapped: the event queue never      *)
(* gives a number that is still in use to another event, loses no event,   *)
(* dispatches none twice and keeps the order of late threads.              *)
(*                                                                         *)
(* NumbersInUse is not inductive: that the size of m_events is a number    *)
(* not in use holds because the numbers in use and the free ones are       *)
(* together 0 .. n-1 for some n, which NoGaps states.  The other two       *)
(* results add Places and LateInLine to it.                                *)
(***************************************************************************)
EXTENDS EventQueue, FiniteSetTheorems, TLAPS

Known == DOMAIN m_events \cup m_oldEventIDs

\* The numbers ever handed out since the buffer was new are 0 .. n-1.
NoGaps == \E n \in Nat : Known = 0..(n - 1)

NumberTypes ==
    /\ buffer \in Seq(Nat)
    /\ taken \subseteq Nat
    /\ \A i, j \in taken : i = j

IInv == NumberTypes /\ NumbersInUse /\ NoGaps

----------------------------------------------------------------------------
(* Sequences as queues.                                                     *)

Distinct(s) == \A i, j \in 1..Len(s) : i # j => s[i] # s[j]

LEMMA TailOf ==
    ASSUME NEW S, NEW s \in Seq(S), s # <<>>
    PROVE  /\ Head(s) = s[1] /\ s[1] \in S /\ s[1] \in RangeOf(s)
           /\ Len(s) \in Nat \ {0}
           /\ Tail(s) \in Seq(S) /\ Len(Tail(s)) = Len(s) - 1
           /\ \A i \in 1..Len(Tail(s)) : Tail(s)[i] = s[i + 1] /\ i + 1 \in 1..Len(s)
           /\ RangeOf(s) = RangeOf(Tail(s)) \cup {s[1]}
           /\ Distinct(s) => Distinct(Tail(s)) /\ s[1] \notin RangeOf(Tail(s))
<1>1. /\ Head(s) = s[1] /\ s[1] \in S
      /\ Len(s) \in Nat \ {0}
      /\ Tail(s) \in Seq(S) /\ Len(Tail(s)) = Len(s) - 1
      /\ \A i \in 1..Len(Tail(s)) : Tail(s)[i] = s[i + 1]
  OBVIOUS
<1>2. \A i \in 1..Len(Tail(s)) : i + 1 \in 1..Len(s)
  BY <1>1
<1>3. s[1] \in RangeOf(s)
  BY <1>1 DEF RangeOf
<1>4. ASSUME NEW x \in RangeOf(s), x # s[1] PROVE x \in RangeOf(Tail(s))
  <2>1. PICK i \in 1..Len(s) : x = s[i]
    BY <1>4 DEF RangeOf
  <2>2. i - 1 \in 1..Len(Tail(s)) /\ Tail(s)[i - 1] = s[i]
    BY <1>1, <1>4, <2>1
  <2> QED BY <2>1, <2>2 DEF RangeOf
<1>5. RangeOf(Tail(s)) \subseteq RangeOf(s)
  BY <1>1, <1>2 DEF RangeOf
<1>6. ASSUME Distinct(s) PROVE Distinct(Tail(s)) /\ s[1] \notin RangeOf(Tail(s))
  <2>1. 1 \in 1..Len(s) /\ \A i \in 1..Len(Tail(s)) : i + 1 # 1
    BY <1>1
  <2>2. s[1] \notin RangeOf(Tail(s))
    BY <1>1, <1>2, <1>6, <2>1 DEF Distinct, RangeOf
  <2>3. \A i, j \in 1..Len(Tail(s)) : i # j => i + 1 # j + 1
    BY <1>1
  <2>4. Distinct(Tail(s))
    BY <1>1, <1>2, <1>6, <2>3 DEF Distinct
  <2> QED BY <2>2, <2>4
<1> QED BY <1>1, <1>2, <1>3, <1>4, <1>5, <1>6

LEMMA AppendOf ==
    ASSUME NEW S, NEW s \in Seq(S), NEW e \in S
    PROVE  /\ Append(s, e) \in Seq(S) /\ Len(Append(s, e)) = Len(s) + 1 /\ Len(s) \in Nat
           /\ \A i \in 1..Len(s) : Append(s, e)[i] = s[i]
           /\ Append(s, e)[Len(s) + 1] = e
           /\ RangeOf(Append(s, e)) = RangeOf(s) \cup {e}
           /\ Distinct(s) /\ e \notin RangeOf(s) => Distinct(Append(s, e))
<1>1. /\ Append(s, e) \in Seq(S) /\ Len(Append(s, e)) = Len(s) + 1 /\ Len(s) \in Nat
      /\ \A i \in 1..Len(s) : Append(s, e)[i] = s[i]
      /\ Append(s, e)[Len(s) + 1] = e
  OBVIOUS
<1>2. 1..Len(Append(s, e)) = 1..Len(s) \cup {Len(s) + 1}
  BY <1>1
<1>3. RangeOf(Append(s, e)) = RangeOf(s) \cup {e}
  BY <1>1, <1>2 DEF RangeOf
<1>4. Distinct(s) /\ e \notin RangeOf(s) => Distinct(Append(s, e))
  BY <1>1, <1>2 DEF Distinct, RangeOf
<1> QED BY <1>1, <1>3, <1>4
----------------------------------------------------------------------------
\* save_event() takes a free number or the first number that was never handed
\* out: in both cases one that no queued event has.
LEMMA FreshIsUnused ==
    ASSUME IInv, NEW id \in freshIDs
    PROVE  /\ id \in Nat
           /\ id \notin DOMAIN m_events
           /\ \E n \in Nat : Known \cup {id} = 0..(n - 1)
<1>1. PICK n \in Nat : Known = 0..(n - 1)
  BY DEF IInv, NoGaps
<1>2. CASE m_oldEventIDs # {}
  <2>1. id \in m_oldEventIDs
    BY <1>2 DEF freshIDs
  <2>2. id \notin DOMAIN m_events
    BY <2>1 DEF IInv, NumbersInUse
  <2>3. Known \cup {id} = Known /\ id \in 0..(n - 1)
    BY <2>1, <1>1 DEF Known
  <2> QED
    BY <2>2, <2>3, <1>1
<1>3. CASE m_oldEventIDs = {}
  <2>1. DOMAIN m_events = 0..(n - 1)
    BY <1>1, <1>3 DEF Known
  <2>2. Cardinality(0..(n - 1)) = n
    <3>1. 0 \in Int /\ n - 1 \in Int /\ n >= 0
      BY <1>1
    <3>2. Cardinality(0..(n - 1)) = IF 0 > n - 1 THEN 0 ELSE (n - 1) - 0 + 1
      BY <3>1, FS_Interval
    <3> QED
      BY <3>1, <3>2
  <2>3. id = n
    BY <2>1, <2>2, <1>3 DEF freshIDs
  <2>4. Known \cup {id} = 0..((n + 1) - 1)
    BY <2>3, <1>1
  <2>5. n + 1 \in Nat
    BY <1>1
  <2> QED
    BY <2>1, <2>3, <2>4, <2>5, <1>1
<1> QED
  BY <1>2, <1>3

----------------------------------------------------------------------------
\* Adding an event keeps the numbers apart, whether the buffer takes it or not.
LEMMA AddKeeps ==
    ASSUME IInv, NEW e, add_event_to_buffer(e)
    PROVE  IInv'
<1> USE DEF IInv
<1>1. ASSUME NEW id \in freshIDs,
             m_events' = [i \in DOMAIN m_events \cup {id} |-> IF i = id THEN e ELSE m_events[i]],
             m_oldEventIDs' = m_oldEventIDs \ {id},
             buffer' = Append(buffer, id),
             taken' = taken
      PROVE  IInv'
  <2>1. /\ id \in Nat
        /\ id \notin DOMAIN m_events
        /\ \E n \in Nat : Known \cup {id} = 0..(n - 1)
    BY <1>1, FreshIsUnused
  <2>2. DOMAIN (m_events') = DOMAIN m_events \cup {id}
    BY <1>1
  <2>3. Known' = Known \cup {id}
    BY <2>2, <1>1 DEF Known
  <2>4. NumberTypes'
    BY <2>1, <1>1 DEF NumberTypes
  <2>5. /\ Len(buffer') = Len(buffer) + 1
        /\ \A i \in 1..Len(buffer) : buffer'[i] = buffer[i]
        /\ buffer'[Len(buffer) + 1] = id
        /\ Len(buffer) \in Nat
    BY <2>1, <1>1 DEF NumberTypes
  <2>6. id \notin RangeOf(buffer) /\ id \notin taken
    BY <2>1 DEF NumbersInUse
  <2>7. RangeOf(buffer)' = RangeOf(buffer) \cup {id}
    BY <2>5 DEF RangeOf
  <2>8. \A i, j \in 1..Len(buffer') : i # j => buffer'[i] # buffer'[j]
    BY <2>5, <2>6 DEF NumbersInUse, RangeOf
  <2>9. NumbersInUse'
    BY <2>2, <2>6, <2>7, <2>8, <1>1 DEF NumbersInUse
  <2> QED
    BY <2>1, <2>3, <2>4, <2>9 DEF NoGaps
<1>2. ASSUME NEW id \in freshIDs,
             m_oldEventIDs' = m_oldEventIDs \cup {id},
             UNCHANGED <<m_events, buffer, taken>>
      PROVE  IInv'
  <2>1. /\ id \notin DOMAIN m_events
        /\ \E n \in Nat : Known \cup {id} = 0..(n - 1)
    BY <1>2, FreshIsUnused
  <2>2. Known' = Known \cup {id}
    BY <1>2 DEF Known
  <2>3. NumberTypes' /\ NumbersInUse'
    BY <2>1, <1>2 DEF NumberTypes, NumbersInUse, RangeOf
  <2> QED
    BY <2>1, <2>2, <2>3 DEF NoGaps
<1> QED
  BY <1>1, <1>2 DEF addEvent, add_event_to_buffer

\* The invariant depends on the numbers alone.
LEMMA SameNumbers ==
    ASSUME IInv, UNCHANGED <<m_events, m_oldEventIDs, buffer, taken>>
    PROVE  IInv'
  BY DEF IInv, NumberTypes, NumbersInUse, NoGaps, Known, RangeOf

LEMMA IInvInit == Init => IInv
<1> SUFFICES ASSUME Init PROVE IInv
  OBVIOUS
<1>1. DOMAIN m_events = {} /\ m_oldEventIDs = {} /\ buffer = <<>> /\ taken = {}
  BY DEF Init
<1>2. Known = 0..(0 - 1)
  BY <1>1 DEF Known
<1>3. NoGaps
  BY <1>2 DEF NoGaps
<1>4. RangeOf(buffer) = {}
  BY <1>1 DEF RangeOf
<1> QED
  BY <1>1, <1>3, <1>4 DEF IInv, NumberTypes, NumbersInUse

LEMMA IInvStep == IInv /\ [Next]_vars => IInv'
<1> SUFFICES ASSUME IInv, [Next]_vars PROVE IInv'
  OBVIOUS
<1>1. ASSUME NEW t \in Threads, add_event(t) PROVE IInv'
  BY <1>1, AddKeeps, SameNumbers DEF add_event
<1>2. ASSUME NEW t \in Threads, pushPending(t) PROVE IInv'
  BY <1>2, SameNumbers DEF pushPending
<1>3. CASE set_buffer
  <2>1. DOMAIN (m_events') = {} /\ m_oldEventIDs' = {} /\ buffer' = <<>> /\ taken' = {}
    BY <1>3 DEF set_buffer
  <2>2. Known' = 0..(0 - 1)
    BY <2>1 DEF Known
  <2>3. NoGaps'
    BY <2>2 DEF NoGaps
  <2>4. RangeOf(buffer)' = {}
    BY <2>1 DEF RangeOf
  <2> QED
    BY <2>1, <2>3, <2>4 DEF IInv, NumberTypes, NumbersInUse
<1>4. CASE loopReady
  BY <1>4, SameNumbers DEF loopReady
<1>5. CASE drainPending
  BY <1>5, AddKeeps DEF drainPending
<1>6. CASE startDispatching
  BY <1>6, SameNumbers DEF startDispatching
<1>7. CASE getEvent
  <2>1. /\ taken = {} /\ taken' = {buffer[1]}
        /\ buffer # <<>> /\ buffer' = Tail(buffer)
        /\ UNCHANGED <<m_events, m_oldEventIDs>>
        /\ buffer \in Seq(Nat)
    BY <1>7 DEF getEvent, IInv, NumberTypes
  <2>2. Distinct(buffer)
    BY DEF IInv, NumbersInUse, Distinct
  <2>3. /\ buffer' \in Seq(Nat) /\ buffer[1] \in Nat
        /\ RangeOf(buffer) = RangeOf(buffer') \cup {buffer[1]}
        /\ Distinct(buffer') /\ buffer[1] \notin RangeOf(buffer')
    BY <2>1, <2>2, TailOf
  <2>4. RangeOf(buffer') = RangeOf(buffer)'
    BY DEF RangeOf
  <2>6. NumbersInUse'
    BY <2>1, <2>3, <2>4 DEF IInv, NumbersInUse, Distinct
  <2>7. NumberTypes' /\ NoGaps'
    BY <2>1, <2>3 DEF IInv, NumberTypes, NoGaps, Known
  <2> QED
    BY <2>6, <2>7 DEF IInv
<1>8. CASE dispatchEvent
  <2>1. PICK id \in taken :
          /\ m_events' = [i \in DOMAIN m_events \ {id} |-> m_events[i]]
          /\ m_oldEventIDs' = m_oldEventIDs \cup {id}
          /\ taken' = {} /\ buffer' = buffer
    BY <1>8 DEF dispatchEvent, removeEvent
  <2>2. taken = {id}
    BY <2>1 DEF IInv, NumberTypes
  <2>3. DOMAIN (m_events') = DOMAIN m_events \ {id} /\ id \in DOMAIN m_events
    BY <2>1, <2>2 DEF IInv, NumbersInUse
  <2>4. Known' = Known
    BY <2>1, <2>3 DEF Known
  <2>5. RangeOf(buffer)' = RangeOf(buffer)
    BY <2>1 DEF RangeOf
  <2>6. NumbersInUse'
    BY <2>1, <2>2, <2>3, <2>5 DEF IInv, NumbersInUse
  <2>7. NumberTypes' /\ NoGaps'
    BY <2>1, <2>4 DEF IInv, NumberTypes, NoGaps
  <2> QED
    BY <2>6, <2>7 DEF IInv
<1>9. CASE UNCHANGED vars
  BY <1>9, SameNumbers DEF vars
<1> QED
  BY <1>1, <1>2, <1>3, <1>4, <1>5, <1>6, <1>7, <1>8, <1>9 DEF Next

\* save_event() and removeEvent() keep every queued event under a number of its
\* own, for any number of threads, events, refusals and swapped buffers.
THEOREM EventsKeepTheirNumbers == Spec => []NumbersInUse
<1>1. IInv => NumbersInUse
  BY DEF IInv
<1> QED
  BY <1>1, IInvInit, IInvStep, PTL DEF Spec
----------------------------------------------------------------------------
(***************************************************************************)
(* Types.  NothingVanishes includes them.                                  *)
(***************************************************************************)
Types == TypeOK /\ posting \in [Threads -> Seq(Event)]

\* What add_event_to_buffer(e) comes to: e is queued under a new number, or
\* discarded.
Added(e) ==
    /\ taken' = taken
    /\ \/ /\ \E id \in Nat \ DOMAIN m_events :
                /\ DOMAIN (m_events') = DOMAIN m_events \cup {id}
                /\ m_events'[id] = e
                /\ \A i \in DOMAIN m_events : m_events'[i] = m_events[i]
                /\ buffer' = Append(buffer, id)
          /\ discarded' = discarded
       \/ /\ UNCHANGED <<m_events, buffer>>
          /\ discarded' = discarded \cup {e}

LEMMA AddedEvent ==
    ASSUME Types, IInv, NEW e \in Event, add_event_to_buffer(e)
    PROVE  Added(e) /\ m_oldEventIDs' \subseteq Nat
<1>1. m_oldEventIDs \subseteq Nat
  BY DEF Types, TypeOK
<1>2. ASSUME NEW id \in freshIDs,
             m_events' = [i \in DOMAIN m_events \cup {id} |-> IF i = id THEN e ELSE m_events[i]],
             m_oldEventIDs' = m_oldEventIDs \ {id},
             addEvent(id), UNCHANGED <<taken, discarded>>
      PROVE  Added(e) /\ m_oldEventIDs' \subseteq Nat
  <2>1. id \in Nat \ DOMAIN m_events
    BY <1>2, FreshIsUnused
  <2>2. /\ DOMAIN (m_events') = DOMAIN m_events \cup {id}
        /\ m_events'[id] = e
        /\ \A i \in DOMAIN m_events : m_events'[i] = m_events[i]
    BY <1>2, <2>1
  <2> QED BY <1>1, <1>2, <2>1, <2>2 DEF Added, addEvent
<1>3. ASSUME NEW id \in freshIDs, m_oldEventIDs' = m_oldEventIDs \cup {id},
             discarded' = discarded \cup {e}, UNCHANGED <<m_events, buffer, taken>>
      PROVE  Added(e) /\ m_oldEventIDs' \subseteq Nat
  <2>1. id \in Nat
    BY <1>3, FreshIsUnused
  <2> QED BY <1>1, <1>3, <2>1 DEF Added
<1> QED BY <1>2, <1>3 DEF add_event_to_buffer

LEMMA TypesStep ==
    ASSUME Types, IInv, [Next]_vars
    PROVE  Types'
<1> USE EventQueueAssumption DEF Types, TypeOK
<1>a. ASSUME NEW e \in Event, Added(e), m_oldEventIDs' \subseteq Nat
      PROVE  /\ DOMAIN (m_events') \subseteq Nat
             /\ \A id \in DOMAIN (m_events') : m_events'[id] \in Event
             /\ m_oldEventIDs' \subseteq Nat
             /\ buffer' \in Seq(Nat)
             /\ taken' \subseteq Nat
             /\ discarded' \subseteq Event
  <2>1. ASSUME NEW id \in Nat \ DOMAIN m_events, DOMAIN (m_events') = DOMAIN m_events \cup {id},
               m_events'[id] = e, \A i \in DOMAIN m_events : m_events'[i] = m_events[i],
               buffer' = Append(buffer, id)
        PROVE  /\ DOMAIN (m_events') \subseteq Nat
               /\ \A i \in DOMAIN (m_events') : m_events'[i] \in Event
               /\ buffer' \in Seq(Nat)
    BY <2>1
  <2> QED BY <1>a, <2>1 DEF Added
<1>b. ASSUME NEW t \in Threads, NEW s \in Seq(Event), Len(s) <= 1, posting' = [posting EXCEPT ![t] = s]
      PROVE  /\ posting' \in [Threads -> Seq(Event)]
             /\ \A u \in Threads : posting'[u] \in Seq(Event) /\ Len(posting'[u]) <= 1
  BY <1>b
<1>1. ASSUME NEW t \in Threads, add_event(t) PROVE Types'
  <2> DEFINE e == <<t, posted[t] + 1>>
  <2>1. posted[t] + 1 \in 1..MaxEvents /\ e \in Event
    BY <1>1 DEF add_event, Event
  <2>2. posted' \in [Threads -> 0..MaxEvents]
    BY <1>1, <2>1 DEF add_event
  <2>3. CASE is_ready_
    <3>1. Added(e) /\ m_oldEventIDs' \subseteq Nat /\ posting' = posting
      BY <1>1, <2>1, <2>3, AddedEvent DEF add_event
    <3> QED BY <1>1, <1>a, <2>1, <2>2, <3>1 DEF add_event
  <2>4. CASE ~is_ready_
    <3>1. posting' = [posting EXCEPT ![t] = <<e>>] /\ <<e>> \in Seq(Event) /\ Len(<<e>>) <= 1
      BY <1>1, <2>1, <2>4 DEF add_event
    <3>2. /\ posting' \in [Threads -> Seq(Event)]
          /\ \A u \in Threads : posting'[u] \in Seq(Event) /\ Len(posting'[u]) <= 1
      BY <1>b, <3>1
    <3> QED BY <1>1, <2>2, <2>4, <3>2 DEF add_event
  <2> QED BY <2>3, <2>4
<1>2. ASSUME NEW t \in Threads, pushPending(t) PROVE Types'
  <2>1. <<>> \in Seq(Event) /\ Len(<<>>) <= 1
    OBVIOUS
  <2>2. /\ posting' \in [Threads -> Seq(Event)]
        /\ \A u \in Threads : posting'[u] \in Seq(Event) /\ Len(posting'[u]) <= 1
    BY <1>2, <1>b, <2>1 DEF pushPending
  <2>3. m_pending' \in Seq(Event)
    BY <1>2 DEF pushPending
  <2> QED BY <1>2, <2>2, <2>3 DEF pushPending, history
<1>3. CASE set_buffer
  BY <1>3 DEF set_buffer, loopVars
<1>4. CASE loopReady
  BY <1>4 DEF loopReady, history
<1>5. CASE drainPending
  <2>1. Head(m_pending) \in Event /\ Tail(m_pending) \in Seq(Event)
    BY <1>5 DEF drainPending
  <2>2. Added(Head(m_pending)) /\ m_oldEventIDs' \subseteq Nat
    BY <1>5, <2>1, AddedEvent DEF drainPending
  <2> QED BY <1>5, <1>a, <2>1, <2>2 DEF drainPending
<1>6. CASE startDispatching
  BY <1>6 DEF startDispatching, history
<1>7. CASE getEvent
  <2>1. Head(buffer) \in Nat /\ Tail(buffer) \in Seq(Nat)
    BY <1>7 DEF getEvent
  <2> QED BY <1>7, <2>1 DEF getEvent, loopVars, history
<1>8. CASE dispatchEvent
  <2>1. PICK id \in taken :
          /\ m_events' = [i \in DOMAIN m_events \ {id} |-> m_events[i]]
          /\ m_oldEventIDs' = m_oldEventIDs \cup {id}
          /\ handled' = [handled EXCEPT ![m_events[id][1]] = Append(@, m_events[id][2])]
    BY <1>8 DEF dispatchEvent, removeEvent
  <2>2. id \in DOMAIN m_events
    BY <2>1 DEF IInv, NumbersInUse
  <2>3. m_events[id][1] \in Threads /\ m_events[id][2] \in 1..MaxEvents
    BY <2>2 DEF Event
  <2>4. handled' \in [Threads -> Seq(1..MaxEvents)]
    BY <2>1, <2>3
  <2> QED BY <1>8, <2>1, <2>4 DEF dispatchEvent, loopVars
<1>9. CASE UNCHANGED vars
  BY <1>9 DEF vars
<1> QED BY <1>1, <1>2, <1>3, <1>4, <1>5, <1>6, <1>7, <1>8, <1>9 DEF Next
----------------------------------------------------------------------------
(***************************************************************************)
(* Where an event is.  Nothing vanishes and nothing is dispatched twice    *)
(* because every event that was posted is in one place: with the thread    *)
(* that found the loop not ready, in m_pending, queued under a number,     *)
(* dispatched or discarded.  Places states it; that the places do not      *)
(* overlap is what keeps a second copy from being made.                    *)
(***************************************************************************)
Posting == {e \in Event : e \in RangeOf(posting[e[1]])}
Queued == {m_events[id] : id \in DOMAIN m_events}
Dispatched == {e \in Event : e[2] \in RangeOf(handled[e[1]])}
Posted == {e \in Event : e[2] <= posted[e[1]]}

Places ==
    /\ \A t \in Threads : \A e \in RangeOf(posting[t]) : e[1] = t
    /\ Distinct(m_pending)
    /\ \A i, j \in DOMAIN m_events : i # j => m_events[i] # m_events[j]
    /\ \A t \in Threads : Distinct(handled[t])
    /\ Posting \cap (RangeOf(m_pending) \cup Queued \cup Dispatched) = {}
    /\ RangeOf(m_pending) \cap (Queued \cup Dispatched) = {}
    /\ Queued \cap Dispatched = {}
    /\ Posting \cup RangeOf(m_pending) \cup Queued \cup Dispatched \subseteq Posted
    /\ Posted \subseteq Posting \cup RangeOf(m_pending) \cup Queued \cup Dispatched \cup discarded

\* A new event is queued or discarded.
LEMMA AddedPlaces ==
    ASSUME Types, NEW e \in Event, Added(e), e \notin Queued,
           \A i, j \in DOMAIN m_events : i # j => m_events[i] # m_events[j]
    PROVE  /\ \/ Queued' = Queued \cup {e} /\ discarded' = discarded
              \/ Queued' = Queued /\ discarded' = discarded \cup {e}
           /\ \A i, j \in DOMAIN (m_events') : i # j => m_events'[i] # m_events'[j]
<1>1. ASSUME NEW id \in Nat \ DOMAIN m_events, DOMAIN (m_events') = DOMAIN m_events \cup {id},
             m_events'[id] = e, \A i \in DOMAIN m_events : m_events'[i] = m_events[i]
      PROVE  /\ Queued' = Queued \cup {e}
             /\ \A i, j \in DOMAIN (m_events') : i # j => m_events'[i] # m_events'[j]
  <2>1. Queued' = Queued \cup {e}
    BY <1>1 DEF Queued
  <2>2. \A i \in DOMAIN m_events : m_events[i] # e
    BY DEF Queued
  <2> QED BY <1>1, <2>1, <2>2
<1>2. ASSUME UNCHANGED m_events
      PROVE  /\ Queued' = Queued
             /\ \A i, j \in DOMAIN (m_events') : i # j => m_events'[i] # m_events'[j]
  BY <1>2 DEF Queued
<1> QED BY <1>1, <1>2 DEF Added

LEMMA PlacesInit == ASSUME Init PROVE Types /\ Places
<1> USE EventQueueAssumption
<1>1. Types
  <2>1. DOMAIN m_events = {} /\ m_oldEventIDs = {} /\ taken = {} /\ discarded = {}
    BY DEF Init
  <2>4. buffer \in Seq(Nat) /\ m_pending \in Seq(Event)
    BY DEF Init
  <2>5. is_ready_ \in BOOLEAN /\ loop \in {"start", "drain", "run"}
    BY DEF Init
  <2>2. posting \in [Threads -> Seq(Event)] /\ \A t \in Threads : Len(posting[t]) <= 1
    BY DEF Init
  <2>3. posted \in [Threads -> 0..MaxEvents] /\ handled \in [Threads -> Seq(1..MaxEvents)]
    BY DEF Init
  <2> QED BY <2>1, <2>2, <2>3, <2>4, <2>5 DEF Types, TypeOK
<1>2. \A t \in Threads : RangeOf(posting[t]) = {} /\ RangeOf(handled[t]) = {} /\ Distinct(handled[t])
  BY DEF Init, RangeOf, Distinct
<1>3. RangeOf(m_pending) = {} /\ Distinct(m_pending)
  BY DEF Init, RangeOf, Distinct
<1>4. Queued = {} /\ DOMAIN m_events = {}
  BY DEF Init, Queued
<1>5. Posting = {} /\ Dispatched = {}
  BY <1>2 DEF Posting, Dispatched, Event
<1>6. Posted = {}
  <2>1. \A e \in Event : posted[e[1]] = 0 /\ e[2] \in 1..MaxEvents
    BY DEF Init, Event
  <2> QED BY <2>1 DEF Posted
<1> QED BY <1>1, <1>2, <1>3, <1>4, <1>5, <1>6 DEF Places

LEMMA PlacesStep ==
    ASSUME Types, Types', IInv, Places, [Next]_vars
    PROVE  Places'
<1> USE EventQueueAssumption
<1>a. ASSUME UNCHANGED posting
      PROVE  Posting' = Posting /\ \A t \in Threads : \A e \in RangeOf(posting'[t]) : e[1] = t
  BY <1>a DEF Posting, Places, RangeOf
<1>b. ASSUME UNCHANGED handled
      PROVE  Dispatched' = Dispatched /\ \A t \in Threads : Distinct(handled'[t])
  BY <1>b DEF Dispatched, Places, Distinct, RangeOf
<1>c. ASSUME UNCHANGED m_pending
      PROVE  RangeOf(m_pending') = RangeOf(m_pending) /\ Distinct(m_pending')
  BY <1>c DEF Places, Distinct, RangeOf
<1>d. ASSUME UNCHANGED m_events
      PROVE  /\ Queued' = Queued
             /\ \A i, j \in DOMAIN (m_events') : i # j => m_events'[i] # m_events'[j]
  BY <1>d DEF Queued, Places
<1>e. ASSUME UNCHANGED posted PROVE Posted' = Posted
  BY <1>e DEF Posted
\* What is left to show is about sets.
<1>f. Places' <=>
        /\ \A t \in Threads : \A e \in RangeOf(posting'[t]) : e[1] = t
        /\ Distinct(m_pending')
        /\ \A i, j \in DOMAIN (m_events') : i # j => m_events'[i] # m_events'[j]
        /\ \A t \in Threads : Distinct(handled'[t])
        /\ Posting' \cap (RangeOf(m_pending') \cup Queued' \cup Dispatched') = {}
        /\ RangeOf(m_pending') \cap (Queued' \cup Dispatched') = {}
        /\ Queued' \cap Dispatched' = {}
        /\ Posting' \cup RangeOf(m_pending') \cup Queued' \cup Dispatched' \subseteq Posted'
        /\ Posted' \subseteq Posting' \cup RangeOf(m_pending') \cup Queued' \cup Dispatched'
                            \cup discarded'
  BY DEF Places, RangeOf, Distinct
<1>g. /\ \A t \in Threads : \A e \in RangeOf(posting[t]) : e[1] = t
      /\ Distinct(m_pending)
      /\ \A i, j \in DOMAIN m_events : i # j => m_events[i] # m_events[j]
      /\ \A t \in Threads : Distinct(handled[t])
      /\ Posting \cap (RangeOf(m_pending) \cup Queued \cup Dispatched) = {}
      /\ RangeOf(m_pending) \cap (Queued \cup Dispatched) = {}
      /\ Queued \cap Dispatched = {}
      /\ Posting \cup RangeOf(m_pending) \cup Queued \cup Dispatched \subseteq Posted
      /\ Posted \subseteq Posting \cup RangeOf(m_pending) \cup Queued \cup Dispatched \cup discarded
  BY DEF Places
<1>1. ASSUME NEW t \in Threads, add_event(t) PROVE Places'
  <2> DEFINE e == <<t, posted[t] + 1>>
  <2>1. posted[t] + 1 \in 1..MaxEvents /\ e \in Event /\ e[1] = t /\ e[2] = posted[t] + 1
    BY <1>1 DEF add_event, Event, Types, TypeOK
  <2>2. Posted' = Posted \cup {e} /\ e \notin Posted
    <3>1. posted' = [posted EXCEPT ![t] = @ + 1] /\ posted \in [Threads -> 0..MaxEvents]
      BY <1>1 DEF add_event, Types, TypeOK
    <3>2. \A f \in Event : f[1] \in Threads /\ f[2] \in 1..MaxEvents /\ f = <<f[1], f[2]>>
      BY DEF Event
    <3>3. e \notin Posted
      BY <2>1, <3>1 DEF Posted
    <3>4. ASSUME NEW f \in Event PROVE f[2] <= posted'[f[1]] <=> f[2] <= posted[f[1]] \/ f = e
      <4>1. CASE f[1] = t
        BY <2>1, <3>1, <3>2, <4>1
      <4>2. CASE f[1] # t
        BY <2>1, <3>1, <3>2, <4>2
      <4> QED BY <4>1, <4>2
    <3> QED BY <2>1, <3>3, <3>4 DEF Posted
  <2>3. UNCHANGED <<m_pending, handled>>
    BY <1>1 DEF add_event
  <2>4. CASE is_ready_
    <3>1. Added(e) /\ posting' = posting
      BY <1>1, <2>1, <2>4, AddedEvent DEF add_event
    <3>2. e \notin Queued
      BY <1>g, <2>2
    <3>3. /\ \/ Queued' = Queued \cup {e} /\ discarded' = discarded
             \/ Queued' = Queued /\ discarded' = discarded \cup {e}
          /\ \A i, j \in DOMAIN (m_events') : i # j => m_events'[i] # m_events'[j]
      BY <1>g, <2>1, <3>1, <3>2, AddedPlaces
    <3> QED BY <1>a, <1>b, <1>c, <1>f, <1>g, <2>2, <2>3, <3>1, <3>3
  <2>5. CASE ~is_ready_
    <3>1. posting' = [posting EXCEPT ![t] = <<e>>] /\ UNCHANGED <<m_events, discarded>> /\ posting[t] = <<>>
      BY <1>1, <2>5 DEF add_event
    <3>2. \A u \in Threads : RangeOf(posting'[u]) = IF u = t THEN {e} ELSE RangeOf(posting[u])
      <4>1. \A u \in Threads : posting'[u] = IF u = t THEN <<e>> ELSE posting[u]
        BY <3>1 DEF Types
      <4>2. RangeOf(<<e>>) = {e}
        BY DEF RangeOf
      <4> QED BY <4>1, <4>2
    <3>3. RangeOf(posting[t]) = {}
      BY <3>1 DEF RangeOf
    <3>4. Posting' = Posting \cup {e}
      BY <2>1, <3>2, <3>3 DEF Posting, Event
    <3>5. \A u \in Threads : \A f \in RangeOf(posting'[u]) : f[1] = u
      BY <1>g, <2>1, <3>2
    <3> QED BY <1>b, <1>c, <1>d, <1>f, <1>g, <2>2, <2>3, <3>1, <3>4, <3>5
  <2> QED BY <2>4, <2>5
<1>2. ASSUME NEW t \in Threads, pushPending(t) PROVE Places'
  <2>1. PICK e \in Event : posting[t] = <<e>>
    BY <1>2 DEF pushPending, Types, TypeOK
  <2>2. RangeOf(posting[t]) = {e} /\ e[1] = t /\ e \in Posting
    BY <1>g, <2>1 DEF RangeOf, Posting
  <2>3. m_pending' = Append(m_pending, e)
    BY <1>2, <2>1 DEF pushPending, Types, TypeOK
  <2>4. RangeOf(m_pending') = RangeOf(m_pending) \cup {e} /\ Distinct(m_pending')
    <3>1. m_pending \in Seq(Event) /\ e \notin RangeOf(m_pending)
      BY <1>g, <2>2 DEF Types, TypeOK
    <3> QED BY <1>g, <2>3, <3>1, AppendOf
  <2>5. \A u \in Threads : RangeOf(posting'[u]) = IF u = t THEN {} ELSE RangeOf(posting[u])
    <3>1. \A u \in Threads : posting'[u] = IF u = t THEN <<>> ELSE posting[u]
      BY <1>2 DEF pushPending, Types
    <3>2. RangeOf(<<>>) = {}
      BY DEF RangeOf
    <3> QED BY <3>1, <3>2
  <2>6. Posting' = Posting \ {e}
    BY <2>2, <2>5 DEF Posting, Event
  <2>7. UNCHANGED <<m_events, handled, posted, discarded>>
    BY <1>2 DEF pushPending, history
  <2>8. \A u \in Threads : \A f \in RangeOf(posting'[u]) : f[1] = u
    BY <1>g, <2>5
  <2> QED BY <1>b, <1>d, <1>e, <1>f, <1>g, <2>2, <2>4, <2>6, <2>7, <2>8
<1>3. CASE set_buffer
  <2>1. DOMAIN (m_events') = {} /\ discarded' = discarded \cup Queued
        /\ UNCHANGED <<posting, m_pending, handled, posted>>
    BY <1>3 DEF set_buffer, loopVars, Queued
  <2>2. Queued' = {}
    BY <2>1 DEF Queued
  <2> QED BY <1>a, <1>b, <1>c, <1>e, <1>f, <1>g, <2>1, <2>2
<1>h. ASSUME UNCHANGED <<posting, m_pending, handled, posted, m_events, discarded>> PROVE Places'
  BY <1>a, <1>b, <1>c, <1>d, <1>e, <1>f, <1>g, <1>h
<1>4. CASE loopReady
  BY <1>4, <1>h DEF loopReady, history
<1>5. CASE drainPending
  <2> DEFINE e == Head(m_pending)
  <2>1. /\ m_pending \in Seq(Event) /\ m_pending # <<>> /\ m_pending' = Tail(m_pending)
        /\ add_event_to_buffer(e) /\ UNCHANGED <<posting, posted, handled>>
    BY <1>5 DEF drainPending, Types, TypeOK
  <2>2. /\ e \in Event
        /\ RangeOf(m_pending) = RangeOf(m_pending') \cup {e} /\ e \notin RangeOf(m_pending')
        /\ Distinct(m_pending')
    BY <1>g, <2>1, TailOf
  <2>3. Added(e)
    BY <2>1, <2>2, AddedEvent
  <2>4. e \notin Queued
    BY <1>g, <2>2
  <2>5. /\ \/ Queued' = Queued \cup {e} /\ discarded' = discarded
           \/ Queued' = Queued /\ discarded' = discarded \cup {e}
        /\ \A i, j \in DOMAIN (m_events') : i # j => m_events'[i] # m_events'[j]
    BY <1>g, <2>2, <2>3, <2>4, AddedPlaces
  <2> HIDE DEF e
  <2> QED BY <1>a, <1>b, <1>e, <1>f, <1>g, <2>1, <2>2, <2>5
<1>6. CASE startDispatching
  BY <1>6, <1>h DEF startDispatching, history
<1>7. CASE getEvent
  BY <1>7, <1>h DEF getEvent, loopVars, history
<1>8. CASE dispatchEvent
  <2>1. PICK id \in taken :
          /\ m_events' = [i \in DOMAIN m_events \ {id} |-> m_events[i]]
          /\ handled' = [handled EXCEPT ![m_events[id][1]] = Append(@, m_events[id][2])]
    BY <1>8 DEF dispatchEvent, removeEvent
  <2> DEFINE e == m_events[id]
  <2>2. id \in DOMAIN m_events
    BY <2>1 DEF IInv, NumbersInUse
  <2>3. e \in Event /\ e[1] \in Threads /\ e[2] \in 1..MaxEvents /\ e = <<e[1], e[2]>> /\ e \in Queued
    BY <2>2 DEF Event, Types, TypeOK, Queued
  <2>4. UNCHANGED <<posting, m_pending, posted, discarded>>
    BY <1>8 DEF dispatchEvent, loopVars
  <2>5. /\ DOMAIN (m_events') = DOMAIN m_events \ {id}
        /\ \A i \in DOMAIN (m_events') : m_events'[i] = m_events[i]
    BY <2>1
  <2>6. Queued' = Queued \ {e}
    BY <1>g, <2>2, <2>5 DEF Queued
  <2>7. e \notin Dispatched
    BY <1>g, <2>3
  <2>8. /\ \A u \in Threads : u # e[1] => handled'[u] = handled[u]
        /\ handled'[e[1]] = Append(handled[e[1]], e[2])
        /\ handled[e[1]] \in Seq(1..MaxEvents)
    BY <2>1, <2>3 DEF Types, TypeOK
  <2>9. e[2] \notin RangeOf(handled[e[1]])
    BY <2>3, <2>7 DEF Dispatched
  <2>10. RangeOf(handled'[e[1]]) = RangeOf(handled[e[1]]) \cup {e[2]} /\ Distinct(handled'[e[1]])
    BY <1>g, <2>3, <2>8, <2>9, AppendOf
  <2>11. \A u \in Threads : Distinct(handled'[u])
    BY <1>g, <2>8, <2>10
  <2>12. Dispatched' = Dispatched \cup {e}
    <3>1. ASSUME NEW f \in Event
          PROVE  f[2] \in RangeOf(handled'[f[1]]) <=> f[2] \in RangeOf(handled[f[1]]) \/ f = e
      <4>1. f[1] \in Threads /\ f = <<f[1], f[2]>>
        BY DEF Event
      <4>2. CASE f[1] = e[1]
        BY <2>3, <2>10, <4>1, <4>2
      <4>3. CASE f[1] # e[1]
        BY <2>8, <4>1, <4>3
      <4> QED BY <4>2, <4>3
    <3> QED BY <2>3, <3>1 DEF Dispatched
  <2>13. \A i, j \in DOMAIN (m_events') : i # j => m_events'[i] # m_events'[j]
    BY <1>g, <2>5
  <2> HIDE DEF e
  <2> QED BY <1>a, <1>c, <1>e, <1>f, <1>g, <2>3, <2>4, <2>6, <2>11, <2>12, <2>13
<1>9. CASE UNCHANGED vars
  BY <1>9, <1>h DEF vars
<1> QED BY <1>1, <1>2, <1>3, <1>4, <1>5, <1>6, <1>7, <1>8, <1>9 DEF Next

\* No event that add_event() was called with is dispatched twice, and none vanishes
\* between is_ready_, m_pending, the buffer and m_events, for any number of threads,
\* early events, refusals and swapped buffers.
THEOREM EventsAreAccountedFor == Spec => []NothingVanishes
<1>1. Init => IInv /\ Types /\ Places
  BY IInvInit, PlacesInit
<1>2. IInv /\ Types /\ Places /\ [Next]_vars => IInv' /\ Types' /\ Places'
  BY IInvStep, TypesStep, PlacesStep
<1>3. Types /\ Places => NothingVanishes
  <2> SUFFICES ASSUME Types, Places PROVE NothingVanishes
    OBVIOUS
  <2>1. ASSUME NEW t \in Threads, NEW n \in 1..posted[t]
        PROVE  \/ <<t, n>> \in RangeOf(posting[t]) \cup RangeOf(m_pending) \cup discarded
               \/ \E id \in DOMAIN m_events : m_events[id] = <<t, n>>
               \/ n \in RangeOf(handled[t])
    <3>1. <<t, n>> \in Posted
      BY EventQueueAssumption DEF Posted, Event, Types, TypeOK
    <3> QED BY <3>1 DEF Places, Posting, Queued, Dispatched
  <2> QED BY <2>1 DEF NothingVanishes, Types, Places, Distinct
<1> QED BY <1>1, <1>2, <1>3, PTL DEF Spec

----------------------------------------------------------------------------
(***************************************************************************)
(* The events of a thread that posts only to a loop that is ready.         *)
(***************************************************************************)
\* Event e is one of thread t, and its number is smaller than that of f.
Before(t, e, f) == e[1] = t /\ f[1] = t => e[2] < f[2]

InLine(t) ==
    /\ Ordered(t)
    /\ \A i, j \in 1..Len(buffer) : i < j => Before(t, m_events[buffer[i]], m_events[buffer[j]])
    /\ \A id \in taken, j \in 1..Len(buffer) : Before(t, m_events[id], m_events[buffer[j]])
    /\ \A k \in 1..Len(handled[t]), id \in DOMAIN m_events :
          Before(t, <<t, handled[t][k]>>, m_events[id])

LateInLine ==
    /\ \A t \in Threads \ Early : posting[t] = <<>>
    /\ \A e \in RangeOf(m_pending) : e[1] \in Early
    /\ \A t \in Threads \ Early : InLine(t)

\* An event of thread t that is newer than all others of it goes to the end of the
\* line; events of other threads are not in the line.
LEMMA AddedInLine ==
    ASSUME Types, IInv, NEW t \in Threads, InLine(t), NEW e \in Event, Added(e), handled' = handled,
           e[1] = t => /\ \A f \in Queued : f[1] = t => f[2] < e[2]
                       /\ \A k \in 1..Len(handled[t]) : handled[t][k] < e[2]
    PROVE  InLine(t)'
<1>1. CASE UNCHANGED <<m_events, buffer>>
  BY <1>1 DEF Added, InLine, Ordered, Before
<1>2. ASSUME NEW id \in Nat \ DOMAIN m_events, DOMAIN (m_events') = DOMAIN m_events \cup {id},
             m_events'[id] = e, \A i \in DOMAIN m_events : m_events'[i] = m_events[i],
             buffer' = Append(buffer, id)
      PROVE  InLine(t)'
  <2>1. /\ Len(buffer') = Len(buffer) + 1 /\ Len(buffer) \in Nat
        /\ \A i \in 1..Len(buffer) : buffer'[i] = buffer[i]
        /\ buffer'[Len(buffer) + 1] = id
    BY <1>2 DEF Types, TypeOK
  <2>2. /\ \A i \in 1..Len(buffer) : buffer[i] \in DOMAIN m_events
        /\ taken \subseteq DOMAIN m_events
    BY DEF IInv, NumbersInUse, RangeOf
  <2>3. \A i \in 1..Len(buffer) : m_events'[buffer'[i]] = m_events[buffer[i]]
    BY <1>2, <2>1, <2>2
  <2>4. \A i \in DOMAIN m_events : Before(t, m_events[i], e)
    BY DEF Before, Queued
  <2>5. ASSUME NEW i \in 1..Len(buffer'), NEW j \in 1..Len(buffer'), i < j
        PROVE  Before(t, m_events'[buffer'[i]], m_events'[buffer'[j]])
    <3>1. i \in 1..Len(buffer)
      BY <2>1, <2>5
    <3>2. CASE j \in 1..Len(buffer)
      BY <2>3, <2>5, <3>1, <3>2 DEF InLine
    <3>3. CASE j = Len(buffer) + 1
      BY <1>2, <2>1, <2>2, <2>3, <2>4, <3>1, <3>3
    <3> QED BY <2>1, <3>2, <3>3
  <2>6. ASSUME NEW i \in taken', NEW j \in 1..Len(buffer')
        PROVE  Before(t, m_events'[i], m_events'[buffer'[j]])
    <3>1. i \in taken /\ i \in DOMAIN m_events /\ m_events'[i] = m_events[i]
      BY <1>2, <2>2, <2>6 DEF Added
    <3>2. CASE j \in 1..Len(buffer)
      BY <2>3, <3>1, <3>2 DEF InLine
    <3>3. CASE j = Len(buffer) + 1
      BY <1>2, <2>1, <2>4, <3>1, <3>3
    <3> QED BY <2>1, <3>2, <3>3
  <2>7. ASSUME NEW k \in 1..Len(handled'[t]), NEW i \in DOMAIN (m_events')
        PROVE  Before(t, <<t, handled'[t][k]>>, m_events'[i])
    <3>1. CASE i \in DOMAIN m_events
      BY <1>2, <2>7, <3>1 DEF InLine
    <3>2. CASE i = id
      BY <1>2, <2>7, <3>2 DEF Before
    <3> QED BY <1>2, <3>1, <3>2
  <2>8. Ordered(t)'
    BY DEF InLine, Ordered
  <2> QED BY <2>5, <2>6, <2>7, <2>8 DEF InLine
<1> QED BY <1>1, <1>2 DEF Added

LEMMA LateStep ==
    ASSUME Types, IInv, Places, LateInLine, [Next]_vars
    PROVE  LateInLine'
<1> USE EventQueueAssumption
<1>a. ASSUME UNCHANGED <<posting, m_pending>>
      PROVE  /\ \A t \in Threads \ Early : posting'[t] = <<>>
             /\ \A e \in RangeOf(m_pending') : e[1] \in Early
  BY <1>a DEF LateInLine
<1>b. ASSUME UNCHANGED <<m_events, buffer, taken, handled>>, NEW t \in Threads \ Early
      PROVE  InLine(t)'
  BY <1>b DEF LateInLine, InLine, Ordered, Before
<1>1. ASSUME NEW t \in Threads, add_event(t) PROVE LateInLine'
  <2> DEFINE e == <<t, posted[t] + 1>>
  <2>1. posted[t] + 1 \in 1..MaxEvents /\ e \in Event /\ e[1] = t /\ e[2] = posted[t] + 1
    BY <1>1 DEF add_event, Event, Types, TypeOK
  <2>2. UNCHANGED <<m_pending, handled>>
    BY <1>1 DEF add_event
  <2>3. CASE is_ready_
    <3>1. Added(e) /\ posting' = posting
      BY <1>1, <2>1, <2>3, AddedEvent DEF add_event
    <3>2. ASSUME NEW f \in Queued, f[1] = t PROVE f[2] < e[2]
      <4>1. f \in Posted
        BY <3>2 DEF Places
      <4> QED BY <2>1, <3>2, <4>1 DEF Posted, Types, TypeOK, Event
    <3>3. ASSUME NEW k \in 1..Len(handled[t]) PROVE handled[t][k] < e[2]
      <4>1. handled[t][k] \in 1..MaxEvents /\ handled[t][k] \in RangeOf(handled[t])
        BY <3>3 DEF Types, TypeOK, RangeOf
      <4>2. <<t, handled[t][k]>> \in Dispatched
        BY <4>1 DEF Dispatched, Event
      <4>3. <<t, handled[t][k]>> \in Posted
        BY <4>2 DEF Places
      <4> QED BY <2>1, <4>1, <4>3 DEF Posted, Types, TypeOK
    <3>4. ASSUME NEW u \in Threads \ Early PROVE InLine(u)'
      <4>1. InLine(u)
        BY DEF LateInLine
      <4>2. e[1] = u => /\ \A f \in Queued : f[1] = u => f[2] < e[2]
                        /\ \A k \in 1..Len(handled[u]) : handled[u][k] < e[2]
        BY <2>1, <3>2, <3>3
      <4> HIDE DEF e
      <4> QED BY <2>1, <2>2, <3>1, <4>1, <4>2, AddedInLine
    <3> QED BY <1>a, <2>2, <3>1, <3>4 DEF LateInLine
  <2>4. CASE ~is_ready_
    <3>1. t \in Early /\ posting' = [posting EXCEPT ![t] = <<e>>]
          /\ UNCHANGED <<m_events, buffer, taken>>
      BY <1>1, <2>4 DEF add_event
    <3>2. \A u \in Threads \ Early : posting'[u] = <<>>
      BY <3>1 DEF LateInLine, Types
    <3> QED BY <1>b, <2>2, <3>1, <3>2 DEF LateInLine
  <2> QED BY <2>3, <2>4
<1>2. ASSUME NEW t \in Threads, pushPending(t) PROVE LateInLine'
  <2>1. PICK e \in Event : posting[t] = <<e>>
    BY <1>2 DEF pushPending, Types, TypeOK
  <2>2. RangeOf(posting[t]) = {e} /\ e[1] = t
    BY <2>1 DEF RangeOf, Places
  <2>3. e[1] \in Early
    BY <2>1, <2>2 DEF LateInLine
  <2>4. m_pending' = Append(m_pending, e) /\ m_pending \in Seq(Event)
    BY <1>2, <2>1 DEF pushPending, Types, TypeOK
  <2>5. RangeOf(m_pending') = RangeOf(m_pending) \cup {e}
    BY <2>4, AppendOf
  <2>6. \A u \in Threads \ Early : posting'[u] = <<>>
    BY <1>2 DEF pushPending, LateInLine, Types
  <2>7. \A f \in RangeOf(m_pending') : f[1] \in Early
    BY <2>3, <2>5 DEF LateInLine
  <2> QED BY <1>2, <1>b, <2>6, <2>7 DEF pushPending, history, LateInLine
<1>3. CASE set_buffer
  <2>1. /\ DOMAIN (m_events') = {} /\ Len(buffer') = 0 /\ taken' = {}
        /\ UNCHANGED <<posting, m_pending, handled>>
    BY <1>3 DEF set_buffer, loopVars
  <2>2. \A t \in Threads \ Early : InLine(t)'
    BY <2>1 DEF InLine, LateInLine, Ordered
  <2> QED BY <1>a, <2>1, <2>2 DEF LateInLine
<1>c. ASSUME UNCHANGED <<posting, m_pending, m_events, buffer, taken, handled>> PROVE LateInLine'
  BY <1>a, <1>b, <1>c DEF LateInLine
<1>4. CASE loopReady
  BY <1>4, <1>c DEF loopReady, history
<1>5. CASE drainPending
  <2> DEFINE e == Head(m_pending)
  <2>1. /\ m_pending \in Seq(Event) /\ m_pending # <<>> /\ m_pending' = Tail(m_pending)
        /\ add_event_to_buffer(e) /\ UNCHANGED <<posting, handled>>
    BY <1>5 DEF drainPending, Types, TypeOK
  <2>2. e \in Event /\ RangeOf(m_pending) = RangeOf(m_pending') \cup {e}
    BY <2>1, TailOf
  <2>3. Added(e)
    BY <2>1, <2>2, AddedEvent
  <2>4. e[1] \in Early /\ \A f \in RangeOf(m_pending') : f[1] \in Early
    BY <2>2 DEF LateInLine
  <2> HIDE DEF e
  <2>5. \A t \in Threads \ Early : InLine(t)'
    BY <2>1, <2>2, <2>3, <2>4, AddedInLine DEF LateInLine
  <2>6. \A t \in Threads \ Early : posting'[t] = <<>>
    BY <2>1 DEF LateInLine
  <2> QED BY <2>4, <2>5, <2>6 DEF LateInLine
<1>6. CASE startDispatching
  BY <1>6, <1>c DEF startDispatching, history
<1>7. CASE getEvent
  <2>1. /\ taken = {} /\ taken' = {buffer[1]} /\ buffer # <<>> /\ buffer' = Tail(buffer)
        /\ buffer \in Seq(Nat)
        /\ UNCHANGED <<m_events, handled, posting, m_pending>>
    BY <1>7 DEF getEvent, Types, TypeOK, loopVars, history
  <2>2. /\ Len(buffer) \in Nat \ {0} /\ Len(buffer') = Len(buffer) - 1
        /\ \A i \in 1..Len(buffer') : buffer'[i] = buffer[i + 1] /\ i + 1 \in 1..Len(buffer)
    BY <2>1, TailOf
  <2>3. ASSUME NEW t \in Threads \ Early PROVE InLine(t)'
    <3>1. InLine(t)
      BY DEF LateInLine
    <3>2. ASSUME NEW i \in 1..Len(buffer'), NEW j \in 1..Len(buffer'), i < j
          PROVE  Before(t, m_events'[buffer'[i]], m_events'[buffer'[j]])
      <4>1. i + 1 \in 1..Len(buffer) /\ j + 1 \in 1..Len(buffer) /\ i + 1 < j + 1
        BY <2>2, <3>2
      <4> QED BY <2>1, <2>2, <3>1, <4>1 DEF InLine
    <3>3. ASSUME NEW j \in 1..Len(buffer') PROVE Before(t, m_events'[buffer[1]], m_events'[buffer'[j]])
      <4>1. 1 \in 1..Len(buffer) /\ j + 1 \in 1..Len(buffer) /\ 1 < j + 1
        BY <2>2
      <4> QED BY <2>1, <2>2, <3>1, <4>1 DEF InLine
    <3> QED BY <2>1, <3>1, <3>2, <3>3 DEF InLine, Ordered
  <2> QED BY <1>a, <2>1, <2>3 DEF LateInLine
<1>8. CASE dispatchEvent
  <2>1. PICK id \in taken :
          /\ m_events' = [i \in DOMAIN m_events \ {id} |-> m_events[i]]
          /\ handled' = [handled EXCEPT ![m_events[id][1]] = Append(@, m_events[id][2])]
    BY <1>8 DEF dispatchEvent, removeEvent
  <2> DEFINE e == m_events[id]
  <2>2. taken' = {} /\ UNCHANGED <<buffer, posting, m_pending>>
    BY <1>8 DEF dispatchEvent, loopVars
  <2>3. id \in DOMAIN m_events /\ taken = {id} /\ id \notin RangeOf(buffer)
        /\ RangeOf(buffer) \cup {id} = DOMAIN m_events
    BY <2>1 DEF IInv, NumbersInUse, NumberTypes
  <2>4. e \in Event /\ e[1] \in Threads /\ e[2] \in 1..MaxEvents /\ e = <<e[1], e[2]>>
    BY <2>3 DEF Event, Types, TypeOK
  <2>5. /\ DOMAIN (m_events') = RangeOf(buffer)
        /\ \A i \in DOMAIN (m_events') : m_events'[i] = m_events[i]
        /\ \A i \in 1..Len(buffer) : buffer[i] \in RangeOf(buffer)
    BY <2>1, <2>3 DEF RangeOf
  <2>6. /\ \A u \in Threads : u # e[1] => handled'[u] = handled[u]
        /\ handled'[e[1]] = Append(handled[e[1]], e[2])
        /\ handled[e[1]] \in Seq(1..MaxEvents)
    BY <2>1, <2>4 DEF Types, TypeOK
  <2>7. /\ Len(handled'[e[1]]) = Len(handled[e[1]]) + 1 /\ Len(handled[e[1]]) \in Nat
        /\ \A k \in 1..Len(handled[e[1]]) : handled'[e[1]][k] = handled[e[1]][k]
        /\ handled'[e[1]][Len(handled[e[1]]) + 1] = e[2]
    BY <2>4, <2>6
  <2>8. ASSUME NEW t \in Threads \ Early PROVE InLine(t)'
    <3>1. InLine(t)
      BY DEF LateInLine
    <3>2. \A i, j \in 1..Len(buffer') : i < j => Before(t, m_events'[buffer'[i]], m_events'[buffer'[j]])
      BY <2>2, <2>5, <3>1 DEF InLine
    <3>3. \A i \in RangeOf(buffer) : Before(t, e, m_events[i])
      BY <2>3, <3>1 DEF InLine, RangeOf
    <3>4. CASE t # e[1]
      <4>1. \A k \in 1..Len(handled'[t]), i \in DOMAIN (m_events') :
                Before(t, <<t, handled'[t][k]>>, m_events'[i])
        BY <2>3, <2>5, <2>6, <3>1, <3>4 DEF InLine
      <4> QED BY <2>2, <2>6, <3>1, <3>2, <3>4, <4>1 DEF InLine, Ordered
    <3>5. CASE t = e[1]
      <4>1. \A k \in 1..Len(handled[t]) : handled[t][k] < e[2]
        BY <2>3, <3>1, <3>5 DEF InLine, Before
      <4>2. Ordered(t)'
        <5> SUFFICES ASSUME NEW i \in 1..Len(handled'[t]), NEW j \in 1..Len(handled'[t]), i < j
                     PROVE  handled'[t][i] < handled'[t][j]
          BY DEF Ordered
        <5>1. i \in 1..Len(handled[t])
          BY <2>7, <3>5
        <5>2. CASE j \in 1..Len(handled[t])
          BY <2>7, <3>1, <3>5, <5>1, <5>2 DEF InLine, Ordered
        <5>3. CASE j = Len(handled[t]) + 1
          BY <2>7, <3>5, <4>1, <5>1, <5>3
        <5> QED BY <2>7, <3>5, <5>2, <5>3
      <4>3. ASSUME NEW k \in 1..Len(handled'[t]), NEW i \in DOMAIN (m_events')
            PROVE  Before(t, <<t, handled'[t][k]>>, m_events'[i])
        <5>1. CASE k \in 1..Len(handled[t])
          BY <2>3, <2>5, <2>7, <3>1, <3>5, <5>1 DEF InLine
        <5>2. CASE k = Len(handled[t]) + 1
          BY <2>5, <2>7, <3>3, <3>5, <5>2 DEF Before
        <5>3. k \in 1..Len(handled[t]) \/ k = Len(handled[t]) + 1
          BY <2>7, <3>5
        <5> QED BY <5>1, <5>2, <5>3
      <4> QED BY <2>2, <3>2, <4>2, <4>3 DEF InLine
    <3> QED BY <3>4, <3>5
  <2> QED BY <1>a, <2>2, <2>8 DEF LateInLine
<1>9. CASE UNCHANGED vars
  BY <1>9, <1>c DEF vars
<1> QED BY <1>1, <1>2, <1>3, <1>4, <1>5, <1>6, <1>7, <1>8, <1>9 DEF Next

\* The events of a thread that starts to post when the loop is ready are dispatched
\* in the order of its add_event() calls: numbers that are used again, early events
\* of other threads and a swapped buffer never let a later event overtake.
THEOREM LateThreadsInOrder == Spec => []InOrder
<1>1. Init => IInv /\ Types /\ Places /\ LateInLine
  <2> SUFFICES ASSUME Init PROVE LateInLine
    BY IInvInit, PlacesInit
  <2>1. RangeOf(m_pending) = {} /\ Len(buffer) = 0 /\ taken = {}
    BY DEF Init, RangeOf
  <2>2. \A t \in Threads : Len(handled[t]) = 0 /\ posting[t] = <<>>
    BY DEF Init
  <2> QED BY <2>1, <2>2 DEF LateInLine, InLine, Ordered
<1>2. IInv /\ Types /\ Places /\ LateInLine /\ [Next]_vars => IInv' /\ Types' /\ Places' /\ LateInLine'
  BY IInvStep, TypesStep, PlacesStep, LateStep
<1>3. LateInLine => InOrder
  BY DEF LateInLine, InLine, InOrder
<1> QED BY <1>1, <1>2, <1>3, PTL DEF Spec
=============================================================================
