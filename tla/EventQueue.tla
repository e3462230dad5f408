------------------------------ MODULE EventQueue ------------------------------
(***************************************************************************)
(* The event queue every component posts to and is called from: class      *)
(* EventQueue of src/src/lib/base/EventQueue.cpp with a buffer such as     *)
(* SimpleEventQueueBuffer.  The buffer holds numbers; the queue keeps the  *)
(* event for each number and uses the numbers of removed events again.     *)
(* Any thread may post; one thread runs loop().  Events posted before the  *)
(* loop is ready wait in m_pending, which no lock protects.                *)
(***************************************************************************)
EXTENDS Naturals, Sequences, FiniteSets

CONSTANTS
    Threads,     \* threads that post events
    MaxEvents,   \* bound: events each thread posts
    Early,       \* threads that may post before the loop is ready
    MayFail,     \* may the platform's buffer refuse an event?
    MaySwap      \* may set_buffer() be called?

ASSUME EventQueueAssumption ==
    /\ MaxEvents \in Nat
    /\ Early \subseteq Threads
    /\ {MayFail, MaySwap} \subseteq BOOLEAN

VARIABLES
    m_events,       \* the event for each number in use
    m_oldEventIDs,  \* numbers to use again; a set, since any one will do
    buffer,         \* numbers in the buffer, oldest first
    taken,          \* the number getEvent() took out and has not looked up yet
    is_ready_,
    m_pending,      \* events posted before the loop was ready
    loop,           \* how far loop() is: "start", "drain" or "run"
    posting,        \* events whose thread has read is_ready_ as false
    posted,         \* history: how many events each thread has posted
    handled,        \* history: the events dispatched, by thread
    discarded       \* history: events the buffer refused or set_buffer() dropped

vars == <<m_events, m_oldEventIDs, buffer, taken, is_ready_, m_pending, loop, posting,
          posted, handled, discarded>>
loopVars == <<is_ready_, m_pending, loop, posting>>
history == <<posted, handled, discarded>>

Event == Threads \X (1..MaxEvents)
RangeOf(s) == {s[i] : i \in 1..Len(s)}

Init ==
    /\ m_events = <<>>
    /\ m_oldEventIDs = {}
    /\ buffer = <<>>
    /\ taken = {}
    /\ is_ready_ = FALSE
    /\ m_pending = <<>>
    /\ loop = "start"
    /\ posting = [t \in Threads |-> <<>>]
    /\ posted = [t \in Threads |-> 0]
    /\ handled = [t \in Threads |-> <<>>]
    /\ discarded = {}

----------------------------------------------------------------------------
(* Numbers for events.                                                      *)

freshIDs_Size == {Cardinality(DOMAIN m_events)}  \* Faulty variant: never uses a number again.

\* save_event(): a number to use again, or the next one.
freshIDs == IF m_oldEventIDs # {} THEN m_oldEventIDs ELSE {Cardinality(DOMAIN m_events)}

\* The buffer's addEvent(): behind the numbers that are there.
addEvent(id) == buffer' = Append(buffer, id)

\* add_event_to_buffer() under the mutex: save_event(), then the buffer's addEvent().
add_event_to_buffer(e) ==
    \/ \E id \in freshIDs :
          /\ m_events' = [i \in DOMAIN m_events \cup {id} |-> IF i = id THEN e ELSE m_events[i]]
          /\ m_oldEventIDs' = m_oldEventIDs \ {id}
          /\ addEvent(id)
          /\ UNCHANGED <<taken, discarded>>
    \/ /\ MayFail
       /\ \E id \in freshIDs : m_oldEventIDs' = m_oldEventIDs \cup {id}
       /\ discarded' = discarded \cup {e}
       /\ UNCHANGED <<m_events, buffer, taken>>

\* removeEvent(): the number may be used again.
removeEvent(id) ==
    /\ m_events' = [i \in DOMAIN m_events \ {id} |-> m_events[i]]
    /\ m_oldEventIDs' = m_oldEventIDs \cup {id}

----------------------------------------------------------------------------
(* Threads that post.                                                       *)

\* add_event(): before the loop is ready the event goes to m_pending, and
\* between the test and the push the loop may become ready.
add_event(t) ==
    /\ posted[t] < MaxEvents
    /\ posting[t] = <<>>
    /\ t \in Early \/ is_ready_
    /\ posted' = [posted EXCEPT ![t] = @ + 1]
    /\ LET e == <<t, posted[t] + 1>>
       IN  \/ /\ is_ready_
              /\ add_event_to_buffer(e)
              /\ UNCHANGED posting
           \/ /\ ~is_ready_
              /\ posting' = [posting EXCEPT ![t] = <<e>>]
              /\ UNCHANGED <<m_events, m_oldEventIDs, buffer, taken, discarded>>
    /\ UNCHANGED <<is_ready_, m_pending, loop, handled>>

pushPending(t) ==
    /\ posting[t] # <<>>
    /\ m_pending' = m_pending \o posting[t]
    /\ posting' = [posting EXCEPT ![t] = <<>>]
    /\ UNCHANGED <<m_events, m_oldEventIDs, buffer, taken, is_ready_, loop, history>>

----------------------------------------------------------------------------
(* The thread that runs the loop.                                           *)

\* set_buffer(), from the constructor of a screen that is opened before the loop or
\* in a handler: the queued events are discarded, those of m_pending are not.
set_buffer ==
    /\ MaySwap
    /\ loop \in {"start", "run"}
    /\ taken = {}
    /\ discarded' = discarded \cup {m_events[id] : id \in DOMAIN m_events}
    /\ m_events' = <<>>
    /\ m_oldEventIDs' = {}
    /\ buffer' = <<>>
    /\ UNCHANGED <<taken, loopVars, posted, handled>>

loopReady ==
    /\ loop = "start"
    /\ is_ready_' = TRUE
    /\ loop' = "drain"
    /\ UNCHANGED <<m_events, m_oldEventIDs, buffer, taken, m_pending, posting, history>>

drainPending_Drop ==  \* Faulty variant: the event is popped and not added.
    /\ loop = "drain" /\ m_pending # <<>>
    /\ m_pending' = Tail(m_pending)
    /\ UNCHANGED <<m_events, m_oldEventIDs, buffer, taken, is_ready_, loop, posting, history>>

drainPending ==
    /\ loop = "drain"
    /\ m_pending # <<>>
    /\ add_event_to_buffer(Head(m_pending))
    /\ m_pending' = Tail(m_pending)
    /\ UNCHANGED <<is_ready_, loop, posting, posted, handled>>

startDispatching ==
    /\ loop = "drain"
    /\ m_pending = <<>>
    /\ loop' = "run"
    /\ UNCHANGED <<m_events, m_oldEventIDs, buffer, taken, is_ready_, m_pending, posting, history>>

getEvent_Newest ==  \* Faulty variant: the buffer is a stack.
    /\ loop = "run" /\ taken = {} /\ buffer # <<>>
    /\ taken' = {buffer[Len(buffer)]}
    /\ buffer' = SubSeq(buffer, 1, Len(buffer) - 1)
    /\ UNCHANGED <<m_events, m_oldEventIDs, loopVars, history>>

getEvent_Last ==  \* Faulty variant: the last event is not seen.
    /\ loop = "run" /\ taken = {} /\ Len(buffer) > 1
    /\ taken' = {Head(buffer)}
    /\ buffer' = Tail(buffer)
    /\ UNCHANGED <<m_events, m_oldEventIDs, loopVars, history>>

\* getEvent(): the number is taken from the buffer before the mutex is locked.
getEvent ==
    /\ loop = "run"
    /\ taken = {}
    /\ buffer # <<>>
    /\ taken' = {Head(buffer)}
    /\ buffer' = Tail(buffer)
    /\ UNCHANGED <<m_events, m_oldEventIDs, loopVars, history>>

dispatchEvent ==
    /\ \E id \in taken :
          /\ removeEvent(id)
          /\ LET e == m_events[id]
             IN  handled' = [handled EXCEPT ![e[1]] = Append(@, e[2])]
    /\ taken' = {}
    /\ UNCHANGED <<buffer, loopVars, posted, discarded>>

Next ==
    \/ \E t \in Threads : add_event(t) \/ pushPending(t)
    \/ set_buffer \/ loopReady \/ drainPending \/ startDispatching
    \/ getEvent \/ dispatchEvent

Spec == Init /\ [][Next]_vars

\* A thread that is between two statements goes on; the loop takes what there is.
Fairness ==
    /\ \A t \in Threads : WF_vars(pushPending(t))
    /\ WF_vars(loopReady) /\ WF_vars(drainPending) /\ WF_vars(startDispatching)
    /\ WF_vars(getEvent) /\ WF_vars(dispatchEvent)

FairSpec == Spec /\ Fairness

----------------------------------------------------------------------------
(* Properties.                                                              *)

\* The types of the variables.
TypeOK ==
    /\ DOMAIN m_events \subseteq Nat
    /\ \A id \in DOMAIN m_events : m_events[id] \in Event
    /\ m_oldEventIDs \subseteq Nat
    /\ buffer \in Seq(Nat)
    /\ taken \subseteq Nat
    /\ is_ready_ \in BOOLEAN
    /\ m_pending \in Seq(Event)
    /\ loop \in {"start", "drain", "run"}
    /\ \A t \in Threads : posting[t] \in Seq(Event) /\ Len(posting[t]) <= 1
    /\ posted \in [Threads -> 0..MaxEvents]
    /\ handled \in [Threads -> Seq(1..MaxEvents)]
    /\ discarded \subseteq Event

\* Every number in the buffer stands for an event of its own, every event has
\* its number in the buffer or in the loop's hands, and no number is both in use
\* and free: save_event() never overwrites an event that is still queued, and
\* removeEvent() always finds the event.
NumbersInUse ==
    /\ \A i, j \in 1..Len(buffer) : i # j => buffer[i] # buffer[j]
    /\ RangeOf(buffer) \cup taken = DOMAIN m_events
    /\ RangeOf(buffer) \cap taken = {}
    /\ m_oldEventIDs \cap DOMAIN m_events = {}

\* No event is dispatched twice, and none has vanished: each one that was posted
\* is on its way, queued, dispatched or known to be discarded.
NothingVanishes ==
    /\ TypeOK
    /\ \A t \in Threads :
          /\ \A i, j \in 1..Len(handled[t]) : i # j => handled[t][i] # handled[t][j]
          /\ \A n \in 1..posted[t] :
                \/ <<t, n>> \in RangeOf(posting[t]) \cup RangeOf(m_pending) \cup discarded
                \/ \E id \in DOMAIN m_events : m_events[id] = <<t, n>>
                \/ n \in RangeOf(handled[t])

\* add_event() "adds event to the end of the queue": the events of one thread
\* are dispatched in the order in which it posted them.
Ordered(t) == \A i, j \in 1..Len(handled[t]) : i < j => handled[t][i] < handled[t][j]

\* The events of a thread that starts to post when the loop is ready are dispatched in
\* the order in which it posted them, whatever the other threads posted before.
InOrder == \A t \in Threads \ Early : Ordered(t)

\* The event that was posted is dispatched, or the buffer refused it or was replaced.
Answered(t, n) == posted[t] >= n ~> n \in RangeOf(handled[t]) \/ <<t, n>> \in discarded

\* Every event of such a thread is dispatched, unless the buffer refused it or
\* set_buffer() dropped it.
EventuallyHandled == \A t \in Threads \ Early : \A n \in 1..MaxEvents : Answered(t, n)

\* Every event is dispatched, also one that was posted before the loop was ready.
NothingStuck == \A t \in Threads : \A n \in 1..MaxEvents : Answered(t, n)
=============================================================================
