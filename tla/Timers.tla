------------------------------- MODULE Timers -------------------------------
(***************************************************************************)
(* The timers of an event queue (base/EventQueue.cpp): a stopwatch m_time  *)
(* that runs from one look at the timers to the next, and a priority queue *)
(* of timers, each with the time it has left, counted from the last look.  *)
(*                                                                         *)
(* A queue is a record q: q.time is the stopwatch, q.timers maps the       *)
(* running timers to [left, timeout, oneShot].  Time is counted in whole   *)
(* units; left may be negative, for a timer that is looked at late.        *)
(***************************************************************************)
EXTENDS Integers, FiniteSets

CONSTANT
  MaxTime       \* bound: the longest time between two looks at the timers

ASSUME MaxTimeAssumption == MaxTime \in Nat

NoTimers == [time |-> 0, timers |-> << >>]

Running(q) == DOMAIN q.timers

(***************************************************************************)
(* What the stopwatch shows is added to a new timer, because the next look *)
(* at the timers takes it off again.                                       *)
(***************************************************************************)
Started(q, t, duration, oneShot, left) ==
  [q EXCEPT !.timers =
     [u \in Running(q) \union {t} |->
        IF u = t THEN [left |-> left, timeout |-> duration, oneShot |-> oneShot]
                 ELSE q.timers[u]]]

newTimer(q, t, duration) == Started(q, t, duration, FALSE, duration + q.time)

\* Faulty variant: the time on the stopwatch is not added.
newOneShotTimer_Early(q, t, duration) == Started(q, t, duration, TRUE, duration)

newOneShotTimer(q, t, duration) == Started(q, t, duration, TRUE, duration + q.time)

deleteTimer(q, t) ==
  [q EXCEPT !.timers = [u \in Running(q) \ {t} |-> q.timers[u]]]

(***************************************************************************)
(* hasTimerExpired(): counts every timer down by the time since the last   *)
(* look, and then takes one with the least time left, if that is not       *)
(* positive; a periodic timer starts again with its full period.           *)
(***************************************************************************)
countdown(q) ==
  IF Running(q) = {} THEN q
  ELSE [time |-> 0,
        timers |-> [u \in Running(q) |->
                      [q.timers[u] EXCEPT !.left = @ - q.time]]]

Top(q) == {t \in Running(q) :
             \A u \in Running(q) : q.timers[t].left <= q.timers[u].left}

Expired(q) == {t \in Top(q) : q.timers[t].left <= 0}

expire(q, t) ==
  IF q.timers[t].oneShot
  THEN deleteTimer(q, t)
  ELSE [q EXCEPT !.timers[t].left = q.timers[t].timeout]

(***************************************************************************)
(* The time of the machine goes on by one unit.  A queue with timers looks *)
(* at them within MaxTime; nobody compares the stopwatch of a queue        *)
(* without timers with anything, and it stops there.                       *)
(***************************************************************************)
passTime(q) ==
  IF Running(q) = {} /\ q.time >= MaxTime THEN q ELSE [q EXCEPT !.time = @ + 1]

\* The queue must look at its timers before n units more are over.
MustLook(q, n) ==
  /\ Running(q) # {}
  /\ \/ q.time >= MaxTime
     \/ \E t \in Running(q) : q.timers[t].left - q.time <= -n
=============================================================================
