----------------------------- MODULE EventQueue -----------------------------
(***************************************************************************)
(* What the event functions of os/event.c promise, without interrupts in   *)
(* the middle, pending counters, timers or run queues.  Per queue there is *)
(* a set of waiting threads and a number of undelivered events; a queue    *)
(* without waiters remembers at most one (the SIGNALED state).             *)
(***************************************************************************)
EXTENDS Integers, FiniteSets

CONSTANTS Thread, Queue

VARIABLES
    waiters,     \* per queue, the threads waiting in it
    events,      \* per queue, the events posted and not yet delivered
    status,      \* per thread: "out" of any wait, "waiting", or on the way
                 \* back from NutEventWait with an "event" or a "timeout"
    urgency      \* per thread, its priority (0 is the most urgent)

vars == <<waiters, events, status, urgency>>

EQTypeOK ==
    /\ waiters \in [Queue -> SUBSET Thread]
    /\ events \in [Queue -> Nat]
    /\ status \in [Thread -> {"out", "waiting", "event", "timeout"}]
    /\ urgency \in [Thread -> Nat]

Init ==
    /\ waiters = [q \in Queue |-> {}]
    /\ events = [q \in Queue |-> 0]
    /\ status = [t \in Thread |-> "out"]
    /\ urgency \in [Thread -> Nat]

\* How many of n events queue q keeps when only the threads W wait in it.
Kept(n, W) == IF W = {} /\ n > 1 THEN 1 ELSE n

\* An interrupt or a thread posts to q and nobody is woken yet.
Post(q) ==
    /\ events' = [events EXCEPT ![q] = Kept(@ + 1, waiters[q])]
    /\ UNCHANGED <<waiters, status, urgency>>

\* The event of a signaled queue is consumed by a wait that does not block, or
\* discarded by NutEventWaitNext or a broadcast.
Consume(q) ==
    /\ waiters[q] = {} /\ events[q] = 1
    /\ events' = [events EXCEPT ![q] = 0]
    /\ UNCHANGED <<waiters, status, urgency>>

Enter(t, q) ==
    /\ status[t] = "out"
    /\ status' = [status EXCEPT ![t] = "waiting"]
    /\ waiters' = [waiters EXCEPT ![q] = @ \cup {t}]
    /\ UNCHANGED <<events, urgency>>

\* Thread t stops waiting in q for the given reason; n events remain.
Release(t, q, reason, n) ==
    /\ t \in waiters[q]
    /\ waiters' = [waiters EXCEPT ![q] = @ \ {t}]
    /\ status' = [status EXCEPT ![t] = reason]
    /\ events' = [events EXCEPT ![q] = Kept(n, waiters[q] \ {t})]
    /\ UNCHANGED urgency

MostUrgent(t, q) == \A u \in waiters[q] : urgency[t] <= urgency[u]

\* An undelivered event wakes one of the most urgent waiters.
Deliver(t, q) ==
    /\ events[q] > 0 /\ MostUrgent(t, q)
    /\ Release(t, q, "event", events[q] - 1)

\* A thread's post or broadcast wakes one of the most urgent waiters itself.
PostDirect(t, q) == MostUrgent(t, q) /\ Release(t, q, "event", events[q])

Expire(t, q) == Release(t, q, "timeout", events[q])

Return(t) ==
    /\ status[t] \in {"event", "timeout"}
    /\ status' = [status EXCEPT ![t] = "out"]
    /\ UNCHANGED <<waiters, events, urgency>>

\* Only a thread that is not waiting is given a new priority.
Reprioritize(t) ==
    /\ status[t] = "out"
    /\ urgency' \in [Thread -> Nat]
    /\ \A u \in Thread \ {t} : urgency'[u] = urgency[u]
    /\ UNCHANGED <<waiters, events, status>>

Next ==
    \/ \E q \in Queue : Post(q) \/ Consume(q)
    \/ \E t \in Thread, q \in Queue :
          Enter(t, q) \/ Deliver(t, q) \/ PostDirect(t, q) \/ Expire(t, q)
    \/ \E t \in Thread : Return(t) \/ Reprioritize(t)

Spec == Init /\ [][Next]_vars

=============================================================================
