------------------------ MODULE NutKernelRefinement -------------------------
(***************************************************************************)
(* The kernel implements the abstract event queues of EventQueue.tla.      *)
(***************************************************************************)
EXTENDS NutKernel

\* The event NutThreadResume has taken from a counter and not yet posted.
InHand(q) == IF api = "NutThreadResume" /\ qhp = q THEN 1 ELSE 0

\* The events pending on the first waiter of the queue s, the only one that
\* carries any (PendingAtHead).
PendingOn(qpec, s) == IF s = <<>> THEN 0 ELSE qpec[Head(s)]

\* Undelivered events of q: its signaled root or what is pending on its waiters.
EventsOf(q) == IF q \in signaled THEN 1 ELSE InHand(q) + PendingOn(td_qpec, waitq[q])

\* Where thread t is with its NutEventWait.
StatusOf(t) ==
    IF t \notin waiting THEN "out"
    ELSE IF \E q \in Queue : t \in ToSet(waitq[q]) THEN "waiting"
    ELSE IF td_timer[t] = SIGNALED THEN "timeout" ELSE "event"

AbsWaiters == [q \in Queue |-> ToSet(waitq[q])]
AbsEvents  == [q \in Queue |-> EventsOf(q)]
AbsStatus  == [t \in Thread |-> StatusOf(t)]

Abs == INSTANCE EventQueue WITH
    waiters <- AbsWaiters, events <- AbsEvents, status <- AbsStatus, urgency <- td_priority

\* Every step of the kernel is a step of the abstract event queues or changes
\* nothing there: no interrupt that strikes inside NutEventWait, NutEventPost,
\* NutThreadResume or a timeout loses or duplicates an event, a thread leaves a
\* queue only for an event or its timeout, the most urgent waiter first, and
\* NutEventWait reports which of the two it was.
ImplementsEventQueue == Abs!Spec

=============================================================================
