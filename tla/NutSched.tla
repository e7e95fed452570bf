------------------------------ MODULE NutSched ------------------------------
(***************************************************************************)
(* The thread and event functions as the rest of the system calls them.    *)
(* Threads are cooperative and this level has no interrupt that posts      *)
(* events, so a stretch of code between two releases of the CPU is one     *)
(* step, td_qpec is always 0 and the critical sections of NutKernel are    *)
(* not told apart.  The CPU is released into NutThreadResume (running =    *)
(* NIL): there elapsed timers end timed waits, then the first thread of    *)
(* the run queue goes on.  An empty run queue is the idle thread's loop.   *)
(***************************************************************************)
EXTENDS PriQueue, FiniteSets

CONSTANTS
    Thread,           \* the application threads
    Urgent,           \* those of the higher priority
    Root,             \* addresses of event queue roots
    NIL

ASSUME SchedAssumption ==
    IsFiniteSet(Thread) /\ Thread # {} /\ NIL \notin Thread \cup Root

VARIABLES
    runQueue,         \* ready threads, the running one included
    running,          \* the thread that has the CPU, NIL in NutThreadResume
    waitq,            \* per root, the waiting threads
    signaled,         \* the roots that are SIGNALED
    timed,            \* threads waiting with a timer (td_timer is set)
    timedOut,         \* threads whose last NutEventWait ended by time-out
    step,             \* per thread, where its code goes on
    obj               \* and the object it works on there

schedVars == <<runQueue, running, waitq, signaled, timed, timedOut>>
progVars  == <<step, obj>>

td_priority == [t \in Thread |-> IF t \in Urgent THEN 1 ELSE 2]

SchedInit ==
    /\ runQueue \in {s \in SetToSeqs(Thread) : PriorityOrdered(s, td_priority)}
    /\ running = NIL
    /\ waitq = [q \in Root |-> <<>>]
    /\ signaled = {}
    /\ timed = {}
    /\ timedOut = {}
    /\ step = [t \in Thread |-> "user"]
    /\ obj = [t \in Thread |-> NIL]

\* t executes, and it has come to the given place of its code.
At(t, place) == running = t /\ step[t] = place

GoTo(t, place, o) ==
    /\ step' = [step EXCEPT ![t] = place]
    /\ obj' = [obj EXCEPT ![t] = o]

-----------------------------------------------------------------------------
(* The calls, made by the running thread t.                                *)

\* NutThreadYield, up to NutThreadResume.
Yielded(rq, t) == IF rq[Len(rq)] = t THEN rq ELSE Enqueued(Dequeued(rq, t), t, td_priority)

NutThreadYield(t) ==
    /\ runQueue' = Yielded(runQueue, t)
    /\ running' = NIL
    /\ UNCHANGED <<waitq, signaled, timed, timedOut>>

\* The thread of NutEventWait leaves the run queue for the queue of q.
Block(t, q, withTimer) ==
    /\ runQueue' = Dequeued(runQueue, t)
    /\ waitq' = [waitq EXCEPT ![q] = Enqueued(@, t, td_priority)]
    /\ signaled' = signaled \ {q}
    /\ timed' = IF withTimer THEN timed \cup {t} ELSE timed
    /\ timedOut' = timedOut \ {t}
    /\ running' = NIL

\* NutEventWait: a signaled root is cleared and the thread only yields.
NutEventWait(t, q, withTimer) ==
    \/ q \notin signaled /\ Block(t, q, withTimer)
    \/ /\ q \in signaled
       /\ signaled' = signaled \ {q}
       /\ timedOut' = timedOut \ {t}
       /\ runQueue' = Yielded(runQueue, t)
       /\ running' = NIL
       /\ UNCHANGED <<waitq, timed>>

\* NutEventWaitNext clears the root itself, then it blocks.
NutEventWaitNext(t, q) == Block(t, q, FALSE)

\* What NutEventPostAsync does to the queue of q: the first waiter leaves it, or
\* the root becomes signaled.
PostTo(q) ==
    IF waitq[q] = <<>>
    THEN signaled' = signaled \cup {q} /\ UNCHANGED <<waitq, timed, timedOut>>
    ELSE /\ waitq' = [waitq EXCEPT ![q] = Tail(@)]
         /\ timed' = timed \ {Head(waitq[q])}
         /\ UNCHANGED <<signaled, timedOut>>

\* And to the run queue.
ReadyAfterPost(q) ==
    IF waitq[q] = <<>> THEN runQueue ELSE Enqueued(runQueue, Head(waitq[q]), td_priority)

NutEventPostAsync(q) ==
    PostTo(q) /\ runQueue' = ReadyAfterPost(q) /\ UNCHANGED running

NutEventPost(t, q) ==
    PostTo(q) /\ runQueue' = Yielded(ReadyAfterPost(q), t) /\ running' = NIL

\* A round of NutEventBroadcast: the next waiter becomes ready.  When none is left
\* the root is clear and the caller yields.
NutEventBroadcast(t, q) ==
    \/ waitq[q] # <<>> /\ NutEventPostAsync(q)
    \/ /\ waitq[q] = <<>>
       /\ signaled' = signaled \ {q}
       /\ runQueue' = Yielded(runQueue, t)
       /\ running' = NIL
       /\ UNCHANGED <<waitq, timed, timedOut>>

-----------------------------------------------------------------------------
(* NutThreadResume.                                                        *)

\* NutEventTimeout: the timer of thread t, waiting in q, elapses.
NutEventTimeout(t, q) ==
    /\ running = NIL
    /\ t \in timed \cap ToSet(waitq[q])
    /\ waitq' = [waitq EXCEPT ![q] = Dequeued(@, t)]
    /\ runQueue' = Enqueued(runQueue, t, td_priority)
    /\ timed' = timed \ {t}
    /\ timedOut' = timedOut \cup {t}
    /\ UNCHANGED <<running, signaled, progVars>>

\* The first thread of the run queue gets the CPU.
NutThreadSwitch ==
    /\ running = NIL /\ runQueue # <<>>
    /\ running' = Head(runQueue)
    /\ UNCHANGED <<runQueue, waitq, signaled, timed, timedOut, progVars>>

\* A thread gives up the CPU of its own accord.
Yield(t) == At(t, "user") /\ NutThreadYield(t) /\ UNCHANGED progVars

SchedStep ==
    \/ NutThreadSwitch
    \/ \E t \in Thread, q \in Root : NutEventTimeout(t, q)
    \/ \E t \in Thread : Yield(t)

-----------------------------------------------------------------------------

SchedTypeOK ==
    /\ runQueue \in Seq(Thread)
    /\ running \in Thread \cup {NIL}
    /\ waitq \in [Root -> Seq(Thread)]
    /\ signaled \in SUBSET Root
    /\ timed \in SUBSET Thread
    /\ timedOut \in SUBSET Thread
    /\ DOMAIN step = Thread /\ DOMAIN obj = Thread

\* Every thread is in exactly one queue, once, and the running one is ready.
Placed ==
    /\ IsInjective(runQueue)
    /\ \A q \in Root : IsInjective(waitq[q])
    /\ \A q \in Root : ToSet(waitq[q]) \cap ToSet(runQueue) = {}
    /\ \A q, r \in Root : q # r => ToSet(waitq[q]) \cap ToSet(waitq[r]) = {}
    /\ running # NIL => running \in ToSet(runQueue)
    /\ \A q \in signaled : waitq[q] = <<>>
    /\ timed \cap ToSet(runQueue) = {}

=============================================================================
