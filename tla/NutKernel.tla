------------------------------ MODULE NutKernel -----------------------------
(***************************************************************************)
(* Threads, events and event timeouts of the Nut/OS kernel: os/thread.c,   *)
(* os/event.c and the part of os/timer.c they use.                         *)
(*                                                                         *)
(* Nut/OS threads are cooperative: one CPU runs the code of runningThread  *)
(* until that code itself reaches NutThreadSwitch, so `pc' is the position *)
(* of the only kernel call in progress.  Interrupts are the concurrency:   *)
(* a tick (NutTimerIntr) or NutEventPostFromIrq may run between any two    *)
(* critical sections, that is between any two steps of this module.        *)
(***************************************************************************)
EXTENDS PriQueue, FiniteSets

CONSTANTS
    App,              \* application threads
    Main,             \* the one NutIdle creates at boot
    Idle,             \* the idle thread
    Queue,            \* roots of event queues
    Timer,            \* heap blocks that can hold a NUTTIMERINFO
    NIL,              \* the null pointer
    SIGNALED,         \* ((void *)-1)
    RunQueue,         \* the address &runQueue
    Level,            \* priorities a thread gives itself
    Default,          \* 64, the priority of a new thread
    Lowest,           \* 254, the priority of the idle thread
    Delay,            \* timeouts in ticks, 0 is NUT_WAIT_INFINITE
    MaxLag,           \* bound on ticks not yet seen by NutTimerProcessElapsed
    MaxPending        \* bound on td_qpec

Thread == App \cup {Idle}

ASSUME ThreadAssumption == Main \in App /\ Idle \notin App
ASSUME PointerAssumption ==
    /\ NIL \notin Thread \cup Timer \cup Queue
    /\ NIL \notin {"NutEventTimeout", "NutThreadWake", "NutThreadResume"}
    /\ SIGNALED \notin Timer \cup {NIL}
    /\ RunQueue \notin Queue \cup {NIL}
ASSUME PriorityAssumption ==
    /\ Level \subseteq Nat
    /\ Default \in Level
    /\ Lowest \in Nat
    /\ \A l \in Level : l < Lowest
ASSUME BoundAssumption == Delay \subseteq Nat /\ MaxLag \in Nat /\ MaxPending \in Nat

VARIABLES
    nutThreadList,    \* every created thread, the newest first
    runningThread,
    runQueue,
    killedThread,     \* killed, its memory not yet released
    waitq,            \* per event queue, the waiting threads
    signaled,         \* the event queues whose root is SIGNALED
    td_priority,
    td_state,
    td_qpec,          \* events posted by interrupts, not yet delivered
    td_queue,
    td_timer,
    waiting,          \* threads inside the NutThreadResume of NutEventWait
    timerList,        \* nutTimerList
    timeLeft,         \* ticks from nut_ticks_resume to the expiry of a timer
    tn_callback,      \* callback of a timer, NIL if there is none
    tn_arg,           \* and its argument
    lag,              \* nut_ticks - nut_ticks_resume
    pc,               \* position in the kernel call in progress
    api,              \* the function that called NutEventPostAsync
    qhp,              \* the queue it works on
    ms,               \* the timeout of NutEventWait
    scan,             \* rest of nutThreadList in the loop of NutThreadResume
    ticksNew          \* ticks_new of NutTimerProcessElapsed

threadVars == <<nutThreadList, runningThread, runQueue, killedThread,
                td_priority, td_state, td_queue, waiting>>
eventVars  == <<waitq, signaled, td_qpec>>
tnVars     == <<timerList, timeLeft, tn_callback, tn_arg>>
timerVars  == <<td_timer, tnVars>>
cpuVars    == <<pc, api, qhp, ms, scan, ticksNew>>
vars == <<threadVars, eventVars, timerVars, lag, cpuVars>>

Async    == {"NutEventPostAsync", "NutEventBroadcastAsync"}
Bcast    == {"NutEventBroadcastAsync", "NutEventBroadcast"}
Yielding == {"NutEventWait", "NutEventPost", "NutEventBroadcast"}
Caller   == Async \cup Yielding \cup {"NutThreadResume"}
Position == {"user", "wait", "clear", "enqueue", "signal", "wake",
             "resume", "elapsed", "switch", "return"}

Callback == {"NutEventTimeout", "NutThreadWake"}
Handle   == Timer \cup {NIL}

-----------------------------------------------------------------------------
(* The timer list (os/timer.c).  tn_ticks_left holds the distance to the   *)
(* timer in front; timeLeft holds their sum.  NutTimer.tla has the deltas. *)

\* tn_ticks_left of a timer in the list.
TicksLeft(tn) ==
    LET k == IndexOf(timerList, tn)
    IN  IF k = 1 THEN timeLeft[tn] ELSE timeLeft[tn] - timeLeft[timerList[k - 1]]

\* NutTimerStart as the kernel calls it (TM_ONESHOT): `handle' becomes the new
\* timer, or NIL if there is no memory for one.
TimerStart(ticks, callback, arg, handle) ==
    \/ /\ handle \in Timer \ ToSet(timerList)
       /\ timeLeft' = [timeLeft EXCEPT ![handle] = ticks + lag]
       /\ timerList' = Enqueued(timerList, handle, timeLeft')
       /\ tn_callback' = [tn_callback EXCEPT ![handle] = callback]
       /\ tn_arg' = [tn_arg EXCEPT ![handle] = arg]
    \/ /\ handle = NIL
       /\ Timer = ToSet(timerList)
       /\ UNCHANGED tnVars

\* NutTimerStop: drop the callback and, unless the timer has no ticks left of
\* its own, expire it.
TimerStop(tn) ==
    /\ tn_callback' = [tn_callback EXCEPT ![tn] = NIL]
    /\ tn_arg' = [tn_arg EXCEPT ![tn] = NIL]
    /\ IF TicksLeft(tn) = 0
       THEN UNCHANGED <<timerList, timeLeft>>
       ELSE /\ timeLeft' = [timeLeft EXCEPT ![tn] = 0]
            /\ timerList' = Enqueued(Dequeued(timerList, tn), tn, timeLeft')

-----------------------------------------------------------------------------
(* Helpers of the thread and event functions.                              *)

\* Seeded fault: the running thread goes behind all ready threads.
YieldedToEnd(rq) == Append(Dequeued(rq, runningThread), runningThread)

\* The first half of NutThreadYield: the running thread goes behind the ready
\* threads of its priority.  td_qpec of ready threads is 0.
Yielded(rq) ==
    IF rq[Len(rq)] = runningThread THEN rq
    ELSE Enqueued(Dequeued(rq, runningThread), runningThread, td_priority)

\* What follows when the function f is done, rq being the run queue: back to
\* the caller, or NutThreadYield, or the next thread in NutThreadResume.
Leave(f, rq) ==
    /\ \/ /\ f \in Async
          /\ pc' = "user"
          /\ runQueue' = rq
          /\ UNCHANGED scan
       \/ /\ f \in Yielding
          /\ pc' = "resume"
          /\ runQueue' = Yielded(rq)
          /\ scan' = nutThreadList
       \/ /\ f = "NutThreadResume"
          /\ pc' = "resume"
          /\ runQueue' = rq
          /\ UNCHANGED scan
    /\ api' = NIL /\ qhp' = NIL /\ ms' = 0

\* NutThreadSwitch: the thread in front of the run queue gets the CPU.  A
\* thread that was inside NutEventWait goes on with its tail.
SwitchTo(t) ==
    /\ runningThread' = t
    /\ pc' = IF t \in waiting THEN "return" ELSE "user"

\* Thread t leaves queue q and becomes ready: the event state of q afterwards.
LeaveQueue(t, q) ==
    /\ waitq' = [waitq EXCEPT ![q] = Dequeued(@, t)]
    /\ td_qpec' = PendingAfterLeave(td_qpec, waitq[q], t)
    /\ signaled' = IF SignalsOnLeave(td_qpec, waitq[q], t) THEN signaled \cup {q}
                   ELSE signaled

-----------------------------------------------------------------------------
(* Boot: NutIdle has created the main thread and lowered itself to 254.    *)

Init ==
    /\ nutThreadList = <<Main, Idle>>
    /\ runQueue = <<Main, Idle>>
    /\ runningThread = Main
    /\ killedThread = NIL
    /\ waitq = [q \in Queue |-> <<>>]
    /\ signaled = {}
    /\ td_priority = [t \in Thread |-> IF t = Idle THEN Lowest ELSE Default]
    /\ td_state = [t \in Thread |-> IF t = Main THEN "RUNNING" ELSE "READY"]
    /\ td_qpec = [t \in Thread |-> 0]
    /\ td_queue = [t \in Thread |-> IF t \in {Main, Idle} THEN RunQueue ELSE NIL]
    /\ td_timer = [t \in Thread |-> NIL]
    /\ waiting = {}
    /\ timerList = <<>>
    /\ timeLeft = [tn \in Timer |-> 0]
    /\ tn_callback = [tn \in Timer |-> NIL]
    /\ tn_arg = [tn \in Timer |-> NIL]
    /\ lag = 0
    /\ pc = "user"
    /\ api = NIL
    /\ qhp = NIL
    /\ ms = 0
    /\ scan = <<>>
    /\ ticksNew = 0

-----------------------------------------------------------------------------
(* Interrupts.  Both may strike between any two steps.                     *)

\* NutTimerIntr.
IrqTick ==
    /\ lag + ticksNew < MaxLag
    /\ lag' = lag + 1
    /\ UNCHANGED <<threadVars, eventVars, timerVars, cpuVars>>

\* NutEventPostFromIrq(q): an empty queue becomes signaled, a signaled one
\* stays so, a waiting thread in front counts the event.
IrqPost(q) ==
    /\ IF waitq[q] = <<>>
       THEN signaled' = signaled \cup {q} /\ UNCHANGED td_qpec
       ELSE LET td == Head(waitq[q])
            IN  /\ td_qpec[td] < MaxPending
                /\ td_qpec' = [td_qpec EXCEPT ![td] = @ + 1]
                /\ UNCHANGED signaled
    /\ UNCHANGED <<threadVars, waitq, timerVars, lag, cpuVars>>

-----------------------------------------------------------------------------
(* Calls of the running thread.                                            *)

AppRuns == pc = "user" /\ runningThread \in App

NutEventWait(q, timeout) ==
    /\ AppRuns
    /\ pc' = "wait" /\ qhp' = q /\ ms' = timeout /\ api' = "NutEventWait"
    /\ UNCHANGED <<threadVars, eventVars, timerVars, lag, scan, ticksNew>>

\* Clears the signaled state before it calls NutEventWait.
NutEventWaitNext(q, timeout) ==
    /\ AppRuns
    /\ signaled' = signaled \ {q}
    /\ pc' = "wait" /\ qhp' = q /\ ms' = timeout /\ api' = "NutEventWait"
    /\ UNCHANGED <<threadVars, waitq, td_qpec, timerVars, lag, scan, ticksNew>>

\* NutEventWait reads the root.
WaitReadRoot ==
    /\ pc = "wait"
    /\ pc' = IF qhp \in signaled THEN "clear" ELSE "enqueue"
    /\ UNCHANGED <<threadVars, eventVars, timerVars, lag, api, qhp, ms, scan, ticksNew>>

\* NutEventWait or NutEventBroadcastAsync found the queue signaled and clears
\* it, in a critical section of its own.
ClearRoot ==
    /\ pc = "clear"
    /\ signaled' = signaled \ {qhp}
    /\ Leave(api, runQueue)
    /\ UNCHANGED <<nutThreadList, runningThread, killedThread, td_priority, td_state,
                   td_queue, waiting, waitq, td_qpec, timerVars, lag, ticksNew>>

\* NutEventWait moves the running thread from the run queue to the event
\* queue, which an interrupt may have signaled meanwhile, and starts its timer.
Enqueue ==
    /\ pc = "enqueue"
    /\ LET r == runningThread IN
       /\ runQueue' = Dequeued(runQueue, r)
       /\ waitq' = [waitq EXCEPT ![qhp] = Enqueued(@, r, td_priority)]
       /\ td_qpec' = PendingAfterAdd(td_qpec, waitq[qhp], r, td_priority, qhp \in signaled)
       /\ signaled' = signaled \ {qhp}
       /\ td_queue' = [td_queue EXCEPT ![r] = qhp]
       /\ td_state' = [td_state EXCEPT ![r] = "SLEEP"]
       /\ waiting' = waiting \cup {r}
       /\ \/ /\ ms = 0
             /\ td_timer' = [td_timer EXCEPT ![r] = NIL]
             /\ UNCHANGED tnVars
          \/ /\ ms > 0
             /\ \E handle \in Timer \cup {NIL} :
                   /\ TimerStart(ms, "NutEventTimeout", qhp, handle)
                   /\ td_timer' = [td_timer EXCEPT ![r] = handle]
    /\ pc' = "resume" /\ scan' = nutThreadList
    /\ api' = NIL /\ qhp' = NIL /\ ms' = 0
    /\ UNCHANGED <<nutThreadList, runningThread, killedThread, td_priority, lag, ticksNew>>

\* The tail of NutEventWait: a signaled timer handle means timeout.
WaitReturn ==
    /\ pc = "return"
    /\ LET r == runningThread IN
       /\ td_timer' = IF td_timer[r] = SIGNALED THEN [td_timer EXCEPT ![r] = NIL]
                      ELSE td_timer
       /\ waiting' = waiting \ {r}
    /\ pc' = "user"
    /\ UNCHANGED <<nutThreadList, runningThread, runQueue, killedThread, td_priority,
                   td_state, td_queue, eventVars, tnVars, lag, api, qhp, ms, scan, ticksNew>>

-----------------------------------------------------------------------------
(* Posting.                                                                *)

\* NutEventPostAsync or NutEventPost: read the root and branch.
PostCall(f, q) ==
    /\ AppRuns
    /\ \/ q \in signaled /\ Leave(f, runQueue)
       \/ /\ q \notin signaled
          /\ pc' = IF waitq[q] = <<>> THEN "signal" ELSE "wake"
          /\ api' = f /\ qhp' = q
          /\ UNCHANGED <<runQueue, scan, ms>>
    /\ UNCHANGED <<nutThreadList, runningThread, killedThread, td_priority, td_state,
                   td_queue, waiting, eventVars, timerVars, lag, ticksNew>>

\* NutEventBroadcastAsync or NutEventBroadcast: read the root and branch.
BroadcastCall(f, q) ==
    /\ AppRuns
    /\ \/ /\ q \notin signaled /\ waitq[q] = <<>>
          /\ Leave(f, runQueue)
       \/ /\ q \in signaled \/ waitq[q] # <<>>
          /\ pc' = IF q \in signaled THEN "clear" ELSE "wake"
          /\ api' = f /\ qhp' = q
          /\ UNCHANGED <<runQueue, scan, ms>>
    /\ UNCHANGED <<nutThreadList, runningThread, killedThread, td_priority, td_state,
                   td_queue, waiting, eventVars, timerVars, lag, ticksNew>>

\* NutEventPostAsync found no thread: mark the queue signaled.
SignalRoot ==
    /\ pc = "signal"
    /\ signaled' = signaled \cup {qhp}
    /\ Leave(api, runQueue)
    /\ UNCHANGED <<nutThreadList, runningThread, killedThread, td_priority, td_state,
                   td_queue, waiting, waitq, td_qpec, timerVars, lag, ticksNew>>

\* Seeded fault: the loop of the broadcast runs once too often.
WakesMoreOffByOne == api \in Bcast /\ Len(waitq[qhp]) >= 1

\* A broadcast goes on while threads are waiting.
WakesMore == api \in Bcast /\ Len(waitq[qhp]) > 1

\* NutEventPostAsync unlinks the first waiter, stops its timer and makes it
\* ready.
WakeHead ==
    /\ pc = "wake"
    /\ LET t  == Head(waitq[qhp])
           rq == Enqueued(runQueue, t, td_priority)
       IN
       /\ LeaveQueue(t, qhp)
       /\ IF td_timer[t] = NIL THEN UNCHANGED tnVars
          ELSE TimerStop(td_timer[t])
       /\ td_timer' = [td_timer EXCEPT ![t] = NIL]
       /\ td_state' = [td_state EXCEPT ![t] = "READY"]
       /\ td_queue' = [td_queue EXCEPT ![t] = RunQueue]
       /\ IF WakesMore
          THEN runQueue' = rq /\ UNCHANGED <<pc, scan, api, qhp, ms>>
          ELSE Leave(api, rq)
    /\ UNCHANGED <<nutThreadList, runningThread, killedThread, td_priority, waiting,
                   lag, ticksNew>>

-----------------------------------------------------------------------------
(* NutThreadResume.                                                        *)

\* Seeded fault: the counter is compared with 1.
HasPendingMany(td) == td_qpec[td] > 1

HasPending(td) == td_qpec[td] > 0

\* One round of the loop over nutThreadList: take one pending event of the
\* next thread and post it to the queue the thread waits in.
ResumeScan ==
    /\ pc = "resume" /\ scan # <<>>
    /\ LET td == Head(scan) IN
       \/ /\ ~HasPending(td)
          /\ UNCHANGED <<td_qpec, pc, api, qhp>>
       \/ /\ HasPending(td)
          /\ td_qpec' = [td_qpec EXCEPT ![td] = @ - 1]
          /\ qhp' = td_queue[td]
          /\ api' = "NutThreadResume"
          /\ pc' = "wake"
    /\ scan' = Tail(scan)
    /\ UNCHANGED <<threadVars, waitq, signaled, timerVars, lag, ms, ticksNew>>

\* Seeded fault: nut_ticks_resume moves on before the ticks are counted.
ResumeTicksLost ==
    /\ pc = "resume" /\ scan = <<>>
    /\ pc' = "elapsed"
    /\ ticksNew' = 0
    /\ lag' = 0
    /\ UNCHANGED <<threadVars, eventVars, timerVars, api, qhp, ms, scan>>

\* After the loop NutTimerProcessElapsed takes the ticks since its last call.
ResumeTicks ==
    /\ pc = "resume" /\ scan = <<>>
    /\ pc' = "elapsed"
    /\ ticksNew' = lag
    /\ lag' = 0
    /\ UNCHANGED <<threadVars, eventVars, timerVars, api, qhp, ms, scan>>

\* Seeded fault: only the first waiter is looked at.
WaitsForFirst(tn, q) == waitq[q] # <<>> /\ td_timer[Head(waitq[q])] = tn

\* A thread in q waits for timer tn.
WaitsFor(tn, q) == \E t \in ToSet(waitq[q]) : td_timer[t] = tn

\* The first thread of queue q that waits for timer tn.
WaiterFor(tn, q) == waitq[q][SelectInSeq(waitq[q], LAMBDA u : td_timer[u] = tn)]

\* The callback NutEventTimeout(timer, q): the thread of q waiting for this
\* timer leaves the queue and finds its handle SIGNALED.
EventTimeout(tn, q) ==
    IF WaitsFor(tn, q)
    THEN LET t == WaiterFor(tn, q)
         IN  /\ LeaveQueue(t, q)
             /\ td_state' = [td_state EXCEPT ![t] = "READY"]
             /\ td_queue' = [td_queue EXCEPT ![t] = RunQueue]
             /\ runQueue' = Enqueued(runQueue, t, td_priority)
             /\ td_timer' = [td_timer EXCEPT ![t] = SIGNALED]
    ELSE UNCHANGED <<eventVars, td_state, td_queue, runQueue, td_timer>>

\* The callback NutThreadWake(timer, t) of NutSleep.
ThreadWake(t) ==
    /\ td_timer' = [td_timer EXCEPT ![t] = NIL]
    /\ td_state' = [td_state EXCEPT ![t] = "READY"]
    /\ td_queue' = [td_queue EXCEPT ![t] = RunQueue]
    /\ runQueue' = Enqueued(runQueue, t, td_priority)
    /\ UNCHANGED eventVars

\* One round of NutTimerProcessElapsed whose first timer elapses: callback,
\* unlink, free.  All other timers come nearer by the same ticks.
TimerElapse ==
    /\ pc = "elapsed" /\ timerList # <<>> /\ ticksNew > 0
    /\ LET tn == Head(timerList) IN
       /\ timeLeft[tn] <= ticksNew
       /\ ticksNew' = ticksNew - timeLeft[tn]
       /\ timeLeft' = [u \in Timer |-> IF u \in ToSet(timerList)
                                       THEN timeLeft[u] - timeLeft[tn] ELSE timeLeft[u]]
       /\ timerList' = Tail(timerList)
       /\ tn_callback' = [tn_callback EXCEPT ![tn] = NIL]
       /\ tn_arg' = [tn_arg EXCEPT ![tn] = NIL]
       /\ \/ /\ tn_callback[tn] = NIL
             /\ UNCHANGED <<eventVars, td_state, td_queue, runQueue, td_timer>>
          \/ tn_callback[tn] = "NutEventTimeout" /\ EventTimeout(tn, tn_arg[tn])
          \/ tn_callback[tn] = "NutThreadWake" /\ ThreadWake(tn_arg[tn])
    /\ UNCHANGED <<nutThreadList, runningThread, killedThread, td_priority, waiting,
                   lag, pc, api, qhp, ms, scan>>

\* The last round: the ticks are used up, or no timer is left.
TimersDone ==
    /\ pc = "elapsed"
    /\ timerList # <<>> => timeLeft[Head(timerList)] > ticksNew \/ ticksNew = 0
    /\ timeLeft' = [u \in Timer |-> IF u \in ToSet(timerList)
                                    THEN timeLeft[u] - ticksNew ELSE timeLeft[u]]
    /\ ticksNew' = 0
    /\ pc' = "switch"
    /\ UNCHANGED <<threadVars, eventVars, td_timer, timerList, tn_callback, tn_arg, lag,
                   api, qhp, ms, scan>>

\* Seeded fault: the thread that loses the CPU stays RUNNING.
SwitchedStatesNew(r, n) == [td_state EXCEPT ![n] = "RUNNING"]

\* The thread states when r hands the CPU to n.
SwitchedStates(r, n) ==
    IF r = n THEN td_state
    ELSE [td_state EXCEPT ![r] = IF @ = "RUNNING" THEN "READY" ELSE @, ![n] = "RUNNING"]

\* The end of NutThreadResume: switch if another thread is in front.
ResumeSwitch ==
    /\ pc = "switch"
    /\ LET r == runningThread
           n == Head(runQueue)
       IN
       /\ SwitchTo(n)
       /\ td_state' = SwitchedStates(r, n)
    /\ UNCHANGED <<nutThreadList, runQueue, killedThread, td_priority, td_queue,
                   waiting, eventVars, timerVars, lag, api, qhp, ms, scan, ticksNew>>

-----------------------------------------------------------------------------
(* Threads.                                                                *)

NutThreadYield ==
    /\ AppRuns
    /\ runQueue' = Yielded(runQueue)
    /\ pc' = "resume"
    /\ scan' = nutThreadList
    /\ UNCHANGED <<nutThreadList, runningThread, killedThread, td_priority, td_state,
                   td_queue, waiting, eventVars, timerVars, lag, api, qhp, ms, ticksNew>>

\* The endless loop of NutIdle: NutThreadYield, then NutThreadDestroy when the
\* CPU comes back.  A round of the model starts at NutThreadDestroy, which has
\* nothing to release before the first NutThreadYield.
IdleLoop ==
    /\ pc = "user" /\ runningThread = Idle
    /\ killedThread' = NIL
    /\ runQueue' = Yielded(runQueue)
    /\ pc' = "resume"
    /\ scan' = nutThreadList
    /\ UNCHANGED <<nutThreadList, runningThread, td_priority, td_state, td_queue,
                   waiting, eventVars, timerVars, lag, api, qhp, ms, ticksNew>>

\* Seeded fault: the failed NutSleep leaves its thread out of the run queue.
PutBackForgotten(r, rest) == rest

\* The run queue after a failed NutSleep.
PutBack(r, rest) == <<r>> \o rest

\* NutSleep(ms), ms > 0.  Without memory for the timer the thread is put back
\* in front of the run queue.
NutSleep(ticks) ==
    /\ AppRuns
    /\ LET r    == runningThread
           rest == Dequeued(runQueue, r)
       IN
       \E handle \in Timer \cup {NIL} :
          /\ TimerStart(ticks, "NutThreadWake", r, handle)
          /\ td_timer' = [td_timer EXCEPT ![r] = handle]
          /\ IF handle # NIL
             THEN /\ runQueue' = rest
                  /\ td_queue' = [td_queue EXCEPT ![r] = NIL]
                  /\ td_state' = [td_state EXCEPT ![r] = "SLEEP"]
                  /\ pc' = "resume"
                  /\ scan' = nutThreadList
             ELSE /\ runQueue' = PutBack(r, rest)
                  /\ td_queue' = [td_queue EXCEPT ![r] = RunQueue]
                  /\ td_state' = [td_state EXCEPT ![r] = "RUNNING"]
                  /\ UNCHANGED <<pc, scan>>
    /\ UNCHANGED <<nutThreadList, runningThread, killedThread, td_priority, waiting,
                   eventVars, lag, api, qhp, ms, ticksNew>>

\* NutThreadSetPriority(level), level < 255: requeue, and switch at once (no
\* NutThreadResume) if the caller is no longer in front.
NutThreadSetPriority(level) ==
    /\ AppRuns
    /\ LET r  == runningThread
           pr == [td_priority EXCEPT ![r] = level]
           rq == Enqueued(Dequeued(runQueue, r), r, pr)
           n  == Head(rq)
       IN
       /\ td_priority' = pr
       /\ runQueue' = rq
       /\ td_state' = IF n = r THEN [td_state EXCEPT ![r] = "RUNNING"]
                      ELSE [td_state EXCEPT ![r] = "READY", ![n] = "RUNNING"]
       /\ SwitchTo(n)
    /\ UNCHANGED <<nutThreadList, killedThread, td_queue, waiting, eventVars, timerVars,
                   lag, api, qhp, ms, scan, ticksNew>>

\* NutThreadExit, NutThreadSetPriority(255): NutThreadKill releases the thread
\* killed before, unlinks the caller and leaves its memory to killedThread.
\* The dead thread's td_priority is never read again and stays here as it was.
NutThreadExit ==
    /\ AppRuns
    /\ LET r == runningThread
           n == Head(Dequeued(runQueue, r))
       IN
       /\ runQueue' = Dequeued(runQueue, r)
       /\ nutThreadList' = Dequeued(nutThreadList, r)
       /\ killedThread' = r
       /\ td_queue' = [td_queue EXCEPT ![r] = NIL]
       /\ td_state' = [td_state EXCEPT ![r] = "READY", ![n] = "RUNNING"]
       /\ SwitchTo(n)
    /\ UNCHANGED <<td_priority, waiting, eventVars, timerVars, lag, api, qhp, ms, scan,
                   ticksNew>>

\* NutThreadCreate: a new thread at the default priority; the caller loses the
\* CPU only if the new thread is the first in the run queue.
NutThreadCreate(t) ==
    /\ AppRuns
    /\ t \notin ToSet(nutThreadList) \cup {killedThread}
    /\ LET r  == runningThread
           pr == [td_priority EXCEPT ![t] = Default]
           rq == Enqueued(runQueue, t, pr)
           n  == Head(rq)
       IN
       /\ td_priority' = pr
       /\ nutThreadList' = <<t>> \o nutThreadList
       /\ runQueue' = rq
       /\ td_queue' = [td_queue EXCEPT ![t] = RunQueue]
       /\ td_timer' = [td_timer EXCEPT ![t] = NIL]
       /\ td_qpec' = [td_qpec EXCEPT ![t] = 0]
       /\ td_state' = IF n = r THEN [td_state EXCEPT ![t] = "READY"]
                      ELSE [td_state EXCEPT ![r] = "READY", ![t] = "READY", ![n] = "RUNNING"]
       /\ SwitchTo(n)
    /\ UNCHANGED <<killedThread, waiting, waitq, signaled, tnVars, lag, api, qhp, ms, scan, ticksNew>>

-----------------------------------------------------------------------------

Interrupt == IrqTick \/ \E q \in Queue : IrqPost(q)

\* What the application does when it has the CPU.
UserCall ==
    \/ \E q \in Queue, d \in Delay : NutEventWait(q, d) \/ NutEventWaitNext(q, d)
    \/ \E q \in Queue, f \in {"NutEventPostAsync", "NutEventPost"} : PostCall(f, q)
    \/ \E q \in Queue, f \in Bcast : BroadcastCall(f, q)
    \/ NutThreadYield
    \/ \E d \in Delay \ {0} : NutSleep(d)
    \/ \E l \in Level : NutThreadSetPriority(l)
    \/ NutThreadExit
    \/ \E t \in App : NutThreadCreate(t)

\* Kernel code that runs once a call is under way.
KernelStep ==
    \/ WaitReadRoot \/ ClearRoot \/ Enqueue \/ WaitReturn
    \/ SignalRoot \/ WakeHead
    \/ ResumeScan \/ ResumeTicks \/ TimerElapse \/ TimersDone \/ ResumeSwitch

Next == Interrupt \/ UserCall \/ KernelStep \/ IdleLoop

Spec == Init /\ [][Next]_vars

-----------------------------------------------------------------------------
(* Properties.                                                             *)

\* Every variable has its type: the queues hold threads, the timer list holds
\* timers, the local variables belong to the function in progress.
TypeOK ==
    /\ nutThreadList \in Seq(Thread)
    /\ runningThread \in Thread
    /\ runQueue \in Seq(Thread)
    /\ killedThread \in Thread \cup {NIL}
    /\ waitq \in [Queue -> Seq(Thread)]
    /\ signaled \in SUBSET Queue
    /\ td_priority \in [Thread -> Nat]
    /\ td_state \in [Thread -> {"RUNNING", "READY", "SLEEP"}]
    /\ td_qpec \in [Thread -> Nat]
    /\ td_queue \in [Thread -> Queue \cup {RunQueue, NIL}]
    /\ td_timer \in [Thread -> Handle \cup {SIGNALED}]
    /\ waiting \in SUBSET Thread
    /\ timerList \in Seq(Timer)
    /\ timeLeft \in [Timer -> Nat]
    /\ tn_callback \in [Timer -> Callback \cup {NIL}]
    /\ tn_arg \in [Timer -> Queue \cup Thread \cup {NIL}]
    /\ lag \in Nat
    /\ pc \in Position
    /\ api \in Caller \cup {NIL}
    /\ qhp \in Queue \cup {NIL}
    /\ ms \in Nat
    /\ scan \in Seq(Thread)
    /\ ticksNew \in Nat

Live == ToSet(nutThreadList)

\* t sleeps in NutSleep and its timer is going to wake it.
Asleep(t) ==
    /\ td_timer[t] \in ToSet(timerList)
    /\ tn_callback[td_timer[t]] = "NutThreadWake" /\ tn_arg[td_timer[t]] = t

\* t waits in its queue with a timer of NutEventWait.
Timed(t) ==
    /\ td_timer[t] \in ToSet(timerList) /\ td_queue[t] \in Queue
    /\ tn_callback[td_timer[t]] = "NutEventTimeout" /\ tn_arg[td_timer[t]] = td_queue[t]

\* No thread gets lost or linked twice (thread.c, event.c, timer.c): a created
\* thread is in exactly the queue its td_queue names and there once, or in
\* none and a NutSleep timer is going to wake it; a thread that was killed is in
\* no queue; the idle thread ends the run queue.
ThreadsPlaced ==
    /\ IsInjective(nutThreadList) /\ IsInjective(runQueue)
    /\ \A q \in Queue : IsInjective(waitq[q])
    /\ \A q \in Queue : \A t \in ToSet(waitq[q]) : t \in Live /\ td_queue[t] = q
    /\ \A t \in ToSet(runQueue) : t \in Live /\ td_queue[t] = RunQueue
    /\ \A t \in Live :
          /\ td_queue[t] \in Queue => t \in ToSet(waitq[td_queue[t]])
          /\ td_queue[t] = RunQueue => t \in ToSet(runQueue)
          /\ td_queue[t] = NIL => Asleep(t)
    /\ runQueue # <<>> /\ Last(runQueue) = Idle

\* Timer handles never dangle (event.c:309, 415, 243; timer.c:645): a handle in
\* td_timer is a timer still in the list whose callback finds exactly that
\* thread, and a timer with a callback is the timer of a thread.
HandlesValid ==
    /\ IsInjective(timerList)
    /\ \A t \in Thread : td_timer[t] \in Timer =>
          t \in Live /\ (Timed(t) \/ (Asleep(t) /\ td_queue[t] = NIL))
    /\ \A t, u \in Thread : td_timer[t] \in Timer /\ td_timer[t] = td_timer[u] => t = u
    /\ \A tn \in ToSet(timerList) : tn_callback[tn] # NIL => \E t \in Live : td_timer[t] = tn
    /\ \A t \in Thread : td_queue[t] \in Queue => td_timer[t] # SIGNALED

\* Only the first waiter of a queue carries pending events, and a signaled queue
\* has no waiters.  NutEventPostFromIrq, NutEventPostAsync, NutEventTimeout and
\* NutThreadResume (which posts to td_queue and means td) rely on it.
PendingAtHead ==
    /\ \A t \in Thread : td_qpec[t] > 0 =>
          td_queue[t] \in Queue /\ waitq[td_queue[t]] # <<>> /\ Head(waitq[td_queue[t]]) = t
    /\ \A q \in signaled : waitq[q] = <<>>

\* A wait queue is ordered by priority, so that the first waiter is a most
\* urgent one (NutThreadAddPriQueue), whatever the threads did to their
\* priorities before they waited.
WaitersOrdered == \A q \in Queue : PriorityOrdered(waitq[q], td_priority)

\* The running thread executes its own code or a function it has called, up to
\* the NutThreadResume that may find it gone from the run queue.
ThreadCode ==
    \/ pc \in {"user", "wait", "clear", "enqueue", "signal", "return"}
    \/ pc = "wake" /\ api # "NutThreadResume"

\* What the code relies on without checking it: the idle thread is the least
\* urgent one; a function that is about to wake or to signal finds the queue as
\* it has read it, although interrupts have run since; only a thread in the run
\* queue executes.
ControlOK ==
    /\ td_priority[Idle] = Lowest /\ \A t \in App : td_priority[t] < Lowest
    /\ pc \in {"wait", "clear", "enqueue", "signal", "wake"} => qhp \in Queue
    /\ pc = "wake" => waitq[qhp] # <<>>
    /\ pc = "signal" => waitq[qhp] = <<>>
    /\ ThreadCode => runningThread \in ToSet(runQueue)
    /\ pc \in {"wait", "enqueue"} => runningThread \in App

\* td_state tells where the thread is: asleep exactly if it is not in the run
\* queue, RUNNING only if it has the CPU.
StatesAgree ==
    \A t \in Live :
        /\ td_state[t] = "SLEEP" <=> t \notin ToSet(runQueue)
        /\ td_state[t] = "RUNNING" => t = runningThread

\* The timer list is ordered by expiry (NutTimerInsert, NutTimerStop).
TimersOrdered == PriorityOrdered(timerList, timeLeft)

\* thread.c:266: the run queue is a "Priority ordered linked list".
RunQueueOrdered == pc = "user" => PriorityOrdered(runQueue, td_priority)

\* While there is memory for a timer, no step disorders the run queue: the
\* failure path of NutSleep (timer.c:652) is the only one that can.
OrderKept ==
    [][PriorityOrdered(runQueue, td_priority) /\ ToSet(timerList) # Timer
          => PriorityOrdered(runQueue', td_priority')]_vars

=============================================================================
