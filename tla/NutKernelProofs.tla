-------------------------- MODULE NutKernelProofs ---------------------------
(***************************************************************************)
(* The safety invariants of the kernel hold for any number of threads,     *)
(* queues and timers, any priorities, timeouts and bounds; and the kernel  *)
(* implements the abstract event queues.                                   *)
(***************************************************************************)
EXTENDS NutKernelRefinement, PriQueueProofs

\* The inductive invariant.
IInv ==
    /\ TypeOK
    /\ ControlOK
    /\ ThreadsPlaced
    /\ HandlesValid
    /\ PendingAtHead
    /\ WaitersOrdered
    /\ TimersOrdered

\* The inductive invariant holds after boot.
LEMMA InitIInv == Init => IInv
<1> SUFFICES ASSUME Init PROVE IInv
  OBVIOUS
<1> USE ThreadAssumption, PointerAssumption, PriorityAssumption, BoundAssumption
<1>1. /\ runQueue \in Seq(Thread) /\ nutThreadList \in Seq(Thread)
      /\ Main \in Thread /\ Idle \in Thread /\ Main # Idle
  BY DEF Init, Thread
<1>2. ToSet(runQueue) = {Main, Idle} /\ ToSet(nutThreadList) = {Main, Idle}
  BY DEF Init, ToSet
<1>3. TypeOK
  BY <1>1 DEF Init, TypeOK, Position, Handle, Thread
<1>4. ControlOK
  BY <1>1, <1>2 DEF Init, ControlOK, ThreadCode, Thread
<1>5. /\ IsInjective(nutThreadList) /\ IsInjective(runQueue)
      /\ runQueue # <<>> /\ Last(runQueue) = Idle
  BY <1>1 DEF Init, IsInjective, Last
<1>6. \A q \in Queue : IsInjective(waitq[q]) /\ ToSet(waitq[q]) = {}
  BY DEF Init, IsInjective, ToSet
<1>7. ThreadsPlaced
  BY <1>1, <1>2, <1>5, <1>6 DEF Init, ThreadsPlaced, Live
<1>8. HandlesValid
  BY <1>1 DEF Init, HandlesValid, IsInjective, ToSet
<1>9. PendingAtHead
  BY DEF Init, PendingAtHead
<1>10. WaitersOrdered /\ TimersOrdered
  BY DEF Init, WaitersOrdered, TimersOrdered, PriorityOrdered
<1> QED BY <1>3, <1>4, <1>7, <1>8, <1>9, <1>10 DEF IInv

-----------------------------------------------------------------------------
(* The run queue.                                                          *)

\* The idle thread is always ready, and no other thread is as little urgent.
LEMMA IdleReady ==
    ASSUME TypeOK, ControlOK, ThreadsPlaced
    PROVE  /\ Idle \in ToSet(runQueue) /\ td_queue[Idle] = RunQueue
           /\ Idle \in Live
           /\ \A t \in Thread \ {Idle} : td_priority[Idle] > td_priority[t]
<1>1. runQueue \in Seq(Thread) /\ runQueue # <<>> /\ Last(runQueue) = Idle
  BY DEF TypeOK, ThreadsPlaced
<1>2. Idle \in ToSet(runQueue)
  BY <1>1, LastOf
<1>3. td_queue[Idle] = RunQueue /\ Idle \in Live
  BY <1>2 DEF ThreadsPlaced
<1>4. \A t \in Thread \ {Idle} : td_priority[Idle] > td_priority[t]
  BY PriorityAssumption DEF TypeOK, ControlOK, Thread
<1> QED BY <1>2, <1>3, <1>4

\* A thread that is not in the run queue can be added to it.
LEMMA RunQueueAdd ==
    ASSUME NEW rq \in Seq(Thread), NEW t \in Thread, NEW prio,
           IsInjective(rq), t \notin ToSet(rq), rq # <<>>, Last(rq) = Idle,
           prio[Idle] > prio[t]
    PROVE  LET e == Enqueued(rq, t, prio) IN
           /\ e \in Seq(Thread) /\ IsInjective(e) /\ e # <<>> /\ Last(e) = Idle
           /\ ToSet(e) = ToSet(rq) \cup {t}
<1> DEFINE e == Enqueued(rq, t, prio)
<1>1. e \in Seq(Thread) /\ e # <<>> /\ ToSet(e) = ToSet(rq) \cup {t}
  BY EnqueuedSet
<1>2. IsInjective(e)
  BY EnqueuedInjective
<1>3. Last(e) = Idle
  BY EnqueuedLast
<1> QED BY <1>1, <1>2, <1>3

\* A thread other than the idle thread can be taken off the run queue.
LEMMA RunQueueRemove ==
    ASSUME NEW rq \in Seq(Thread), NEW t \in Thread,
           IsInjective(rq), rq # <<>>, Last(rq) = Idle, t # Idle
    PROVE  LET e == Dequeued(rq, t) IN
           /\ e \in Seq(Thread) /\ IsInjective(e) /\ e # <<>> /\ Last(e) = Idle
           /\ ToSet(e) = ToSet(rq) \ {t}
  BY DequeuedSet, DequeuedLast

\* NutThreadYield keeps the threads of the run queue and the idle thread last.
LEMMA YieldedKeeps ==
    ASSUME TypeOK, NEW rq \in Seq(Thread),
           IsInjective(rq), rq # <<>>, Last(rq) = Idle, runningThread \in ToSet(rq),
           \A t \in Thread \ {Idle} : td_priority[Idle] > td_priority[t]
    PROVE  LET e == Yielded(rq) IN
           /\ e \in Seq(Thread) /\ IsInjective(e) /\ e # <<>> /\ Last(e) = Idle
           /\ ToSet(e) = ToSet(rq)
<1> DEFINE r == runningThread
           d == Dequeued(rq, r)
<1>1. r \in Thread
  BY DEF TypeOK
<1>2. CASE r = Idle
  BY <1>2 DEF Yielded, Last
<1>3. CASE r # Idle
  <2>1. /\ d \in Seq(Thread) /\ IsInjective(d) /\ d # <<>> /\ Last(d) = Idle
        /\ ToSet(d) = ToSet(rq) \ {r}
    BY <1>1, <1>3, RunQueueRemove
  <2>2. Yielded(rq) = Enqueued(d, r, td_priority)
    BY <1>3 DEF Yielded, Last
  <2> HIDE DEF d
  <2>3. r \notin ToSet(d) /\ td_priority[Idle] > td_priority[r]
    BY <1>1, <1>3, <2>1
  <2>4. ToSet(Enqueued(d, r, td_priority)) = ToSet(d) \cup {r}
    BY <1>1, <2>1, <2>3, RunQueueAdd
  <2>5. LET e == Enqueued(d, r, td_priority) IN
        e \in Seq(Thread) /\ IsInjective(e) /\ e # <<>> /\ Last(e) = Idle
    BY <1>1, <2>1, <2>3, RunQueueAdd
  <2> QED BY <2>1, <2>2, <2>4, <2>5
<1> QED BY <1>2, <1>3

-----------------------------------------------------------------------------
(* Steps that move no thread and no timer.                                 *)

\* The run queue rq holds the threads it should hold, the idle thread last.
RunQueueOK(rq) ==
    /\ rq \in Seq(Thread) /\ IsInjective(rq) /\ rq # <<>> /\ Last(rq) = Idle
    /\ ToSet(rq) = ToSet(runQueue)

\* The run queue of a good state is a good run queue.
LEMMA RunQueueSame == ASSUME IInv PROVE RunQueueOK(runQueue)
  BY DEF IInv, TypeOK, ThreadsPlaced, RunQueueOK

\* So is the one NutThreadYield leaves behind.
LEMMA YieldedSame ==
    ASSUME IInv, runningThread \in ToSet(runQueue)
    PROVE  RunQueueOK(Yielded(runQueue))
<1>1. /\ runQueue \in Seq(Thread) /\ IsInjective(runQueue)
      /\ runQueue # <<>> /\ Last(runQueue) = Idle
  BY DEF IInv, TypeOK, ThreadsPlaced
<1>2. \A t \in Thread \ {Idle} : td_priority[Idle] > td_priority[t]
  BY IdleReady DEF IInv
<1> QED BY <1>1, <1>2, YieldedKeeps DEF IInv, RunQueueOK

\* A step that at most reorders the run queue and changes local variables.
LEMMA QuietStep ==
    ASSUME IInv, TypeOK', ControlOK', RunQueueOK(runQueue'),
           UNCHANGED <<nutThreadList, waitq, td_queue, td_timer, tnVars, td_priority>>,
           PendingAtHead'
    PROVE  IInv'
<1>1. ThreadsPlaced'
  BY DEF IInv, RunQueueOK, ThreadsPlaced, Live, Asleep, tnVars
<1>2. HandlesValid'
  BY DEF IInv, HandlesValid, Timed, Asleep, Live, tnVars
<1>3. WaitersOrdered' /\ TimersOrdered'
  BY DEF IInv, WaitersOrdered, TimersOrdered, tnVars
<1> QED BY <1>1, <1>2, <1>3 DEF IInv

\* Clearing signaled roots leaves the pending events at the heads of their queues.
LEMMA PendingSame ==
    ASSUME PendingAtHead, UNCHANGED <<waitq, td_queue, td_qpec>>, signaled' \subseteq signaled
    PROVE  PendingAtHead'
  BY DEF PendingAtHead

\* NutTimerIntr preserves the inductive invariant.
LEMMA IrqTickStep == ASSUME IInv, IrqTick PROVE IInv'
<1>1. TypeOK'
  BY DEF IInv, TypeOK, IrqTick, threadVars, eventVars, timerVars, tnVars, cpuVars
<1>2. ControlOK'
  BY DEF IInv, ControlOK, ThreadCode, IrqTick, threadVars, eventVars, cpuVars
<1>3. RunQueueOK(runQueue')
  BY RunQueueSame DEF IrqTick, threadVars
<1>4. PendingAtHead'
  BY PendingSame DEF IInv, IrqTick, threadVars, eventVars
<1> QED BY <1>1, <1>2, <1>3, <1>4, QuietStep DEF IrqTick, threadVars, eventVars, timerVars

\* NutEventPostFromIrq finds either an empty queue or a first waiter to count on.
LEMMA IrqPostStep == ASSUME IInv, NEW q \in Queue, IrqPost(q) PROVE IInv'
<1>0. /\ waitq \in [Queue -> Seq(Thread)] /\ td_qpec \in [Thread -> Nat]
      /\ td_queue \in [Thread -> Queue \cup {RunQueue, NIL}] /\ signaled \in SUBSET Queue
  BY DEF IInv, TypeOK
<1>1. CASE waitq[q] = <<>>
  <2>0. signaled' = signaled \cup {q} /\ UNCHANGED td_qpec
    BY <1>1 DEF IrqPost
  <2>1. TypeOK'
    BY <1>0, <2>0 DEF IInv, TypeOK, IrqPost, threadVars, timerVars, tnVars, cpuVars
  <2>2. ControlOK'
    BY DEF IInv, ControlOK, ThreadCode, IrqPost, threadVars, cpuVars
  <2>3. RunQueueOK(runQueue')
    BY RunQueueSame DEF IrqPost, threadVars
  <2>4. PendingAtHead'
    BY <1>0, <1>1, <2>0 DEF IInv, PendingAtHead, IrqPost, threadVars
  <2> QED BY <2>1, <2>2, <2>3, <2>4, QuietStep DEF IrqPost, threadVars, timerVars
<1>2. CASE waitq[q] # <<>>
  <2> DEFINE td == Head(waitq[q])
  <2>0. td_qpec' = [td_qpec EXCEPT ![td] = @ + 1] /\ UNCHANGED signaled
    BY <1>2 DEF IrqPost
  <2>5. td \in Thread /\ td \in ToSet(waitq[q])
    BY <1>0, <1>2, HeadOf
  <2>6. td_queue[td] = q
    BY <2>5 DEF IInv, ThreadsPlaced
  <2> HIDE DEF td
  <2>1. TypeOK'
    <3>1. td_qpec' \in [Thread -> Nat]
      BY <1>0, <2>0, <2>5
    <3>2. signaled' \in SUBSET Queue
      BY <1>0, <2>0
    <3> QED BY <3>1, <3>2 DEF IInv, TypeOK, IrqPost, threadVars, timerVars, tnVars, cpuVars
  <2>2. ControlOK'
    BY DEF IInv, ControlOK, ThreadCode, IrqPost, threadVars, cpuVars
  <2>3. RunQueueOK(runQueue')
    BY RunQueueSame DEF IrqPost, threadVars
  <2>4. PendingAtHead'
    <3>1. \A t \in Thread : t # td => td_qpec'[t] = td_qpec[t]
      BY <1>0, <2>0
    <3>2. Head(waitq[td_queue[td]]) = td /\ waitq[td_queue[td]] # <<>>
      BY <1>2, <2>6 DEF td
    <3> QED BY <2>0, <2>6, <3>1, <3>2 DEF IInv, PendingAtHead, IrqPost, threadVars
  <2> QED BY <2>1, <2>2, <2>3, <2>4, QuietStep DEF IrqPost, threadVars, timerVars
<1> QED BY <1>1, <1>2


\* The entries of NutEventWait and NutEventWaitNext preserve it.
LEMMA NutEventWaitStep ==
    ASSUME IInv, NEW q \in Queue, NEW d \in Delay, NutEventWait(q, d) \/ NutEventWaitNext(q, d)
    PROVE  IInv'
<1>0. /\ pc' = "wait" /\ qhp' = q /\ ms' = d /\ api' = "NutEventWait"
      /\ signaled' \in {signaled, signaled \ {q}}
      /\ runningThread \in App /\ pc = "user"
      /\ UNCHANGED <<threadVars, waitq, td_qpec, timerVars, lag, scan, ticksNew>>
  BY DEF NutEventWait, NutEventWaitNext, AppRuns, eventVars
<1>1. TypeOK'
  <2>1. d \in Nat
    BY BoundAssumption
  <2> QED BY <1>0, <2>1 DEF IInv, TypeOK, threadVars, timerVars, tnVars, Position, Caller, Yielding
<1>2. ControlOK'
  BY <1>0 DEF IInv, ControlOK, ThreadCode, threadVars
<1>3. RunQueueOK(runQueue')
  BY <1>0, RunQueueSame DEF threadVars
<1>4. PendingAtHead'
  BY <1>0, PendingSame DEF IInv, threadVars
<1> QED BY <1>0, <1>1, <1>2, <1>3, <1>4, QuietStep DEF threadVars, timerVars

\* Reading the root in NutEventWait preserves it.
LEMMA WaitReadRootStep == ASSUME IInv, WaitReadRoot PROVE IInv'
<1>0. /\ pc = "wait" /\ pc' \in {"clear", "enqueue"}
      /\ UNCHANGED <<threadVars, eventVars, timerVars, lag, api, qhp, ms, scan, ticksNew>>
  BY DEF WaitReadRoot
<1>1. TypeOK'
  BY <1>0 DEF IInv, TypeOK, threadVars, eventVars, timerVars, tnVars, Position
<1>2. ControlOK'
  BY <1>0 DEF IInv, ControlOK, ThreadCode, threadVars, eventVars
<1>3. RunQueueOK(runQueue')
  BY <1>0, RunQueueSame DEF threadVars
<1>4. PendingAtHead'
  BY <1>0, PendingSame DEF IInv, threadVars, eventVars
<1> QED BY <1>0, <1>1, <1>2, <1>3, <1>4, QuietStep DEF threadVars, eventVars, timerVars

\* What Leave does when the run queue holds the running thread.
LEMMA LeaveSame ==
    ASSUME IInv, runningThread \in ToSet(runQueue), NEW f, Leave(f, runQueue)
    PROVE  /\ RunQueueOK(runQueue') /\ pc' \in {"user", "resume"}
           /\ api' = NIL /\ qhp' = NIL /\ ms' = 0 /\ scan' \in Seq(Thread)
<1>1. runQueue' \in {runQueue, Yielded(runQueue)}
  BY DEF Leave
<1>2. RunQueueOK(runQueue')
  BY <1>1, RunQueueSame, YieldedSame
<1>3. scan' \in {scan, nutThreadList}
  BY DEF Leave
<1> QED BY <1>2, <1>3 DEF Leave, IInv, TypeOK

\* Steps that end in Leave with the run queue as it was.
LEMMA LeaveStep ==
    ASSUME IInv, runningThread \in ToSet(runQueue), NEW f, Leave(f, runQueue),
           UNCHANGED <<nutThreadList, runningThread, killedThread, td_priority, td_state,
                       td_queue, waiting, waitq, td_qpec, timerVars, lag, ticksNew>>,
           signaled' \in SUBSET Queue, PendingAtHead'
    PROVE  IInv'
<1>0. /\ RunQueueOK(runQueue') /\ pc' \in {"user", "resume"}
      /\ api' = NIL /\ qhp' = NIL /\ ms' = 0 /\ scan' \in Seq(Thread)
  BY LeaveSame
<1>1. TypeOK'
  BY <1>0 DEF IInv, TypeOK, timerVars, tnVars, Position, RunQueueOK
<1>2. ControlOK'
  BY <1>0 DEF IInv, ControlOK, ThreadCode, RunQueueOK
<1> QED BY <1>0, <1>1, <1>2, QuietStep DEF timerVars

\* Clearing a signaled root preserves it.
LEMMA ClearRootStep == ASSUME IInv, ClearRoot PROVE IInv'
<1>1. runningThread \in ToSet(runQueue)
  BY DEF IInv, ControlOK, ThreadCode, ClearRoot
<1>2. signaled' = signaled \ {qhp} /\ signaled \in SUBSET Queue
  BY DEF IInv, TypeOK, ClearRoot
<1>3. PendingAtHead'
  BY <1>2, PendingSame DEF IInv, ClearRoot
<1> QED BY <1>1, <1>2, <1>3, LeaveStep DEF ClearRoot

\* Marking the root signaled preserves it: no thread waits in the queue.
LEMMA SignalRootStep == ASSUME IInv, SignalRoot PROVE IInv'
<1>1. runningThread \in ToSet(runQueue) /\ qhp \in Queue /\ waitq[qhp] = <<>>
  BY DEF IInv, ControlOK, ThreadCode, SignalRoot
<1>2. signaled' = signaled \cup {qhp} /\ signaled \in SUBSET Queue
  BY DEF IInv, TypeOK, SignalRoot
<1>3. PendingAtHead'
  BY <1>1, <1>2 DEF IInv, PendingAtHead, SignalRoot
<1> QED BY <1>1, <1>2, <1>3, LeaveStep DEF SignalRoot

\* A post or broadcast that has to do something with queue q.
LEMMA CallStep ==
    ASSUME IInv, AppRuns, NEW q \in Queue, NEW f \in Caller,
           pc' \in {"signal", "wake", "clear"}, api' = f, qhp' = q, f # "NutThreadResume",
           pc' = "signal" => waitq[q] = <<>>, pc' = "wake" => waitq[q] # <<>>,
           UNCHANGED <<threadVars, scan, ms, eventVars, timerVars, lag, ticksNew>>
    PROVE  IInv'
<1>1. TypeOK'
  BY DEF IInv, TypeOK, threadVars, eventVars, timerVars, tnVars, Position
<1>2. ControlOK'
  BY DEF IInv, ControlOK, ThreadCode, AppRuns, threadVars, eventVars
<1>3. RunQueueOK(runQueue')
  BY RunQueueSame DEF threadVars
<1>4. PendingAtHead'
  BY PendingSame DEF IInv, threadVars, eventVars
<1> QED BY <1>1, <1>2, <1>3, <1>4, QuietStep DEF threadVars, eventVars, timerVars

\* The entries of NutEventPostAsync and NutEventPost preserve it.
LEMMA PostCallStep ==
    ASSUME IInv, NEW q \in Queue, NEW f \in {"NutEventPostAsync", "NutEventPost"}, PostCall(f, q)
    PROVE  IInv'
<1>1. runningThread \in ToSet(runQueue) /\ signaled \in SUBSET Queue
  BY DEF IInv, TypeOK, ControlOK, ThreadCode, PostCall, AppRuns
<1>2. CASE q \in signaled /\ Leave(f, runQueue)
  <2>1. PendingAtHead'
    BY PendingSame DEF IInv, PostCall, eventVars
  <2> QED BY <1>1, <1>2, <2>1, LeaveStep DEF PostCall, eventVars
<1>3. CASE /\ pc' = IF waitq[q] = <<>> THEN "signal" ELSE "wake"
           /\ api' = f /\ qhp' = q
           /\ UNCHANGED <<runQueue, scan, ms>>
  <2>1. f \in Caller /\ f # "NutThreadResume"
    BY DEF Caller, Async, Yielding
  <2>2. AppRuns /\ UNCHANGED <<threadVars, scan, ms, eventVars, timerVars, lag, ticksNew>>
    BY <1>3 DEF PostCall, threadVars
  <2> QED BY <1>3, <2>1, <2>2, CallStep
<1> QED BY <1>2, <1>3 DEF PostCall

\* The entries of the broadcasts preserve it.
LEMMA BroadcastCallStep ==
    ASSUME IInv, NEW q \in Queue, NEW f \in Bcast, BroadcastCall(f, q)
    PROVE  IInv'
<1>1. runningThread \in ToSet(runQueue) /\ signaled \in SUBSET Queue
  BY DEF IInv, TypeOK, ControlOK, ThreadCode, BroadcastCall, AppRuns
<1>2. CASE Leave(f, runQueue)
  <2>1. PendingAtHead'
    BY PendingSame DEF IInv, BroadcastCall, eventVars
  <2> QED BY <1>1, <1>2, <2>1, LeaveStep DEF BroadcastCall, eventVars
<1>3. CASE /\ q \in signaled \/ waitq[q] # <<>>
           /\ pc' = IF q \in signaled THEN "clear" ELSE "wake"
           /\ api' = f /\ qhp' = q
           /\ UNCHANGED <<runQueue, scan, ms>>
  <2>1. f \in Caller /\ f # "NutThreadResume"
    BY DEF Caller, Async, Yielding, Bcast
  <2>2. AppRuns /\ UNCHANGED <<threadVars, scan, ms, eventVars, timerVars, lag, ticksNew>>
    BY <1>3 DEF BroadcastCall, threadVars
  <2> QED BY <1>3, <2>1, <2>2, CallStep
<1> QED BY <1>2, <1>3 DEF BroadcastCall


\* A thread with pending events is in an event queue with somebody to wake.
LEMMA ResumeScanStep == ASSUME IInv, ResumeScan PROVE IInv'
<1> DEFINE td == Head(scan)
<1>0. /\ scan \in Seq(Thread) /\ scan # <<>> /\ td_qpec \in [Thread -> Nat]
      /\ td_queue \in [Thread -> Queue \cup {RunQueue, NIL}]
      /\ td \in Thread /\ pc = "resume"
      /\ UNCHANGED <<threadVars, waitq, signaled, timerVars, lag, ms, ticksNew>>
      /\ scan' \in Seq(Thread)
  BY DEF IInv, TypeOK, ResumeScan, HasPending
<1>1. RunQueueOK(runQueue')
  BY <1>0, RunQueueSame DEF threadVars
<1>2. CASE ~HasPending(td) /\ UNCHANGED <<td_qpec, pc, api, qhp>>
  <2>1. TypeOK'
    BY <1>0, <1>2 DEF IInv, TypeOK, threadVars, timerVars, tnVars
  <2>2. ControlOK'
    BY <1>0, <1>2 DEF IInv, ControlOK, ThreadCode, threadVars
  <2>3. PendingAtHead'
    BY <1>0, <1>2, PendingSame DEF IInv, threadVars
  <2> QED BY <1>0, <1>1, <2>1, <2>2, <2>3, QuietStep DEF threadVars, timerVars
<1>3. CASE /\ td_qpec[td] > 0
           /\ td_qpec' = [td_qpec EXCEPT ![td] = @ - 1]
           /\ qhp' = td_queue[td]
           /\ api' = "NutThreadResume"
           /\ pc' = "wake"
  <2>1. td_queue[td] \in Queue /\ waitq[td_queue[td]] # <<>>
    BY <1>0, <1>3 DEF IInv, PendingAtHead
  <2>2. /\ td_qpec' \in [Thread -> Nat]
        /\ \A t \in Thread : td_qpec'[t] > 0 => td_qpec[t] > 0
    <3>1. td_qpec[td] - 1 \in Nat
      BY <1>0, <1>3
    <3> QED BY <1>0, <1>3, <3>1
  <2>3. TypeOK'
    BY <1>0, <1>3, <2>1, <2>2
    DEF IInv, TypeOK, threadVars, timerVars, tnVars, Position, Caller
  <2>4. ControlOK'
    BY <1>0, <1>3, <2>1 DEF IInv, ControlOK, ThreadCode, threadVars
  <2>5. PendingAtHead'
    BY <1>0, <2>2 DEF IInv, PendingAtHead, threadVars
  <2> QED BY <1>0, <1>1, <2>3, <2>4, <2>5, QuietStep DEF threadVars, timerVars
<1> QED BY <1>2, <1>3 DEF ResumeScan, HasPending

\* Taking the new ticks preserves it.
LEMMA ResumeTicksStep == ASSUME IInv, ResumeTicks PROVE IInv'
<1>1. TypeOK'
  BY DEF IInv, TypeOK, ResumeTicks, threadVars, eventVars, timerVars, tnVars, Position
<1>2. ControlOK'
  BY DEF IInv, ControlOK, ThreadCode, ResumeTicks, threadVars, eventVars
<1>3. RunQueueOK(runQueue')
  BY RunQueueSame DEF ResumeTicks, threadVars
<1>4. PendingAtHead'
  BY PendingSame DEF IInv, ResumeTicks, threadVars, eventVars
<1> QED BY <1>1, <1>2, <1>3, <1>4, QuietStep DEF ResumeTicks, threadVars, eventVars, timerVars

\* NutThreadSwitch gives the CPU to a thread of the run queue.
LEMMA ResumeSwitchStep == ASSUME IInv, ResumeSwitch PROVE IInv'
<1> DEFINE n == Head(runQueue)
<1>0. n \in Thread /\ n \in ToSet(runQueue)
  BY HeadOf, RunQueueSame DEF RunQueueOK
<1>1. runningThread' = n /\ pc' \in {"return", "user"}
  BY DEF ResumeSwitch, SwitchTo
<1> HIDE DEF n
<1>2. TypeOK'
  <2>1. td_state' \in [Thread -> {"RUNNING", "READY", "SLEEP"}]
    BY DEF IInv, TypeOK, ResumeSwitch, SwitchedStates
  <2> QED BY <1>0, <1>1, <2>1
      DEF IInv, TypeOK, ResumeSwitch, eventVars, timerVars, tnVars, Position
<1>3. ControlOK'
  BY <1>0, <1>1 DEF IInv, ControlOK, ThreadCode, ResumeSwitch, eventVars
<1>4. RunQueueOK(runQueue')
  BY RunQueueSame DEF ResumeSwitch
<1>5. PendingAtHead'
  BY PendingSame DEF IInv, ResumeSwitch, eventVars
<1> QED BY <1>2, <1>3, <1>4, <1>5, QuietStep DEF ResumeSwitch, eventVars, timerVars

\* NutThreadYield, called by an application thread or by the idle thread.
LEMMA YieldStep == ASSUME IInv, NutThreadYield \/ IdleLoop PROVE IInv'
<1>0. /\ pc = "user" /\ runQueue' = Yielded(runQueue) /\ pc' = "resume"
      /\ scan' = nutThreadList /\ killedThread' \in {killedThread, NIL}
      /\ UNCHANGED <<nutThreadList, runningThread, td_priority, td_state, td_queue,
                     waiting, eventVars, timerVars, lag, api, qhp, ms, ticksNew>>
  BY DEF NutThreadYield, IdleLoop, AppRuns
<1>1. RunQueueOK(runQueue')
  BY <1>0, YieldedSame DEF IInv, ControlOK, ThreadCode
<1>2. TypeOK'
  BY <1>0, <1>1 DEF IInv, TypeOK, eventVars, timerVars, tnVars, Position, RunQueueOK
<1>3. ControlOK'
  BY <1>0, <1>1 DEF IInv, ControlOK, ThreadCode, eventVars
<1>4. PendingAtHead'
  BY <1>0, PendingSame DEF IInv, eventVars
<1> QED BY <1>0, <1>1, <1>2, <1>3, <1>4, QuietStep DEF eventVars, timerVars

\* The end of NutEventWait drops a SIGNALED timer handle.
LEMMA WaitReturnStep == ASSUME IInv, WaitReturn PROVE IInv'
<1> DEFINE r == runningThread
<1>0. /\ td_timer \in [Thread -> Handle \cup {SIGNALED}] /\ r \in Thread
      /\ pc = "return" /\ pc' = "user" /\ waiting' = waiting \ {r}
      /\ td_timer' = IF td_timer[r] = SIGNALED THEN [td_timer EXCEPT ![r] = NIL] ELSE td_timer
      /\ UNCHANGED <<nutThreadList, runningThread, runQueue, killedThread, td_priority,
                     td_state, td_queue, eventVars, tnVars, lag, api, qhp, ms, scan, ticksNew>>
  BY DEF IInv, TypeOK, WaitReturn
<1>1. /\ td_timer' \in [Thread -> Handle \cup {SIGNALED}]
      /\ \A t \in Thread : td_timer'[t] \in Timer \/ td_timer[t] \in Timer => td_timer'[t] = td_timer[t]
      /\ \A t \in Thread : td_timer'[t] = SIGNALED => td_timer[t] = SIGNALED
  BY <1>0, PointerAssumption DEF Handle
<1> HIDE DEF r
<1>2. TypeOK'
  BY <1>0, <1>1 DEF IInv, TypeOK, eventVars, tnVars, Position
<1>3. ControlOK'
  BY <1>0 DEF IInv, ControlOK, ThreadCode, eventVars
<1>4. ThreadsPlaced'
  <2>1. \A t \in Live : t \in Thread
    BY ToSetOf DEF IInv, TypeOK, Live
  <2>2. \A t \in Live : Asleep(t) => Asleep(t)'
    <3>1. timerList \in Seq(Timer)
      BY DEF IInv, TypeOK
    <3>2. ToSet(timerList) \subseteq Timer
      BY <3>1, ToSetOf
    <3> QED BY <1>0, <1>1, <2>1, <3>2 DEF Asleep, tnVars
  <2> QED BY <1>0, <2>2 DEF IInv, ThreadsPlaced, Live, eventVars
<1>5. HandlesValid'
  <2>0. ToSet(timerList) \subseteq Timer
    BY ToSetOf DEF IInv, TypeOK
  <2>1. ASSUME NEW t \in Thread, td_timer'[t] \in Timer
        PROVE  t \in Live' /\ (Timed(t)' \/ (Asleep(t)' /\ td_queue'[t] = NIL))
    <3>1. td_timer'[t] = td_timer[t]
      BY <1>1, <2>1
    <3> QED BY <1>0, <2>1, <3>1 DEF IInv, HandlesValid, Timed, Asleep, Live, tnVars
  <2>2. ASSUME NEW t \in Thread, NEW u \in Thread, td_timer'[t] \in Timer, td_timer'[t] = td_timer'[u]
        PROVE  t = u
    BY <1>1, <2>2 DEF IInv, HandlesValid
  <2>3. ASSUME NEW tn \in ToSet(timerList)', tn_callback'[tn] # NIL
        PROVE  \E t \in Live' : td_timer'[t] = tn
    <3>1. PICK t \in Live : td_timer[t] = tn
      BY <1>0, <2>3 DEF IInv, HandlesValid, tnVars
    <3>2. t \in Thread
      BY ToSetOf DEF IInv, TypeOK, Live
    <3>3. td_timer'[t] = tn
      BY <1>0, <1>1, <2>0, <2>3, <3>1, <3>2 DEF tnVars
    <3> QED BY <1>0, <3>3 DEF Live
  <2>4. ASSUME NEW t \in Thread, td_queue'[t] \in Queue PROVE td_timer'[t] # SIGNALED
    BY <1>0, <1>1, <2>4 DEF IInv, HandlesValid
  <2>5. IsInjective(timerList)'
    BY <1>0 DEF IInv, HandlesValid, tnVars
  <2> QED BY <2>1, <2>2, <2>3, <2>4, <2>5 DEF HandlesValid
<1>6. PendingAtHead'
  BY <1>0, PendingSame DEF IInv, eventVars
<1>7. WaitersOrdered' /\ TimersOrdered'
  BY <1>0 DEF IInv, WaitersOrdered, TimersOrdered, eventVars, tnVars
<1> QED BY <1>2, <1>3, <1>4, <1>5, <1>6, <1>7 DEF IInv


-----------------------------------------------------------------------------
(* Timers.                                                                 *)

\* The timer list after a step, and which timers it has left alone.
TimersWell ==
    /\ timerList \in Seq(Timer) /\ IsInjective(timerList)
    /\ timeLeft \in [Timer -> Nat]
    /\ tn_callback \in [Timer -> Callback \cup {NIL}]
    /\ tn_arg \in [Timer -> Queue \cup Thread \cup {NIL}]
    /\ TimersOrdered

\* Every timer of a good state is well.
LEMMA TimersWellNow == ASSUME IInv PROVE TimersWell
  BY DEF IInv, TypeOK, HandlesValid, TimersWell

SameTimer(tn) == tn_callback'[tn] = tn_callback[tn] /\ tn_arg'[tn] = tn_arg[tn]

\* What is new after a NutTimerStart that has returned `handle'.
Started(callback, arg, handle) ==
    /\ TimersWell'
    /\ handle \in Timer =>
          /\ handle \notin ToSet(timerList)
          /\ ToSet(timerList') = ToSet(timerList) \cup {handle}
          /\ tn_callback'[handle] = callback /\ tn_arg'[handle] = arg
    /\ handle \notin Timer => UNCHANGED timerList
    /\ \A tn \in Timer \ {handle} : SameTimer(tn)

\* NutTimerStart adds one timer, or there is no memory and nothing happens.
LEMMA TimerStartIs ==
    ASSUME IInv, NEW ticks \in Nat, NEW callback \in Callback, NEW arg \in Queue \cup Thread,
           NEW handle \in Timer \cup {NIL}, TimerStart(ticks, callback, arg, handle)
    PROVE  Started(callback, arg, handle)
<1> USE PointerAssumption
<1>0. TimersWell /\ lag \in Nat
  BY TimersWellNow DEF IInv, TypeOK
<1>1. CASE handle = NIL
  BY <1>0, <1>1 DEF TimerStart, TimersWell, TimersOrdered, tnVars, SameTimer, Started
<1>2. CASE handle \in Timer
  <2>1. /\ handle \notin ToSet(timerList)
        /\ timeLeft' = [timeLeft EXCEPT ![handle] = ticks + lag]
        /\ timerList' = Enqueued(timerList, handle, timeLeft')
        /\ tn_callback' = [tn_callback EXCEPT ![handle] = callback]
        /\ tn_arg' = [tn_arg EXCEPT ![handle] = arg]
    BY <1>2 DEF TimerStart
  <2>2. timeLeft' \in [Timer -> Nat]
    BY <1>0, <1>2, <2>1 DEF TimersWell
  <2>3. /\ timerList' \in Seq(Timer)
        /\ ToSet(timerList') = ToSet(timerList) \cup {handle}
    BY <1>0, <1>2, <2>1, EnqueuedSet DEF TimersWell
  <2>4. IsInjective(timerList')
    BY <1>0, <1>2, <2>1, EnqueuedInjective DEF TimersWell
  <2>5. PriorityOrdered(timerList, timeLeft')
    <3>1. \A u \in ToSet(timerList) : timeLeft'[u] = timeLeft[u]
      <4>1. ToSet(timerList) \subseteq Timer
        BY <1>0, ToSetOf DEF TimersWell
      <4> QED BY <1>0, <2>1, <4>1 DEF TimersWell
    <3> QED BY <1>0, <3>1, OrderedElsewhere DEF TimersWell, TimersOrdered
  <2>6. TimersOrdered'
    <3>1. PriorityOrdered(Enqueued(timerList, handle, timeLeft'), timeLeft')
      BY <1>0, <1>2, <2>2, <2>5, EnqueuedOrdered DEF TimersWell
    <3> QED BY <2>1, <3>1 DEF TimersOrdered
  <2>7. /\ tn_callback' \in [Timer -> Callback \cup {NIL}]
        /\ tn_arg' \in [Timer -> Queue \cup Thread \cup {NIL}]
        /\ tn_callback'[handle] = callback /\ tn_arg'[handle] = arg
        /\ \A tn \in Timer \ {handle} : SameTimer(tn)
    BY <1>0, <1>2, <2>1 DEF TimersWell, SameTimer
  <2> QED BY <1>2, <2>1, <2>2, <2>3, <2>4, <2>6, <2>7 DEF TimersWell, Started
<1> QED BY <1>1, <1>2

\* NutTimerStop leaves every timer in the list and takes away one callback.
LEMMA TimerStopIs ==
    ASSUME IInv, NEW tn \in ToSet(timerList), TimerStop(tn)
    PROVE  /\ TimersWell'
           /\ ToSet(timerList') = ToSet(timerList)
           /\ tn_callback'[tn] = NIL
           /\ \A u \in Timer \ {tn} : SameTimer(u)
<1>0. TimersWell /\ tn \in Timer /\ ToSet(timerList) \subseteq Timer
  BY TimersWellNow, ToSetOf DEF TimersWell
<1>1. /\ tn_callback' \in [Timer -> Callback \cup {NIL}]
      /\ tn_arg' \in [Timer -> Queue \cup Thread \cup {NIL}]
      /\ tn_callback'[tn] = NIL
      /\ \A u \in Timer \ {tn} : SameTimer(u)
  BY <1>0 DEF TimerStop, TimersWell, SameTimer
<1>2. CASE UNCHANGED <<timerList, timeLeft>>
  BY <1>0, <1>1, <1>2 DEF TimersWell, TimersOrdered
<1>3. CASE /\ timeLeft' = [timeLeft EXCEPT ![tn] = 0]
           /\ timerList' = Enqueued(Dequeued(timerList, tn), tn, timeLeft')
  <2> DEFINE d == Dequeued(timerList, tn)
  <2>1. timeLeft' \in [Timer -> Nat] /\ \A u \in Timer \ {tn} : timeLeft'[u] = timeLeft[u]
    BY <1>0, <1>3 DEF TimersWell
  <2>2. d \in Seq(Timer) /\ ToSet(d) = ToSet(timerList) \ {tn} /\ IsInjective(d)
    BY <1>0, DequeuedSet DEF TimersWell
  <2>3. PriorityOrdered(d, timeLeft)
    BY <1>0, DequeuedOrdered DEF TimersWell, TimersOrdered
  <2> HIDE DEF d
  <2>4. PriorityOrdered(d, timeLeft')
    <3>1. \A u \in ToSet(d) : timeLeft'[u] = timeLeft[u]
      BY <1>0, <2>1, <2>2
    <3> QED BY <2>2, <2>3, <3>1, OrderedElsewhere
  <2>5. timerList' = Enqueued(d, tn, timeLeft')
    BY <1>3 DEF d
  <2>6. timerList' \in Seq(Timer) /\ ToSet(timerList') = ToSet(d) \cup {tn}
    BY <1>0, <2>2, <2>5, EnqueuedSet
  <2>7. IsInjective(timerList')
    BY <1>0, <2>2, <2>5, EnqueuedInjective
  <2>8. TimersOrdered'
    <3>1. PriorityOrdered(Enqueued(d, tn, timeLeft'), timeLeft')
      BY <1>0, <2>1, <2>2, <2>4, EnqueuedOrdered
    <3> QED BY <2>5, <3>1 DEF TimersOrdered
  <2> QED BY <1>1, <2>1, <2>2, <2>6, <2>7, <2>8 DEF TimersWell
<1> QED BY <1>2, <1>3 DEF TimerStop

\* A timer that belongs to a thread is in the list and has a callback.
LEMMA HandleInList ==
    ASSUME IInv, NEW t \in Thread, td_timer[t] \in Timer
    PROVE  /\ td_timer[t] \in ToSet(timerList) /\ tn_callback[td_timer[t]] # NIL
           /\ t \in Live /\ td_queue[t] # RunQueue
  BY PointerAssumption DEF IInv, HandlesValid, Timed, Asleep


\* The handles stay valid when the running thread r starts a timer of its own.
LEMMA StartKeepsHandles ==
    ASSUME IInv, NEW r \in Live, r \in Thread, td_queue[r] = RunQueue,
           NEW callback, NEW arg, NEW handle \in Timer \cup {NIL},
           Started(callback, arg, handle), UNCHANGED nutThreadList,
           td_timer' = [td_timer EXCEPT ![r] = handle],
           \A t \in Thread \ {r} : td_queue'[t] = td_queue[t],
           handle \in Timer =>
               \/ callback = "NutEventTimeout" /\ arg = td_queue'[r] /\ arg \in Queue
               \/ callback = "NutThreadWake" /\ arg = r /\ td_queue'[r] = NIL
    PROVE  /\ HandlesValid'
           /\ \A t \in Live \ {r} : Asleep(t) => Asleep(t)'
           /\ handle \in Timer /\ callback = "NutThreadWake" => Asleep(r)'
<1> USE PointerAssumption
<1>0. /\ TimersWell' /\ ToSet(timerList) \subseteq Timer /\ Live \subseteq Thread /\ Live' = Live
      /\ td_timer \in [Thread -> Handle \cup {SIGNALED}]
  BY ToSetOf DEF IInv, TypeOK, Live, Started
<1>1. /\ ToSet(timerList) \subseteq ToSet(timerList')
      /\ \A tn \in ToSet(timerList) : tn # handle /\ SameTimer(tn)
      /\ \A tn \in ToSet(timerList') : tn \in ToSet(timerList) \/ (tn = handle /\ handle \in Timer)
  BY <1>0 DEF Started
<1>2. td_timer'[r] = handle /\ \A t \in Thread \ {r} : td_timer'[t] = td_timer[t]
  BY <1>0
<1>3. ASSUME NEW t \in Thread \ {r}, td_timer[t] \in Timer
      PROVE  /\ t \in Live' /\ (Timed(t)' \/ (Asleep(t)' /\ td_queue'[t] = NIL))
             /\ td_timer[t] # handle
  <2>1. td_timer[t] \in ToSet(timerList) /\ t \in Live
    BY <1>3, HandleInList
  <2>2. td_timer[t] # handle /\ SameTimer(td_timer[t]) /\ td_timer[t] \in ToSet(timerList')
    BY <1>1, <2>1
  <2>3. Timed(t) \/ (Asleep(t) /\ td_queue[t] = NIL)
    BY <1>3 DEF IInv, HandlesValid
  <2> QED BY <1>0, <1>2, <2>1, <2>2, <2>3 DEF Timed, Asleep, SameTimer
<1>4. handle \in Timer => Timed(r)' \/ (Asleep(r)' /\ td_queue'[r] = NIL)
  BY <1>2 DEF Timed, Asleep, Started
<1>5. IsInjective(timerList)'
  BY <1>0 DEF TimersWell
<1>6. ASSUME NEW t \in Thread, td_timer'[t] \in Timer
      PROVE  t \in Live' /\ (Timed(t)' \/ (Asleep(t)' /\ td_queue'[t] = NIL))
  BY <1>0, <1>2, <1>3, <1>4, <1>6
<1>7. ASSUME NEW t \in Thread, NEW u \in Thread, td_timer'[t] \in Timer, td_timer'[t] = td_timer'[u]
      PROVE  t = u
  <2>1. CASE t # r /\ u # r
    BY <1>2, <1>7, <2>1 DEF IInv, HandlesValid
  <2>2. CASE t = r \/ u = r
    BY <1>2, <1>3, <1>7, <2>2
  <2> QED BY <2>1, <2>2
<1>8. ASSUME NEW tn \in ToSet(timerList'), tn_callback'[tn] # NIL
      PROVE  \E t \in Live' : td_timer'[t] = tn
  <2>1. CASE tn \in ToSet(timerList)
    <3>1. PICK t \in Live : td_timer[t] = tn
      BY <1>1, <1>8, <2>1 DEF IInv, HandlesValid, SameTimer
    <3>2. t # r
      BY <1>0, <2>1, <3>1, HandleInList
    <3> QED BY <1>0, <1>2, <3>1, <3>2
  <2>2. CASE tn = handle
    BY <1>0, <1>2, <2>2
  <2> QED BY <1>1, <2>1, <2>2
<1>9. ASSUME NEW t \in Thread, td_queue'[t] \in Queue PROVE td_timer'[t] # SIGNALED
  <2>1. CASE t = r
    BY <1>2, <2>1
  <2>2. CASE t # r
    BY <1>2, <1>9, <2>2 DEF IInv, HandlesValid
  <2> QED BY <2>1, <2>2
<1>10. HandlesValid'
  BY <1>5, <1>6, <1>7, <1>8, <1>9 DEF HandlesValid
<1>11. ASSUME NEW t \in Live \ {r}, Asleep(t) PROVE Asleep(t)'
  BY <1>0, <1>1, <1>2, <1>11 DEF Asleep, SameTimer
<1>12. handle \in Timer /\ callback = "NutThreadWake" => Asleep(r)'
  BY <1>2, <1>4 DEF Timed, Asleep, Started
<1> QED BY <1>10, <1>11, <1>12

\* The handles stay valid when timer tn loses its callback or is freed, and t,
\* the only thread that may hold it, gives up its handle.
LEMMA EndKeepsHandles ==
    ASSUME IInv, NEW t \in Thread, NEW tn, TimersWell', UNCHANGED nutThreadList,
           ToSet(timerList') \subseteq ToSet(timerList),
           ToSet(timerList) \ {tn} \subseteq ToSet(timerList'),
           \A u \in Timer \ {tn} : SameTimer(u),
           tn \in ToSet(timerList') => tn_callback'[tn] = NIL,
           \A u \in Thread \ {t} :
               /\ td_timer'[u] = td_timer[u] /\ td_queue'[u] = td_queue[u]
               /\ td_timer[u] \in Timer => td_timer[u] # tn,
           td_timer'[t] \notin Timer, td_queue'[t] \notin Queue,
           td_timer[t] \in Timer => td_timer[t] = tn
    PROVE  HandlesValid' /\ \A u \in Live \ {t} : Asleep(u) => Asleep(u)'
<1>0. ToSet(timerList) \subseteq Timer /\ Live \subseteq Thread /\ Live' = Live
  BY ToSetOf DEF IInv, TypeOK, Live
<1>1. ASSUME NEW u \in Thread \ {t}, td_timer[u] \in ToSet(timerList)
      PROVE  /\ td_timer'[u] = td_timer[u] /\ td_queue'[u] = td_queue[u]
             /\ td_timer'[u] \in ToSet(timerList') /\ SameTimer(td_timer[u])
  BY <1>0, <1>1
<1>2. ASSUME NEW u \in Thread, td_timer'[u] \in Timer
      PROVE  u \in Live' /\ (Timed(u)' \/ (Asleep(u)' /\ td_queue'[u] = NIL))
  <2>1. u # t /\ td_timer'[u] = td_timer[u]
    BY <1>2
  <2>2. td_timer[u] \in ToSet(timerList) /\ u \in Live
    BY <1>2, <2>1, HandleInList
  <2>3. Timed(u) \/ (Asleep(u) /\ td_queue[u] = NIL)
    BY <1>2, <2>1 DEF IInv, HandlesValid
  <2> QED BY <1>0, <1>1, <2>1, <2>2, <2>3 DEF Timed, Asleep, SameTimer
<1>3. ASSUME NEW u \in Thread, NEW v \in Thread, td_timer'[u] \in Timer, td_timer'[u] = td_timer'[v]
      PROVE  u = v
  BY <1>3 DEF IInv, HandlesValid
<1>4. ASSUME NEW x \in ToSet(timerList'), tn_callback'[x] # NIL
      PROVE  \E u \in Live' : td_timer'[u] = x
  <2>1. x \in ToSet(timerList) /\ x # tn /\ x \in Timer
    BY <1>0, <1>4
  <2>2. PICK u \in Live : td_timer[u] = x
    BY <1>4, <2>1 DEF IInv, HandlesValid, SameTimer
  <2>3. u # t
    BY <2>1, <2>2
  <2> QED BY <1>0, <2>2, <2>3
<1>5. \A u \in Thread : td_queue'[u] \in Queue => td_timer'[u] # SIGNALED
  BY DEF IInv, HandlesValid
<1>6. HandlesValid'
  BY <1>2, <1>3, <1>4, <1>5 DEF HandlesValid, TimersWell
<1>7. ASSUME NEW u \in Live \ {t}, Asleep(u) PROVE Asleep(u)'
  BY <1>0, <1>1, <1>7 DEF Asleep, SameTimer
<1> QED BY <1>6, <1>7


-----------------------------------------------------------------------------
(* A thread leaves an event queue or its sleep and becomes ready.          *)

\* The event queues after a step that has taken thread t out of them.
QueuesWithout(t) ==
    /\ waitq' \in [Queue -> Seq(Thread)]
    /\ signaled' \in SUBSET Queue
    /\ td_qpec' \in [Thread -> Nat]
    /\ \A p \in Queue : IsInjective(waitq'[p])
    /\ \A p \in Queue : \A u \in ToSet(waitq'[p]) : u # t /\ u \in ToSet(waitq[p])
    /\ \A p \in Queue : \A u \in ToSet(waitq[p]) : u # t => u \in ToSet(waitq'[p])
    /\ PendingAtHead'
    /\ WaitersOrdered'

\* A waiter leaves queue q, first or not, and no pending event gets lost.
LEMMA LeaveQueueKeeps ==
    ASSUME IInv, NEW q \in Queue, NEW t \in Thread, t \in ToSet(waitq[q]), LeaveQueue(t, q),
           td_queue' = [td_queue EXCEPT ![t] = RunQueue],
           UNCHANGED <<nutThreadList, td_priority>>
    PROVE  QueuesWithout(t)
<1> DEFINE s == waitq[q]
           e == Dequeued(s, t)
           n == PendingAfterLeave(td_qpec, s, t)
<1>0. /\ waitq \in [Queue -> Seq(Thread)] /\ td_qpec \in [Thread -> Nat]
      /\ td_queue \in [Thread -> Queue \cup {RunQueue, NIL}] /\ signaled \in SUBSET Queue
      /\ td_priority \in [Thread -> Nat]
  BY DEF IInv, TypeOK
<1>1. /\ s \in Seq(Thread) /\ IsInjective(s) /\ PriorityOrdered(s, td_priority)
      /\ \A p \in Queue : IsInjective(waitq[p]) /\ PriorityOrdered(waitq[p], td_priority)
      /\ \A p \in Queue : \A u \in ToSet(waitq[p]) : u \in Thread /\ td_queue[u] = p
  <2>1. \A p \in Queue : ToSet(waitq[p]) \subseteq Thread
    BY <1>0, ToSetOf
  <2> QED BY <1>0, <2>1 DEF IInv, ThreadsPlaced, WaitersOrdered
<1>2. /\ waitq' = [waitq EXCEPT ![q] = e] /\ td_qpec' = n
      /\ signaled' = IF SignalsOnLeave(td_qpec, s, t) THEN signaled \cup {q} ELSE signaled
  BY DEF LeaveQueue
<1>3. /\ \A u \in Thread : td_qpec[u] > 0 =>
            /\ td_queue[u] \in Queue /\ waitq[td_queue[u]] # <<>>
            /\ Head(waitq[td_queue[u]]) = u
      /\ \A p \in signaled : waitq[p] = <<>>
  BY DEF IInv, PendingAtHead
<1>4. OnlyFirst(td_qpec, s)
  BY <1>1, <1>3 DEF OnlyFirst
<1>5. e \in Seq(Thread) /\ ToSet(e) = ToSet(s) \ {t} /\ IsInjective(e)
  BY <1>1, DequeuedSet
<1>6. PriorityOrdered(e, td_priority)
  BY <1>0, <1>1, DequeuedOrdered
<1>7. /\ n \in [Thread -> Nat] /\ n[t] = 0 /\ OnlyFirst(n, e)
      /\ \A u \in Thread \ ToSet(s) : n[u] = td_qpec[u]
      /\ SignalsOnLeave(td_qpec, s, t) => e = <<>>
  BY <1>0, <1>1, <1>4, LeavePending
<1>8. s # <<>> /\ t \in ToSet(s)
  BY <1>1, ToSetOf
<1>9. \A p \in Queue : waitq'[p] = IF p = q THEN e ELSE waitq[p]
  BY <1>0, <1>2
<1>10. /\ waitq' \in [Queue -> Seq(Thread)] /\ td_qpec' \in [Thread -> Nat]
       /\ signaled' \in SUBSET Queue
  BY <1>0, <1>2, <1>5, <1>7
<1>11. \A p \in Queue : \A u \in ToSet(waitq[p]) : p # q => u # t
  BY <1>1, <1>8
<1> HIDE DEF e, n
<1>12. /\ \A p \in Queue : IsInjective(waitq'[p])
       /\ \A p \in Queue : \A u \in ToSet(waitq'[p]) : u # t /\ u \in ToSet(waitq[p])
       /\ \A p \in Queue : \A u \in ToSet(waitq[p]) : u # t => u \in ToSet(waitq'[p])
  BY <1>1, <1>5, <1>9, <1>11
<1>13. WaitersOrdered'
  BY <1>1, <1>6, <1>9 DEF WaitersOrdered
<1>14. ASSUME NEW u \in Thread, td_qpec'[u] > 0
       PROVE  /\ td_queue'[u] \in Queue /\ waitq'[td_queue'[u]] # <<>>
              /\ Head(waitq'[td_queue'[u]]) = u
  <2>1. u # t /\ td_queue'[u] = td_queue[u]
    BY <1>0, <1>2, <1>7, <1>14
  <2>2. CASE u \in ToSet(s)
    <3>1. u \in ToSet(e) /\ u = Head(e)
      BY <1>2, <1>5, <1>7, <1>14, <2>1, <2>2 DEF OnlyFirst
    <3>2. e # <<>> /\ td_queue[u] = q
      BY <1>1, <1>5, <2>2, <3>1, ToSetOf
    <3> QED BY <1>9, <2>1, <3>1, <3>2
  <2>3. CASE u \notin ToSet(s)
    <3>1. td_qpec[u] > 0
      BY <1>2, <1>7, <1>14, <2>3
    <3>2. /\ td_queue[u] \in Queue /\ waitq[td_queue[u]] # <<>>
          /\ Head(waitq[td_queue[u]]) = u
      BY <1>3, <3>1
    <3>3. u \in ToSet(waitq[td_queue[u]])
      BY <1>0, <3>2, HeadOf
    <3>4. td_queue[u] # q
      BY <2>3, <3>3
    <3> QED BY <1>9, <2>1, <3>2, <3>4
  <2> QED BY <2>2, <2>3
<1>15. ASSUME NEW p \in signaled' PROVE waitq'[p] = <<>>
  <2>1. CASE p = q
    <3>1. q \notin signaled
      BY <1>3, <1>8
    <3> QED BY <1>2, <1>7, <1>9, <1>15, <2>1, <3>1
  <2>2. CASE p # q
    <3>1. p \in signaled /\ p \in Queue
      BY <1>0, <1>2, <1>15, <2>2
    <3> QED BY <1>3, <1>9, <2>2, <3>1
  <2> QED BY <2>1, <2>2
<1>16. PendingAtHead'
  BY <1>14, <1>15 DEF PendingAtHead
<1> QED BY <1>10, <1>12, <1>13, <1>16 DEF QueuesWithout

\* Thread t has come to the run queue, wherever it was before.
LEMMA ReadyAgain ==
    ASSUME IInv, NEW t \in Live, t \in Thread,
           \A p \in Queue : IsInjective(waitq'[p]),
           \A p \in Queue : \A u \in ToSet(waitq'[p]) : u # t /\ u \in ToSet(waitq[p]),
           \A p \in Queue : \A u \in ToSet(waitq[p]) : u # t => u \in ToSet(waitq'[p]),
           td_queue' = [td_queue EXCEPT ![t] = RunQueue], UNCHANGED nutThreadList,
           runQueue' \in Seq(Thread), IsInjective(runQueue'),
           runQueue' # <<>>, Last(runQueue') = Idle,
           ToSet(runQueue') = ToSet(runQueue) \cup {t},
           \A u \in Live \ {t} : Asleep(u) => Asleep(u)'
    PROVE  ThreadsPlaced'
<1>0. /\ td_queue \in [Thread -> Queue \cup {RunQueue, NIL}] /\ waitq \in [Queue -> Seq(Thread)]
      /\ Live \subseteq Thread /\ Live' = Live /\ RunQueue \notin Queue \cup {NIL}
  BY ToSetOf, PointerAssumption DEF IInv, TypeOK, Live
<1>1. td_queue'[t] = RunQueue /\ \A u \in Thread \ {t} : td_queue'[u] = td_queue[u]
  BY <1>0
<1>2. ASSUME NEW p \in Queue, NEW u \in ToSet(waitq'[p]) PROVE u \in Live' /\ td_queue'[u] = p
  <2>1. u # t /\ u \in ToSet(waitq[p])
    OBVIOUS
  <2>2. u \in Live /\ td_queue[u] = p
    BY <2>1 DEF IInv, ThreadsPlaced
  <2> QED BY <1>0, <1>1, <2>1, <2>2
<1>3. ASSUME NEW u \in ToSet(runQueue') PROVE u \in Live' /\ td_queue'[u] = RunQueue
  <2>1. CASE u = t
    BY <1>0, <1>1, <2>1
  <2>2. CASE u # t
    <3>1. u \in Live /\ td_queue[u] = RunQueue
      BY <2>2 DEF IInv, ThreadsPlaced
    <3> QED BY <1>0, <1>1, <2>2, <3>1
  <2> QED BY <2>1, <2>2
<1>4. ASSUME NEW u \in Live'
      PROVE  /\ td_queue'[u] \in Queue => u \in ToSet(waitq'[td_queue'[u]])
             /\ td_queue'[u] = RunQueue => u \in ToSet(runQueue')
             /\ td_queue'[u] = NIL => Asleep(u)'
  <2>1. CASE u = t
    BY <1>0, <1>1, <2>1
  <2>2. CASE u # t
    <3>1. /\ td_queue[u] \in Queue => u \in ToSet(waitq[td_queue[u]])
          /\ td_queue[u] = RunQueue => u \in ToSet(runQueue)
          /\ td_queue[u] = NIL => Asleep(u)
      BY <1>0 DEF IInv, ThreadsPlaced
    <3>2. td_queue'[u] = td_queue[u]
      BY <1>0, <1>1, <2>2
    <3> QED BY <1>0, <2>2, <3>1, <3>2
  <2> QED BY <2>1, <2>2
<1>5. IsInjective(nutThreadList)'
  BY DEF IInv, ThreadsPlaced
<1> QED BY <1>2, <1>3, <1>4, <1>5 DEF ThreadsPlaced


\* A waiting or sleeping thread is not in the run queue and is not the idle thread.
LEMMA NotReady ==
    ASSUME IInv, NEW t \in Thread, td_queue[t] # RunQueue
    PROVE  t \notin ToSet(runQueue) /\ t # Idle /\ td_priority[Idle] > td_priority[t]
<1>1. t \notin ToSet(runQueue)
  BY DEF IInv, ThreadsPlaced
<1>2. t # Idle
  BY IdleReady DEF IInv
<1> QED BY <1>1, <1>2, IdleReady DEF IInv

\* The run queue with such a thread added, yielded or not.
LEMMA ReadyQueue ==
    ASSUME IInv, NEW t \in Thread, td_queue[t] # RunQueue
    PROVE  LET e == Enqueued(runQueue, t, td_priority) IN
           /\ e \in Seq(Thread) /\ IsInjective(e) /\ e # <<>> /\ Last(e) = Idle
           /\ ToSet(e) = ToSet(runQueue) \cup {t}
<1>1. /\ runQueue \in Seq(Thread) /\ IsInjective(runQueue)
      /\ runQueue # <<>> /\ Last(runQueue) = Idle
  BY DEF IInv, TypeOK, ThreadsPlaced
<1> QED BY <1>1, NotReady, RunQueueAdd

\* NutEventPostAsync and its callers.
LEMMA WakeHeadStep == ASSUME IInv, WakeHead PROVE IInv'
<1> USE PointerAssumption
<1> DEFINE t == Head(waitq[qhp])
           rq == Enqueued(runQueue, t, td_priority)
           tn == td_timer[t]
<1>0. /\ waitq \in [Queue -> Seq(Thread)] /\ qhp \in Queue /\ waitq[qhp] # <<>>
      /\ td_timer \in [Thread -> Handle \cup {SIGNALED}]
      /\ td_queue \in [Thread -> Queue \cup {RunQueue, NIL}]
      /\ pc = "wake"
  BY DEF IInv, TypeOK, ControlOK, WakeHead
<1>1. /\ t \in Thread /\ t \in ToSet(waitq[qhp]) /\ t \in Live /\ td_queue[t] = qhp
      /\ td_queue[t] # RunQueue
  <2>1. t \in Thread /\ t \in ToSet(waitq[qhp])
    BY <1>0, HeadOf
  <2> QED BY <1>0, <2>1 DEF IInv, ThreadsPlaced
<1>2. /\ LeaveQueue(t, qhp)
      /\ IF td_timer[t] = NIL THEN UNCHANGED tnVars ELSE TimerStop(td_timer[t])
      /\ td_timer' = [td_timer EXCEPT ![t] = NIL]
      /\ td_state' = [td_state EXCEPT ![t] = "READY"]
      /\ td_queue' = [td_queue EXCEPT ![t] = RunQueue]
      /\ \/ /\ Len(waitq[qhp]) > 1
            /\ runQueue' = rq /\ UNCHANGED <<pc, scan, api, qhp, ms>>
         \/ Leave(api, rq)
      /\ UNCHANGED <<nutThreadList, runningThread, killedThread, td_priority, waiting,
                     lag, ticksNew>>
  BY DEF WakeHead, WakesMore
<1>3. /\ rq \in Seq(Thread) /\ IsInjective(rq) /\ rq # <<>> /\ Last(rq) = Idle
      /\ ToSet(rq) = ToSet(runQueue) \cup {t}
  BY <1>1, ReadyQueue
<1> HIDE DEF t, rq, tn
<1>4. QueuesWithout(t)
  BY <1>0, <1>1, <1>2, LeaveQueueKeeps
<1>5. tn \in Timer => tn \in ToSet(timerList)
  BY <1>1, HandleInList DEF tn
<1>6. tn \in Timer \cup {NIL}
  BY <1>0, <1>1 DEF IInv, HandlesValid, Handle, tn
<1>7. /\ TimersWell'
      /\ ToSet(timerList') = ToSet(timerList)
      /\ \A u \in Timer \ {tn} : SameTimer(u)
      /\ tn \in ToSet(timerList') => tn_callback'[tn] = NIL
  <2>1. CASE tn = NIL
    <3>1. NIL \notin ToSet(timerList)
      BY ToSetOf DEF IInv, TypeOK
    <3> QED BY <1>2, <2>1, <3>1, TimersWellNow
        DEF TimersWell, TimersOrdered, tnVars, SameTimer, tn
  <2>2. CASE tn # NIL
    BY <1>2, <1>5, <1>6, <2>2, TimerStopIs DEF tn
  <2> QED BY <2>1, <2>2
<1>8. /\ td_timer'[t] = NIL /\ td_queue'[t] = RunQueue
      /\ \A u \in Thread \ {t} :
            td_timer'[u] = td_timer[u] /\ td_queue'[u] = td_queue[u]
  BY <1>0, <1>1, <1>2
<1>9. HandlesValid' /\ \A u \in Live \ {t} : Asleep(u) => Asleep(u)'
  <2>1. \A u \in Thread \ {t} : td_timer[u] \in Timer => td_timer[u] # tn
    BY <1>1 DEF IInv, HandlesValid, tn
  <2>2. td_timer[t] = tn
    BY DEF tn
  <2> QED BY <1>1, <1>2, <1>7, <1>8, <2>1, <2>2, EndKeepsHandles
<1>10. /\ runQueue' \in Seq(Thread) /\ IsInjective(runQueue')
       /\ runQueue' # <<>> /\ Last(runQueue') = Idle
       /\ ToSet(runQueue') = ToSet(runQueue) \cup {t}
  <2>1. CASE runQueue' = rq
    BY <1>3, <2>1
  <2>2. CASE api \in Yielding /\ runQueue' = Yielded(rq)
    <3>1. runningThread \in ToSet(rq)
      BY <1>0, <1>3, <2>2 DEF IInv, ControlOK, ThreadCode, Yielding
    <3>2. \A u \in Thread \ {Idle} : td_priority[Idle] > td_priority[u]
      BY IdleReady DEF IInv
    <3> QED BY <1>3, <2>2, <3>1, <3>2, YieldedKeeps DEF IInv
  <2> QED BY <1>2, <2>1, <2>2 DEF Leave
<1>11. ThreadsPlaced'
  BY <1>1, <1>2, <1>4, <1>9, <1>10, ReadyAgain DEF QueuesWithout
<1>12. /\ pc' \in {"wake", "user", "resume"} /\ scan' \in Seq(Thread)
       /\ api' \in {api, NIL} /\ qhp' \in {qhp, NIL} /\ ms' \in {ms, 0}
  BY <1>0, <1>2 DEF Leave, IInv, TypeOK
<1>13. TypeOK'
  <2>1. td_state' \in [Thread -> {"RUNNING", "READY", "SLEEP"}]
    BY <1>2 DEF IInv, TypeOK
  <2>2. td_queue' \in [Thread -> Queue \cup {RunQueue, NIL}]
    BY <1>0, <1>2
  <2>3. td_timer' \in [Thread -> Handle \cup {SIGNALED}]
    BY <1>0, <1>2 DEF Handle
  <2>4. /\ runningThread \in Thread /\ nutThreadList \in Seq(Thread)
        /\ killedThread \in Thread \cup {NIL} /\ td_priority \in [Thread -> Nat]
        /\ waiting \in SUBSET Thread /\ lag \in Nat /\ ticksNew \in Nat
        /\ api \in Caller \cup {NIL} /\ qhp \in Queue \cup {NIL} /\ ms \in Nat
    BY DEF IInv, TypeOK
  <2>5. /\ api' \in Caller \cup {NIL} /\ qhp' \in Queue \cup {NIL} /\ ms' \in Nat
        /\ pc' \in Position /\ scan' \in Seq(Thread)
    BY <1>12, <2>4 DEF Position
  <2> QED BY <1>2, <1>4, <1>7, <1>10, <2>1, <2>2, <2>3, <2>4, <2>5
      DEF TypeOK, QueuesWithout, TimersWell
<1>14. ControlOK'
  <2>1. pc' = "wake" => waitq'[qhp'] # <<>> /\ qhp' \in Queue /\ api' = api
    <3>1. SUFFICES ASSUME pc' = "wake" PROVE waitq'[qhp'] # <<>> /\ qhp' \in Queue /\ api' = api
      OBVIOUS
    <3>2. Len(waitq[qhp]) > 1 /\ qhp' = qhp /\ api' = api
      BY <1>2, <3>1 DEF Leave
    <3>3. waitq[qhp] \in Seq(Thread) /\ IsInjective(waitq[qhp])
      BY <1>0 DEF IInv, ThreadsPlaced
    <3>4. PICK u \in ToSet(waitq[qhp]) : u # t
      <4>1. /\ waitq[qhp][1] \in ToSet(waitq[qhp]) /\ waitq[qhp][2] \in ToSet(waitq[qhp])
            /\ waitq[qhp][1] # waitq[qhp][2]
        BY <3>2, <3>3 DEF ToSet, IsInjective
      <4> QED BY <4>1
    <3>5. u \in ToSet(waitq'[qhp])
      BY <1>0, <1>4, <3>4 DEF QueuesWithout
    <3>6. waitq'[qhp] \in Seq(Thread)
      BY <1>0, <1>4 DEF QueuesWithout
    <3> QED BY <1>0, <3>2, <3>5, <3>6, ToSetOf
  <2>2. ThreadCode' => runningThread \in ToSet(runQueue)
    BY <1>0, <1>2, <1>12, <2>1 DEF Leave, IInv, ControlOK, ThreadCode, Async, Yielding
  <2> QED BY <1>2, <1>10, <1>12, <2>1, <2>2 DEF IInv, ControlOK
<1>15. WaitersOrdered' /\ TimersOrdered' /\ PendingAtHead'
  BY <1>4, <1>7 DEF QueuesWithout, TimersWell
<1> QED BY <1>9, <1>11, <1>13, <1>14, <1>15 DEF IInv


-----------------------------------------------------------------------------
(* NutTimerProcessElapsed.                                                 *)

\* All timers of the list come nearer by n ticks.
LEMMA TimersAdvance ==
    ASSUME IInv, NEW n \in Nat, \A u \in ToSet(timerList) : n <= timeLeft[u],
           timeLeft' = [u \in Timer |-> IF u \in ToSet(timerList) THEN timeLeft[u] - n
                                        ELSE timeLeft[u]]
    PROVE  timeLeft' \in [Timer -> Nat] /\ PriorityOrdered(timerList, timeLeft')
<1>0. /\ timerList \in Seq(Timer) /\ timeLeft \in [Timer -> Nat]
      /\ \A i, j \in 1..Len(timerList) : i < j => timeLeft[timerList[i]] <= timeLeft[timerList[j]]
  BY DEF IInv, TypeOK, TimersOrdered, PriorityOrdered
<1>1. ASSUME NEW u \in Timer PROVE timeLeft'[u] \in Nat
  <2>1. CASE u \in ToSet(timerList)
    BY <1>0, <2>1
  <2>2. CASE u \notin ToSet(timerList)
    BY <1>0, <2>2
  <2> QED BY <2>1, <2>2
<1>2. \A i \in 1..Len(timerList) :
         timerList[i] \in Timer /\ timeLeft'[timerList[i]] = timeLeft[timerList[i]] - n
  BY <1>0 DEF ToSet
<1>3. ASSUME NEW i \in 1..Len(timerList), NEW j \in 1..Len(timerList), i < j
      PROVE  timeLeft'[timerList[i]] <= timeLeft'[timerList[j]]
  <2>1. timeLeft[timerList[i]] <= timeLeft[timerList[j]]
    BY <1>0, <1>3
  <2>2. timeLeft[timerList[i]] \in Nat /\ timeLeft[timerList[j]] \in Nat
    BY <1>0, <1>2
  <2> QED BY <1>2, <2>1, <2>2
<1> QED BY <1>1, <1>3 DEF PriorityOrdered

\* The last round of NutTimerProcessElapsed preserves it: no distance gets negative.
LEMMA TimersDoneStep == ASSUME IInv, TimersDone PROVE IInv'
<1>0. /\ timerList \in Seq(Timer) /\ timeLeft \in [Timer -> Nat] /\ ticksNew \in Nat
      /\ TimersOrdered /\ pc = "elapsed"
      /\ UNCHANGED <<threadVars, eventVars, td_timer, timerList, tn_callback, tn_arg, lag,
                     api, qhp, ms, scan>>
  BY DEF IInv, TypeOK, TimersDone
<1>1. \A u \in ToSet(timerList) : ticksNew <= timeLeft[u]
  <2>1. CASE timerList = <<>>
    BY <2>1 DEF ToSet
  <2>2. CASE timerList # <<>>
    <3>1. \A u \in ToSet(timerList) : timeLeft[Head(timerList)] <= timeLeft[u]
      BY <1>0, <2>2, TailOrdered DEF TimersOrdered
    <3>2. ToSet(timerList) \subseteq Timer /\ Head(timerList) \in Timer
      BY <1>0, <2>2, ToSetOf, HeadOf
    <3>3. timeLeft[Head(timerList)] > ticksNew \/ ticksNew = 0
      BY <2>2 DEF TimersDone
    <3>4. \A u \in ToSet(timerList) : timeLeft[u] \in Nat
      BY <1>0, <3>2
    <3>5. timeLeft[Head(timerList)] \in Nat
      BY <1>0, <3>2
    <3> QED BY <1>0, <3>1, <3>3, <3>4, <3>5
  <2> QED BY <2>1, <2>2
<1>2. timeLeft' \in [Timer -> Nat] /\ PriorityOrdered(timerList, timeLeft')
  <2>1. timeLeft' = [u \in Timer |-> IF u \in ToSet(timerList) THEN timeLeft[u] - ticksNew
                                     ELSE timeLeft[u]]
    BY DEF TimersDone
  <2> QED BY <1>0, <1>1, <2>1, TimersAdvance
<1>3. TypeOK'
  BY <1>0, <1>2 DEF IInv, TypeOK, TimersDone, threadVars, eventVars, Position
<1>4. ControlOK'
  BY <1>0 DEF IInv, ControlOK, ThreadCode, TimersDone, threadVars, eventVars
<1>5. ThreadsPlaced'
  BY <1>0 DEF IInv, ThreadsPlaced, Live, Asleep, threadVars, eventVars
<1>6. HandlesValid'
  BY <1>0 DEF IInv, HandlesValid, Timed, Asleep, Live, threadVars
<1>7. PendingAtHead'
  BY <1>0, PendingSame DEF IInv, threadVars, eventVars
<1>8. WaitersOrdered' /\ TimersOrdered'
  BY <1>0, <1>2 DEF IInv, WaitersOrdered, TimersOrdered, threadVars, eventVars
<1> QED BY <1>3, <1>4, <1>5, <1>6, <1>7, <1>8 DEF IInv

\* The thread NutEventTimeout finds is the one whose timer elapsed.
LEMMA WaiterForIs ==
    ASSUME IInv, NEW q \in Queue, NEW t \in Thread, t \in ToSet(waitq[q]),
           td_timer[t] \in Timer
    PROVE  WaiterFor(td_timer[t], q) = t
<1> DEFINE s == waitq[q]
           I == {i \in 1..Len(s) : td_timer[s[i]] = td_timer[t]}
           k == SelectInSeq(s, LAMBDA u : td_timer[u] = td_timer[t])
<1>0. s \in Seq(Thread)
  BY DEF IInv, TypeOK
<1>1. k = IF I # {} THEN Min(I) ELSE 0
  BY DEF SelectInSeq
<1>2. PICK j \in 1..Len(s) : s[j] = t
  BY <1>0 DEF ToSet
<1>3. I \in SUBSET Nat /\ I # {}
  BY <1>2
<1>4. k \in I
  BY <1>1, <1>3, MinOfNonempty
<1>5. WaiterFor(td_timer[t], q) = s[k]
  BY DEF WaiterFor
<1> HIDE DEF k
<1>6. s[k] \in Thread /\ td_timer[s[k]] = td_timer[t]
  BY <1>0, <1>4
<1>7. s[k] = t
  BY <1>6 DEF IInv, HandlesValid
<1> QED BY <1>5, <1>7


\* What a round of NutTimerProcessElapsed does to the timer list.
LEMMA ElapsedTimers ==
    ASSUME IInv, TimerElapse
    PROVE  LET tn == Head(timerList) IN
           /\ tn \in Timer /\ tn \in ToSet(timerList)
           /\ TimersWell' /\ ToSet(timerList') = ToSet(timerList) \ {tn}
           /\ \A u \in Timer \ {tn} : SameTimer(u)
           /\ ticksNew' \in Nat
<1> DEFINE tn == Head(timerList)
<1>0. /\ TimersWell /\ timerList # <<>> /\ ticksNew \in Nat
      /\ timeLeft[tn] <= ticksNew /\ ticksNew' = ticksNew - timeLeft[tn]
      /\ timeLeft' = [u \in Timer |-> IF u \in ToSet(timerList)
                                      THEN timeLeft[u] - timeLeft[tn] ELSE timeLeft[u]]
      /\ timerList' = Tail(timerList)
      /\ tn_callback' = [tn_callback EXCEPT ![tn] = NIL]
      /\ tn_arg' = [tn_arg EXCEPT ![tn] = NIL]
  BY TimersWellNow DEF IInv, TypeOK, TimerElapse
<1>1. tn \in Timer /\ tn \in ToSet(timerList) /\ timeLeft[tn] \in Nat
  <2>1. tn \in Timer /\ tn \in ToSet(timerList)
    BY <1>0, HeadOf DEF TimersWell
  <2> QED BY <1>0, <2>1 DEF TimersWell
<1>2. /\ timerList' \in Seq(Timer) /\ IsInjective(timerList')
      /\ ToSet(timerList') = ToSet(timerList) \ {tn}
  BY <1>0, TailSet DEF TimersWell
<1>3. \A u \in ToSet(timerList) : timeLeft[tn] <= timeLeft[u]
  BY <1>0, TailOrdered DEF TimersWell, TimersOrdered
<1> HIDE DEF tn
<1>4. timeLeft' \in [Timer -> Nat] /\ PriorityOrdered(timerList, timeLeft')
  BY <1>0, <1>1, <1>3, TimersAdvance
<1>5. TimersOrdered'
  <2>1. PriorityOrdered(Tail(timerList), timeLeft')
    BY <1>0, <1>4, TailOrdered DEF TimersWell
  <2> QED BY <1>0, <2>1 DEF TimersOrdered
<1>6. /\ tn_callback' \in [Timer -> Callback \cup {NIL}]
      /\ tn_arg' \in [Timer -> Queue \cup Thread \cup {NIL}]
      /\ \A u \in Timer \ {tn} : SameTimer(u)
  BY <1>0, <1>1 DEF TimersWell, SameTimer
<1>7. ticksNew' \in Nat
  BY <1>0, <1>1
<1> QED BY <1>1, <1>2, <1>4, <1>5, <1>6, <1>7 DEF TimersWell, tn

\* A round that has made thread t ready (or found it ready) and has taken away
\* the only handle of the elapsed timer.
LEMMA ElapseMoves ==
    ASSUME IInv, TimerElapse, NEW t \in Live, t \in Thread, QueuesWithout(t),
           td_queue' = [td_queue EXCEPT ![t] = RunQueue],
           td_timer' \in [Thread -> Handle \cup {SIGNALED}], td_timer'[t] \notin Timer,
           \A u \in Thread \ {t} : td_timer'[u] = td_timer[u] /\ td_timer[u] # Head(timerList),
           td_timer[t] \in Timer => td_timer[t] = Head(timerList),
           td_state' \in [Thread -> {"RUNNING", "READY", "SLEEP"}],
           runQueue' \in Seq(Thread), IsInjective(runQueue'),
           runQueue' # <<>>, Last(runQueue') = Idle,
           ToSet(runQueue') = ToSet(runQueue) \cup {t}
    PROVE  IInv'
<1> USE PointerAssumption
<1> DEFINE tn == Head(timerList)
<1>0. /\ tn \in Timer /\ tn \in ToSet(timerList)
      /\ TimersWell' /\ ToSet(timerList') = ToSet(timerList) \ {tn}
      /\ \A u \in Timer \ {tn} : SameTimer(u)
      /\ ticksNew' \in Nat
  BY ElapsedTimers
<1>1. /\ td_queue \in [Thread -> Queue \cup {RunQueue, NIL}] /\ pc = "elapsed"
      /\ UNCHANGED <<nutThreadList, runningThread, killedThread, td_priority, waiting,
                     lag, pc, api, qhp, ms, scan>>
  BY DEF IInv, TypeOK, TimerElapse
<1> HIDE DEF tn
<1>2. td_queue'[t] = RunQueue /\ \A u \in Thread \ {t} : td_queue'[u] = td_queue[u]
  BY <1>1
<1>3. HandlesValid' /\ \A u \in Live \ {t} : Asleep(u) => Asleep(u)'
  <2>1. /\ \A u \in Thread \ {t} :
             /\ td_timer'[u] = td_timer[u] /\ td_queue'[u] = td_queue[u]
             /\ td_timer[u] \in Timer => td_timer[u] # tn
        /\ td_timer[t] \in Timer => td_timer[t] = tn
    BY <1>2 DEF tn
  <2>2. ToSet(timerList') \subseteq ToSet(timerList) /\ tn \notin ToSet(timerList')
    BY <1>0
  <2> QED BY <1>0, <1>1, <1>2, <2>1, <2>2, EndKeepsHandles
<1>4. ThreadsPlaced'
  BY <1>1, <1>3, ReadyAgain DEF QueuesWithout
<1>5. TypeOK'
  <2>1. td_queue' \in [Thread -> Queue \cup {RunQueue, NIL}]
    BY <1>1
  <2> QED BY <1>0, <1>1, <2>1 DEF IInv, TypeOK, QueuesWithout, TimersWell
<1>6. ControlOK'
  BY <1>1 DEF IInv, ControlOK, ThreadCode
<1> QED BY <1>0, <1>3, <1>4, <1>5, <1>6 DEF IInv, QueuesWithout, TimersWell

\* A thread that is in no event queue: nothing changes there.
LEMMA QueuesUntouched ==
    ASSUME IInv, NEW t \in Thread, td_queue[t] \notin Queue, UNCHANGED eventVars,
           td_queue' = [td_queue EXCEPT ![t] = RunQueue], UNCHANGED td_priority
    PROVE  QueuesWithout(t)
<1>0. /\ td_queue \in [Thread -> Queue \cup {RunQueue, NIL}]
      /\ waitq \in [Queue -> Seq(Thread)] /\ signaled \in SUBSET Queue
      /\ td_qpec \in [Thread -> Nat]
  BY DEF IInv, TypeOK
<1>1. \A p \in Queue : \A u \in ToSet(waitq[p]) : u # t
  BY DEF IInv, ThreadsPlaced
<1>2. \A u \in Thread : td_qpec[u] > 0 => u # t /\ td_queue'[u] = td_queue[u]
  BY <1>0 DEF IInv, PendingAtHead
<1>3. PendingAtHead'
  BY <1>2 DEF IInv, PendingAtHead, eventVars
<1> QED BY <1>0, <1>1, <1>3
    DEF IInv, QueuesWithout, ThreadsPlaced, WaitersOrdered, eventVars

\* A round of NutTimerProcessElapsed, callback included, preserves it.
LEMMA TimerElapseStep == ASSUME IInv, TimerElapse PROVE IInv'
<1> USE PointerAssumption
<1> DEFINE tn == Head(timerList)
<1>0. /\ tn \in Timer /\ tn \in ToSet(timerList)
      /\ td_timer \in [Thread -> Handle \cup {SIGNALED}]
      /\ td_queue \in [Thread -> Queue \cup {RunQueue, NIL}]
      /\ td_state \in [Thread -> {"RUNNING", "READY", "SLEEP"}]
      /\ Live \subseteq Thread
      /\ UNCHANGED <<nutThreadList, td_priority>>
  BY ElapsedTimers, ToSetOf DEF IInv, TypeOK, TimerElapse, Live
<1>1. CASE /\ tn_callback[tn] = NIL
           /\ UNCHANGED <<eventVars, td_state, td_queue, runQueue, td_timer>>
  <2>1. \A u \in Thread : td_timer[u] # tn
    BY <1>0, <1>1, HandleInList
  <2> HIDE DEF tn
  <2>2. /\ Idle \in ToSet(runQueue) /\ Idle \in Live /\ Idle \in Thread
        /\ td_queue[Idle] = RunQueue
    BY <1>0, IdleReady DEF IInv
  <2>3. td_timer[Idle] \notin Timer
    BY <2>2, HandleInList
  <2>4. td_queue' = [td_queue EXCEPT ![Idle] = RunQueue]
    BY <1>0, <1>1, <2>2
  <2>5. QueuesWithout(Idle)
    BY <1>0, <1>1, <2>2, <2>4, QueuesUntouched
  <2>6. /\ runQueue' \in Seq(Thread) /\ IsInjective(runQueue')
        /\ runQueue' # <<>> /\ Last(runQueue') = Idle
        /\ ToSet(runQueue') = ToSet(runQueue) \cup {Idle}
    BY <1>1, <2>2 DEF IInv, TypeOK, ThreadsPlaced
  <2> QED BY <1>0, <1>1, <2>1, <2>2, <2>3, <2>4, <2>5, <2>6, ElapseMoves DEF tn
<1>2. ASSUME tn_callback[tn] # NIL
      PROVE  \E t \in Live : /\ td_timer[t] = tn /\ t \in Thread
                             /\ \A u \in Thread \ {t} : td_timer[u] # tn
                             /\ Timed(t) \/ (Asleep(t) /\ td_queue[t] = NIL)
                             /\ td_queue[t] # RunQueue
  <2>1. PICK t \in Live : td_timer[t] = tn
    BY <1>0, <1>2 DEF IInv, HandlesValid
  <2>2. t \in Thread
    BY <1>0
  <2>3. td_queue[t] # RunQueue
    BY <1>0, <2>1, <2>2, HandleInList
  <2> HIDE DEF tn
  <2>4. Timed(t) \/ (Asleep(t) /\ td_queue[t] = NIL)
    BY <1>0, <2>1, <2>2 DEF IInv, HandlesValid
  <2>5. \A u \in Thread \ {t} : td_timer[u] # tn
    BY <1>0, <2>1, <2>2 DEF IInv, HandlesValid
  <2> QED BY <2>1, <2>2, <2>3, <2>4, <2>5
<1>3. CASE tn_callback[tn] = "NutEventTimeout" /\ EventTimeout(tn, tn_arg[tn])
  <2>1. PICK t \in Live : /\ td_timer[t] = tn /\ t \in Thread
                          /\ \A u \in Thread \ {t} : td_timer[u] # tn
                          /\ Timed(t) \/ (Asleep(t) /\ td_queue[t] = NIL)
                          /\ td_queue[t] # RunQueue
    BY <1>2, <1>3
  <2> HIDE DEF tn
  <2>2. tn_arg[tn] = td_queue[t] /\ td_queue[t] \in Queue
    BY <1>3, <2>1 DEF Timed, Asleep
  <2> DEFINE q == td_queue[t]
  <2>3. t \in ToSet(waitq[q])
    BY <2>2 DEF IInv, ThreadsPlaced
  <2>4. WaiterFor(tn, q) = t
    BY <1>0, <2>1, <2>2, <2>3, WaiterForIs
  <2>5. /\ LeaveQueue(t, q)
        /\ td_state' = [td_state EXCEPT ![t] = "READY"]
        /\ td_queue' = [td_queue EXCEPT ![t] = RunQueue]
        /\ runQueue' = Enqueued(runQueue, t, td_priority)
        /\ td_timer' = [td_timer EXCEPT ![t] = SIGNALED]
    BY <1>3, <2>1, <2>2, <2>3, <2>4 DEF EventTimeout, WaitsFor
  <2>6. QueuesWithout(t)
    BY <1>0, <2>1, <2>2, <2>3, <2>5, LeaveQueueKeeps
  <2>7. /\ runQueue' \in Seq(Thread) /\ IsInjective(runQueue')
        /\ runQueue' # <<>> /\ Last(runQueue') = Idle
        /\ ToSet(runQueue') = ToSet(runQueue) \cup {t}
    BY <2>1, <2>5, ReadyQueue
  <2>8. /\ td_state' \in [Thread -> {"RUNNING", "READY", "SLEEP"}]
        /\ td_timer' \in [Thread -> Handle \cup {SIGNALED}] /\ td_timer'[t] \notin Timer
        /\ \A u \in Thread \ {t} : td_timer'[u] = td_timer[u]
    BY <1>0, <2>1, <2>5
  <2> QED BY <2>1, <2>5, <2>6, <2>7, <2>8, ElapseMoves DEF tn
<1>4. CASE tn_callback[tn] = "NutThreadWake" /\ ThreadWake(tn_arg[tn])
  <2>1. PICK t \in Live : /\ td_timer[t] = tn /\ t \in Thread
                          /\ \A u \in Thread \ {t} : td_timer[u] # tn
                          /\ Timed(t) \/ (Asleep(t) /\ td_queue[t] = NIL)
                          /\ td_queue[t] # RunQueue
    BY <1>2, <1>4
  <2> HIDE DEF tn
  <2>2. tn_arg[tn] = t /\ td_queue[t] = NIL
    BY <1>4, <2>1 DEF Timed, Asleep
  <2>3. /\ td_state' = [td_state EXCEPT ![t] = "READY"]
        /\ td_queue' = [td_queue EXCEPT ![t] = RunQueue]
        /\ runQueue' = Enqueued(runQueue, t, td_priority)
        /\ td_timer' = [td_timer EXCEPT ![t] = NIL]
        /\ UNCHANGED eventVars
    BY <1>4, <2>2 DEF ThreadWake
  <2>4. QueuesWithout(t)
    BY <1>0, <2>1, <2>2, <2>3, QueuesUntouched
  <2>5. /\ runQueue' \in Seq(Thread) /\ IsInjective(runQueue')
        /\ runQueue' # <<>> /\ Last(runQueue') = Idle
        /\ ToSet(runQueue') = ToSet(runQueue) \cup {t}
    BY <2>1, <2>3, ReadyQueue
  <2>6. /\ td_state' \in [Thread -> {"RUNNING", "READY", "SLEEP"}]
        /\ td_timer' \in [Thread -> Handle \cup {SIGNALED}] /\ td_timer'[t] \notin Timer
        /\ \A u \in Thread \ {t} : td_timer'[u] = td_timer[u]
    BY <1>0, <2>1, <2>3 DEF Handle
  <2> QED BY <2>1, <2>3, <2>4, <2>5, <2>6, ElapseMoves DEF tn
<1> QED BY <1>1, <1>3, <1>4 DEF TimerElapse


-----------------------------------------------------------------------------
(* NutEventWait and NutSleep take the running thread out of the run queue. *)

\* The running application thread, about to call or inside a kernel function.
LEMMA RunningReady ==
    ASSUME IInv, runningThread \in App, ThreadCode
    PROVE  /\ runningThread \in Thread /\ runningThread # Idle
           /\ runningThread \in ToSet(runQueue) /\ runningThread \in Live
           /\ td_queue[runningThread] = RunQueue /\ td_timer[runningThread] \notin Timer
           /\ LET d == Dequeued(runQueue, runningThread) IN
              /\ d \in Seq(Thread) /\ IsInjective(d) /\ d # <<>> /\ Last(d) = Idle
              /\ ToSet(d) = ToSet(runQueue) \ {runningThread}
<1> DEFINE r == runningThread
<1>1. r \in Thread /\ r # Idle /\ r \in ToSet(runQueue)
  BY ThreadAssumption DEF IInv, TypeOK, ControlOK, Thread
<1>2. r \in Live /\ td_queue[r] = RunQueue
  BY <1>1 DEF IInv, ThreadsPlaced
<1>3. td_timer[r] \notin Timer
  BY <1>1, <1>2, HandleInList
<1>4. /\ runQueue \in Seq(Thread) /\ IsInjective(runQueue)
      /\ runQueue # <<>> /\ Last(runQueue) = Idle
  BY DEF IInv, TypeOK, ThreadsPlaced
<1>5. LET d == Dequeued(runQueue, r) IN
      /\ d \in Seq(Thread) /\ IsInjective(d) /\ d # <<>> /\ Last(d) = Idle
      /\ ToSet(d) = ToSet(runQueue) \ {r}
  BY <1>1, <1>4, RunQueueRemove
<1> QED BY <1>1, <1>2, <1>3, <1>5

\* Thread r enters event queue q, with whatever was pending there.
LEMMA EnterQueueKeeps ==
    ASSUME IInv, NEW q \in Queue, NEW r \in Live, r \in Thread, td_queue[r] = RunQueue,
           waitq' = [waitq EXCEPT ![q] = Enqueued(@, r, td_priority)],
           td_qpec' = PendingAfterAdd(td_qpec, waitq[q], r, td_priority, q \in signaled),
           signaled' = signaled \ {q},
           td_queue' = [td_queue EXCEPT ![r] = q], UNCHANGED td_priority
    PROVE  /\ waitq' \in [Queue -> Seq(Thread)] /\ td_qpec' \in [Thread -> Nat]
           /\ \A p \in Queue : IsInjective(waitq'[p])
           /\ ToSet(waitq'[q]) = ToSet(waitq[q]) \cup {r}
           /\ \A p \in Queue : p # q => waitq'[p] = waitq[p]
           /\ \A u \in Thread \ (ToSet(waitq[q]) \cup {r}) : td_qpec'[u] = td_qpec[u]
           /\ PendingAtHead' /\ WaitersOrdered'
<1> DEFINE s == waitq[q]
           e == Enqueued(s, r, td_priority)
           n == PendingAfterAdd(td_qpec, s, r, td_priority, q \in signaled)
<1>0. /\ waitq \in [Queue -> Seq(Thread)] /\ td_qpec \in [Thread -> Nat]
      /\ td_queue \in [Thread -> Queue \cup {RunQueue, NIL}] /\ signaled \in SUBSET Queue
      /\ td_priority \in [Thread -> Nat] /\ RunQueue \notin Queue
  BY PointerAssumption DEF IInv, TypeOK
<1>1. /\ s \in Seq(Thread) /\ r \notin ToSet(s)
      /\ \A p \in Queue : IsInjective(waitq[p]) /\ PriorityOrdered(waitq[p], td_priority)
      /\ \A p \in Queue : \A u \in ToSet(waitq[p]) : u \in Thread /\ td_queue[u] = p
  <2>1. \A p \in Queue : ToSet(waitq[p]) \subseteq Thread
    BY <1>0, ToSetOf
  <2> QED BY <1>0, <2>1 DEF IInv, ThreadsPlaced, WaitersOrdered
<1>2. /\ \A u \in Thread : td_qpec[u] > 0 =>
            /\ td_queue[u] \in Queue /\ waitq[td_queue[u]] # <<>>
            /\ Head(waitq[td_queue[u]]) = u
      /\ \A p \in signaled : waitq[p] = <<>>
  BY DEF IInv, PendingAtHead
<1>3. OnlyFirst(td_qpec, s) /\ (q \in signaled => s = <<>>)
  BY <1>1, <1>2 DEF OnlyFirst
<1>4. e \in Seq(Thread) /\ e # <<>> /\ ToSet(e) = ToSet(s) \cup {r}
  BY <1>1, EnqueuedSet
<1>5. IsInjective(e)
  BY <1>1, EnqueuedInjective
<1>6. PriorityOrdered(e, td_priority)
  BY <1>0, <1>1, EnqueuedOrdered
<1>7. /\ n \in [Thread -> Nat] /\ OnlyFirst(n, e)
      /\ \A u \in Thread \ (ToSet(s) \cup {r}) : n[u] = td_qpec[u]
  <2>1. r \in Thread \ ToSet(s) /\ IsInjective(s)
    BY <1>1
  <2> DEFINE m(sig) == PendingAfterAdd(td_qpec, s, r, td_priority, sig)
  <2>2. ASSUME NEW sig \in BOOLEAN, sig => s = <<>>
        PROVE  /\ m(sig) \in [Thread -> Nat] /\ OnlyFirst(m(sig), e)
               /\ \A u \in Thread \ (ToSet(s) \cup {r}) : m(sig)[u] = td_qpec[u]
    BY <1>0, <1>1, <1>3, <2>1, <2>2, AddPending
  <2>3. n = IF q \in signaled THEN m(TRUE) ELSE m(FALSE)
    BY DEF PendingAfterAdd
  <2> HIDE DEF m, n
  <2>4. CASE q \in signaled
    BY <1>3, <2>2, <2>3, <2>4
  <2>5. CASE q \notin signaled
    BY <2>2, <2>3, <2>5
  <2> QED BY <2>4, <2>5
<1>8. waitq' = [waitq EXCEPT ![q] = e] /\ td_qpec' = n
  OBVIOUS
<1> HIDE DEF e, n
<1>9. \A p \in Queue : waitq'[p] = IF p = q THEN e ELSE waitq[p]
  BY <1>0, <1>8
<1>10. waitq' \in [Queue -> Seq(Thread)] /\ td_qpec' \in [Thread -> Nat]
  BY <1>0, <1>4, <1>7, <1>8
<1>11. WaitersOrdered' /\ \A p \in Queue : IsInjective(waitq'[p])
  BY <1>1, <1>5, <1>6, <1>9 DEF WaitersOrdered
<1>12. td_queue'[r] = q /\ \A u \in Thread \ {r} : td_queue'[u] = td_queue[u]
  BY <1>0
<1>13. ASSUME NEW u \in Thread, td_qpec'[u] > 0
       PROVE  /\ td_queue'[u] \in Queue /\ waitq'[td_queue'[u]] # <<>>
              /\ Head(waitq'[td_queue'[u]]) = u
  <2>1. CASE u \in ToSet(e)
    <3>1. u = Head(e)
      BY <1>7, <1>8, <1>13, <2>1 DEF OnlyFirst
    <3>2. td_queue'[u] = q
      BY <1>1, <1>4, <1>12, <2>1
    <3> QED BY <1>4, <1>9, <3>1, <3>2
  <2>2. CASE u \notin ToSet(e)
    <3>1. td_qpec[u] > 0 /\ u # r /\ u \notin ToSet(s)
      BY <1>4, <1>7, <1>8, <1>13, <2>2
    <3>2. /\ td_queue[u] \in Queue /\ waitq[td_queue[u]] # <<>>
          /\ Head(waitq[td_queue[u]]) = u
      BY <1>2, <3>1
    <3>3. u \in ToSet(waitq[td_queue[u]])
      BY <1>0, <3>2, HeadOf
    <3>4. td_queue[u] # q
      BY <3>1, <3>3
    <3> QED BY <1>9, <1>12, <3>1, <3>2, <3>4
  <2> QED BY <2>1, <2>2
<1>14. \A p \in signaled' : waitq'[p] = <<>>
  BY <1>0, <1>2, <1>9
<1>15. PendingAtHead'
  BY <1>13, <1>14 DEF PendingAtHead
<1> QED BY <1>4, <1>7, <1>8, <1>9, <1>10, <1>11, <1>15

\* NutEventWait's move from the run queue to the event queue, with or without
\* a timer, preserves it.
LEMMA EnqueueStep == ASSUME IInv, Enqueue PROVE IInv'
<1> USE PointerAssumption
<1> DEFINE r == runningThread
<1>0. /\ waitq \in [Queue -> Seq(Thread)] /\ qhp \in Queue /\ ms \in Nat
      /\ td_timer \in [Thread -> Handle \cup {SIGNALED}]
      /\ td_queue \in [Thread -> Queue \cup {RunQueue, NIL}]
      /\ r \in App /\ ThreadCode /\ Live \subseteq Thread
  BY ToSetOf DEF IInv, TypeOK, ControlOK, ThreadCode, Enqueue, Live
<1>1. /\ r \in Thread /\ r # Idle /\ r \in ToSet(runQueue) /\ r \in Live
      /\ td_queue[r] = RunQueue /\ td_timer[r] \notin Timer
      /\ LET d == Dequeued(runQueue, r) IN
         /\ d \in Seq(Thread) /\ IsInjective(d) /\ d # <<>> /\ Last(d) = Idle
         /\ ToSet(d) = ToSet(runQueue) \ {r}
  BY <1>0, RunningReady
<1>2. /\ runQueue' = Dequeued(runQueue, r)
      /\ waitq' = [waitq EXCEPT ![qhp] = Enqueued(@, r, td_priority)]
      /\ td_qpec' = PendingAfterAdd(td_qpec, waitq[qhp], r, td_priority, qhp \in signaled)
      /\ signaled' = signaled \ {qhp}
      /\ td_queue' = [td_queue EXCEPT ![r] = qhp]
      /\ td_state' = [td_state EXCEPT ![r] = "SLEEP"]
      /\ waiting' = waiting \cup {r}
      /\ pc' = "resume" /\ scan' = nutThreadList
      /\ api' = NIL /\ qhp' = NIL /\ ms' = 0
      /\ UNCHANGED <<nutThreadList, runningThread, killedThread, td_priority, lag, ticksNew>>
  BY DEF Enqueue
<1>3. PICK handle \in Timer \cup {NIL} :
        /\ td_timer' = [td_timer EXCEPT ![r] = handle]
        /\ Started("NutEventTimeout", qhp, handle)
  <2>1. CASE /\ td_timer' = [td_timer EXCEPT ![r] = NIL]
             /\ UNCHANGED tnVars
    <3>1. Started("NutEventTimeout", qhp, NIL)
      BY <2>1, TimersWellNow DEF Started, TimersWell, TimersOrdered, tnVars, SameTimer
    <3> QED BY <2>1, <3>1
  <2>2. ASSUME NEW handle \in Timer \cup {NIL}, td_timer' = [td_timer EXCEPT ![r] = handle],
               TimerStart(ms, "NutEventTimeout", qhp, handle)
        PROVE  Started("NutEventTimeout", qhp, handle)
    BY <1>0, <2>2, TimerStartIs DEF Callback
  <2> QED BY <2>1, <2>2 DEF Enqueue
<1> HIDE DEF r
<1>4. /\ waitq' \in [Queue -> Seq(Thread)] /\ td_qpec' \in [Thread -> Nat]
      /\ \A p \in Queue : IsInjective(waitq'[p])
      /\ ToSet(waitq'[qhp]) = ToSet(waitq[qhp]) \cup {r}
      /\ \A p \in Queue : p # qhp => waitq'[p] = waitq[p]
      /\ PendingAtHead' /\ WaitersOrdered'
  BY <1>0, <1>1, <1>2, EnterQueueKeeps
<1>5. td_queue'[r] = qhp /\ \A u \in Thread \ {r} : td_queue'[u] = td_queue[u]
  BY <1>0, <1>1, <1>2
<1>6. HandlesValid' /\ \A u \in Live \ {r} : Asleep(u) => Asleep(u)'
  BY <1>0, <1>1, <1>2, <1>3, <1>5, StartKeepsHandles
<1>7. ThreadsPlaced'
  <2>0. Live' = Live
    BY <1>2 DEF Live
  <2>1. ASSUME NEW p \in Queue, NEW u \in ToSet(waitq'[p]) PROVE u \in Live' /\ td_queue'[u] = p
    <3>1. (u = r /\ p = qhp) \/ u \in ToSet(waitq[p])
      BY <1>4, <2>1
    <3>2. u \in ToSet(waitq[p]) => u \in Live /\ td_queue[u] = p /\ u # r
      BY <1>1 DEF IInv, ThreadsPlaced
    <3> QED BY <1>0, <1>1, <1>5, <2>0, <3>1, <3>2
  <2>2. ASSUME NEW u \in ToSet(runQueue') PROVE u \in Live' /\ td_queue'[u] = RunQueue
    <3>1. u \in ToSet(runQueue) /\ u # r
      BY <1>1, <1>2, <2>2
    <3> QED BY <1>0, <1>5, <2>0, <3>1 DEF IInv, ThreadsPlaced
  <2>3. ASSUME NEW u \in Live'
        PROVE  /\ td_queue'[u] \in Queue => u \in ToSet(waitq'[td_queue'[u]])
               /\ td_queue'[u] = RunQueue => u \in ToSet(runQueue')
               /\ td_queue'[u] = NIL => Asleep(u)'
    <3>1. CASE u = r
      BY <1>0, <1>4, <1>5, <3>1
    <3>2. CASE u # r
      <4>1. td_queue'[u] = td_queue[u]
        BY <1>0, <1>5, <2>0, <3>2
      <4>2. /\ td_queue[u] \in Queue => u \in ToSet(waitq[td_queue[u]])
            /\ td_queue[u] = RunQueue => u \in ToSet(runQueue)
            /\ td_queue[u] = NIL => Asleep(u)
        BY <2>0 DEF IInv, ThreadsPlaced
      <4> QED BY <1>1, <1>2, <1>4, <1>6, <2>0, <3>2, <4>1, <4>2
    <3> QED BY <3>1, <3>2
  <2>4. IsInjective(nutThreadList)'
    BY <1>2 DEF IInv, ThreadsPlaced
  <2> QED BY <1>1, <1>2, <1>4, <2>1, <2>2, <2>3, <2>4 DEF ThreadsPlaced
<1>8. TypeOK'
  <2>1. /\ td_state' \in [Thread -> {"RUNNING", "READY", "SLEEP"}]
        /\ waiting' \in SUBSET Thread /\ signaled' \in SUBSET Queue
    BY <1>1, <1>2 DEF IInv, TypeOK
  <2>2. /\ td_queue' \in [Thread -> Queue \cup {RunQueue, NIL}]
        /\ td_timer' \in [Thread -> Handle \cup {SIGNALED}]
    BY <1>0, <1>2, <1>3 DEF Handle
  <2> QED BY <1>1, <1>2, <1>3, <1>4, <2>1, <2>2
      DEF IInv, TypeOK, Started, TimersWell, Position
<1>9. ControlOK'
  BY <1>2 DEF IInv, ControlOK, ThreadCode
<1>10. TimersOrdered'
  BY <1>3 DEF Started, TimersWell
<1> QED BY <1>4, <1>6, <1>7, <1>8, <1>9, <1>10 DEF IInv


\* NutSleep preserves it, its failure path included.
LEMMA NutSleepStep ==
    ASSUME IInv, NEW ticks \in Delay \ {0}, NutSleep(ticks)
    PROVE  IInv'
<1> USE PointerAssumption
<1> DEFINE r == runningThread
           rest == Dequeued(runQueue, r)
<1>0. /\ td_timer \in [Thread -> Handle \cup {SIGNALED}]
      /\ td_queue \in [Thread -> Queue \cup {RunQueue, NIL}]
      /\ r \in App /\ ThreadCode /\ pc = "user" /\ Live \subseteq Thread /\ ticks \in Nat
      /\ UNCHANGED <<nutThreadList, runningThread, killedThread, td_priority, waiting,
                     eventVars, lag, api, qhp, ms, ticksNew>>
  BY ToSetOf, BoundAssumption DEF IInv, TypeOK, NutSleep, AppRuns, ThreadCode, Live
<1>1. /\ r \in Thread /\ r # Idle /\ r \in ToSet(runQueue) /\ r \in Live
      /\ td_queue[r] = RunQueue /\ td_timer[r] \notin Timer
      /\ rest \in Seq(Thread) /\ IsInjective(rest) /\ rest # <<>> /\ Last(rest) = Idle
      /\ ToSet(rest) = ToSet(runQueue) \ {r}
  BY <1>0, RunningReady
<1>2. PICK handle \in Timer \cup {NIL} :
        /\ TimerStart(ticks, "NutThreadWake", r, handle)
        /\ td_timer' = [td_timer EXCEPT ![r] = handle]
        /\ IF handle # NIL
           THEN /\ runQueue' = rest
                /\ td_queue' = [td_queue EXCEPT ![r] = NIL]
                /\ td_state' = [td_state EXCEPT ![r] = "SLEEP"]
                /\ pc' = "resume"
                /\ scan' = nutThreadList
           ELSE /\ runQueue' = <<r>> \o rest
                /\ td_queue' = [td_queue EXCEPT ![r] = RunQueue]
                /\ td_state' = [td_state EXCEPT ![r] = "RUNNING"]
                /\ UNCHANGED <<pc, scan>>
  BY DEF NutSleep, PutBack
<1>3. Started("NutThreadWake", r, handle)
  BY <1>0, <1>1, <1>2, TimerStartIs DEF Callback
<1> HIDE DEF r, rest
<1>4. \A u \in Thread \ {r} : td_queue'[u] = td_queue[u]
  BY <1>0, <1>1, <1>2
<1>5. handle \in Timer => td_queue'[r] = NIL
  BY <1>0, <1>1, <1>2
<1>6. /\ HandlesValid'
      /\ \A u \in Live \ {r} : Asleep(u) => Asleep(u)'
      /\ handle \in Timer => \A u \in Live : u = r => Asleep(u)'
  <2>1. td_timer' = [td_timer EXCEPT ![r] = handle]
    BY <1>2
  <2>2. handle \in Timer => /\ "NutThreadWake" = "NutThreadWake"
                            /\ r = r /\ td_queue'[r] = NIL
    BY <1>5
  <2>3. UNCHANGED nutThreadList
    BY <1>0
  <2> QED BY <1>1, <1>3, <1>4, <2>1, <2>2, <2>3, StartKeepsHandles
<1>7. /\ runQueue' \in Seq(Thread) /\ IsInjective(runQueue')
      /\ runQueue' # <<>> /\ Last(runQueue') = Idle
      /\ ToSet(runQueue') = IF handle # NIL THEN ToSet(runQueue) \ {r} ELSE ToSet(runQueue)
  <2>1. CASE handle # NIL
    BY <1>1, <1>2, <2>1
  <2>2. CASE handle = NIL
    <3>1. runQueue' = <<r>> \o rest
      BY <1>2, <2>2
    <3>2. r \notin ToSet(rest)
      BY <1>1
    <3>3. /\ runQueue' \in Seq(Thread) /\ IsInjective(runQueue')
          /\ runQueue' # <<>> /\ Last(runQueue') = Idle
          /\ ToSet(runQueue') = ToSet(rest) \cup {r}
      BY <1>1, <3>1, <3>2, FrontIs
    <3> QED BY <1>1, <2>2, <3>3
  <2> QED BY <2>1, <2>2
<1>8. ThreadsPlaced'
  <2>0. Live' = Live /\ waitq' = waitq
    BY <1>0 DEF Live, eventVars
  <2>1. ASSUME NEW p \in Queue, NEW u \in ToSet(waitq'[p]) PROVE u \in Live' /\ td_queue'[u] = p
    <3>1. u \in Live /\ td_queue[u] = p /\ u # r
      BY <1>1, <2>0 DEF IInv, ThreadsPlaced
    <3> QED BY <1>0, <1>4, <2>0, <3>1
  <2>2. ASSUME NEW u \in ToSet(runQueue') PROVE u \in Live' /\ td_queue'[u] = RunQueue
    <3>1. CASE u = r
      BY <1>0, <1>1, <1>2, <1>7, <2>0, <3>1
    <3>2. CASE u # r
      <4>1. u \in Live /\ td_queue[u] = RunQueue
        BY <1>7, <3>2 DEF IInv, ThreadsPlaced
      <4> QED BY <1>0, <1>4, <2>0, <3>2, <4>1
    <3> QED BY <3>1, <3>2
  <2>3. ASSUME NEW u \in Live'
        PROVE  /\ td_queue'[u] \in Queue => u \in ToSet(waitq'[td_queue'[u]])
               /\ td_queue'[u] = RunQueue => u \in ToSet(runQueue')
               /\ td_queue'[u] = NIL => Asleep(u)'
    <3>1. CASE u = r
      <4>1. CASE handle # NIL
        <5>1. td_queue'[r] = NIL /\ handle \in Timer
          BY <1>5, <4>1
        <5> QED BY <1>6, <2>0, <3>1, <5>1
      <4>2. CASE handle = NIL
        <5>1. td_queue'[r] = RunQueue /\ r \in ToSet(runQueue')
          BY <1>0, <1>1, <1>2, <1>7, <4>2
        <5> QED BY <3>1, <5>1
      <4> QED BY <4>1, <4>2
    <3>2. CASE u # r
      <4>1. td_queue'[u] = td_queue[u]
        BY <1>0, <1>4, <2>0, <3>2
      <4>2. /\ td_queue[u] \in Queue => u \in ToSet(waitq[td_queue[u]])
            /\ td_queue[u] = RunQueue => u \in ToSet(runQueue)
            /\ td_queue[u] = NIL => Asleep(u)
        BY <2>0 DEF IInv, ThreadsPlaced
      <4> QED BY <1>6, <1>7, <2>0, <3>2, <4>1, <4>2
    <3> QED BY <3>1, <3>2
  <2>4. IsInjective(nutThreadList)' /\ \A p \in Queue : IsInjective(waitq'[p])
    BY <1>0, <2>0 DEF IInv, ThreadsPlaced
  <2> QED BY <1>7, <2>1, <2>2, <2>3, <2>4 DEF ThreadsPlaced
<1>9. PendingAtHead'
  <2>1. \A u \in Thread : td_qpec[u] > 0 => u # r /\ td_queue'[u] = td_queue[u]
    BY <1>1, <1>4 DEF IInv, PendingAtHead
  <2> QED BY <1>0, <2>1 DEF IInv, PendingAtHead, eventVars
<1>10. TypeOK'
  <2>1. td_state' \in [Thread -> {"RUNNING", "READY", "SLEEP"}]
    BY <1>1, <1>2 DEF IInv, TypeOK
  <2>2. /\ td_queue' \in [Thread -> Queue \cup {RunQueue, NIL}]
        /\ td_timer' \in [Thread -> Handle \cup {SIGNALED}]
    BY <1>0, <1>1, <1>2 DEF Handle
  <2>3. pc' \in {"resume", "user"} /\ scan' \in {scan, nutThreadList}
    BY <1>0, <1>2
  <2> QED BY <1>0, <1>3, <1>7, <2>1, <2>2, <2>3
      DEF IInv, TypeOK, Started, TimersWell, eventVars, Position
<1>11. ControlOK'
  <2>1. CASE handle # NIL
    BY <1>0, <1>2, <2>1 DEF IInv, ControlOK, ThreadCode
  <2>2. CASE handle = NIL
    <3>1. pc' = "user" /\ runningThread \in ToSet(runQueue')
      BY <1>0, <1>1, <1>2, <1>7, <2>2 DEF r
    <3> QED BY <1>0, <3>1 DEF IInv, ControlOK, ThreadCode
  <2> QED BY <2>1, <2>2
<1>12. WaitersOrdered' /\ TimersOrdered'
  BY <1>0, <1>3 DEF IInv, WaitersOrdered, eventVars, Started, TimersWell
<1> QED BY <1>6, <1>8, <1>9, <1>10, <1>11, <1>12 DEF IInv



-----------------------------------------------------------------------------
(* NutThreadSetPriority, NutThreadExit and NutThreadCreate switch to the   *)
(* thread in front of the run queue themselves.                            *)

\* A step that leaves queues, handles and timers alone.
LEMMA NothingMoves ==
    ASSUME IInv, UNCHANGED <<nutThreadList, waitq, td_queue, td_timer, tnVars>>,
           RunQueueOK(runQueue')
    PROVE  ThreadsPlaced' /\ HandlesValid' /\ TimersOrdered'
<1>1. ThreadsPlaced'
  BY DEF IInv, RunQueueOK, ThreadsPlaced, Live, Asleep, tnVars
<1>2. HandlesValid'
  BY DEF IInv, HandlesValid, Timed, Asleep, Live, tnVars
<1>3. TimersOrdered'
  BY DEF IInv, TimersOrdered, tnVars
<1> QED BY <1>1, <1>2, <1>3

\* The priority of a thread changes while it is in no event queue.
LEMMA NutThreadSetPriorityStep ==
    ASSUME IInv, NEW level \in Level, NutThreadSetPriority(level)
    PROVE  IInv'
<1> USE PointerAssumption
<1> DEFINE r == runningThread
           rest == Dequeued(runQueue, r)
           pr == [td_priority EXCEPT ![r] = level]
           rq == Enqueued(rest, r, pr)
           n == Head(rq)
<1>0. /\ td_priority \in [Thread -> Nat] /\ level \in Nat /\ level < Lowest
      /\ r \in App /\ ThreadCode /\ waitq \in [Queue -> Seq(Thread)]
  BY PriorityAssumption DEF IInv, TypeOK, NutThreadSetPriority, AppRuns, ThreadCode
<1>1. /\ r \in Thread /\ r # Idle /\ r \in ToSet(runQueue) /\ r \in Live
      /\ td_queue[r] = RunQueue
      /\ rest \in Seq(Thread) /\ IsInjective(rest) /\ rest # <<>> /\ Last(rest) = Idle
      /\ ToSet(rest) = ToSet(runQueue) \ {r}
  BY <1>0, RunningReady
<1>2. /\ td_priority' = pr /\ runQueue' = rq
      /\ td_state' = IF n = r THEN [td_state EXCEPT ![r] = "RUNNING"]
                     ELSE [td_state EXCEPT ![r] = "READY", ![n] = "RUNNING"]
      /\ runningThread' = n /\ pc' \in {"return", "user"}
      /\ UNCHANGED <<nutThreadList, killedThread, td_queue, waiting, eventVars, timerVars,
                     lag, api, qhp, ms, scan, ticksNew>>
  BY DEF NutThreadSetPriority, SwitchTo
<1> HIDE DEF rest, r
<1>3. pr[r] = level /\ \A t \in Thread \ {r} : pr[t] = td_priority[t]
  BY <1>0, <1>1
<1>4. pr \in [Thread -> Nat] /\ pr[Idle] = Lowest /\ \A t \in App : pr[t] < Lowest
  <2>1. Idle \in Thread /\ Idle # r /\ App \subseteq Thread
    BY <1>1 DEF Thread
  <2>2. pr \in [Thread -> Nat]
    BY <1>0
  <2> QED BY <1>0, <1>3, <2>1, <2>2 DEF IInv, ControlOK
<1> HIDE DEF pr
<1>5. r \notin ToSet(rest) /\ pr[Idle] > pr[r]
  BY <1>0, <1>1, <1>3, <1>4, PriorityAssumption
<1>6. /\ rq \in Seq(Thread) /\ IsInjective(rq) /\ rq # <<>> /\ Last(rq) = Idle
      /\ ToSet(rq) = ToSet(rest) \cup {r}
  BY <1>1, <1>5, RunQueueAdd
<1> HIDE DEF rq
<1>7. n \in Thread /\ n \in ToSet(rq)
  BY <1>6, HeadOf
<1> HIDE DEF n
<1>8. RunQueueOK(runQueue')
  BY <1>1, <1>2, <1>6 DEF RunQueueOK
<1>9. ThreadsPlaced' /\ HandlesValid' /\ TimersOrdered'
  BY <1>2, <1>8, NothingMoves DEF eventVars, timerVars
<1>10. PendingAtHead'
  BY <1>2, PendingSame DEF IInv, eventVars
<1>11. WaitersOrdered'
  <2>1. ASSUME NEW q \in Queue PROVE PriorityOrdered(waitq'[q], td_priority')
    <3>1. /\ waitq'[q] = waitq[q] /\ waitq[q] \in Seq(Thread)
          /\ PriorityOrdered(waitq[q], td_priority)
      BY <1>0, <1>2 DEF IInv, WaitersOrdered, eventVars
    <3>2. \A u \in ToSet(waitq[q]) : u \in Thread /\ u # r
      <4>1. ToSet(waitq[q]) \subseteq Thread
        BY <3>1, ToSetOf
      <4> QED BY <1>1, <4>1 DEF IInv, ThreadsPlaced
    <3>3. \A u \in ToSet(waitq[q]) : pr[u] = td_priority[u]
      BY <1>3, <3>2
    <3> QED BY <1>2, <3>1, <3>3, OrderedElsewhere
  <2> QED BY <2>1 DEF WaitersOrdered
<1>12. TypeOK'
  <2>1. td_state' \in [Thread -> {"RUNNING", "READY", "SLEEP"}]
    BY <1>1, <1>2, <1>7 DEF IInv, TypeOK
  <2>2. pc' \in Position
    BY <1>2 DEF Position
  <2> QED BY <1>2, <1>4, <1>6, <1>7, <2>1, <2>2
      DEF IInv, TypeOK, eventVars, timerVars, tnVars
<1>13. ControlOK'
  BY <1>2, <1>4, <1>7 DEF ControlOK, ThreadCode
<1> QED BY <1>9, <1>10, <1>11, <1>12, <1>13 DEF IInv

\* The calling thread is in no queue and owns no timer when it is killed.
LEMMA NutThreadExitStep == ASSUME IInv, NutThreadExit PROVE IInv'
<1> USE PointerAssumption
<1> DEFINE r == runningThread
           rest == Dequeued(runQueue, r)
           n == Head(rest)
<1>0. /\ td_queue \in [Thread -> Queue \cup {RunQueue, NIL}]
      /\ waitq \in [Queue -> Seq(Thread)] /\ nutThreadList \in Seq(Thread)
      /\ IsInjective(nutThreadList)
      /\ r \in App /\ ThreadCode /\ Live \subseteq Thread
  BY ToSetOf DEF IInv, TypeOK, ThreadsPlaced, NutThreadExit, AppRuns, ThreadCode, Live
<1>1. /\ r \in Thread /\ r # Idle /\ r \in ToSet(runQueue) /\ r \in Live
      /\ td_queue[r] = RunQueue /\ td_timer[r] \notin Timer
      /\ rest \in Seq(Thread) /\ IsInjective(rest) /\ rest # <<>> /\ Last(rest) = Idle
      /\ ToSet(rest) = ToSet(runQueue) \ {r}
  BY <1>0, RunningReady
<1>2. /\ runQueue' = rest
      /\ nutThreadList' = Dequeued(nutThreadList, r)
      /\ killedThread' = r
      /\ td_queue' = [td_queue EXCEPT ![r] = NIL]
      /\ td_state' = [td_state EXCEPT ![r] = "READY", ![n] = "RUNNING"]
      /\ runningThread' = n /\ pc' \in {"return", "user"}
      /\ UNCHANGED <<td_priority, waiting, eventVars, timerVars, lag, api, qhp, ms, scan,
                     ticksNew>>
  BY DEF NutThreadExit, SwitchTo
<1> HIDE DEF rest, r
<1>3. /\ nutThreadList' \in Seq(Thread) /\ IsInjective(nutThreadList')
      /\ Live' = Live \ {r}
  BY <1>0, <1>2, DequeuedSet DEF Live
<1>4. n \in Thread /\ n \in ToSet(rest)
  BY <1>1, HeadOf
<1> HIDE DEF n
<1>5. td_queue'[r] = NIL /\ \A u \in Thread \ {r} : td_queue'[u] = td_queue[u]
  BY <1>0, <1>1, <1>2
<1>6. \A u \in Thread : Asleep(u) <=> Asleep(u)'
  BY <1>2 DEF Asleep, timerVars, tnVars
<1>7. ThreadsPlaced'
  <2>1. ASSUME NEW q \in Queue, NEW u \in ToSet(waitq'[q]) PROVE u \in Live' /\ td_queue'[u] = q
    <3>1. u \in Live /\ td_queue[u] = q /\ u # r
      BY <1>1, <1>2, <2>1 DEF IInv, ThreadsPlaced, eventVars
    <3> QED BY <1>0, <1>3, <1>5, <3>1
  <2>2. ASSUME NEW u \in ToSet(runQueue') PROVE u \in Live' /\ td_queue'[u] = RunQueue
    <3>1. u \in ToSet(runQueue) /\ u # r
      BY <1>1, <1>2, <2>2
    <3>2. u \in Live /\ td_queue[u] = RunQueue
      BY <3>1 DEF IInv, ThreadsPlaced
    <3> QED BY <1>0, <1>3, <1>5, <3>1, <3>2
  <2>3. ASSUME NEW u \in Live'
        PROVE  /\ td_queue'[u] \in Queue => u \in ToSet(waitq'[td_queue'[u]])
               /\ td_queue'[u] = RunQueue => u \in ToSet(runQueue')
               /\ td_queue'[u] = NIL => Asleep(u)'
    <3>1. u \in Live /\ u \in Thread /\ u # r /\ td_queue'[u] = td_queue[u]
      BY <1>0, <1>3, <1>5, <2>3
    <3>2. /\ td_queue[u] \in Queue => u \in ToSet(waitq[td_queue[u]])
          /\ td_queue[u] = RunQueue => u \in ToSet(runQueue)
          /\ td_queue[u] = NIL => Asleep(u)
      BY <3>1 DEF IInv, ThreadsPlaced
    <3> QED BY <1>1, <1>2, <1>6, <3>1, <3>2 DEF eventVars
  <2>4. \A q \in Queue : IsInjective(waitq'[q])
    BY <1>2 DEF IInv, ThreadsPlaced, eventVars
  <2> QED BY <1>1, <1>2, <1>3, <2>1, <2>2, <2>3, <2>4 DEF ThreadsPlaced
<1>8. HandlesValid'
  <2>1. UNCHANGED <<td_timer, timerList, tn_callback, tn_arg>>
    BY <1>2 DEF timerVars, tnVars
  <2>2. ASSUME NEW t \in Thread, td_timer'[t] \in Timer
        PROVE  t \in Live' /\ (Timed(t)' \/ (Asleep(t)' /\ td_queue'[t] = NIL))
    <3>1. t # r /\ td_queue'[t] = td_queue[t]
      BY <1>1, <1>5, <2>1, <2>2
    <3>2. t \in Live /\ (Timed(t) \/ (Asleep(t) /\ td_queue[t] = NIL))
      BY <2>1, <2>2 DEF IInv, HandlesValid
    <3> QED BY <1>3, <2>1, <3>1, <3>2 DEF Timed, Asleep
  <2>3. \A tn \in ToSet(timerList') :
           tn_callback'[tn] # NIL => \E t \in Live' : td_timer'[t] = tn
    <3>1. ASSUME NEW tn \in ToSet(timerList), tn_callback[tn] # NIL
          PROVE  \E t \in Live' : td_timer[t] = tn
      <4>1. PICK t \in Live : td_timer[t] = tn
        BY <3>1 DEF IInv, HandlesValid
      <4>2. tn \in Timer
        BY ToSetOf DEF IInv, TypeOK
      <4> QED BY <1>1, <1>3, <4>1, <4>2
    <3> QED BY <2>1, <3>1
  <2>4. \A t \in Thread : td_queue'[t] \in Queue => td_timer'[t] # SIGNALED
    BY <1>5, <2>1 DEF IInv, HandlesValid
  <2> QED BY <2>1, <2>2, <2>3, <2>4 DEF IInv, HandlesValid
<1>9. PendingAtHead'
  <2>1. \A u \in Thread : td_qpec[u] > 0 => u # r /\ td_queue'[u] = td_queue[u]
    BY <1>1, <1>5 DEF IInv, PendingAtHead
  <2> QED BY <1>2, <2>1 DEF IInv, PendingAtHead, eventVars
<1>10. TypeOK'
  <2>1. /\ td_state' \in [Thread -> {"RUNNING", "READY", "SLEEP"}]
        /\ td_queue' \in [Thread -> Queue \cup {RunQueue, NIL}]
    BY <1>0, <1>1, <1>2, <1>4 DEF IInv, TypeOK
  <2>2. pc' \in Position
    BY <1>2 DEF Position
  <2> QED BY <1>1, <1>2, <1>3, <1>4, <2>1, <2>2
      DEF IInv, TypeOK, eventVars, timerVars, tnVars
<1>11. ControlOK'
  BY <1>2, <1>4 DEF IInv, ControlOK, ThreadCode
<1>12. WaitersOrdered' /\ TimersOrdered'
  BY <1>2 DEF IInv, WaitersOrdered, TimersOrdered, eventVars, timerVars, tnVars
<1> QED BY <1>7, <1>8, <1>9, <1>10, <1>11, <1>12 DEF IInv


\* Nothing of an earlier life of the new thread is left in a queue or a handle.
LEMMA NutThreadCreateStep ==
    ASSUME IInv, NEW t \in App, NutThreadCreate(t)
    PROVE  IInv'
<1> USE PointerAssumption
<1> DEFINE r == runningThread
           pr == [td_priority EXCEPT ![t] = Default]
           rq == Enqueued(runQueue, t, pr)
           n == Head(rq)
<1>0. /\ td_queue \in [Thread -> Queue \cup {RunQueue, NIL}]
      /\ td_timer \in [Thread -> Handle \cup {SIGNALED}]
      /\ td_priority \in [Thread -> Nat] /\ td_qpec \in [Thread -> Nat]
      /\ waitq \in [Queue -> Seq(Thread)] /\ nutThreadList \in Seq(Thread)
      /\ IsInjective(nutThreadList)
      /\ runQueue \in Seq(Thread) /\ IsInjective(runQueue)
      /\ runQueue # <<>> /\ Last(runQueue) = Idle
      /\ r \in Thread
  BY DEF IInv, TypeOK, ThreadsPlaced
<1>1. /\ t \in Thread /\ t # Idle /\ t \notin Live /\ Default \in Nat /\ Default < Lowest
      /\ td_timer[t] \notin Timer /\ t \notin ToSet(runQueue)
      /\ \A q \in Queue : t \notin ToSet(waitq[q])
  <2>1. t \in Thread /\ t # Idle /\ t \notin Live /\ Default \in Nat /\ Default < Lowest
    BY ThreadAssumption, PriorityAssumption DEF NutThreadCreate, Thread, Live
  <2> QED BY <2>1 DEF IInv, HandlesValid, ThreadsPlaced
<1>2. /\ td_priority' = pr /\ runQueue' = rq
      /\ nutThreadList' = <<t>> \o nutThreadList
      /\ td_queue' = [td_queue EXCEPT ![t] = RunQueue]
      /\ td_timer' = [td_timer EXCEPT ![t] = NIL]
      /\ td_qpec' = [td_qpec EXCEPT ![t] = 0]
      /\ td_state' = IF n = r THEN [td_state EXCEPT ![t] = "READY"]
                     ELSE [td_state EXCEPT ![r] = "READY", ![t] = "READY", ![n] = "RUNNING"]
      /\ runningThread' = n /\ pc' \in {"return", "user"}
      /\ UNCHANGED <<killedThread, waiting, waitq, signaled, tnVars, lag, api, qhp, ms,
                     scan, ticksNew>>
  BY DEF NutThreadCreate, SwitchTo
<1> HIDE DEF r
<1>3. pr[t] = Default /\ \A u \in Thread \ {t} : pr[u] = td_priority[u]
  BY <1>0, <1>1
<1>4. pr \in [Thread -> Nat] /\ pr[Idle] = Lowest /\ \A u \in App : pr[u] < Lowest
  <2>1. Idle \in Thread /\ Idle # t /\ App \subseteq Thread
    BY <1>1 DEF Thread
  <2>2. pr \in [Thread -> Nat]
    BY <1>0, <1>1
  <2> QED BY <1>1, <1>3, <2>1, <2>2 DEF IInv, ControlOK
<1> HIDE DEF pr
<1>5. /\ rq \in Seq(Thread) /\ IsInjective(rq) /\ rq # <<>> /\ Last(rq) = Idle
      /\ ToSet(rq) = ToSet(runQueue) \cup {t}
  <2>1. pr[Idle] > pr[t]
    BY <1>1, <1>3, <1>4, PriorityAssumption
  <2> QED BY <1>0, <1>1, <2>1, RunQueueAdd
<1> HIDE DEF rq
<1>6. n \in Thread /\ n \in ToSet(rq)
  BY <1>5, HeadOf
<1> HIDE DEF n
<1>7. /\ nutThreadList' \in Seq(Thread) /\ IsInjective(nutThreadList')
      /\ Live' = Live \cup {t}
  BY <1>0, <1>1, <1>2, FrontIs DEF Live
<1>8. /\ td_queue'[t] = RunQueue /\ td_timer'[t] = NIL /\ td_qpec'[t] = 0
      /\ \A u \in Thread \ {t} : /\ td_queue'[u] = td_queue[u]
                                 /\ td_timer'[u] = td_timer[u]
                                 /\ td_qpec'[u] = td_qpec[u]
  BY <1>0, <1>1, <1>2
<1>9. /\ \A u \in Thread \ {t} : /\ Asleep(u) => Asleep(u)'
                                 /\ Timed(u) => Timed(u)'
      /\ UNCHANGED <<timerList, tn_callback, tn_arg>>
  BY <1>2, <1>8 DEF Asleep, Timed, tnVars
<1>10. Live \subseteq Thread /\ \A u \in Live : u # t
  BY <1>0, <1>1, ToSetOf DEF Live
<1>11. ThreadsPlaced'
  <2>1. ASSUME NEW q \in Queue, NEW u \in ToSet(waitq'[q]) PROVE u \in Live' /\ td_queue'[u] = q
    <3>1. u \in Live /\ td_queue[u] = q
      BY <1>2, <2>1 DEF IInv, ThreadsPlaced
    <3> QED BY <1>7, <1>8, <1>10, <3>1
  <2>2. ASSUME NEW u \in ToSet(runQueue') PROVE u \in Live' /\ td_queue'[u] = RunQueue
    <3>1. CASE u = t
      BY <1>7, <1>8, <3>1
    <3>2. CASE u # t
      <4>1. u \in ToSet(runQueue)
        BY <1>2, <1>5, <2>2, <3>2
      <4>2. u \in Live /\ td_queue[u] = RunQueue
        BY <4>1 DEF IInv, ThreadsPlaced
      <4> QED BY <1>7, <1>8, <1>10, <4>2
    <3> QED BY <3>1, <3>2
  <2>3. ASSUME NEW u \in Live'
        PROVE  /\ td_queue'[u] \in Queue => u \in ToSet(waitq'[td_queue'[u]])
               /\ td_queue'[u] = RunQueue => u \in ToSet(runQueue')
               /\ td_queue'[u] = NIL => Asleep(u)'
    <3>1. CASE u = t
      BY <1>2, <1>5, <1>8, <3>1
    <3>2. CASE u # t
      <4>1. u \in Live /\ u \in Thread /\ td_queue'[u] = td_queue[u]
        BY <1>7, <1>8, <1>10, <2>3, <3>2
      <4>2. /\ td_queue[u] \in Queue => u \in ToSet(waitq[td_queue[u]])
            /\ td_queue[u] = RunQueue => u \in ToSet(runQueue)
            /\ td_queue[u] = NIL => Asleep(u)
        BY <4>1 DEF IInv, ThreadsPlaced
      <4> QED BY <1>2, <1>5, <1>9, <3>2, <4>1, <4>2
    <3> QED BY <3>1, <3>2
  <2>4. \A q \in Queue : IsInjective(waitq'[q])
    BY <1>2 DEF IInv, ThreadsPlaced
  <2> QED BY <1>2, <1>5, <1>7, <2>1, <2>2, <2>3, <2>4 DEF ThreadsPlaced
<1>12. HandlesValid'
  <2>1. ASSUME NEW u \in Thread, td_timer'[u] \in Timer
        PROVE  /\ u \in Live' /\ (Timed(u)' \/ (Asleep(u)' /\ td_queue'[u] = NIL))
               /\ u # t /\ td_timer[u] = td_timer'[u]
    <3>1. u # t /\ td_queue'[u] = td_queue[u] /\ td_timer'[u] = td_timer[u]
      BY <1>8, <2>1
    <3>2. u \in Live /\ (Timed(u) \/ (Asleep(u) /\ td_queue[u] = NIL))
      BY <2>1, <3>1 DEF IInv, HandlesValid
    <3> QED BY <1>7, <1>9, <3>1, <3>2
  <2>2. \A u, v \in Thread : td_timer'[u] \in Timer /\ td_timer'[u] = td_timer'[v] => u = v
    BY <2>1 DEF IInv, HandlesValid
  <2>3. ASSUME NEW tn \in ToSet(timerList), tn_callback[tn] # NIL
        PROVE  \E u \in Live' : td_timer'[u] = tn
    <3>1. PICK u \in Live : td_timer[u] = tn
      BY <2>3 DEF IInv, HandlesValid
    <3> QED BY <1>7, <1>8, <1>10, <3>1
  <2>4. \A u \in Thread : td_queue'[u] \in Queue => td_timer'[u] # SIGNALED
    BY <1>8 DEF IInv, HandlesValid
  <2>5. IsInjective(timerList')
    BY <1>9 DEF IInv, HandlesValid
  <2> QED BY <1>9, <2>1, <2>2, <2>3, <2>4, <2>5 DEF HandlesValid
<1>13. PendingAtHead'
  <2>1. \A u \in Thread : td_qpec'[u] > 0 => td_qpec[u] > 0 /\ td_queue'[u] = td_queue[u]
    BY <1>8
  <2> QED BY <1>2, <2>1 DEF IInv, PendingAtHead
<1>14. WaitersOrdered' /\ TimersOrdered'
  <2>1. ASSUME NEW q \in Queue PROVE PriorityOrdered(waitq'[q], td_priority')
    <3>1. /\ waitq'[q] = waitq[q] /\ waitq[q] \in Seq(Thread)
          /\ PriorityOrdered(waitq[q], td_priority)
      BY <1>0, <1>2 DEF IInv, WaitersOrdered
    <3>2. \A u \in ToSet(waitq[q]) : u \in Thread /\ u # t
      BY <1>1, <3>1, ToSetOf
    <3>3. \A u \in ToSet(waitq[q]) : pr[u] = td_priority[u]
      BY <1>3, <3>2
    <3> QED BY <1>2, <3>1, <3>3, OrderedElsewhere
  <2> QED BY <1>2, <2>1 DEF IInv, WaitersOrdered, TimersOrdered, tnVars
<1>15. TypeOK'
  <2>1. /\ td_state' \in [Thread -> {"RUNNING", "READY", "SLEEP"}]
        /\ td_queue' \in [Thread -> Queue \cup {RunQueue, NIL}]
        /\ td_timer' \in [Thread -> Handle \cup {SIGNALED}]
        /\ td_qpec' \in [Thread -> Nat]
    BY <1>0, <1>1, <1>2, <1>6 DEF IInv, TypeOK, Handle
  <2>2. pc' \in Position
    BY <1>2 DEF Position
  <2> QED BY <1>2, <1>4, <1>5, <1>6, <1>7, <2>1, <2>2 DEF IInv, TypeOK, tnVars
<1>16. ControlOK'
  BY <1>2, <1>4, <1>6 DEF ControlOK, ThreadCode
<1> QED BY <1>11, <1>12, <1>13, <1>14, <1>15, <1>16 DEF IInv

-----------------------------------------------------------------------------
(* The invariant of every behaviour.                                       *)

\* Nothing changes in a stuttering step.
LEMMA StutterStep == ASSUME IInv, UNCHANGED vars PROVE IInv'
<1>1. TypeOK' /\ ControlOK'
  BY DEF IInv, TypeOK, ControlOK, ThreadCode, vars, threadVars, eventVars, timerVars, tnVars,
         cpuVars
<1>2. RunQueueOK(runQueue') /\ PendingAtHead'
  BY RunQueueSame, PendingSame DEF IInv, vars, threadVars, eventVars
<1> QED BY <1>1, <1>2, QuietStep DEF vars, threadVars, eventVars, timerVars

\* Every step of the kernel, of an interrupt and of the application keeps IInv.
LEMMA NextIInv == IInv /\ [Next]_vars => IInv'
<1> SUFFICES ASSUME IInv, [Next]_vars PROVE IInv'
  OBVIOUS
<1>1. CASE Interrupt
  BY <1>1, IrqTickStep, IrqPostStep DEF Interrupt
<1>2. CASE UserCall
  <2>1. ASSUME NEW q \in Queue, NEW d \in Delay, NutEventWait(q, d) \/ NutEventWaitNext(q, d)
        PROVE  IInv'
    BY <2>1, NutEventWaitStep
  <2>2. ASSUME NEW q \in Queue, NEW f \in {"NutEventPostAsync", "NutEventPost"}, PostCall(f, q)
        PROVE  IInv'
    BY <2>2, PostCallStep
  <2>3. ASSUME NEW q \in Queue, NEW f \in Bcast, BroadcastCall(f, q) PROVE IInv'
    BY <2>3, BroadcastCallStep
  <2>4. CASE NutThreadYield
    BY <2>4, YieldStep
  <2>5. ASSUME NEW d \in Delay \ {0}, NutSleep(d) PROVE IInv'
    BY <2>5, NutSleepStep
  <2>6. ASSUME NEW l \in Level, NutThreadSetPriority(l) PROVE IInv'
    BY <2>6, NutThreadSetPriorityStep
  <2>7. CASE NutThreadExit
    BY <2>7, NutThreadExitStep
  <2>8. ASSUME NEW t \in App, NutThreadCreate(t) PROVE IInv'
    BY <2>8, NutThreadCreateStep
  <2> QED BY <1>2, <2>1, <2>2, <2>3, <2>4, <2>5, <2>6, <2>7, <2>8 DEF UserCall
<1>3. CASE KernelStep
  <2>1. CASE WaitReadRoot \/ ClearRoot \/ Enqueue \/ WaitReturn
    BY <2>1, WaitReadRootStep, ClearRootStep, EnqueueStep, WaitReturnStep
  <2>2. CASE SignalRoot \/ WakeHead
    BY <2>2, SignalRootStep, WakeHeadStep
  <2>3. CASE ResumeScan \/ ResumeTicks \/ TimerElapse \/ TimersDone \/ ResumeSwitch
    BY <2>3, ResumeScanStep, ResumeTicksStep, TimerElapseStep, TimersDoneStep,
       ResumeSwitchStep
  <2> QED BY <1>3, <2>1, <2>2, <2>3 DEF KernelStep
<1>4. CASE IdleLoop
  BY <1>4, YieldStep
<1>5. CASE UNCHANGED vars
  BY <1>5, StutterStep
<1> QED BY <1>1, <1>2, <1>3, <1>4, <1>5 DEF Next

\* The inductive invariant holds in every reachable state of the kernel.
THEOREM KernelInvariant == Spec => []IInv
  BY InitIInv, NextIInv, PTL DEF Spec

\* Every variable of the kernel always has its type.
THEOREM KernelTypes == Spec => []TypeOK
<1>1. IInv => TypeOK
  BY DEF IInv
<1> QED BY <1>1, KernelInvariant, PTL

\* The assumptions the kernel code makes without checking them hold.
THEOREM KernelControl == Spec => []ControlOK
<1>1. IInv => ControlOK
  BY DEF IInv
<1> QED BY <1>1, KernelInvariant, PTL

\* No thread is ever lost or linked twice.
THEOREM KernelPlacesThreads == Spec => []ThreadsPlaced
<1>1. IInv => ThreadsPlaced
  BY DEF IInv
<1> QED BY <1>1, KernelInvariant, PTL

\* No timer handle dangles, and no callback runs for a thread that has gone.
THEOREM KernelHandles == Spec => []HandlesValid
<1>1. IInv => HandlesValid
  BY DEF IInv
<1> QED BY <1>1, KernelInvariant, PTL

\* Interrupt events are pending on the first waiter of a queue, or on nobody.
THEOREM KernelPending == Spec => []PendingAtHead
<1>1. IInv => PendingAtHead
  BY DEF IInv
<1> QED BY <1>1, KernelInvariant, PTL

\* The first waiter of an event queue is always a most urgent one.
THEOREM KernelWaitersOrder == Spec => []WaitersOrdered
<1>1. IInv => WaitersOrdered
  BY DEF IInv
<1> QED BY <1>1, KernelInvariant, PTL

\* The timer list is always ordered by expiry.
THEOREM KernelTimersOrder == Spec => []TimersOrdered
<1>1. IInv => TimersOrdered
  BY DEF IInv
<1> QED BY <1>1, KernelInvariant, PTL

-----------------------------------------------------------------------------
(* The state of a thread agrees with the queue it is in, and the run queue *)
(* stays ordered while there is memory for a timer.                        *)
(*                                                                         *)
(* What the steps that make a thread ready do to it.                       *)

\* Thread t joins the run queue, at once yielding to others or not.
Readied(t) ==
    /\ td_state' = [td_state EXCEPT ![t] = "READY"]
    /\ td_queue' = [td_queue EXCEPT ![t] = RunQueue]
    /\ ToSet(runQueue') = ToSet(runQueue) \cup {t}
    /\ LET rq == Enqueued(runQueue, t, td_priority) IN runQueue' \in {rq, Yielded(rq)}

\* A post or a broadcast makes the first waiter ready.
LEMMA WakeHeadMoves ==
    ASSUME IInv, WakeHead
    PROVE  /\ qhp \in Queue
           /\ \E t \in Thread :
                 /\ t = Head(waitq[qhp]) /\ t \in ToSet(waitq[qhp]) /\ t \in Live
                 /\ Readied(t) /\ LeaveQueue(t, qhp)
                 /\ td_timer' = [td_timer EXCEPT ![t] = NIL]
           /\ api' \in {api, NIL}
           /\ UNCHANGED <<nutThreadList, runningThread, td_priority, waiting>>
<1> DEFINE t == Head(waitq[qhp])
           rq == Enqueued(runQueue, t, td_priority)
<1>0. /\ waitq \in [Queue -> Seq(Thread)] /\ qhp \in Queue /\ waitq[qhp] # <<>>
      /\ td_queue \in [Thread -> Queue \cup {RunQueue, NIL}] /\ pc = "wake"
  BY DEF IInv, TypeOK, ControlOK, WakeHead
<1>1. t \in Thread /\ t \in ToSet(waitq[qhp])
  BY <1>0, HeadOf
<1>2. t \in Live /\ td_queue[t] = qhp /\ qhp # RunQueue
  BY <1>0, <1>1, PointerAssumption DEF IInv, ThreadsPlaced
<1>3. /\ LeaveQueue(t, qhp)
      /\ td_timer' = [td_timer EXCEPT ![t] = NIL]
      /\ td_state' = [td_state EXCEPT ![t] = "READY"]
      /\ td_queue' = [td_queue EXCEPT ![t] = RunQueue]
      /\ (runQueue' = rq /\ UNCHANGED <<pc, scan, api, qhp, ms>>) \/ Leave(api, rq)
      /\ UNCHANGED <<nutThreadList, runningThread, td_priority, waiting>>
  BY DEF WakeHead
<1>4. /\ rq \in Seq(Thread) /\ IsInjective(rq) /\ rq # <<>> /\ Last(rq) = Idle
      /\ ToSet(rq) = ToSet(runQueue) \cup {t}
  BY <1>1, <1>2, ReadyQueue
<1> HIDE DEF t, rq
<1>5. runQueue' = rq \/ (api \in Yielding /\ runQueue' = Yielded(rq))
  BY <1>3 DEF Leave
<1>6. ToSet(runQueue') = ToSet(rq)
  <2>1. CASE runQueue' = rq
    BY <2>1
  <2>2. CASE api \in Yielding /\ runQueue' = Yielded(rq)
    <3>1. runningThread \in ToSet(rq)
      BY <1>0, <1>4, <2>2 DEF IInv, ControlOK, ThreadCode, Yielding
    <3>2. \A u \in Thread \ {Idle} : td_priority[Idle] > td_priority[u]
      BY IdleReady DEF IInv
    <3> QED BY <1>4, <2>2, <3>1, <3>2, YieldedKeeps DEF IInv
  <2> QED BY <1>5, <2>1, <2>2
<1>7. Readied(t)
  BY <1>3, <1>4, <1>5, <1>6 DEF Readied, rq
<1>8. api' \in {api, NIL}
  BY <1>3 DEF Leave
<1> QED BY <1>0, <1>1, <1>2, <1>3, <1>7, <1>8 DEF t

\* An elapsed timer was stopped, or it was the timeout of a waiter, or it ends the
\* sleep of a thread.
LEMMA TimerElapseMoves ==
    ASSUME IInv, TimerElapse
    PROVE  /\ \/ UNCHANGED <<eventVars, td_state, td_queue, runQueue, td_timer>>
              \/ \E t \in Thread, q \in Queue :
                    /\ t \in ToSet(waitq[q]) /\ t \in Live
                    /\ Readied(t) /\ LeaveQueue(t, q)
                    /\ td_timer' = [td_timer EXCEPT ![t] = SIGNALED]
              \/ \E t \in Thread :
                    /\ t \in Live /\ td_queue[t] = NIL /\ td_timer[t] \in Timer
                    /\ Readied(t) /\ UNCHANGED eventVars
                    /\ td_timer' = [td_timer EXCEPT ![t] = NIL]
           /\ UNCHANGED <<nutThreadList, runningThread, td_priority, waiting, pc, api, qhp>>
<1> USE PointerAssumption
<1> DEFINE tn == Head(timerList)
<1>0. /\ tn \in Timer /\ tn \in ToSet(timerList)
      /\ td_timer \in [Thread -> Handle \cup {SIGNALED}]
      /\ td_queue \in [Thread -> Queue \cup {RunQueue, NIL}]
      /\ Live \subseteq Thread
      /\ UNCHANGED <<nutThreadList, runningThread, td_priority, waiting, pc, api, qhp>>
  BY ElapsedTimers, ToSetOf DEF IInv, TypeOK, TimerElapse, Live
<1>1. ASSUME tn_callback[tn] # NIL
      PROVE  \E t \in Live : /\ td_timer[t] = tn /\ t \in Thread
                             /\ Timed(t) \/ (Asleep(t) /\ td_queue[t] = NIL)
                             /\ td_queue[t] # RunQueue
  <2>1. PICK t \in Live : td_timer[t] = tn
    BY <1>0, <1>1 DEF IInv, HandlesValid
  <2>2. t \in Thread
    BY <1>0
  <2>3. td_queue[t] # RunQueue
    BY <1>0, <2>1, <2>2, HandleInList
  <2> HIDE DEF tn
  <2>4. Timed(t) \/ (Asleep(t) /\ td_queue[t] = NIL)
    BY <1>0, <2>1, <2>2 DEF IInv, HandlesValid
  <2> QED BY <2>1, <2>2, <2>3, <2>4
<1>2. CASE UNCHANGED <<eventVars, td_state, td_queue, runQueue, td_timer>>
  BY <1>0, <1>2
<1>3. CASE tn_callback[tn] = "NutEventTimeout" /\ EventTimeout(tn, tn_arg[tn])
  <2>1. PICK t \in Live : /\ td_timer[t] = tn /\ t \in Thread
                          /\ Timed(t) \/ (Asleep(t) /\ td_queue[t] = NIL)
                          /\ td_queue[t] # RunQueue
    BY <1>1, <1>3
  <2> HIDE DEF tn
  <2>2. tn_arg[tn] = td_queue[t] /\ td_queue[t] \in Queue
    BY <1>3, <2>1 DEF Timed, Asleep
  <2> DEFINE q == td_queue[t]
  <2>3. t \in ToSet(waitq[q])
    BY <2>2 DEF IInv, ThreadsPlaced
  <2>4. WaiterFor(tn, q) = t
    BY <1>0, <2>1, <2>2, <2>3, WaiterForIs
  <2>5. /\ LeaveQueue(t, q)
        /\ td_state' = [td_state EXCEPT ![t] = "READY"]
        /\ td_queue' = [td_queue EXCEPT ![t] = RunQueue]
        /\ runQueue' = Enqueued(runQueue, t, td_priority)
        /\ td_timer' = [td_timer EXCEPT ![t] = SIGNALED]
    BY <1>3, <2>1, <2>2, <2>3, <2>4 DEF EventTimeout, WaitsFor
  <2>6. Readied(t)
    BY <2>1, <2>5, ReadyQueue DEF Readied
  <2> QED BY <1>0, <2>1, <2>2, <2>3, <2>5, <2>6
<1>4. CASE tn_callback[tn] = "NutThreadWake" /\ ThreadWake(tn_arg[tn])
  <2>1. PICK t \in Live : /\ td_timer[t] = tn /\ t \in Thread
                          /\ Timed(t) \/ (Asleep(t) /\ td_queue[t] = NIL)
                          /\ td_queue[t] # RunQueue
    BY <1>1, <1>4
  <2> HIDE DEF tn
  <2>2. tn_arg[tn] = t /\ td_queue[t] = NIL
    BY <1>4, <2>1 DEF Timed, Asleep
  <2>3. /\ td_state' = [td_state EXCEPT ![t] = "READY"]
        /\ td_queue' = [td_queue EXCEPT ![t] = RunQueue]
        /\ runQueue' = Enqueued(runQueue, t, td_priority)
        /\ td_timer' = [td_timer EXCEPT ![t] = NIL]
        /\ UNCHANGED eventVars
    BY <1>4, <2>2 DEF ThreadWake
  <2>4. Readied(t)
    BY <2>1, <2>3, ReadyQueue DEF Readied
  <2> QED BY <1>0, <2>1, <2>2, <2>3, <2>4
<1> QED BY <1>2, <1>3, <1>4 DEF TimerElapse

-----------------------------------------------------------------------------
(* The states of the threads.                                              *)

\* The inductive invariant with the states.
SInv == IInv /\ StatesAgree

\* Created threads are threads.
LEMMA LiveThreads == ASSUME IInv PROVE Live \subseteq Thread
  BY ToSetOf DEF IInv, TypeOK, Live

\* A step that moves no thread and changes no state.
LEMMA StatesQuiet ==
    ASSUME StatesAgree, UNCHANGED <<nutThreadList, runningThread, td_state>>,
           ToSet(runQueue') = ToSet(runQueue)
    PROVE  StatesAgree'
  BY DEF StatesAgree, Live

\* A thread becomes ready.
LEMMA StatesReady ==
    ASSUME IInv, StatesAgree, NEW t \in Thread, Readied(t),
           UNCHANGED <<nutThreadList, runningThread>>
    PROVE  StatesAgree'
<1>1. td_state \in [Thread -> {"RUNNING", "READY", "SLEEP"}]
  BY DEF IInv, TypeOK
<1>2. /\ td_state'[t] = "READY" /\ t \in ToSet(runQueue')
      /\ \A u \in Thread \ {t} : /\ td_state'[u] = td_state[u]
                                 /\ u \in ToSet(runQueue') <=> u \in ToSet(runQueue)
  BY <1>1 DEF Readied
<1>3. Live' = Live /\ Live \subseteq Thread
  BY LiveThreads DEF Live
<1> QED BY <1>2, <1>3 DEF StatesAgree

\* The running thread falls asleep.
LEMMA StatesSleep ==
    ASSUME IInv, StatesAgree, runningThread \in Thread,
           td_state' = [td_state EXCEPT ![runningThread] = "SLEEP"],
           ToSet(runQueue') = ToSet(runQueue) \ {runningThread},
           UNCHANGED <<nutThreadList, runningThread>>
    PROVE  StatesAgree'
<1>1. td_state \in [Thread -> {"RUNNING", "READY", "SLEEP"}]
  BY DEF IInv, TypeOK
<1>2. /\ td_state'[runningThread] = "SLEEP" /\ runningThread \notin ToSet(runQueue')
      /\ \A u \in Thread \ {runningThread} :
            /\ td_state'[u] = td_state[u]
            /\ u \in ToSet(runQueue') <=> u \in ToSet(runQueue)
  BY <1>1
<1>3. Live' = Live /\ Live \subseteq Thread
  BY LiveThreads DEF Live
<1> QED BY <1>2, <1>3 DEF StatesAgree

\* The CPU goes from the running thread to n; the set of ready threads may have
\* lost a thread that was killed or got one that was created.
LEMMA StatesSwitch ==
    ASSUME IInv, StatesAgree, NEW n \in Thread, n \in ToSet(runQueue'),
           runningThread' = n, td_state' \in [Thread -> {"RUNNING", "READY", "SLEEP"}],
           Live' \subseteq Thread,
           \A u \in Live' : \/ /\ u \in Live /\ td_state'[u] = td_state[u]
                               /\ u \in ToSet(runQueue') <=> u \in ToSet(runQueue)
                               /\ u = runningThread => u = n
                            \/ td_state'[u] = "READY" /\ u \in ToSet(runQueue')
                            \/ u = n /\ td_state'[u] = "RUNNING"
    PROVE  StatesAgree'
  BY DEF StatesAgree

\* ResumeSwitch keeps the states right.
LEMMA ResumeSwitchStates == ASSUME SInv, ResumeSwitch PROVE StatesAgree'
<1> DEFINE n == Head(runQueue)
           r == runningThread
<1>0. /\ n \in Thread /\ n \in ToSet(runQueue) /\ r \in Thread
      /\ td_state \in [Thread -> {"RUNNING", "READY", "SLEEP"}]
  BY HeadOf, RunQueueSame DEF SInv, IInv, TypeOK, RunQueueOK
<1>1. /\ runningThread' = n /\ UNCHANGED <<nutThreadList, runQueue>>
      /\ td_state' = SwitchedStates(r, n)
  BY DEF ResumeSwitch, SwitchTo
<1> HIDE DEF n
<1>2. Live' = Live /\ Live \subseteq Thread
  BY <1>1, LiveThreads DEF SInv, Live
<1>3. CASE r = n
  <2>1. td_state' = td_state
    BY <1>1, <1>3 DEF SwitchedStates
  <2> QED BY <1>1, <1>3, <2>1, StatesQuiet DEF SInv
<1>4. CASE r # n
  <2>1. td_state' = [td_state EXCEPT ![r] = IF @ = "RUNNING" THEN "READY" ELSE @, ![n] = "RUNNING"]
    BY <1>1, <1>4 DEF SwitchedStates
  <2>2. /\ td_state'[n] = "RUNNING"
        /\ td_state'[r] = IF td_state[r] = "RUNNING" THEN "READY" ELSE td_state[r]
        /\ \A u \in Thread \ {r, n} : td_state'[u] = td_state[u]
    BY <1>0, <1>4, <2>1
  <2> QED BY <1>0, <1>1, <1>2, <1>4, <2>2 DEF StatesAgree, SInv
<1> QED BY <1>3, <1>4

\* A failed NutSleep changes nothing that matters here; otherwise the caller sleeps.
LEMMA NutSleepStates ==
    ASSUME SInv, NEW d \in Delay \ {0}, NutSleep(d) PROVE StatesAgree'
<1> DEFINE r == runningThread
           rest == Dequeued(runQueue, r)
<1>0. /\ r \in Thread /\ r # Idle /\ r \in ToSet(runQueue) /\ r \in Live
      /\ rest \in Seq(Thread) /\ IsInjective(rest) /\ ToSet(rest) = ToSet(runQueue) \ {r}
  BY RunningReady DEF SInv, NutSleep, AppRuns, ThreadCode
<1>1. td_state \in [Thread -> {"RUNNING", "READY", "SLEEP"}]
  BY DEF SInv, IInv, TypeOK
<1>2. /\ UNCHANGED <<nutThreadList, runningThread>>
      /\ \/ runQueue' = rest /\ td_state' = [td_state EXCEPT ![r] = "SLEEP"]
         \/ runQueue' = <<r>> \o rest /\ td_state' = [td_state EXCEPT ![r] = "RUNNING"]
  BY DEF NutSleep, PutBack
<1> HIDE DEF rest
<1>3. CASE runQueue' = rest /\ td_state' = [td_state EXCEPT ![r] = "SLEEP"]
  BY <1>0, <1>2, <1>3, StatesSleep DEF SInv
<1>4. CASE runQueue' = <<r>> \o rest /\ td_state' = [td_state EXCEPT ![r] = "RUNNING"]
  <2>1. ToSet(runQueue') = ToSet(runQueue)
    <3>1. ToSet(<<r>> \o rest) = ToSet(rest) \cup {r}
      BY <1>0, FrontIs
    <3> QED BY <1>0, <1>4, <3>1
  <2>2. Live' = Live /\ Live \subseteq Thread
    BY <1>2, LiveThreads DEF SInv, Live
  <2>3. /\ td_state'[r] = "RUNNING"
        /\ \A u \in Thread \ {r} : td_state'[u] = td_state[u]
    BY <1>0, <1>1, <1>4
  <2> QED BY <1>0, <1>2, <2>1, <2>2, <2>3 DEF StatesAgree, SInv
<1> QED BY <1>2, <1>3, <1>4

\* So does NutThreadSetPriority, which may give the CPU away.
LEMMA NutThreadSetPriorityStates ==
    ASSUME SInv, NEW l \in Level, NutThreadSetPriority(l) PROVE StatesAgree'
<1> DEFINE r == runningThread
           rest == Dequeued(runQueue, r)
           rq == Enqueued(rest, r, [td_priority EXCEPT ![r] = l])
           n == Head(rq)
<1>0. /\ r \in Thread /\ r \in ToSet(runQueue) /\ r \in Live
      /\ rest \in Seq(Thread) /\ ToSet(rest) = ToSet(runQueue) \ {r}
  BY RunningReady DEF SInv, NutThreadSetPriority, AppRuns, ThreadCode
<1>1. td_state \in [Thread -> {"RUNNING", "READY", "SLEEP"}]
  BY DEF SInv, IInv, TypeOK
<1>2. /\ runQueue' = rq /\ runningThread' = n /\ UNCHANGED nutThreadList
      /\ td_state' = IF n = r THEN [td_state EXCEPT ![r] = "RUNNING"]
                     ELSE [td_state EXCEPT ![r] = "READY", ![n] = "RUNNING"]
  BY DEF NutThreadSetPriority, SwitchTo
<1> HIDE DEF rest
<1>3. rq \in Seq(Thread) /\ rq # <<>> /\ ToSet(rq) = ToSet(runQueue)
  <2>1. rq \in Seq(Thread) /\ rq # <<>> /\ ToSet(rq) = ToSet(rest) \cup {r}
    BY <1>0, EnqueuedSet
  <2> QED BY <1>0, <2>1
<1> HIDE DEF rq
<1>4. n \in Thread /\ n \in ToSet(runQueue')
  BY <1>2, <1>3, HeadOf
<1> HIDE DEF n
<1>5. Live' = Live /\ Live \subseteq Thread
  BY <1>2, LiveThreads DEF SInv, Live
<1>6. td_state' \in [Thread -> {"RUNNING", "READY", "SLEEP"}]
  BY <1>0, <1>1, <1>2, <1>4
<1>7. /\ td_state'[n] = "RUNNING" /\ n # r => td_state'[r] = "READY"
      /\ \A u \in Thread \ {r, n} : td_state'[u] = td_state[u]
  BY <1>0, <1>1, <1>2, <1>4
<1> QED BY <1>0, <1>2, <1>3, <1>4, <1>5, <1>6, <1>7, StatesSwitch DEF SInv

\* The thread that exits is no thread any more; the next one runs.
LEMMA NutThreadExitStates == ASSUME SInv, NutThreadExit PROVE StatesAgree'
<1> DEFINE r == runningThread
           rest == Dequeued(runQueue, r)
           n == Head(rest)
<1>0. /\ r \in Thread /\ r # Idle /\ r \in ToSet(runQueue)
      /\ rest \in Seq(Thread) /\ rest # <<>> /\ ToSet(rest) = ToSet(runQueue) \ {r}
  BY RunningReady DEF SInv, NutThreadExit, AppRuns, ThreadCode
<1>1. /\ td_state \in [Thread -> {"RUNNING", "READY", "SLEEP"}]
      /\ nutThreadList \in Seq(Thread) /\ IsInjective(nutThreadList)
  BY DEF SInv, IInv, TypeOK, ThreadsPlaced
<1>2. /\ runQueue' = rest /\ runningThread' = n
      /\ nutThreadList' = Dequeued(nutThreadList, r)
      /\ td_state' = [td_state EXCEPT ![r] = "READY", ![n] = "RUNNING"]
  BY DEF NutThreadExit, SwitchTo
<1> HIDE DEF rest
<1>3. n \in Thread /\ n \in ToSet(rest)
  BY <1>0, HeadOf
<1> HIDE DEF n
<1>4. Live' = Live \ {r} /\ Live \subseteq Thread
  BY <1>1, <1>2, DequeuedSet, LiveThreads DEF SInv, Live
<1>5. td_state' \in [Thread -> {"RUNNING", "READY", "SLEEP"}]
  BY <1>0, <1>1, <1>2, <1>3
<1>6. /\ td_state'[n] = "RUNNING"
      /\ \A u \in Thread \ {r, n} : td_state'[u] = td_state[u]
  BY <1>0, <1>1, <1>2, <1>3
<1> QED BY <1>0, <1>2, <1>3, <1>4, <1>5, <1>6, StatesSwitch DEF SInv

\* The new thread is ready or runs at once.
LEMMA NutThreadCreateStates ==
    ASSUME SInv, NEW t \in App, NutThreadCreate(t) PROVE StatesAgree'
<1> DEFINE r == runningThread
           rq == Enqueued(runQueue, t, [td_priority EXCEPT ![t] = Default])
           n == Head(rq)
<1>0. /\ r \in Thread /\ r \in ToSet(runQueue) /\ t \in Thread
  BY RunningReady DEF SInv, NutThreadCreate, AppRuns, ThreadCode, Thread
<1>1. /\ td_state \in [Thread -> {"RUNNING", "READY", "SLEEP"}]
      /\ nutThreadList \in Seq(Thread) /\ IsInjective(nutThreadList)
      /\ runQueue \in Seq(Thread) /\ t \notin ToSet(nutThreadList)
  BY DEF SInv, IInv, TypeOK, ThreadsPlaced, NutThreadCreate
<1>2. /\ runQueue' = rq /\ runningThread' = n
      /\ nutThreadList' = <<t>> \o nutThreadList
      /\ td_state' = IF n = r THEN [td_state EXCEPT ![t] = "READY"]
                     ELSE [td_state EXCEPT ![r] = "READY", ![t] = "READY", ![n] = "RUNNING"]
  BY DEF NutThreadCreate, SwitchTo
<1>3. rq \in Seq(Thread) /\ rq # <<>> /\ ToSet(rq) = ToSet(runQueue) \cup {t}
  BY <1>0, <1>1, EnqueuedSet
<1> HIDE DEF rq
<1>4. n \in Thread /\ n \in ToSet(rq)
  BY <1>3, HeadOf
<1> HIDE DEF n
<1>5. Live' = Live \cup {t} /\ Live \subseteq Thread /\ t \notin Live
  BY <1>0, <1>1, <1>2, FrontIs, LiveThreads DEF SInv, Live
<1>6. r # t
  <2>1. r \in Live
    BY <1>0 DEF SInv, IInv, ThreadsPlaced
  <2> QED BY <1>5, <2>1
<1>7. td_state' \in [Thread -> {"RUNNING", "READY", "SLEEP"}]
  BY <1>0, <1>1, <1>2, <1>4
<1>8. /\ n # r => td_state'[n] = "RUNNING" /\ td_state'[r] = "READY"
      /\ n # t => td_state'[t] = "READY"
      /\ n = r => td_state'[r] = td_state[r]
      /\ \A u \in Thread \ {r, t, n} : td_state'[u] = td_state[u]
  BY <1>0, <1>1, <1>2, <1>4, <1>6
<1>9. ASSUME NEW u \in Live'
      PROVE  \/ /\ u \in Live /\ td_state'[u] = td_state[u]
                /\ u \in ToSet(runQueue') <=> u \in ToSet(runQueue)
                /\ u = runningThread => u = n
             \/ td_state'[u] = "READY" /\ u \in ToSet(runQueue')
             \/ u = n /\ td_state'[u] = "RUNNING"
  <2>0. u \in Thread
    BY <1>0, <1>5
  <2>1. CASE u = t
    BY <1>2, <1>3, <1>6, <1>8, <2>1
  <2>2. CASE u # t /\ u = r
    BY <1>0, <1>2, <1>3, <1>5, <1>8, <2>2
  <2>3. CASE u # t /\ u # r
    BY <1>2, <1>3, <1>5, <1>8, <2>0, <2>3
  <2> QED BY <2>1, <2>2, <2>3
<1> QED BY <1>0, <1>2, <1>4, <1>5, <1>7, <1>9, StatesSwitch DEF SInv

\* A waiter sleeps.
LEMMA EnqueueStates == ASSUME SInv, Enqueue PROVE StatesAgree'
<1>1. /\ runningThread \in Thread
      /\ ToSet(Dequeued(runQueue, runningThread)) = ToSet(runQueue) \ {runningThread}
  BY RunningReady DEF SInv, IInv, ControlOK, ThreadCode, Enqueue
<1>2. /\ runQueue' = Dequeued(runQueue, runningThread)
      /\ td_state' = [td_state EXCEPT ![runningThread] = "SLEEP"]
      /\ UNCHANGED <<nutThreadList, runningThread>>
  BY DEF Enqueue
<1> QED BY <1>1, <1>2, StatesSleep DEF SInv

\* All other steps leave the states alone and the same threads in the run queue.
LEMMA QuietStates ==
    ASSUME SInv,
           \/ Interrupt \/ IdleLoop \/ NutThreadYield
           \/ \E q \in Queue, d \in Delay : NutEventWait(q, d) \/ NutEventWaitNext(q, d)
           \/ \E q \in Queue, f \in Caller : PostCall(f, q) \/ BroadcastCall(f, q)
           \/ WaitReadRoot \/ ClearRoot \/ WaitReturn \/ SignalRoot
           \/ ResumeScan \/ ResumeTicks \/ TimersDone \/ UNCHANGED vars
    PROVE  StatesAgree'
<1>0. IInv /\ StatesAgree
  BY DEF SInv
<1>1. CASE \/ Interrupt \/ WaitReadRoot \/ WaitReturn \/ ResumeScan \/ ResumeTicks
           \/ TimersDone \/ UNCHANGED vars
           \/ \E q \in Queue, d \in Delay : NutEventWait(q, d) \/ NutEventWaitNext(q, d)
  <2>1. UNCHANGED <<nutThreadList, runningThread, td_state, runQueue>>
    BY <1>1 DEF Interrupt, IrqTick, IrqPost, WaitReadRoot, WaitReturn, ResumeScan,
       ResumeTicks, TimersDone, vars, threadVars, NutEventWait, NutEventWaitNext
  <2> QED BY <1>0, <2>1, StatesQuiet
<1>2. CASE IdleLoop \/ NutThreadYield
  <2>1. /\ UNCHANGED <<nutThreadList, runningThread, td_state>>
        /\ runQueue' = Yielded(runQueue) /\ pc = "user"
    BY <1>2 DEF IdleLoop, NutThreadYield, AppRuns
  <2>2. RunQueueOK(runQueue')
    BY <1>0, <2>1, YieldedSame DEF IInv, ControlOK, ThreadCode
  <2> QED BY <1>0, <2>1, <2>2, StatesQuiet DEF RunQueueOK
<1>3. CASE \/ ClearRoot \/ SignalRoot
           \/ \E q \in Queue, f \in Caller : PostCall(f, q) \/ BroadcastCall(f, q)
  <2>1. /\ UNCHANGED <<nutThreadList, runningThread, td_state>>
        /\ pc \in {"user", "clear", "signal"}
        /\ runQueue' = runQueue \/ \E f : Leave(f, runQueue)
    BY <1>3 DEF ClearRoot, SignalRoot, PostCall, BroadcastCall, AppRuns
  <2>2. runningThread \in ToSet(runQueue)
    BY <1>0, <2>1 DEF IInv, ControlOK, ThreadCode
  <2>3. RunQueueOK(runQueue')
    BY <1>0, <2>1, <2>2, LeaveSame, RunQueueSame
  <2> QED BY <1>0, <2>1, <2>3, StatesQuiet DEF RunQueueOK
<1> QED BY <1>1, <1>2, <1>3

\* Every step keeps the states right.
LEMMA NextSInv == SInv /\ [Next]_vars => SInv'
<1> SUFFICES ASSUME SInv, [Next]_vars PROVE StatesAgree'
  BY NextIInv DEF SInv
<1>0. IInv /\ StatesAgree
  BY DEF SInv
<1>1. CASE UserCall
  <2>1. ASSUME NEW d \in Delay \ {0}, NutSleep(d) PROVE StatesAgree'
    BY <2>1, NutSleepStates
  <2>2. ASSUME NEW l \in Level, NutThreadSetPriority(l) PROVE StatesAgree'
    BY <2>2, NutThreadSetPriorityStates
  <2>3. ASSUME NEW t \in App, NutThreadCreate(t) PROVE StatesAgree'
    BY <2>3, NutThreadCreateStates
  <2>4. ASSUME NEW q \in Queue, NEW d \in Delay, NutEventWait(q, d) \/ NutEventWaitNext(q, d)
        PROVE  StatesAgree'
    BY <2>4, QuietStates
  <2>5. ASSUME NEW q \in Queue, NEW f \in {"NutEventPostAsync", "NutEventPost"}, PostCall(f, q)
        PROVE  StatesAgree'
    <3>1. f \in Caller
      BY DEF Caller, Async, Yielding
    <3> QED BY <2>5, <3>1, QuietStates
  <2>6. ASSUME NEW q \in Queue, NEW f \in Bcast, BroadcastCall(f, q) PROVE StatesAgree'
    <3>1. f \in Caller
      BY DEF Caller, Async, Yielding, Bcast
    <3> QED BY <2>6, <3>1, QuietStates
  <2>7. CASE NutThreadYield
    BY <2>7, QuietStates
  <2>8. CASE NutThreadExit
    BY <2>8, NutThreadExitStates
  <2> QED BY <1>1, <2>1, <2>2, <2>3, <2>4, <2>5, <2>6, <2>7, <2>8 DEF UserCall
<1>2. CASE KernelStep
  <2>1. CASE WakeHead
    <3>1. PICK t \in Thread : Readied(t)
      BY <1>0, <2>1, WakeHeadMoves
    <3>2. UNCHANGED <<nutThreadList, runningThread>>
      BY <2>1 DEF WakeHead
    <3> QED BY <1>0, <3>1, <3>2, StatesReady
  <2>2. CASE TimerElapse
    <3>1. /\ UNCHANGED <<td_state, runQueue>> \/ \E t \in Thread : Readied(t)
          /\ UNCHANGED <<nutThreadList, runningThread>>
      BY <1>0, <2>2, TimerElapseMoves
    <3> QED BY <1>0, <3>1, StatesReady, StatesQuiet
  <2>3. CASE Enqueue
    BY <2>3, EnqueueStates
  <2>4. CASE ResumeSwitch
    BY <2>4, ResumeSwitchStates
  <2>5. CASE \/ WaitReadRoot \/ ClearRoot \/ WaitReturn \/ SignalRoot \/ ResumeScan
             \/ ResumeTicks \/ TimersDone
    BY <2>5, QuietStates
  <2> QED BY <1>2, <2>1, <2>2, <2>3, <2>4, <2>5 DEF KernelStep
<1>3. CASE Interrupt \/ IdleLoop \/ UNCHANGED vars
  BY <1>3, QuietStates
<1> QED BY <1>1, <1>2, <1>3 DEF Next

\* After boot the main thread runs and the idle thread is ready.
LEMMA InitSInv == Init => SInv
<1> SUFFICES ASSUME Init PROVE StatesAgree
  BY InitIInv DEF SInv
<1>1. ToSet(runQueue) = {Main, Idle} /\ ToSet(nutThreadList) = {Main, Idle}
  BY DEF Init, ToSet
<1>2. /\ Main \in Thread /\ Idle \in Thread /\ Main # Idle /\ runningThread = Main
      /\ td_state = [t \in Thread |-> IF t = Main THEN "RUNNING" ELSE "READY"]
  BY ThreadAssumption DEF Init, Thread
<1> QED BY <1>1, <1>2 DEF StatesAgree, Live

\* The state of a thread tells where it is: asleep exactly when it is not in the
\* run queue, and RUNNING only while it has the CPU.
THEOREM KernelStates == Spec => []StatesAgree
<1>1. SInv => StatesAgree
  BY DEF SInv
<1> QED BY <1>1, InitSInv, NextSInv, PTL DEF Spec

-----------------------------------------------------------------------------
(* The order of the run queue.                                             *)

\* The run queue, or rq, is ordered under the priorities prio.
Ordered(rq) == PriorityOrdered(rq, td_priority)

\* NutThreadYield keeps the order.
LEMMA YieldedOrdered ==
    ASSUME IInv, NEW rq \in Seq(Thread), Ordered(rq)
    PROVE  Ordered(Yielded(rq))
<1>1. td_priority \in [Thread -> Nat] /\ runningThread \in Thread
  BY DEF IInv, TypeOK
<1> DEFINE d == Dequeued(rq, runningThread)
<1>2. d \in Seq(Thread)
  BY DequeuedIs
<1>3. Ordered(d)
  BY <1>1, DequeuedOrdered DEF Ordered
<1> HIDE DEF d
<1>4. Ordered(Enqueued(d, runningThread, td_priority))
  BY <1>1, <1>2, <1>3, EnqueuedOrdered DEF Ordered
<1> QED BY <1>4 DEF Yielded, d

\* The run queue after a step that is ordered if it was and there is memory.
KeepsOrder ==
    Ordered(runQueue) /\ ToSet(timerList) # Timer => PriorityOrdered(runQueue', td_priority')

\* What the run queue of most steps is.
LEMMA OrderQuiet ==
    ASSUME IInv, UNCHANGED td_priority, runQueue' \in {runQueue, Yielded(runQueue)}
    PROVE  KeepsOrder
<1>1. runQueue \in Seq(Thread)
  BY DEF IInv, TypeOK
<1> QED BY <1>1, YieldedOrdered DEF KeepsOrder, Ordered

\* A thread that becomes ready goes where its priority puts it.
LEMMA OrderReady ==
    ASSUME IInv, NEW t \in Thread, Readied(t), UNCHANGED td_priority
    PROVE  KeepsOrder
<1> DEFINE rq == Enqueued(runQueue, t, td_priority)
<1>1. td_priority \in [Thread -> Nat] /\ runQueue \in Seq(Thread)
  BY DEF IInv, TypeOK
<1>2. rq \in Seq(Thread)
  BY <1>1, EnqueuedSet
<1>3. Ordered(runQueue) => Ordered(rq)
  BY <1>1, EnqueuedOrdered DEF Ordered
<1>4. runQueue' \in {rq, Yielded(rq)}
  BY DEF Readied
<1> HIDE DEF rq
<1> QED BY <1>2, <1>3, <1>4, YieldedOrdered DEF KeepsOrder, Ordered

\* The run queue without the running thread is ordered, and its threads keep their
\* priorities whatever the one of the running thread becomes.
LEMMA OrderWithout ==
    ASSUME IInv, Ordered(runQueue), NEW t \in Thread
    PROVE  LET d == Dequeued(runQueue, t) IN
           /\ d \in Seq(Thread) /\ Ordered(d)
           /\ \A l : PriorityOrdered(d, [td_priority EXCEPT ![t] = l])
<1> DEFINE d == Dequeued(runQueue, t)
<1>1. /\ td_priority \in [Thread -> Nat] /\ runQueue \in Seq(Thread)
      /\ IsInjective(runQueue)
  BY DEF IInv, TypeOK, ThreadsPlaced
<1>2. d \in Seq(Thread) /\ ToSet(d) = ToSet(runQueue) \ {t}
  BY <1>1, DequeuedSet
<1>3. Ordered(d)
  BY <1>1, DequeuedOrdered DEF Ordered
<1> HIDE DEF d
<1>4. \A u \in ToSet(d) : u \in Thread /\ u # t
  BY <1>2, ToSetOf
<1>5. ASSUME NEW l PROVE PriorityOrdered(d, [td_priority EXCEPT ![t] = l])
  <2>1. \A u \in ToSet(d) : [td_priority EXCEPT ![t] = l][u] = td_priority[u]
    BY <1>1, <1>4
  <2> QED BY <1>2, <1>3, <2>1, OrderedElsewhere DEF Ordered
<1> QED BY <1>2, <1>3, <1>5 DEF d

\* NutSleep, NutEventWait and NutThreadExit take the running thread out.
LEMMA OrderLeave ==
    ASSUME IInv, UNCHANGED td_priority, runQueue' = Dequeued(runQueue, runningThread)
    PROVE  KeepsOrder
<1>1. runningThread \in Thread
  BY DEF IInv, TypeOK
<1> QED BY <1>1, OrderWithout DEF KeepsOrder, Ordered

\* A thread gets priority l and the place that goes with it.
LEMMA OrderPlaced ==
    ASSUME IInv, NEW t \in Thread, NEW l \in Nat, td_priority' = [td_priority EXCEPT ![t] = l],
           runQueue' = Enqueued(Dequeued(runQueue, t), t, td_priority')
    PROVE  KeepsOrder
<1> SUFFICES ASSUME Ordered(runQueue) PROVE PriorityOrdered(runQueue', td_priority')
  BY DEF KeepsOrder
<1> DEFINE d == Dequeued(runQueue, t)
<1>1. td_priority' \in [Thread -> Nat]
  BY DEF IInv, TypeOK
<1>2. d \in Seq(Thread) /\ PriorityOrdered(d, td_priority')
  BY OrderWithout
<1> HIDE DEF d
<1>3. PriorityOrdered(Enqueued(d, t, td_priority'), td_priority')
  BY <1>1, <1>2, EnqueuedOrdered
<1> QED BY <1>3 DEF d

\* Every step keeps the order of the run queue while there is memory for a timer.
LEMMA NextKeepsOrder == IInv /\ [Next]_vars => KeepsOrder
<1> SUFFICES ASSUME IInv, [Next]_vars PROVE KeepsOrder
  OBVIOUS
<1>1. CASE UserCall
  <2>1. ASSUME NEW d \in Delay \ {0}, NutSleep(d) PROVE KeepsOrder
    <3>1. UNCHANGED td_priority
      BY <2>1 DEF NutSleep
    <3>2. CASE runQueue' = Dequeued(runQueue, runningThread)
      BY <3>1, <3>2, OrderLeave
    <3>3. CASE Timer = ToSet(timerList)
      BY <3>3 DEF KeepsOrder
    <3> QED BY <2>1, <3>2, <3>3, PointerAssumption DEF NutSleep, TimerStart
  <2>2. ASSUME NEW l \in Level, NutThreadSetPriority(l) PROVE KeepsOrder
    <3>1. runningThread \in Thread /\ l \in Nat
      BY PriorityAssumption DEF IInv, TypeOK
    <3>2. /\ td_priority' = [td_priority EXCEPT ![runningThread] = l]
          /\ runQueue' = Enqueued(Dequeued(runQueue, runningThread), runningThread, td_priority')
      BY <2>2 DEF NutThreadSetPriority
    <3> QED BY <3>1, <3>2, OrderPlaced
  <2>3. ASSUME NEW t \in App, NutThreadCreate(t) PROVE KeepsOrder
    <3>1. t \in Thread /\ Default \in Nat /\ t \notin Live
      BY <2>3, PriorityAssumption DEF Thread, NutThreadCreate, Live
    <3>2. t \notin ToSet(runQueue) /\ runQueue \in Seq(Thread)
      BY <3>1 DEF IInv, TypeOK, ThreadsPlaced
    <3>3. Dequeued(runQueue, t) = runQueue
      BY <3>2, DequeuedIs
    <3>4. /\ td_priority' = [td_priority EXCEPT ![t] = Default]
          /\ runQueue' = Enqueued(runQueue, t, td_priority')
      BY <2>3 DEF NutThreadCreate
    <3> QED BY <3>1, <3>3, <3>4, OrderPlaced
  <2>4. CASE NutThreadExit
    <3>1. UNCHANGED td_priority /\ runQueue' = Dequeued(runQueue, runningThread)
      BY <2>4 DEF NutThreadExit
    <3> QED BY <3>1, OrderLeave
  <2>5. CASE \/ NutThreadYield
             \/ \E q \in Queue, d \in Delay : NutEventWait(q, d) \/ NutEventWaitNext(q, d)
             \/ \E q \in Queue, f \in {"NutEventPostAsync", "NutEventPost"} : PostCall(f, q)
             \/ \E q \in Queue, f \in Bcast : BroadcastCall(f, q)
    <3>1. UNCHANGED td_priority /\ runQueue' \in {runQueue, Yielded(runQueue)}
      BY <2>5 DEF NutThreadYield, NutEventWait, NutEventWaitNext, PostCall, BroadcastCall,
         Leave, threadVars
    <3> QED BY <3>1, OrderQuiet
  <2> QED BY <1>1, <2>1, <2>2, <2>3, <2>4, <2>5 DEF UserCall
<1>2. CASE KernelStep
  <2>1. CASE WakeHead
    <3>1. PICK t \in Thread : Readied(t)
      BY <2>1, WakeHeadMoves
    <3>2. UNCHANGED td_priority
      BY <2>1 DEF WakeHead
    <3> QED BY <3>1, <3>2, OrderReady
  <2>2. CASE TimerElapse
    <3>1. UNCHANGED td_priority /\ (UNCHANGED runQueue \/ \E t \in Thread : Readied(t))
      BY <2>2, TimerElapseMoves
    <3> QED BY <3>1, OrderReady, OrderQuiet
  <2>3. CASE Enqueue
    <3>1. UNCHANGED td_priority /\ runQueue' = Dequeued(runQueue, runningThread)
      BY <2>3 DEF Enqueue
    <3> QED BY <3>1, OrderLeave
  <2>4. CASE \/ WaitReadRoot \/ ClearRoot \/ WaitReturn \/ SignalRoot
             \/ ResumeScan \/ ResumeTicks \/ TimersDone \/ ResumeSwitch
    <3>1. UNCHANGED td_priority /\ runQueue' \in {runQueue, Yielded(runQueue)}
      BY <2>4 DEF WaitReadRoot, ClearRoot, WaitReturn, SignalRoot, ResumeScan, ResumeTicks,
         TimersDone, ResumeSwitch, Leave, threadVars
    <3> QED BY <3>1, OrderQuiet
  <2> QED BY <1>2, <2>1, <2>2, <2>3, <2>4 DEF KernelStep
<1>3. CASE Interrupt \/ IdleLoop \/ UNCHANGED vars
  <2>1. UNCHANGED td_priority /\ runQueue' \in {runQueue, Yielded(runQueue)}
    BY <1>3 DEF Interrupt, IrqTick, IrqPost, IdleLoop, vars, threadVars
  <2> QED BY <2>1, OrderQuiet
<1> QED BY <1>1, <1>2, <1>3 DEF Next

\* While there is memory for a timer no step puts a thread of the run queue before a
\* more urgent one: the failure path of NutSleep is the only one that can.
THEOREM KernelRunQueueOrder == Spec => OrderKept
<1> DEFINE Step == PriorityOrdered(runQueue, td_priority) /\ ToSet(timerList) # Timer
                       => PriorityOrdered(runQueue', td_priority')
<1>1. IInv /\ [Next]_vars => [Step]_vars
  BY NextKeepsOrder DEF KeepsOrder, Ordered
<1>2. Spec => [][Step]_vars
  BY <1>1, KernelInvariant, PTL DEF Spec
<1> QED BY <1>2 DEF OrderKept

-----------------------------------------------------------------------------
(* What is pending on a queue when a thread enters or leaves it.           *)

\* A thread that enters a queue changes nothing, unless the queue was signaled.
LEMMA PendingOnAdd ==
    ASSUME NEW S, NEW s \in Seq(S), NEW td \in S \ ToSet(s), NEW prio, NEW sig \in BOOLEAN,
           NEW qpec \in [S -> Nat], IsInjective(s), sig => s = <<>>
    PROVE  PendingOn(PendingAfterAdd(qpec, s, td, prio, sig), Enqueued(s, td, prio))
              = IF sig THEN 1 ELSE PendingOn(qpec, s)
<1> DEFINE w == WalkStop(s, td, prio)
           e == Enqueued(s, td, prio)
           n == PendingAfterAdd(qpec, s, td, prio, sig)
<1>1. e \in Seq(S) /\ e # <<>>
  BY EnqueuedSet
<1>2. PICK k \in 1..(Len(s) + 1) :
        /\ Inserted(e, s, k, td)
        /\ k <= Len(s) => k = w
        /\ k = Len(s) + 1 => w = 0
  <2>1. td \in S
    OBVIOUS
  <2> QED BY <2>1, EnqueuedPlace
<1>3. n = IF sig THEN [qpec EXCEPT ![td] = 1]
          ELSE IF w = 0 THEN [qpec EXCEPT ![td] = 0]
          ELSE [qpec EXCEPT ![td] = qpec[s[w]], ![s[w]] = 0]
  BY DEF PendingAfterAdd
<1> SUFFICES PendingOn(n, e) = IF sig THEN 1 ELSE PendingOn(qpec, s)
  OBVIOUS
<1> HIDE DEF w, e, n
<1>4. Head(e) = IF k = 1 THEN td ELSE s[1]
  <2>1. 1 \in 1..(Len(s) + 1) /\ (1 < k \/ k = 1)
    BY <1>2
  <2>2. e[1] = IF 1 < k THEN s[1] ELSE IF 1 = k THEN td ELSE s[1 - 1]
    BY <1>2, <2>1 DEF Inserted
  <2>3. Head(e) = e[1]
    BY <1>1
  <2> QED BY <2>1, <2>2, <2>3
<1>5. PendingOn(n, e) = n[Head(e)]
  BY <1>1 DEF PendingOn
<1>6. \A i \in 1..Len(s) : s[i] \in S /\ s[i] # td
  BY DEF ToSet
<1>7. CASE sig
  <2>1. k = 1
    BY <1>2, <1>7
  <2> QED BY <1>3, <1>4, <1>5, <1>7, <2>1
<1>8. CASE ~sig /\ k = Len(s) + 1
  <2>1. n = [qpec EXCEPT ![td] = 0]
    BY <1>2, <1>3, <1>8
  <2>2. CASE s = <<>>
    BY <1>4, <1>5, <1>8, <2>1, <2>2 DEF PendingOn
  <2>3. CASE s # <<>>
    <3>1. 1 \in 1..Len(s) /\ k # 1 /\ Head(s) = s[1]
      BY <1>8, <2>3
    <3>2. n[s[1]] = qpec[s[1]]
      BY <1>6, <2>1, <3>1
    <3> QED BY <1>4, <1>5, <1>8, <2>3, <3>1, <3>2 DEF PendingOn
  <2> QED BY <2>2, <2>3
<1>9. CASE ~sig /\ k <= Len(s)
  <2>1. n = [qpec EXCEPT ![td] = qpec[s[k]], ![s[k]] = 0] /\ k \in 1..Len(s)
    BY <1>2, <1>3, <1>9
  <2>2. s # <<>> /\ 1 \in 1..Len(s) /\ Head(s) = s[1]
    BY <1>9
  <2>3. CASE k = 1
    <3>1. n[td] = qpec[s[1]]
      BY <1>6, <2>1, <2>3
    <3> QED BY <1>4, <1>5, <1>9, <2>2, <2>3, <3>1 DEF PendingOn
  <2>4. CASE k # 1
    <3>1. s[k] # s[1]
      BY <2>1, <2>2, <2>4 DEF IsInjective
    <3>2. n[s[1]] = qpec[s[1]]
      BY <1>6, <2>1, <2>2, <3>1
    <3> QED BY <1>4, <1>5, <1>9, <2>2, <2>4, <3>2 DEF PendingOn
  <2> QED BY <2>3, <2>4
<1> QED BY <1>2, <1>7, <1>8, <1>9

\* A thread that leaves a queue hands over what was pending, to the next waiter or to
\* the root of the queue.
LEMMA PendingOnLeave ==
    ASSUME NEW S, NEW s \in Seq(S), NEW td \in S, td \in ToSet(s), NEW qpec \in [S -> Nat],
           IsInjective(s), OnlyFirst(qpec, s)
    PROVE  LET e == Dequeued(s, td)
               n == PendingAfterLeave(qpec, s, td) IN
           /\ e # <<>> => PendingOn(n, e) = PendingOn(qpec, s)
           /\ e = <<>> => (SignalsOnLeave(qpec, s, td) <=> PendingOn(qpec, s) > 0)
<1> DEFINE e == Dequeued(s, td)
           n == PendingAfterLeave(qpec, s, td)
<1>1. e \in Seq(S)
  BY DequeuedShape
<1>2. PICK k \in 1..Len(s) : s[k] = td /\ Removed(e, s, k) /\ k = IndexOf(s, td)
  BY DequeuedShape
<1>3. n = IF k # 0 /\ k < Len(s) /\ qpec[td] > 0
          THEN [qpec EXCEPT ![s[k + 1]] = qpec[td], ![td] = 0]
          ELSE [qpec EXCEPT ![td] = 0]
  BY <1>2 DEF PendingAfterLeave
<1> HIDE DEF e, n
<1>4. /\ Len(e) = Len(s) - 1
      /\ \A i \in 1..(Len(s) - 1) : e[i] = IF i < k THEN s[i] ELSE s[i + 1]
  BY <1>2 DEF Removed
<1>5. s # <<>> /\ 1 \in 1..Len(s) /\ Head(s) = s[1] /\ PendingOn(qpec, s) = qpec[s[1]]
  BY <1>2 DEF PendingOn
<1>6. \A i \in 1..Len(s) : s[i] \in S /\ s[i] \in ToSet(s)
  BY DEF ToSet
<1>7. \A i \in 1..Len(s) : i # 1 => s[i] # s[1] /\ qpec[s[i]] = 0
  <2>1. \A i \in 1..Len(s) : i # 1 => s[i] # s[1]
    BY <1>5 DEF IsInjective
  <2>2. \A i \in 1..Len(s) : qpec[s[i]] > 0 => s[i] = s[1]
    BY <1>5, <1>6 DEF OnlyFirst
  <2>3. \A i \in 1..Len(s) : qpec[s[i]] \in Nat
    BY <1>6
  <2> QED BY <2>1, <2>2, <2>3
<1>8. CASE Len(s) = 1
  <2>1. e = <<>> /\ k = 1
    BY <1>1, <1>2, <1>4, <1>8
  <2>2. SignalsOnLeave(qpec, s, td) <=> qpec[td] > 0
    BY <1>2, <1>8, <2>1 DEF SignalsOnLeave
  <2> QED BY <1>2, <1>5, <2>1, <2>2 DEF e
<1>9. CASE Len(s) > 1
  <2>1. e # <<>> /\ PendingOn(n, e) = n[e[1]] /\ 1 \in 1..(Len(s) - 1) /\ 2 \in 1..Len(s)
    <3>1. Len(e) # 0 /\ e # <<>>
      BY <1>4, <1>9
    <3>2. e # <<>> /\ Head(e) = e[1]
      BY <1>1, <3>1, HeadOf
    <3> QED BY <1>9, <3>2 DEF PendingOn
  <2>2. CASE k = 1 /\ qpec[td] > 0
    <3>1. e[1] = s[2] /\ s[2] # td /\ s[2] \in S
      BY <1>2, <1>4, <1>6, <1>7, <2>1, <2>2
    <3>2. n = [qpec EXCEPT ![s[2]] = qpec[td], ![td] = 0]
      BY <1>3, <1>9, <2>2
    <3>3. n[s[2]] = qpec[td]
      BY <3>1, <3>2
    <3> QED BY <1>2, <1>5, <2>1, <2>2, <3>1, <3>3 DEF e, n
  <2>3. CASE ~(k = 1 /\ qpec[td] > 0)
    <3>1. n = [qpec EXCEPT ![td] = 0]
      <4>1. ~(qpec[td] > 0)
        BY <1>2, <1>7, <2>3
      <4> QED BY <1>3, <4>1
    <3>2. CASE k = 1
      <4>1. e[1] = s[2] /\ s[2] # td /\ s[2] \in S /\ qpec[s[2]] = 0
        BY <1>2, <1>4, <1>6, <1>7, <2>1, <3>2
      <4>2. qpec[s[1]] = 0
        BY <1>2, <2>3, <3>2
      <4> QED BY <1>5, <2>1, <3>1, <4>1, <4>2 DEF e, n
    <3>3. CASE k # 1
      <4>1. e[1] = s[1] /\ s[1] # td /\ s[1] \in S
        BY <1>2, <1>4, <1>5, <1>6, <1>7, <2>1, <3>3
      <4> QED BY <1>5, <2>1, <3>1, <4>1 DEF e, n
    <3> QED BY <3>2, <3>3
  <2> QED BY <2>2, <2>3
<1> QED BY <1>2, <1>8, <1>9, LengthOne

-----------------------------------------------------------------------------
(* Who is inside NutEventWait.                                             *)

\* The threads in the event queues wait, a thread that executes its own code or
\* posts does not, one that is about to return from NutEventWait does, and only
\* NutThreadResume holds an event it has taken from a counter.
WaitersKnown ==
    /\ waiting \subseteq Live
    /\ \A q \in Queue : ToSet(waitq[q]) \subseteq waiting
    /\ ThreadCode /\ pc # "return" => runningThread \notin waiting
    /\ pc = "return" => runningThread \in waiting
    /\ api = "NutThreadResume" => pc = "wake"

\* The inductive invariant of the refinement.
RInv == IInv /\ WaitersKnown

\* Steps that leave the queues and the waiting threads alone.
LEMMA WaitersQuiet ==
    ASSUME WaitersKnown, UNCHANGED <<waitq, waiting>>, Live \subseteq Live',
           ThreadCode' /\ pc' # "return" => runningThread' \notin waiting,
           pc' = "return" => runningThread' \in waiting,
           api' = "NutThreadResume" => pc' = "wake"
    PROVE  WaitersKnown'
  BY DEF WaitersKnown

\* The thread that gets the CPU goes on where it was.
LEMMA WaitersSwitch ==
    ASSUME WaitersKnown, UNCHANGED <<waitq, waiting, api>>, Live \subseteq Live',
           NEW n, SwitchTo(n), pc # "wake"
    PROVE  WaitersKnown'
<1>1. runningThread' = n /\ pc' = IF n \in waiting THEN "return" ELSE "user"
  BY DEF SwitchTo
<1> QED BY <1>1, WaitersQuiet DEF WaitersKnown

\* A thread that was waiting leaves its queue.
LEMMA WaitersLeave ==
    ASSUME WaitersKnown, NEW t, QueuesWithout(t), UNCHANGED <<nutThreadList, waiting, runningThread>>,
           ThreadCode' /\ pc' # "return" => ThreadCode /\ pc # "return",
           pc' = "return" => pc = "return",
           api' = "NutThreadResume" => pc' = "wake"
    PROVE  WaitersKnown'
  BY DEF WaitersKnown, QueuesWithout, Live

\* The steps inside a call of the running thread, up to its end.
LEMMA CallWaiters ==
    ASSUME RInv,
           \/ WaitReadRoot \/ ClearRoot \/ SignalRoot \/ NutThreadYield \/ IdleLoop
           \/ \E q \in Queue, d \in Delay : NutEventWait(q, d) \/ NutEventWaitNext(q, d)
           \/ \E q \in Queue, f \in {"NutEventPostAsync", "NutEventPost"} : PostCall(f, q)
           \/ \E q \in Queue, f \in Bcast : BroadcastCall(f, q)
           \/ \E d \in Delay \ {0} : NutSleep(d)
    PROVE  WaitersKnown'
<1>0. WaitersKnown
  BY DEF RInv
<1>1. /\ UNCHANGED <<waitq, waiting, runningThread, nutThreadList>>
      /\ pc \in {"user", "wait", "clear", "signal"}
      /\ pc' \in {"user", "wait", "clear", "enqueue", "signal", "wake", "resume"}
      /\ api' \in {api, NIL, "NutEventWait"} \/ api' \in {"NutEventPostAsync", "NutEventPost"}
         \/ api' \in Bcast
  BY DEF WaitReadRoot, ClearRoot, SignalRoot, NutThreadYield, IdleLoop, NutEventWait,
     NutEventWaitNext, PostCall, BroadcastCall, NutSleep, AppRuns, Leave, threadVars,
     eventVars
<1>2. runningThread \notin waiting
  BY <1>0, <1>1 DEF WaitersKnown, ThreadCode
<1>3. api' # "NutThreadResume"
  <2>1. api # "NutThreadResume"
    BY <1>0, <1>1 DEF WaitersKnown
  <2> QED BY <1>1, <2>1, PointerAssumption DEF Bcast
<1>4. Live \subseteq Live'
  BY <1>1 DEF Live
<1> QED BY <1>0, <1>1, <1>2, <1>3, <1>4, WaitersQuiet

\* What LeaveQueueKeeps says of the steps that release a waiter.
LEMMA ReadiedLeaves ==
    ASSUME IInv, NEW q \in Queue, NEW t \in Thread, t \in ToSet(waitq[q]),
           Readied(t), LeaveQueue(t, q), UNCHANGED <<nutThreadList, td_priority>>
    PROVE  QueuesWithout(t)
  BY LeaveQueueKeeps DEF Readied

\* A post or broadcast.
LEMMA WakeHeadWaiters == ASSUME RInv, WakeHead PROVE WaitersKnown'
<1>0. IInv /\ WaitersKnown
  BY DEF RInv
<1>1. /\ qhp \in Queue
      /\ UNCHANGED <<nutThreadList, runningThread, td_priority, waiting>>
  BY <1>0, WakeHeadMoves
<1>2. PICK t \in Thread : t \in ToSet(waitq[qhp]) /\ Readied(t) /\ LeaveQueue(t, qhp)
  BY <1>0, WakeHeadMoves
<1>3. QueuesWithout(t)
  BY <1>0, <1>1, <1>2, ReadiedLeaves
<1>4. /\ pc = "wake"
      /\ \/ UNCHANGED <<pc, api>>
         \/ api' = NIL /\ (pc' = "resume" \/ (pc' = "user" /\ api \in Async))
  BY DEF WakeHead, Leave
<1>5. /\ ThreadCode' /\ pc' # "return" => ThreadCode /\ pc # "return"
      /\ pc' # "return" /\ (api' = "NutThreadResume" => pc' = "wake")
  BY <1>4, PointerAssumption DEF ThreadCode, Async
<1> QED BY <1>0, <1>1, <1>3, <1>5, WaitersLeave

\* A round of NutTimerProcessElapsed.
LEMMA TimerElapseWaiters == ASSUME RInv, TimerElapse PROVE WaitersKnown'
<1>0. IInv /\ WaitersKnown /\ pc = "elapsed"
  BY DEF RInv, TimerElapse
<1>1. UNCHANGED <<nutThreadList, runningThread, td_priority, waiting, pc, api, qhp>>
  BY <1>0, TimerElapseMoves
<1>2. CASE UNCHANGED eventVars
  <2>1. UNCHANGED waitq /\ Live \subseteq Live'
    BY <1>1, <1>2 DEF eventVars, Live
  <2> QED BY <1>0, <1>1, <2>1, WaitersQuiet DEF WaitersKnown, ThreadCode
<1>3. ASSUME NEW t \in Thread, NEW q \in Queue, t \in ToSet(waitq[q]),
             Readied(t), LeaveQueue(t, q)
      PROVE  WaitersKnown'
  <2>1. QueuesWithout(t)
    BY <1>0, <1>1, <1>3, ReadiedLeaves
  <2>2. api' # "NutThreadResume" /\ ~ThreadCode' /\ pc' # "return"
    BY <1>0, <1>1 DEF WaitersKnown, ThreadCode
  <2> QED BY <1>0, <1>1, <2>1, <2>2, WaitersLeave
<1> QED BY <1>0, <1>2, <1>3, TimerElapseMoves

\* A thread enters NutEventWait.
LEMMA EnqueueWaiters == ASSUME RInv, Enqueue PROVE WaitersKnown'
<1> DEFINE r == runningThread
<1>0. /\ IInv /\ WaitersKnown /\ pc = "enqueue" /\ qhp \in Queue
      /\ waitq \in [Queue -> Seq(Thread)]
  BY DEF RInv, IInv, TypeOK, ControlOK, Enqueue
<1>1. r \in Thread /\ r \in Live
  BY <1>0, RunningReady DEF IInv, ControlOK, ThreadCode
<1>2. /\ waitq' = [waitq EXCEPT ![qhp] = Enqueued(@, r, td_priority)]
      /\ waiting' = waiting \cup {r} /\ pc' = "resume" /\ api' = NIL
      /\ UNCHANGED nutThreadList
  BY DEF Enqueue
<1>3. ToSet(Enqueued(waitq[qhp], r, td_priority)) = ToSet(waitq[qhp]) \cup {r}
  BY <1>0, <1>1, EnqueuedSet
<1>4. \A q \in Queue : ToSet(waitq'[q]) \subseteq waiting'
  BY <1>0, <1>2, <1>3 DEF WaitersKnown
<1>5. waiting' \subseteq Live'
  BY <1>0, <1>1, <1>2 DEF WaitersKnown, Live
<1> QED BY <1>2, <1>4, <1>5, PointerAssumption DEF WaitersKnown, ThreadCode

\* A thread comes back from NutEventWait.
LEMMA WaitReturnWaiters == ASSUME RInv, WaitReturn PROVE WaitersKnown'
<1> DEFINE r == runningThread
<1>0. IInv /\ WaitersKnown /\ pc = "return"
  BY DEF RInv, WaitReturn
<1>1. /\ waiting' = waiting \ {r} /\ pc' = "user"
      /\ UNCHANGED <<nutThreadList, runningThread, waitq, api>>
  BY DEF WaitReturn, eventVars
<1>2. \A q \in Queue : r \notin ToSet(waitq[q])
  <2>1. td_queue[r] = RunQueue
    BY <1>0 DEF IInv, ControlOK, ThreadCode, ThreadsPlaced
  <2> QED BY <1>0, <2>1, PointerAssumption DEF IInv, ThreadsPlaced
<1> QED BY <1>0, <1>1, <1>2 DEF WaitersKnown, Live

\* Everything else: the scan and the ticks, the switch, the life of threads and the
\* interrupts.
LEMMA OtherWaiters ==
    ASSUME RInv,
           \/ Interrupt \/ ResumeScan \/ ResumeTicks \/ TimersDone \/ ResumeSwitch
           \/ \E l \in Level : NutThreadSetPriority(l)
           \/ NutThreadExit \/ \E t \in App : NutThreadCreate(t)
           \/ UNCHANGED vars
    PROVE  WaitersKnown'
<1>0. IInv /\ WaitersKnown
  BY DEF RInv
<1>1. CASE Interrupt \/ UNCHANGED vars
  <2>1. UNCHANGED <<waitq, waiting, nutThreadList, runningThread, pc, api>>
    BY <1>1 DEF Interrupt, IrqTick, IrqPost, vars, threadVars, eventVars, cpuVars
  <2> QED BY <1>0, <2>1 DEF WaitersKnown, ThreadCode, Live
<1>2. CASE ResumeScan \/ ResumeTicks \/ TimersDone
  <2>1. /\ UNCHANGED <<waitq, waiting, nutThreadList, runningThread>>
        /\ pc \in {"resume", "elapsed"} /\ pc' \in {"resume", "elapsed", "switch", "wake"}
        /\ \/ api' = api /\ pc' # "wake"
           \/ api' = "NutThreadResume" /\ pc' = "wake"
    BY <1>2 DEF ResumeScan, ResumeTicks, TimersDone, threadVars, eventVars
  <2>2. Live \subseteq Live'
    BY <2>1 DEF Live
  <2> QED BY <1>0, <2>1, <2>2, WaitersQuiet DEF WaitersKnown, ThreadCode
<1>3. CASE ResumeSwitch
  <2>1. /\ UNCHANGED <<waitq, waiting, nutThreadList, api>>
        /\ pc # "wake" /\ SwitchTo(Head(runQueue))
    BY <1>3 DEF ResumeSwitch, eventVars
  <2> QED BY <1>0, <2>1, WaitersSwitch DEF Live
<1>4. ASSUME NEW l \in Level, NutThreadSetPriority(l) PROVE WaitersKnown'
  <2>1. /\ UNCHANGED <<waitq, waiting, nutThreadList, api>>
        /\ pc # "wake" /\ \E n : SwitchTo(n)
    BY <1>4 DEF NutThreadSetPriority, AppRuns, eventVars
  <2> QED BY <1>0, <2>1, WaitersSwitch DEF Live
<1>5. CASE NutThreadExit
  <2>1. /\ UNCHANGED <<waitq, waiting, api>> /\ pc = "user"
        /\ \E n : SwitchTo(n)
        /\ nutThreadList' = Dequeued(nutThreadList, runningThread)
    BY <1>5 DEF NutThreadExit, AppRuns, eventVars
  <2>2. Live' = Live \ {runningThread}
    BY <1>0, <2>1, DequeuedSet DEF IInv, TypeOK, ThreadsPlaced, Live
  <2>3. runningThread \notin waiting /\ api # "NutThreadResume"
    BY <1>0, <2>1 DEF WaitersKnown, ThreadCode
  <2> QED BY <1>0, <2>1, <2>2, <2>3 DEF WaitersKnown, SwitchTo
<1>6. ASSUME NEW t \in App, NutThreadCreate(t) PROVE WaitersKnown'
  <2>1. /\ UNCHANGED <<waitq, waiting, api>>
        /\ pc # "wake" /\ \E n : SwitchTo(n)
        /\ nutThreadList' = <<t>> \o nutThreadList /\ t \in Thread /\ t \notin Live
    BY <1>6 DEF NutThreadCreate, AppRuns, Thread, Live
  <2>2. Live' = Live \cup {t}
    BY <1>0, <2>1, FrontIs DEF IInv, TypeOK, ThreadsPlaced, Live
  <2> QED BY <1>0, <2>1, <2>2, WaitersSwitch
<1> QED BY <1>1, <1>2, <1>3, <1>4, <1>5, <1>6

\* Every step keeps the invariant of the refinement.
LEMMA NextRInv == RInv /\ [Next]_vars => RInv'
<1> SUFFICES ASSUME RInv, [Next]_vars PROVE WaitersKnown'
  BY NextIInv DEF RInv
<1>1. CASE \/ Interrupt \/ UNCHANGED vars \/ NutThreadExit
           \/ \E l \in Level : NutThreadSetPriority(l)
           \/ \E t \in App : NutThreadCreate(t)
  BY <1>1, OtherWaiters
<1>2. CASE \/ IdleLoop \/ NutThreadYield
           \/ \E q \in Queue, d \in Delay : NutEventWait(q, d) \/ NutEventWaitNext(q, d)
           \/ \E q \in Queue, f \in {"NutEventPostAsync", "NutEventPost"} : PostCall(f, q)
           \/ \E q \in Queue, f \in Bcast : BroadcastCall(f, q)
           \/ \E d \in Delay \ {0} : NutSleep(d)
  BY <1>2, CallWaiters
<1>3. CASE KernelStep
  <2>1. CASE WaitReadRoot \/ ClearRoot \/ SignalRoot
    BY <2>1, CallWaiters
  <2>2. CASE Enqueue \/ WaitReturn \/ WakeHead \/ TimerElapse
    BY <2>2, EnqueueWaiters, WaitReturnWaiters, WakeHeadWaiters, TimerElapseWaiters
  <2>3. CASE ResumeScan \/ ResumeTicks \/ TimersDone \/ ResumeSwitch
    BY <2>3, OtherWaiters
  <2> QED BY <1>3, <2>1, <2>2, <2>3 DEF KernelStep
<1> QED BY <1>1, <1>2, <1>3 DEF Next, UserCall

\* After boot nobody waits.
LEMMA InitRInv == Init => RInv
<1> SUFFICES ASSUME Init PROVE WaitersKnown
  BY InitIInv DEF RInv
<1>1. \A q \in Queue : ToSet(waitq[q]) = {}
  BY DEF Init, ToSet
<1> QED BY <1>1, PointerAssumption DEF Init, WaitersKnown, ThreadCode

-----------------------------------------------------------------------------
(* The abstract state.                                                     *)

\* Facts about a good state that the steps below rely on.
LEMMA StateFacts ==
    ASSUME RInv
    PROVE  /\ waitq \in [Queue -> Seq(Thread)] /\ td_qpec \in [Thread -> Nat]
           /\ signaled \in SUBSET Queue /\ td_priority \in [Thread -> Nat]
           /\ td_timer \in [Thread -> Handle \cup {SIGNALED}]
           /\ waiting \subseteq Thread
           /\ \A p \in Queue : IsInjective(waitq[p]) /\ OnlyFirst(td_qpec, waitq[p])
           /\ \A p \in Queue : ToSet(waitq[p]) \subseteq waiting
           /\ \A p, q \in Queue : p # q => ToSet(waitq[p]) \cap ToSet(waitq[q]) = {}
           /\ \A p \in signaled : waitq[p] = <<>>
           /\ pc # "wake" => \A p \in Queue : InHand(p) = 0
           /\ api # "NutThreadResume" => \A p \in Queue : InHand(p) = 0
<1>1. /\ waitq \in [Queue -> Seq(Thread)] /\ td_qpec \in [Thread -> Nat]
      /\ signaled \in SUBSET Queue /\ td_priority \in [Thread -> Nat]
      /\ td_timer \in [Thread -> Handle \cup {SIGNALED}]
      /\ waiting \subseteq Thread
  BY DEF RInv, IInv, TypeOK
<1>2. \A p \in Queue : \A u \in ToSet(waitq[p]) : u \in Thread /\ td_queue[u] = p
  BY <1>1, ToSetOf DEF RInv, IInv, ThreadsPlaced
<1>3. \A p \in Queue : IsInjective(waitq[p]) /\ OnlyFirst(td_qpec, waitq[p])
  BY <1>2 DEF RInv, IInv, ThreadsPlaced, PendingAtHead, OnlyFirst
<1>4. \A p, q \in Queue : p # q => ToSet(waitq[p]) \cap ToSet(waitq[q]) = {}
  BY <1>2
<1>5. \A p \in Queue : pc # "wake" \/ api # "NutThreadResume" => InHand(p) = 0
  BY DEF RInv, WaitersKnown, InHand
<1> QED BY <1>1, <1>3, <1>4, <1>5 DEF RInv, WaitersKnown, IInv, PendingAtHead

\* The counters of the threads in s are all that matters for s.
LEMMA PendingSameOn ==
    ASSUME NEW s \in Seq(Thread), NEW f, NEW g, \A u \in ToSet(s) : f[u] = g[u]
    PROVE  PendingOn(f, s) = PendingOn(g, s)
  BY HeadOf DEF PendingOn

\* A thread's status is where it is and, once it is out of the queues, its handle.
LEMMA StatusSame ==
    ASSUME RInv, NEW t \in Thread, t \in waiting' <=> t \in waiting,
           \A p \in Queue : t \in ToSet(waitq'[p]) <=> t \in ToSet(waitq[p]),
           t \in waiting => td_timer'[t] = td_timer[t]
    PROVE  StatusOf(t)' = StatusOf(t)
  BY DEF StatusOf

\* Steps that leave queues, waiting threads, handles of waiting threads and
\* priorities alone, and take nothing into their hands.
LEMMA AbsQuiet ==
    ASSUME RInv, UNCHANGED <<waitq, waiting>>,
           \A t \in waiting : td_timer'[t] = td_timer[t]
    PROVE  UNCHANGED <<AbsWaiters, AbsStatus>>
<1>1. \A t \in Thread : StatusOf(t)' = StatusOf(t)
  BY StatusSame
<1> QED BY <1>1 DEF AbsWaiters, AbsStatus

\* The events of the queues when only signaled roots and what is in hand matter.
LEMMA EventsSame ==
    ASSUME RInv, pc # "wake" \/ api # "NutThreadResume", api' # "NutThreadResume",
           UNCHANGED <<waitq, td_qpec, signaled>>
    PROVE  UNCHANGED AbsEvents
<1>1. \A p \in Queue : InHand(p) = 0 /\ InHand(p)' = 0
  BY StateFacts DEF InHand
<1> QED BY <1>1 DEF AbsEvents, EventsOf

\* Only the events of queue q change.
LEMMA EventsAt ==
    ASSUME NEW q \in Queue, \A p \in Queue \ {q} : EventsOf(p)' = EventsOf(p)
    PROVE  AbsEvents' = [AbsEvents EXCEPT ![q] = EventsOf(q)']
  BY DEF AbsEvents

\* A step that is none of the abstract queues.
LEMMA AbsStutter ==
    ASSUME UNCHANGED <<AbsWaiters, AbsEvents, AbsStatus, td_priority>>
    PROVE  [Abs!Next]_(Abs!vars)
  BY DEF Abs!vars

-----------------------------------------------------------------------------
(* The steps that are none of the abstract queues.                         *)

\* Ticks, the entries of the calls and what follows the posts inside NutThreadResume.
LEMMA QuietSteps ==
    ASSUME RInv,
           \/ IrqTick \/ WaitReadRoot \/ NutThreadYield \/ IdleLoop
           \/ \E q \in Queue, d \in Delay : NutEventWait(q, d)
           \/ \E q \in Queue, f \in {"NutEventPostAsync", "NutEventPost"} : PostCall(f, q)
           \/ \E q \in Queue, f \in Bcast : BroadcastCall(f, q)
           \/ ResumeTicks \/ TimersDone \/ ResumeSwitch \/ NutThreadExit
           \/ \E d \in Delay \ {0} : NutSleep(d)
           \/ UNCHANGED vars
    PROVE  [Abs!Next]_(Abs!vars)
<1>1. UNCHANGED <<waitq, td_qpec, signaled, waiting, td_priority>>
  BY DEF IrqTick, WaitReadRoot, NutThreadYield, IdleLoop, NutEventWait, PostCall,
     BroadcastCall, ResumeTicks, TimersDone, ResumeSwitch, NutThreadExit, NutSleep,
     Leave, vars, threadVars, eventVars
<1>2. \/ pc' = pc /\ api' = api
      \/ pc # "wake" /\ api' \in {api, NIL, "NutEventWait", "NutEventPostAsync", "NutEventPost"} \cup Bcast
  BY DEF IrqTick, WaitReadRoot, NutThreadYield, IdleLoop, NutEventWait, PostCall,
     BroadcastCall, ResumeTicks, TimersDone, ResumeSwitch, NutThreadExit, NutSleep,
     Leave, AppRuns, vars, cpuVars, SwitchTo
<1>3. UNCHANGED AbsEvents
  <2>1. CASE UNCHANGED <<api, qhp>>
    BY <1>1, <2>1 DEF AbsEvents, EventsOf, InHand
  <2>2. CASE api # "NutThreadResume" /\ api' # "NutThreadResume"
    BY <1>1, <2>2, EventsSame
  <2>3. pc # "wake" => api # "NutThreadResume"
    BY DEF RInv, WaitersKnown
  <2>4. UNCHANGED <<api, qhp>> \/ pc # "wake"
    BY DEF IrqTick, WaitReadRoot, NutThreadYield, IdleLoop, NutEventWait, PostCall,
       BroadcastCall, ResumeTicks, TimersDone, ResumeSwitch, NutThreadExit, NutSleep,
       Leave, AppRuns, vars, cpuVars, SwitchTo
  <2>5. pc # "wake" => api' # "NutThreadResume"
    BY <1>2, <2>3, PointerAssumption DEF Bcast
  <2> QED BY <2>1, <2>2, <2>3, <2>4, <2>5
<1>4. \A t \in waiting : td_timer'[t] = td_timer[t]
  <2>1. CASE UNCHANGED td_timer
    BY <2>1
  <2>2. ASSUME NEW d \in Delay \ {0}, NutSleep(d)
        PROVE  \A t \in waiting : td_timer'[t] = td_timer[t]
    <3>1. runningThread \notin waiting
      BY <2>2 DEF NutSleep, AppRuns, RInv, WaitersKnown, ThreadCode
    <3>2. \E handle : td_timer' = [td_timer EXCEPT ![runningThread] = handle]
      BY <2>2 DEF NutSleep
    <3> QED BY <3>1, <3>2, StateFacts
  <2> QED BY <2>1, <2>2 DEF IrqTick, WaitReadRoot, NutThreadYield, IdleLoop, NutEventWait, PostCall,
     BroadcastCall, ResumeTicks, TimersDone, ResumeSwitch, NutThreadExit, vars, timerVars
<1> QED BY <1>1, <1>3, <1>4, AbsQuiet, AbsStutter

\* NutThreadResume takes an event from a counter into its hand.
LEMMA ScanTakes == ASSUME RInv, ResumeScan PROVE [Abs!Next]_(Abs!vars)
<1>0. /\ pc = "resume" /\ scan # <<>> /\ scan \in Seq(Thread)
      /\ UNCHANGED <<waitq, signaled, waiting, td_priority, td_timer>>
  BY DEF ResumeScan, threadVars, timerVars, RInv, IInv, TypeOK
<1>1. PICK td \in Thread : td = Head(scan)
  BY <1>0, HeadOf
<1>2. CASE UNCHANGED <<td_qpec, pc, api, qhp>>
  <2>1. UNCHANGED AbsEvents
    BY <1>0, <1>2 DEF AbsEvents, EventsOf, InHand
  <2> QED BY <1>0, <2>1, AbsQuiet, AbsStutter
<1>3. CASE /\ td_qpec[td] > 0
           /\ td_qpec' = [td_qpec EXCEPT ![td] = @ - 1]
           /\ qhp' = td_queue[td] /\ api' = "NutThreadResume"
  <2>1. PICK q \in Queue : q = td_queue[td] /\ waitq[q] # <<>> /\ Head(waitq[q]) = td
    BY <1>3 DEF RInv, IInv, PendingAtHead
  <2>2. td \in ToSet(waitq[q]) /\ q \notin signaled
    BY <2>1, StateFacts, HeadOf
  <2>3. EventsOf(q)' = EventsOf(q)
    <3>1. PendingOn(td_qpec', waitq'[q]) = td_qpec[td] - 1 /\ PendingOn(td_qpec, waitq[q]) = td_qpec[td]
      BY <1>0, <1>3, <2>1, StateFacts DEF PendingOn
    <3>2. InHand(q)' = 1 /\ InHand(q) = 0 /\ td_qpec[td] \in Nat
      BY <1>0, <1>3, <2>1, StateFacts DEF InHand
    <3> QED BY <1>0, <2>2, <3>1, <3>2 DEF EventsOf
  <2>4. ASSUME NEW p \in Queue, p # q PROVE EventsOf(p)' = EventsOf(p)
    <3>1. InHand(p)' = 0 /\ InHand(p) = 0
      BY <1>0, <1>3, <2>1, <2>4, StateFacts DEF InHand
    <3>2. td \notin ToSet(waitq[p])
      BY <2>1, <2>2, <2>4, StateFacts
    <3>3. \A u \in ToSet(waitq[p]) : td_qpec'[u] = td_qpec[u]
      BY <1>3, <3>2, StateFacts
    <3>4. PendingOn(td_qpec', waitq[p]) = PendingOn(td_qpec, waitq[p])
      BY <3>3, PendingSameOn, StateFacts
    <3> QED BY <1>0, <3>1, <3>4 DEF EventsOf
  <2>5. UNCHANGED AbsEvents
    BY <2>3, <2>4 DEF AbsEvents
  <2> QED BY <1>0, <2>5, AbsQuiet, AbsStutter
<1> QED BY <1>1, <1>2, <1>3 DEF ResumeScan, HasPending

-----------------------------------------------------------------------------
(* Events come and go without a waiter.                                    *)

\* An event of q is posted, by an interrupt or by a thread that found no waiter.
LEMMA PostIs ==
    ASSUME RInv, NEW q \in Queue,
           UNCHANGED <<waitq, waiting, td_timer, td_priority>>,
           \A p \in Queue : InHand(p)' = InHand(p),
           \/ waitq[q] = <<>> /\ signaled' = signaled \cup {q} /\ UNCHANGED td_qpec
           \/ /\ waitq[q] # <<>> /\ UNCHANGED signaled
              /\ td_qpec' = [td_qpec EXCEPT ![Head(waitq[q])] = @ + 1]
    PROVE  Abs!Post(q)
<1> USE StateFacts
<1>1. waitq[q] = <<>> <=> AbsWaiters[q] = {}
  BY ToSetOf DEF AbsWaiters
<1>2. waitq[q] = <<>> => InHand(q) = 0
  BY DEF InHand, RInv, WaitersKnown, IInv, ControlOK
<1>3. EventsOf(q)' = Abs!Kept(EventsOf(q) + 1, AbsWaiters[q])
  <2>1. CASE waitq[q] = <<>>
    BY <1>1, <1>2, <2>1 DEF EventsOf, PendingOn, Abs!Kept
  <2>2. CASE waitq[q] # <<>>
    <3>1. Head(waitq[q]) \in Thread /\ q \notin signaled
      BY <2>2, HeadOf
    <3>2. PendingOn(td_qpec', waitq[q]) = PendingOn(td_qpec, waitq[q]) + 1
      BY <2>2, <3>1 DEF PendingOn
    <3>3. InHand(q) \in Nat /\ PendingOn(td_qpec, waitq[q]) \in Nat
      BY <2>2, <3>1 DEF InHand, PendingOn
    <3> QED BY <1>1, <2>2, <3>1, <3>2, <3>3 DEF EventsOf, Abs!Kept
  <2> QED BY <2>1, <2>2
<1>4. ASSUME NEW p \in Queue \ {q} PROVE EventsOf(p)' = EventsOf(p)
  <2>1. p \in signaled' <=> p \in signaled
    BY <1>4
  <2>2. \A u \in ToSet(waitq[p]) : td_qpec'[u] = td_qpec[u]
    <3>1. CASE waitq[q] = <<>>
      BY <3>1
    <3>2. CASE waitq[q] # <<>>
      <4>1. Head(waitq[q]) \in ToSet(waitq[q])
        BY <3>2, HeadOf
      <4>2. Head(waitq[q]) \notin ToSet(waitq[p])
        BY <1>4, <4>1
      <4> QED BY <3>2, <4>2
    <3> QED BY <3>1, <3>2
  <2>3. PendingOn(td_qpec', waitq[p]) = PendingOn(td_qpec, waitq[p])
    BY <2>2, PendingSameOn
  <2> QED BY <1>4, <2>1, <2>3 DEF EventsOf
<1>5. AbsEvents' = [AbsEvents EXCEPT ![q] = EventsOf(q)'] /\ AbsEvents[q] = EventsOf(q)
  BY <1>4, EventsAt DEF AbsEvents
<1>6. UNCHANGED <<AbsWaiters, AbsStatus>>
  BY AbsQuiet
<1> QED BY <1>3, <1>5, <1>6 DEF Abs!Post

\* The root of q is cleared.
LEMMA ConsumeIs ==
    ASSUME RInv, NEW q \in Queue,
           UNCHANGED <<waitq, waiting, td_timer, td_priority, td_qpec>>,
           signaled' = signaled \ {q},
           \A p \in Queue : InHand(p) = 0 /\ InHand(p)' = 0
    PROVE  [Abs!Next]_(Abs!vars)
<1>1. \A p \in Queue \ {q} : EventsOf(p)' = EventsOf(p)
  BY DEF EventsOf
<1>2. UNCHANGED <<AbsWaiters, AbsStatus>>
  BY AbsQuiet
<1>3. CASE q \in signaled
  <2>1. EventsOf(q) = 1 /\ EventsOf(q)' = 0 /\ AbsWaiters[q] = {}
    BY <1>3, StateFacts, ToSetOf DEF EventsOf, PendingOn, AbsWaiters
  <2>2. AbsEvents' = [AbsEvents EXCEPT ![q] = 0] /\ AbsEvents[q] = 1
    BY <1>1, <2>1, EventsAt DEF AbsEvents
  <2>3. Abs!Consume(q)
    BY <1>2, <2>1, <2>2 DEF Abs!Consume
  <2> QED BY <2>3 DEF Abs!Next
<1>4. CASE q \notin signaled
  <2>1. UNCHANGED AbsEvents
    BY <1>1, <1>4 DEF AbsEvents, EventsOf
  <2> QED BY <1>2, <2>1, AbsStutter
<1> QED BY <1>3, <1>4

\* The interrupts, and the steps that mark or clear a root.
LEMMA RootSteps ==
    ASSUME RInv,
           \/ \E q \in Queue : IrqPost(q)
           \/ SignalRoot \/ ClearRoot
           \/ \E q \in Queue, d \in Delay : NutEventWaitNext(q, d)
    PROVE  [Abs!Next]_(Abs!vars)
<1>1. ASSUME NEW q \in Queue, IrqPost(q) PROVE [Abs!Next]_(Abs!vars)
  <2>1. /\ UNCHANGED <<waitq, waiting, td_timer, td_priority>>
        /\ \A p \in Queue : InHand(p)' = InHand(p)
    BY <1>1 DEF IrqPost, threadVars, timerVars, cpuVars, InHand
  <2>2. Abs!Post(q)
    BY <1>1, <2>1, PostIs DEF IrqPost
  <2> QED BY <2>2 DEF Abs!Next
<1>2. CASE SignalRoot
  <2>1. qhp \in Queue /\ waitq[qhp] = <<>> /\ pc = "signal"
    BY <1>2 DEF SignalRoot, RInv, IInv, ControlOK
  <2>2. PICK q \in Queue : q = qhp
    BY <2>1
  <2>3. /\ UNCHANGED <<waitq, waiting, td_timer, td_priority, td_qpec>>
        /\ signaled' = signaled \cup {q} /\ api' = NIL
    BY <1>2, <2>2 DEF SignalRoot, Leave, timerVars
  <2>4. \A p \in Queue : InHand(p)' = InHand(p)
    BY <2>1, <2>3, StateFacts, PointerAssumption DEF InHand
  <2>5. Abs!Post(q)
    BY <2>1, <2>2, <2>3, <2>4, PostIs
  <2> QED BY <2>5 DEF Abs!Next
<1>3. CASE ClearRoot
  <2>1. PICK q \in Queue : q = qhp
    BY <1>3 DEF ClearRoot, RInv, IInv, ControlOK
  <2>2. /\ UNCHANGED <<waitq, waiting, td_timer, td_priority, td_qpec>>
        /\ signaled' = signaled \ {q} /\ api' = NIL /\ pc = "clear"
    BY <1>3, <2>1 DEF ClearRoot, Leave, timerVars
  <2>3. \A p \in Queue : InHand(p) = 0 /\ InHand(p)' = 0
    BY <2>2, StateFacts, PointerAssumption DEF InHand
  <2> QED BY <2>2, <2>3, ConsumeIs
<1>4. ASSUME NEW q \in Queue, NEW d \in Delay, NutEventWaitNext(q, d)
      PROVE  [Abs!Next]_(Abs!vars)
  <2>1. /\ UNCHANGED <<waitq, waiting, td_timer, td_priority, td_qpec>>
        /\ signaled' = signaled \ {q} /\ api' = "NutEventWait" /\ pc = "user"
    BY <1>4 DEF NutEventWaitNext, AppRuns, threadVars, timerVars
  <2>2. \A p \in Queue : InHand(p) = 0 /\ InHand(p)' = 0
    BY <2>1, StateFacts DEF InHand
  <2> QED BY <2>1, <2>2, ConsumeIs
<1> QED BY <1>1, <1>2, <1>3, <1>4

-----------------------------------------------------------------------------
(* Threads enter and leave.                                                *)

\* The counters of threads in other queues stay as they are.
LEMMA EnqueueCounters ==
    ASSUME RInv, Enqueue
    PROVE  \A u \in Thread \ (ToSet(waitq[qhp]) \cup {runningThread}) : td_qpec'[u] = td_qpec[u]
<1> DEFINE r == runningThread
           q == qhp
<1>1. IInv /\ ThreadCode /\ q \in Queue /\ r \in App
  BY DEF RInv, IInv, ControlOK, ThreadCode, Enqueue
<1>2. r \in Thread /\ r \in Live /\ td_queue[r] = RunQueue
  BY <1>1, RunningReady
<1>3. /\ waitq' = [waitq EXCEPT ![q] = Enqueued(@, r, td_priority)]
      /\ td_qpec' = PendingAfterAdd(td_qpec, waitq[q], r, td_priority, q \in signaled)
      /\ signaled' = signaled \ {q}
      /\ td_queue' = [td_queue EXCEPT ![r] = q] /\ UNCHANGED td_priority
  BY DEF Enqueue
<1> HIDE DEF r, q
<1>4. \A u \in Thread \ (ToSet(waitq[q]) \cup {r}) : td_qpec'[u] = td_qpec[u]
  BY <1>1, <1>2, <1>3, EnterQueueKeeps
<1> QED BY <1>4 DEF r, q

\* NutEventWait takes its place in the queue.
LEMMA EnterIs == ASSUME RInv, Enqueue PROVE [Abs!Next]_(Abs!vars)
<1> USE StateFacts
<1>0. pc = "enqueue" /\ qhp \in Queue /\ runningThread \in App
  BY DEF Enqueue, RInv, IInv, ControlOK
<1>1. PICK q \in Queue, r \in Thread : q = qhp /\ r = runningThread /\ r \notin waiting
  BY <1>0 DEF RInv, WaitersKnown, ThreadCode, Thread
<1>2. /\ waitq' = [waitq EXCEPT ![q] = Enqueued(@, r, td_priority)]
      /\ td_qpec' = PendingAfterAdd(td_qpec, waitq[q], r, td_priority, q \in signaled)
      /\ signaled' = signaled \ {q}
      /\ waiting' = waiting \cup {r}
      /\ \E h : td_timer' = [td_timer EXCEPT ![r] = h]
      /\ api' = NIL /\ UNCHANGED td_priority
  BY <1>1 DEF Enqueue
<1>3. r \notin ToSet(waitq[q])
  BY <1>1
<1>4. ToSet(waitq'[q]) = ToSet(waitq[q]) \cup {r}
  BY <1>2, EnqueuedSet
<1>5. \A p \in Queue \ {q} : waitq'[p] = waitq[p] /\ (p \in signaled' <=> p \in signaled)
  BY <1>2
<1>6. \A p \in Queue : InHand(p) = 0 /\ InHand(p)' = 0
  BY <1>0, <1>2, PointerAssumption DEF InHand
<1>7. AbsWaiters' = [AbsWaiters EXCEPT ![q] = @ \cup {r}]
  BY <1>4, <1>5 DEF AbsWaiters
<1>8. AbsStatus[r] = "out" /\ AbsStatus' = [AbsStatus EXCEPT ![r] = "waiting"]
  <2>1. StatusOf(r) = "out" /\ StatusOf(r)' = "waiting"
    BY <1>1, <1>2, <1>4 DEF StatusOf
  <2>2. \A t \in Thread \ {r} : StatusOf(t)' = StatusOf(t)
    <3>1. \A t \in Thread \ {r}, p \in Queue : t \in ToSet(waitq'[p]) <=> t \in ToSet(waitq[p])
      BY <1>4, <1>5
    <3>2. \A t \in Thread \ {r} : td_timer'[t] = td_timer[t] /\ (t \in waiting' <=> t \in waiting)
      BY <1>2
    <3> QED BY <3>1, <3>2, StatusSame
  <2> QED BY <2>1, <2>2 DEF AbsStatus
<1>9. PendingOn(td_qpec', waitq'[q]) = IF q \in signaled THEN 1 ELSE PendingOn(td_qpec, waitq[q])
  <2> DEFINE s == waitq[q]
             e == Enqueued(s, r, td_priority)
             m(sig) == PendingAfterAdd(td_qpec, s, r, td_priority, sig)
  <2>1. /\ q \in signaled => s = <<>>
        /\ r \in Thread \ ToSet(s) /\ s \in Seq(Thread) /\ IsInjective(s)
    BY <1>3
  <2>2. ASSUME NEW sig \in BOOLEAN, sig => s = <<>>
        PROVE  PendingOn(m(sig), e) = IF sig THEN 1 ELSE PendingOn(td_qpec, s)
    BY <2>1, <2>2, PendingOnAdd
  <2>3. td_qpec' = IF q \in signaled THEN m(TRUE) ELSE m(FALSE)
    BY <1>2 DEF PendingAfterAdd
  <2>4. waitq'[q] = e
    BY <1>2
  <2> HIDE DEF m, e
  <2>5. CASE q \in signaled
    BY <2>1, <2>2, <2>3, <2>4, <2>5
  <2>6. CASE q \notin signaled
    BY <2>2, <2>3, <2>4, <2>6
  <2> QED BY <2>5, <2>6
<1>10. \A p \in Queue : EventsOf(p)' = EventsOf(p)
  <2>1. EventsOf(q)' = EventsOf(q)
    <3>1. PendingOn(td_qpec, waitq[q]) \in Nat /\ q \notin signaled'
      BY <1>2, HeadOf DEF PendingOn
    <3> QED BY <1>6, <1>9, <3>1 DEF EventsOf
  <2>2. ASSUME NEW p \in Queue \ {q} PROVE EventsOf(p)' = EventsOf(p)
    <3>1. \A u \in ToSet(waitq[p]) : u \in Thread \ (ToSet(waitq[q]) \cup {r})
      BY <1>1, <2>2, ToSetOf
    <3>2. \A u \in Thread \ (ToSet(waitq[q]) \cup {r}) : td_qpec'[u] = td_qpec[u]
      BY <1>1, EnqueueCounters
    <3>3. PendingOn(td_qpec', waitq[p]) = PendingOn(td_qpec, waitq[p])
      BY <3>1, <3>2, PendingSameOn
    <3> QED BY <1>5, <1>6, <2>2, <3>3 DEF EventsOf
  <2> QED BY <2>1, <2>2
<1>11. UNCHANGED AbsEvents
  BY <1>10 DEF AbsEvents
<1>12. Abs!Enter(r, q)
  BY <1>2, <1>7, <1>8, <1>11 DEF Abs!Enter
<1> QED BY <1>12 DEF Abs!Next

\* A thread is taken out of its queue; what was pending on it stays with the queue.
LEMMA ReleaseIs ==
    ASSUME RInv, NEW q \in Queue, NEW t \in Thread, t \in ToSet(waitq[q]), LeaveQueue(t, q),
           NEW h, td_timer' = [td_timer EXCEPT ![t] = h],
           UNCHANGED <<waiting, td_priority>>,
           \A p \in Queue : InHand(p)' = 0, \A p \in Queue \ {q} : InHand(p) = 0
    PROVE  Abs!Release(t, q, IF h = SIGNALED THEN "timeout" ELSE "event",
                       PendingOn(td_qpec, waitq[q]))
<1> USE StateFacts
<1> DEFINE s == waitq[q]
           e == Dequeued(s, t)
           P == PendingOn(td_qpec, s)
<1>1. /\ waitq' = [waitq EXCEPT ![q] = e]
      /\ td_qpec' = PendingAfterLeave(td_qpec, s, t)
      /\ signaled' = IF SignalsOnLeave(td_qpec, s, t) THEN signaled \cup {q} ELSE signaled
  BY DEF LeaveQueue
<1>2. /\ e \in Seq(Thread) /\ ToSet(e) = ToSet(s) \ {t}
      /\ s # <<>> /\ q \notin signaled /\ P \in Nat
  BY DequeuedSet, ToSetOf, HeadOf DEF PendingOn
<1>3. /\ e # <<>> => PendingOn(td_qpec', e) = P /\ ~SignalsOnLeave(td_qpec, s, t)
      /\ e = <<>> => (SignalsOnLeave(td_qpec, s, t) <=> P > 0)
      /\ \A u \in Thread \ ToSet(s) : td_qpec'[u] = td_qpec[u]
  BY <1>1, PendingOnLeave, LeavePending
<1> HIDE DEF e
<1>4. /\ waitq'[q] = e
      /\ \A p \in Queue \ {q} : waitq'[p] = waitq[p] /\ (p \in signaled' <=> p \in signaled)
      /\ q \in signaled' <=> SignalsOnLeave(td_qpec, s, t)
  BY <1>1, <1>2
<1>5. AbsWaiters' = [AbsWaiters EXCEPT ![q] = @ \ {t}] /\ t \in AbsWaiters[q]
  BY <1>2, <1>4 DEF AbsWaiters
<1>6. AbsStatus' = [AbsStatus EXCEPT ![t] = IF h = SIGNALED THEN "timeout" ELSE "event"]
  <2>1. t \in waiting /\ td_timer'[t] = h
    OBVIOUS
  <2>2. \A p \in Queue : t \notin ToSet(waitq'[p])
    BY <1>2, <1>4
  <2>3. StatusOf(t)' = IF h = SIGNALED THEN "timeout" ELSE "event"
    BY <2>1, <2>2 DEF StatusOf
  <2>4. \A u \in Thread \ {t} : StatusOf(u)' = StatusOf(u)
    <3>1. \A u \in Thread \ {t}, p \in Queue : u \in ToSet(waitq'[p]) <=> u \in ToSet(waitq[p])
      BY <1>2, <1>4
    <3>2. \A u \in Thread \ {t} : td_timer'[u] = td_timer[u]
      OBVIOUS
    <3> QED BY <3>1, <3>2, StatusSame
  <2> QED BY <2>3, <2>4 DEF AbsStatus
<1>7. EventsOf(q)' = Abs!Kept(P, AbsWaiters[q] \ {t})
  <2>1. AbsWaiters[q] \ {t} = {} <=> e = <<>>
    BY <1>2, ToSetOf DEF AbsWaiters
  <2>2. CASE e # <<>>
    BY <1>2, <1>3, <1>4, <2>1, <2>2 DEF EventsOf, Abs!Kept
  <2>3. CASE e = <<>>
    <3>1. EventsOf(q)' = IF P > 0 THEN 1 ELSE 0
      BY <1>3, <1>4, <2>3 DEF EventsOf, PendingOn
    <3> QED BY <1>2, <2>1, <2>3, <3>1 DEF Abs!Kept
  <2> QED BY <2>2, <2>3
<1>8. ASSUME NEW p \in Queue \ {q} PROVE EventsOf(p)' = EventsOf(p)
  <2>1. \A u \in ToSet(waitq[p]) : td_qpec'[u] = td_qpec[u]
    BY <1>3, <1>8, ToSetOf
  <2>2. PendingOn(td_qpec', waitq[p]) = PendingOn(td_qpec, waitq[p])
    BY <2>1, PendingSameOn
  <2> QED BY <1>4, <1>8, <2>2 DEF EventsOf
<1>9. AbsEvents' = [AbsEvents EXCEPT ![q] = EventsOf(q)']
  BY <1>8, EventsAt
<1> QED BY <1>5, <1>6, <1>7, <1>9 DEF Abs!Release

\* A post, a broadcast or NutThreadResume wakes the first waiter.
LEMMA WakeIs == ASSUME RInv, WakeHead PROVE [Abs!Next]_(Abs!vars)
<1> USE StateFacts
<1>0. /\ pc = "wake" /\ UNCHANGED <<waiting, td_priority>> /\ api' \in {api, NIL}
      /\ IInv /\ WaitersOrdered
  BY WakeHeadMoves DEF WakeHead, RInv, IInv
<1>1. PICK q \in Queue, t \in Thread :
        /\ q = qhp /\ t = Head(waitq[q]) /\ t \in ToSet(waitq[q])
        /\ LeaveQueue(t, q) /\ td_timer' = [td_timer EXCEPT ![t] = NIL]
  BY <1>0, WakeHeadMoves
<1>2. \A p \in Queue : InHand(p)' = 0
  <2>1. CASE api' = NIL
    BY <2>1, PointerAssumption DEF InHand
  <2>2. CASE api \in Bcast /\ api' = api
    BY <2>2 DEF Bcast, InHand
  <2>3. api' = NIL \/ (api \in Bcast /\ api' = api)
    BY DEF WakeHead, Leave, WakesMore
  <2> QED BY <2>1, <2>2, <2>3
<1>3. /\ \A p \in Queue \ {q} : InHand(p) = 0
      /\ InHand(q) = IF api = "NutThreadResume" THEN 1 ELSE 0
  BY <1>1 DEF InHand
<1>4. Abs!Release(t, q, "event", PendingOn(td_qpec, waitq[q]))
  BY <1>0, <1>1, <1>2, <1>3, ReleaseIs, PointerAssumption
<1>5. Abs!MostUrgent(t, q)
  <2>1. waitq[q] # <<>> /\ PriorityOrdered(waitq[q], td_priority) /\ waitq[q] \in Seq(Thread)
    BY <1>0, <1>1, ToSetOf DEF WaitersOrdered
  <2>2. \A u \in ToSet(waitq[q]) : td_priority[t] <= td_priority[u]
    BY <1>1, <2>1, TailOrdered
  <2> QED BY <2>2 DEF Abs!MostUrgent, AbsWaiters
<1>6. PICK P \in Nat :
        P = PendingOn(td_qpec, waitq[q]) /\ AbsEvents[q] = InHand(q) + P
  <2>1. waitq[q] # <<>> /\ q \notin signaled
    BY <1>1, ToSetOf
  <2> QED BY <2>1, HeadOf DEF PendingOn, AbsEvents, EventsOf
<1>7. CASE api = "NutThreadResume"
  <2>1. AbsEvents[q] > 0 /\ AbsEvents[q] - 1 = PendingOn(td_qpec, waitq[q])
    <3>1. AbsEvents[q] = 1 + P
      BY <1>3, <1>6, <1>7
    <3>2. 1 + P > 0 /\ (1 + P) - 1 = P
      OBVIOUS
    <3> QED BY <1>6, <3>1, <3>2
  <2>2. Abs!Deliver(t, q)
    BY <1>4, <1>5, <2>1 DEF Abs!Deliver
  <2> QED BY <2>2 DEF Abs!Next
<1>8. CASE api # "NutThreadResume"
  <2>1. AbsEvents[q] = PendingOn(td_qpec, waitq[q])
    BY <1>3, <1>6, <1>8
  <2>2. Abs!PostDirect(t, q)
    BY <1>4, <1>5, <2>1 DEF Abs!PostDirect
  <2> QED BY <2>2 DEF Abs!Next
<1> QED BY <1>7, <1>8

\* A timer elapses: the timeout of a waiter, or something the queues do not see.
LEMMA ElapseIs == ASSUME RInv, TimerElapse PROVE [Abs!Next]_(Abs!vars)
<1> USE StateFacts
<1>0. IInv /\ pc = "elapsed" /\ UNCHANGED <<td_priority, waiting, api, qhp>>
  BY TimerElapseMoves DEF TimerElapse, RInv
<1>1. /\ \A p \in Queue : InHand(p) = 0 /\ InHand(p)' = 0
      /\ UNCHANGED eventVars => UNCHANGED AbsEvents /\ UNCHANGED waitq
  BY <1>0 DEF InHand, AbsEvents, EventsOf, eventVars
<1>2. CASE UNCHANGED <<eventVars, td_timer>>
  BY <1>0, <1>1, <1>2, AbsQuiet, AbsStutter
<1>3. ASSUME NEW t \in Thread, td_queue[t] = NIL, UNCHANGED eventVars,
             td_timer' = [td_timer EXCEPT ![t] = NIL], td_timer[t] \in Timer
      PROVE  [Abs!Next]_(Abs!vars)
  <2>1. td_timer[t] # SIGNALED /\ td_timer'[t] # SIGNALED
    BY <1>3, PointerAssumption
  <2>2. \A u \in Thread : StatusOf(u)' = StatusOf(u)
    BY <1>0, <1>1, <1>3, <2>1 DEF StatusOf
  <2>3. UNCHANGED <<AbsWaiters, AbsStatus>>
    BY <1>1, <1>3, <2>2 DEF AbsWaiters, AbsStatus
  <2> QED BY <1>0, <1>1, <1>3, <2>3, AbsStutter
<1>4. ASSUME NEW t \in Thread, NEW q \in Queue, t \in ToSet(waitq[q]), LeaveQueue(t, q),
             td_timer' = [td_timer EXCEPT ![t] = SIGNALED]
      PROVE  [Abs!Next]_(Abs!vars)
  <2>1. Abs!Release(t, q, "timeout", PendingOn(td_qpec, waitq[q]))
    BY <1>0, <1>1, <1>4, ReleaseIs
  <2>2. q \notin signaled /\ PendingOn(td_qpec, waitq[q]) \in Nat
    BY <1>4, ToSetOf, HeadOf DEF PendingOn
  <2>3. AbsEvents[q] = PendingOn(td_qpec, waitq[q])
    BY <1>1, <2>2 DEF AbsEvents, EventsOf
  <2>4. Abs!Expire(t, q)
    BY <2>1, <2>3 DEF Abs!Expire
  <2> QED BY <2>4 DEF Abs!Next
<1> QED BY <1>0, <1>2, <1>3, <1>4, TimerElapseMoves

\* The end of NutEventWait.
LEMMA ReturnIs == ASSUME RInv, WaitReturn PROVE [Abs!Next]_(Abs!vars)
<1> USE StateFacts
<1> DEFINE r == runningThread
<1>0. /\ pc = "return" /\ r \in Thread /\ r \in waiting
      /\ waiting' = waiting \ {r} /\ \A t \in Thread \ {r} : td_timer'[t] = td_timer[t]
      /\ UNCHANGED <<waitq, td_qpec, signaled, td_priority, api, qhp>>
  BY DEF WaitReturn, RInv, IInv, TypeOK, WaitersKnown, eventVars
<1>1. \A p \in Queue : r \notin ToSet(waitq[p])
  <2>1. td_queue[r] = RunQueue
    BY <1>0 DEF RInv, IInv, ControlOK, ThreadCode, ThreadsPlaced
  <2> QED BY <1>0, <2>1, PointerAssumption DEF RInv, IInv, ThreadsPlaced
<1> HIDE DEF r
<1>2. StatusOf(r) \in {"event", "timeout"} /\ r \notin waiting'
  BY <1>0, <1>1 DEF StatusOf
<1>3. \A t \in Thread \ {r} : StatusOf(t)' = StatusOf(t)
  BY <1>0, StatusSame
<1>4. AbsStatus' = [AbsStatus EXCEPT ![r] = "out"] /\ AbsStatus[r] \in {"event", "timeout"}
  <2>1. \A t \in Thread : StatusOf(t)' = IF t = r THEN "out" ELSE StatusOf(t)
    BY <1>2, <1>3 DEF StatusOf
  <2> QED BY <1>0, <1>2, <2>1 DEF AbsStatus
<1>5. UNCHANGED <<AbsWaiters, AbsEvents>>
  BY <1>0 DEF AbsWaiters, AbsEvents, EventsOf, InHand
<1>6. Abs!Return(r)
  BY <1>0, <1>4, <1>5 DEF Abs!Return
<1> QED BY <1>0, <1>6 DEF Abs!Next

\* A thread that is not waiting changes its priority, or a new one gets its first.
LEMMA ReprioritizeIs ==
    ASSUME RInv, NEW r \in Thread, r \notin waiting, \A p \in Queue : r \notin ToSet(waitq[p]),
           UNCHANGED <<waitq, signaled, waiting, api, qhp>>,
           td_priority' \in [Thread -> Nat],
           \A t \in Thread \ {r} :
               /\ td_priority'[t] = td_priority[t] /\ td_qpec'[t] = td_qpec[t]
               /\ td_timer'[t] = td_timer[t]
    PROVE  Abs!Reprioritize(r)
<1> USE StateFacts
<1>1. UNCHANGED <<AbsWaiters, AbsStatus>>
  BY AbsQuiet
<1>2. \A p \in Queue : EventsOf(p)' = EventsOf(p)
  <2>1. ASSUME NEW p \in Queue
        PROVE  PendingOn(td_qpec', waitq[p]) = PendingOn(td_qpec, waitq[p])
    <3>1. \A u \in ToSet(waitq[p]) : td_qpec'[u] = td_qpec[u]
      BY ToSetOf
    <3> QED BY <3>1, PendingSameOn
  <2> QED BY <2>1 DEF EventsOf, InHand
<1>3. UNCHANGED AbsEvents
  BY <1>2 DEF AbsEvents
<1>4. AbsStatus[r] = "out"
  BY DEF AbsStatus, StatusOf
<1> QED BY <1>1, <1>3, <1>4 DEF Abs!Reprioritize

\* NutThreadSetPriority and NutThreadCreate.
LEMMA PrioritySteps ==
    ASSUME RInv,
           \/ \E l \in Level : NutThreadSetPriority(l)
           \/ \E t \in App : NutThreadCreate(t)
    PROVE  [Abs!Next]_(Abs!vars)
<1> USE StateFacts
<1>1. ASSUME NEW l \in Level, NutThreadSetPriority(l) PROVE [Abs!Next]_(Abs!vars)
  <2>1. PICK r \in Thread : r = runningThread /\ r \notin waiting
    BY <1>1 DEF NutThreadSetPriority, AppRuns, RInv, WaitersKnown, ThreadCode, Thread
  <2>2. td_priority' = [td_priority EXCEPT ![r] = l] /\ l \in Nat
    BY <1>1, <2>1, PriorityAssumption DEF NutThreadSetPriority
  <2>3. UNCHANGED <<waitq, signaled, waiting, api, qhp, td_qpec, td_timer>>
    BY <1>1 DEF NutThreadSetPriority, eventVars, timerVars
  <2>4. Abs!Reprioritize(r)
    BY <2>1, <2>2, <2>3, ReprioritizeIs
  <2> QED BY <2>4 DEF Abs!Next
<1>2. ASSUME NEW r \in App, NutThreadCreate(r) PROVE [Abs!Next]_(Abs!vars)
  <2>1. r \in Thread /\ r \notin waiting
    BY <1>2 DEF NutThreadCreate, RInv, WaitersKnown, Live, Thread
  <2>2. /\ td_priority' = [td_priority EXCEPT ![r] = Default] /\ Default \in Nat
        /\ td_timer' = [td_timer EXCEPT ![r] = NIL] /\ td_qpec' = [td_qpec EXCEPT ![r] = 0]
    BY <1>2, PriorityAssumption DEF NutThreadCreate
  <2>3. UNCHANGED <<waitq, signaled, waiting, api, qhp>>
    BY <1>2 DEF NutThreadCreate
  <2>4. Abs!Reprioritize(r)
    BY <2>1, <2>2, <2>3, ReprioritizeIs
  <2> QED BY <2>1, <2>4 DEF Abs!Next
<1> QED BY <1>1, <1>2

-----------------------------------------------------------------------------
(* The refinement.                                                         *)

\* Every step of the kernel is a step of the abstract queues or a stutter.
LEMMA NextImplements == RInv /\ [Next]_vars => [Abs!Next]_(Abs!vars)
<1> SUFFICES ASSUME RInv, [Next]_vars PROVE [Abs!Next]_(Abs!vars)
  OBVIOUS
<1>1. CASE Interrupt
  <2>1. IrqTick \/ \E q \in Queue : IrqPost(q)
    BY <1>1 DEF Interrupt
  <2> QED BY <2>1, QuietSteps, RootSteps
<1>2. CASE UserCall
  <2>1. CASE \E q \in Queue, d \in Delay : NutEventWaitNext(q, d)
    BY <2>1, RootSteps
  <2>2. CASE \/ \E l \in Level : NutThreadSetPriority(l)
             \/ \E t \in App : NutThreadCreate(t)
    BY <2>2, PrioritySteps
  <2>3. CASE \/ \E q \in Queue, d \in Delay : NutEventWait(q, d)
             \/ \E q \in Queue, f \in {"NutEventPostAsync", "NutEventPost"} : PostCall(f, q)
             \/ \E q \in Queue, f \in Bcast : BroadcastCall(f, q)
             \/ \E d \in Delay \ {0} : NutSleep(d)
             \/ NutThreadYield \/ NutThreadExit
    BY <2>3, QuietSteps
  <2> QED BY <1>2, <2>1, <2>2, <2>3 DEF UserCall
<1>3. CASE KernelStep
  <2>1. CASE WaitReadRoot \/ ResumeTicks \/ TimersDone \/ ResumeSwitch
    BY <2>1, QuietSteps
  <2>2. CASE ClearRoot \/ SignalRoot
    BY <2>2, RootSteps
  <2>3. CASE ResumeScan \/ Enqueue \/ WaitReturn \/ WakeHead \/ TimerElapse
    BY <2>3, ScanTakes, EnterIs, ReturnIs, WakeIs, ElapseIs
  <2> QED BY <1>3, <2>1, <2>2, <2>3 DEF KernelStep
<1>4. CASE IdleLoop \/ UNCHANGED vars
  BY <1>4, QuietSteps
<1> QED BY <1>1, <1>2, <1>3, <1>4 DEF Next

\* After boot every queue is empty and no thread waits.
LEMMA InitImplements == Init => Abs!Init
<1> SUFFICES ASSUME Init PROVE Abs!Init
  OBVIOUS
<1>1. \A q \in Queue : ToSet(waitq[q]) = {}
  BY DEF Init, ToSet
<1>2. AbsWaiters = [q \in Queue |-> {}]
  BY <1>1 DEF AbsWaiters
<1>3. AbsEvents = [q \in Queue |-> 0]
  BY PointerAssumption DEF Init, AbsEvents, EventsOf, InHand, PendingOn
<1>4. AbsStatus = [t \in Thread |-> "out"]
  BY DEF Init, AbsStatus, StatusOf
<1>5. td_priority \in [Thread -> Nat]
  BY InitIInv DEF IInv, TypeOK
<1> QED BY <1>2, <1>3, <1>4, <1>5 DEF Abs!Init

\* The interrupts that strike inside the event functions, the counters, timers and
\* queues of the kernel lose no event, duplicate none and wake the right thread: the
\* kernel implements the abstract event queues.
THEOREM KernelImplementsEvents == Spec => ImplementsEventQueue
<1>1. Spec => []RInv
  BY InitRInv, NextRInv, PTL DEF Spec
<1> QED BY <1>1, InitImplements, NextImplements, PTL DEF Spec, ImplementsEventQueue, Abs!Spec

=============================================================================
